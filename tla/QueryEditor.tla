------------------------------- MODULE QueryEditor -------------------------------
(***************************************************************************)
(* Writing, saving and sharing queries in Data Explorer (explorer/views):  *)
(* the playground, where the SQL is typed; the rows of PlaygroundSQL that  *)
(* carry it to the next page; the page of a saved query; and the cache of  *)
(* the tables that the playground lists (explorer/schema).  One user with  *)
(* several tabs; how a query runs is in ExplorerQuery.                     *)
(***************************************************************************)
EXTENDS Naturals, Sequences, FiniteSets, TLC

CONSTANTS EditorTab, Text,
          MaxQueries,   \* bound on the queries saved
          MaxPlays,     \* bound on the rows of PlaygroundSQL
          MaxTextEdits,     \* bound on the texts typed
          MaxGrants,    \* bound on the changes of what the user may read
          LastMinute    \* bound on time; a list is cached for one of these minutes

VARIABLES queries,     \* Query: number -> [sql, saved: what the user saved last]
          plays,       \* PlaygroundSQL: number -> SQL
          editor,      \* tab -> the page it shows, or the request it made
          shared,      \* emails with SQL: <<what the user saw, what was sent>>
          reverted,    \* queries that a view of their page wrote back
          grants,      \* [version, since]: what the user may read, and since when
          listCache,   \* the cached list: [version, stored], version 0 when there is none
          listCall,    \* tab -> version of the list it has read and not stored yet
          clearing, editorClock, editorBudget

editorVars == <<queries, plays, editor, shared, reverted, grants, listCache, listCall,
                clearing, editorClock, editorBudget>>
lists == <<grants, listCache, listCall, clearing, editorClock>>
texts == <<queries, plays, editor, shared, reverted>>

NoSql == ""   \* nothing typed
Playground(sql, q) == [at |-> "play", sql |-> sql, query |-> q]
EditorInit ==
  /\ queries = <<>> /\ plays = <<>> /\ shared = {} /\ reverted = {}
  /\ editor = [t \in EditorTab |-> Playground(NoSql, 0)]
  /\ grants = [version |-> 1, since |-> 0] /\ listCache = [version |-> 0, stored |-> 0]
  /\ listCall = [t \in EditorTab |-> 0] /\ clearing = FALSE /\ editorClock = 0
  /\ editorBudget = [edits |-> MaxTextEdits, grants |-> MaxGrants]

InTab(t, at) == editor[t].at = at
Turns(t, page) == editor' = [editor EXCEPT ![t] = page]
Gone(q) == q # 0 => queries[q].sql = "deleted"

(***************************************************************************)
(* The playground.                                                         *)
(***************************************************************************)
TypeSql(t, sql) ==
  /\ InTab(t, "play") /\ editor[t].sql # sql /\ editorBudget.edits > 0
  /\ editor' = [editor EXCEPT ![t].sql = sql]
  /\ editorBudget' = [editorBudget EXCEPT !.edits = @ - 1]
  /\ UNCHANGED <<queries, plays, shared, reverted, lists>>
\* get_or_create: one row for each SQL, but nothing keeps two requests from making two;
\* with two, the same SQL ends with MultipleObjectsReturned from then on.
PlaysOf(sql) == {i \in 1..Len(plays) : plays[i] = sql}
FindPlay(t, then) ==
  /\ InTab(t, "play") /\ editor[t].sql # NoSql /\ Cardinality(PlaysOf(editor[t].sql)) < 2
  /\ Turns(t, IF PlaysOf(editor[t].sql) = {}
              THEN [at |-> "make", sql |-> editor[t].sql, query |-> editor[t].query, then |-> then]
              ELSE [at |-> then, sql |-> editor[t].sql, query |-> editor[t].query,
                    play |-> CHOOSE i \in PlaysOf(editor[t].sql) : TRUE])
  /\ UNCHANGED <<queries, plays, shared, reverted, lists, editorBudget>>
MakePlay(t) ==
  /\ InTab(t, "make") /\ Len(plays) < MaxPlays
  /\ plays' = Append(plays, editor[t].sql)
  /\ Turns(t, [at |-> editor[t].then, sql |-> editor[t].sql, query |-> editor[t].query,
               play |-> Len(plays) + 1])
  /\ UNCHANGED <<queries, shared, reverted, lists, editorBudget>>
\* The email has the SQL of the row that play_id names.
Share(t) ==
  /\ InTab(t, "share") /\ shared' = shared \cup {<<editor[t].sql, plays[editor[t].play]>>}
  /\ Turns(t, Playground(plays[editor[t].play], editor[t].query))
  /\ UNCHANGED <<queries, plays, reverted, lists, editorBudget>>

(***************************************************************************)
(* The page of a query that is not saved yet, or is.                       *)
(***************************************************************************)
CreateQuery(t) ==
  /\ InTab(t, "save") /\ editor[t].query = 0 /\ Len(queries) < MaxQueries
  /\ queries' = Append(queries, [sql |-> plays[editor[t].play], saved |-> editor[t].sql])
  /\ Turns(t, [at |-> "detail", query |-> Len(queries) + 1, play |-> 0])
  /\ UNCHANGED <<plays, shared, reverted, lists, editorBudget>>
\* QueryView.get saves the row it has read, for its date.
ViewQuery(t) ==
  /\ editor[t].at \in {"detail", "save"} /\ editor[t].query # 0 /\ ~Gone(editor[t].query)
  /\ Turns(t, [at |-> "viewing", query |-> editor[t].query, play |-> editor[t].play,
               row |-> queries[editor[t].query], sql |-> IF editor[t].at = "save"
                                                         THEN editor[t].sql ELSE NoSql])
  /\ UNCHANGED <<queries, plays, shared, reverted, lists, editorBudget>>
\* Mutant: the form has already written the SQL of the playground into it.
SaveViewedEdited(t) ==
  /\ InTab(t, "viewing")
  /\ queries' = IF editor[t].play = 0 THEN queries
                ELSE [queries EXCEPT ![editor[t].query].sql = plays[editor[t].play]]
  /\ Turns(t, [at |-> "page", query |-> editor[t].query, play |-> editor[t].play,
               sql |-> editor[t].sql])
  /\ UNCHANGED <<plays, shared, reverted, lists, editorBudget>>
SaveViewed(t) ==
  /\ InTab(t, "viewing")
  /\ queries' = [queries EXCEPT ![editor[t].query].sql = editor[t].row.sql]
  /\ reverted' = IF queries[editor[t].query] = editor[t].row THEN reverted
                 ELSE reverted \cup {editor[t].query}
  /\ Turns(t, [at |-> "page", query |-> editor[t].query, play |-> editor[t].play,
               sql |-> editor[t].sql])
  /\ UNCHANGED <<plays, shared, lists, editorBudget>>
\* The form of the page shows the SQL of the playground when there is one.
FormSql(t) == IF editor[t].play = 0 THEN queries[editor[t].query].sql ELSE plays[editor[t].play]
SaveQuery(t) ==
  /\ InTab(t, "page") /\ editor[t].play # 0 /\ ~Gone(editor[t].query)
  /\ queries' = [queries EXCEPT ![editor[t].query] =
                   [sql |-> FormSql(t), saved |-> editor[t].sql]]
  /\ reverted' = reverted \ {editor[t].query}
  /\ Turns(t, [at |-> "detail", query |-> editor[t].query, play |-> 0])
  /\ UNCHANGED <<plays, shared, lists, editorBudget>>
\* Back to the playground, with the SQL of the row or of play_id.
EditAgain(t) ==
  /\ InTab(t, "page") /\ ~Gone(editor[t].query)
  /\ Turns(t, Playground(FormSql(t), editor[t].query))
  /\ UNCHANGED <<queries, plays, shared, reverted, lists, editorBudget>>
OpenQuery(t, q) ==
  /\ InTab(t, "play") /\ ~Gone(q) /\ Turns(t, [at |-> "detail", query |-> q, play |-> 0])
  /\ UNCHANGED <<queries, plays, shared, reverted, lists, editorBudget>>
DeleteQuery(t) ==
  /\ InTab(t, "page") /\ queries[editor[t].query].sql # "deleted"
  /\ queries' = [queries EXCEPT ![editor[t].query] = [sql |-> "deleted", saved |-> "deleted"]]
  /\ Turns(t, Playground(NoSql, 0))
  /\ UNCHANGED <<plays, shared, reverted, lists, editorBudget>>
\* 404: another tab has deleted it.
NotFound(t) ==
  /\ editor[t].at \in {"detail", "save", "page"} /\ editor[t].query # 0 /\ Gone(editor[t].query)
  /\ Turns(t, Playground(NoSql, 0))
  /\ UNCHANGED <<queries, plays, shared, reverted, lists, editorBudget>>

(***************************************************************************)
(* The list of tables (schema_info).                                       *)
(***************************************************************************)
TablesCached == listCache.version # 0 /\ editorClock <= listCache.stored
ReadSchema(t) ==
  /\ InTab(t, "play") /\ listCall[t] = 0 /\ ~TablesCached
  /\ listCall' = [listCall EXCEPT ![t] = grants.version]
  /\ UNCHANGED <<texts, grants, listCache, clearing, editorClock, editorBudget>>
StoreTables(t) ==
  /\ listCall[t] # 0 /\ listCall' = [listCall EXCEPT ![t] = 0]
  /\ listCache' = [version |-> listCall[t], stored |-> editorClock]
  /\ UNCHANGED <<texts, grants, clearing, editorClock, editorBudget>>
\* An administrator changes what the user may read, and clears the cache.
ChangeGrants ==
  /\ ~clearing /\ editorBudget.grants > 0 /\ clearing' = TRUE
  /\ grants' = [version |-> grants.version + 1, since |-> editorClock]
  /\ editorBudget' = [editorBudget EXCEPT !.grants = @ - 1]
  /\ UNCHANGED <<texts, listCache, listCall, editorClock>>
ClearTables ==
  /\ clearing /\ clearing' = FALSE /\ listCache' = [version |-> 0, stored |-> 0]
  /\ UNCHANGED <<texts, grants, listCall, editorClock, editorBudget>>
\* Reading the tables takes less than the minutes a list is kept.
MinuteGoesBy ==
  /\ editorClock < LastMinute /\ editorClock' = editorClock + 1 /\ \A t \in EditorTab : listCall[t] = 0
  /\ UNCHANGED <<texts, grants, listCache, listCall, clearing, editorBudget>>

EditorTexts(t) ==
  \/ \E sql \in Text : TypeSql(t, sql)
  \/ \E then \in {"save", "share"} : FindPlay(t, then)
  \/ MakePlay(t) \/ Share(t) \/ CreateQuery(t)
  \/ ViewQuery(t) \/ SaveViewed(t) \/ SaveQuery(t) \/ EditAgain(t)
  \/ \E q \in 1..Len(queries) : OpenQuery(t, q)
  \/ DeleteQuery(t) \/ NotFound(t)
EditorLists ==
  \/ \E t \in EditorTab : ReadSchema(t) \/ StoreTables(t)
  \/ ChangeGrants \/ ClearTables \/ MinuteGoesBy
EditorNext == (\E t \in EditorTab : EditorTexts(t)) \/ EditorLists
EditorSpec == EditorInit /\ [][EditorNext]_editorVars

(***************************************************************************)
(* Properties.                                                             *)
(***************************************************************************)

(* Types, and what a tab saves or sends is the SQL that was typed in it:   *)
(* the tabs of a user do not get each other's.                             *)
EditorTypeOK ==
  /\ \A q \in 1..Len(queries) : queries[q].sql \in Text \cup {"deleted"}
  /\ \A mail \in shared : mail[1] = mail[2]
  /\ listCache.version <= grants.version

(* A saved query has the SQL that was saved last; only a view of its page  *)
(* that overlapped with the saving can write an old one back.              *)
SavedSqlStays ==
  \A q \in 1..Len(queries) : q \in reverted \/ queries[q].sql = queries[q].saved

(* The list of tables is out of date for no longer than it is cached,      *)
(* though a list that is being read may be stored after the clearing.      *)
ListIsFresh ==
  TablesCached /\ listCache.version # grants.version => editorClock <= grants.since + 1

(***************************************************************************)
(* Why they hold: the row of PlaygroundSQL a page names has the SQL that   *)
(* was typed in its tab, and what the user may read changed only just now  *)
(* when a list is read that is out of date.                                *)
(***************************************************************************)
Sql == Text \cup {"deleted"}
QueryRow == [sql : Sql, saved : Sql]
EditorPage ==
  [at : {"play"}, sql : Sql \cup {NoSql}, query : Nat]
  \cup [at : {"make"}, sql : Sql, query : Nat, then : {"save", "share"}]
  \cup [at : {"save", "share"}, sql : Sql, query : Nat, play : Nat]
  \cup [at : {"detail"}, query : Nat, play : {0}]
  \cup [at : {"viewing"}, query : Nat, play : Nat, row : QueryRow, sql : Sql \cup {NoSql}]
  \cup [at : {"page"}, query : Nat, play : Nat, sql : Sql \cup {NoSql}]
EditorTypes ==
  /\ queries \in Seq(QueryRow) /\ plays \in Seq(Sql)
  /\ editor \in [EditorTab -> EditorPage]
  /\ grants \in [version : Nat \ {0}, since : Nat]
  /\ listCache \in [version : Nat, stored : Nat]
  /\ listCall \in [EditorTab -> Nat] /\ editorClock \in Nat
PlayIs(page) == page.play \in 1..Len(plays) /\ plays[page.play] = page.sql
PageHolds(page) ==
  /\ page.query \in 0..Len(queries)
  /\ page.at \in {"detail", "viewing", "page"} => page.query # 0
  /\ page.at \in {"save", "share"} => PlayIs(page)
  /\ page.at \in {"viewing", "page"} => page.play = 0 \/ PlayIs(page)
ListsRead ==
  /\ \A t \in EditorTab : /\ listCall[t] <= grants.version
                          /\ listCall[t] \notin {0, grants.version} => grants.since = editorClock
  /\ listCache.stored <= editorClock
  /\ listCache.version \notin {0, grants.version} => listCache.stored <= grants.since
EditorInv == /\ EditorTypes
             /\ EditorTypeOK
             /\ SavedSqlStays
             /\ ListsRead
             /\ \A t \in EditorTab : PageHolds(editor[t])

\* Opening pages changes nothing a user saved, and what they list is not older than
\* their cache allows (QueryView.get, explorer/schema.py).
EditorSafety ==
  /\ EditorTypeOK
  /\ SavedSqlStays
  /\ ListIsFresh
===============================================================================

--------------------------- MODULE ExplorerQuery ---------------------------
(***************************************************************************)
(* A query of Data Explorer.  A page submits it: a row of QueryLog is made *)
(* in the admin database and a Celery task is queued.  The task runs the   *)
(* SQL in one transaction of the datasets database, whose result is a      *)
(* table of the user's own schema, and saves the outcome in the row before *)
(* that transaction commits.  Pages poll the row, and read the table once  *)
(* the row is COMPLETE.  Every night the tables of rows older than a day   *)
(* are dropped.                                                            *)
(***************************************************************************)
EXTENDS Naturals

CONSTANTS
    Query,       \* ids of QueryLog rows: one per submitted query
    Tab,         \* pages in browsers
    None,
    MaxFailures  \* bound on failing calls and crashes

ASSUME ExplorerQueryAssumption ==
    /\ None \notin Query
    /\ MaxFailures \in Nat

VARIABLES
    state,     \* QueryLog.state, "ABSENT" before the row is made
    old,       \* run_at is more than a day ago
    table,     \* the table of results: "open" in the task's transaction
    task,      \* where the Celery task of each query is
    tab,       \* what each page waits for or shows
    nightly,   \* where cleanup_temporary_query_tables is
    toDrop,      \* the rows it still has to go through
    failures   \* failing calls and crashes so far

explorerVars == <<state, old, table, task, tab, nightly, toDrop, failures>>

nightlyVars == <<nightly, toDrop>>

BlankTab == [pc |-> "blank", log |-> None]

ExplorerInit ==
    /\ state = [q \in Query |-> "ABSENT"]
    /\ old = [q \in Query |-> FALSE]
    /\ table = [q \in Query |-> "none"]
    /\ task = [q \in Query |-> "none"]
    /\ tab = [t \in Tab |-> BlankTab]
    /\ nightly = "idle"
    /\ toDrop = {}
    /\ failures = 0

Failure == failures < MaxFailures /\ failures' = failures + 1

(***************************************************************************)
(* submit_query_for_execution, called while the page is rendered.          *)
(***************************************************************************)
TabGoto(t, from, to) ==
    /\ tab[t].pc = from
    /\ tab' = [tab EXCEPT ![t].pc = to]

SubmitCreate(t, q) ==
    /\ tab[t].pc \in {"blank", "results", "error"}
    /\ state[q] = "ABSENT"
    /\ state' = [state EXCEPT ![q] = "RUNNING"]
    /\ tab' = [tab EXCEPT ![t] = [pc |-> "submit", log |-> q]]
    /\ UNCHANGED <<old, table, task, nightlyVars, failures>>

SubmitDelay(t) ==
    /\ TabGoto(t, "submit", "poll")
    /\ task' = [task EXCEPT ![tab[t].log] = "queued"]
    /\ UNCHANGED <<state, old, table, nightlyVars, failures>>

\* The broker cannot be reached, or the process stops: the row stays.
SubmitFails(t) ==
    /\ TabGoto(t, "submit", "stuck")
    /\ task' = [task EXCEPT ![tab[t].log] = "ended"]
    /\ Failure
    /\ UNCHANGED <<state, old, table, nightlyVars>>

(***************************************************************************)
(* _run_querylog_query, the Celery task.                                   *)
(***************************************************************************)
TaskGoto(q, from, to) ==
    /\ task[q] = from
    /\ task' = [task EXCEPT ![q] = to]

\* The credentials of the user (DbCredentials) and the connection come before
\* the try block: an exception there leaves the row as it is.
Connect(q) ==
    /\ TaskGoto(q, "queued", "create")
    /\ UNCHANGED <<state, old, table, tab, nightlyVars, failures>>

ConnectFails(q) ==
    /\ TaskGoto(q, "queued", "ended")
    /\ Failure
    /\ UNCHANGED <<state, old, table, tab, nightlyVars>>

\* Mutant: a connection that commits every statement.
CreateTableAutocommit(q) ==
    /\ TaskGoto(q, "create", "insert")
    /\ table' = [table EXCEPT ![q] = "committed"]
    /\ UNCHANGED <<state, old, tab, nightlyVars, failures>>

\* The query without rows, for its columns, and CREATE TABLE.
CreateTable(q) ==
    /\ TaskGoto(q, "create", "insert")
    /\ table' = [table EXCEPT ![q] = "open"]
    /\ UNCHANGED <<state, old, tab, nightlyVars, failures>>

\* INSERT, and the count of all rows.
InsertRows(q) ==
    /\ TaskGoto(q, "insert", "save")
    /\ UNCHANGED <<state, old, table, tab, nightlyVars, failures>>

\* The user's SQL is wrong, takes too long, or the database fails.
SqlFails(q) ==
    /\ \/ TaskGoto(q, "create", "mark")
       \/ TaskGoto(q, "insert", "mark")
    /\ UNCHANGED <<state, old, table, tab, nightlyVars, failures>>

\* Mutant: only the errors of PostgreSQL are caught.
MarkFailedNever(q) ==
    /\ TaskGoto(q, "mark", "end")
    /\ UNCHANGED <<state, old, table, tab, nightlyVars, failures>>

\* _mark_query_log_failed
MarkFailed(q) ==
    /\ TaskGoto(q, "mark", "end")
    /\ state' = [state EXCEPT ![q] = "FAILED"]
    /\ UNCHANGED <<old, table, tab, nightlyVars, failures>>

SaveComplete(q) ==
    /\ TaskGoto(q, "save", "commit")
    /\ state' = [state EXCEPT ![q] = "COMPLETE"]
    /\ UNCHANGED <<old, table, tab, nightlyVars, failures>>

\* Leaving the block of the connection commits; PostgreSQL rolls a
\* transaction back in which a statement has failed.
Commit(q) ==
    /\ TaskGoto(q, "commit", "ended")
    /\ table' = [table EXCEPT ![q] = "committed"]
    /\ UNCHANGED <<state, old, tab, nightlyVars, failures>>

Rollback(q) ==
    /\ TaskGoto(q, "end", "ended")
    /\ table' = [table EXCEPT ![q] = IF @ = "open" THEN "none" ELSE @]
    /\ UNCHANGED <<state, old, tab, nightlyVars, failures>>

\* The worker stops, a save of the row fails, or the database drops the
\* connection, at any point.  Celery has acknowledged the message before it ran
\* the task, so nobody runs it again.
TaskCrash(q) ==
    /\ task[q] \notin {"none", "queued", "ended"}
    /\ Failure
    /\ task' = [task EXCEPT ![q] = "ended"]
    /\ table' = [table EXCEPT ![q] = IF @ = "open" THEN "none" ELSE @]
    /\ UNCHANGED <<state, old, tab, nightlyVars>>

(***************************************************************************)
(* Pages.  explorer_async.js polls QueryLogResultView; an answer that is   *)
(* not JSON ends the polling with an exception in the page.                *)
(***************************************************************************)

\* RunningQueryView: any page of the user, again or for the first time.
Open(t, q) ==
    /\ tab[t].pc \in {"blank", "stuck"}
    /\ state[q] # "ABSENT"
    /\ tab' = [tab EXCEPT ![t] = [pc |-> "poll", log |-> q]]
    /\ UNCHANGED <<state, old, table, task, nightlyVars, failures>>

\* After 0.5 to 5 seconds the page polls again.
Poll(t) ==
    /\ TabGoto(t, "poll", CASE state[tab[t].log] = "RUNNING"  -> "timer"
                            [] state[tab[t].log] = "FAILED"   -> "error"
                            [] state[tab[t].log] = "COMPLETE" -> "fetch")
    /\ UNCHANGED <<state, old, table, task, nightlyVars, failures>>

Timer(t) ==
    /\ TabGoto(t, "timer", "poll")
    /\ UNCHANGED <<state, old, table, task, nightlyVars, failures>>

\* fetch_query_results: for the page, or for a file to be downloaded.
Fetch(t) ==
    /\ \/ TabGoto(t, "fetch", IF table[tab[t].log] = "committed" THEN "results" ELSE "stuck")
       \/ TabGoto(t, "download", IF table[tab[t].log] = "committed" THEN "results" ELSE "error")
    /\ UNCHANGED <<state, old, table, task, nightlyVars, failures>>

Download(t) ==
    /\ TabGoto(t, "results", "download")
    /\ UNCHANGED <<state, old, table, task, nightlyVars, failures>>

RequestFails(t) ==
    /\ tab[t].pc \in {"poll", "fetch", "download"}
    /\ Failure
    /\ tab' = [tab EXCEPT ![t].pc = "stuck"]
    /\ UNCHANGED <<state, old, table, task, nightlyVars>>

(***************************************************************************)
(* cleanup_temporary_query_tables, every night.                            *)
(***************************************************************************)
\* A query is over within hours, but may wait in the queue while no worker
\* runs.
Age(q) ==
    /\ state[q] # "ABSENT"
    /\ task[q] \in {"queued", "ended"}
    /\ old' = [old EXCEPT ![q] = TRUE]
    /\ UNCHANGED <<state, table, task, tab, nightlyVars, failures>>

ListLogs ==
    /\ nightly = "idle"
    /\ nightly' = "run"
    /\ toDrop' = {q \in Query : state[q] # "ABSENT" /\ old[q]}
    /\ UNCHANGED <<state, old, table, task, tab, failures>>

\* GRANT, DROP TABLE IF EXISTS, which does not see a table that is not
\* committed, and REVOKE.
DropTable(q) ==
    /\ nightly = "run"
    /\ q \in toDrop
    /\ toDrop' = toDrop \ {q}
    /\ table' = [table EXCEPT ![q] = IF @ = "committed" THEN "none" ELSE @]
    /\ UNCHANGED <<state, old, task, tab, nightly, failures>>

EndNight ==
    /\ nightly = "run"
    /\ toDrop = {}
    /\ nightly' = "idle"
    /\ UNCHANGED <<state, old, table, task, tab, toDrop, failures>>

\* An exception at one row, or a crash, leaves the rest to the next night.
CleanerFails ==
    /\ nightly = "run"
    /\ Failure
    /\ nightly' = "idle"
    /\ toDrop' = {}
    /\ UNCHANGED <<state, old, table, task, tab>>

(***************************************************************************)
(* The specification.                                                      *)
(***************************************************************************)
TaskStep(q) ==
    \/ Connect(q) \/ CreateTable(q) \/ InsertRows(q) \/ SqlFails(q) \/ MarkFailed(q)
    \/ SaveComplete(q) \/ Commit(q) \/ Rollback(q)

PageStep(t) == SubmitDelay(t) \/ Poll(t) \/ Timer(t) \/ Fetch(t)

NightlyStep == ListLogs \/ (\E q \in Query : DropTable(q)) \/ EndNight

ExplorerNext ==
    \/ \E q \in Query : TaskStep(q) \/ ConnectFails(q) \/ TaskCrash(q) \/ Age(q)
    \/ \E t \in Tab :
          \/ PageStep(t) \/ SubmitFails(t) \/ Download(t) \/ RequestFails(t)
          \/ \E q \in Query : SubmitCreate(t, q) \/ Open(t, q)
    \/ NightlyStep \/ CleanerFails

\* Celery runs the tasks it has accepted and the clean up of every night, pages
\* that are open go on polling and get answers, and days pass.
ExplorerFairness ==
    /\ \A q \in Query : WF_explorerVars(TaskStep(q)) /\ WF_explorerVars(Age(q))
    /\ \A t \in Tab : WF_explorerVars(PageStep(t))
    /\ WF_explorerVars(NightlyStep)

ExplorerSafetySpec == ExplorerInit /\ [][ExplorerNext]_explorerVars

ExplorerSpec == ExplorerSafetySpec /\ ExplorerFairness

(***************************************************************************)
(* Properties.                                                             *)
(***************************************************************************)
Waiting == {"submit", "poll", "timer", "fetch", "download"}

\* The variables have their types; a page that waits for something, or shows
\* results, knows its row, and the row is there.
ExplorerTypeOK ==
    /\ state \in [Query -> {"ABSENT", "RUNNING", "FAILED", "COMPLETE"}]
    /\ old \in [Query -> BOOLEAN]
    /\ table \in [Query -> {"none", "open", "committed"}]
    /\ task \in [Query -> {"none", "queued", "create", "insert", "mark", "save",
                           "commit", "end", "ended"}]
    /\ tab \in [Tab -> [pc : Waiting \cup {"blank", "results", "error", "stuck"},
                        log : Query \cup {None}]]
    /\ nightly \in {"idle", "run"}
    /\ toDrop \subseteq Query
    /\ failures \in 0 .. MaxFailures
    /\ \A t \in Tab :
          tab[t].pc \in Waiting \cup {"results"} =>
             tab[t].log \in Query /\ state[tab[t].log] # "ABSENT"

\* The two databases agree in one direction, whatever fails: a table of
\* results that others can see belongs to a row that is COMPLETE, never to one
\* that failed or that is left RUNNING, because the row is saved first and the
\* table is made in one transaction.
TableHasLog ==
    \A q \in Query : table[q] = "committed" => state[q] = "COMPLETE"

\* Results that a page shows can be downloaded for the rest of the day, also
\* if the clean up runs meanwhile.
ShownResultsStay ==
    \A t \in Tab :
       tab[t].pc \in {"results", "download"} /\ ~ old[tab[t].log]
          => table[tab[t].log] = "committed"

\* A crash, or an exception before the try block, has lost the query: its row
\* says RUNNING, and nothing will change that.
Lost(q) == failures > 0 /\ state[q] = "RUNNING" /\ task[q] = "ended"

\* A page that polls comes to an end, with the results, the error of the query,
\* whatever is wrong with its SQL, or a request that failed, unless the query
\* was lost.
PageEnds ==
    \A t \in Tab :
       tab[t].pc = "poll" ~> \/ tab[t].pc \in {"results", "error", "stuck"}
                             \/ tab[t].log # None /\ Lost(tab[t].log)

\* No table stays for ever, though a night's clean up may end half-way.
TablesGo == \A q \in Query : table[q] = "committed" ~> table[q] # "committed"

(***************************************************************************)
(* What ties the parts together, for the proofs.                           *)
(***************************************************************************)
TaskInv ==
    \A q \in Query :
       /\ state[q] = "ABSENT" => task[q] = "none" /\ table[q] = "none" /\ ~ old[q]
       /\ task[q] \in {"none", "queued", "create"} => table[q] = "none"
       /\ task[q] \in {"none", "queued", "create", "insert", "mark", "save"}
             => state[q] \in {"ABSENT", "RUNNING"}
       /\ task[q] \in {"insert", "mark", "save", "commit", "end"} => table[q] # "committed"
       /\ task[q] = "commit" => state[q] = "COMPLETE"
       /\ task[q] = "end" => state[q] = "FAILED"

SubmitInv ==
    /\ \A t \in Tab : tab[t].pc = "submit" => task[tab[t].log] = "none"
    /\ \A t, u \in Tab :
          tab[t].pc = "submit" /\ tab[u].pc = "submit" /\ tab[t].log = tab[u].log => t = u

OldInv == \A q \in toDrop : old[q]

ExplorerInv ==
    ExplorerTypeOK /\ TaskInv /\ SubmitInv /\ OldInv /\ TableHasLog /\ ShownResultsStay

\* A poll that finds the row COMPLETE gets the results: tests/explorer says of
\* a row that is COMPLETE that the view answers with status 200.
CompleteIsReadable ==
    \A t \in Tab :
       tab[t].pc = "fetch" /\ ~ old[tab[t].log] => table[tab[t].log] = "committed"

\* The two databases agree about results: a table that others can see has a row that
\* says COMPLETE, and the results of today that a page shows are still there, whatever
\* task fails (_run_querylog_query, cleanup_temporary_query_tables).
ExplorerSafety ==
  /\ ExplorerTypeOK
  /\ TableHasLog
  /\ ShownResultsStay

\* Nothing lasts for ever: a page that waits for its query comes to an end, and so does
\* a table of results (explorer_async.js, cleanup_temporary_query_tables).
ExplorerEnds ==
  /\ PageEnds
  /\ TablesGo
=============================================================================

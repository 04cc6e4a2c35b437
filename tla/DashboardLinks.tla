----------------------------- MODULE DashboardLinks -----------------------------
(***************************************************************************)
(* What the catalogue says of dashboards (apps/datasets/utils.py): two     *)
(* tasks, every five minutes, look each dashboard up in QuickSight or in   *)
(* Superset and store its SQL, the date of its data and the datasets its   *)
(* tables are from.  A run that takes longer than that overlaps the next.  *)
(***************************************************************************)
EXTENDS Naturals

CONSTANTS DashRun,              \* slots of the runs of the tasks
          QuickLink, SuperLink, \* links to dashboards of QuickSight, and of Superset
          MaxDashEdits,         \* bound on the edits of dashboards and links
          MaxDashRuns           \* bound on the runs

VARIABLES dashboards,  \* link -> [of: what its data set is, sql, at: when it changed]
          links,       \* links that are there, of items that are not deleted
          latest,      \* link -> SQL -> rows of VisualisationLinkSqlQuery with is_latest
          shownDate,   \* link -> data_source_last_updated
          related,     \* link -> datasets related to its item
          dashRun,     \* slot -> the run, between its calls
          spoiled,     \* links of which two runs replaced the latest query at once
          passed,      \* links a run went through since they changed
          dashBudget

dashVars == <<dashboards, links, latest, shownDate, related, dashRun, spoiled, passed,
              dashBudget>>
Link == QuickLink \cup SuperLink
ASSUME DashAssumption ==
  /\ QuickLink \cap SuperLink = {} /\ {} \notin Link
  /\ MaxDashEdits \in Nat /\ MaxDashRuns \in Nat
DashSql == {"s1", "s2"}
DataSetKind == {"table", "sql", "spice", "s3"}
NoDashRun == [at |-> "none", task |-> "none", todo |-> {}, link |-> {},
          of |-> "s3", sql |-> "s1", when |-> 0, fresh |-> FALSE]
ToNext(task, todo) == [at |-> "next", task |-> task, todo |-> todo, link |-> {},
          of |-> "s3", sql |-> "s1", when |-> 0, fresh |-> FALSE]
Dates == 0..MaxDashEdits

DashInit ==
  /\ dashboards = [l \in Link |-> [of |-> IF l \in QuickLink THEN "s3" ELSE "sql",
                                   sql |-> "s1", at |-> 0]]
  /\ links = Link /\ latest = [l \in Link |-> [s \in DashSql |-> 0]]
  /\ shownDate = [l \in Link |-> 0] /\ related = [l \in Link |-> {}]
  /\ dashRun = [r \in DashRun |-> NoDashRun] /\ spoiled = {} /\ passed = {}
  /\ dashBudget = [edits |-> 0, runs |-> 0]

\* The dataset whose source table the SQL reads, by the name of the SQL; the
\* tables of data sets in SPICE that are no SQL, and files, are not looked at.
DatasetsOf(of, sql) == IF of = "s3" THEN {} ELSE {sql}
HasSql(of) == of \in {"sql", "spice"}
LatestCount(l) == latest[l]["s1"] + latest[l]["s2"]
Replaces(r, l) == dashRun[r].link = l /\ dashRun[r].at \in {"unset", "create"}
OtherReplaces(r) == \E o \in DashRun \ {r} : Replaces(o, dashRun[r].link)
OneReplaces(l) == \A r, o \in DashRun : Replaces(r, l) /\ Replaces(o, l) => r = o
RunTo(r, at) == dashRun' = [dashRun EXCEPT ![r].at = at]

RunAt(r, l) == dashRun[r].link = l
\* A run that is at the link saw it before it changed.
NotFresh(l) == dashRun' = [r \in DashRun |-> [dashRun[r] EXCEPT !.fresh = @ /\ ~RunAt(r, l)]]
EditDashboard(l) ==
  /\ dashBudget.edits < MaxDashEdits
  /\ \E of \in IF l \in QuickLink THEN DataSetKind ELSE {"sql"}, s \in DashSql :
       dashboards' = [dashboards EXCEPT ![l] = [of |-> of, sql |-> s, at |-> dashBudget.edits + 1]]
  /\ dashBudget' = [dashBudget EXCEPT !.edits = @ + 1] /\ passed' = passed \ {l}
  /\ NotFresh(l)
  /\ UNCHANGED <<links, latest, shownDate, related, spoiled>>
\* The admin site deletes the link, and its queries with it.
RemoveLink(l) ==
  /\ dashBudget.edits < MaxDashEdits /\ l \in links /\ links' = links \ {l}
  /\ latest' = [latest EXCEPT ![l] = [s \in DashSql |-> 0]]
  /\ dashBudget' = [dashBudget EXCEPT !.edits = @ + 1]
  /\ spoiled' = IF OneReplaces(l) THEN spoiled \ {l} ELSE spoiled
  /\ passed' = passed \ {l} /\ NotFresh(l)
  /\ UNCHANGED <<dashboards, shownDate, related>>

-----------------------------------------------------------------------------
(* A run.  The links are read once, and looked up one after the other.      *)

StartDash(r) ==
  /\ dashRun[r] = NoDashRun /\ dashBudget.runs < MaxDashRuns
  /\ dashBudget' = [dashBudget EXCEPT !.runs = @ + 1]
  /\ \E task \in {"quick", "super"} :
       dashRun' = [dashRun EXCEPT ![r] =
         ToNext(task, links \cap (IF task = "quick" THEN QuickLink ELSE SuperLink))]
  /\ UNCHANGED <<dashboards, links, latest, shownDate, related, spoiled, passed>>
\* describe_dashboard and describe_data_set, or the datasets of a dashboard of Superset.
Describe(r) ==
  /\ dashRun[r].at = "next"
  /\ \E l \in dashRun[r].todo :
       LET d == dashboards[l]
           at == IF dashRun[r].task = "super" THEN "relate"
                 ELSE IF HasSql(d.of) THEN "query" ELSE "date"
       IN /\ dashRun' = [o \in DashRun |->
               IF o = r THEN [at |-> at, task |-> dashRun[r].task, todo |-> dashRun[r].todo \ {l},
                              link |-> l, of |-> d.of, sql |-> d.sql, when |-> d.at,
                              fresh |-> ~(\E p \in DashRun : RunAt(p, l))]
               ELSE [dashRun[o] EXCEPT !.fresh = @ /\ ~RunAt(o, l)]]
          /\ passed' = passed \ {l}
  /\ UNCHANGED <<dashboards, links, latest, shownDate, related, spoiled, dashBudget>>
\* A dashboard that is not found, or not answered for, is left out.
SkipLink(r) ==
  /\ dashRun[r].at = "next"
  /\ \E l \in dashRun[r].todo : dashRun' = [dashRun EXCEPT ![r].todo = @ \ {l}]
  /\ UNCHANGED <<dashboards, links, latest, shownDate, related, spoiled, passed, dashBudget>>

Found(r) == latest[dashRun[r].link][dashRun[r].sql] = 1
\* store_sql_query: two rows like it are MultipleObjectsReturned, see DashFails.
GetQuery(r) ==
  /\ dashRun[r].at = "query" /\ latest[dashRun[r].link][dashRun[r].sql] < 2
  /\ RunTo(r, IF Found(r) THEN "date" ELSE "unset")
  /\ spoiled' = IF ~Found(r) /\ OtherReplaces(r) THEN spoiled \cup {dashRun[r].link} ELSE spoiled
  /\ UNCHANGED <<dashboards, links, latest, shownDate, related, passed, dashBudget>>
UnsetLatest(r) ==
  /\ dashRun[r].at = "unset" /\ RunTo(r, "create")
  /\ latest' = [latest EXCEPT ![dashRun[r].link] = [s \in DashSql |-> 0]]
  /\ spoiled' = IF OtherReplaces(r) THEN spoiled ELSE spoiled \ {dashRun[r].link}
  /\ UNCHANGED <<dashboards, links, shownDate, related, passed, dashBudget>>
OneMore(l, sql) == [s \in DashSql |-> IF s = sql THEN latest[l][s] + 1 ELSE latest[l][s]]
\* A link that is gone cannot have a query: an IntegrityError, see DashFails.
CreateLatest(r) ==
  /\ dashRun[r].at = "create" /\ dashRun[r].link \in links /\ RunTo(r, "date")
  /\ latest' = [latest EXCEPT ![dashRun[r].link] = OneMore(dashRun[r].link, dashRun[r].sql)]
  /\ UNCHANGED <<dashboards, links, shownDate, related, spoiled, passed, dashBudget>>
\* The link is saved as it was read: one that was deleted meanwhile is there again.
SaveDate(r) ==
  /\ dashRun[r].at = "date"
  /\ shownDate' = [shownDate EXCEPT ![dashRun[r].link] = dashRun[r].when]
  /\ links' = links \cup {dashRun[r].link} /\ RunTo(r, "relate")
  /\ UNCHANGED <<dashboards, latest, related, spoiled, passed, dashBudget>>

\* Mutant: the datasets of SQL only.
RelatedBySql(r) == IF HasSql(dashRun[r].of) THEN {dashRun[r].sql} ELSE {}
RelatedOf(r) == DatasetsOf(dashRun[r].of, dashRun[r].sql)
\* set_dataset_related_visualisation_catalogue_items: datasets are only added.
Relate(r) ==
  /\ dashRun[r].at = "relate"
  /\ related' = [related EXCEPT ![dashRun[r].link] = @ \cup RelatedOf(r)]
  /\ passed' = IF dashRun[r].fresh /\ dashRun[r].link \notin spoiled
               THEN passed \cup {dashRun[r].link} ELSE passed
  /\ dashRun' = [dashRun EXCEPT ![r] = ToNext(dashRun[r].task, dashRun[r].todo)]
  /\ UNCHANGED <<dashboards, links, latest, shownDate, spoiled, dashBudget>>
\* Another error of an API, two rows where one is looked for, a link that is gone:
\* the run ends, for the links after, too.
DashFails(r) ==
  /\ dashRun[r].at # "none" /\ dashRun' = [dashRun EXCEPT ![r] = NoDashRun]
  /\ UNCHANGED <<dashboards, links, latest, shownDate, related, spoiled, passed, dashBudget>>
EndDash(r) ==
  /\ dashRun[r].at = "next" /\ dashRun[r].todo = {} /\ dashRun' = [dashRun EXCEPT ![r] = NoDashRun]
  /\ UNCHANGED <<dashboards, links, latest, shownDate, related, spoiled, passed, dashBudget>>

DashNext ==
  \/ \E l \in Link : EditDashboard(l) \/ RemoveLink(l)
  \/ \E r \in DashRun :
       \/ StartDash(r) \/ Describe(r) \/ SkipLink(r) \/ GetQuery(r) \/ UnsetLatest(r)
       \/ CreateLatest(r) \/ SaveDate(r) \/ Relate(r) \/ DashFails(r) \/ EndDash(r)
DashSpec == DashInit /\ [][DashNext]_dashVars

-----------------------------------------------------------------------------
\* The state is well formed; only dashboards of QuickSight have queries.
DashTypeOK ==
  /\ links \subseteq Link /\ spoiled \subseteq QuickLink /\ passed \subseteq Link
  /\ \A l \in Link : /\ shownDate[l] \in Dates /\ related[l] \subseteq DashSql
                     /\ dashboards[l].at \in Dates /\ (l \in SuperLink => LatestCount(l) = 0)
  /\ \A r \in DashRun : dashRun[r].todo \subseteq Link /\ (dashRun[r].at = "none" => dashRun[r] = NoDashRun)

\* Of the queries of a dashboard at most one is the latest, whatever run fails
\* between the two statements that replace it, unless two runs replaced it at the
\* same time and none has since (store_sql_query).
OneLatestQuery == \A l \in Link \ spoiled : LatestCount(l) <= 1

\* After a run went through a dashboard that did not change meanwhile, the latest
\* query is its SQL, the date is the one of its data, and the datasets of its
\* tables are related to it, whatever other runs failed or overlapped before
\* (process_quicksight_dashboard_visualisations).
CatalogueFollows ==
  \A l \in passed \cap links :
    /\ DatasetsOf(dashboards[l].of, dashboards[l].sql) \subseteq related[l]
    /\ l \in QuickLink => shownDate[l] = dashboards[l].at
    /\ HasSql(dashboards[l].of) /\ l \in QuickLink
         => \A s \in DashSql : latest[l][s] = (IF s = dashboards[l].sql THEN 1 ELSE 0)

(***************************************************************************)
(* The strengthening.  Unless a link is spoiled, at most one run replaces  *)
(* its latest query, and none is the latest before the new one is created; *)
(* a run is fresh only if it is the one at its link, and has brought what  *)
(* it saw there as far as its steps; no run is at a link it went through.  *)
(***************************************************************************)
DashRunRow ==
  [at : {"none", "next", "query", "unset", "create", "date", "relate"},
   task : {"none", "quick", "super"}, todo : SUBSET Link, link : Link \cup {{}},
   of : DataSetKind, sql : DashSql, when : Dates, fresh : BOOLEAN]
AtWork(r) == dashRun[r].at \in {"query", "unset", "create", "date", "relate"}
DashTypes ==
  /\ dashboards \in [Link -> [of : DataSetKind, sql : DashSql, at : Dates]]
  /\ latest \in [Link -> [DashSql -> Nat]] /\ shownDate \in [Link -> Dates]
  /\ related \in [Link -> SUBSET DashSql] /\ dashRun \in [DashRun -> DashRunRow]
  /\ links \subseteq Link /\ passed \subseteq Link /\ spoiled \subseteq QuickLink
  /\ dashBudget \in [edits : Dates, runs : 0..MaxDashRuns]
  /\ \A l \in SuperLink, s \in DashSql : latest[l][s] = 0
RunsHold ==
  \A r \in DashRun :
    /\ dashRun[r].at = "none" => dashRun[r] = NoDashRun
    /\ dashRun[r].at = "next" => dashRun[r].link = {} /\ ~dashRun[r].fresh
    /\ dashRun[r].task = "quick" => dashRun[r].todo \subseteq QuickLink
    /\ dashRun[r].task = "super" => dashRun[r].todo \subseteq SuperLink
    /\ AtWork(r) => dashRun[r].link \in IF dashRun[r].task = "super" THEN SuperLink ELSE QuickLink
    /\ dashRun[r].at \in {"query", "unset", "create"} => dashRun[r].task # "super"
    /\ dashRun[r].at # "none" => dashRun[r].task # "none"
QueryHolds(l) ==
  /\ OneReplaces(l) /\ LatestCount(l) <= 1
  /\ \A r \in DashRun : dashRun[r].at = "create" /\ RunAt(r, l) => LatestCount(l) = 0
IsLatest(l) == \A s \in DashSql : latest[l][s] = (IF s = dashboards[l].sql THEN 1 ELSE 0)
FreshRun(r) ==
  LET l == dashRun[r].link IN
  /\ \A o \in DashRun : RunAt(o, l) => o = r
  /\ dashRun[r].of = dashboards[l].of /\ dashRun[r].sql = dashboards[l].sql
  /\ dashRun[r].when = dashboards[l].at
  /\ dashRun[r].at \in {"date", "relate"} /\ l \in QuickLink \ spoiled /\ HasSql(dashboards[l].of) => IsLatest(l)
  /\ dashRun[r].at = "relate" /\ l \in QuickLink => shownDate[l] = dashboards[l].at
Passed(l) ==
  /\ \A r \in DashRun : ~RunAt(r, l)
  /\ DatasetsOf(dashboards[l].of, dashboards[l].sql) \subseteq related[l]
  /\ l \in QuickLink => shownDate[l] = dashboards[l].at
  /\ l \in QuickLink /\ HasSql(dashboards[l].of) => IsLatest(l)
DashInv ==
  /\ DashTypes /\ RunsHold
  /\ \A l \in Link \ spoiled : QueryHolds(l)
  /\ \A r \in DashRun : dashRun[r].fresh => FreshRun(r)
  /\ \A l \in passed : Passed(l)

\* The catalogue tells of each dashboard what its last complete run found, with one
\* query that is the latest (store_sql_query).
DashSafety ==
  /\ DashTypeOK
  /\ OneLatestQuery
  /\ CatalogueFollows
=============================================================================

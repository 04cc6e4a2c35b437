-------------------------------- MODULE QueryProofs --------------------------------
(***************************************************************************)
(* Queries that users run: in Data Explorer, as downloads of datasets, and *)
(* in tools.  For any number of queries, pages and failing calls, the      *)
(* results that a page shows are there, a download that ends without an    *)
(* error is whole, and the copied audit log has no gaps while failed runs  *)
(* are few.                                                                *)
(***************************************************************************)
EXTENDS Integers, ExplorerQuery, StreamingQuery, ToolQueryLogs, TLAPS

(***************************************************************************)
(* A table of results belongs to a row that is COMPLETE, and the results   *)
(* that a page shows stay for a day.                                       *)
(***************************************************************************)
\* ExplorerInit establishes the strengthening.
LEMMA ExplorerInitInv == ExplorerInit => ExplorerInv
  BY ExplorerQueryAssumption
  DEF ExplorerInit, BlankTab, Waiting, ExplorerInv, ExplorerTypeOK, TaskInv, SubmitInv, OldInv,
      TableHasLog, ShownResultsStay

\* A step of a query's task, and one that ends it, preserves it.
LEMMA TaskStepInv ==
  ASSUME ExplorerInv, NEW q \in Query, TaskStep(q) \/ ConnectFails(q) \/ TaskCrash(q)
  PROVE  ExplorerInv'
<1> USE ExplorerQueryAssumption DEF ExplorerInv
<1> USE DEF TaskGoto, Failure, nightlyVars
\* What a task leaves alone, and what it makes of its own query.
<1>1. /\ UNCHANGED <<old, tab, nightly, toDrop>>
      /\ \A p \in Query \ {q} :
            state'[p] = state[p] /\ task'[p] = task[p] /\ table'[p] = table[p]
  BY DEF ExplorerTypeOK, TaskStep, Connect, CreateTable, InsertRows, SqlFails, MarkFailed,
         SaveComplete, Commit, Rollback, ConnectFails, TaskCrash
<1>2. task[q] \notin {"none", "ended"} /\ state[q] # "ABSENT"
  BY DEF ExplorerTypeOK, TaskInv, TaskStep, Connect, CreateTable, InsertRows, SqlFails,
         MarkFailed, SaveComplete, Commit, Rollback, ConnectFails, TaskCrash
<1>3. ExplorerTypeOK'
  <2>1. /\ state' \in [Query -> {"ABSENT", "RUNNING", "FAILED", "COMPLETE"}]
        /\ table' \in [Query -> {"none", "open", "committed"}]
        /\ task' \in [Query -> {"none", "queued", "create", "insert", "mark", "save",
                                "commit", "end", "ended"}]
        /\ failures' \in 0 .. MaxFailures
        /\ state'[q] # "ABSENT"
    <3>1. /\ state' \in [Query -> {"ABSENT", "RUNNING", "FAILED", "COMPLETE"}]
          /\ state'[q] # "ABSENT"
      BY <1>2
      DEF ExplorerTypeOK, TaskStep, Connect, CreateTable, InsertRows, SqlFails, MarkFailed,
          SaveComplete, Commit, Rollback, ConnectFails, TaskCrash
    <3>2. table' \in [Query -> {"none", "open", "committed"}]
      BY DEF ExplorerTypeOK, TaskStep, Connect, CreateTable, InsertRows, SqlFails, MarkFailed,
             SaveComplete, Commit, Rollback, ConnectFails, TaskCrash
    <3>3. task' \in [Query -> {"none", "queued", "create", "insert", "mark", "save",
                              "commit", "end", "ended"}]
      BY DEF ExplorerTypeOK, TaskStep, Connect, CreateTable, InsertRows, SqlFails, MarkFailed,
             SaveComplete, Commit, Rollback, ConnectFails, TaskCrash
    <3>4. failures' \in 0 .. MaxFailures
      BY DEF ExplorerTypeOK, TaskStep, Connect, CreateTable, InsertRows, SqlFails, MarkFailed,
             SaveComplete, Commit, Rollback, ConnectFails, TaskCrash
    <3> QED BY <3>1, <3>2, <3>3, <3>4
  <2> QED BY <1>1, <2>1 DEF ExplorerTypeOK
<1>4. TaskInv'
  <2> SUFFICES ASSUME NEW p \in Query PROVE TaskInv!(p)'
    BY DEF TaskInv
  <2>1. CASE p # q
    BY <1>1, <2>1 DEF TaskInv
  <2>2. CASE p = q
    BY <1>1, <1>2, <2>2
    DEF ExplorerTypeOK, TaskInv, TaskStep, Connect, CreateTable, InsertRows, SqlFails, MarkFailed,
        SaveComplete, Commit, Rollback, ConnectFails, TaskCrash
  <2> QED BY <2>1, <2>2
<1>5. SubmitInv'
  <2>1. \A t \in Tab : tab[t].pc = "submit" => tab[t].log \in Query \ {q}
    BY <1>2 DEF ExplorerTypeOK, SubmitInv, Waiting
  <2> QED BY <1>1, <2>1 DEF SubmitInv
<1>6. OldInv'
  BY <1>1 DEF OldInv
<1>7. TableHasLog' /\ (table[q] = "committed" => table'[q] = "committed")
  <2>1. /\ table'[q] = "committed" => state'[q] = "COMPLETE"
        /\ table[q] = "committed" => table'[q] = "committed"
    BY DEF ExplorerTypeOK, TaskInv, TableHasLog, TaskStep, Connect, CreateTable, InsertRows,
           SqlFails, MarkFailed, SaveComplete, Commit, Rollback, ConnectFails, TaskCrash
  <2> QED BY <1>1, <2>1 DEF TableHasLog
<1>8. ShownResultsStay'
  <2> SUFFICES ASSUME NEW t \in Tab, tab[t].pc \in {"results", "download"},
                      ~ old[tab[t].log]
               PROVE  table'[tab[t].log] = "committed"
    BY <1>1 DEF ShownResultsStay
  <2>1. tab[t].log \in Query /\ table[tab[t].log] = "committed"
    BY DEF ExplorerTypeOK, Waiting, ShownResultsStay
  <2> QED BY <1>1, <1>7, <2>1
<1> QED BY <1>3, <1>4, <1>5, <1>6, <1>7, <1>8

\* So does a step of a page, which never touches a table.
LEMMA PageStepInv ==
  ASSUME ExplorerInv, NEW t \in Tab,
         \/ PageStep(t) \/ SubmitFails(t) \/ Download(t) \/ RequestFails(t)
         \/ \E q \in Query : SubmitCreate(t, q) \/ Open(t, q)
  PROVE  ExplorerInv'
<1> USE ExplorerQueryAssumption DEF ExplorerInv
<1>1. CASE \E q \in Query : SubmitCreate(t, q)
  <2> PICK q \in Query : SubmitCreate(t, q)
    BY <1>1
  <2> USE DEF SubmitCreate, nightlyVars
  <2>1. \A u \in Tab : tab[u].pc = "submit" => tab[u].log # q
    BY DEF ExplorerTypeOK, Waiting
  <2>2. ExplorerTypeOK'
    BY DEF ExplorerTypeOK, Waiting
  <2>3. TaskInv' /\ OldInv'
    BY DEF ExplorerTypeOK, TaskInv, OldInv
  <2>4. SubmitInv'
    BY <2>1 DEF ExplorerTypeOK, TaskInv, SubmitInv
  <2>5. TableHasLog' /\ ShownResultsStay'
    BY DEF ExplorerTypeOK, TableHasLog, ShownResultsStay
  <2> QED BY <2>2, <2>3, <2>4, <2>5
<1>2. CASE SubmitDelay(t) \/ SubmitFails(t)
  <2> DEFINE q == tab[t].log
  <2> USE <1>2 DEF SubmitDelay, SubmitFails, TabGoto, Failure, nightlyVars
  <2>1. q \in Query /\ task[q] = "none" /\ state[q] # "ABSENT"
    BY DEF ExplorerTypeOK, SubmitInv, Waiting
  <2>2. ExplorerTypeOK'
    BY <2>1 DEF ExplorerTypeOK, Waiting
  <2>3. TaskInv' /\ OldInv'
    BY <2>1 DEF ExplorerTypeOK, TaskInv, OldInv
  <2>4. SubmitInv'
    <3>1. /\ tab'[t].pc # "submit"
          /\ \A u \in Tab \ {t} : tab'[u] = tab[u]
          /\ \A p \in Query \ {q} : task'[p] = task[p]
      BY <2>1 DEF ExplorerTypeOK
    <3>2. \A u \in Tab \ {t} : tab[u].pc = "submit" => tab[u].log \in Query \ {q}
      BY DEF ExplorerTypeOK, SubmitInv, Waiting
    <3> QED BY <3>1, <3>2 DEF SubmitInv
  <2>5. TableHasLog' /\ ShownResultsStay'
    BY DEF ExplorerTypeOK, TableHasLog, ShownResultsStay
  <2> QED BY <2>2, <2>3, <2>4, <2>5
<1>3. CASE Poll(t) \/ Timer(t) \/ Fetch(t) \/ Download(t) \/ RequestFails(t)
           \/ \E q \in Query : Open(t, q)
  <2> USE <1>3 DEF Poll, Timer, Fetch, Download, RequestFails, Open, TabGoto, Failure,
                   nightlyVars
  <2>1. UNCHANGED <<state, old, table, task, nightly, toDrop>>
    OBVIOUS
  <2>2. ExplorerTypeOK'
    BY DEF ExplorerTypeOK, Waiting
  <2>3. TaskInv' /\ OldInv' /\ TableHasLog'
    BY <2>1 DEF TaskInv, OldInv, TableHasLog
  <2>4. SubmitInv'
    BY <2>1 DEF ExplorerTypeOK, SubmitInv
  <2>5. ShownResultsStay'
    BY <2>1 DEF ExplorerTypeOK, ShownResultsStay
  <2> QED BY <2>2, <2>3, <2>4, <2>5
<1> QED BY <1>1, <1>2, <1>3 DEF PageStep

\* So does the clean up, which drops tables of old rows only, and the passing
\* of time.
LEMMA ExplorerCleanerInv ==
  ASSUME ExplorerInv, NightlyStep \/ CleanerFails \/ \E q \in Query : Age(q)
  PROVE  ExplorerInv'
<1> USE ExplorerQueryAssumption DEF ExplorerInv, nightlyVars
<1>1. CASE ListLogs \/ EndNight \/ CleanerFails
  <2> USE <1>1 DEF ListLogs, EndNight, CleanerFails, Failure
  <2>1. ExplorerTypeOK'
    BY DEF ExplorerTypeOK
  <2>2. OldInv'
    BY DEF OldInv
  <2> QED BY <2>1, <2>2 DEF TaskInv, SubmitInv, TableHasLog, ShownResultsStay
<1>2. CASE \E q \in Query : DropTable(q)
  <2> PICK q \in Query : DropTable(q)
    BY <1>2
  <2> USE DEF DropTable
  <2>1. ExplorerTypeOK' /\ OldInv' /\ SubmitInv'
    BY DEF ExplorerTypeOK, OldInv, SubmitInv
  <2>2. TaskInv' /\ TableHasLog'
    BY DEF ExplorerTypeOK, TaskInv, TableHasLog
  <2>3. ShownResultsStay'
    BY DEF ExplorerTypeOK, OldInv, ShownResultsStay, Waiting
  <2> QED BY <2>1, <2>2, <2>3
<1>3. CASE \E q \in Query : Age(q)
  <2> PICK q \in Query : Age(q)
    BY <1>3
  <2> USE DEF Age
  <2>1. ExplorerTypeOK' /\ OldInv' /\ SubmitInv'
    BY DEF ExplorerTypeOK, OldInv, SubmitInv
  <2>2. TaskInv' /\ TableHasLog'
    BY DEF ExplorerTypeOK, TaskInv, TableHasLog
  <2>3. ShownResultsStay'
    BY DEF ExplorerTypeOK, ShownResultsStay, Waiting
  <2> QED BY <2>1, <2>2, <2>3
<1> QED BY <1>1, <1>2, <1>3 DEF NightlyStep

\* Every step of the system preserves it.
LEMMA ExplorerStepInv == ExplorerInv /\ [ExplorerNext]_explorerVars => ExplorerInv'
<1> SUFFICES ASSUME ExplorerInv, [ExplorerNext]_explorerVars PROVE ExplorerInv'
  OBVIOUS
<1>1. CASE UNCHANGED explorerVars
  BY <1>1
  DEF explorerVars, nightlyVars, ExplorerInv, ExplorerTypeOK, TaskInv, SubmitInv, OldInv, TableHasLog,
      ShownResultsStay
<1>2. CASE ExplorerNext
  BY <1>2, TaskStepInv, PageStepInv, ExplorerCleanerInv DEF ExplorerNext
<1> QED BY <1>1, <1>2

\* The strengthening is an invariant: the parts that a task, the pages and the
\* clean up rely on hold together.
THEOREM InvHolds == ExplorerSafetySpec => []ExplorerInv
  BY ExplorerInitInv, ExplorerStepInv, PTL DEF ExplorerSafetySpec

\* The variables stay in their types, and a page that waits knows a row that is
\* there: get_object_or_404 never fails for a page that submitted its query.
THEOREM ExplorerTypeCorrect == ExplorerSafetySpec => []ExplorerTypeOK
<1>1. ExplorerInv => ExplorerTypeOK
  BY DEF ExplorerInv
<1> QED BY <1>1, InvHolds, PTL

\* Saving the row before the commit of one transaction keeps the databases in
\* step in one direction, for any number of tasks, failures and crashes.
THEOREM TablesHaveLogs == ExplorerSafetySpec => []TableHasLog
<1>1. ExplorerInv => TableHasLog
  BY DEF ExplorerInv
<1> QED BY <1>1, InvHolds, PTL

\* The clean up never takes away results of today that a page shows.
THEOREM ShownResultsAreKept == ExplorerSafetySpec => []ShownResultsStay
<1>1. ExplorerInv => ShownResultsStay
  BY DEF ExplorerInv
<1> QED BY <1>1, InvHolds, PTL

\* The row of a query and the table of its results agree, for any number of pages,
\* tasks and crashes (_run_querylog_query, cleanup_temporary_query_tables).
THEOREM ExplorerIsSafe == ExplorerSafetySpec => []ExplorerSafety
  BY ExplorerTypeCorrect, TablesHaveLogs, ShownResultsAreKept, PTL DEF ExplorerSafety

(***************************************************************************)
(* A download that ends without an error is the whole file, and what is    *)
(* counted for the event log agrees with it.                               *)
(***************************************************************************)
\* Before the first request nothing is on its way.
LEMMA StreamInitInv == StreamInit => StreamInv
<1> SUFFICES ASSUME StreamInit PROVE StreamInv
  OBVIOUS
<1> USE StreamAssumption DEF StreamInit
<1>1. StreamTypeOK
  <2>1. queue \in QueueType
    BY DEF QueueType
  <2>2. NoRow \in [all : 0 .. MaxRows, match : 0 .. MaxRows]
    BY DEF NoRow
  <2>3. NoFile \in [header : BOOLEAN, rows : 0 .. MaxRows, total : {"none", "right", "wrong"}]
    BY DEF NoFile
  <2>4. metered \in BOOLEAN
    OBVIOUS
  <2>5. /\ sentRows \in 0 .. MaxRows /\ pending \in 0 .. 1
        /\ sourceChanges \in 0 .. MaxChanges /\ statementFaults \in 0 .. StreamFaults
    OBVIOUS
  <2>6. /\ source \in [all : 0 .. MaxRows, match : 0 .. MaxRows]
        /\ snapshot \in [all : 0 .. MaxRows, match : 0 .. MaxRows]
        /\ metrics \in [all : 0 .. MaxRows, match : 0 .. MaxRows]
        /\ received \in [header : BOOLEAN, rows : 0 .. MaxRows, total : {"none", "right", "wrong"}]
    BY <2>2, <2>3
  <2>7. session = "none" /\ producer = "none" /\ consumer = "none"
    OBVIOUS
  <2> HIDE DEF StreamInit
  <2> QED BY <2>1, <2>4, <2>5, <2>6, <2>7 DEF StreamTypeOK
<1>2. StartInv /\ QueueInv /\ HeaderInv
  BY DEF StartInv, QueueInv, HeaderInv, OnQueue, Counted
<1>3. RowsInv /\ MetricsAgree
  BY DEF RowsInv, MetricsAgree, NoRow, NoFile, QueuedRows, UnsentRows, OnQueue
<1>4. TotalInv /\ WholeInv
  BY DEF TotalInv, WholeInv, NoRow, NoFile, OnQueue, Counted
<1> QED BY <1>1, <1>2, <1>3, <1>4 DEF StreamInv

\* What the items are that can be on the queue.
LEMMA Items ==
  ASSUME StreamInv, queue # << >>
  PROVE  \E kind \in {"header", "rows", "total", "done", "exception"}, n \in 0 .. MaxRows :
            queue = <<[kind |-> kind, row |-> n]>>
  BY DEF StreamInv, StreamTypeOK, QueueType, Line

\* Respond, and rows of the source that come and go.
LEMMA SourceInv ==
  ASSUME StreamInv, Respond \/ SourceChanges
  PROVE  StreamInv'
<1> USE StreamAssumption DEF Respond, SourceChanges, fetchVars, consumerVars, StreamInv
<1>1. StreamTypeOK'
  BY DEF StreamTypeOK, Rows
<1>2. StartInv' /\ QueueInv'
  BY DEF StartInv, QueueInv, OnQueue
<1>3. HeaderInv' /\ TotalInv' /\ WholeInv'
  BY DEF StartInv, HeaderInv, TotalInv, WholeInv, OnQueue, Counted, WholeFile, NoFile
<1>4. RowsInv' /\ MetricsAgree'
  BY DEF StartInv, RowsInv, MetricsAgree, QueuedRows, UnsentRows, OnQueue, Broken, Rows,
         NoFile
<1> QED BY <1>1, <1>2, <1>3, <1>4

\* The steps of the producer that neither fetch nor put.
LEMMA SessionInv ==
  ASSUME StreamInv,
         \/ IdleTimeout \/ StreamOpen \/ PutTimeout \/ CloseCursor \/ CountAll
         \/ StreamCommit \/ StatementFails \/ StreamRollback
  PROVE  StreamInv'
<1> USE StreamAssumption
    DEF IdleTimeout, StreamOpen, PutTimeout, CloseCursor, CountAll, StreamCommit,
        StatementFails, StreamRollback, ProducerGoto, fetchVars, consumerVars, StreamInv
<1>1. StreamTypeOK'
  <2>1. /\ UNCHANGED <<source, snapshot, sentRows, pending, metered, queue, consumer, received,
                       metrics, sourceChanges>>
        /\ session' \in {"none", "transaction", "idle", "killed"}
        /\ producer' \in {"none", "connect", "execute", "fetch", "header", "chunk", "count",
                          "close", "done", "columns", "commit", "callback", "rollback",
                          "signal", "ended"}
    BY DEF StreamTypeOK
  <2>2. statementFaults' \in 0 .. StreamFaults
    BY DEF StreamTypeOK
  <2> QED BY <2>1, <2>2 DEF StreamTypeOK
<1>2. StartInv' /\ QueueInv'
  BY DEF StartInv, QueueInv, OnQueue
<1>3. HeaderInv' /\ TotalInv' /\ WholeInv'
  BY DEF HeaderInv, TotalInv, WholeInv, OnQueue, Counted, WholeFile
<1>4. RowsInv' /\ MetricsAgree'
  BY DEF RowsInv, MetricsAgree, QueuedRows, UnsentRows, OnQueue, Broken, StreamTypeOK
<1> QED BY <1>1, <1>2, <1>3, <1>4

\* Execute, FetchRows and the metrics, that are made of the same snapshot.
LEMMA FetchInv ==
  ASSUME StreamInv, Execute \/ FetchRows \/ MetricsCallback
  PROVE  StreamInv'
<1> USE StreamAssumption DEF ProducerGoto, fetchVars, consumerVars, StreamInv
<1>1. CASE Execute
  <2> USE <1>1 DEF Execute
  <2>1. StreamTypeOK'
    BY DEF StreamTypeOK
  <2>2. StartInv' /\ QueueInv'
    BY DEF StartInv, QueueInv, OnQueue
  <2>3. HeaderInv' /\ TotalInv' /\ WholeInv'
    BY DEF StartInv, HeaderInv, TotalInv, WholeInv, OnQueue, Counted, WholeFile
  <2>4. RowsInv' /\ MetricsAgree'
    BY DEF StartInv, RowsInv, MetricsAgree, QueuedRows, UnsentRows, OnQueue, Broken,
           StreamTypeOK, NoFile
  <2> QED BY <2>1, <2>2, <2>3, <2>4
<1>2. CASE FetchRows
  <2> USE <1>2 DEF FetchRows
  <2>1. /\ pending' \in 0 .. 1 /\ sentRows' \in 0 .. MaxRows
        /\ sentRows' = sentRows + pending' /\ sentRows' <= snapshot.match
        /\ pending' = 0 => sentRows = snapshot.match
    BY DEF StreamTypeOK, RowsInv
  <2>2. /\ producer' \in {"header", "chunk", "count"}
        /\ producer' = "header" <=> sentRows = 0
        /\ producer' = "chunk" => pending' = 1 /\ sentRows # 0
        /\ producer' = "count" => pending' = 0 /\ sentRows # 0
    BY DEF StreamTypeOK
  <2>3. StreamTypeOK'
    BY <2>1, <2>2 DEF StreamTypeOK
  <2>4. StartInv' /\ QueueInv'
    BY <2>2 DEF StartInv, QueueInv, OnQueue
  <2>5. HeaderInv'
    BY <2>1, <2>2 DEF HeaderInv, OnQueue, Counted
  <2>6. TotalInv' /\ WholeInv'
    BY <2>1, <2>2 DEF TotalInv, WholeInv, OnQueue, Counted, WholeFile, StreamTypeOK
  <2>8. MetricsAgree'
    BY DEF MetricsAgree
  <2>7. RowsInv'
    <3>1. pending' <= sentRows' /\ source'.match <= source'.all /\ snapshot'.match <= snapshot'.all
          /\ sentRows' <= snapshot'.match
      BY <2>1 DEF RowsInv, StreamTypeOK
    <3>2. QueuedRows' = QueuedRows /\ received' = received /\ received.rows \in Nat /\ QueuedRows \in Nat
      BY DEF QueuedRows, OnQueue, StreamTypeOK
    <3>3. ~Broken /\ ~Broken' /\ UnsentRows = 0
      BY <2>2 DEF Broken, UnsentRows
    <3>4. UnsentRows' = pending'
      BY <2>1, <2>2 DEF UnsentRows
    <3>5. received.rows + QueuedRows = sentRows
      BY <3>2, <3>3 DEF RowsInv, StreamTypeOK
    <3> QED BY <2>1, <3>1, <3>2, <3>3, <3>4, <3>5 DEF RowsInv, StreamTypeOK
  <2> QED BY <2>8, <2>3, <2>4, <2>5, <2>6, <2>7
<1>3. CASE MetricsCallback
  <2> USE <1>3 DEF MetricsCallback
  <2>1. StreamTypeOK'
    BY DEF StreamTypeOK
  <2>2. StartInv' /\ QueueInv' /\ HeaderInv' /\ TotalInv' /\ WholeInv'
    BY DEF StartInv, QueueInv, HeaderInv, TotalInv, WholeInv, OnQueue, Counted, WholeFile
  <2>3. RowsInv' /\ MetricsAgree'
    BY DEF RowsInv, MetricsAgree, QueuedRows, UnsentRows, OnQueue, Broken, StreamTypeOK
  <2> QED BY <2>1, <2>2, <2>3
<1> QED BY <1>1, <1>2, <1>3

\* An item of one of the kinds, with a number of rows, is of the type of the queue.
LEMMA QueuedItem ==
  ASSUME NEW kind \in {"header", "rows", "total", "done", "exception"}, NEW n \in 0 .. MaxRows
  PROVE  <<[kind |-> kind, row |-> n]>> \in QueueType
  BY DEF QueueType, Line

\* What is put is right where it is put.
LEMMA PutInv ==
  ASSUME StreamInv, PutHeader \/ PutChunk \/ PutCount \/ PutDone \/ PutException
  PROVE  StreamInv'
<1> USE StreamAssumption DEF Put, ProducerGoto, QueuePut, fetchVars, consumerVars, StreamInv
<1>1. CASE PutHeader
  <2>1. /\ producer = "header" /\ queue = << >>
        /\ queue' = <<[kind |-> "header", row |-> 0]>>
        /\ producer' = IF pending = 1 THEN "chunk" ELSE "count"
        /\ UNCHANGED <<source, snapshot, sentRows, pending, session, metered, consumer,
                       received, metrics, sourceChanges, statementFaults>>
    BY <1>1 DEF PutHeader, Line
  <2>2. OnQueue("header")' /\ \A k \in {"rows", "total", "done", "exception"} : ~OnQueue(k)'
    BY <2>1 DEF OnQueue
  <2>3. \A k \in {"header", "rows", "total", "done", "exception"} : ~OnQueue(k)
    BY <2>1 DEF OnQueue
  <2>4. StreamTypeOK'
    BY <2>1, QueuedItem DEF StreamTypeOK
  <2>5. StartInv' /\ QueueInv' /\ HeaderInv' /\ TotalInv' /\ WholeInv'
    BY <2>1, <2>2, <2>3
    DEF StreamTypeOK, StartInv, QueueInv, HeaderInv, TotalInv, WholeInv, Counted, WholeFile
  <2>6. RowsInv' /\ MetricsAgree'
    BY <2>1, <2>2, <2>3
    DEF RowsInv, MetricsAgree, QueuedRows, UnsentRows, Broken, StreamTypeOK
  <2> QED BY <2>4, <2>5, <2>6
<1>2. CASE PutChunk
  <2>1. /\ producer = "chunk" /\ queue = << >>
        /\ queue' = <<[kind |-> "rows", row |-> sentRows]>>
        /\ producer' = "fetch"
        /\ UNCHANGED <<source, snapshot, sentRows, pending, session, metered, consumer,
                       received, metrics, sourceChanges, statementFaults>>
    BY <1>2 DEF PutChunk, Line
  <2>2. OnQueue("rows")' /\ \A k \in {"header", "total", "done", "exception"} : ~OnQueue(k)'
    BY <2>1 DEF OnQueue
  <2>3. \A k \in {"header", "rows", "total", "done", "exception"} : ~OnQueue(k)
    BY <2>1 DEF OnQueue
  <2>4. StreamTypeOK'
    BY <2>1, QueuedItem DEF StreamTypeOK
  <2>5. StartInv' /\ QueueInv' /\ HeaderInv' /\ TotalInv' /\ WholeInv'
    BY <2>1, <2>2, <2>3
    DEF StreamTypeOK, StartInv, QueueInv, HeaderInv, TotalInv, WholeInv, Counted, WholeFile
  <2>6. RowsInv' /\ MetricsAgree'
    BY <2>1, <2>2, <2>3
    DEF HeaderInv, RowsInv, MetricsAgree, QueuedRows, UnsentRows, Broken, StreamTypeOK
  <2> QED BY <2>4, <2>5, <2>6
<1>3. CASE PutCount
  <2>1. /\ producer = "count" /\ queue = << >>
        /\ queue' = <<[kind |-> "total", row |-> sentRows]>>
        /\ producer' = "close"
        /\ UNCHANGED <<source, snapshot, sentRows, pending, session, metered, consumer,
                       received, metrics, sourceChanges, statementFaults>>
    BY <1>3 DEF PutCount, Line
  <2>2. OnQueue("total")' /\ \A k \in {"header", "rows", "done", "exception"} : ~OnQueue(k)'
    BY <2>1 DEF OnQueue
  <2>3. \A k \in {"header", "rows", "total", "done", "exception"} : ~OnQueue(k)
    BY <2>1 DEF OnQueue
  <2>4. StreamTypeOK'
    BY <2>1, QueuedItem DEF StreamTypeOK
  <2>5. received.rows = sentRows
    BY <2>1, <2>3 DEF RowsInv, QueuedRows, UnsentRows, Broken, StreamTypeOK
  <2>6. StartInv' /\ QueueInv' /\ HeaderInv' /\ TotalInv' /\ WholeInv'
    BY <2>1, <2>2, <2>3, <2>5
    DEF StreamTypeOK, StartInv, QueueInv, HeaderInv, TotalInv, WholeInv, Counted, WholeFile
  <2>7. RowsInv' /\ MetricsAgree'
    BY <2>1, <2>2, <2>3
    DEF RowsInv, MetricsAgree, QueuedRows, UnsentRows, Broken, StreamTypeOK
  <2> QED BY <2>4, <2>6, <2>7
<1>4. CASE PutDone
  <2>1. /\ producer = "done" /\ queue = << >>
        /\ queue' = <<[kind |-> "done", row |-> 0]>> /\ queue' = <<Done>>
        /\ producer' = IF metered THEN "columns" ELSE "commit"
        /\ UNCHANGED <<source, snapshot, sentRows, pending, session, metered, consumer,
                       received, metrics, sourceChanges, statementFaults>>
    BY <1>4 DEF PutDone, Done
  <2>2. OnQueue("done")' /\ \A k \in {"header", "rows", "total", "exception"} : ~OnQueue(k)'
    BY <2>1 DEF OnQueue
  <2>3. \A k \in {"header", "rows", "total", "done", "exception"} : ~OnQueue(k)
    BY <2>1 DEF OnQueue
  <2>4. StreamTypeOK'
    BY <2>1, QueuedItem DEF StreamTypeOK
  <2>5. received = WholeFile
    <3>1. received.header /\ received.total = "right" /\ sentRows = snapshot.match
      BY <2>1, <2>3 DEF HeaderInv, TotalInv, Counted
    <3>2. received.rows = sentRows
      BY <2>1, <2>3 DEF RowsInv, QueuedRows, UnsentRows, Broken, StreamTypeOK
    <3> QED BY <3>1, <3>2 DEF WholeFile, StreamTypeOK
  <2>6. StartInv' /\ QueueInv' /\ HeaderInv' /\ TotalInv'
    BY <2>1, <2>2, <2>3
    DEF StreamTypeOK, StartInv, QueueInv, HeaderInv, TotalInv, Counted
  <2>7. WholeInv'
    BY <2>1, <2>5 DEF WholeInv, WholeFile
  <2>8. RowsInv' /\ MetricsAgree'
    BY <2>1, <2>2, <2>3
    DEF RowsInv, MetricsAgree, QueuedRows, UnsentRows, Broken, StreamTypeOK
  <2> QED BY <2>4, <2>6, <2>7, <2>8
<1>5. CASE PutException
  <2>1. /\ producer = "signal" /\ queue = << >>
        /\ queue' = <<[kind |-> "exception", row |-> 0]>> /\ queue' = <<ExceptionRaised>>
        /\ producer' = "ended"
        /\ UNCHANGED <<source, snapshot, sentRows, pending, session, metered, consumer,
                       received, metrics, sourceChanges, statementFaults>>
    BY <1>5 DEF PutException, ExceptionRaised
  <2>2. OnQueue("exception")' /\ \A k \in {"header", "rows", "total", "done"} : ~OnQueue(k)'
    BY <2>1 DEF OnQueue
  <2>3. \A k \in {"header", "rows", "total", "done", "exception"} : ~OnQueue(k)
    BY <2>1 DEF OnQueue
  <2>4. StreamTypeOK'
    BY <2>1, QueuedItem DEF StreamTypeOK
  <2>5. StartInv' /\ QueueInv' /\ HeaderInv' /\ TotalInv' /\ WholeInv'
    BY <2>1, <2>2, <2>3
    DEF StreamTypeOK, StartInv, QueueInv, HeaderInv, TotalInv, WholeInv, Counted, WholeFile
  <2>6. RowsInv' /\ MetricsAgree'
    BY <2>1, <2>2, <2>3
    DEF RowsInv, MetricsAgree, QueuedRows, UnsentRows, Broken, StreamTypeOK
  <2> QED BY <2>4, <2>5, <2>6
<1> QED BY <1>1, <1>2, <1>3, <1>4, <1>5

\* What the client is given is what was put.
LEMMA GetInv ==
  ASSUME StreamInv, Get
  PROVE  StreamInv'
<1> USE StreamAssumption DEF StreamInv
<1>1. PICK kind \in {"header", "rows", "total", "done", "exception"}, n \in 0 .. MaxRows :
        queue = <<[kind |-> kind, row |-> n]>>
  BY Items DEF Get
<1>2. /\ consumer = "get" /\ queue' = << >>
      /\ UNCHANGED <<source, snapshot, sentRows, pending, session, producer, metered,
                     metrics, sourceChanges, statementFaults>>
  BY DEF Get, fetchVars
<1>3. /\ OnQueue(kind) /\ \A k : OnQueue(k) => k = kind
      /\ \A k : ~OnQueue(k)'
  BY <1>1, <1>2 DEF OnQueue
<1>4. \/ kind = "done" /\ consumer' = "complete" /\ received' = received
      \/ kind = "exception" /\ consumer' = "failed" /\ received' = received
      \/ kind \in {"header", "rows", "total"} /\ consumer' = "yield"
         /\ received' = Received([kind |-> kind, row |-> n])
  <2>1. Head(queue) = [kind |-> kind, row |-> n]
    BY <1>1
  <2>2. kind = "done" => Head(queue) = Done
    BY <1>1, <1>3 DEF QueueInv
  <2>3. kind = "exception" => Head(queue) = ExceptionRaised
    BY <1>1, <1>3 DEF QueueInv
  <2> QED BY <2>1, <2>2, <2>3 DEF Get, Done, ExceptionRaised
<1>5. /\ kind = "header" => received' = [received EXCEPT !.header = TRUE]
      /\ kind = "rows" => received' = [received EXCEPT !.rows = @ + 1]
      /\ kind = "total" => received' = [received EXCEPT !.total = "right"]
  <2>1. kind = "total" => n = received.rows
    BY <1>1, <1>3 DEF QueueInv
  <2> QED BY <1>4, <2>1 DEF Received
<1>6. /\ received'.header = (received.header \/ kind = "header")
      /\ received'.rows = received.rows + QueuedRows
      /\ received'.total = IF kind = "total" THEN "right" ELSE received.total
      /\ received' \in [header : BOOLEAN, rows : 0 .. MaxRows, total : {"none", "right", "wrong"}]
  <2>1. QueuedRows = IF kind = "rows" THEN 1 ELSE 0
    BY <1>3 DEF QueuedRows
  <2>2. received.rows + QueuedRows \in 0 .. MaxRows
    BY <2>1 DEF RowsInv, StreamTypeOK
  <2>3. /\ received \in [header : BOOLEAN, rows : 0 .. MaxRows, total : {"none", "right", "wrong"}]
        /\ received.rows + 0 = received.rows
    BY DEF StreamTypeOK
  <2>4. CASE kind \in {"done", "exception"}
    BY <1>4, <2>1, <2>3, <2>4
  <2>5. CASE kind = "header"
    BY <1>5, <2>1, <2>3, <2>5
  <2>6. CASE kind = "rows"
    BY <1>5, <2>1, <2>2, <2>3, <2>6
  <2>7. CASE kind = "total"
    BY <1>5, <2>1, <2>3, <2>7
  <2> QED BY <1>1, <2>4, <2>5, <2>6, <2>7
<1>7. StreamTypeOK'
  <2>1. << >> \in QueueType
    BY DEF QueueType
  <2> QED BY <1>2, <1>4, <1>6, <2>1 DEF StreamTypeOK
<1>8. StartInv' /\ QueueInv'
  BY <1>1, <1>2, <1>3, <1>4 DEF StartInv, QueueInv
<1>9. HeaderInv' /\ TotalInv'
  BY <1>2, <1>3, <1>6 DEF HeaderInv, TotalInv, Counted
<1>10. WholeInv'
  BY <1>2, <1>3, <1>4 DEF WholeInv, WholeFile
<1>11. RowsInv' /\ MetricsAgree'
  <2>1. QueuedRows' = 0 /\ UnsentRows' = UnsentRows /\ Broken' = Broken
    BY <1>2, <1>3 DEF QueuedRows, UnsentRows, Broken
  <2>2. received'.rows + QueuedRows' = received.rows + QueuedRows
    BY <1>6, <2>1 DEF StreamTypeOK, QueuedRows
  <2> QED BY <1>2, <2>1, <2>2 DEF RowsInv, MetricsAgree
<1> QED BY <1>7, <1>8, <1>9, <1>10, <1>11

\* The client reads on, or leaves.
LEMMA ClientInv ==
  ASSUME StreamInv, ClientReads \/ ClientLeaves
  PROVE  StreamInv'
<1> USE DEF ClientReads, ClientLeaves, ClientGoto, fetchVars, StreamInv
<1>1. StreamTypeOK'
  BY DEF StreamTypeOK
<1>2. StartInv' /\ QueueInv'
  BY DEF StartInv, QueueInv, OnQueue
<1>3. HeaderInv' /\ TotalInv' /\ WholeInv'
  BY DEF HeaderInv, TotalInv, WholeInv, OnQueue, Counted, WholeFile
<1>4. RowsInv' /\ MetricsAgree'
  BY DEF RowsInv, MetricsAgree, QueuedRows, UnsentRows, OnQueue, Broken
<1> QED BY <1>1, <1>2, <1>3, <1>4

\* The strengthening is an invariant of the download.
THEOREM StreamInvariance == StreamSafetySpec => []StreamInv
<1>1. StreamInv /\ [StreamNext]_streamVars => StreamInv'
  <2> SUFFICES ASSUME StreamInv, [StreamNext]_streamVars PROVE StreamInv'
    OBVIOUS
  <2>1. CASE UNCHANGED streamVars
    BY <2>1 DEF streamVars, StreamInv, StreamTypeOK, StartInv, QueueInv, RowsInv, HeaderInv,
                TotalInv, WholeInv, MetricsAgree, OnQueue, QueuedRows, UnsentRows, Broken,
                Counted, WholeFile
  <2>2. CASE StreamNext
    BY <2>2, SourceInv, SessionInv, FetchInv, PutInv, GetInv, ClientInv
    DEF StreamNext, Produce
  <2> QED BY <2>1, <2>2
<1> QED BY StreamInitInv, <1>1, PTL DEF StreamSafetySpec

\* What a client takes for a whole file is one, and the numbers for the event log are
\* of the same snapshot, for sources of any size, however many statements fail or
\* sessions PostgreSQL ends (streaming_query_response).
THEOREM DownloadsAreWhole == StreamSpec => []StreamSafety
<1>1. StreamInv => StreamSafety
  BY DEF StreamInv, StreamSafety, WholeInv, WholeFile, CompleteIsWhole
<1> QED BY <1>1, StreamInvariance, PTL DEF StreamSpec

(***************************************************************************)
(* The copy of what the audit log says of queries made by tools.           *)
(***************************************************************************)
\* A number is what its quotient and its remainder say.
LEMMA RemainderIs ==
  ASSUME NEW b \in Nat \ {0}, NEW q \in Nat, NEW r \in 0 .. b - 1
  PROVE  (b * q + r) % b = r
<1>1. PICK m \in Nat, k \in Int : m = (b * q + r) % b /\ k = (b * q + r) \div b
  <2>1. b * q + r \in Nat
    OBVIOUS
  <2> QED BY <2>1
<1>2. b * q + r = b * k + m /\ m < b
  BY <1>1
<1>3. b * (q - k) = m - r
  BY <1>2
<1>4. q - k = 0
  <2>1. CASE q - k >= 1
    <3>1. b * (q - k) >= b
      BY <2>1
    <3> QED BY <3>1, <1>2, <1>3
  <2>2. CASE q - k <= -1
    <3>1. b * (q - k) <= -b
      BY <2>2
    <3> QED BY <3>1, <1>2, <1>3
  <2> QED BY <2>1, <2>2
<1> QED BY <1>1, <1>3, <1>4

\* The remainder of the next number.
LEMMA RemainderOfNext ==
  ASSUME NEW c \in Nat, NEW b \in Nat \ {0}
  PROVE  /\ c % b \in 0 .. b - 1
         /\ (c + 1) % b = IF c % b = b - 1 THEN 0 ELSE (c % b) + 1
<1>1. PICK q \in Nat, r \in 0 .. b - 1 : q = c \div b /\ r = c % b
  <2>1. c \div b \in Nat /\ c % b \in 0 .. b - 1
    OBVIOUS
  <2> QED BY <2>1
<1>2. c = b * q + r
  BY <1>1
<1>3. CASE r = b - 1
  <2>1. c + 1 = b * (q + 1) + 0
    BY <1>2, <1>3
  <2>2. (b * (q + 1) + 0) % b = 0
    BY RemainderIs
  <2> QED BY <1>1, <1>3, <2>1, <2>2
<1>4. CASE r # b - 1
  <2>1. c + 1 = b * q + (r + 1) /\ r + 1 \in 0 .. b - 1
    BY <1>2, <1>4
  <2>2. (b * q + (r + 1)) % b = r + 1
    BY RemainderIs, <2>1
  <2> QED BY <1>1, <1>4, <2>1, <2>2
<1> QED BY <1>3, <1>4

\* What failures cost.
LEMMA DeadlineIs ==
  ASSUME ToolLogTypeOK
  PROVE  /\ Deadline \in Nat /\ logMarker.set <= Deadline
         /\ FailuresAreBridged => Deadline + Beat <= logMarker.set + LookBack
<1> DEFINE cost == Beat + FailMinutes
<1>1. cost \in Nat /\ syncFaults \in Nat /\ SyncFaults \in Nat /\ syncFaults <= SyncFaults
  BY ToolQueryLogsAssumption DEF ToolLogTypeOK
<1>2. logMarker.set \in Nat /\ Beat \in Nat /\ LookBack \in Nat
  BY ToolQueryLogsAssumption DEF ToolLogTypeOK
<1>3. Deadline = logMarker.set + syncFaults * cost
  BY DEF Deadline
<1>4. FailuresAreBridged => SyncFaults * cost + Beat <= LookBack
  BY DEF FailuresAreBridged
<1> HIDE DEF cost
<1>5. PICK f \in Nat, g \in Nat : f = syncFaults * cost /\ g = SyncFaults * cost
  BY <1>1
<1>6. f <= g
  BY <1>1, <1>5
<1> QED BY <1>2, <1>3, <1>4, <1>5, <1>6

\* One failure more, and a marker that is set now.
LEMMA DeadlineMoves ==
  ASSUME ToolLogTypeOK, logMarker' \in [at : Nat, set : Nat], syncFaults' \in Nat
  PROVE  /\ logMarker' = logMarker /\ syncFaults' = syncFaults + 1
               => Deadline' = Deadline + Beat + FailMinutes
         /\ logMarker' = logMarker /\ syncFaults' = syncFaults => Deadline' = Deadline
         /\ Deadline' \in Nat /\ logMarker'.set <= Deadline'
<1> DEFINE cost == Beat + FailMinutes
<1>1. cost \in Nat /\ syncFaults \in Nat /\ Beat \in Nat /\ FailMinutes \in Nat
  BY ToolQueryLogsAssumption DEF ToolLogTypeOK
<1>2. logMarker.set \in Nat /\ logMarker'.set \in Nat
  BY DEF ToolLogTypeOK
<1>3. Deadline = logMarker.set + syncFaults * cost /\ Deadline' = logMarker'.set + syncFaults' * cost
  BY DEF Deadline
<1>4. cost = Beat + FailMinutes
  OBVIOUS
<1> HIDE DEF cost
<1>5. PICK m \in Nat, n \in Nat : m = syncFaults /\ n = syncFaults'
  BY <1>1
<1>6. PICK f \in Nat, g \in Nat : f = m * cost /\ g = n * cost
  BY <1>1
<1>7. n = m + 1 => g = f + cost
  BY <1>1, <1>6
<1>8. Deadline = logMarker.set + f /\ Deadline' = logMarker'.set + g
  BY <1>3, <1>5, <1>6
<1>9. logMarker' = logMarker /\ syncFaults' = syncFaults + 1 => Deadline' = Deadline + Beat + FailMinutes
  BY <1>1, <1>2, <1>4, <1>5, <1>7, <1>8
<1>10. logMarker' = logMarker /\ syncFaults' = syncFaults => Deadline' = Deadline
  BY DEF Deadline
<1>11. Deadline' \in Nat /\ logMarker'.set <= Deadline'
  BY <1>2, <1>8
<1> QED BY <1>9, <1>10, <1>11

RunType == [pc : {"idle", "fetch", "copy", "tables"}, start : 0 .. MaxClock,
            from : 0 .. MaxClock, to : 0 .. MaxClock, logs : SUBSET Entry, made : SUBSET Entry]

\* One run's record is replaced.
LEMMA RunReplaced ==
  ASSUME ToolLogTypeOK, NEW w \in Worker, NEW r \in RunType,
         logSync' = [logSync EXCEPT ![w] = r]
  PROVE  /\ logSync' \in [Worker -> RunType] /\ logSync'[w] = r
         /\ \A v \in Worker \ {w} : logSync'[v] = logSync[v]
<1>1. logSync \in [Worker -> RunType]
  BY DEF ToolLogTypeOK, RunType
<1> HIDE DEF RunType
<1> QED BY <1>1

\* The run of w is at pc now, with these entries to copy and these made.
RunGoes(w, pc, logs, made) ==
  /\ logSync' \in [Worker -> RunType]
  /\ \A v \in Worker \ {w} : logSync'[v] = logSync[v]
  /\ logSync'[w].pc = pc /\ logSync'[w].logs = logs /\ logSync'[w].made = made
  /\ logSync'[w].start = logSync[w].start
  /\ logSync'[w].from = logSync[w].from /\ logSync'[w].to = logSync[w].to

\* The ways in which a step changes the record of a run.
Changed(r, row, pc, logs, made) ==
  \/ row = [r EXCEPT !.pc = pc, !.logs = logs, !.made = made]
  \/ row = [r EXCEPT !.pc = pc, !.logs = logs] /\ made = r.made
  \/ row = [r EXCEPT !.logs = logs] /\ pc = r.pc /\ made = r.made
  \/ row = [r EXCEPT !.pc = pc] /\ logs = r.logs /\ made = r.made

\* The record of a run that goes on.
LEMMA RecordGoes ==
  ASSUME NEW r \in RunType, NEW pc \in {"idle", "fetch", "copy", "tables"},
         NEW logs \in SUBSET Entry, NEW made \in SUBSET Entry, NEW row,
         Changed(r, row, pc, logs, made)
  PROVE  /\ row \in RunType
         /\ row.pc = pc /\ row.logs = logs /\ row.made = made
         /\ row.start = r.start /\ row.from = r.from /\ row.to = r.to
<1>1. CASE row = [r EXCEPT !.pc = pc, !.logs = logs, !.made = made]
  <2>1. row \in RunType
    BY <1>1, ZenonT(60) DEF RunType
  <2> QED BY <1>1, <2>1 DEF RunType
<1>2. CASE row = [r EXCEPT !.pc = pc, !.logs = logs] /\ made = r.made
  <2>1. row \in RunType
    BY <1>2, ZenonT(60) DEF RunType
  <2> QED BY <1>2, <2>1 DEF RunType
<1>3. CASE row = [r EXCEPT !.logs = logs] /\ pc = r.pc /\ made = r.made
  BY <1>3 DEF RunType
<1>4. CASE row = [r EXCEPT !.pc = pc] /\ logs = r.logs /\ made = r.made
  BY <1>4 DEF RunType
<1> QED BY <1>1, <1>2, <1>3, <1>4 DEF Changed

\* A row put in the place of a worker's.
LEMMA RowGoes ==
  ASSUME ToolLogTypeOK, NEW w \in Worker, NEW row \in RunType, NEW pc, NEW logs, NEW made,
         logSync' = [logSync EXCEPT ![w] = row],
         row.pc = pc /\ row.logs = logs /\ row.made = made,
         row.start = logSync[w].start /\ row.from = logSync[w].from /\ row.to = logSync[w].to
  PROVE  RunGoes(w, pc, logs, made)
<1>1. /\ logSync' \in [Worker -> RunType] /\ logSync'[w] = row
      /\ \A v \in Worker \ {w} : logSync'[v] = logSync[v]
  BY RunReplaced
<1> QED BY <1>1 DEF RunGoes

\* What the steps within a run make of its record.
LEMMA RunMoves ==
  ASSUME ToolLogTypeOK, NEW w \in Worker
  PROVE  /\ FetchLogs(w) => RunGoes(w, "copy", Window(w), logSync[w].made)
         /\ \A e \in Entry : SkipEntry(w, e)
              => RunGoes(w, "copy", logSync[w].logs \ {e}, logSync[w].made)
         /\ \A e \in Entry : CreateEntry(w, e)
              => RunGoes(w, "tables", logSync[w].logs \ {e}, {e})
         /\ RecordTables(w) => RunGoes(w, "copy", logSync[w].logs, logSync[w].made)
<1>1. logSync \in [Worker -> RunType] /\ logSync[w] \in RunType
  BY DEF ToolLogTypeOK, RunType
<1>2. logSync[w].logs \in SUBSET Entry /\ logSync[w].made \in SUBSET Entry
  BY <1>1 DEF RunType
<1>3. ASSUME FetchLogs(w) PROVE RunGoes(w, "copy", Window(w), logSync[w].made)
  <2>1. logSync' = [logSync EXCEPT ![w].pc = "copy", ![w].logs = Window(w)]
    BY <1>3 DEF FetchLogs, Window
  <2>2. Window(w) \in SUBSET Entry
    BY DEF Window
  <2>3. PICK row : row = [logSync[w] EXCEPT !.pc = "copy", !.logs = Window(w)]
    OBVIOUS
  <2>4. logSync' = [logSync EXCEPT ![w] = row]
    BY <1>1, <2>1, <2>3
  <2>5. PICK pc \in {"idle", "fetch", "copy", "tables"} : pc = "copy"
    OBVIOUS
  <2>60. Changed(logSync[w], row, pc, Window(w), logSync[w].made)
    BY <1>1, <1>2, <2>3, <2>5 DEF Changed
  <2>6. /\ row \in RunType
        /\ row.pc = pc /\ row.logs = Window(w) /\ row.made = logSync[w].made
        /\ row.start = logSync[w].start /\ row.from = logSync[w].from
        /\ row.to = logSync[w].to
    BY <1>1, <1>2, <2>2, <2>60, RecordGoes
  <2>7. RunGoes(w, pc, Window(w), logSync[w].made)
    BY <2>4, <2>6, RowGoes
  <2> QED BY <2>5, <2>7
<1>4. ASSUME NEW e \in Entry, SkipEntry(w, e)
      PROVE  RunGoes(w, "copy", logSync[w].logs \ {e}, logSync[w].made)
  <2>1. logSync[w].pc = "copy" /\ logSync' = [logSync EXCEPT ![w].logs = @ \ {e}]
    BY <1>4 DEF SkipEntry
  <2>2. PICK logs \in SUBSET Entry : logs = logSync[w].logs \ {e}
    BY <1>2
  <2>3. PICK row : row = [logSync[w] EXCEPT !.logs = logs]
    OBVIOUS
  <2>4. logSync' = [logSync EXCEPT ![w] = row]
    BY <1>1, <2>1, <2>2, <2>3
  <2>5. PICK pc \in {"idle", "fetch", "copy", "tables"} : pc = "copy"
    OBVIOUS
  <2>60. Changed(logSync[w], row, pc, logs, logSync[w].made)
    BY <1>1, <1>2, <2>1, <2>3, <2>5 DEF Changed
  <2>6. /\ row \in RunType
        /\ row.pc = pc /\ row.logs = logs /\ row.made = logSync[w].made
        /\ row.start = logSync[w].start /\ row.from = logSync[w].from
        /\ row.to = logSync[w].to
    BY <1>1, <1>2, <2>60, RecordGoes
  <2>7. RunGoes(w, pc, logs, logSync[w].made)
    BY <2>4, <2>6, RowGoes
  <2> QED BY <2>2, <2>5, <2>7
<1>5. ASSUME NEW e \in Entry, CreateEntry(w, e)
      PROVE  RunGoes(w, "tables", logSync[w].logs \ {e}, {e})
  <2>1. PICK logs \in SUBSET Entry : logs = logSync[w].logs \ {e}
    BY <1>2
  <2>2. logSync' = [logSync EXCEPT ![w].pc = "tables", ![w].logs = logs, ![w].made = {e}]
    BY <1>1, <1>5, <2>1 DEF CreateEntry
  <2>3. PICK row : row = [logSync[w] EXCEPT !.pc = "tables", !.logs = logs, !.made = {e}]
    OBVIOUS
  <2>4. logSync' = [logSync EXCEPT ![w] = row]
    BY <1>1, <2>2, <2>3
  <2>5. PICK pc \in {"idle", "fetch", "copy", "tables"}, made \in SUBSET Entry :
           pc = "tables" /\ made = {e}
    OBVIOUS
  <2>60. Changed(logSync[w], row, pc, logs, made)
    BY <1>1, <2>3, <2>5 DEF Changed
  <2>6. /\ row \in RunType
        /\ row.pc = pc /\ row.logs = logs /\ row.made = made
        /\ row.start = logSync[w].start /\ row.from = logSync[w].from
        /\ row.to = logSync[w].to
    BY <1>1, <1>2, <2>60, RecordGoes
  <2>7. RunGoes(w, pc, logs, made)
    BY <2>4, <2>6, RowGoes
  <2> QED BY <2>1, <2>5, <2>7
<1>6. ASSUME RecordTables(w) PROVE RunGoes(w, "copy", logSync[w].logs, logSync[w].made)
  <2>1. logSync' = [logSync EXCEPT ![w].pc = "copy"]
    BY <1>6 DEF RecordTables, SyncGoto
  <2>2. PICK row : row = [logSync[w] EXCEPT !.pc = "copy"]
    OBVIOUS
  <2>3. logSync' = [logSync EXCEPT ![w] = row]
    BY <1>1, <2>1, <2>2
  <2>4. PICK pc \in {"idle", "fetch", "copy", "tables"} : pc = "copy"
    OBVIOUS
  <2>50. Changed(logSync[w], row, pc, logSync[w].logs, logSync[w].made)
    BY <1>1, <1>2, <2>2, <2>4 DEF Changed
  <2>5. /\ row \in RunType
        /\ row.pc = pc /\ row.logs = logSync[w].logs /\ row.made = logSync[w].made
        /\ row.start = logSync[w].start /\ row.from = logSync[w].from
        /\ row.to = logSync[w].to
    BY <1>1, <1>2, <2>50, RecordGoes
  <2>6. RunGoes(w, pc, logSync[w].logs, logSync[w].made)
    BY <2>3, <2>5, RowGoes
  <2> QED BY <2>4, <2>6
<1> QED BY <1>3, <1>4, <1>5, <1>6

\* A run that a step leaves alone, while time passes and entries are logged and copied.
LEMMA OtherRun ==
  ASSUME ToolLogTypeOK, LogRunInv, NEW v \in Worker,
         logSync'[v] = logSync[v], lastRunLock' = v <=> lastRunLock = v,
         auditLog \subseteq auditLog', ownerless \subseteq ownerless',
         \/ logSync[v].pc = "idle"
         \/ /\ clock' \in Nat /\ clock <= clock'
            /\ UNCHANGED <<logMarker, syncFaults>>
            /\ \A e \in Entry : logTime'[e] = logTime[e] \/ logTime'[e] = clock
  PROVE  /\ logSync'[v].pc # "idle" <=> lastRunLock' = v
         /\ logSync'[v].made \subseteq auditLog'
         /\ logSync'[v].pc # "idle" => RunTimes(v)'
         /\ logSync'[v].pc \in {"copy", "tables"}
              => Window(v)' \subseteq logSync'[v].logs \cup auditLog' \cup ownerless'
<1>1. /\ logSync'[v].pc # "idle" <=> lastRunLock' = v
      /\ logSync'[v].made \subseteq auditLog'
  BY DEF LogRunInv
<1>2. ASSUME logSync[v].pc # "idle"
      PROVE  /\ RunTimes(v)'
             /\ logSync'[v].pc \in {"copy", "tables"}
                  => Window(v)' \subseteq logSync'[v].logs \cup auditLog' \cup ownerless'
  <2>1. RunTimes(v) /\ clock \in Nat /\ clock' \in Nat /\ clock <= clock'
    BY <1>2 DEF LogRunInv, ToolLogTypeOK
  <2>2. Deadline' = Deadline
    BY <1>2 DEF Deadline
  <2>3. logSync[v] \in RunType
    BY DEF ToolLogTypeOK, RunType
  <2>4. /\ logSync[v].start \in Nat /\ logSync[v].to \in Nat /\ logSync[v].from \in Nat
    BY <2>3 DEF RunType
  <2>5. RunTimes(v)'
    BY <1>2, <2>1, <2>2, <2>4 DEF RunTimes, FailuresAreBridged
  <2>6. Window(v)' \subseteq Window(v)
    BY <1>2, <2>1, <2>4 DEF Window, RunTimes
  <2> QED BY <2>5, <2>6, <1>2 DEF LogRunInv
<1> QED BY <1>1, <1>2

\* A step within a run copies what the run has read, or has yet to copy it.
LEMMA RunGoesOn ==
  ASSUME ToolLogInv, NEW w \in Worker, logSync[w].pc # "idle",
         NEW pc \in {"copy", "tables"}, NEW logs \in SUBSET Entry,
         NEW made \in SUBSET Entry, RunGoes(w, pc, logs, made),
         auditLog \subseteq auditLog', auditLog' \subseteq Entry,
         logTables' \subseteq auditLog', made \subseteq auditLog',
         Window(w) \subseteq logs \cup auditLog' \cup ownerless,
         UNCHANGED <<clock, due, logTime, ownerless, logMarker, lastRunLock, syncFaults>>
  PROVE  ToolLogInv'
<1>1. ToolLogTypeOK /\ LogRunInv /\ BeatInv
  BY DEF ToolLogInv
<1>2. Deadline' = Deadline
  BY DEF Deadline
<1>3. logSync' \in [Worker -> RunType]
  BY DEF RunGoes
<1>4. ToolLogTypeOK'
  BY <1>1, <1>3 DEF ToolLogTypeOK, RunType
<1>5. BeatInv'
  BY <1>1, <1>2 DEF BeatInv, FailuresAreBridged
<1>6. RunTimes(w)' /\ Window(w)' = Window(w)
  BY <1>1, <1>2 DEF LogRunInv, RunGoes, RunTimes, FailuresAreBridged, Window
<1>7. LogRunInv'
  <2> SUFFICES ASSUME NEW v \in Worker
               PROVE  /\ logSync'[v].pc # "idle" <=> lastRunLock' = v
                      /\ logSync'[v].made \subseteq auditLog'
                      /\ logSync'[v].pc # "idle" => RunTimes(v)'
                      /\ logSync'[v].pc \in {"copy", "tables"}
                           => Window(v)' \subseteq logSync'[v].logs \cup auditLog' \cup ownerless'
    BY DEF LogRunInv
  <2>1. CASE v # w
    <3>1. logSync'[v] = logSync[v] /\ clock \in Nat
      BY <2>1, <1>1 DEF RunGoes, ToolLogTypeOK
    <3> QED BY <3>1, <1>1, OtherRun
  <2>2. CASE v = w
    BY <2>2, <1>1, <1>6 DEF LogRunInv, RunGoes
  <2> QED BY <2>1, <2>2
<1>8. (FailuresAreBridged => AuditHasNoGaps)'
  BY DEF ToolLogInv, AuditHasNoGaps, FailuresAreBridged
<1> QED BY <1>4, <1>5, <1>7, <1>8 DEF ToolLogInv

\* FetchLogs, SkipEntry, CreateEntry and RecordTables.
LEMMA CopyInv ==
  ASSUME ToolLogInv, NEW w \in Worker,
         \/ FetchLogs(w) \/ RecordTables(w)
         \/ \E e \in Entry : SkipEntry(w, e) \/ CreateEntry(w, e)
  PROVE  ToolLogInv'
<1>1. ToolLogTypeOK /\ LogRunInv
  BY DEF ToolLogInv
<1>2. logSync[w] \in RunType
  BY <1>1 DEF ToolLogTypeOK, RunType
<1>3. /\ logSync[w].logs \in SUBSET Entry /\ logSync[w].made \in SUBSET Entry
      /\ logSync[w].made \subseteq auditLog
      /\ auditLog \subseteq Entry /\ logTables \subseteq auditLog
  BY <1>1, <1>2 DEF RunType, LogRunInv, ToolLogTypeOK
<1>4. CASE FetchLogs(w)
  <2>1. RunGoes(w, "copy", Window(w), logSync[w].made)
    BY <1>4, <1>1, RunMoves
  <2>2. /\ logSync[w].pc # "idle"
        /\ UNCHANGED <<clock, due, logTime, ownerless, logMarker, lastRunLock, syncFaults,
                       auditLog, logTables>>
    BY <1>4 DEF FetchLogs
  <2>3. PICK pc \in {"copy", "tables"} : pc = "copy"
    OBVIOUS
  <2>4. Window(w) \in SUBSET Entry
    BY DEF Window
  <2>5. RunGoes(w, pc, Window(w), logSync[w].made)
    BY <2>1, <2>3
  <2> QED BY <1>3, <2>2, <2>4, <2>5, RunGoesOn
<1>5. CASE RecordTables(w)
  <2>1. RunGoes(w, "copy", logSync[w].logs, logSync[w].made)
    BY <1>5, <1>1, RunMoves
  <2>2. /\ logSync[w].pc = "tables"
        /\ UNCHANGED <<clock, due, logTime, ownerless, logMarker, lastRunLock, syncFaults,
                       auditLog>>
        /\ logTables' = logTables \cup logSync[w].made
    BY <1>5 DEF RecordTables, SyncGoto
  <2>3. PICK pc \in {"copy", "tables"} : pc = "copy"
    OBVIOUS
  <2>4. Window(w) \subseteq logSync[w].logs \cup auditLog \cup ownerless
    BY <2>2, <1>1 DEF LogRunInv
  <2>5. RunGoes(w, pc, logSync[w].logs, logSync[w].made)
    BY <2>1, <2>3
  <2>6. /\ logSync[w].pc # "idle" /\ auditLog \subseteq auditLog' /\ auditLog' \subseteq Entry
        /\ logTables' \subseteq auditLog' /\ logSync[w].made \subseteq auditLog'
        /\ Window(w) \subseteq logSync[w].logs \cup auditLog' \cup ownerless
    BY <1>3, <2>2, <2>4
  <2> QED BY <1>3, <2>2, <2>5, <2>6, RunGoesOn
<1>6. ASSUME NEW e \in Entry, SkipEntry(w, e) PROVE ToolLogInv'
  <2>1. RunGoes(w, "copy", logSync[w].logs \ {e}, logSync[w].made)
    BY <1>6, <1>1, RunMoves
  <2>2. /\ logSync[w].pc = "copy" /\ e \in ownerless \cup auditLog
        /\ UNCHANGED <<clock, due, logTime, ownerless, logMarker, lastRunLock, syncFaults,
                       auditLog, logTables>>
    BY <1>6 DEF SkipEntry
  <2>3. PICK pc \in {"copy", "tables"}, logs \in SUBSET Entry :
           pc = "copy" /\ logs = logSync[w].logs \ {e}
    BY <1>3
  <2>4. Window(w) \subseteq logs \cup auditLog \cup ownerless
    BY <2>2, <2>3, <1>1 DEF LogRunInv
  <2>5. RunGoes(w, pc, logs, logSync[w].made)
    BY <2>1, <2>3
  <2>6. logSync[w].pc # "idle" /\ logSync[w].made \subseteq auditLog'
        /\ Window(w) \subseteq logs \cup auditLog' \cup ownerless
    BY <1>3, <2>2, <2>4
  <2> QED BY <1>3, <2>2, <2>5, <2>6, RunGoesOn
<1>7. ASSUME NEW e \in Entry, CreateEntry(w, e) PROVE ToolLogInv'
  <2>1. RunGoes(w, "tables", logSync[w].logs \ {e}, {e})
    BY <1>7, <1>1, RunMoves
  <2>2. /\ logSync[w].pc = "copy" /\ auditLog' = auditLog \cup {e}
        /\ UNCHANGED <<clock, due, logTime, ownerless, logMarker, lastRunLock, syncFaults,
                       logTables>>
    BY <1>7 DEF CreateEntry
  <2>3. PICK pc \in {"copy", "tables"}, logs \in SUBSET Entry, made \in SUBSET Entry :
           pc = "tables" /\ logs = logSync[w].logs \ {e} /\ made = {e}
    BY <1>3
  <2>4. Window(w) \subseteq logSync[w].logs \cup auditLog \cup ownerless
    BY <2>2, <1>1 DEF LogRunInv
  <2>5. RunGoes(w, pc, logs, made)
    BY <2>1, <2>3
  <2>6. /\ logSync[w].pc # "idle" /\ made \subseteq auditLog'
        /\ auditLog \subseteq auditLog' /\ auditLog' \subseteq Entry /\ logTables' \subseteq auditLog'
        /\ Window(w) \subseteq logs \cup auditLog' \cup ownerless
    BY <1>3, <2>2, <2>3, <2>4
  <2> QED BY <2>2, <2>5, <2>6, RunGoesOn
<1> QED BY <1>4, <1>5, <1>6, <1>7

\* Time passes; a beat is due once in Beat minutes.
LEMMA TickInv ==
  ASSUME ToolLogInv, Tick PROVE ToolLogInv'
<1>1. ToolLogTypeOK /\ LogRunInv /\ BeatInv
  BY DEF ToolLogInv
<1>2. /\ clock' = clock + 1 /\ clock < MaxClock /\ ~ due /\ due' = (clock' % Beat = 0)
      /\ UNCHANGED <<logTime, ownerless, logMarker, lastRunLock, auditLog, logTables,
                     logSync, syncFaults>>
  BY DEF Tick
<1>3. clock \in Nat /\ clock' \in Nat /\ clock <= clock' /\ clock' \in 1 .. MaxClock
  BY <1>1, <1>2, ToolQueryLogsAssumption DEF ToolLogTypeOK
<1>4. ToolLogTypeOK'
  BY <1>1, <1>2, <1>3 DEF ToolLogTypeOK
<1>5. LogRunInv'
  <2> SUFFICES ASSUME NEW v \in Worker
               PROVE  /\ logSync'[v].pc # "idle" <=> lastRunLock' = v
                      /\ logSync'[v].made \subseteq auditLog'
                      /\ logSync'[v].pc # "idle" => RunTimes(v)'
                      /\ logSync'[v].pc \in {"copy", "tables"}
                           => Window(v)' \subseteq logSync'[v].logs \cup auditLog' \cup ownerless'
    BY DEF LogRunInv
  <2> QED BY <1>1, <1>2, <1>3, OtherRun
<1>6. BeatInv'
  <2>1. Deadline' = Deadline /\ Deadline \in Nat
    BY <1>1, <1>2, DeadlineIs DEF Deadline
  <2>2. Beat \in Nat \ {0}
    BY ToolQueryLogsAssumption
  <2>3. PICK m \in Nat, n \in Nat :
           m = clock % Beat /\ n = clock' % Beat /\ m <= Beat - 1
           /\ n = IF m = Beat - 1 THEN 0 ELSE m + 1
    <3>1. /\ clock % Beat \in 0 .. Beat - 1
          /\ (clock + 1) % Beat = IF clock % Beat = Beat - 1 THEN 0 ELSE (clock % Beat) + 1
      BY <1>3, <2>2, RemainderOfNext
    <3>2. PICK m, n : m = clock % Beat /\ n = (clock + 1) % Beat
      OBVIOUS
    <3>3. m \in Nat /\ m <= Beat - 1 /\ n = IF m = Beat - 1 THEN 0 ELSE m + 1
      BY <2>2, <3>1, <3>2
    <3>4. n \in Nat /\ n = clock' % Beat
      BY <1>2, <3>2, <3>3
    <3> QED BY <3>2, <3>3, <3>4
  <2>4. logMarker.at <= logMarker.set /\ logMarker.set <= clock /\ logMarker.set \in Nat
    BY <1>1 DEF BeatInv, ToolLogTypeOK
  <2>5. logMarker'.at <= logMarker'.set /\ logMarker'.set <= clock'
    BY <1>2, <1>3, <2>4
  <2>6. ASSUME FailuresAreBridged, lastRunLock' = Nobody
        PROVE  /\ ~ due' => clock' - n <= Deadline
               /\ due' => clock' <= Deadline + Beat
    <3>1. clock - m <= Deadline /\ Beat > 1 /\ (due' <=> n = 0) /\ clock' = clock + 1
      BY <1>1, <1>2, <2>3, <2>6 DEF BeatInv, FailuresAreBridged
    <3>4. m \in Nat /\ n \in Nat /\ n = IF m = Beat - 1 THEN 0 ELSE m + 1
      BY <2>3
    <3>2. CASE m = Beat - 1
      BY <1>3, <2>1, <2>2, <3>1, <3>2, <3>4
    <3>3. CASE m # Beat - 1
      BY <1>3, <2>1, <2>2, <3>1, <3>3, <3>4
    <3> QED BY <3>2, <3>3
  <2> QED BY <2>1, <2>3, <2>5, <2>6 DEF BeatInv, FailuresAreBridged
<1>7. (FailuresAreBridged => AuditHasNoGaps)'
  BY <1>2 DEF ToolLogInv, AuditHasNoGaps, FailuresAreBridged
<1> QED BY <1>4, <1>5, <1>6, <1>7 DEF ToolLogInv

\* A tool's statement is logged now: no run has read past it.
LEMMA LogQueryInv ==
  ASSUME ToolLogInv, NEW e \in Entry, LogQuery(e) \/ OwnerDeleted(e) PROVE ToolLogInv'
<1>1. ToolLogTypeOK /\ LogRunInv /\ BeatInv
  BY DEF ToolLogInv
<1>2. /\ \/ /\ logTime' = [logTime EXCEPT ![e] = clock] /\ ownerless' = ownerless
            /\ logTime[e] = 0
         \/ logTime' = logTime /\ ownerless' = ownerless \cup {e}
      /\ UNCHANGED <<clock, due, logMarker, lastRunLock, auditLog, logTables, logSync,
                     syncFaults>>
  BY DEF LogQuery, OwnerDeleted
<1>3. clock \in 1 .. MaxClock /\ clock \in Nat /\ logTime \in [Entry -> 0 .. MaxClock]
  BY <1>1, ToolQueryLogsAssumption DEF ToolLogTypeOK
<1>4. /\ logTime' \in [Entry -> 0 .. MaxClock]
      /\ \A f \in Entry : logTime'[f] = logTime[f] \/ logTime'[f] = clock
  BY <1>2, <1>3
<1>5. ownerless \subseteq ownerless' /\ ownerless' \subseteq Entry
  BY <1>1, <1>2 DEF ToolLogTypeOK
<1>6. ToolLogTypeOK'
  BY <1>1, <1>2, <1>4, <1>5 DEF ToolLogTypeOK
<1>7. LogRunInv'
  <2> SUFFICES ASSUME NEW v \in Worker
               PROVE  /\ logSync'[v].pc # "idle" <=> lastRunLock' = v
                      /\ logSync'[v].made \subseteq auditLog'
                      /\ logSync'[v].pc # "idle" => RunTimes(v)'
                      /\ logSync'[v].pc \in {"copy", "tables"}
                           => Window(v)' \subseteq logSync'[v].logs \cup auditLog' \cup ownerless'
    BY DEF LogRunInv
  <2>1. clock' \in Nat /\ clock <= clock'
    BY <1>2, <1>3
  <2> QED BY <1>1, <1>2, <1>4, <1>5, <2>1, OtherRun
<1>8. BeatInv'
  BY <1>1, <1>2 DEF BeatInv, Deadline, FailuresAreBridged
<1>9. (FailuresAreBridged => AuditHasNoGaps)'
  <2> SUFFICES ASSUME FailuresAreBridged, NEW f \in Entry,
                      logTime'[f] \in 1 .. logMarker.at - 1
               PROVE  f \in auditLog \cup ownerless'
    BY <1>2 DEF AuditHasNoGaps, FailuresAreBridged
  <2>1. logMarker.at <= clock /\ logMarker.at \in Nat
    BY <1>1, <1>3 DEF BeatInv, ToolLogTypeOK
  <2>2. logTime'[f] = logTime[f]
    BY <1>3, <1>4, <2>1
  <2> QED BY <2>2, <1>5 DEF ToolLogInv, AuditHasNoGaps
<1> QED BY <1>6, <1>7, <1>8, <1>9 DEF ToolLogInv

\* A run that takes the lock starts where the copied entries end: its predecessors were
\* no later than the cache remembers.
LEMMA SyncStartInv ==
  ASSUME ToolLogInv, NEW w \in Worker, SyncStart(w) PROVE ToolLogInv'
<1>1. ToolLogTypeOK /\ LogRunInv /\ BeatInv
  BY DEF ToolLogInv
<1>2. /\ due /\ ~ due' /\ logSync[w].pc = "idle"
      /\ UNCHANGED <<clock, logTime, ownerless, logMarker, auditLog, logTables, syncFaults>>
  BY DEF SyncStart
<1>3. Deadline' = Deadline
  BY <1>2 DEF Deadline
<1>4. logMarker \in [at : 0 .. MaxClock, set : 0 .. MaxClock] /\ clock \in 1 .. MaxClock
      /\ LookBack \in Nat /\ MaxClock \in Nat
  BY <1>1, ToolQueryLogsAssumption DEF ToolLogTypeOK
<1>5. clock \in Nat /\ clock <= MaxClock /\ logMarker.at \in Nat /\ logMarker.set \in Nat
      /\ logMarker.at <= MaxClock
  BY <1>4
<1>6. (FailuresAreBridged => AuditHasNoGaps)'
  BY <1>2 DEF ToolLogInv, AuditHasNoGaps, FailuresAreBridged
<1>7. CASE lastRunLock # Nobody /\ UNCHANGED <<lastRunLock, logSync>>
  <2>1. ToolLogTypeOK'
    BY <1>1, <1>2, <1>7 DEF ToolLogTypeOK, SyncStart
  <2>2. BeatInv'
    BY <1>1, <1>2, <1>7 DEF BeatInv
  <2>3. LogRunInv'
    BY <1>1, <1>2, <1>3, <1>7 DEF LogRunInv, RunTimes, Window, FailuresAreBridged
  <2> QED BY <1>6, <2>1, <2>2, <2>3 DEF ToolLogInv
<1>8. CASE /\ lastRunLock = Nobody /\ lastRunLock' = w
           /\ logSync' = [logSync EXCEPT ![w] = SyncStarted]
  <2>1. PICK row : row = SyncStarted
    OBVIOUS
  <2>2. /\ row.pc = "fetch" /\ row.start = clock /\ row.to = clock /\ row.made = {}
        /\ row.from = IF Marked THEN logMarker.at
                      ELSE IF clock > LookBack THEN clock - LookBack ELSE 0
    BY <2>1 DEF SyncStarted
  <2>3. row.from \in 0 .. MaxClock
    BY <1>4, <1>5, <2>2
  <2>4. row = [pc |-> "fetch", start |-> clock, to |-> clock, logs |-> {}, made |-> {},
               from |-> row.from]
    BY <2>1, <2>2 DEF SyncStarted
  <2>5. row \in RunType
    BY <1>4, <1>5, <2>3, <2>4 DEF RunType
  <2>6. /\ logSync' \in [Worker -> RunType] /\ logSync'[w] = row
        /\ \A v \in Worker \ {w} : logSync'[v] = logSync[v]
    BY <1>1, <1>8, <2>1, <2>5, RunReplaced
  <2>7. ToolLogTypeOK'
    BY <1>1, <1>2, <1>8, <2>6 DEF ToolLogTypeOK, RunType, SyncStart
  <2>8. w # Nobody
    BY ToolQueryLogsAssumption
  <2>9. BeatInv'
    BY <1>1, <1>2, <1>8, <2>8 DEF BeatInv
  <2>10. logMarker.at <= logMarker.set /\ logMarker.set <= clock
    BY <1>1 DEF BeatInv
  <2>11. ASSUME FailuresAreBridged
         PROVE  row.from <= logMarker.at /\ clock <= Deadline + Beat
    <3>1. clock <= Deadline + Beat
      BY <1>1, <1>2, <1>8, <2>11 DEF BeatInv
    <3>2. clock <= logMarker.set + LookBack
      <4>1. Deadline + Beat <= logMarker.set + LookBack /\ Deadline \in Nat
        BY <1>1, <2>11, DeadlineIs
      <4>2. Beat \in Nat
        BY ToolQueryLogsAssumption
      <4> QED BY <1>4, <1>5, <3>1, <4>1, <4>2
    <3>3. CASE Marked
      BY <1>5, <2>2, <3>1, <3>3
    <3>4. CASE ~ Marked
      <4>1. logMarker = NoMarker
        BY <3>2, <3>4 DEF Marked
      <4>2. logMarker.set = 0 /\ logMarker.at = 0
        BY <4>1 DEF NoMarker
      <4>3. row.from = 0
        BY <1>4, <1>5, <2>2, <3>2, <3>4, <4>2
      <4> QED BY <3>1, <4>2, <4>3
    <3> QED BY <3>3, <3>4
  <2>12. RunTimes(w)'
    BY <1>2, <1>3, <1>5, <2>2, <2>6, <2>10, <2>11 DEF RunTimes, FailuresAreBridged
  <2>13. LogRunInv'
    <3> SUFFICES ASSUME NEW v \in Worker
                 PROVE  /\ logSync'[v].pc # "idle" <=> lastRunLock' = v
                        /\ logSync'[v].made \subseteq auditLog'
                        /\ logSync'[v].pc # "idle" => RunTimes(v)'
                        /\ logSync'[v].pc \in {"copy", "tables"}
                             => Window(v)' \subseteq logSync'[v].logs \cup auditLog' \cup ownerless'
      BY DEF LogRunInv
    <3>1. CASE v # w
      <4>1. logSync'[v] = logSync[v] /\ v # Nobody
        BY <2>6, <3>1, ToolQueryLogsAssumption
      <4>2. logSync[v].pc = "idle" /\ (lastRunLock' = v <=> lastRunLock = v)
        BY <1>1, <1>8, <3>1, <4>1 DEF LogRunInv
      <4> QED BY <1>1, <1>2, <4>1, <4>2, OtherRun
    <3>2. CASE v = w
      BY <3>2, <1>8, <2>2, <2>6, <2>12
    <3> QED BY <3>1, <3>2
  <2> QED BY <1>6, <2>7, <2>9, <2>13 DEF ToolLogInv
<1> QED BY <1>7, <1>8 DEF SyncStart

\* A run that ends has copied its window, or has cost no more than the minutes into a
\* run that it fails at.
LEMMA RunEndsInv ==
  ASSUME ToolLogInv, NEW w \in Worker, FinishRun(w) \/ LogSyncFails(w)
  PROVE  ToolLogInv' /\ logMarker.at <= logMarker'.at
<1>1. ToolLogTypeOK /\ LogRunInv /\ BeatInv
  BY DEF ToolLogInv
<1>2. /\ logSync[w].pc # "idle"
      /\ logSync' = [logSync EXCEPT ![w] = NoRun]
      /\ lastRunLock' = IF lastRunLock = w THEN Nobody ELSE lastRunLock
      /\ UNCHANGED <<clock, due, logTime, ownerless, auditLog, logTables>>
      /\ \/ logMarker' = [at |-> logSync[w].to, set |-> clock] /\ UNCHANGED syncFaults
         \/ logMarker' = logMarker /\ syncFaults' = syncFaults + 1
  BY DEF FinishRun, LogSyncFails
<1>3. lastRunLock = w /\ lastRunLock' = Nobody /\ RunTimes(w)
  BY <1>1, <1>2 DEF LogRunInv
<1>4. logSync[w] \in RunType
  BY <1>1 DEF ToolLogTypeOK, RunType
<1>5. /\ logSync[w].to \in 0 .. MaxClock /\ logSync[w].start \in Nat
      /\ clock \in 1 .. MaxClock /\ MaxClock \in Nat
      /\ logMarker \in [at : 0 .. MaxClock, set : 0 .. MaxClock]
  BY <1>1, <1>4, ToolQueryLogsAssumption DEF RunType, ToolLogTypeOK
<1>6. clock \in Nat /\ logSync[w].to \in Nat /\ logMarker.at \in Nat /\ logMarker.set \in Nat
  BY <1>5
<1>7. /\ logMarker' \in [at : 0 .. MaxClock, set : 0 .. MaxClock]
      /\ logMarker' \in [at : Nat, set : Nat]
  BY <1>2, <1>5, <1>6
<1>8. NoRun \in RunType
  BY <1>5 DEF NoRun, RunType
<1>9. PICK row \in RunType : row = NoRun
  BY <1>8
<1>10. /\ logSync' \in [Worker -> RunType] /\ logSync'[w] = NoRun
       /\ \A v \in Worker \ {w} : logSync'[v] = logSync[v]
  <2>1. logSync' = [logSync EXCEPT ![w] = row]
    BY <1>2, <1>9
  <2> QED BY <1>1, <1>9, <2>1, RunReplaced
<1>11. syncFaults' \in 0 .. SyncFaults
  BY <1>1, ToolQueryLogsAssumption DEF ToolLogTypeOK, FinishRun, LogSyncFails
<1>12. ToolLogTypeOK'
  BY <1>1, <1>2, <1>3, <1>7, <1>10, <1>11 DEF ToolLogTypeOK, RunType
<1>13. /\ logMarker.at <= logMarker'.at /\ logMarker'.at <= logMarker'.set
       /\ logMarker'.set <= clock
  BY <1>1, <1>2, <1>3, <1>5, <1>6 DEF RunTimes, BeatInv
<1>14. ASSUME FailuresAreBridged
       PROVE  clock <= Deadline'
  <2>1. syncFaults' \in Nat /\ syncFaults' <= SyncFaults
    BY <1>11, ToolQueryLogsAssumption
  <2>2. CASE FinishRun(w)
    <3>1. logMarker'.set = clock
      BY <2>2 DEF FinishRun
    <3>2. logMarker'.set <= Deadline'
      BY <1>1, <1>7, <2>1, DeadlineMoves
    <3> QED BY <3>1, <3>2
  <2>3. CASE LogSyncFails(w)
    <3>1. clock <= logSync[w].start + FailMinutes
      BY <2>3 DEF LogSyncFails
    <3>2. logSync[w].start <= Deadline + Beat
      BY <1>3, <1>14 DEF RunTimes
    <3>3. logMarker' = logMarker /\ syncFaults' = syncFaults + 1
      BY <2>3 DEF LogSyncFails
    <3>4. Deadline' = Deadline + Beat + FailMinutes
      BY <1>1, <1>7, <2>1, <3>3, DeadlineMoves
    <3>5. Deadline \in Nat /\ Beat \in Nat /\ FailMinutes \in Nat
      BY <1>1, DeadlineIs, ToolQueryLogsAssumption
    <3> QED BY <1>5, <1>6, <3>1, <3>2, <3>4, <3>5
  <2> QED BY <2>2, <2>3
<1>15. BeatInv'
  <2>1. ASSUME FailuresAreBridged
        PROVE  clock - (clock % Beat) <= Deadline' /\ clock <= Deadline' + Beat
    <3>1. Beat \in Nat \ {0} /\ Deadline' \in Nat
      BY <1>12, DeadlineIs, <1>1, <1>7, <1>11, DeadlineMoves, ToolQueryLogsAssumption
    <3>2. PICK m : m \in 0 .. Beat - 1 /\ m = clock % Beat
      <4>1. clock % Beat \in 0 .. Beat - 1
        BY <1>6, <3>1, RemainderOfNext
      <4> QED BY <4>1
    <3>3. PICK d \in Nat, c \in Nat : d = Deadline' /\ c = clock /\ c <= d
      BY <1>6, <1>14, <2>1, <3>1
    <3>4. m \in Nat /\ Beat \in Nat /\ c <= d
      BY <3>1, <3>2, <3>3
    <3>5. c - m <= d
      BY <3>4
    <3>6. c <= d + Beat
      BY <3>4
    <3> QED BY <3>2, <3>3, <3>5, <3>6
  <2> QED BY <1>2, <1>13, <2>1 DEF BeatInv, FailuresAreBridged
<1>16. LogRunInv'
  <2> SUFFICES ASSUME NEW v \in Worker
               PROVE  /\ logSync'[v].pc # "idle" <=> lastRunLock' = v
                      /\ logSync'[v].made \subseteq auditLog'
                      /\ logSync'[v].pc # "idle" => RunTimes(v)'
                      /\ logSync'[v].pc \in {"copy", "tables"}
                           => Window(v)' \subseteq logSync'[v].logs \cup auditLog' \cup ownerless'
    BY DEF LogRunInv
  <2>1. v # Nobody /\ w # Nobody
    BY ToolQueryLogsAssumption
  <2>2. CASE v # w
    <3>1. logSync'[v] = logSync[v] /\ logSync[v].pc = "idle"
          /\ (lastRunLock' = v <=> lastRunLock = v)
      BY <1>1, <1>3, <1>10, <2>1, <2>2 DEF LogRunInv
    <3> QED BY <1>1, <1>2, <3>1, OtherRun
  <2>3. CASE v = w
    BY <1>3, <1>10, <2>1, <2>3 DEF NoRun
  <2> QED BY <2>2, <2>3
<1>17. (FailuresAreBridged => AuditHasNoGaps)'
  <2> SUFFICES ASSUME FailuresAreBridged, NEW e \in Entry,
                      logTime[e] \in 1 .. logMarker'.at - 1
               PROVE  e \in auditLog \cup ownerless
    BY <1>2 DEF AuditHasNoGaps, FailuresAreBridged
  <2>1. \A f \in Entry : logTime[f] \in 1 .. logMarker.at - 1 => f \in auditLog \cup ownerless
    BY DEF ToolLogInv, AuditHasNoGaps
  <2>2. CASE FinishRun(w)
    <3>1. /\ logSync[w].pc = "copy" /\ logSync[w].logs = {}
          /\ logMarker'.at = logSync[w].to
      BY <2>2 DEF FinishRun
    <3>2. Window(w) \subseteq auditLog \cup ownerless
      BY <1>1, <3>1 DEF LogRunInv
    <3>3. logSync[w].from <= logMarker.at /\ logSync[w].from \in Nat
      BY <1>3, <1>4 DEF RunTimes, RunType
    <3>4. logTime[e] \in Nat /\ logTime[e] # 0 /\ logTime[e] < logSync[w].to
      BY <1>6, <3>1
    <3>5. CASE logSync[w].from <= logTime[e]
      BY <3>2, <3>4, <3>5 DEF Window
    <3>6. CASE ~ (logSync[w].from <= logTime[e])
      BY <1>6, <2>1, <3>3, <3>4, <3>6
    <3> QED BY <3>5, <3>6
  <2>3. CASE LogSyncFails(w)
    BY <2>1, <2>3 DEF LogSyncFails
  <2> QED BY <2>2, <2>3
<1> QED BY <1>12, <1>13, <1>15, <1>16, <1>17 DEF ToolLogInv

LEMMA ToolLogInitInv == ToolLogInit => ToolLogInv
<1> SUFFICES ASSUME ToolLogInit PROVE ToolLogInv
  OBVIOUS
<1>1. /\ MaxClock \in Nat \ {0} /\ SyncFaults \in Nat /\ Beat \in Nat \ {0}
      /\ FailMinutes \in Nat /\ Nobody \notin Worker
  BY ToolQueryLogsAssumption
<1>2. NoRun \in RunType /\ NoMarker \in [at : 0 .. MaxClock, set : 0 .. MaxClock]
  BY <1>1 DEF NoRun, NoMarker, RunType
<1>3. ToolLogTypeOK
  <2>1. /\ clock = 1 /\ due = FALSE /\ ownerless = {} /\ logMarker = NoMarker
        /\ lastRunLock = Nobody /\ auditLog = {} /\ logTables = {} /\ syncFaults = 0
        /\ logTime = [e \in Entry |-> 0] /\ logSync = [w \in Worker |-> NoRun]
    BY DEF ToolLogInit
  <2>2. clock \in 1 .. MaxClock /\ syncFaults \in 0 .. SyncFaults
    BY <1>1, <2>1
  <2>3. logTime \in [Entry -> 0 .. MaxClock]
    BY <1>1, <2>1
  <2>4. logSync \in [Worker -> RunType]
    BY <1>2, <2>1
  <2>5. logMarker \in [at : 0 .. MaxClock, set : 0 .. MaxClock] /\ due \in BOOLEAN
    BY <1>2, <2>1
  <2> QED BY <2>1, <2>2, <2>3, <2>4, <2>5 DEF ToolLogTypeOK, RunType
<1>4. LogRunInv
  BY <1>1 DEF ToolLogInit, LogRunInv, NoRun
<1>5. BeatInv
  <2>1. logMarker.at = 0 /\ logMarker.set = 0 /\ clock = 1 /\ ~ due
    BY DEF ToolLogInit, NoMarker
  <2>2. Deadline \in Nat
    BY <1>3, DeadlineIs
  <2>3. ASSUME FailuresAreBridged PROVE clock - (clock % Beat) <= Deadline
    <3>1. Beat > 1
      BY <2>3 DEF FailuresAreBridged
    <3>2. PICK z \in Nat, r \in 0 .. Beat - 1 : z = 0 /\ r = 1
      BY <1>1, <3>1
    <3>3. (Beat * z + r) % Beat = r
      BY <1>1, RemainderIs
    <3>4. Beat * z + r = clock
      BY <1>1, <2>1, <3>2
    <3>5. clock % Beat = 1
      BY <3>2, <3>3, <3>4
    <3> QED BY <2>1, <2>2, <3>5
  <2> QED BY <2>1, <2>3 DEF BeatInv
<1>6. AuditHasNoGaps
  BY DEF ToolLogInit, AuditHasNoGaps
<1> QED BY <1>3, <1>4, <1>5, <1>6 DEF ToolLogInv

\* Whatever the workers do.
THEOREM ToolLogInvariance == ToolLogSpec => []ToolLogInv
<1>1. ToolLogInv /\ [ToolLogNext]_toolLogVars => ToolLogInv'
  <2> SUFFICES ASSUME ToolLogInv, [ToolLogNext]_toolLogVars PROVE ToolLogInv'
    OBVIOUS
  <2>1. CASE UNCHANGED toolLogVars
    BY <2>1 DEF toolLogVars, ToolLogInv, ToolLogTypeOK, LogRunInv, RunTimes, Window,
                BeatInv, Deadline, FailuresAreBridged, AuditHasNoGaps
  <2>2. CASE Tick
    BY <2>2, TickInv
  <2>3. ASSUME NEW e \in Entry, LogQuery(e) \/ OwnerDeleted(e) PROVE ToolLogInv'
    BY <2>3, LogQueryInv
  <2>4. ASSUME NEW w \in Worker, LogSyncStep(w) \/ LogSyncFails(w) PROVE ToolLogInv'
    BY <2>4, SyncStartInv, CopyInv, RunEndsInv DEF LogSyncStep
  <2> QED BY <2>1, <2>2, <2>3, <2>4 DEF ToolLogNext
<1> QED BY ToolLogInitInv, <1>1, PTL DEF ToolLogSpec

\* The copy of the audit log has no gaps and its marker never goes back, for any number
\* of workers and entries and for all times, if what failures cost is within the minutes
\* that the cache remembers (_do_sync_tool_query_logs).
THEOREM ToolLogIsWhole ==
  ASSUME FailuresAreBridged
  PROVE  ToolLogSpec => ToolLogPromise
<1>1. ToolLogInv => ToolLogTypeOK /\ AuditHasNoGaps
  BY DEF ToolLogInv
<1>2. ToolLogInv /\ [ToolLogNext]_toolLogVars => logMarker.at <= logMarker'.at \/ UNCHANGED toolLogVars
  <2> SUFFICES ASSUME ToolLogInv, ToolLogNext, ~ UNCHANGED toolLogVars
               PROVE  logMarker.at <= logMarker'.at
    OBVIOUS
  <2>1. logMarker.at \in Nat
    BY DEF ToolLogInv, ToolLogTypeOK
  <2>2. CASE UNCHANGED logMarker
    BY <2>1, <2>2
  <2>3. CASE \E w \in Worker : FinishRun(w)
    BY <2>3, RunEndsInv
  <2> QED BY <2>2, <2>3
      DEF ToolLogNext, Tick, LogQuery, OwnerDeleted, LogSyncStep, SyncStart, FetchLogs,
          SkipEntry, CreateEntry, RecordTables, LogSyncFails
<1>3. ToolLogInv /\ [ToolLogNext]_toolLogVars => [logMarker.at <= logMarker'.at]_toolLogVars
  BY <1>2
<1> QED BY ToolLogInvariance, <1>1, <1>3, PTL
        DEF ToolLogSpec, ToolLogPromise, MarkerNeverGoesBack
====================================================================================

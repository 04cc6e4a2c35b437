--------------------------- MODULE StreamingQuery ---------------------------
(***************************************************************************)
(* streaming_query_response: a query of the datasets database, streamed to *)
(* the browser as CSV.  A greenlet, the producer, fetches batches of rows  *)
(* and puts them on a queue that holds one item; the generator that Django *)
(* iterates over, the consumer, takes them off and hands them to the       *)
(* client.  After the rows, the producer may count all rows and columns of *)
(* the unfiltered query, in the same transaction, for the event log.       *)
(* A batch stands for one row; the rows of the source come and go while    *)
(* the download runs.                                                      *)
(***************************************************************************)
EXTENDS Naturals, Sequences

CONSTANTS
    MaxRows,       \* rows of the source at most
    MaxChanges,    \* bound on the rows added and removed during a download
    StreamFaults   \* bound on the statements that fail

ASSUME StreamAssumption ==
    MaxRows \in Nat /\ MaxChanges \in Nat /\ StreamFaults \in Nat

VARIABLES
    source,     \* rows of the unfiltered query, and those the filters match
    snapshot,   \* what the transaction of the producer sees of the source
    session,    \* the connection to the datasets database
    producer,   \* where run_queries and exception_callback are
    sentRows,   \* i: rows fetched so far
    pending,    \* rows of the last fetch, 0 or 1
    metered,    \* there is an unfiltered_query and a query_metrics_callback
    queue,      \* q, of maxsize 1
    consumer,   \* where csv_iterator is
    received,   \* what the client has
    metrics,    \* what query_metrics_callback was given
    sourceChanges, statementFaults

streamVars == <<source, snapshot, session, producer, sentRows, pending, metered,
                queue, consumer, received, metrics, sourceChanges, statementFaults>>
consumerVars == <<consumer, received>>
fetchVars == <<snapshot, sentRows, pending>>

NoRow == [all |-> 0, match |-> 0]
NoFile == [header |-> FALSE, rows |-> 0, total |-> "none"]

Done == [kind |-> "done", row |-> 0]
ExceptionRaised == [kind |-> "exception", row |-> 0]
Line(kind, n) == [kind |-> kind, row |-> n]

StreamInit ==
    /\ source = NoRow
    /\ snapshot = NoRow
    /\ session = "none"
    /\ producer = "none"
    /\ sentRows = 0
    /\ pending = 0
    /\ metered = FALSE
    /\ queue = << >>
    /\ consumer = "none"
    /\ received = NoFile
    /\ metrics = NoRow
    /\ sourceChanges = 0
    /\ statementFaults = 0

Rows == {r \in [all : 0 .. MaxRows, match : 0 .. MaxRows] : r.match <= r.all}

\* streaming_query_response: some callers want the metrics.
Respond ==
    /\ consumer = "none"
    /\ consumer' = "get"
    /\ producer' = "connect"
    /\ source' \in Rows
    /\ metered' \in BOOLEAN
    /\ UNCHANGED <<fetchVars, session, queue, received, metrics, sourceChanges,
                   statementFaults>>

ProducerGoto(from, to) == producer = from /\ producer' = to

\* q.put: it blocks while the queue holds an item.
QueuePut(item) == queue = << >> /\ queue' = <<item>>

(***************************************************************************)
(* The datasets database.                                                  *)
(***************************************************************************)
SourceChanges ==
    /\ producer # "none"
    /\ sourceChanges < MaxChanges
    /\ sourceChanges' = sourceChanges + 1
    /\ source' \in Rows
    /\ UNCHANGED <<fetchVars, session, producer, metered, queue, consumerVars,
                   metrics, statementFaults>>

\* Mutant: the session has no idle_in_transaction_session_timeout.
IdleTimeoutOff == FALSE /\ UNCHANGED streamVars

\* idle_in_transaction_session_timeout: the producer waits for the client.
IdleTimeout ==
    /\ session = "transaction"
    /\ producer \in {"header", "chunk", "count", "done"}
    /\ queue # << >>
    /\ session' = "killed"
    /\ UNCHANGED <<source, fetchVars, producer, metered, queue, consumerVars,
                   metrics, sourceChanges, statementFaults>>

(***************************************************************************)
(* run_queries and stream_query_as_csv_to_queue.                           *)
(***************************************************************************)
StreamOpen ==
    /\ ProducerGoto("connect", "execute")
    /\ session' = "transaction"
    /\ UNCHANGED <<source, fetchVars, metered, queue, consumerVars, metrics,
                   sourceChanges, statementFaults>>

\* The first statement under REPEATABLE READ takes the snapshot.
Execute ==
    /\ session = "transaction"
    /\ ProducerGoto("execute", "fetch")
    /\ snapshot' = source
    /\ UNCHANGED <<source, sentRows, pending, session, metered, queue, consumerVars,
                   metrics, sourceChanges, statementFaults>>

\* The names of the columns are known, and put, after the first fetch.
FetchRows ==
    /\ session = "transaction"
    /\ producer = "fetch"
    /\ pending' = IF sentRows < snapshot.match THEN 1 ELSE 0
    /\ sentRows' = sentRows + pending'
    /\ producer' = CASE sentRows = 0 -> "header"
                     [] sentRows # 0 /\ pending' = 1 -> "chunk"
                     [] OTHER -> "count"
    /\ UNCHANGED <<source, snapshot, session, metered, queue, consumerVars, metrics,
                   sourceChanges, statementFaults>>

Put(from, item, to) ==
    /\ ProducerGoto(from, to)
    /\ QueuePut(item)
    /\ UNCHANGED <<source, fetchVars, session, metered, consumerVars, metrics,
                   sourceChanges, statementFaults>>

PutHeader == Put("header", Line("header", 0), IF pending = 1 THEN "chunk" ELSE "count")
PutChunk == Put("chunk", Line("rows", sentRows), "fetch")
PutCount == Put("count", Line("total", sentRows), "close")
PutDone == Put("done", Done, IF metered THEN "columns" ELSE "commit")

\* Only the put of rows has a timeout; it ends in queue.Full.
PutTimeout ==
    /\ ProducerGoto("chunk", "rollback")
    /\ queue # << >>
    /\ UNCHANGED <<source, fetchVars, session, metered, queue, consumerVars, metrics,
                   sourceChanges, statementFaults>>

\* Leaving the block of the named cursor closes it in the database.
CloseCursor ==
    /\ session = "transaction"
    /\ ProducerGoto("close", "done")
    /\ UNCHANGED <<source, fetchVars, session, metered, queue, consumerVars, metrics,
                   sourceChanges, statementFaults>>

\* get_all_columns_from_unfiltered and get_row_count_from_unfiltered: what they
\* count is snapshot.all.
CountAll ==
    /\ session = "transaction"
    /\ ProducerGoto("columns", "commit")
    /\ UNCHANGED <<source, fetchVars, session, metered, queue, consumerVars, metrics,
                   sourceChanges, statementFaults>>

StreamCommit ==
    /\ session = "transaction"
    /\ ProducerGoto("commit", IF metered THEN "callback" ELSE "ended")
    /\ session' = "idle"
    /\ UNCHANGED <<source, fetchVars, metered, queue, consumerVars, metrics,
                   sourceChanges, statementFaults>>

MetricsCallback ==
    /\ ProducerGoto("callback", "ended")
    /\ metrics' = [all |-> snapshot.all, match |-> sentRows]
    /\ UNCHANGED <<source, fetchVars, session, metered, queue, consumerVars,
                   sourceChanges, statementFaults>>

\* A statement is wrong, takes longer than statement_timeout, or finds its
\* session killed.
StatementFails ==
    /\ producer \in {"connect", "execute", "fetch", "close", "columns", "commit"}
    /\ producer' = "rollback"
    /\ \/ session = "killed" /\ UNCHANGED statementFaults
       \/ session # "killed" /\ statementFaults < StreamFaults
          /\ statementFaults' = statementFaults + 1
    /\ UNCHANGED <<source, fetchVars, session, metered, queue, consumerVars, metrics,
                   sourceChanges>>

StreamRollback ==
    /\ ProducerGoto("rollback", "signal")
    /\ session' = IF session = "transaction" THEN "idle" ELSE session
    /\ UNCHANGED <<source, fetchVars, metered, queue, consumerVars, metrics,
                   sourceChanges, statementFaults>>

\* Mutant: the failure of the greenlet only ends the download.
PutExceptionAsDone == Put("signal", Done, "ended")

\* exception_callback: the exception queues behind what is there.
PutException == Put("signal", ExceptionRaised, "ended")

(***************************************************************************)
(* csv_iterator, and the client behind it.                                 *)
(***************************************************************************)
Received(item) ==
    CASE item.kind = "header" -> [received EXCEPT !.header = TRUE]
      [] item.kind = "rows" -> [received EXCEPT !.rows = @ + 1]
      [] item.kind = "total" -> [received EXCEPT !.total = IF item.row = received.rows
                                                           THEN "right" ELSE "wrong"]

Get ==
    /\ consumer = "get"
    /\ queue # << >>
    /\ queue' = << >>
    /\ LET item == Head(queue) IN
       \/ item = Done /\ consumer' = "complete" /\ UNCHANGED received
       \/ item = ExceptionRaised /\ consumer' = "failed" /\ UNCHANGED received
       \/ /\ item \notin {Done, ExceptionRaised}
          /\ consumer' = "yield"
          /\ received' = Received(item)
    /\ UNCHANGED <<source, fetchVars, session, producer, metered, metrics,
                   sourceChanges, statementFaults>>

ClientGoto(to) ==
    /\ consumer = "yield"
    /\ consumer' = to
    /\ UNCHANGED <<source, fetchVars, session, producer, metered, queue, received,
                   metrics, sourceChanges, statementFaults>>

ClientReads == ClientGoto("get")
\* Django closes the generator of a client that went away.
ClientLeaves == ClientGoto("closed")

(***************************************************************************)
Produce ==
    \/ StreamOpen \/ Execute \/ FetchRows \/ PutHeader \/ PutChunk \/ PutCount \/ PutDone
    \/ CloseCursor \/ CountAll \/ StreamCommit \/ MetricsCallback
    \/ StreamRollback \/ PutException
    \/ (session = "killed" /\ StatementFails)

StreamNext ==
    \/ Respond \/ SourceChanges \/ IdleTimeout \/ PutTimeout \/ StatementFails \/ Produce
    \/ Get \/ ClientReads \/ ClientLeaves

\* The greenlet and the generator run whenever they are not blocked, PostgreSQL
\* ends sessions that idle in a transaction, and a client reads on or goes.
StreamFairness ==
    /\ WF_streamVars(Produce)
    /\ WF_streamVars(Get)
    /\ WF_streamVars(IdleTimeout)
    /\ WF_streamVars(ClientReads \/ ClientLeaves)

StreamSafetySpec == StreamInit /\ [][StreamNext]_streamVars

StreamSpec == StreamSafetySpec /\ StreamFairness

(***************************************************************************)
(* Properties.                                                             *)
(***************************************************************************)
QueueType ==
    {<< >>} \cup {<<Line(kind, n)>> : kind \in {"header", "rows", "total", "done", "exception"},
                                    n \in 0 .. MaxRows}
StreamTypeOK ==
    /\ source \in [all : 0 .. MaxRows, match : 0 .. MaxRows]
    /\ snapshot \in [all : 0 .. MaxRows, match : 0 .. MaxRows]
    /\ session \in {"none", "transaction", "idle", "killed"}
    /\ producer \in {"none", "connect", "execute", "fetch", "header", "chunk", "count", "close",
                     "done", "columns", "commit", "callback", "rollback", "signal", "ended"}
    /\ sentRows \in 0 .. MaxRows
    /\ pending \in 0 .. 1
    /\ metered \in BOOLEAN
    /\ queue \in QueueType
    /\ consumer \in {"none", "get", "yield", "complete", "failed", "closed"}
    /\ received \in [header : BOOLEAN, rows : 0 .. MaxRows, total : {"none", "right", "wrong"}]
    /\ metrics \in [all : 0 .. MaxRows, match : 0 .. MaxRows]
    /\ sourceChanges \in 0 .. MaxChanges
    /\ statementFaults \in 0 .. StreamFaults

\* A response that ends without an error is the whole file: the header, every
\* row of the snapshot, and the right number of rows in the last line.  A query
\* that fails, or a session that PostgreSQL ends, in the middle of a download
\* never passes for a short file (streaming_query_response).
CompleteIsWhole ==
    consumer = "complete"
       => received = [header |-> TRUE, rows |-> snapshot.match, total |-> "right"]

\* The event log never counts more rows downloaded than the source has, though
\* rows come and go between the download and the count of all of them.
MetricsAgree == metrics.match <= metrics.all

\* No download holds its transaction, with its snapshot and locks, for ever:
\* neither a client that stops reading nor one that goes away keeps it open.
TransactionEnds == session = "transaction" ~> session # "transaction"

\* A client that keeps reading gets to the end of the file or to an error.
DownloadEnds ==
    consumer \in {"get", "yield"} ~> consumer \in {"complete", "failed", "closed"}

(***************************************************************************)
(* What the proofs need to know besides: how many rows are on their way,   *)
(* what has been put when the producer is where it is, and what an item    *)
(* says that waits on the queue.                                           *)
(***************************************************************************)
OnQueue(kind) == queue # << >> /\ queue[1].kind = kind
QueuedRows == IF OnQueue("rows") THEN 1 ELSE 0
UnsentRows == IF producer \in {"header", "chunk"} THEN pending ELSE 0
Broken == producer \in {"rollback", "signal", "ended"}
Counted == producer \in {"close", "done", "columns", "commit", "callback"}
WholeFile == [header |-> TRUE, rows |-> snapshot.match, total |-> "right"]

StartInv ==
    /\ consumer = "none" => producer = "none"
    /\ producer \in {"none", "connect", "execute"} =>
          queue = << >> /\ received = NoFile /\ sentRows = 0 /\ pending = 0
          /\ consumer \in {"none", "get"}
QueueInv ==
    /\ OnQueue("done") => queue = <<Done>>
    /\ OnQueue("exception") => queue = <<ExceptionRaised>>
    /\ OnQueue("total") => queue[1].row = received.rows
RowsInv ==
    /\ source.match <= source.all /\ snapshot.match <= snapshot.all
    /\ sentRows <= snapshot.match /\ pending <= sentRows
    /\ received.rows + QueuedRows <= sentRows
    /\ ~Broken => received.rows + QueuedRows + UnsentRows = sentRows
HeaderInv ==
    /\ producer = "chunk" => pending = 1
    /\ producer \in {"chunk", "count"} \/ Counted \/ (producer = "fetch" /\ sentRows # 0)
          => received.header \/ OnQueue("header")
TotalInv ==
    /\ received.total # "wrong"
    /\ producer = "count" \/ Counted \/ (producer = "header" /\ pending = 0)
          => sentRows = snapshot.match
    /\ Counted => received.total = "right" \/ OnQueue("total")
WholeInv == OnQueue("done") \/ consumer = "complete" => received = WholeFile
StreamInv ==
    /\ StreamTypeOK /\ StartInv /\ QueueInv /\ RowsInv /\ HeaderInv /\ TotalInv /\ WholeInv
    /\ MetricsAgree

\* A download that ends without an error is the whole file of one snapshot, and the
\* numbers for the event log are of that snapshot, whatever fails and whoever goes away
\* (streaming_query_response).
StreamSafety ==
  /\ StreamTypeOK
  /\ CompleteIsWhole
  /\ MetricsAgree

\* Neither side of a download waits for the other for ever: its transaction ends, and
\* so does its response (stream_query_as_csv_to_queue, csv_iterator).
StreamEnds ==
  /\ TransactionEnds
  /\ DownloadEnds
=============================================================================

------------------------------- MODULE Pipelines -------------------------------
(***************************************************************************)
(* Pipelines of administrators (apps/datasets/pipelines): a row here and   *)
(* the definition of a DAG in Data Flow, that no transaction spans.  Each  *)
(* request asks Data Flow first, and writes its row only when it answered. *)
(***************************************************************************)
EXTENDS Naturals, FiniteSets, TLC

CONSTANTS PipelineAdmin, PipelineTable,
          MaxPipelineCalls,   \* bound on the requests
          DataFlowFailures    \* bound on the requests to Data Flow that fail

ASSUME PipelineAssumption == "none" \notin PipelineTable

VARIABLES pipelines,     \* Pipeline: [table, sql]
          dags,          \* Data Flow: table -> SQL of its DAG, "none" without one
          pipelineCall,  \* administrator -> the request they made
          apart,         \* tables with requests that overlapped or lost an answer since
                         \* they were last seen to agree
          runsOf,        \* what was run: <<SQL as listed, SQL of the DAG, apart or not>>
          pipelineBudget

pipelineVars == <<pipelines, dags, pipelineCall, apart, runsOf, pipelineBudget>>
Sql == {"s1", "s2"}
NoCall == [at |-> "none", of |-> "none"]

PipelineInit ==
  /\ pipelines = {} /\ dags = [p \in PipelineTable |-> "none"]
  /\ pipelineCall = [a \in PipelineAdmin |-> NoCall] /\ apart = {} /\ runsOf = {}
  /\ pipelineBudget = [calls |-> MaxPipelineCalls, failures |-> DataFlowFailures]

Listed(p) == \E row \in pipelines : row.table = p
SqlOf(p) == IF Listed(p) THEN (CHOOSE row \in pipelines : row.table = p).sql ELSE "none"
OnTable(p) == {a \in PipelineAdmin : pipelineCall[a].of = p}
\* The form of a create or an edit is valid, or get_object finds the row.
AskPipeline(a, do, p, sql) ==
  /\ pipelineCall[a] = NoCall /\ pipelineBudget.calls > 0
  /\ IF do = "create" THEN ~Listed(p) ELSE Listed(p)
  /\ pipelineCall' = [pipelineCall EXCEPT ![a] =
                        [at |-> "ask", of |-> p, do |-> do, sql |-> sql, was |-> SqlOf(p)]]
  /\ pipelineBudget' = [pipelineBudget EXCEPT !.calls = @ - 1]
  /\ apart' = IF OnTable(p) # {} THEN apart \cup {p} ELSE apart
  /\ UNCHANGED <<pipelines, dags, runsOf>>

\* What Data Flow does: a PUT or a DELETE of no DAG is a 404, and so is a run.
CallOf(a) == pipelineCall[a]
AskedSql(a) == IF CallOf(a).do = "delete" THEN "none" ELSE CallOf(a).sql
NotThere(a) == CallOf(a).do # "create" /\ dags[CallOf(a).of] = "none"
Turn(a, at) == pipelineCall' = [pipelineCall EXCEPT ![a].at = at]
CallEnds(a) == pipelineCall' = [pipelineCall EXCEPT ![a] = NoCall]
DataFlowDoes(a) ==
  /\ CallOf(a).at = "ask" /\ ~NotThere(a)
  /\ IF CallOf(a).do = "run"
     THEN /\ runsOf' = runsOf \cup {<<CallOf(a).was, dags[CallOf(a).of], CallOf(a).of \in apart>>}
          /\ CallEnds(a) /\ UNCHANGED dags
     ELSE /\ dags' = [dags EXCEPT ![CallOf(a).of] = AskedSql(a)]
          /\ Turn(a, "save") /\ UNCHANGED runsOf
  /\ UNCHANGED <<pipelines, apart, pipelineBudget>>
\* A 404 is what a deletion wants: one whose answer was lost can be made again.
DataFlowHasNone(a) ==
  /\ CallOf(a).at = "ask" /\ NotThere(a)
  /\ IF CallOf(a).do = "delete" THEN Turn(a, "save") ELSE CallEnds(a)
  /\ UNCHANGED <<pipelines, dags, apart, runsOf, pipelineBudget>>
\* Mutant: the row is written though Data Flow did not answer.
FailedButSaved(a) ==
  /\ CallOf(a).at = "ask" /\ CallOf(a).do # "run" /\ pipelineBudget.failures > 0
  /\ Turn(a, "save") /\ pipelineBudget' = [pipelineBudget EXCEPT !.failures = @ - 1]
  /\ UNCHANGED <<pipelines, dags, apart, runsOf>>
\* The error page, and nothing written; Data Flow may have done it all the same.
DataFlowFails(a) ==
  /\ CallOf(a).at = "ask" /\ CallOf(a).do # "run" /\ pipelineBudget.failures > 0
  /\ \/ UNCHANGED <<dags, apart>>
     \/ /\ ~NotThere(a) /\ apart' = apart \cup {CallOf(a).of}
        /\ dags' = [dags EXCEPT ![CallOf(a).of] = AskedSql(a)]
  /\ CallEnds(a) /\ pipelineBudget' = [pipelineBudget EXCEPT !.failures = @ - 1]
  /\ UNCHANGED <<pipelines, runsOf>>

Others(p) == {row \in pipelines : row.table # p}
Alone(a) == OnTable(CallOf(a).of) = {a}
\* Saving a row that was deleted meanwhile inserts it again.
SaveRow(a) ==
  /\ CallOf(a).at = "save" /\ CallOf(a).do # "delete"
  /\ ~(CallOf(a).do = "create" /\ Listed(CallOf(a).of))
  /\ pipelines' = Others(CallOf(a).of) \cup {[table |-> CallOf(a).of, sql |-> CallOf(a).sql]}
  /\ apart' = IF dags[CallOf(a).of] = CallOf(a).sql /\ Alone(a) THEN apart \ {CallOf(a).of}
              ELSE apart
  /\ CallEnds(a) /\ UNCHANGED <<dags, runsOf, pipelineBudget>>
\* table_name is unique: the second of two creations ends with an error.
CreatedByAnother(a) ==
  /\ CallOf(a).at = "save" /\ CallOf(a).do = "create" /\ Listed(CallOf(a).of)
  /\ CallEnds(a) /\ UNCHANGED <<pipelines, dags, apart, runsOf, pipelineBudget>>
DeleteRow(a) ==
  /\ CallOf(a).at = "save" /\ CallOf(a).do = "delete"
  /\ pipelines' = Others(CallOf(a).of)
  /\ apart' = IF dags[CallOf(a).of] = "none" /\ Alone(a) THEN apart \ {CallOf(a).of} ELSE apart
  /\ CallEnds(a) /\ UNCHANGED <<dags, runsOf, pipelineBudget>>

PipelineStep(a) ==
  \/ \E do \in {"create", "edit", "delete", "run"}, p \in PipelineTable, sql \in Sql :
       AskPipeline(a, do, p, sql)
  \/ DataFlowDoes(a) \/ DataFlowHasNone(a) \/ DataFlowFails(a)
  \/ SaveRow(a) \/ CreatedByAnother(a) \/ DeleteRow(a)
PipelineNext == \E a \in PipelineAdmin : PipelineStep(a)
PipelineSpec == PipelineInit /\ [][PipelineNext]_pipelineVars

(***************************************************************************)
(* Properties.                                                             *)
(***************************************************************************)

(* Types, and one row for each table.                                      *)
PipelineTypeOK ==
  /\ \A row, other \in pipelines : row.table = other.table => row = other
  /\ dags \in [PipelineTable -> Sql \cup {"none"}]
  /\ apart \subseteq PipelineTable

(* A request that fails halfway, and the same request made again, keep the *)
(* rows and Data Flow together: only requests that overlap, or an answer   *)
(* that is lost, take a pipeline apart, and the next request that succeeds *)
(* on its own brings it together again.  So what is run is what was listed.*)
PipelinesAgree ==
  /\ \A p \in PipelineTable : p \notin apart /\ OnTable(p) = {} => SqlOf(p) = dags[p]
  /\ \A r \in runsOf : r[3] \/ r[1] = r[2]

(***************************************************************************)
(* What the proofs need to know besides: a table that is not apart has one *)
(* request at most; before Data Flow has answered, it has what is listed,  *)
(* as the request read it, and afterwards what was asked for.              *)
(***************************************************************************)
PipelineRow == [table : PipelineTable, sql : Sql]
PipelineCall == [at : {"ask", "save"}, of : PipelineTable, sql : Sql,
                 do : {"create", "edit", "delete", "run"}, was : Sql \cup {"none"}]
PipelineCallInv ==
  /\ pipelines \subseteq PipelineRow
  /\ DOMAIN pipelineCall = PipelineAdmin
  /\ \A a \in PipelineAdmin : \/ CallOf(a) = NoCall
                              \/ CallOf(a) \in PipelineCall
                                 /\ (CallOf(a).do = "run" => CallOf(a).at = "ask")
AloneInv ==
  \A a, b \in PipelineAdmin :
     CallOf(a) # NoCall /\ CallOf(b) # NoCall /\ CallOf(a).of = CallOf(b).of
        => a = b \/ CallOf(a).of \in apart
CallsInStep ==
  \A a \in PipelineAdmin :
     CallOf(a) # NoCall /\ CallOf(a).of \notin apart =>
        /\ CallOf(a).do = "create" => SqlOf(CallOf(a).of) = "none"
        /\ CallOf(a).at = "ask" => /\ dags[CallOf(a).of] = SqlOf(CallOf(a).of)
                                   /\ CallOf(a).was = SqlOf(CallOf(a).of)
        /\ CallOf(a).at = "save" => dags[CallOf(a).of] = AskedSql(a)
PipelineInv ==
  /\ PipelineTypeOK /\ PipelineCallInv /\ AloneInv /\ CallsInStep /\ PipelinesAgree

\* Rows and DAGs of pipelines agree, one row to a table, unless requests overlapped or
\* an answer of Data Flow was lost (PipelineCreateView, PipelineUpdateView,
\* PipelineDeleteView).
PipelineSafety ==
  /\ PipelineTypeOK
  /\ PipelinesAgree
===============================================================================

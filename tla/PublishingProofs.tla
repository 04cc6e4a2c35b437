------------------------------ MODULE PublishingProofs ------------------------------
(***************************************************************************)
(* What is published and how it gets there: pipelines, tables made of      *)
(* files, the sources of datasets, the catalogue, reference datasets, and  *)
(* the mirrors of packages. For any administrators, users, tables,         *)
(* packages and requests that cross or fail.                               *)
(***************************************************************************)
EXTENDS Pipelines, CreateTable, DatasetSources, DatasetCatalogue,
        ReferenceData, MirrorsSync, FiniteSetTheorems, SequenceTheorems, TLAPS

(***************************************************************************)
(* The rows of the pipelines and the DAGs of Data Flow agree where no      *)
(* requests overlapped and no answer was lost.                             *)
(***************************************************************************)
\* NoCall is no request that is under way, and is on no table.
LEMMA NoCallFacts ==
  /\ NoCall \notin PipelineCall
  /\ NoCall.at = "none" /\ NoCall.of \notin PipelineTable
  BY PipelineAssumption DEF NoCall, PipelineCall

\* The requests on a table, when what is known of requests holds.
LEMMA OnTableFacts ==
  ASSUME PipelineCallInv, NEW p \in PipelineTable, NEW a \in PipelineAdmin
  PROVE  a \in OnTable(p) <=> CallOf(a) # NoCall /\ CallOf(a).of = p
  BY NoCallFacts DEF PipelineCallInv, OnTable, CallOf

\* A row that is listed is the one of its table.
LEMMA SqlOfRow ==
  ASSUME PipelineTypeOK, NEW row \in pipelines
  PROVE  SqlOf(row.table) = row.sql
<1>1. Listed(row.table)
  BY DEF Listed
<1>2. \A other \in pipelines : other.table = row.table => other = row
  BY DEF PipelineTypeOK
<1> QED BY <1>1, <1>2 DEF SqlOf

\* A table is listed if it has a SQL.
LEMMA SqlOfType ==
  ASSUME PipelineTypeOK, PipelineCallInv, NEW p
  PROVE  /\ SqlOf(p) \in Sql \cup {"none"}
         /\ Listed(p) <=> SqlOf(p) # "none"
<1>1. CASE Listed(p)
  <2>1. PICK row \in pipelines : row.table = p
    BY <1>1 DEF Listed
  <2>2. SqlOf(p) = row.sql /\ row.sql \in Sql
    BY <2>1, SqlOfRow DEF PipelineCallInv, PipelineRow
  <2> QED BY <1>1, <2>2 DEF Sql
<1>2. CASE ~Listed(p)
  BY <1>2 DEF SqlOf
<1> QED BY <1>1, <1>2

\* What SqlOf becomes when the row of a table is written.
LEMMA RowWritten ==
  ASSUME PipelineTypeOK, PipelineCallInv, NEW p \in PipelineTable, NEW sql \in Sql,
         pipelines' = Others(p) \cup {[table |-> p, sql |-> sql]}
  PROVE  /\ pipelines' \subseteq PipelineRow
         /\ \A row, other \in pipelines' : row.table = other.table => row = other
         /\ SqlOf(p)' = sql
         /\ \A q : q # p => SqlOf(q)' = SqlOf(q)
<1> DEFINE new == [table |-> p, sql |-> sql]
<1>1. pipelines' \subseteq PipelineRow
  BY DEF PipelineCallInv, Others, PipelineRow
<1>2. \A row, other \in pipelines' : row.table = other.table => row = other
  BY DEF PipelineTypeOK, Others
<1>3. SqlOf(p)' = sql
  <2>1. new \in pipelines' /\ new.table = p
    OBVIOUS
  <2>2. \A row \in pipelines' : row.table = p => row = new
    BY <1>2, <2>1
  <2>3. (CHOOSE row \in pipelines' : row.table = p) = new
    BY <2>1, <2>2
  <2>4. Listed(p)'
    BY <2>1 DEF Listed
  <2>5. SqlOf(p)' = new.sql
    BY <2>3, <2>4 DEF SqlOf
  <2> QED BY <2>5
<1>4. ASSUME NEW q, q # p
      PROVE  SqlOf(q)' = SqlOf(q)
  <2>1. \A row : row \in pipelines' /\ row.table = q <=> row \in pipelines /\ row.table = q
    BY <1>4 DEF Others
  <2>3. CASE Listed(q)
    <3>1. PICK row \in pipelines : row.table = q
      BY <2>3 DEF Listed
    <3>2. row \in pipelines' /\ \A other \in pipelines' : other.table = q => other = row
      BY <1>2, <2>1, <3>1
    <3>3. (CHOOSE other \in pipelines' : other.table = q) = row
      BY <3>1, <3>2
    <3>4. SqlOf(q)' = row.sql
      BY <3>1, <3>2, <3>3 DEF SqlOf, Listed
    <3> QED BY <3>1, <3>4, SqlOfRow
  <2>4. CASE ~Listed(q)
    <3>1. ~Listed(q)'
      BY <2>1, <2>4 DEF Listed
    <3> QED BY <2>4, <3>1 DEF SqlOf
  <2> QED BY <2>3, <2>4
<1> QED BY <1>1, <1>2, <1>3, <1>4

\* What SqlOf becomes when the row of a table is deleted.
LEMMA RowDeleted ==
  ASSUME PipelineTypeOK, PipelineCallInv, NEW p, pipelines' = Others(p)
  PROVE  /\ pipelines' \subseteq PipelineRow
         /\ \A row, other \in pipelines' : row.table = other.table => row = other
         /\ SqlOf(p)' = "none"
         /\ \A q : q # p => SqlOf(q)' = SqlOf(q)
<1>1. pipelines' \subseteq PipelineRow
  BY DEF PipelineCallInv, Others
<1>2. \A row, other \in pipelines' : row.table = other.table => row = other
  BY DEF PipelineTypeOK, Others
<1>3. SqlOf(p)' = "none"
  BY DEF SqlOf, Listed, Others
<1>4. ASSUME NEW q, q # p
      PROVE  SqlOf(q)' = SqlOf(q)
  <2>1. \A row : row \in pipelines' /\ row.table = q <=> row \in pipelines /\ row.table = q
    BY <1>4 DEF Others
  <2>3. CASE Listed(q)
    <3>1. PICK row \in pipelines : row.table = q
      BY <2>3 DEF Listed
    <3>2. row \in pipelines' /\ \A other \in pipelines' : other.table = q => other = row
      BY <1>2, <2>1, <3>1
    <3>3. (CHOOSE other \in pipelines' : other.table = q) = row
      BY <3>1, <3>2
    <3>4. SqlOf(q)' = row.sql
      BY <3>1, <3>2, <3>3 DEF SqlOf, Listed
    <3> QED BY <3>1, <3>4, SqlOfRow
  <2>4. CASE ~Listed(q)
    <3>1. ~Listed(q)'
      BY <2>1, <2>4 DEF Listed
    <3> QED BY <2>4, <3>1 DEF SqlOf
  <2> QED BY <2>3, <2>4
<1> QED BY <1>1, <1>2, <1>3, <1>4

\* What a step of one administrator does to the requests of all.
LEMMA CallWritten ==
  ASSUME PipelineCallInv, NEW a \in PipelineAdmin, NEW c,
         pipelineCall' = [pipelineCall EXCEPT ![a] = c]
  PROVE  /\ DOMAIN pipelineCall' = PipelineAdmin
         /\ CallOf(a)' = c
         /\ \A b \in PipelineAdmin : b # a => CallOf(b)' = CallOf(b) /\ AskedSql(b)' = AskedSql(b)
  BY DEF PipelineCallInv, CallOf, AskedSql

\* The rows decide what SqlOf is.
LEMMA SqlOfFrame ==
  ASSUME UNCHANGED pipelines
  PROVE  \A q : SqlOf(q)' = SqlOf(q)
  BY DEF SqlOf, Listed

\* The requests on tables, after a step of one of them.
LEMMA OnTableWritten ==
  ASSUME PipelineCallInv, PipelineCallInv', NEW a \in PipelineAdmin,
         \A b \in PipelineAdmin : b # a => CallOf(b)' = CallOf(b),
         NEW q \in PipelineTable, OnTable(q)' = {}
  PROVE  /\ \A b \in OnTable(q) : b = a
         /\ CallOf(a)' = NoCall \/ CallOf(a)'.of # q
<1>1. \A b \in PipelineAdmin : ~(CallOf(b)' # NoCall /\ CallOf(b)'.of = q)
  BY NoCallFacts DEF PipelineCallInv, OnTable, CallOf
<1>2. \A b \in OnTable(q) : b \in PipelineAdmin /\ CallOf(b) # NoCall /\ CallOf(b).of = q
  BY NoCallFacts DEF PipelineCallInv, OnTable, CallOf
<1> QED BY <1>1, <1>2

\* A new request.
LEMMA AskInv ==
  ASSUME PipelineInv, NEW a \in PipelineAdmin,
         NEW do \in {"create", "edit", "delete", "run"}, NEW p \in PipelineTable,
         NEW sql \in Sql, AskPipeline(a, do, p, sql)
  PROVE  PipelineInv'
<1> DEFINE new == [at |-> "ask", of |-> p, do |-> do, sql |-> sql, was |-> SqlOf(p)]
<1>1. /\ PipelineTypeOK /\ PipelineCallInv /\ AloneInv /\ CallsInStep /\ PipelinesAgree
  BY DEF PipelineInv
<1>2. /\ CallOf(a) = NoCall /\ pipelineCall' = [pipelineCall EXCEPT ![a] = new]
      /\ apart' = IF OnTable(p) # {} THEN apart \cup {p} ELSE apart
      /\ UNCHANGED <<pipelines, dags, runsOf>>
      /\ do = "create" => ~Listed(p)
  BY DEF AskPipeline, CallOf
<1>3. new \in PipelineCall /\ new # NoCall
  BY <1>1, SqlOfType, NoCallFacts DEF PipelineCall
<1>4. /\ DOMAIN pipelineCall' = PipelineAdmin /\ CallOf(a)' = new
      /\ \A b \in PipelineAdmin : b # a => CallOf(b)' = CallOf(b) /\ AskedSql(b)' = AskedSql(b)
  BY <1>1, <1>2, CallWritten
<1>5. \A q : SqlOf(q)' = SqlOf(q)
  BY <1>2, SqlOfFrame
<1>6. PipelineTypeOK'
  BY <1>1, <1>2 DEF PipelineTypeOK
<1>7. PipelineCallInv'
  BY <1>1, <1>2, <1>3, <1>4 DEF PipelineCallInv
<1>8. \A b \in PipelineAdmin : CallOf(b) # NoCall /\ CallOf(b).of = p => p \in apart'
  BY <1>1, <1>2, OnTableFacts
<1>9. AloneInv'
  BY <1>1, <1>2, <1>4, <1>8 DEF AloneInv
<1>10. CallsInStep'
  <2> SUFFICES ASSUME NEW b \in PipelineAdmin, CallOf(b)' # NoCall, CallOf(b)'.of \notin apart'
               PROVE  /\ CallOf(b)'.do = "create" => SqlOf(CallOf(b)'.of) = "none"
                      /\ CallOf(b)'.at = "ask" => /\ dags[CallOf(b)'.of] = SqlOf(CallOf(b)'.of)
                                                  /\ CallOf(b)'.was = SqlOf(CallOf(b)'.of)
                      /\ CallOf(b)'.at = "save" => dags[CallOf(b)'.of] = AskedSql(b)'
    BY <1>2, <1>5 DEF CallsInStep
  <2>1. CASE b = a
    <3>1. p \notin apart /\ OnTable(p) = {}
      BY <1>2, <1>4, <2>1
    <3>2. SqlOf(p) = dags[p]
      BY <1>1, <3>1 DEF PipelinesAgree
    <3>3. do = "create" => SqlOf(p) = "none"
      BY <1>2 DEF SqlOf
    <3> QED BY <1>4, <2>1, <3>2, <3>3
  <2>2. CASE b # a
    BY <1>1, <1>2, <1>4, <2>2 DEF CallsInStep
  <2> QED BY <2>1, <2>2
<1>11. PipelinesAgree'
  <2>1. ASSUME NEW q \in PipelineTable, q \notin apart', OnTable(q)' = {}
        PROVE  SqlOf(q)' = dags'[q]
    <3>1. (\A b \in OnTable(q) : b = a) /\ q # p
      BY <1>1, <1>3, <1>4, <1>7, <2>1, OnTableWritten
    <3>2. a \notin OnTable(q)
      BY <1>1, <1>2, OnTableFacts
    <3>3. OnTable(q) = {} /\ q \notin apart
      BY <1>2, <2>1, <3>1, <3>2
    <3> QED BY <1>1, <1>2, <1>5, <3>3 DEF PipelinesAgree
  <2>2. \A r \in runsOf' : r[3] \/ r[1] = r[2]
    BY <1>1, <1>2 DEF PipelinesAgree
  <2> QED BY <2>1, <2>2 DEF PipelinesAgree
<1> QED BY <1>6, <1>7, <1>9, <1>10, <1>11 DEF PipelineInv

\* A request under way, on a table of its own if the table is not apart.
LEMMA UnderWay ==
  ASSUME PipelineInv, NEW a \in PipelineAdmin, CallOf(a).at \in {"ask", "save"}
  PROVE  /\ CallOf(a) \in PipelineCall /\ CallOf(a).of \in PipelineTable
         /\ CallOf(a).do = "run" => CallOf(a).at = "ask"
         /\ AskedSql(a) \in Sql \cup {"none"}
         /\ a \in OnTable(CallOf(a).of)
         /\ \A b \in PipelineAdmin :
               b # a /\ CallOf(b) # NoCall /\ CallOf(b).of \notin apart
                  => CallOf(b).of # CallOf(a).of
<1>1. CallOf(a) # NoCall
  BY NoCallFacts
<1>2. CallOf(a) \in PipelineCall /\ (CallOf(a).do = "run" => CallOf(a).at = "ask")
  BY <1>1 DEF PipelineInv, PipelineCallInv
<1>3. CallOf(a).of \in PipelineTable /\ AskedSql(a) \in Sql \cup {"none"}
  BY <1>2 DEF PipelineCall, AskedSql
<1>4. a \in OnTable(CallOf(a).of)
  BY DEF OnTable, CallOf
<1>5. \A b \in PipelineAdmin :
         b # a /\ CallOf(b) # NoCall /\ CallOf(b).of \notin apart
            => CallOf(b).of # CallOf(a).of
  BY <1>1 DEF PipelineInv, AloneInv
<1> QED BY <1>2, <1>3, <1>4, <1>5

\* A request that goes on stays on its table.
LEMMA Goes ==
  ASSUME PipelineInv, NEW a \in PipelineAdmin, CallOf(a).at = "ask", CallOf(a).do # "run",
         Turn(a, "save"), UNCHANGED pipelines
  PROVE  /\ PipelineCallInv'
         /\ CallOf(a)' # NoCall /\ CallOf(a)'.of = CallOf(a).of /\ CallOf(a)'.at = "save"
         /\ CallOf(a)'.do = CallOf(a).do
         /\ AskedSql(a)' = AskedSql(a)
         /\ \A b \in PipelineAdmin : b # a => CallOf(b)' = CallOf(b) /\ AskedSql(b)' = AskedSql(b)
         /\ \A q \in PipelineTable : OnTable(q)' = {} => OnTable(q) = {} /\ q # CallOf(a).of
<1> DEFINE new == [CallOf(a) EXCEPT !.at = "save"]
<1>1. CallOf(a) \in PipelineCall /\ a \in OnTable(CallOf(a).of) /\ PipelineCallInv
  BY UnderWay DEF PipelineInv
<1>2. pipelineCall' = [pipelineCall EXCEPT ![a] = new]
  BY DEF Turn, CallOf
<1>3. /\ DOMAIN pipelineCall' = PipelineAdmin /\ CallOf(a)' = new
      /\ \A b \in PipelineAdmin : b # a => CallOf(b)' = CallOf(b) /\ AskedSql(b)' = AskedSql(b)
  BY <1>1, <1>2, CallWritten
<1>4. /\ new \in PipelineCall /\ new.of = CallOf(a).of /\ new.do = CallOf(a).do
      /\ new.sql = CallOf(a).sql /\ new.at = "save"
  BY <1>1 DEF PipelineCall
<1>5. new # NoCall
  BY <1>4, NoCallFacts
<1>6. PipelineCallInv'
  BY <1>1, <1>3, <1>4 DEF PipelineCallInv
<1>7. AskedSql(a)' = AskedSql(a)
  BY <1>3, <1>4 DEF AskedSql
<1>8. ASSUME NEW q \in PipelineTable, OnTable(q)' = {}
      PROVE  OnTable(q) = {} /\ q # CallOf(a).of
  <2>3. \A b \in PipelineAdmin : b # a => CallOf(b)' = CallOf(b)
    BY <1>3
  <2>4. CallOf(a)' # NoCall /\ CallOf(a)'.of = CallOf(a).of
    BY <1>3, <1>4, <1>5
  <2> HIDE DEF new
  <2>5. (\A b \in OnTable(q) : b = a) /\ (CallOf(a)' = NoCall \/ CallOf(a)'.of # q)
    BY <1>1, <1>6, <1>8, <2>3, OnTableWritten
  <2>1. (\A b \in OnTable(q) : b = a) /\ q # CallOf(a).of
    BY <2>4, <2>5
  <2>2. a \notin OnTable(q)
    BY <2>1 DEF OnTable, CallOf
  <2> QED BY <2>1, <2>2
<1> QED BY <1>3, <1>4, <1>5, <1>6, <1>7, <1>8

\* A request that ends leaves its table to others.
LEMMA CallEnded ==
  ASSUME PipelineInv, NEW a \in PipelineAdmin, CallOf(a).at \in {"ask", "save"},
         CallEnds(a), pipelines' \subseteq PipelineRow
  PROVE  /\ PipelineCallInv' /\ CallOf(a)' = NoCall
         /\ \A b \in PipelineAdmin : b # a => CallOf(b)' = CallOf(b) /\ AskedSql(b)' = AskedSql(b)
         /\ \A q \in PipelineTable : OnTable(q)' = {} /\ q # CallOf(a).of => OnTable(q) = {}
<1>1. PipelineCallInv
  BY DEF PipelineInv
<1>2. /\ DOMAIN pipelineCall' = PipelineAdmin /\ CallOf(a)' = NoCall
      /\ \A b \in PipelineAdmin : b # a => CallOf(b)' = CallOf(b) /\ AskedSql(b)' = AskedSql(b)
  BY <1>1, CallWritten DEF CallEnds
<1>3. PipelineCallInv'
  BY <1>1, <1>2 DEF PipelineCallInv
<1>4. ASSUME NEW q \in PipelineTable, OnTable(q)' = {}, q # CallOf(a).of
      PROVE  OnTable(q) = {}
  <2>1. \A b \in OnTable(q) : b = a
    BY <1>1, <1>2, <1>3, <1>4, OnTableWritten
  <2>2. a \notin OnTable(q)
    BY <1>4 DEF OnTable, CallOf
  <2> QED BY <2>1, <2>2
<1> QED BY <1>2, <1>3, <1>4

\* Data Flow does what it was asked for.
LEMMA DoesInv ==
  ASSUME PipelineInv, NEW a \in PipelineAdmin, DataFlowDoes(a)
  PROVE  PipelineInv'
<1> DEFINE p == CallOf(a).of
<1>1. /\ PipelineTypeOK /\ PipelineCallInv /\ AloneInv /\ CallsInStep /\ PipelinesAgree
      /\ CallOf(a).at = "ask" /\ CallOf(a) # NoCall
      /\ UNCHANGED <<pipelines, apart>>
  BY NoCallFacts DEF PipelineInv, DataFlowDoes
<1>2. /\ p \in PipelineTable /\ AskedSql(a) \in Sql \cup {"none"}
      /\ \A b \in PipelineAdmin :
            b # a /\ CallOf(b) # NoCall /\ CallOf(b).of \notin apart => CallOf(b).of # p
  BY <1>1, UnderWay
<1>3. \A q : SqlOf(q)' = SqlOf(q)
  BY <1>1, SqlOfFrame
<1>4. CASE CallOf(a).do = "run"
  <2>1. /\ runsOf' = runsOf \cup {<<CallOf(a).was, dags[p], p \in apart>>}
        /\ CallEnds(a) /\ UNCHANGED dags
    BY <1>4 DEF DataFlowDoes
  <2>2. /\ PipelineCallInv' /\ CallOf(a)' = NoCall
        /\ \A b \in PipelineAdmin : b # a => CallOf(b)' = CallOf(b) /\ AskedSql(b)' = AskedSql(b)
        /\ \A q \in PipelineTable : OnTable(q)' = {} /\ q # p => OnTable(q) = {}
    BY <1>1, <2>1, CallEnded DEF PipelineCallInv
  <2>3. PipelineTypeOK'
    BY <1>1, <2>1 DEF PipelineTypeOK
  <2>4. AloneInv'
    BY <1>1, <2>2 DEF AloneInv
  <2>5. CallsInStep'
    BY <1>1, <1>3, <2>1, <2>2 DEF CallsInStep
  <2>6. p \notin apart => dags[p] = SqlOf(p) /\ CallOf(a).was = SqlOf(p)
    BY <1>1 DEF CallsInStep
  <2>7. ASSUME NEW q \in PipelineTable, q \notin apart', OnTable(q)' = {}
        PROVE  SqlOf(q)' = dags'[q]
    BY <1>1, <1>3, <2>1, <2>2, <2>6, <2>7 DEF PipelinesAgree
  <2>8. \A r \in runsOf' : r[3] \/ r[1] = r[2]
    <3>1. \A r \in runsOf : r[3] \/ r[1] = r[2]
      BY <1>1 DEF PipelinesAgree
    <3>2. p \in apart \/ CallOf(a).was = dags[p]
      BY <2>6
    <3>3. \A r \in runsOf' : r \in runsOf \/ r = <<CallOf(a).was, dags[p], p \in apart>>
      BY <2>1
    <3>4. ASSUME NEW r, r = <<CallOf(a).was, dags[p], p \in apart>>
          PROVE  r[3] \/ r[1] = r[2]
      <4>1. r[1] = CallOf(a).was /\ r[2] = dags[p]
        BY <3>4
      <4>2. r[3] = (p \in apart)
        BY <3>4
      <4>3. CASE p \in apart
        <5>1. r[3] = TRUE
          BY <4>2, <4>3
        <5> QED BY <5>1
      <4> QED BY <3>2, <4>1, <4>3
    <3> QED BY <3>1, <3>3, <3>4
  <2>9. PipelinesAgree'
    BY <2>7, <2>8 DEF PipelinesAgree
  <2> QED BY <2>2, <2>3, <2>4, <2>5, <2>9 DEF PipelineInv
<1>5. CASE CallOf(a).do # "run"
  <2>1. dags' = [dags EXCEPT ![p] = AskedSql(a)] /\ Turn(a, "save") /\ UNCHANGED runsOf
    BY <1>5 DEF DataFlowDoes
  <2>2. /\ PipelineCallInv'
        /\ CallOf(a)' # NoCall /\ CallOf(a)'.of = p /\ CallOf(a)'.at = "save"
        /\ CallOf(a)'.do = CallOf(a).do /\ AskedSql(a)' = AskedSql(a)
        /\ \A b \in PipelineAdmin : b # a => CallOf(b)' = CallOf(b) /\ AskedSql(b)' = AskedSql(b)
        /\ \A q \in PipelineTable : OnTable(q)' = {} => OnTable(q) = {} /\ q # p
    BY <1>1, <1>5, <2>1, Goes
  <2>3. /\ dags' \in [PipelineTable -> Sql \cup {"none"}] /\ dags'[p] = AskedSql(a)
        /\ \A q \in PipelineTable : q # p => dags'[q] = dags[q]
    BY <1>1, <1>2, <2>1 DEF PipelineTypeOK
  <2>4. PipelineTypeOK'
    BY <1>1, <2>3 DEF PipelineTypeOK
  <2>5. AloneInv'
    BY <1>1, <2>2 DEF AloneInv
  <2>6. CallsInStep'
    BY <1>1, <1>2, <1>3, <2>2, <2>3 DEF CallsInStep, PipelineCallInv, PipelineCall
  <2>7. PipelinesAgree'
    BY <1>1, <1>3, <2>1, <2>2, <2>3 DEF PipelinesAgree
  <2> QED BY <2>2, <2>4, <2>5, <2>6, <2>7 DEF PipelineInv
<1> QED BY <1>4, <1>5

\* A 404: a deletion goes on, other requests end.
LEMMA HasNoneInv ==
  ASSUME PipelineInv, NEW a \in PipelineAdmin, DataFlowHasNone(a)
  PROVE  PipelineInv'
<1> DEFINE p == CallOf(a).of
<1>1. /\ PipelineTypeOK /\ PipelineCallInv /\ AloneInv /\ CallsInStep /\ PipelinesAgree
      /\ CallOf(a).at = "ask" /\ CallOf(a) # NoCall /\ dags[p] = "none"
      /\ UNCHANGED <<pipelines, dags, apart, runsOf>>
  BY NoCallFacts DEF PipelineInv, DataFlowHasNone, NotThere
<1>2. p \in PipelineTable
  BY <1>1, UnderWay
<1>3. \A q : SqlOf(q)' = SqlOf(q)
  BY <1>1, SqlOfFrame
<1>4. PipelineTypeOK'
  BY <1>1 DEF PipelineTypeOK
<1>5. CASE CallOf(a).do = "delete"
  <2>1. Turn(a, "save")
    BY <1>5 DEF DataFlowHasNone
  <2>2. /\ PipelineCallInv'
        /\ CallOf(a)' # NoCall /\ CallOf(a)'.of = p /\ CallOf(a)'.at = "save"
        /\ CallOf(a)'.do = CallOf(a).do /\ AskedSql(a)' = AskedSql(a)
        /\ \A b \in PipelineAdmin : b # a => CallOf(b)' = CallOf(b) /\ AskedSql(b)' = AskedSql(b)
        /\ \A q \in PipelineTable : OnTable(q)' = {} => OnTable(q) = {} /\ q # p
    BY <1>1, <1>5, <2>1, Goes
  <2>3. AskedSql(a) = dags[p]
    BY <1>1, <1>5 DEF AskedSql
  <2>4. AloneInv'
    BY <1>1, <2>2 DEF AloneInv
  <2>5. CallsInStep'
    BY <1>1, <1>3, <2>2, <2>3 DEF CallsInStep
  <2>6. PipelinesAgree'
    BY <1>1, <1>3, <2>2 DEF PipelinesAgree
  <2> QED BY <1>4, <2>2, <2>4, <2>5, <2>6 DEF PipelineInv
<1>6. CASE CallOf(a).do # "delete"
  <2>1. CallEnds(a)
    BY <1>6 DEF DataFlowHasNone
  <2>2. /\ PipelineCallInv' /\ CallOf(a)' = NoCall
        /\ \A b \in PipelineAdmin : b # a => CallOf(b)' = CallOf(b) /\ AskedSql(b)' = AskedSql(b)
        /\ \A q \in PipelineTable : OnTable(q)' = {} /\ q # p => OnTable(q) = {}
    BY <1>1, <2>1, CallEnded DEF PipelineCallInv
  <2>3. AloneInv'
    BY <1>1, <2>2 DEF AloneInv
  <2>4. CallsInStep'
    BY <1>1, <1>3, <2>2 DEF CallsInStep
  <2>5. p \notin apart => dags[p] = SqlOf(p)
    BY <1>1 DEF CallsInStep
  <2>6. PipelinesAgree'
    BY <1>1, <1>3, <2>2, <2>5 DEF PipelinesAgree
  <2> QED BY <1>4, <2>2, <2>3, <2>4, <2>6 DEF PipelineInv
<1> QED BY <1>5, <1>6

\* A request of Data Flow fails, whether it was done or not.
LEMMA FailsInv ==
  ASSUME PipelineInv, NEW a \in PipelineAdmin, DataFlowFails(a)
  PROVE  PipelineInv'
<1> DEFINE p == CallOf(a).of
<1>1. /\ PipelineTypeOK /\ PipelineCallInv /\ AloneInv /\ CallsInStep /\ PipelinesAgree
      /\ CallOf(a).at = "ask" /\ CallOf(a) # NoCall /\ CallEnds(a)
      /\ UNCHANGED <<pipelines, runsOf>>
  BY NoCallFacts DEF PipelineInv, DataFlowFails
<1>2. /\ p \in PipelineTable /\ AskedSql(a) \in Sql \cup {"none"}
      /\ \A b \in PipelineAdmin :
            b # a /\ CallOf(b) # NoCall /\ CallOf(b).of \notin apart => CallOf(b).of # p
  BY <1>1, UnderWay
<1>3. \A q : SqlOf(q)' = SqlOf(q)
  BY <1>1, SqlOfFrame
<1>4. \/ UNCHANGED <<dags, apart>>
      \/ apart' = apart \cup {p} /\ dags' = [dags EXCEPT ![p] = AskedSql(a)]
  BY DEF DataFlowFails
<1>5. /\ PipelineCallInv' /\ CallOf(a)' = NoCall
      /\ \A b \in PipelineAdmin : b # a => CallOf(b)' = CallOf(b) /\ AskedSql(b)' = AskedSql(b)
      /\ \A q \in PipelineTable : OnTable(q)' = {} /\ q # p => OnTable(q) = {}
  BY <1>1, CallEnded DEF PipelineCallInv
<1>6. /\ apart \subseteq apart' /\ apart' \subseteq PipelineTable
      /\ dags' \in [PipelineTable -> Sql \cup {"none"}]
      /\ \A q \in PipelineTable : q \notin apart' => dags'[q] = dags[q]
  BY <1>1, <1>2, <1>4 DEF PipelineTypeOK
<1>7. PipelineTypeOK'
  BY <1>1, <1>6 DEF PipelineTypeOK
<1>8. AloneInv'
  BY <1>1, <1>5, <1>6 DEF AloneInv
<1>9. CallsInStep'
  BY <1>1, <1>3, <1>5, <1>6 DEF CallsInStep, PipelineCallInv, PipelineCall
<1>10. PipelinesAgree'
  <2>1. p \notin apart => dags[p] = SqlOf(p)
    BY <1>1 DEF CallsInStep
  <2> QED BY <1>1, <1>3, <1>5, <1>6, <2>1 DEF PipelinesAgree
<1> QED BY <1>5, <1>7, <1>8, <1>9, <1>10 DEF PipelineInv

\* The row is written, or deleted, and what was asked for is what is there now.
LEMMA WrittenInv ==
  ASSUME PipelineInv, NEW a \in PipelineAdmin, CallOf(a).at = "save", CallEnds(a),
         NEW p \in PipelineTable, p = CallOf(a).of,
         pipelines' \subseteq PipelineRow,
         \A row, other \in pipelines' : row.table = other.table => row = other,
         SqlOf(p)' = AskedSql(a),
         \A q : q # p => SqlOf(q)' = SqlOf(q),
         UNCHANGED <<dags, runsOf>>,
         apart' = IF dags[p] = AskedSql(a) /\ Alone(a) THEN apart \ {p} ELSE apart
  PROVE  PipelineInv'
<1>1. /\ PipelineTypeOK /\ PipelineCallInv /\ AloneInv /\ CallsInStep /\ PipelinesAgree
      /\ CallOf(a) # NoCall
  BY NoCallFacts DEF PipelineInv
<1>2. \A b \in PipelineAdmin :
         b # a /\ CallOf(b) # NoCall /\ CallOf(b).of \notin apart => CallOf(b).of # p
  BY <1>1, UnderWay
<1>3. /\ PipelineCallInv' /\ CallOf(a)' = NoCall
      /\ \A b \in PipelineAdmin : b # a => CallOf(b)' = CallOf(b) /\ AskedSql(b)' = AskedSql(b)
      /\ \A q \in PipelineTable : OnTable(q)' = {} /\ q # p => OnTable(q) = {}
  BY <1>1, CallEnded DEF PipelineCallInv
<1>4. /\ apart' \subseteq apart /\ \A q : q # p /\ q \in apart => q \in apart'
      /\ p \notin apart' => p \notin apart \/ (dags[p] = AskedSql(a) /\ Alone(a))
  OBVIOUS
<1>5. \A b \in PipelineAdmin :
         b # a /\ CallOf(b) # NoCall /\ CallOf(b).of = p => p \in apart'
  <2> SUFFICES ASSUME NEW b \in PipelineAdmin, b # a, CallOf(b) # NoCall, CallOf(b).of = p
               PROVE  p \in apart'
    OBVIOUS
  <2>1. p \in apart
    BY <1>2
  <2>2. b \in OnTable(p)
    BY DEF OnTable, CallOf
  <2>3. ~Alone(a)
    BY <2>2 DEF Alone
  <2> QED BY <1>4, <2>1, <2>3
<1>6. PipelineTypeOK'
  BY <1>1, <1>4 DEF PipelineTypeOK
<1>7. AloneInv'
  BY <1>1, <1>3, <1>4, <1>5 DEF AloneInv
<1>8. CallsInStep'
  <2> SUFFICES ASSUME NEW b \in PipelineAdmin, CallOf(b)' # NoCall, CallOf(b)'.of \notin apart'
               PROVE  /\ (CallOf(b).do = "create" => SqlOf(CallOf(b).of) = "none")'
                      /\ (CallOf(b).at = "ask" => /\ dags[CallOf(b).of] = SqlOf(CallOf(b).of)
                                                  /\ CallOf(b).was = SqlOf(CallOf(b).of))'
                      /\ (CallOf(b).at = "save" => dags[CallOf(b).of] = AskedSql(b))'
    BY DEF CallsInStep
  <2>1. /\ b # a /\ CallOf(b)' = CallOf(b) /\ AskedSql(b)' = AskedSql(b)
    BY <1>3
  <2>2. CallOf(b).of # p /\ CallOf(b).of \notin apart
    BY <1>4, <1>5, <2>1
  <2> QED BY <1>1, <2>1, <2>2 DEF CallsInStep
<1>9. PipelinesAgree'
  <2>1. p \notin apart' => dags[p] = AskedSql(a)
    BY <1>1, <1>4 DEF CallsInStep
  <2>2. ASSUME NEW q \in PipelineTable, q \notin apart', OnTable(q)' = {}
        PROVE  SqlOf(q)' = dags'[q]
    <3>1. CASE q = p
      BY <2>1, <2>2, <3>1
    <3>2. CASE q # p
      <4>1. q \notin apart /\ OnTable(q) = {}
        BY <1>3, <1>4, <2>2, <3>2
      <4>2. SqlOf(q) = dags[q] /\ SqlOf(q)' = SqlOf(q)
        BY <1>1, <3>2, <4>1 DEF PipelinesAgree
      <4> QED BY <4>2
    <3> QED BY <3>1, <3>2
  <2>3. \A r \in runsOf' : r[3] \/ r[1] = r[2]
    BY <1>1 DEF PipelinesAgree
  <2> QED BY <2>2, <2>3 DEF PipelinesAgree
<1> QED BY <1>3, <1>6, <1>7, <1>8, <1>9 DEF PipelineInv

\* The last step of a request: a row that is written, one that another has
\* created meanwhile, or one that is deleted.
LEMMA LastInv ==
  ASSUME PipelineInv, NEW a \in PipelineAdmin, SaveRow(a) \/ CreatedByAnother(a) \/ DeleteRow(a)
  PROVE  PipelineInv'
<1>1. /\ PipelineTypeOK /\ PipelineCallInv /\ AloneInv /\ CallsInStep /\ PipelinesAgree
      /\ CallOf(a).at = "save" /\ CallEnds(a) /\ UNCHANGED <<dags, runsOf>>
  BY DEF PipelineInv, SaveRow, CreatedByAnother, DeleteRow
<1>2. PICK p \in PipelineTable :
         p = CallOf(a).of /\ CallOf(a) \in PipelineCall /\ CallOf(a).do # "run"
  BY <1>1, UnderWay
<1>3. CASE SaveRow(a)
  <2>1. /\ AskedSql(a) = CallOf(a).sql /\ CallOf(a).sql \in Sql
        /\ pipelines' = Others(p) \cup {[table |-> p, sql |-> CallOf(a).sql]}
        /\ apart' = IF dags[p] = CallOf(a).sql /\ Alone(a) THEN apart \ {p} ELSE apart
    BY <1>2, <1>3 DEF SaveRow, AskedSql, PipelineCall
  <2>2. /\ pipelines' \subseteq PipelineRow
        /\ \A row, other \in pipelines' : row.table = other.table => row = other
        /\ SqlOf(p)' = CallOf(a).sql
        /\ \A q : q # p => SqlOf(q)' = SqlOf(q)
    <3>1. /\ pipelines' \subseteq PipelineRow
          /\ \A row, other \in pipelines' : row.table = other.table => row = other
          /\ SqlOf(p)' = CallOf(a).sql
      BY <1>1, <1>2, <2>1, RowWritten
    <3>2. ASSUME NEW q, q # p PROVE SqlOf(q)' = SqlOf(q)
      BY <1>1, <1>2, <2>1, <3>2, RowWritten
    <3> QED BY <3>1, <3>2
  <2>3. /\ SqlOf(p)' = AskedSql(a)
        /\ apart' = IF dags[p] = AskedSql(a) /\ Alone(a) THEN apart \ {p} ELSE apart
        /\ CallOf(a).at = "save" /\ CallEnds(a) /\ p = CallOf(a).of /\ UNCHANGED <<dags, runsOf>>
    BY <1>1, <1>2, <2>1, <2>2
  <2> QED BY <2>2, <2>3, WrittenInv
<1>4. CASE DeleteRow(a)
  <2>1. /\ AskedSql(a) = "none" /\ pipelines' = Others(p)
        /\ apart' = IF dags[p] = "none" /\ Alone(a) THEN apart \ {p} ELSE apart
    BY <1>2, <1>4 DEF DeleteRow, AskedSql
  <2>2. /\ pipelines' \subseteq PipelineRow
        /\ \A row, other \in pipelines' : row.table = other.table => row = other
        /\ SqlOf(p)' = "none"
        /\ \A q : q # p => SqlOf(q)' = SqlOf(q)
    <3>1. /\ pipelines' \subseteq PipelineRow
          /\ \A row, other \in pipelines' : row.table = other.table => row = other
          /\ SqlOf(p)' = "none"
      BY <1>1, <2>1, RowDeleted
    <3>2. ASSUME NEW q, q # p PROVE SqlOf(q)' = SqlOf(q)
      BY <1>1, <2>1, <3>2, RowDeleted
    <3> QED BY <3>1, <3>2
  <2> QED BY <1>1, <1>2, <2>1, <2>2, WrittenInv
<1>5. CASE CreatedByAnother(a)
  <2>1. /\ CallOf(a).do = "create" /\ Listed(p) /\ CallOf(a) # NoCall
        /\ UNCHANGED <<pipelines, apart>>
    BY <1>1, <1>2, <1>5, NoCallFacts DEF CreatedByAnother
  <2>2. p \in apart
    BY <1>1, <1>2, <2>1, SqlOfType DEF CallsInStep
  <2>3. \A q : SqlOf(q)' = SqlOf(q)
    BY <2>1, SqlOfFrame
  <2>4. /\ PipelineCallInv' /\ CallOf(a)' = NoCall
        /\ \A b \in PipelineAdmin : b # a => CallOf(b)' = CallOf(b) /\ AskedSql(b)' = AskedSql(b)
        /\ \A q \in PipelineTable : OnTable(q)' = {} /\ q # p => OnTable(q) = {}
    BY <1>1, <1>2, <2>1, CallEnded DEF PipelineCallInv
  <2>5. PipelineTypeOK'
    BY <1>1, <2>1 DEF PipelineTypeOK
  <2>6. AloneInv'
    BY <1>1, <2>1, <2>4 DEF AloneInv
  <2>7. CallsInStep'
    BY <1>1, <2>1, <2>3, <2>4 DEF CallsInStep
  <2>8. PipelinesAgree'
    BY <1>1, <2>1, <2>2, <2>3, <2>4 DEF PipelinesAgree
  <2> QED BY <2>4, <2>5, <2>6, <2>7, <2>8 DEF PipelineInv
<1> QED BY <1>3, <1>4, <1>5

\* Without pipelines and requests there is nothing to disagree about.
LEMMA PipelineInitInv == PipelineInit => PipelineInv
<1> SUFFICES ASSUME PipelineInit PROVE PipelineInv
  OBVIOUS
<1>1. PipelineTypeOK
  BY DEF PipelineInit, PipelineTypeOK
<1>2. PipelineCallInv
  BY DEF PipelineInit, PipelineCallInv, CallOf
<1>3. AloneInv /\ CallsInStep
  BY DEF PipelineInit, AloneInv, CallsInStep, CallOf
<1>4. PipelinesAgree
  BY DEF PipelineInit, PipelinesAgree, SqlOf, Listed
<1> QED BY <1>1, <1>2, <1>3, <1>4 DEF PipelineInv

\* The strengthening is an invariant of the pipelines.
THEOREM PipelineInvariance == PipelineSpec => []PipelineInv
<1>1. PipelineInv /\ [PipelineNext]_pipelineVars => PipelineInv'
  <2> SUFFICES ASSUME PipelineInv, [PipelineNext]_pipelineVars PROVE PipelineInv'
    OBVIOUS
  <2>1. CASE UNCHANGED pipelineVars
    <3> USE <2>1 DEF pipelineVars
    <3>1. (\A q : SqlOf(q)' = SqlOf(q)) /\ (\A q : OnTable(q)' = OnTable(q))
          /\ \A a : CallOf(a)' = CallOf(a) /\ AskedSql(a)' = AskedSql(a)
      BY DEF SqlOf, Listed, OnTable, CallOf, AskedSql
    <3>2. PipelineTypeOK' /\ PipelineCallInv'
      BY <3>1 DEF PipelineInv, PipelineTypeOK, PipelineCallInv
    <3>3. AloneInv' /\ CallsInStep' /\ PipelinesAgree'
      BY <3>1 DEF PipelineInv, AloneInv, CallsInStep, PipelinesAgree
    <3> QED BY <3>2, <3>3 DEF PipelineInv
  <2>2. CASE PipelineNext
    <3>1. PICK a \in PipelineAdmin : PipelineStep(a)
      BY <2>2 DEF PipelineNext
    <3> QED BY <3>1, AskInv, DoesInv, HasNoneInv, FailsInv, LastInv DEF PipelineStep
  <2> QED BY <2>1, <2>2
<1> QED BY PipelineInitInv, <1>1, PTL DEF PipelineSpec

\* Requests that fail halfway, and are made again, keep the rows and Data Flow
\* together, and what is run is what was listed, unless requests overlapped or an
\* answer was lost (PipelineCreateView, PipelineUpdateView, PipelineDeleteView).
THEOREM PipelinesAreSafe == PipelineSpec => []PipelineSafety
<1>1. PipelineInv => PipelineSafety
  BY DEF PipelineInv, PipelineSafety
<1> QED BY <1>1, PipelineInvariance, PTL

(***************************************************************************)
(* Tables made of the CSV files of a user.                                 *)
(***************************************************************************)
LEMMA ImportInitInv == ImportInit => ImportInv
<1> SUFFICES ASSUME ImportInit PROVE ImportInv
  OBVIOUS
<1>1. /\ Missing \in CsvVersion /\ Missing.nr = 0
      /\ [nr |-> 1, columns |-> {"a"}] \in CsvVersion
  BY DEF Missing, CsvVersion, CsvColumns
<1>2. /\ csvFile \in [CsvFile -> CsvVersion] /\ uploaded \in [CsvFile -> CsvVersion]
      /\ tables \in [Somewhere -> CsvVersion]
  BY <1>1 DEF ImportInit
<1>3. \A f \in CsvFile : uploaded[f].nr = 0 /\ csvFile[f].nr = 1
  BY <1>1 DEF ImportInit
<1>4. importTab \in [ImportTab -> ImportTabType] /\ \A t \in ImportTab : importTab[t].at = "files"
  BY DEF ImportInit, ImportTabType
<1>5. dagRuns \in Seq(DagRunType) /\ Len(dagRuns) = 0
  BY EmptySeq DEF ImportInit
<1>6. ImportTypes /\ ImportTabInv
  BY <1>2, <1>4, <1>5 DEF ImportTypes, ImportTabInv, ImportPage
<1>7. \A f \in CsvFile : uploaded[f].nr <= csvFile[f].nr
  BY <1>3
<1>8. \A r \in 1..Len(dagRuns) : RunHolds(dagRuns[r])
  BY <1>5
<1> QED BY <1>6, <1>7, <1>8 DEF ImportInv

\* What a tab shows.
LEMMA ImportTabIs ==
  ASSUME ImportInv, NEW t \in ImportTab
  PROVE  /\ importTab[t] \in ImportTabType
         /\ importTab[t].at \in {"name", "exists", "types"} =>
              importTab[t] \in [at : {"name", "exists", "types"}, file : CsvFile, into : Somewhere,
                                overwrite : BOOLEAN]
         /\ importTab[t].at \in {"typing", "define", "copy", "trigger"} =>
              importTab[t] \in
                [at : {"typing", "define", "copy", "trigger"}, file : CsvFile, into : Somewhere,
                 overwrite : {TRUE}, shown : SUBSET CsvColumns, seen : Nat, defined : SUBSET CsvColumns]
         /\ importTab[t].at \in {"follow", "success"} =>
              importTab[t] \in [at : {"follow", "success"}, run : Nat, step : 1..4]
<1>1. importTab[t] \in ImportTabType
  BY DEF ImportInv, ImportTypes
<1> QED BY <1>1 DEF ImportTabType

\* A tab goes on, and nothing else changes.
LEMMA GoToInv ==
  ASSUME ImportInv, NEW t \in ImportTab, NEW s \in ImportTabType, GoTo(t, s),
         UNCHANGED <<csvFile, uploaded, tables, dagRuns>>,
         s.at \in {"typing", "define", "copy", "trigger"} => s.seen <= csvFile[s.file].nr,
         s.at \in {"copy", "trigger"} => s.defined \subseteq s.shown,
         s.at = "trigger" => s.seen <= uploaded[s.file].nr,
         s.at \in {"follow", "success"} => s.run \in 1..Len(dagRuns),
         s.at = "success" => dagRuns[s.run].done = 4
  PROVE  ImportInv'
<1>1. /\ importTab \in [ImportTab -> ImportTabType] /\ importTab' \in [ImportTab -> ImportTabType]
      /\ \A u \in ImportTab : importTab'[u] = IF u = t THEN s ELSE importTab[u]
  BY DEF ImportInv, ImportTypes, GoTo
<1>2. ImportTypes'
  BY <1>1 DEF ImportInv, ImportTypes
<1>3. ImportTabInv'
  BY <1>1 DEF ImportInv, ImportTabInv, ImportPage
<1> QED BY <1>2, <1>3 DEF ImportInv, RunHolds

LEMMA EditCsvInv ==
  ASSUME ImportInv, NEW f \in CsvFile, NEW columns \in ColumnSets, EditCsv(f, columns)
  PROVE  ImportInv'
<1>1. csvFile \in [CsvFile -> CsvVersion] /\ \A g \in CsvFile : csvFile[g].nr \in Nat
  BY DEF ImportInv, ImportTypes, CsvVersion
<1>2. PICK v : v = [nr |-> csvFile[f].nr + 1, columns |-> columns]
  OBVIOUS
<1>3. v \in CsvVersion /\ csvFile[f].nr <= v.nr
  BY <1>1, <1>2 DEF CsvVersion, ColumnSets, CsvColumns
<1>4. csvFile' = [csvFile EXCEPT ![f] = v] /\ UNCHANGED <<uploaded, tables, importTab, dagRuns>>
  BY <1>2 DEF EditCsv
<1>5. /\ csvFile' \in [CsvFile -> CsvVersion]
      /\ \A g \in CsvFile : csvFile[g].nr <= csvFile'[g].nr /\ csvFile'[g].nr \in Nat
  BY <1>1, <1>3, <1>4 DEF CsvVersion
<1>6. ImportTypes'
  BY <1>4, <1>5 DEF ImportInv, ImportTypes
<1>7. \A g \in CsvFile : uploaded[g].nr \in Nat /\ uploaded[g].nr <= csvFile[g].nr
  BY DEF ImportInv, ImportTypes, CsvVersion
<1>8. \A g \in CsvFile : uploaded'[g].nr <= csvFile'[g].nr
  BY <1>1, <1>4, <1>5, <1>7
<1>9. ASSUME NEW t \in ImportTab, importTab[t].at \in {"typing", "define", "copy", "trigger"}
      PROVE importTab[t].seen <= csvFile'[importTab[t].file].nr
  <2>1. importTab[t].file \in CsvFile /\ importTab[t].seen \in Nat
    BY <1>9, ImportTabIs
  <2>2. importTab[t].seen <= csvFile[importTab[t].file].nr
    BY <1>9 DEF ImportInv, ImportTabInv
  <2> QED BY <1>1, <1>5, <2>1, <2>2
<1>10. ImportTabInv'
  BY <1>4, <1>9 DEF ImportInv, ImportTabInv, ImportPage
<1> QED BY <1>4, <1>6, <1>8, <1>10 DEF ImportInv, RunHolds

LEMMA FormsInv ==
  ASSUME ImportInv, NEW t \in ImportTab,
         \/ \E f \in CsvFile, place \in Somewhere : ChooseName(t, f, place)
         \/ PostName(t) \/ SayYes(t) \/ ShowTypes(t) \/ PostTypes(t) \/ DefineColumns(t)
  PROVE  ImportInv'
<1> DEFINE Same == UNCHANGED <<csvFile, uploaded, tables, dagRuns>>
<1>0. \A f \in CsvFile : csvFile[f].nr \in Nat /\ csvFile[f].columns \subseteq CsvColumns
  BY DEF ImportInv, ImportTypes, CsvVersion
<1>1. ASSUME NEW f \in CsvFile, NEW place \in Somewhere, ChooseName(t, f, place) PROVE ImportInv'
  <2> DEFINE s == [at |-> "name", file |-> f, into |-> place, overwrite |-> FALSE]
  <2>1. s \in ImportTabType /\ s.at = "name"
    BY DEF ImportTabType
  <2>2. GoTo(t, s) /\ Same
    BY <1>1 DEF ChooseName
  <2> HIDE DEF s
  <2> QED BY <2>1, <2>2, GoToInv
<1>2. CASE PostName(t)
  <2>1. PICK at \in {"exists", "types"} : importTab' = [importTab EXCEPT ![t].at = at]
    BY <1>2 DEF PostName
  <2>2. importTab[t] \in [at : {"name", "exists", "types"}, file : CsvFile, into : Somewhere,
                          overwrite : BOOLEAN]
    BY <1>2, ImportTabIs DEF PostName, ImportPage
  <2> DEFINE s == [importTab[t] EXCEPT !.at = at]
  <2>3. s \in [at : {"name", "exists", "types"}, file : CsvFile, into : Somewhere, overwrite : BOOLEAN]
        /\ s.at = at
    BY <2>2
  <2>4. GoTo(t, s) /\ Same
    BY <1>2, <2>1 DEF PostName, GoTo
  <2> HIDE DEF s
  <2>5. s \in ImportTabType
    BY <2>3 DEF ImportTabType
  <2> QED BY <2>3, <2>4, <2>5, GoToInv
<1>3. CASE SayYes(t)
  <2> DEFINE s == [at |-> "name", file |-> importTab[t].file, into |-> <<"own", importTab[t].into[2]>>,
                   overwrite |-> TRUE]
  <2>1. importTab[t].file \in CsvFile /\ importTab[t].into \in Somewhere
    BY <1>3, ImportTabIs DEF SayYes, ImportPage
  <2>2. <<"own", importTab[t].into[2]>> \in Somewhere
    BY <2>1 DEF Somewhere, Schemas
  <2>3. s \in ImportTabType /\ s.at = "name"
    BY <2>1, <2>2 DEF ImportTabType
  <2>4. GoTo(t, s) /\ Same
    BY <1>3 DEF SayYes
  <2> HIDE DEF s
  <2> QED BY <2>3, <2>4, GoToInv
<1>4. CASE ShowTypes(t)
  <2> DEFINE f == importTab[t].file
             s == Typing(t, "typing", ColumnsNow(t), csvFile[f].nr, {})
  <2>1. f \in CsvFile /\ importTab[t].into \in Somewhere
    BY <1>4, ImportTabIs DEF ShowTypes, ImportPage
  <2>2. s \in ImportTabType /\ s.at = "typing" /\ s.seen = csvFile[f].nr /\ s.file = f
    BY <1>0, <2>1 DEF ImportTabType, Typing, ColumnsNow
  <2>3. GoTo(t, s) /\ Same
    BY <1>4 DEF ShowTypes
  <2> HIDE DEF s
  <2> QED BY <1>0, <2>1, <2>2, <2>3, GoToInv
<1>5. CASE PostTypes(t)
  <2> DEFINE f == importTab[t].file
  <2>1. /\ f \in CsvFile /\ importTab[t].into \in Somewhere /\ importTab[t].seen \in Nat
        /\ importTab[t].seen <= csvFile[f].nr
        /\ ColumnsNow(t) \subseteq CsvColumns
    BY <1>0, <1>5, ImportTabIs DEF PostTypes, ImportPage, ColumnsNow, ImportInv, ImportTabInv
  <2>2. PICK s : /\ GoTo(t, s)
                 /\ \/ s = Typing(t, "define", ColumnsNow(t), importTab[t].seen, {})
                    \/ s = Typing(t, "typing", ColumnsNow(t), csvFile[f].nr, {})
    BY <1>5 DEF PostTypes
  <2>3. /\ s \in ImportTabType /\ s.at \in {"typing", "define"} /\ s.file = f
        /\ s.seen <= csvFile[f].nr
    <3>1. /\ Typing(t, "define", ColumnsNow(t), importTab[t].seen, {}) \in ImportTabType
          /\ Typing(t, "typing", ColumnsNow(t), csvFile[f].nr, {}) \in ImportTabType
      BY <1>0, <2>1 DEF ImportTabType, Typing
    <3>2. s.at \in {"typing", "define"} /\ s.file = f /\ s.seen \in {importTab[t].seen, csvFile[f].nr}
      BY <2>2 DEF Typing
    <3> QED BY <1>0, <2>1, <2>2, <3>1, <3>2
  <2>4. Same
    BY <1>5 DEF PostTypes
  <2> QED BY <2>2, <2>3, <2>4, GoToInv
<1>6. CASE DefineColumns(t)
  <2> DEFINE f == importTab[t].file
             columns == ColumnsNow(t)
  <2>1. /\ f \in CsvFile /\ importTab[t].into \in Somewhere /\ importTab[t].seen \in Nat
        /\ importTab[t].seen <= csvFile[f].nr
        /\ columns \subseteq CsvColumns /\ importTab[t].shown \subseteq CsvColumns
    BY <1>0, <1>6, ImportTabIs DEF DefineColumns, ImportPage, ColumnsNow, ImportInv, ImportTabInv
  <2>2. Same
    BY <1>6 DEF DefineColumns
  <2>3. CASE columns \subseteq importTab[t].shown
    <3> DEFINE s == Typing(t, "copy", importTab[t].shown, importTab[t].seen, columns)
    <3>1. GoTo(t, s)
      BY <1>6, <2>3 DEF DefineColumns
    <3> HIDE DEF columns
    <3>2. /\ s \in ImportTabType /\ s.at = "copy" /\ s.file = f /\ s.seen = importTab[t].seen
          /\ s.defined = columns /\ s.shown = importTab[t].shown
      BY <2>1 DEF ImportTabType, Typing
    <3> HIDE DEF s
    <3> QED BY <2>1, <2>2, <2>3, <3>1, <3>2, GoToInv
  <2>4. CASE ~(columns \subseteq importTab[t].shown)
    <3> DEFINE s == [at |-> "failed"]
    <3>1. GoTo(t, s)
      BY <1>6, <2>4 DEF DefineColumns
    <3>2. s \in ImportTabType /\ s.at = "failed"
      BY DEF ImportTabType
    <3> HIDE DEF s
    <3> QED BY <2>2, <3>1, <3>2, GoToInv
  <2> QED BY <2>3, <2>4
<1> QED BY <1>1, <1>2, <1>3, <1>4, <1>5, <1>6

LEMMA CopyFileInv ==
  ASSUME ImportInv, NEW t \in ImportTab, CopyFile(t)
  PROVE  ImportInv'
<1> DEFINE T == [at : {"typing", "define", "copy", "trigger"}, file : CsvFile, into : Somewhere,
                 overwrite : {TRUE}, shown : SUBSET CsvColumns, seen : Nat, defined : SUBSET CsvColumns]
<1>1. /\ importTab[t] \in T /\ importTab[t].at = "copy"
  BY ImportTabIs DEF CopyFile, ImportPage
<1>2. PICK f \in CsvFile : f = importTab[t].file
  BY <1>1
<1>3. PICK s : s = Typing(t, "trigger", importTab[t].shown, importTab[t].seen, importTab[t].defined)
  OBVIOUS
<1>4. /\ s \in ImportTabType /\ s.at = "trigger" /\ s.file = f /\ s.seen = importTab[t].seen
      /\ s.defined = importTab[t].defined /\ s.shown = importTab[t].shown
  BY <1>1, <1>2, <1>3 DEF Typing, ImportTabType
<1>5. /\ importTab' = [importTab EXCEPT ![t] = s] /\ uploaded' = [uploaded EXCEPT ![f] = csvFile[f]]
      /\ UNCHANGED <<csvFile, tables, dagRuns>>
  BY <1>2, <1>3 DEF CopyFile, GoTo
<1>6. /\ importTab' \in [ImportTab -> ImportTabType]
      /\ \A u \in ImportTab : importTab'[u] = IF u = t THEN s ELSE importTab[u]
  BY <1>4, <1>5 DEF ImportInv, ImportTypes
<1>7. /\ uploaded \in [CsvFile -> CsvVersion] /\ csvFile \in [CsvFile -> CsvVersion]
      /\ \A g \in CsvFile : uploaded[g].nr \in Nat /\ csvFile[g].nr \in Nat /\ uploaded[g].nr <= csvFile[g].nr
  BY DEF ImportInv, ImportTypes, CsvVersion
<1>8. /\ uploaded' \in [CsvFile -> CsvVersion]
      /\ \A g \in CsvFile : /\ uploaded'[g] = IF g = f THEN csvFile[f] ELSE uploaded[g]
                            /\ uploaded[g].nr <= uploaded'[g].nr
                            /\ uploaded'[g].nr <= csvFile[g].nr
                            /\ uploaded'[g].nr \in Nat
  BY <1>5, <1>7
<1>9. ImportTypes'
  BY <1>5, <1>6, <1>8 DEF ImportInv, ImportTypes
<1>10. ImportTabInv'
  <2> SUFFICES ASSUME NEW u \in ImportTab
      PROVE /\ importTab'[u].at \in {"typing", "define", "copy", "trigger"} =>
                 importTab'[u].seen <= csvFile'[importTab'[u].file].nr
            /\ importTab'[u].at \in {"copy", "trigger"} => importTab'[u].defined \subseteq importTab'[u].shown
            /\ ImportPage(u, "trigger")' => importTab'[u].seen <= uploaded'[importTab'[u].file].nr
            /\ importTab'[u].at \in {"follow", "success"} => importTab'[u].run \in 1..Len(dagRuns')
            /\ ImportPage(u, "success")' => dagRuns'[importTab'[u].run].done = 4
    BY DEF ImportTabInv
  <2>1. CASE u = t
    <3>1. /\ importTab[t].seen <= csvFile[f].nr /\ importTab[t].seen \in Nat
          /\ importTab[t].defined \subseteq importTab[t].shown
      BY <1>1, <1>2 DEF ImportInv, ImportTabInv
    <3>2. uploaded'[f] = csvFile[f] /\ importTab'[u] = s
      BY <1>6, <1>8, <2>1
    <3> QED BY <1>4, <1>5, <3>1, <3>2 DEF ImportPage
  <2>2. CASE u # t
    <3>1. importTab'[u] = importTab[u]
      BY <1>6, <2>2
    <3>2. ASSUME ImportPage(u, "trigger") PROVE importTab[u].seen <= uploaded'[importTab[u].file].nr
      <4>1. importTab[u].file \in CsvFile /\ importTab[u].seen \in Nat
            /\ importTab[u].seen <= uploaded[importTab[u].file].nr
        BY <3>2, ImportTabIs DEF ImportPage, ImportInv, ImportTabInv
      <4> QED BY <1>7, <1>8, <4>1
    <3> QED BY <1>5, <3>1, <3>2 DEF ImportInv, ImportTabInv, ImportPage
  <2> QED BY <2>1, <2>2
<1>11. \A r \in 1..Len(dagRuns') : RunHolds(dagRuns[r])'
  <2> SUFFICES ASSUME NEW r \in 1..Len(dagRuns) PROVE RunHolds(dagRuns[r])'
    BY <1>5
  <2>1. dagRuns[r] \in DagRunType /\ RunHolds(dagRuns[r])
    BY ElementOfSeq DEF ImportInv, ImportTypes
  <2>2. dagRuns[r].file \in CsvFile /\ dagRuns[r].seen \in Nat
    BY <2>1 DEF DagRunType
  <2>3. dagRuns[r].seen <= uploaded'[dagRuns[r].file].nr
    BY <1>7, <1>8, <2>1, <2>2 DEF RunHolds
  <2> QED BY <1>5, <2>1, <2>3 DEF RunHolds
<1> QED BY <1>5, <1>8, <1>9, <1>10, <1>11 DEF ImportInv

LEMMA TriggerInv ==
  ASSUME ImportInv, NEW t \in ImportTab, Trigger(t) \/ TriggerFails(t)
  PROVE  ImportInv'
<1> DEFINE T == [at : {"typing", "define", "copy", "trigger"}, file : CsvFile, into : Somewhere,
                 overwrite : {TRUE}, shown : SUBSET CsvColumns, seen : Nat, defined : SUBSET CsvColumns]
<1>1. /\ importTab[t] \in T /\ importTab[t].at = "trigger"
      /\ dagRuns \in Seq(DagRunType) /\ Len(dagRuns) \in Nat
      /\ importTab[t].defined \subseteq importTab[t].shown
      /\ importTab[t].seen <= uploaded[importTab[t].file].nr
      /\ UNCHANGED <<csvFile, uploaded, tables>>
  BY ImportTabIs, LenProperties
     DEF Trigger, TriggerFails, ImportPage, ImportInv, ImportTypes, ImportTabInv
<1>2. PICK new \in DagRunType : new = NewRun(t) /\ RunHolds(new)
  <2>1. Missing \in CsvVersion
    BY DEF Missing, CsvVersion
  <2>2. NewRun(t) \in DagRunType
    <3>1. /\ importTab[t].file \in CsvFile /\ importTab[t].into \in Somewhere
          /\ importTab[t].defined \in SUBSET CsvColumns /\ importTab[t].shown \in SUBSET CsvColumns
          /\ importTab[t].seen \in Nat
      BY <1>1
    <3>2. 0 \in 0..4
      OBVIOUS
    <3> QED BY <2>1, <3>1, <3>2 DEF NewRun, DagRunType
  <2>3. RunHolds(NewRun(t))
    BY <1>1 DEF NewRun, RunHolds
  <2> QED BY <2>2, <2>3
<1>3. PICK n \in Nat : n = Len(dagRuns) + 1 /\ n \in 1..n
  BY <1>1
<1>4. PICK s \in ImportTabType :
        /\ GoTo(t, s)
        /\ s.at = "failed" \/ (s.at = "follow" /\ s.run = n /\ dagRuns' = Append(dagRuns, new))
  <2>1. [at |-> "failed"] \in ImportTabType /\ [at |-> "follow", run |-> n, step |-> 1] \in ImportTabType
    <3>1. [at |-> "follow", run |-> n, step |-> 1] \in [at : {"follow", "success"}, run : Nat, step : 1..4]
      BY <1>3
    <3> QED BY <3>1 DEF ImportTabType
  <2> QED BY <1>2, <1>3, <2>1 DEF Trigger, TriggerFails
<1>5. dagRuns' = dagRuns \/ dagRuns' = Append(dagRuns, new)
  BY <1>2 DEF Trigger, TriggerFails
<1>6. /\ dagRuns' \in Seq(DagRunType)
      /\ \A r \in 1..Len(dagRuns) : r \in 1..Len(dagRuns') /\ dagRuns'[r] = dagRuns[r]
      /\ \A r \in 1..Len(dagRuns') : r \in 1..Len(dagRuns) \/ dagRuns'[r] = new
      /\ dagRuns' = Append(dagRuns, new) => Len(dagRuns') = n
  <2>1. CASE dagRuns' = dagRuns
    <3>1. dagRuns # Append(dagRuns, new)
      BY <1>1, AppendProperties
    <3> QED BY <1>1, <2>1, <3>1
  <2>2. CASE dagRuns' = Append(dagRuns, new)
    <3>1. /\ dagRuns' \in Seq(DagRunType) /\ Len(dagRuns') = n /\ dagRuns'[n] = new
          /\ \A r \in 1..Len(dagRuns) : dagRuns'[r] = dagRuns[r]
      BY <1>1, <1>3, <2>2, AppendProperties
    <3>2. \A r : r \in 1..n <=> r \in 1..Len(dagRuns) \/ r = n
      BY <1>1, <1>3
    <3> QED BY <3>1, <3>2
  <2> QED BY <1>5, <2>1, <2>2
<1>7. /\ importTab' \in [ImportTab -> ImportTabType]
      /\ \A u \in ImportTab : importTab'[u] = IF u = t THEN s ELSE importTab[u]
  BY <1>4 DEF ImportInv, ImportTypes, GoTo
<1>8. ImportTypes'
  BY <1>1, <1>6, <1>7 DEF ImportInv, ImportTypes
<1>9. ImportTabInv'
  <2> SUFFICES ASSUME NEW u \in ImportTab
      PROVE /\ importTab'[u].at \in {"typing", "define", "copy", "trigger"} =>
                 importTab'[u].seen <= csvFile'[importTab'[u].file].nr
            /\ importTab'[u].at \in {"copy", "trigger"} => importTab'[u].defined \subseteq importTab'[u].shown
            /\ ImportPage(u, "trigger")' => importTab'[u].seen <= uploaded'[importTab'[u].file].nr
            /\ importTab'[u].at \in {"follow", "success"} => importTab'[u].run \in 1..Len(dagRuns')
            /\ ImportPage(u, "success")' => dagRuns'[importTab'[u].run].done = 4
    BY DEF ImportTabInv
  <2>1. CASE u = t
    <3>1. importTab'[u] = s
      BY <1>7, <2>1
    <3>2. s.at = "follow" => s.run \in 1..Len(dagRuns')
      BY <1>3, <1>4, <1>6
    <3> QED BY <1>4, <3>1, <3>2 DEF ImportPage
  <2>2. CASE u # t
    <3>1. importTab'[u] = importTab[u]
      BY <1>7, <2>2
    <3> QED BY <1>1, <1>6, <3>1 DEF ImportInv, ImportTabInv, ImportPage
  <2> QED BY <2>1, <2>2
<1>10. \A r \in 1..Len(dagRuns') : RunHolds(dagRuns[r])'
  BY <1>1, <1>2, <1>6 DEF ImportInv, RunHolds
<1> QED BY <1>1, <1>8, <1>9, <1>10 DEF ImportInv

LEMMA DagTaskInv ==
  ASSUME ImportInv, NEW r \in 1..Len(dagRuns), DagTask(r)
  PROVE  ImportInv'
<1>1. /\ dagRuns \in Seq(DagRunType) /\ dagRuns[r] \in DagRunType /\ RunHolds(dagRuns[r])
      /\ tables \in [Somewhere -> CsvVersion] /\ UNCHANGED <<csvFile, uploaded, importTab>>
  BY ElementOfSeq DEF ImportInv, ImportTypes, DagTask
<1>2. PICK ours \in DagRunType : ours = dagRuns[r]
  BY <1>1
<1>3. /\ ours.file \in CsvFile /\ ours.into \in Somewhere /\ ours.done \in 0..4 /\ ours.done < 4
      /\ ours.holds \in CsvVersion /\ RunHolds(ours) /\ uploaded[ours.file] \in CsvVersion
  BY <1>1, <1>2 DEF DagRunType, DagTask, RunOn, ImportInv, ImportTypes
<1>4. PICK now \in DagRunType : /\ dagRuns' = [dagRuns EXCEPT ![r] = now]
                                /\ RunHolds(now)
  <2>1. CASE ours.done = 2 /\ uploaded[ours.file].columns # ours.columns
    <3>1. PICK now : now = [ours EXCEPT !.failed = TRUE]
      OBVIOUS
    <3>2. now \in DagRunType
      BY <3>1 DEF DagRunType
    <3>3. dagRuns' = [dagRuns EXCEPT ![r] = now]
      BY <1>2, <2>1, <3>1 DEF DagTask
    <3>4. RunHolds(now)
      BY <1>3, <3>1 DEF RunHolds, DagRunType
    <3> QED BY <3>2, <3>3, <3>4
  <2>2. CASE ours.done = 2 /\ uploaded[ours.file].columns = ours.columns
    <3>1. PICK held : held = [ours EXCEPT !.holds = uploaded[ours.file]]
      OBVIOUS
    <3>2. /\ held \in DagRunType /\ held.done = 2 /\ held.file = ours.file
          /\ held.columns = ours.columns /\ held.shown = ours.shown /\ held.seen = ours.seen
          /\ held.holds = uploaded[ours.file]
      BY <1>3, <2>2, <3>1 DEF DagRunType
    <3>3. RunHolds(held)
      BY <1>3, <2>2, <3>2 DEF RunHolds
    <3>4. PICK now : now = [held EXCEPT !.done = held.done + 1]
      OBVIOUS
    <3>5. now \in DagRunType
      BY <3>2, <3>4 DEF DagRunType
    <3>6. RunHolds(now)
      BY <3>2, <3>3, <3>4 DEF RunHolds, DagRunType
    <3>7. dagRuns' = [dagRuns EXCEPT ![r] = now]
      BY <1>2, <2>2, <3>1, <3>4 DEF DagTask
    <3> QED BY <3>5, <3>6, <3>7
  <2>3. CASE ours.done # 2
    <3>1. PICK now : now = [ours EXCEPT !.done = ours.done + 1]
      OBVIOUS
    <3>2. ours.done + 1 \in 0..4
      BY <1>3
    <3>3. now \in DagRunType
      BY <3>1, <3>2 DEF DagRunType
    <3>4. RunHolds(now)
      BY <1>3, <3>1 DEF RunHolds, DagRunType
    <3>5. dagRuns' = [dagRuns EXCEPT ![r] = now]
      BY <1>2, <2>3, <3>1 DEF DagTask
    <3> QED BY <3>3, <3>4, <3>5
  <2> QED BY <2>1, <2>2, <2>3
<1>5. /\ dagRuns' \in Seq(DagRunType) /\ Len(dagRuns') = Len(dagRuns)
      /\ \A p \in 1..Len(dagRuns) : dagRuns'[p] = IF p = r THEN now ELSE dagRuns[p]
  BY <1>1, <1>4, ExceptSeq
<1>6. tables' \in [Somewhere -> CsvVersion]
  BY <1>1, <1>2, <1>3 DEF DagTask
<1>7. ImportTypes'
  BY <1>1, <1>5, <1>6 DEF ImportInv, ImportTypes
<1>8. ImportTabInv'
  <2>1. \A p \in 1..Len(dagRuns) : dagRuns[p].done = 4 => dagRuns'[p] = dagRuns[p]
    BY <1>2, <1>3, <1>5
  <2> QED BY <1>1, <1>5, <2>1 DEF ImportInv, ImportTabInv, ImportPage
<1>9. \A p \in 1..Len(dagRuns') : RunHolds(dagRuns[p])'
  <2>1. \A p \in 1..Len(dagRuns') : RunHolds(dagRuns'[p])
    BY <1>4, <1>5 DEF ImportInv
  <2> QED BY <1>1, <2>1 DEF RunHolds
<1> QED BY <1>1, <1>7, <1>8, <1>9 DEF ImportInv

LEMMA PollsInv ==
  ASSUME ImportInv, NEW t \in ImportTab, PollSuccess(t) \/ PollFailure(t) \/ PollError(t)
  PROVE  ImportInv'
<1> DEFINE T == [at : {"follow", "success"}, run : Nat, step : 1..4]
<1>1. /\ importTab[t] \in T /\ importTab[t].run \in 1..Len(dagRuns)
      /\ UNCHANGED <<csvFile, uploaded, tables, dagRuns>>
  BY ImportTabIs DEF PollSuccess, PollFailure, PollError, ImportPage, ImportInv, ImportTabInv
<1>2. dagRuns[importTab[t].run] \in DagRunType
  BY <1>1, ElementOfSeq DEF ImportInv, ImportTypes
<1>3. CASE PollFailure(t) \/ PollError(t)
  <2>1. GoTo(t, [at |-> "failed"]) /\ [at |-> "failed"] \in ImportTabType
    BY <1>3 DEF PollFailure, PollError, ImportTabType
  <2> QED BY <1>1, <2>1, GoToInv
<1>4. CASE PollSuccess(t)
  <2>1. PICK x \in 1..4 : importTab[t] = [at |-> "follow", run |-> importTab[t].run, step |-> x]
    BY <1>1, <1>4 DEF PollSuccess, ImportPage
  <2>2. dagRuns[importTab[t].run].done >= x
    BY <1>4, <2>1 DEF PollSuccess, TaskIsDone, TaskOfPage
  <2>3. CASE x = 4
    <3>1. PICK s : s = [importTab[t] EXCEPT !.at = "success"]
      OBVIOUS
    <3>2. s \in T /\ s.at = "success" /\ s.run = importTab[t].run
      BY <1>1, <3>1
    <3>3. importTab' = [importTab EXCEPT ![t] = s]
      BY <1>4, <2>1, <2>3, <3>1 DEF PollSuccess
    <3>4. dagRuns[importTab[t].run].done = 4
      BY <1>2, <2>2, <2>3 DEF DagRunType
    <3>5. s \in ImportTabType /\ GoTo(t, s)
      BY <3>2, <3>3 DEF ImportTabType, GoTo
    <3> QED BY <1>1, <3>2, <3>4, <3>5, GoToInv
  <2>4. CASE x # 4
    <3>1. PICK s : s = [importTab[t] EXCEPT !.step = importTab[t].step + 1]
      OBVIOUS
    <3>2. x + 1 \in 1..4
      BY <2>1, <2>4
    <3>3. s \in T /\ s.at = "follow" /\ s.run = importTab[t].run
      BY <1>1, <2>1, <3>1, <3>2
    <3>4. importTab' = [importTab EXCEPT ![t] = s]
      BY <1>4, <2>1, <2>4, <3>1 DEF PollSuccess
    <3>5. s \in ImportTabType /\ GoTo(t, s)
      BY <3>3, <3>4 DEF ImportTabType, GoTo
    <3> QED BY <1>1, <3>3, <3>5, GoToInv
  <2> QED BY <2>3, <2>4
<1> QED BY <1>3, <1>4

\* In every state, the run of a tab was made of a version of the file that its user was
\* shown the columns of, or of a later one (CreateTableConfirmDataTypesView, trigger_dataflow_dag).
THEOREM ImportInvariance == ImportSpec => []ImportInv
<1>1. ImportInit => ImportInv
  BY ImportInitInv
<1>2. ImportInv /\ [ImportNext]_importVars => ImportInv'
  <2> SUFFICES ASSUME ImportInv, [ImportNext]_importVars PROVE ImportInv'
    OBVIOUS
  <2>1. ASSUME NEW t \in ImportTab, ImportStep(t) PROVE ImportInv'
    BY <2>1, FormsInv, CopyFileInv, TriggerInv, PollsInv DEF ImportStep
  <2>2. CASE UNCHANGED importVars
    BY <2>2 DEF importVars, ImportInv, ImportTypes, ImportTabInv, ImportPage, RunHolds
  <2> QED BY <2>1, <2>2, EditCsvInv, FormsInv, DagTaskInv DEF ImportNext
<1> QED BY <1>1, <1>2, PTL DEF ImportSpec

\* A table is made of the file and the columns its user was shown, for any files, tabs and
\* tables (CreateTableConfirmDataTypesView, CreateTableDAGStatusView).
THEOREM ImportIsSafe == ImportSpec => []ImportSafety
<1>1. ImportInv => ImportSafety
  <2> SUFFICES ASSUME ImportInv PROVE ImportSafety
    OBVIOUS
  <2>1. \A p \in Somewhere : tables[p].columns \subseteq {"a", "b"}
    BY DEF ImportInv, ImportTypes, CsvVersion, CsvColumns
  <2>2. \A t \in ImportTab : importTab[t] \in ImportTabType
    BY DEF ImportInv, ImportTypes
  <2>3. \A t \in ImportTab : importTab[t].at \in {"files", "name", "exists", "types", "typing",
          "define", "copy", "trigger", "follow", "success", "failed"}
    BY <2>2 DEF ImportTabType
  <2>4. MadeOfWhatWasShown
    BY DEF ImportInv, RunHolds, MadeOfWhatWasShown
  <2> QED BY <2>1, <2>3, <2>4 DEF ImportInv, ImportTabInv, ImportTypeOK, ImportSafety
<1> QED BY <1>1, ImportInvariance, PTL

(***************************************************************************)
(* The sources of datasets.                                                *)
(***************************************************************************)
LEMMA SourcesInitInv == SourcesInit => SourcesInv
<1> SUFFICES ASSUME SourcesInit PROVE SourcesInv
  OBVIOUS
<1>1. /\ NoSource \in SourceRow /\ NoSource.number = 0 /\ NoSource.of = {}
      /\ NoSourcePost.read = [s \in SrcId |-> NoSource] /\ NoSourcePost.at = "none"
  BY DEF NoSource, SourceRow, NoSourcePost
<1>2. SourcesTypes
  BY <1>1 DEF SourcesInit, SourcesTypes, SourcePostRow
<1>3. \A s \in SrcId : \A row \in RowsOf(s) : row.number = 0
  BY <1>1 DEF SourcesInit, RowsOf
<1>4. CountedNumbers /\ OneOwner
  BY <1>3 DEF CountedNumbers, OneOwner, SameNumber
<1>5. PostsHold /\ NumbersFollowCode
  BY <1>1 DEF SourcesInit, PostsHold, NumbersFollowCode
<1>6. \A l \in S3Link : s3Links[l].type = "none" /\ s3Links[l].file = "none" /\ s3Links[l] \in LinkRow
  BY DEF SourcesInit, NoLink, LinkRow
<1>7. s3Links \in [S3Link -> LinkRow]
  BY <1>6 DEF SourcesInit
<1>8. FilesHold /\ LinksHaveFiles
  BY <1>6, <1>7 DEF SourcesInit, FilesHold, LinksHaveFiles
<1> QED BY <1>2, <1>4, <1>5, <1>8 DEF SourcesInv

(***************************************************************************)
(* The files.                                                              *)
(***************************************************************************)
\* What a link is.
LEMMA LinkIs ==
  ASSUME SourcesInv, NEW l \in S3Link
  PROVE  /\ s3Links[l] \in LinkRow /\ s3Links \in [S3Link -> LinkRow]
         /\ s3Files \subseteq S3Link /\ fileShared \subseteq S3Link /\ undone \subseteq S3Link
         /\ s3Links[l].type = "uploading" => l \in s3Files \cup fileShared
         /\ s3Links[l].type = "local" => /\ s3Links[l].file \in {l} \cup fileShared
                                         /\ s3Links[l].file \in s3Files \cup fileShared \/ l \in undone
         /\ s3Links[l].type \in {"none", "uploading", "external"} => s3Links[l].file = "none"
BY DEF SourcesInv, FilesHold, LinksHaveFiles

\* One link changes, and files only as they may.
LEMMA LinkChanges ==
  ASSUME SourcesInv, NEW l \in S3Link, NEW n \in LinkRow, s3Links' = [s3Links EXCEPT ![l] = n],
         s3Files' \subseteq S3Link, fileShared' \subseteq S3Link, undone' \subseteq S3Link,
         fileShared \subseteq fileShared', undone \subseteq undone' \cup {l},
         \A k \in s3Files : k \in s3Files' \cup fileShared' \/ k = l,
         n.type = "uploading" => l \in s3Files' \cup fileShared',
         n.type = "local" => /\ n.file \in {l} \cup fileShared'
                             /\ n.file \in s3Files' \cup fileShared' \/ l \in undone',
         n.type \in {"none", "uploading", "external"} => n.file = "none",
         UNCHANGED numberVars
  PROVE  SourcesInv'
<1>1. /\ s3Links' \in [S3Link -> LinkRow]
      /\ \A m \in S3Link : s3Links'[m] = IF m = l THEN n ELSE s3Links[m]
  BY LinkIs
<1>2. FilesHold'
  <2> SUFFICES ASSUME NEW m \in S3Link
               PROVE  /\ s3Links'[m].type = "uploading" => m \in s3Files' \cup fileShared'
                      /\ s3Links'[m].type = "local" => s3Links'[m].file \in {m} \cup fileShared'
                      /\ s3Links'[m].type \in {"none", "uploading", "external"} => s3Links'[m].file = "none"
    BY <1>1 DEF FilesHold
  <2>1. CASE m = l
    BY <1>1, <2>1
  <2>2. CASE m # l
    BY <1>1, <2>2, LinkIs
  <2> QED BY <2>1, <2>2
<1>3. LinksHaveFiles'
  <2> SUFFICES ASSUME NEW m \in S3Link, s3Links'[m].type = "local"
               PROVE  s3Links'[m].file \in s3Files' \cup fileShared' \/ m \in undone'
    BY DEF LinksHaveFiles
  <2>1. CASE m = l
    BY <1>1, <2>1
  <2>2. CASE m # l
    <3>1. /\ s3Links'[m] = s3Links[m] /\ s3Links[m].type = "local"
          /\ s3Links[m].file \in {m} \cup fileShared
          /\ s3Links[m].file \in s3Files \cup fileShared \/ m \in undone
      BY <1>1, <2>2, LinkIs
    <3> QED BY <2>2, <3>1
  <2> QED BY <2>1, <2>2
<1>4. /\ SourcesTypes' /\ CountedNumbers' /\ OneOwner' /\ PostsHold' /\ NumbersFollowCode'
  BY DEF SourcesInv, SourcesTypes, CountedNumbers, OneOwner, PostsHold, NumbersFollowCode, RowsOf, numberVars
<1> QED BY <1>2, <1>3, <1>4 DEF SourcesInv

\* The steps of the links.
LEMMA SourceFilesInv ==
  ASSUME SourcesInv, SourceFiles, UNCHANGED numberVars
  PROVE  SourcesInv'
<1>1. PICK l \in S3Link :
        \/ PutFile(l) \/ PutFails(l) \/ SaveUpload(l) \/ SaveUploadFails(l) \/ CloneLink(l)
        \/ MakeExternal(l) \/ MakeLocal(l) \/ AddExternal(l) \/ DeleteLink(l)
  BY DEF SourceFiles
<1>2. /\ s3Links[l] \in LinkRow /\ NoLink \in LinkRow /\ NoLink.type = "none" /\ NoLink.file = "none"
      /\ [type |-> "external", file |-> "none"] \in LinkRow
      /\ [type |-> "uploading", file |-> "none"] \in LinkRow
      /\ \A k \in S3Link : [type |-> "local", file |-> k] \in LinkRow
  BY LinkIs DEF NoLink, LinkRow
<1>3. CASE PutFile(l)
  <2>1. /\ s3Links' = [s3Links EXCEPT ![l].type = "uploading"] /\ s3Files' = s3Files \cup {l}
        /\ s3Links[l] = NoLink /\ UNCHANGED <<fileShared, undone>>
    BY <1>3 DEF PutFile
  <2>2. PICK n : n = [s3Links[l] EXCEPT !.type = "uploading"]
    OBVIOUS
  <2>3. n \in LinkRow /\ n.type = "uploading" /\ n.file = "none"
    BY <1>2, <2>1, <2>2 DEF LinkRow
  <2>4. s3Links' = [s3Links EXCEPT ![l] = n]
    BY <2>1, <2>2, LinkIs
  <2> QED BY <2>1, <2>3, <2>4, LinkIs, LinkChanges
<1>4. CASE PutFails(l)
  <2>1. UNCHANGED <<s3Files, s3Links, fileShared, undone>>
    BY <1>4 DEF PutFails
  <2> QED BY <2>1 DEF SourcesInv, SourcesTypes, CountedNumbers, OneOwner, PostsHold, NumbersFollowCode, RowsOf,
                      numberVars, FilesHold, LinksHaveFiles
<1>5. CASE SaveUpload(l)
  <2>1. /\ s3Links' = [s3Links EXCEPT ![l] = [type |-> "local", file |-> l]]
        /\ s3Links[l].type = "uploading" /\ UNCHANGED <<s3Files, fileShared, undone>>
    BY <1>5 DEF SaveUpload
  <2>2. PICK n \in LinkRow : n = [type |-> "local", file |-> l]
    BY <1>2
  <2>3. s3Links' = [s3Links EXCEPT ![l] = n] /\ n.type = "local" /\ n.file = l
    BY <2>1, <2>2
  <2> QED BY <2>1, <2>3, LinkIs, LinkChanges
<1>6. CASE SaveUploadFails(l)
  <2>1. s3Links' = [s3Links EXCEPT ![l] = NoLink] /\ UNCHANGED <<s3Files, fileShared, undone>>
    BY <1>6 DEF SaveUploadFails
  <2> QED BY <1>2, <2>1, LinkIs, LinkChanges
<1>7. CASE CloneLink(l)
  <2>1. PICK m \in S3Link : s3Links[m] = NoLink /\ s3Links' = [s3Links EXCEPT ![m] = s3Links[l]]
    BY <1>7 DEF CloneLink
  <2>2. /\ s3Links[l].type = "local" /\ fileShared' = fileShared \cup {s3Links[l].file}
        /\ UNCHANGED <<s3Files, undone>> /\ s3Links[l].file \in S3Link
    BY <1>7, LinkIs DEF CloneLink
  <2> QED BY <1>2, <2>1, <2>2, LinkIs, LinkChanges
<1>8. CASE MakeExternal(l)
  <2>1. /\ s3Links' = [s3Links EXCEPT ![l] = [type |-> "external", file |-> "none"]]
        /\ UNCHANGED <<s3Files, fileShared, undone>>
    BY <1>8 DEF MakeExternal
  <2>2. PICK n \in LinkRow : n = [type |-> "external", file |-> "none"]
    BY <1>2
  <2>3. s3Links' = [s3Links EXCEPT ![l] = n] /\ n.type = "external" /\ n.file = "none"
    BY <2>1, <2>2
  <2> QED BY <2>1, <2>3, LinkIs, LinkChanges
<1>9. CASE MakeLocal(l)
  <2>1. PICK k \in s3Files : /\ s3Links' = [s3Links EXCEPT ![l] = [type |-> "local", file |-> k]]
                             /\ fileShared' = fileShared \cup {k}
    BY <1>9 DEF MakeLocal
  <2>2. UNCHANGED <<s3Files, undone>> /\ k \in S3Link
    BY <1>9, <2>1, LinkIs DEF MakeLocal
  <2>3. PICK n \in LinkRow : n = [type |-> "local", file |-> k]
    BY <1>2, <2>2
  <2>4. s3Links' = [s3Links EXCEPT ![l] = n] /\ n.type = "local" /\ n.file = k
    BY <2>1, <2>3
  <2>5. /\ s3Files' \subseteq S3Link /\ fileShared' \subseteq S3Link /\ undone' \subseteq S3Link
        /\ fileShared \subseteq fileShared' /\ undone \subseteq undone' \cup {l} /\ s3Files \subseteq s3Files'
        /\ k \in fileShared'
    BY <2>1, <2>2, LinkIs
  <2> QED BY <2>4, <2>5, LinkChanges
<1>10. CASE AddExternal(l)
  <2>1. /\ s3Links' = [s3Links EXCEPT ![l].type = "external"] /\ s3Links[l] = NoLink
        /\ UNCHANGED <<s3Files, fileShared, undone>>
    BY <1>10 DEF AddExternal
  <2>2. PICK n : n = [s3Links[l] EXCEPT !.type = "external"]
    OBVIOUS
  <2>3. n \in LinkRow /\ n.type = "external" /\ n.file = "none"
    BY <1>2, <2>1, <2>2 DEF LinkRow
  <2>4. s3Links' = [s3Links EXCEPT ![l] = n]
    BY <2>1, <2>2, LinkIs
  <2> QED BY <2>1, <2>3, <2>4, LinkIs, LinkChanges
<1>11. CASE DeleteLink(l)
  <2>1. /\ s3Links[l].type \in {"local", "external"} /\ s3Files' = s3Files \ {s3Links[l].file}
        /\ fileShared' = fileShared
        /\ \/ s3Links' = [s3Links EXCEPT ![l] = NoLink] /\ undone' = undone \ {l}
           \/ s3Links[l].type = "local" /\ undone' = undone \cup {l} /\ s3Links' = s3Links
    BY <1>11 DEF DeleteLink
  <2>2. \A k \in s3Files : k \in s3Files' \cup fileShared' \/ k = l
    BY <2>1, LinkIs, SourcesAssumption
  <2>3. CASE s3Links' = [s3Links EXCEPT ![l] = NoLink] /\ undone' = undone \ {l}
    BY <1>2, <2>1, <2>2, <2>3, LinkIs, LinkChanges
  <2>4. CASE s3Links[l].type = "local" /\ undone' = undone \cup {l} /\ s3Links' = s3Links
    <3>1. s3Links' = [s3Links EXCEPT ![l] = s3Links[l]]
      BY <2>4, LinkIs
    <3>2. /\ s3Files' \subseteq S3Link /\ fileShared' \subseteq S3Link /\ undone' \subseteq S3Link
          /\ fileShared \subseteq fileShared' /\ undone \subseteq undone' \cup {l} /\ l \in undone'
          /\ s3Links[l].file \in {l} \cup fileShared'
      BY <2>1, <2>4, LinkIs
    <3> QED BY <1>2, <2>2, <2>4, <3>1, <3>2, LinkChanges
  <2> QED BY <2>1, <2>3, <2>4
<1> QED BY <1>1, <1>3, <1>4, <1>5, <1>6, <1>7, <1>8, <1>9, <1>10, <1>11

(***************************************************************************)
(* The numbers.                                                            *)
(***************************************************************************)
\* A rank is a number up to that of the set, and different members differ in it.
LEMMA RankDiffers ==
  ASSUME NEW S \in SUBSET SrcId, NEW s \in S
  PROVE  /\ RankIn(s, S) \in 1..Cardinality(S) /\ Cardinality(S) \in Nat
         /\ \A t \in S : t # s => RankIn(t, S) # RankIn(s, S)
<1>1. /\ IsFiniteSet(SrcId) /\ \A t \in SrcId : t \in Nat
  BY FS_Interval, SourcesAssumption DEF SrcId
<1>2. IsFiniteSet(S)
  BY <1>1, FS_Subset
<1> DEFINE Up(t) == {u \in S : u <= t}
<1>3. \A t \in S : /\ Up(t) \in SUBSET S /\ IsFiniteSet(Up(t)) /\ Cardinality(Up(t)) \in Nat
                   /\ Cardinality(Up(t)) <= Cardinality(S) /\ t \in Up(t)
  <2> SUFFICES ASSUME NEW t \in S
               PROVE  /\ Up(t) \in SUBSET S /\ IsFiniteSet(Up(t)) /\ Cardinality(Up(t)) \in Nat
                      /\ Cardinality(Up(t)) <= Cardinality(S) /\ t \in Up(t)
    OBVIOUS
  <2>1. Up(t) \in SUBSET S /\ t \in Up(t)
    BY <1>1
  <2> HIDE DEF Up
  <2> QED BY <1>2, <2>1, FS_Subset, FS_CardinalityType
<1>4. \A t \in S : Cardinality(Up(t)) # 0
  <2> SUFFICES ASSUME NEW t \in S PROVE Cardinality(Up(t)) # 0
    OBVIOUS
  <2> HIDE DEF Up
  <2> QED BY <1>3, FS_EmptySet
<1>5. ASSUME NEW t \in S, NEW u \in S, t < u PROVE Cardinality(Up(t)) # Cardinality(Up(u))
  <2>1. Up(t) \in SUBSET Up(u) /\ u \notin Up(t) /\ u \in Up(u)
    BY <1>1, <1>5
  <2> HIDE DEF Up
  <2> QED BY <1>3, <2>1, FS_Subset
<1>6. \A t \in S : RankIn(t, S) = Cardinality(Up(t))
  BY DEF RankIn
<1>7. Cardinality(S) \in Nat
  BY <1>2, FS_CardinalityType
<1> HIDE DEF Up
<1>8. \A t \in S : t # s => t < s \/ s < t
  BY <1>1
<1> QED BY <1>3, <1>4, <1>5, <1>6, <1>7, <1>8

\* What a post has read.
LEMMA SourcePostIs ==
  ASSUME SourcesInv, NEW p \in SourcePost
  PROVE  /\ sourcePost[p] \in SourcePostRow
         /\ sourcePost[p].at = "read" => sourcePost[p] \in
              [at : {"read"}, of : CodedSet, was : RefCode \cup {NoCode}, code : RefCode \cup {NoCode},
               edits : SUBSET SrcId, read : [SrcId -> SourceRow], fresh : BOOLEAN]
         /\ sourcePost[p].at # "read" => sourcePost[p] = NoSourcePost
         /\ \A s \in SrcId : sourcePost[p].read[s] \in SourceRow
<1>1. sourcePost[p] \in SourcePostRow
  BY DEF SourcesInv, SourcesTypes
<1>2. /\ NoSourcePost.at = "none" /\ \A s \in SrcId : NoSourcePost.read[s] = NoSource
      /\ NoSource \in SourceRow
  BY DEF NoSourcePost, NoSource, SourceRow
<1> QED BY <1>1, <1>2 DEF SourcePostRow

\* Rows that have numbers of before, or none, have no number twice.
LEMMA RowsStay ==
  ASSUME CountedNumbers, OneOwner, UNCHANGED counters,
         \A s \in SrcId : \A new \in RowsOf(s)' : new \in RowsOf(s) \/ new.number = 0
  PROVE  CountedNumbers' /\ OneOwner'
<1>1. CountedNumbers'
  BY DEF CountedNumbers
<1>2. OneOwner'
  BY DEF OneOwner, SameNumber
<1> QED BY <1>1, <1>2

\* A post reads its dataset, or is dropped.
LEMMA ReadSourcesInv ==
  ASSUME SourcesInv, NEW p \in SourcePost, ReadSources(p) \/ DropPost(p), UNCHANGED fileVars
  PROVE  SourcesInv'
<1>1. UNCHANGED <<codeOf, counters, sources, keptNumber>>
  BY DEF ReadSources, DropPost
<1>2. /\ NoSource \in SourceRow /\ NoSource.number = 0 /\ NoSource.of = {} /\ NoSourcePost.at = "none"
      /\ \A s \in SrcId : NoSourcePost.read[s] = NoSource
      /\ sources \in [SrcId -> SourceRow] /\ codeOf \in [CodedSet -> RefCode \cup {NoCode}]
  BY DEF NoSource, SourceRow, NoSourcePost, SourcesInv, SourcesTypes
<1>3. PICK n \in SourcePostRow :
        /\ sourcePost' = [sourcePost EXCEPT ![p] = n]
        /\ \A s \in SrcId : n.read[s] = sources[s] \/ n.read[s] = NoSource
        /\ n.at = "read" => /\ n.fresh => codeOf[n.of] = n.was
                            /\ \A s \in n.edits : n.read[s].of \in {n.of, {}}
  <2>1. CASE ReadSources(p)
    <3>1. PICK d \in CodedSet : \E code \in RefCode \cup {NoCode}, sent \in SUBSET {s \in SrcId : sources[s].of \in {d, {}}} :
            sourcePost' = [sourcePost EXCEPT ![p] =
              [at |-> "read", of |-> d, was |-> codeOf[d], code |-> code, edits |-> sent,
               read |-> [s \in SrcId |-> IF s \in sent THEN sources[s] ELSE NoSource], fresh |-> TRUE]]
      BY <2>1 DEF ReadSources
    <3>2. PICK code \in RefCode \cup {NoCode}, sent \in SUBSET {s \in SrcId : sources[s].of \in {d, {}}} :
            sourcePost' = [sourcePost EXCEPT ![p] =
              [at |-> "read", of |-> d, was |-> codeOf[d], code |-> code, edits |-> sent,
               read |-> [s \in SrcId |-> IF s \in sent THEN sources[s] ELSE NoSource], fresh |-> TRUE]]
      BY <3>1
    <3>3. PICK read \in [SrcId -> SourceRow] :
            read = [s \in SrcId |-> IF s \in sent THEN sources[s] ELSE NoSource]
      BY <1>2
    <3>4. PICK n : n = [at |-> "read", of |-> d, was |-> codeOf[d], code |-> code, edits |-> sent,
                        read |-> read, fresh |-> TRUE]
      OBVIOUS
    <3>5. n \in SourcePostRow
      BY <1>2, <3>1, <3>2, <3>3, <3>4 DEF SourcePostRow
    <3>6. /\ n.of = d /\ n.was = codeOf[d] /\ n.edits = sent /\ n.read = read
          /\ sourcePost' = [sourcePost EXCEPT ![p] = n]
      BY <3>2, <3>3, <3>4
    <3>7. \A s \in sent : s \in SrcId /\ sources[s].of \in {d, {}}
      BY <3>2
    <3>8. /\ \A s \in SrcId : n.read[s] = sources[s] \/ n.read[s] = NoSource
          /\ n.fresh => codeOf[n.of] = n.was
      BY <3>3, <3>6
    <3>9. \A s \in n.edits : n.read[s].of \in {n.of, {}}
      BY <3>3, <3>6, <3>7
    <3> QED BY <3>5, <3>6, <3>8, <3>9
  <2>2. CASE DropPost(p)
    <3>1. sourcePost' = [sourcePost EXCEPT ![p] = NoSourcePost]
      BY <2>2 DEF DropPost
    <3>2. NoSourcePost \in SourcePostRow
      BY DEF SourcePostRow
    <3> QED BY <1>2, <3>1, <3>2
  <2> QED BY <2>1, <2>2
<1>4. /\ sourcePost' \in [SourcePost -> SourcePostRow]
      /\ \A q \in SourcePost : sourcePost'[q] = IF q = p THEN n ELSE sourcePost[q]
  BY <1>3 DEF SourcesInv, SourcesTypes
<1>5. SourcesTypes'
  BY <1>1, <1>4 DEF SourcesInv, SourcesTypes
<1>6. \A s \in SrcId : \A new \in RowsOf(s)' : new \in RowsOf(s) \/ new.number = 0
  <2> SUFFICES ASSUME NEW s \in SrcId, NEW new \in RowsOf(s)' PROVE new \in RowsOf(s) \/ new.number = 0
    OBVIOUS
  <2>1. new = sources[s] \/ \E q \in SourcePost : new = sourcePost'[q].read[s]
    BY <1>1 DEF RowsOf
  <2> QED BY <1>2, <1>3, <1>4, <2>1 DEF RowsOf
<1>7. CountedNumbers' /\ OneOwner'
  BY <1>1, <1>6, RowsStay DEF SourcesInv
<1>8. PostsHold'
  BY <1>1, <1>3, <1>4 DEF SourcesInv, PostsHold
<1>9. NumbersFollowCode' /\ FilesHold' /\ LinksHaveFiles'
  BY <1>1 DEF SourcesInv, NumbersFollowCode, FilesHold, LinksHaveFiles, fileVars, Strays
<1> QED BY <1>5, <1>7, <1>8, <1>9 DEF SourcesInv

\* The rows of a source, saved and read.
LEMMA SourceRowsAre ==
  ASSUME SourcesInv, NEW s \in SrcId, NEW row \in RowsOf(s)
  PROVE  row \in SourceRow /\ row.number \in Nat
<1>1. row \in SourceRow
  BY SourcePostIs DEF RowsOf, SourcesInv, SourcesTypes
<1> QED BY <1>1 DEF SourceRow

\* What a save makes of a source.
LEMMA NumberOfIs ==
  ASSUME SourcesInv, NEW p \in SourcePost, sourcePost[p].at = "read", NEW s \in SrcId
  PROVE  /\ NumberOf(p, s) \in SourceRow
         /\ Renumbered(p) \in SUBSET SrcId /\ Unnumbered(p) \in SUBSET SrcId
         /\ Unnumbered(p) \subseteq sourcePost[p].edits
         /\ \/ s \notin sourcePost[p].edits \cup Renumbered(p) /\ NumberOf(p, s) = sources[s]
            \/ /\ s \in sourcePost[p].edits \cup Renumbered(p)
               /\ NumberOf(p, s).of = sourcePost[p].of /\ sourcePost[p].code = NoCode
               /\ NumberOf(p, s).number = 0
            \/ /\ s \in Unnumbered(p) /\ sourcePost[p].code \in RefCode
               /\ NumberOf(p, s).of = sourcePost[p].of /\ NumberOf(p, s).from = sourcePost[p].code
               /\ NumberOf(p, s).number = counters[sourcePost[p].code] + Cardinality(Renumbered(p))
                                            + RankIn(s, Unnumbered(p))
            \/ /\ s \in sourcePost[p].edits /\ NumberOf(p, s).of = sourcePost[p].of
               /\ sourcePost[p].code \in RefCode /\ s \notin Unnumbered(p)
               /\ NumberOf(p, s).number = sourcePost[p].read[s].number
               /\ NumberOf(p, s).from = sourcePost[p].read[s].from
            \/ /\ s \in Renumbered(p) /\ s \notin sourcePost[p].edits /\ sourcePost[p].code \in RefCode
               /\ NumberOf(p, s).of = sourcePost[p].of /\ NumberOf(p, s).from = sourcePost[p].code
               /\ NumberOf(p, s).number = counters[sourcePost[p].code] + RankIn(s, Renumbered(p))
<1> DEFINE post == sourcePost[p]
<1>1. post \in [at : {"read"}, of : CodedSet, was : RefCode \cup {NoCode}, code : RefCode \cup {NoCode},
                edits : SUBSET SrcId, read : [SrcId -> SourceRow], fresh : BOOLEAN]
  BY SourcePostIs
<1>2. PICK d \in CodedSet, code \in RefCode \cup {NoCode} : d = post.of /\ code = post.code
  BY <1>1
<1>3. /\ Renumbered(p) \in SUBSET SrcId /\ Unnumbered(p) \in SUBSET SrcId /\ Unnumbered(p) \subseteq post.edits
  BY <1>1 DEF Renumbered, Unnumbered, SourcesOf
<1>4. /\ s \in Unnumbered(p) => RankIn(s, Unnumbered(p)) \in Nat
      /\ s \in Renumbered(p) => RankIn(s, Renumbered(p)) \in Nat /\ Cardinality(Renumbered(p)) \in Nat
  <2>1. ASSUME NEW S \in SUBSET SrcId, s \in S PROVE RankIn(s, S) \in Nat /\ Cardinality(S) \in Nat
    BY <2>1, RankDiffers
  <2> QED BY <1>3, <2>1
<1>5. Cardinality(Renumbered(p)) \in Nat
  <2>1. IsFiniteSet(SrcId)
    BY FS_Interval, SourcesAssumption DEF SrcId
  <2> QED BY <1>3, <2>1, FS_Subset, FS_CardinalityType
<1>6. /\ sources[s] \in SourceRow /\ post.read[s] \in SourceRow /\ counters \in [RefCode -> Nat]
  BY <1>1 DEF SourcesInv, SourcesTypes
<1>7. ASSUME NEW n \in Nat PROVE [of |-> d, number |-> n, from |-> code] \in SourceRow
  BY <1>2, <1>7 DEF SourceRow
<1>8. CASE s \notin post.edits \cup Renumbered(p)
  BY <1>3, <1>6, <1>8 DEF NumberOf
<1>9. CASE s \in post.edits \cup Renumbered(p) /\ code = NoCode
  <2>1. NumberOf(p, s) = [of |-> d, number |-> 0, from |-> code]
    BY <1>2, <1>9 DEF NumberOf
  <2> QED BY <1>2, <1>3, <1>7, <1>9, <2>1
<1>10. CASE s \in Unnumbered(p) /\ code # NoCode
  <2>1. NumberOf(p, s) = [of |-> d, number |-> counters[code] + Cardinality(Renumbered(p)) + RankIn(s, Unnumbered(p)),
                          from |-> code]
    BY <1>2, <1>3, <1>10 DEF NumberOf
  <2>2. counters[code] + Cardinality(Renumbered(p)) + RankIn(s, Unnumbered(p)) \in Nat /\ code \in RefCode
    BY <1>4, <1>5, <1>6, <1>10
  <2> QED BY <1>2, <1>3, <1>7, <1>10, <2>1, <2>2
<1>11. CASE s \in post.edits /\ s \notin Unnumbered(p) /\ code # NoCode
  <2>1. NumberOf(p, s) = [post.read[s] EXCEPT !.of = d]
    BY <1>2, <1>11 DEF NumberOf
  <2>2. /\ NumberOf(p, s) \in SourceRow /\ NumberOf(p, s).of = d
        /\ NumberOf(p, s).number = post.read[s].number /\ NumberOf(p, s).from = post.read[s].from
    BY <1>6, <2>1 DEF SourceRow
  <2> QED BY <1>2, <1>3, <1>11, <2>2
<1>12. CASE s \in Renumbered(p) /\ s \notin post.edits /\ code # NoCode
  <2>1. NumberOf(p, s) = [of |-> d, number |-> counters[code] + RankIn(s, Renumbered(p)), from |-> code]
    BY <1>2, <1>3, <1>12 DEF NumberOf
  <2>2. counters[code] + RankIn(s, Renumbered(p)) \in Nat /\ code \in RefCode
    BY <1>4, <1>6, <1>12
  <2> QED BY <1>2, <1>3, <1>7, <1>12, <2>1, <2>2
<1> QED BY <1>8, <1>9, <1>10, <1>11, <1>12

\* Rows with numbers that are new, of the sources in F, leave every number with one source.
LEMMA RowsGrow ==
  ASSUME SourcesInv, NEW c \in RefCode, NEW F \in SUBSET SrcId,
         counters' \in [RefCode -> Nat], \A k \in RefCode : counters[k] <= counters'[k],
         \A s \in SrcId : \A new \in RowsOf(s)' :
           /\ new.number \in Nat
           /\ \/ new.number = 0
              \/ \E old \in RowsOf(s) : new.number = old.number /\ new.from = old.from
              \/ s \in F /\ new = sources'[s],
         \A s \in F : /\ sources'[s].from = c /\ counters[c] < sources'[s].number
                      /\ sources'[s].number <= counters'[c],
         \A s, t \in F : s # t => sources'[s].number # sources'[t].number
  PROVE  CountedNumbers' /\ OneOwner'
<1>0. counters \in [RefCode -> Nat] /\ CountedNumbers /\ OneOwner
  BY DEF SourcesInv, SourcesTypes
<1>1. ASSUME NEW s \in SrcId, NEW new \in RowsOf(s)', new.number # 0
      PROVE  new.from \in RefCode /\ new.number <= counters'[new.from]
  <2>1. CASE s \in F /\ new = sources'[s]
    BY <2>1
  <2>2. CASE \E old \in RowsOf(s) : new.number = old.number /\ new.from = old.from
    <3>1. PICK old \in RowsOf(s) : new.number = old.number /\ new.from = old.from
      BY <2>2
    <3>2. old.from \in RefCode /\ old.number <= counters[old.from]
      BY <1>0, <1>1, <3>1 DEF CountedNumbers
    <3>3. new.number \in Nat /\ counters[old.from] \in Nat /\ counters'[old.from] \in Nat
          /\ counters[old.from] <= counters'[old.from]
      BY <1>0, <3>2
    <3> QED BY <3>1, <3>2, <3>3
  <2> QED BY <1>1, <2>1, <2>2
<1>2. ASSUME NEW s \in SrcId, NEW t \in SrcId, s # t, NEW row \in RowsOf(s)', NEW other \in RowsOf(t)',
             row.number # 0, row.number = other.number, row.from = other.from
      PROVE  FALSE
  <2>0. other.number # 0
    BY <1>2
  <2>1. CASE s \in F /\ row = sources'[s] /\ t \in F /\ other = sources'[t]
    BY <1>2, <2>1
  <2>2. CASE s \in F /\ row = sources'[s] /\ \E old \in RowsOf(t) : other.number = old.number /\ other.from = old.from
    <3>1. PICK old \in RowsOf(t) : other.number = old.number /\ other.from = old.from
      BY <2>2
    <3>2. old.number <= counters[old.from]
      BY <1>0, <2>0, <3>1 DEF CountedNumbers
    <3>3. old.number <= counters[c] /\ counters[c] < row.number /\ row.number = old.number
      BY <1>2, <2>2, <3>1, <3>2
    <3>4. old.number \in Nat /\ counters[c] \in Nat
      BY <1>0, <3>1, SourceRowsAre
    <3> QED BY <3>3, <3>4
  <2>3. CASE t \in F /\ other = sources'[t] /\ \E old \in RowsOf(s) : row.number = old.number /\ row.from = old.from
    <3>1. PICK old \in RowsOf(s) : row.number = old.number /\ row.from = old.from
      BY <2>3
    <3>2. old.number <= counters[old.from]
      BY <1>0, <1>2, <3>1 DEF CountedNumbers
    <3>3. old.number <= counters[c] /\ counters[c] < other.number /\ other.number = old.number
      BY <1>2, <2>3, <3>1, <3>2
    <3>4. old.number \in Nat /\ counters[c] \in Nat
      BY <1>0, <3>1, SourceRowsAre
    <3> QED BY <3>3, <3>4
  <2>4. CASE /\ \E old \in RowsOf(s) : row.number = old.number /\ row.from = old.from
             /\ \E old \in RowsOf(t) : other.number = old.number /\ other.from = old.from
    <3>1. PICK mine \in RowsOf(s) : row.number = mine.number /\ row.from = mine.from
      BY <2>4
    <3>2. PICK theirs \in RowsOf(t) : other.number = theirs.number /\ other.from = theirs.from
      BY <2>4
    <3>3. ~SameNumber(mine, theirs)
      BY <1>0, <1>2 DEF OneOwner
    <3>4. mine.number # 0 /\ mine.number = theirs.number /\ mine.from = theirs.from
      BY <1>2, <3>1, <3>2
    <3> QED BY <3>3, <3>4 DEF SameNumber
  <2> QED BY <1>2, <2>0, <2>1, <2>2, <2>3, <2>4
<1>3. CountedNumbers'
  BY <1>1 DEF CountedNumbers
<1>4. OneOwner'
  BY <1>2 DEF OneOwner, SameNumber
<1> QED BY <1>3, <1>4

\* A post writes the dataset and its sources, under the lock of the code.
LEMMA SaveSourcesInv ==
  ASSUME SourcesInv, NEW p \in SourcePost, SaveSources(p), UNCHANGED fileVars
  PROVE  SourcesInv'
<1>1. PICK d \in CodedSet, code \in RefCode \cup {NoCode} : d = sourcePost[p].of /\ code = sourcePost[p].code
  BY SourcePostIs DEF SaveSources
<1>2. /\ sourcePost[p].at = "read" /\ sourcePost[p].edits \in SUBSET SrcId
      /\ codeOf \in [CodedSet -> RefCode \cup {NoCode}] /\ counters \in [RefCode -> Nat]
      /\ codeOf' = [codeOf EXCEPT ![d] = code]
      /\ NoCode \notin RefCode /\ {} \notin CodedSet
  BY <1>1, SourcePostIs, SourcesAssumption DEF SaveSources, SourcesInv, SourcesTypes
<1>3. sources' \in [SrcId -> SourceRow] /\ \A s \in SrcId : sources'[s] = NumberOf(p, s)
  BY <1>2, NumberOfIs DEF SaveSources
<1>4. /\ Renumbered(p) \in SUBSET SrcId /\ Unnumbered(p) \in SUBSET SrcId
      /\ Unnumbered(p) \subseteq sourcePost[p].edits
      /\ Cardinality(Renumbered(p)) \in Nat /\ Cardinality(Unnumbered(p)) \in Nat
  <2>1. IsFiniteSet(SrcId)
    BY FS_Interval, SourcesAssumption DEF SrcId
  <2>2. Renumbered(p) \in SUBSET SrcId /\ Unnumbered(p) \in SUBSET SrcId /\ Unnumbered(p) \subseteq sourcePost[p].edits
    BY <1>2 DEF Renumbered, Unnumbered, SourcesOf
  <2> QED BY <2>1, <2>2, FS_Subset, FS_CardinalityType
<1>5. /\ counters' \in [RefCode -> Nat] /\ \A c \in RefCode : counters[c] <= counters'[c]
      /\ \A c \in RefCode : counters'[c] = IF c # code THEN counters[c]
                              ELSE counters[c] + Cardinality(Renumbered(p)) + Cardinality(Unnumbered(p))
  BY <1>1, <1>2, <1>4 DEF SaveSources, CountedBy
<1>6. /\ sourcePost' \in [SourcePost -> SourcePostRow]
      /\ sourcePost'[p] = NoSourcePost
      /\ \A q \in SourcePost : q # p =>
           /\ sourcePost'[q].fresh = FALSE \/ sourcePost'[q].at # "read"
           /\ sourcePost'[q].at = sourcePost[q].at /\ sourcePost'[q].of = sourcePost[q].of
           /\ sourcePost'[q].edits = sourcePost[q].edits /\ sourcePost'[q].read = sourcePost[q].read
  <2>1. NoSourcePost \in SourcePostRow /\ [NoSourcePost EXCEPT !.fresh = FALSE] = NoSourcePost
    <3>1. PICK r, f : r = [s \in SrcId |-> NoSource] /\ f = FALSE
      OBVIOUS
    <3> DEFINE Row == [at : {"none"}, of : {{}}, was : {NoCode}, code : {NoCode},
                       edits : {{}}, read : {r}, fresh : {f}]
    <3>2. NoSourcePost \in Row
      BY <3>1 DEF NoSourcePost
    <3>3. [NoSourcePost EXCEPT !.fresh = FALSE] = NoSourcePost
      <4>1. PICK n \in Row : n = [NoSourcePost EXCEPT !.fresh = f]
        BY <3>2
      <4>2. ASSUME NEW x \in Row, NEW y \in Row PROVE x = y
        OBVIOUS
      <4> HIDE DEF Row
      <4>3. n = NoSourcePost
        BY <3>2, <4>1, <4>2
      <4> QED BY <3>1, <4>1, <4>3
    <3> QED BY <3>3 DEF SourcePostRow
  <2>2. ASSUME NEW q \in SourcePost, q # p
        PROVE  /\ sourcePost'[q] \in SourcePostRow
               /\ sourcePost'[q].fresh = FALSE \/ sourcePost'[q].at # "read"
               /\ sourcePost'[q].at = sourcePost[q].at /\ sourcePost'[q].of = sourcePost[q].of
               /\ sourcePost'[q].edits = sourcePost[q].edits /\ sourcePost'[q].read = sourcePost[q].read
    <3>1. sourcePost'[q] = [sourcePost[q] EXCEPT !.fresh = FALSE]
      BY <2>2 DEF SaveSources
    <3>2. CASE sourcePost[q].at = "read"
      BY <3>1, <3>2, SourcePostIs DEF SourcePostRow
    <3>3. CASE sourcePost[q].at # "read"
      <4>1. sourcePost'[q] = NoSourcePost /\ sourcePost[q] = NoSourcePost
        BY <2>1, <3>1, <3>3, SourcePostIs
      <4>2. sourcePost'[q].at # "read"
        BY <3>3, <4>1
      <4> QED BY <2>1, <4>1, <4>2
    <3> QED BY <3>2, <3>3
  <2>3. /\ sourcePost' = [o \in SourcePost |-> IF o = p THEN NoSourcePost
                                               ELSE [sourcePost[o] EXCEPT !.fresh = FALSE]]
    BY DEF SaveSources
  <2>4. sourcePost'[p] = NoSourcePost
    BY <2>3
  <2>5. \A q \in SourcePost : sourcePost'[q] \in SourcePostRow
    BY <2>1, <2>2, <2>4
  <2> QED BY <2>2, <2>3, <2>4, <2>5
<1>7. SourcesTypes'
  <2>1. codeOf' \in [CodedSet -> RefCode \cup {NoCode}]
    BY <1>2
  <2>2. ASSUME NEW s \in SrcId, sources'[s].number # 0 PROVE sources'[s].of # {}
    <3>1. sources'[s] = sources[s] \/ sources'[s].of = d
      BY <1>1, <1>2, <1>3, NumberOfIs
    <3> QED BY <1>2, <2>2, <3>1 DEF SourcesInv, SourcesTypes
  <2> QED BY <1>3, <1>5, <1>6, <2>1, <2>2 DEF SourcesTypes
<1>8. ASSUME NEW s \in SrcId, NEW new \in RowsOf(s)'
      PROVE  new = sources'[s] \/ new \in RowsOf(s) \/ new.number = 0
  <2>1. new = sources'[s] \/ \E q \in SourcePost : new = sourcePost'[q].read[s]
    BY DEF RowsOf
  <2>2. NoSourcePost.read[s].number = 0
    BY DEF NoSourcePost, NoSource
  <2>3. ASSUME NEW q \in SourcePost, new = sourcePost'[q].read[s]
        PROVE  new \in RowsOf(s) \/ new.number = 0
    <3>1. CASE q = p
      BY <1>6, <2>2, <2>3, <3>1
    <3>2. CASE q # p
      BY <1>6, <2>3, <3>2 DEF RowsOf
    <3> QED BY <3>1, <3>2
  <2> QED BY <2>1, <2>3
<1>9. CountedNumbers' /\ OneOwner'
  <2>1. CASE code = NoCode
    <3>1. counters' = counters
      BY <1>2, <1>5, <2>1
    <3>2. ASSUME NEW s \in SrcId, NEW new \in RowsOf(s)' PROVE new \in RowsOf(s) \/ new.number = 0
      <4>1. CASE new = sources'[s]
        <5>1. sources'[s] = NumberOf(p, s)
          BY <1>3
        <5>2. NumberOf(p, s) = sources[s] \/ NumberOf(p, s).number = 0 \/ sourcePost[p].code \in RefCode
          BY <1>2, NumberOfIs
        <5>3. sourcePost[p].code \notin RefCode
          BY <1>1, <1>2, <2>1
        <5>4. sources'[s] = sources[s] \/ sources'[s].number = 0
          BY <5>1, <5>2, <5>3
        <5> QED BY <4>1, <5>4 DEF RowsOf
      <4> QED BY <1>8, <3>2, <4>1
    <3> QED BY <3>1, <3>2, RowsStay DEF SourcesInv
  <2>2. CASE code \in RefCode
    <3> DEFINE F == Unnumbered(p) \cup (Renumbered(p) \ sourcePost[p].edits)
    <3>1. F \in SUBSET SrcId
      BY <1>4
    <3>2. ASSUME NEW s \in F
          PROVE  /\ sources'[s].from = code
                 /\ \/ /\ s \in Unnumbered(p)
                       /\ sources'[s].number = counters[code] + Cardinality(Renumbered(p)) + RankIn(s, Unnumbered(p))
                    \/ /\ s \in Renumbered(p) /\ s \notin Unnumbered(p)
                       /\ sources'[s].number = counters[code] + RankIn(s, Renumbered(p))
      BY <1>1, <1>2, <1>3, <1>4, <2>2, <3>2, NumberOfIs
    <3>3. /\ \A s \in Unnumbered(p) : RankIn(s, Unnumbered(p)) \in 1..Cardinality(Unnumbered(p))
          /\ \A s \in Renumbered(p) : RankIn(s, Renumbered(p)) \in 1..Cardinality(Renumbered(p))
          /\ \A s, t \in Unnumbered(p) : s # t => RankIn(s, Unnumbered(p)) # RankIn(t, Unnumbered(p))
          /\ \A s, t \in Renumbered(p) : s # t => RankIn(s, Renumbered(p)) # RankIn(t, Renumbered(p))
      BY <1>4, RankDiffers
    <3>4. counters[code] \in Nat /\ counters'[code] = counters[code] + Cardinality(Renumbered(p)) + Cardinality(Unnumbered(p))
      BY <1>2, <1>5, <2>2
    <3>5. \A s \in F : /\ sources'[s].from = code /\ counters[code] < sources'[s].number
                       /\ sources'[s].number <= counters'[code]
      BY <1>4, <3>2, <3>3, <3>4
    <3>6. \A s, t \in F : s # t => sources'[s].number # sources'[t].number
      BY <1>4, <3>2, <3>3, <3>4
    <3>7. ASSUME NEW s \in SrcId, NEW new \in RowsOf(s)'
          PROVE  /\ new.number \in Nat
                 /\ \/ new.number = 0
                    \/ \E old \in RowsOf(s) : new.number = old.number /\ new.from = old.from
                    \/ s \in F /\ new = sources'[s]
      <4>1. CASE new = sources'[s]
        <5>1. new \in SourceRow
          BY <1>3, <4>1
        <5>2. \/ sources'[s] = sources[s]
              \/ s \in F
              \/ sources'[s].number = sourcePost[p].read[s].number /\ sources'[s].from = sourcePost[p].read[s].from
          BY <1>1, <1>2, <1>3, <2>2, NumberOfIs
        <5> QED BY <4>1, <5>1, <5>2 DEF SourceRow, RowsOf
      <4>2. CASE new \in RowsOf(s)
        BY <4>2, SourceRowsAre
      <4>3. CASE new.number = 0
        BY <4>3
      <4> QED BY <1>8, <3>7, <4>1, <4>2, <4>3
    <3> HIDE DEF F
    <3> QED BY <1>5, <2>2, <3>1, <3>5, <3>6, <3>7, RowsGrow
  <2> QED BY <2>1, <2>2
<1>10. PostsHold'
  <2> SUFFICES ASSUME NEW q \in SourcePost, sourcePost'[q].at = "read"
               PROVE  /\ sourcePost'[q].fresh => codeOf'[sourcePost'[q].of] = sourcePost'[q].was
                      /\ \A s \in sourcePost'[q].edits : sourcePost'[q].read[s].of \in {sourcePost'[q].of, {}}
    BY DEF PostsHold
  <2>1. q # p
    BY <1>6 DEF NoSourcePost
  <2> QED BY <1>6, <2>1 DEF SourcesInv, PostsHold
<1>11. NumbersFollowCode'
  <2> SUFFICES ASSUME NEW s \in SrcId, sources'[s].of # {}, Strays(sources'[s], codeOf'[sources'[s].of])
               PROVE  s \in keptNumber'
    BY DEF NumbersFollowCode
  <2>1. keptNumber' = {t \in SrcId : /\ Strays(sources'[t], code)
                                     /\ sources[t].of = d \/ t \in sourcePost[p].edits
                                     /\ t \in sourcePost[p].edits \cup keptNumber \/ ~sourcePost[p].fresh}
                      \cup {t \in keptNumber : sources[t].of # d}
    BY <1>1 DEF SaveSources
  <2>2. CASE sources'[s].of = d
    <3>1. Strays(sources'[s], code)
      BY <1>2, <2>2
    <3>2. sources[s].of = d \/ s \in sourcePost[p].edits
      <4>1. s \in Renumbered(p) => sources[s].of = d
        BY <1>1 DEF Renumbered, SourcesOf
      <4>2. s \in sourcePost[p].edits \cup Renumbered(p) \/ sources'[s] = sources[s]
        BY <1>2, <1>3, NumberOfIs
      <4> QED BY <2>2, <4>1, <4>2
    <3>3. ASSUME s \notin sourcePost[p].edits, sourcePost[p].fresh PROVE s \in keptNumber
      <4>1. sources[s].of = d /\ codeOf[d] = sourcePost[p].was
        BY <1>1, <1>2, <3>2, <3>3 DEF SourcesInv, PostsHold
      <4>2. s \notin Renumbered(p)
        BY <1>1, <1>2, <1>3, <3>1, <3>3, NumberOfIs DEF Strays
      <4>3. code = sourcePost[p].was
        BY <1>1, <4>1, <4>2 DEF Renumbered, SourcesOf
      <4>4. sources'[s] = sources[s]
        BY <1>2, <1>3, <3>3, <4>2, NumberOfIs
      <4> QED BY <1>2, <3>1, <4>1, <4>3, <4>4 DEF SourcesInv, NumbersFollowCode
    <3> QED BY <2>1, <3>1, <3>2, <3>3
  <2>3. CASE sources'[s].of # d
    <3>1. sources'[s] = sources[s]
      BY <1>1, <1>2, <1>3, <2>3, NumberOfIs
    <3>2. sources[s].of \in CodedSet
      BY <3>1 DEF SourcesInv, SourcesTypes, SourceRow
    <3>3. codeOf'[sources'[s].of] = codeOf[sources[s].of]
      BY <1>2, <2>3, <3>1, <3>2
    <3>4. s \in keptNumber
      BY <3>1, <3>3 DEF SourcesInv, NumbersFollowCode
    <3> QED BY <2>1, <2>3, <3>1, <3>4
  <2> QED BY <2>2, <2>3
<1>12. FilesHold' /\ LinksHaveFiles'
  BY DEF SourcesInv, FilesHold, LinksHaveFiles, fileVars
<1> QED BY <1>7, <1>9, <1>10, <1>11, <1>12 DEF SourcesInv

\* In every state, each number that a code counted is of one source, in its row and in
\* what posts have read, and each file is under its own link or shared
\* (ReferenceNumberedDatasetSource.save, SourceLink.save).
THEOREM SourcesInvariance == SourcesSpec => []SourcesInv
<1>1. SourcesInv /\ [SourcesNext]_sourceVars => SourcesInv'
  <2> SUFFICES ASSUME SourcesInv, [SourcesNext]_sourceVars PROVE SourcesInv'
    OBVIOUS
  <2>1. CASE SourceNumbers /\ UNCHANGED fileVars
    BY <2>1, ReadSourcesInv, SaveSourcesInv DEF SourceNumbers
  <2>2. CASE SourceFiles /\ UNCHANGED numberVars
    BY <2>2, SourceFilesInv
  <2>3. CASE UNCHANGED sourceVars
    BY <2>3 DEF SourcesInv, SourcesTypes, CountedNumbers, OneOwner, PostsHold, NumbersFollowCode, RowsOf,
                sourceVars, numberVars, fileVars, FilesHold, LinksHaveFiles
  <2> QED BY <2>1, <2>2, <2>3 DEF SourcesNext
<1> QED BY <1>1, SourcesInitInv, PTL DEF SourcesSpec

\* No two sources get the same reference, numbers follow the code of their dataset, and
\* links have their files, for any number of datasets, codes, sources and posts that
\* cross (ReferenceNumberedDatasetSource.get_reference_code, DataSet.save, SourceLink).
THEOREM SourcesAreSafe == SourcesSpec => []SourcesSafety
<1>1. SourcesInv => SourcesSafety
  <2> SUFFICES ASSUME SourcesInv PROVE SourcesSafety
    OBVIOUS
  <2>1. SourcesTypeOK
    <3>1. \A s \in SrcId : sources[s] \in RowsOf(s) /\ sources[s] \in SourceRow
      BY DEF RowsOf, SourcesInv, SourcesTypes
    <3>2. \A s \in SrcId : /\ sources[s].of \in CodedSet \cup {{}}
                           /\ sources[s].number # 0 => sources[s].of # {} /\ sources[s].from \in RefCode
      BY <3>1 DEF SourcesInv, SourcesTypes, CountedNumbers, SourceRow
    <3>3. \A q \in SourcePost : sourcePost[q].at = "none" <=> sourcePost[q] = NoSourcePost
      <4>1. NoSourcePost.at = "none"
        BY DEF NoSourcePost
      <4>2. \A q \in SourcePost : sourcePost[q].at = "read" \/ sourcePost[q] = NoSourcePost
        BY SourcePostIs
      <4> QED BY <4>1, <4>2
    <3> QED BY <3>2, <3>3 DEF SourcesTypeOK, SourcesInv, FilesHold
  <2>2. ReferencesDiffer
    <3>1. ASSUME NEW s \in SrcId, NEW t \in SrcId, s # t PROVE ~SameNumber(sources[s], sources[t])
      BY <3>1 DEF SourcesInv, OneOwner, RowsOf
    <3>2. ASSUME NEW s \in SrcId \ keptNumber, sources[s].number # 0
          PROVE  sources[s].from = codeOf[sources[s].of]
      BY <3>2 DEF SourcesInv, SourcesTypes, NumbersFollowCode, Strays
    <3> QED BY <3>1, <3>2 DEF ReferencesDiffer, SameNumber
  <2> QED BY <2>1, <2>2 DEF SourcesSafety, SourcesInv
<1> QED BY <1>1, SourcesInvariance, PTL

(***************************************************************************)
(* The item of the catalogue.                                              *)
(***************************************************************************)
LEMMA CatalogueInitInv == CatalogueInit => CatalogueInv
<1> SUFFICES ASSUME CatalogueInit PROVE CatalogueInv
  OBVIOUS
<1>1. NewItem \in CatalogueItem /\ NewItem.downloads = 0 /\ NewItem.kind = "none"
  BY CatalogueAssumption DEF NewItem, CatalogueItem, AccessType
<1>2. \A u \in CatalogueUser : visit[u].pc = "idle" /\ visit[u].promised = FALSE
  BY DEF CatalogueInit, NoVisit
<1>3. Counting = {}
  BY <1>2 DEF Counting
<1>4. Cardinality(Counting) = 0
  BY <1>3, FS_EmptySet
<1>5. CatalogueTypeOK
  <2>1. 0 \in 0..MaxDownloads /\ 0 \in 0..MaxEdits
    BY CatalogueAssumption
  <2>2. NoVisit \in [pc : {"idle", "page", "check", "log", "count", "answered"},
                    promised : BOOLEAN, status : {0, 200, 403, 404}]
    BY DEF NoVisit
  <2>3. /\ item \in CatalogueItem /\ editing \in [Curator -> CatalogueItem]
        /\ visit \in [CatalogueUser -> [pc : {"idle", "page", "check", "log", "count", "answered"},
                                        promised : BOOLEAN, status : {0, 200, 403, 404}]]
    BY <1>1, <2>2 DEF CatalogueInit
  <2>4. /\ permitted \subseteq CatalogueUser /\ events \in 0..MaxDownloads /\ edits \in 0..MaxEdits
        /\ crossed \in BOOLEAN
    BY <2>1 DEF CatalogueInit
  <2> QED BY <2>3, <2>4 DEF CatalogueTypeOK
<1>6. PromisesHold
  BY <1>2 DEF PromisesHold
<1>7. CountsHold /\ DownloadsAreCounted
  BY <1>1, <1>2, <1>4 DEF CatalogueInit, CountsHold, DownloadsAreCounted
<1> QED BY <1>5, <1>6, <1>7 DEF CatalogueInv

\* What is known of the numbers of an item, in and out of forms.
LEMMA DownloadCountsAre ==
  ASSUME CatalogueInv
  PROVE  /\ item \in CatalogueItem /\ item.downloads \in Nat /\ item.downloads <= MaxDownloads
         /\ \A c \in Curator : /\ editing[c] \in CatalogueItem /\ editing[c].downloads \in Nat
                               /\ editing[c].downloads <= MaxDownloads
         /\ events \in Nat /\ events <= MaxDownloads /\ MaxDownloads \in Nat
         /\ IsFiniteSet(Counting) /\ Cardinality(Counting) \in Nat
<1>1. /\ item \in CatalogueItem /\ editing \in [Curator -> CatalogueItem]
      /\ events \in 0..MaxDownloads /\ MaxDownloads \in Nat
  BY CatalogueAssumption DEF CatalogueInv, CatalogueTypeOK
<1>2. Counting \in SUBSET CatalogueUser
  BY DEF Counting
<1>3. IsFiniteSet(Counting)
  BY <1>2, FS_Subset, CatalogueAssumption
<1>4. Cardinality(Counting) \in Nat
  BY <1>3, FS_CardinalityType
<1>5. \A row \in CatalogueItem : row.downloads \in Nat /\ row.downloads <= MaxDownloads
  BY <1>1 DEF CatalogueItem
<1> QED BY <1>1, <1>3, <1>4, <1>5

\* A person goes on in the catalogue; the counting is a step of its own.
VisitRow == [pc : {"idle", "page", "check", "log", "answered"}, promised : BOOLEAN,
             status : {0, 200, 403, 404}]
\* What a visit was promised is what its link does.
KeepsPromise(u, n) ==
  /\ n.promised => Findable(u) /\ UserHasAccess(u) /\ CanShowLink(u)
  /\ n.promised /\ n.pc = "answered" =>
       n.status = 200 \/ (item.kind = "reference" /\ ~ item.published /\ u \notin Superuser)
\* Only the visit moves, and it is not about to be counted.
VisitStep(u, n) ==
  /\ visit' = [visit EXCEPT ![u] = n] /\ visit[u].pc # "count" /\ item.kind # "none"
  /\ UNCHANGED <<item, permitted, events, editing, edits, crossed>>
  /\ KeepsPromise(u, n)

LEMMA VisitMoves ==
  ASSUME CatalogueInv, NEW u \in CatalogueUser,
         NEW n \in VisitRow, VisitStep(u, n)
  PROVE  CatalogueInv'
<1> USE DEF VisitRow, VisitStep, KeepsPromise
<1>1. /\ visit \in [CatalogueUser -> [pc : {"idle", "page", "check", "log", "count", "answered"},
                             promised : BOOLEAN, status : {0, 200, 403, 404}]]
  BY DEF CatalogueInv, CatalogueTypeOK
<1>2. /\ visit' \in [CatalogueUser -> [pc : {"idle", "page", "check", "log", "count", "answered"},
                             promised : BOOLEAN, status : {0, 200, 403, 404}]]
      /\ \A v \in CatalogueUser : visit'[v] = IF v = u THEN n ELSE visit[v]
  BY <1>1
<1>3. Counting' = Counting
  BY <1>2 DEF Counting
<1>4. CatalogueTypeOK'
  BY <1>2 DEF CatalogueInv, CatalogueTypeOK
<1>5. CountsHold' /\ DownloadsAreCounted'
  BY <1>3 DEF CatalogueInv, CountsHold, DownloadsAreCounted
<1>6. PromisesHold'
  BY <1>2 DEF CatalogueInv, PromisesHold, Findable, HasPerm, UserHasAccess, Unrestricted, CanShowLink
<1> QED BY <1>4, <1>5, <1>6 DEF CatalogueInv

\* The pages, and the views behind their links up to the log entry.
LEMMA CataloguePagesInv ==
  ASSUME CatalogueInv, NEW u \in CatalogueUser,
         \/ OpenPage(u) \/ OpenPreview(u) \/ ClickDataCut(u) \/ ClickReference(u)
         \/ CheckReviewed(u) \/ LeavePage(u)
  PROVE  CatalogueInv'
<1>1. /\ visit[u].promised \in BOOLEAN
      /\ visit[u].promised => Findable(u) /\ UserHasAccess(u) /\ CanShowLink(u)
      /\ UNCHANGED <<item, permitted, events, editing, edits, crossed>>
      /\ visit[u].pc # "count"
      /\ item.kind # "none"
  BY DEF CountsHold, Findable,  CatalogueInv, CatalogueTypeOK, PromisesHold, OpenPage, OpenPreview, ClickDataCut, ClickReference,
         CheckReviewed, LeavePage
<1>2. ASSUME NEW pc \in {"page", "check", "log"}, NEW p \in BOOLEAN, visit' = ShowPage(u, pc, p),
             p => Findable(u) /\ UserHasAccess(u) /\ CanShowLink(u)
      PROVE  CatalogueInv'
  <2>1. PICK n : n = [pc |-> pc, promised |-> p, status |-> 0] /\ visit' = [visit EXCEPT ![u] = n]
    BY <1>2 DEF ShowPage
  <2>2. n \in VisitRow /\ n.pc # "answered" /\ n.promised = p
    BY <1>2, <2>1 DEF VisitRow
  <2>3. KeepsPromise(u, n)
    BY <1>2, <2>2 DEF KeepsPromise
  <2>4. visit' = [visit EXCEPT ![u] = n]
    BY <2>1
  <2>5. VisitStep(u, n)
    BY <1>1, <2>3, <2>4 DEF VisitStep
  <2> QED BY <2>2, <2>5, VisitMoves
<1>3. ASSUME NEW status \in {403, 404}, visit' = AnswerClick(u, status),
             visit[u].promised => item.kind = "reference" /\ ~ item.published /\ u \notin Superuser
      PROVE  CatalogueInv'
  <2>1. PICK n : /\ n = [pc |-> "answered", promised |-> visit[u].promised, status |-> status]
                 /\ visit' = [visit EXCEPT ![u] = n]
    BY <1>3 DEF AnswerClick
  <2>2. n \in VisitRow
    BY <1>1, <1>3, <2>1 DEF VisitRow
  <2>3. n.promised => visit[u].promised
    BY <2>1
  <2>4. KeepsPromise(u, n)
    BY <1>1, <1>3, <2>3 DEF KeepsPromise
  <2>7. visit[u].pc # "count" /\ item.kind # "none" /\ UNCHANGED <<item, permitted, events, editing, edits, crossed>>
    BY <1>1
  <2>5. visit' = [visit EXCEPT ![u] = n]
    BY <2>1
  <2>6. VisitStep(u, n)
    BY <2>4, <2>5, <2>7 DEF VisitStep
  <2> QED BY <2>2, <2>6, VisitMoves
<1>4. CASE OpenPage(u)
  <2>1. PICK p \in BOOLEAN : p = Offers(u)
    BY DEF Offers, UserHasAccess, CanShowLink, Unrestricted
  <2>2. visit' = ShowPage(u, "page", p) /\ (p => Findable(u) /\ UserHasAccess(u) /\ CanShowLink(u))
    BY <1>4, <2>1 DEF OpenPage, Offers
  <2> QED BY <1>2, <2>2
<1>5. CASE OpenPreview(u)
  <2>1. PICK p \in BOOLEAN : p = CanShowLink(u)
    BY DEF CanShowLink
  <2>2. visit' = ShowPage(u, "page", p) /\ (p => Findable(u) /\ UserHasAccess(u) /\ CanShowLink(u))
    BY <1>5, <2>1 DEF OpenPreview
  <2> QED BY <1>2, <2>2
<1>6. CASE ClickDataCut(u)
  <2>1. \/ ~ Findable(u) /\ visit' = AnswerClick(u, 404)
        \/ ~ UserHasAccess(u) /\ visit' = AnswerClick(u, 403)
        \/ visit' = ShowPage(u, "check", visit[u].promised)
    BY <1>6 DEF ClickDataCut, Proceed
  <2> QED BY <1>1, <1>2, <1>3, <2>1
<1>7. CASE ClickReference(u)
  <2>1. \/ /\ item.deleted \/ (~ item.published /\ u \notin Superuser)
           /\ visit' = AnswerClick(u, 404) /\ item.kind = "reference"
        \/ visit' = ShowPage(u, "log", visit[u].promised)
    BY <1>7 DEF ClickReference, Proceed
  <2>2. item.deleted => ~ Findable(u)
    BY DEF Findable
  <2> QED BY <1>1, <1>2, <1>3, <2>1, <2>2
<1>8. CASE CheckReviewed(u)
  <2>1. \/ ~ CanShowLink(u) /\ visit' = AnswerClick(u, 403)
        \/ visit' = ShowPage(u, "log", visit[u].promised)
    BY <1>8 DEF CheckReviewed, Proceed
  <2> QED BY <1>1, <1>2, <1>3, <2>1
<1>9. CASE LeavePage(u)
  <2>1. visit' = [visit EXCEPT ![u] = NoVisit] /\ NoVisit \in VisitRow /\ NoVisit.promised = FALSE
    BY <1>9 DEF LeavePage, NoVisit, VisitRow
  <2>2. KeepsPromise(u, NoVisit)
    BY <2>1 DEF KeepsPromise
  <2>3. VisitStep(u, NoVisit)
    BY <1>1, <2>1, <2>2 DEF VisitStep
  <2> QED BY <2>1, <2>3, VisitMoves
<1> QED BY <1>4, <1>5, <1>6, <1>7, <1>8, <1>9

\* The event of a download is logged.
LEMMA LogDownloadInv ==
  ASSUME CatalogueInv, NEW u \in CatalogueUser, LogDownload(u)
  PROVE  CatalogueInv'
<1>1. /\ visit[u].pc = "log" /\ events < MaxDownloads /\ events' = events + 1
      /\ UNCHANGED <<item, permitted, editing, edits, crossed>>
  BY DEF LogDownload
<1>2. PICK n : /\ n = [pc |-> "count", promised |-> visit[u].promised, status |-> 0]
               /\ visit' = [visit EXCEPT ![u] = n]
  BY DEF LogDownload, Proceed, ShowPage
<1>3. /\ n \in [pc : {"count"}, promised : BOOLEAN, status : {0}]
      /\ n.promised = visit[u].promised /\ n.pc = "count"
  BY <1>2 DEF CatalogueInv, CatalogueTypeOK
<1>4. /\ visit' \in [CatalogueUser -> [pc : {"idle", "page", "check", "log", "count", "answered"},
                             promised : BOOLEAN, status : {0, 200, 403, 404}]]
      /\ \A v \in CatalogueUser : visit'[v] = IF v = u THEN n ELSE visit[v]
  BY <1>2, <1>3 DEF CatalogueInv, CatalogueTypeOK
<1>5. Counting' = Counting \cup {u} /\ u \notin Counting
  BY <1>1, <1>3, <1>4 DEF Counting
<1>6. Cardinality(Counting') = Cardinality(Counting) + 1
  BY <1>5, DownloadCountsAre, FS_AddElement
<1>7. Cardinality(Counting)' = Cardinality(Counting) + 1
  BY <1>6
<1>8. CatalogueTypeOK'
  BY <1>1, <1>4, CatalogueAssumption DEF CatalogueInv, CatalogueTypeOK
<1>9. PromisesHold'
  BY <1>1, <1>3, <1>4
     DEF CatalogueInv, PromisesHold, Findable, HasPerm, UserHasAccess, Unrestricted, CanShowLink
<1>10. CountsHold' /\ DownloadsAreCounted'
  BY <1>1, <1>7, DownloadCountsAre DEF CatalogueInv, CountsHold, DownloadsAreCounted
<1> QED BY <1>8, <1>9, <1>10 DEF CatalogueInv

\* The download is counted on the row of the item.
LEMMA CountDownloadInv ==
  ASSUME CatalogueInv, NEW u \in CatalogueUser, CountDownload(u)
  PROVE  CatalogueInv'
<1>1. /\ visit[u].pc = "count" /\ item' = [item EXCEPT !.downloads = item.downloads + 1]
      /\ crossed' = (crossed \/ \E c \in Curator : editing[c] # NewItem)
      /\ UNCHANGED <<permitted, events, editing, edits>>
  BY DEF CountDownload, Counted
<1>2. PICK n : /\ n = [pc |-> "answered", promised |-> visit[u].promised, status |-> 200]
               /\ visit' = [visit EXCEPT ![u] = n]
  BY DEF CountDownload, Counted, AnswerClick
<1>3. /\ n \in [pc : {"answered"}, promised : BOOLEAN, status : {200}]
      /\ n.promised = visit[u].promised /\ n.pc = "answered" /\ n.status = 200
  BY <1>2 DEF CatalogueInv, CatalogueTypeOK
<1>4. /\ visit' \in [CatalogueUser -> [pc : {"idle", "page", "check", "log", "count", "answered"},
                             promised : BOOLEAN, status : {0, 200, 403, 404}]]
      /\ \A v \in CatalogueUser : visit'[v] = IF v = u THEN n ELSE visit[v]
  BY <1>2, <1>3 DEF CatalogueInv, CatalogueTypeOK
<1>5. Counting' = Counting \ {u} /\ u \in Counting
  BY <1>1, <1>3, <1>4 DEF Counting
<1>6. Cardinality(Counting') = Cardinality(Counting) - 1
  BY <1>5, DownloadCountsAre, FS_RemoveElement
<1>7. PICK k \in Nat : Cardinality(Counting) = k + 1 /\ Cardinality(Counting)' = k
  <2>1. Cardinality(Counting) # 0
    BY <1>5, DownloadCountsAre, FS_EmptySet
  <2>2. PICK k \in Nat : Cardinality(Counting) = k + 1
    BY <2>1, DownloadCountsAre
  <2> QED BY <1>6, <2>2
<1>8. /\ item.downloads + (k + 1) <= events
      /\ \A c \in Curator : /\ editing[c].downloads + (k + 1) <= events
                            /\ \/ editing[c] = NewItem
                               \/ editing[c].kind # "none" /\ (crossed \/ editing[c].downloads = item.downloads)
      /\ item.kind # "none"
      /\ crossed \/ events = item.downloads + (k + 1)
  BY <1>1, <1>7 DEF CatalogueInv, CountsHold, DownloadsAreCounted
<1>9. /\ item' \in CatalogueItem /\ item'.downloads = item.downloads + 1
      /\ item'.kind = item.kind /\ item'.published = item.published /\ item'.deleted = item.deleted
      /\ item'.access = item.access /\ item'.domains = item.domains /\ item'.reviewed = item.reviewed
  <2>1. item.downloads + 1 \in 0..MaxDownloads
    BY <1>8, DownloadCountsAre
  <2>2. item \in [kind : Kind \cup {"none"}, published : BOOLEAN, deleted : BOOLEAN,
                  access : AccessType, domains : BOOLEAN, reviewed : BOOLEAN,
                  downloads : 0 .. MaxDownloads]
    BY DownloadCountsAre DEF CatalogueItem
  <2> QED BY <1>1, <2>1, <2>2 DEF CatalogueItem
<1>10. /\ crossed => crossed'
       /\ \A c \in Curator : editing[c] # NewItem => crossed'
  BY <1>1
<1>11. CatalogueTypeOK'
  <2>1. crossed' \in BOOLEAN
    BY <1>1 DEF CatalogueInv, CatalogueTypeOK
  <2> QED BY <1>1, <1>4, <1>9, <2>1 DEF CatalogueInv, CatalogueTypeOK
<1>12. PromisesHold'
  BY <1>1, <1>3, <1>4, <1>9
     DEF CatalogueInv, PromisesHold, Findable, HasPerm, UserHasAccess, Unrestricted, CanShowLink
<1>13. DownloadsAreCounted'
  <2>1. crossed' \/ events' = item'.downloads + Cardinality(Counting)'
    BY <1>1, <1>7, <1>8, <1>9, <1>10, DownloadCountsAre
  <2> QED BY <2>1 DEF DownloadsAreCounted
<1>14. CountsHold'
  <2>1. item'.downloads + Cardinality(Counting)' <= events'
    BY <1>1, <1>7, <1>8, <1>9, DownloadCountsAre
  <2>2. \A c \in Curator : editing'[c].downloads + Cardinality(Counting)' <= events'
    BY <1>1, <1>7, <1>8, DownloadCountsAre
  <2>3. \A c \in Curator : editing'[c] = NewItem \/ (editing'[c].kind # "none" /\ crossed')
    BY <1>1, <1>8, <1>10
  <2>4. item'.kind # "none"
    BY <1>8, <1>9
  <2> QED BY <2>1, <2>2, <2>3, <2>4 DEF CountsHold
<1> QED BY <1>11, <1>12, <1>13, <1>14 DEF CatalogueInv

\* The form of a new item.
LEMMA CreateItemInv ==
  ASSUME CatalogueInv, CreateItem
  PROVE  CatalogueInv'
<1>1. PICK kind \in Kind, access \in AccessType, ready \in BOOLEAN :
        /\ item.kind = "none"
        /\ item' = [kind |-> kind, published |-> ready, deleted |-> FALSE, access |-> access,
                    domains |-> FALSE, reviewed |-> ready, downloads |-> 0]
        /\ UNCHANGED <<permitted, visit, events, editing, edits, crossed>>
  BY DEF CreateItem
<1>2. /\ item.downloads = 0 /\ item'.downloads = 0 /\ item'.kind # "none"
  BY <1>1 DEF CatalogueInv, CountsHold, NewItem, Kind
<1>3. item' \in CatalogueItem
  BY <1>1, CatalogueAssumption DEF CatalogueItem
<1>4. Counting' = Counting
  BY <1>1 DEF Counting
<1>5. \A u \in CatalogueUser : ~ visit[u].promised
  BY <1>1 DEF CatalogueInv, PromisesHold, Findable
<1>6. CatalogueTypeOK' /\ PromisesHold'
  BY <1>1, <1>3, <1>5 DEF CatalogueInv, CatalogueTypeOK, PromisesHold
<1>7. CountsHold' /\ DownloadsAreCounted'
  BY <1>1, <1>2, <1>4 DEF CatalogueInv, CountsHold, DownloadsAreCounted
<1> QED BY <1>6, <1>7 DEF CatalogueInv

\* A form is loaded or given up.
LEMMA LoadItemInv ==
  ASSUME CatalogueInv, NEW c \in Curator, LoadItem(c) \/ AbandonEdit(c)
  PROVE  CatalogueInv'
<1>1. UNCHANGED <<item, permitted, visit, events, edits, crossed>>
  BY DEF LoadItem, AbandonEdit
<1>2. PICK n \in CatalogueItem : /\ editing' = [editing EXCEPT ![c] = n]
                                 /\ n = NewItem \/ (n = item /\ item.kind # "none")
  <2>1. NewItem \in CatalogueItem
    BY CatalogueAssumption DEF NewItem, CatalogueItem, AccessType
  <2> QED BY <2>1, DownloadCountsAre DEF LoadItem, AbandonEdit
<1>3. /\ editing' \in [Curator -> CatalogueItem]
      /\ \A d \in Curator : editing'[d] = IF d = c THEN n ELSE editing[d]
  BY <1>2 DEF CatalogueInv, CatalogueTypeOK
<1>4. Counting' = Counting
  BY <1>1 DEF Counting
<1>5. CatalogueTypeOK' /\ PromisesHold' /\ DownloadsAreCounted'
  BY <1>1, <1>3, <1>4 DEF CatalogueInv, CatalogueTypeOK, PromisesHold, DownloadsAreCounted, Findable, HasPerm,
     UserHasAccess, Unrestricted, CanShowLink
<1>6. n.downloads + Cardinality(Counting) <= events
  <2>1. item.downloads + Cardinality(Counting) <= events
    BY DEF CatalogueInv, CountsHold
  <2>2. NewItem.downloads = 0
    BY DEF NewItem
  <2> QED BY <1>2, <2>1, <2>2, DownloadCountsAre
<1>7. CountsHold'
  BY <1>1, <1>2, <1>3, <1>4, <1>6 DEF CatalogueInv, CountsHold
<1> QED BY <1>5, <1>7 DEF CatalogueInv

\* What a form changes is not the number of downloads that it loaded.
LEMMA ItemEditsAre ==
  ASSUME NEW row \in CatalogueItem, NEW new \in EditsOf(row)
  PROVE  new \in CatalogueItem /\ new.downloads = row.downloads /\ new.kind = row.kind
<1>1. row \in [kind : Kind \cup {"none"}, published : BOOLEAN, deleted : BOOLEAN,
               access : AccessType, domains : BOOLEAN, reviewed : BOOLEAN,
               downloads : 0 .. MaxDownloads]
  BY DEF CatalogueItem
<1>2. CASE new = row
  BY <1>2
<1>3. CASE new = [row EXCEPT !.published = ~ row.published]
  BY <1>1, <1>3 DEF CatalogueItem
<1>4. CASE new = [row EXCEPT !.domains = ~ row.domains]
  BY <1>1, <1>4 DEF CatalogueItem
<1>5. CASE new = [row EXCEPT !.reviewed = ~ row.reviewed]
  BY <1>1, <1>5 DEF CatalogueItem
<1>6. CASE \E type \in AccessType : new = [row EXCEPT !.access = type]
  BY <1>1, <1>6 DEF CatalogueItem
<1> QED BY <1>2, <1>3, <1>4, <1>5, <1>6 DEF EditsOf

\* A form writes the row that it loaded: the number of downloads goes back to it.
LEMMA CommitItemInv ==
  ASSUME CatalogueInv, NEW c \in Curator, SaveItem(c) \/ DeleteItem(c)
  PROVE  CatalogueInv'
<1>1. /\ editing[c] # NewItem /\ edits < MaxEdits /\ edits' = edits + 1
      /\ editing' = [editing EXCEPT ![c] = NewItem]
      /\ visit' = [u \in CatalogueUser |-> [visit[u] EXCEPT !.promised = FALSE]]
      /\ UNCHANGED <<events, crossed>> /\ permitted' \subseteq CatalogueUser
  BY DEF CatalogueInv, CatalogueTypeOK, SaveItem, DeleteItem, Committed
<1>2. /\ item' \in CatalogueItem /\ item'.downloads = editing[c].downloads
      /\ item'.kind = editing[c].kind
  <2>1. CASE SaveItem(c)
    BY <2>1, DownloadCountsAre, ItemEditsAre DEF SaveItem
  <2>2. CASE DeleteItem(c)
    <3>1. item' = [editing[c] EXCEPT !.deleted = TRUE]
      BY <2>2 DEF DeleteItem
    <3>2. editing[c] \in [kind : Kind \cup {"none"}, published : BOOLEAN, deleted : BOOLEAN,
                 access : AccessType, domains : BOOLEAN, reviewed : BOOLEAN,
                 downloads : 0 .. MaxDownloads]
      BY DownloadCountsAre DEF CatalogueItem
    <3> QED BY <3>1, <3>2 DEF CatalogueItem
  <2> QED BY <2>1, <2>2
<1>3. /\ visit' \in [CatalogueUser -> [pc : {"idle", "page", "check", "log", "count", "answered"},
                             promised : BOOLEAN, status : {0, 200, 403, 404}]]
      /\ \A u \in CatalogueUser : visit'[u].promised = FALSE /\ visit'[u].pc = visit[u].pc
  <2> DEFINE V == [pc : {"idle", "page", "check", "log", "count", "answered"},
                   promised : BOOLEAN, status : {0, 200, 403, 404}]
  <2>1. ASSUME NEW v \in V, NEW w, w = [v EXCEPT !.promised = FALSE]
        PROVE  w \in V /\ w.promised = FALSE /\ w.pc = v.pc
    <3>1. w = [pc |-> v.pc, promised |-> FALSE, status |-> v.status]
      BY <2>1
    <3>2. v.pc \in {"idle", "page", "check", "log", "count", "answered"} /\ v.status \in {0, 200, 403, 404}
      OBVIOUS
    <3> QED BY <3>1, <3>2
  <2>2. visit \in [CatalogueUser -> V]
    BY DEF CatalogueInv, CatalogueTypeOK
  <2>3. visit' = [u \in CatalogueUser |-> [visit[u] EXCEPT !.promised = FALSE]]
    BY <1>1
  <2> HIDE DEF V
  <2>4. ASSUME NEW u \in CatalogueUser
        PROVE  visit'[u] \in V /\ visit'[u].promised = FALSE /\ visit'[u].pc = visit[u].pc
    <3>1. visit[u] \in V
      BY <2>2
    <3>2. PICK w : w = [visit[u] EXCEPT !.promised = FALSE]
      OBVIOUS
    <3>3. visit'[u] = w
      BY <2>3, <3>2
    <3> QED BY <2>1, <3>1, <3>2, <3>3
  <2>5. visit' \in [CatalogueUser -> V]
    BY <2>3, <2>4
  <2>6. \A u \in CatalogueUser : visit'[u].promised = FALSE /\ visit'[u].pc = visit[u].pc
    BY <2>4
  <2>7. visit' \in [CatalogueUser -> [pc : {"idle", "page", "check", "log", "count", "answered"},
                                     promised : BOOLEAN, status : {0, 200, 403, 404}]]
    BY <2>5 DEF V
  <2> QED BY <2>6, <2>7
<1>4. Counting' = Counting
  BY <1>3 DEF Counting
<1>5. /\ editing' \in [Curator -> CatalogueItem]
      /\ \A d \in Curator : editing'[d] = IF d = c THEN NewItem ELSE editing[d]
      /\ NewItem.downloads = 0
  <2>1. NewItem \in CatalogueItem /\ NewItem.downloads = 0
    BY CatalogueAssumption DEF NewItem, CatalogueItem, AccessType
  <2> QED BY <1>1, <2>1 DEF CatalogueInv, CatalogueTypeOK
<1>6. edits' \in 0..MaxEdits
  BY <1>1, CatalogueAssumption DEF CatalogueInv, CatalogueTypeOK
<1>7. CatalogueTypeOK' /\ PromisesHold'
  BY <1>1, <1>2, <1>3, <1>5, <1>6 DEF CatalogueInv, CatalogueTypeOK, PromisesHold
<1>8. /\ editing[c].downloads + Cardinality(Counting) <= events
      /\ editing[c].kind # "none" /\ (crossed \/ editing[c].downloads = item.downloads)
  BY <1>1 DEF CatalogueInv, CountsHold
<1>9. DownloadsAreCounted'
  BY <1>1, <1>2, <1>4, <1>8 DEF CatalogueInv, DownloadsAreCounted
<1>10. Cardinality(Counting) <= events
  BY <1>8, DownloadCountsAre
<1>11. CountsHold'
  <2>1. \A d \in Curator :
          /\ editing[d].downloads + Cardinality(Counting) <= events
          /\ \/ editing[d] = NewItem
             \/ editing[d].kind # "none" /\ (crossed \/ editing[d].downloads = item.downloads)
    BY DEF CatalogueInv, CountsHold
  <2>2. 0 + Cardinality(Counting) <= events
    BY <1>10, DownloadCountsAre
  <2> QED BY <1>1, <1>2, <1>4, <1>5, <1>8, <2>1, <2>2 DEF CountsHold
<1> QED BY <1>7, <1>9, <1>11 DEF CatalogueInv

\* The strengthened invariant holds in every reachable state.
THEOREM CatalogueInvariance == CatalogueSpec => []CatalogueInv
<1>1. CatalogueInv /\ [CatalogueNext]_catalogueVars => CatalogueInv'
  <2> SUFFICES ASSUME CatalogueInv, [CatalogueNext]_catalogueVars PROVE CatalogueInv'
    OBVIOUS
  <2>1. CASE UNCHANGED catalogueVars
    BY <2>1 DEF catalogueVars, CatalogueInv, CatalogueTypeOK, PromisesHold, CountsHold, DownloadsAreCounted,
       Counting, Findable, HasPerm, UserHasAccess, Unrestricted, CanShowLink
  <2> QED BY <2>1, CreateItemInv, CataloguePagesInv, LogDownloadInv, CountDownloadInv, LoadItemInv, CommitItemInv
          DEF CatalogueNext
<1> QED BY <1>1, CatalogueInitInv, PTL DEF CatalogueSpec

(* The search and the pages promise no more than the views behind their links  *)
(* allow, and a download that meets no form of the admin site is counted       *)
(* (find_datasets, DatasetDetailView and the download views of datasets), for  *)
(* every number of people, of forms and of downloads.                          *)
THEOREM CatalogueIsSafe == CatalogueSpec => []CatalogueSafety
<1>1. CatalogueInv => CatalogueSafety
  <2> SUFFICES ASSUME CatalogueInv PROVE SearchIsTruthful /\ LinksWork
    BY DEF CatalogueInv, CatalogueSafety
  <2>1. SearchIsTruthful
    BY DEF SearchIsTruthful, MatchesFilters, SearchRow, DatasetMatchingQuery, VisualisationMatchingQuery,
       Findable, UserHasAccess
  <2>2. LinksWork
    BY DEF CatalogueInv, PromisesHold, LinksWork
  <2> QED BY <2>1, <2>2
<1> QED BY <1>1, CatalogueInvariance, PTL

(***************************************************************************)
(* Mirrors of packages: indexes, and the marker of PyPI.                   *)
(***************************************************************************)
LEMMA ItemKinds ==
  /\ \A p, n : <<p, n>> # IndexPage /\ <<p, n>> # DebianIndex /\ <<p, n>> # NoItem
  /\ IndexPage # DebianIndex /\ IndexPage # NoItem /\ DebianIndex # NoItem
  /\ NoWork.item = NoItem /\ NoWork.tries = 0 /\ NoWork.page = 0
  /\ NoWork.have = {} /\ NoWork.next = 0
<1>1. /\ Len(IndexPage) = 1 /\ Len(DebianIndex) = 1 /\ Len(NoItem) = 0
      /\ \A p, n : Len(<<p, n>>) = 2
  BY DEF IndexPage, DebianIndex, NoItem
<1>2. IndexPage[1] = "page" /\ DebianIndex[1] = "Packages"
  BY DEF IndexPage, DebianIndex
<1>3. IndexPage # DebianIndex
  BY <1>2
<1>4. /\ IndexPage # NoItem /\ DebianIndex # NoItem
      /\ \A p, n : <<p, n>> # IndexPage /\ <<p, n>> # DebianIndex /\ <<p, n>> # NoItem
  <2>1. IndexPage # NoItem /\ DebianIndex # NoItem
    BY <1>1
  <2>2. ASSUME NEW t, Len(t) = 2 PROVE t # IndexPage /\ t # DebianIndex /\ t # NoItem
    BY <1>1, <2>2
  <2>3. ASSUME NEW p, NEW n PROVE <<p, n>> # IndexPage /\ <<p, n>> # DebianIndex /\ <<p, n>> # NoItem
    <3>1. PICK t : t = <<p, n>>
      OBVIOUS
    <3>2. Len(t) = 2
      BY <3>1
    <3>3. t # IndexPage /\ t # DebianIndex /\ t # NoItem
      BY <2>2, <3>2
    <3> QED BY <3>1, <3>3
  <2> QED BY <2>1, <2>3
<1> QED BY <1>3, <1>4 DEF NoWork

LEMMA OrderIs == \A j \in 1..5 : Order[j] \in Repository
BY DEF Order, Repository

LEMMA HereIs ==
  ASSUME MirrorInv, run.at # 0
  PROVE  Here \in Repository
<1>1. run.at \in 1..5
  BY DEF MirrorInv, MirrorTypes, RunRow
<1> QED BY <1>1, OrderIs DEF Here

LEMMA FilesAre ==
  \A m : \A f : f \in Files(m) <=> f \in AnyFile /\ f[2] <= upstream[m][f[1]]
BY DEF Files, AnyFile

LEMMA NoWorkIsRow == NoWork \in WorkRow
BY MirrorAssumption DEF NoWork, WorkRow

\* What a worker and the run are.
LEMMA WorkIs ==
  ASSUME MirrorInv, NEW w \in SyncWorker
  PROVE  /\ working[w] \in WorkRow /\ Item(w) = working[w].item
         /\ Item(w) \in Items \cup {NoItem}
         /\ working[w].tries \in 0..(MaxTries - 1) /\ working[w].page \in 0..(MaxReleases + 1)
         /\ working[w].have \in SUBSET AnyFile /\ working[w].next \in Nat
         /\ working[w] = NoWork => Item(w) = NoItem
BY ItemKinds DEF MirrorInv, MirrorTypes, WorkRow, Item

LEMMA RunIs ==
  ASSUME MirrorInv
  PROVE  /\ run \in RunRow /\ run.at \in 0..5
         /\ run.phase \in {"stopped", "begin", "list", "bz2", "work", "index", "pack", "nltk"}
         /\ run.listed \in SUBSET AnyFile /\ run.existing \in SUBSET AnyFile
         /\ run.started \in Nat /\ (run.phase = "stopped" <=> run.at = 0)
         /\ run.started < second
         /\ run.at # 0 => /\ Here \in Repository
                          /\ run.listed \subseteq Files(Here) /\ run.existing \subseteq bucket[Here]
<1>1. run \in RunRow
  BY DEF MirrorInv, MirrorTypes
<1>2. /\ run.at \in 0..5
      /\ run.phase \in {"stopped", "begin", "list", "bz2", "work", "index", "pack", "nltk"}
      /\ run.listed \in SUBSET AnyFile /\ run.existing \in SUBSET AnyFile
      /\ run.started \in Nat
  BY <1>1 DEF RunRow
<1> QED BY <1>1, <1>2, HereIs DEF MirrorInv, MirrorTypes

LEMMA MirrorInitInv == MirrorInit => MirrorInv
<1> SUFFICES ASSUME MirrorInit PROVE MirrorInv
  OBVIOUS
<1>1. /\ Quiescent \in RunRow /\ Quiescent.at = 0 /\ Quiescent.phase = "stopped"
      /\ Quiescent.started = 0
  BY DEF Quiescent, RunRow
<1>2. /\ run = Quiescent /\ queue = {} /\ done = {} /\ lost = {} /\ marker = 0 /\ second = 2
      /\ working = [w \in SyncWorker |-> NoWork] /\ enabled = {}
      /\ bucket = [m \in Repository |-> {}] /\ index = [m \in Repository |-> {}]
      /\ upstream = [m \in Repository |-> [p \in Package |-> 1]]
      /\ releasedAt = [p \in Package |-> [n \in 1..(MaxReleases + 1) |-> 1]]
  BY DEF MirrorInit
<1>3. MirrorTypes
  BY <1>1, <1>2, NoWorkIsRow, MirrorAssumption DEF MirrorTypes
<1>4. PhasesAre
  BY <1>1, <1>2 DEF PhasesAre
<1>5. ItemsAre /\ FilesArrive /\ ProjectsAre /\ MarkerIsPassed
  BY <1>1, <1>2 DEF ItemsAre, FilesArrive, ProjectsAre, MarkerIsPassed
<1>6. IndexLinksExist
  BY <1>2 DEF IndexLinksExist
<1>7. MarkerMissesNothing
  <2> SUFFICES ASSUME NEW p \in Package, NEW n \in 1..upstream["pypi"][p]
               PROVE  ~ releasedAt[p][n] <= marker
    BY DEF MarkerMissesNothing
  <2>1. "pypi" \in Repository /\ upstream["pypi"][p] = 1
    BY <1>2 DEF Repository
  <2>2. n \in 1..(MaxReleases + 1)
    BY <2>1, MirrorAssumption
  <2> QED BY <1>2, <2>2
<1> QED BY <1>3, <1>4, <1>5, <1>6, <1>7 DEF MirrorInv

(***************************************************************************)
(* The task rests, or begins with the next mirror.                         *)
(***************************************************************************)
LEMMA AdvanceRun ==
  ASSUME NEW i \in 0..5, Advance(i)
  PROVE  /\ run' \in RunRow /\ run'.phase \in {"stopped", "begin"}
         /\ (run'.phase = "stopped" <=> run'.at = 0) /\ run'.started = 0
         /\ run'.listed = {} /\ run'.existing = {}
<1>1. CASE run' = Quiescent
  BY <1>1 DEF Quiescent, RunRow
<1>2. CASE \E j \in After(i) : RunAt(j, "begin", {}, {}, 0)
  <2>1. PICK j \in After(i) : RunAt(j, "begin", {}, {}, 0)
    BY <1>2
  <2>2. j \in 1..5
    BY <2>1 DEF After
  <2>3. run' = [at |-> j, phase |-> "begin", listed |-> {}, existing |-> {}, started |-> 0]
    BY <2>1 DEF RunAt
  <2> QED BY <2>2, <2>3 DEF RunRow
<1> QED BY <1>1, <1>2 DEF Advance

\* Nobody has anything to do, and what the bucket promises holds.
LEMMA RestInv ==
  ASSUME MirrorInv, run' \in RunRow, run'.phase \in {"stopped", "begin"},
         (run'.phase = "stopped" <=> run'.at = 0), run'.started = 0,
         run'.listed = {}, run'.existing = {}, queue' = {}, done' = {},
         working' = [w \in SyncWorker |-> NoWork], enabled' \subseteq Repository,
         UNCHANGED <<upstream, releasedAt, second, bucket>>,
         index' \in [Repository -> SUBSET AnyFile],
         \A m \in Repository : index'[m] \subseteq Files(m),
         marker' \in Nat, marker' < second, IndexLinksExist', MarkerMissesNothing'
  PROVE  MirrorInv'
<1>1. MirrorTypes'
  <2>1. \A m \in Repository : bucket'[m] \subseteq Files(m)' /\ index'[m] \subseteq Files(m)'
    BY DEF MirrorInv, MirrorTypes, Files
  <2>2. /\ upstream' \in [Repository -> [Package -> 1..(MaxReleases + 1)]]
        /\ releasedAt' \in [Package -> [1..(MaxReleases + 1) -> Nat]]
        /\ bucket' \in [Repository -> SUBSET AnyFile] /\ second' \in Nat
    BY DEF MirrorInv, MirrorTypes
  <2>3. working' \in [SyncWorker -> WorkRow]
    BY NoWorkIsRow
  <2>4. run'.started < second' /\ marker' < second'
    BY <2>2
  <2>5. run'.listed \subseteq (Files(Here))' /\ run'.existing \subseteq (bucket[Here])'
    OBVIOUS
  <2> QED BY <2>1, <2>2, <2>3, <2>4, <2>5 DEF MirrorTypes
<1>2. PhasesAre'
  BY DEF PhasesAre
<1>3. ItemsAre' /\ FilesArrive' /\ ProjectsAre' /\ MarkerIsPassed'
  BY DEF ItemsAre, FilesArrive, ProjectsAre, MarkerIsPassed
<1> QED BY <1>1, <1>2, <1>3 DEF MirrorInv

LEMMA BodyEndsInv ==
  ASSUME MirrorInv, StartTask \/ Signal \/ BodyFails
  PROVE  MirrorInv'
<1>1. /\ queue' = {} /\ done' = {} /\ working' = [w \in SyncWorker |-> NoWork]
      /\ run' \in RunRow /\ run'.phase \in {"stopped", "begin"}
      /\ (run'.phase = "stopped" <=> run'.at = 0) /\ run'.started = 0
      /\ run'.listed = {} /\ run'.existing = {} /\ enabled' \subseteq Repository
  <2>1. CASE StartTask
    <3>1. run.phase = "stopped" /\ Advance(0)
      BY <2>1 DEF StartTask
    <3>2. queue' = {} /\ done' = {} /\ \A w \in SyncWorker : working'[w] = NoWork
      BY <2>1, <3>1 DEF StartTask, MirrorInv, PhasesAre
    <3>3. working' \in [SyncWorker -> WorkRow]
      BY <2>1 DEF StartTask, MirrorInv, MirrorTypes
    <3>4. working' = [w \in SyncWorker |-> NoWork]
      BY <3>2, <3>3
    <3>5. enabled' \subseteq Repository
      BY <2>1, MirrorAssumption DEF StartTask, MirrorInv, MirrorTypes, Repository
    <3> QED BY <3>1, <3>2, <3>4, <3>5, AdvanceRun
  <2>2. CASE Signal \/ BodyFails
    <3>1. EndTask /\ enabled' = enabled
      BY <2>2 DEF Signal, BodyFails, fixedVars
    <3>2. run' = Quiescent /\ queue' = {} /\ done' = {} /\ working' = [w \in SyncWorker |-> NoWork]
      BY <3>1 DEF EndTask
    <3>3. enabled' \subseteq Repository
      BY <3>1 DEF MirrorInv, MirrorTypes
    <3> QED BY <3>2, <3>3 DEF Quiescent, RunRow
  <2> QED BY <2>1, <2>2
<1>2. UNCHANGED <<upstream, releasedAt, second, bucket, index, marker, lost>>
  BY DEF StartTask, Signal, BodyFails, fixedVars
<1>3. /\ index' \in [Repository -> SUBSET AnyFile] /\ marker' \in Nat /\ marker' < second
      /\ \A m \in Repository : index'[m] \subseteq Files(m)
  BY <1>2 DEF MirrorInv, MirrorTypes
<1>4. IndexLinksExist' /\ MarkerMissesNothing'
  BY <1>2 DEF MirrorInv, IndexLinksExist, MarkerMissesNothing
<1> QED BY <1>1, <1>2, <1>3, <1>4, RestInv

(***************************************************************************)
(* Time passes, and files are released.                                    *)
(***************************************************************************)
LEMMA SecondInv ==
  ASSUME MirrorInv, Second
  PROVE  MirrorInv'
<1>1. /\ second' = second + 1 /\ second' \in Nat /\ second \in Nat
      /\ UNCHANGED <<upstream, releasedAt, bucket, index, marker, run, queue,
                     done, working, lost, mirrorFaults, runs, enabled>>
  BY DEF Second, MirrorInv, MirrorTypes
<1>2. MirrorTypes'
  <2>1. \A m \in Repository : Files(m)' = Files(m)
    BY <1>1 DEF Files
  <2>2. marker' < second' /\ run'.started < second' /\ marker' \in Nat
    BY <1>1, RunIs DEF MirrorInv, MirrorTypes
  <2>3. run'.at # 0 => run'.listed \subseteq (Files(Here))' /\ run'.existing \subseteq (bucket[Here])'
    BY <1>1, RunIs DEF Files, Here
  <2> QED BY <1>1, <2>1, <2>2, <2>3 DEF MirrorInv, MirrorTypes
<1>3. PhasesAre'
  BY <1>1 DEF MirrorInv, PhasesAre, Here
<1>4. ItemsAre'
  BY <1>1 DEF MirrorInv, ItemsAre, ItemsOf, Files, Item, Here
<1>5. FilesArrive'
  BY <1>1 DEF MirrorInv, FilesArrive, Waits, Arrived, PageLost, Item, Here
<1>6. ProjectsAre'
  BY <1>1 DEF MirrorInv, ProjectsAre, PypiProject, Arrived, Item, Here
<1>7. MarkerIsPassed'
  BY <1>1 DEF MirrorInv, MarkerIsPassed, Known, Waits, Item, Here
<1>8. IndexLinksExist'
  BY <1>1 DEF MirrorInv, IndexLinksExist
<1>9. MarkerMissesNothing'
  BY <1>1 DEF MirrorInv, MarkerMissesNothing
<1> QED BY <1>2, <1>3, <1>4, <1>5, <1>6, <1>7, <1>8, <1>9 DEF MirrorInv

LEMMA ReleaseInv ==
  ASSUME MirrorInv, NEW m \in Repository, NEW p \in Package, Release(m, p)
  PROVE  MirrorInv'
<1>1. PICK n : n = upstream[m][p] + 1
  OBVIOUS
<1>2. /\ upstream \in [Repository -> [Package -> 1..(MaxReleases + 1)]]
      /\ releasedAt \in [Package -> [1..(MaxReleases + 1) -> Nat]]
      /\ second \in Nat /\ marker \in Nat /\ marker < second /\ run.started \in Nat
      /\ run.started < second /\ MaxReleases \in Nat
  BY RunIs, MirrorAssumption DEF MirrorInv, MirrorTypes
<1>3. /\ n <= MaxReleases + 1 /\ upstream' = [upstream EXCEPT ![m][p] = n]
      /\ releasedAt' = IF m = "pypi" THEN [releasedAt EXCEPT ![p][n] = second] ELSE releasedAt
      /\ UNCHANGED <<bucket, index, marker, second, run, queue, done, working, lost,
                     mirrorFaults, runs, enabled>>
  BY <1>1 DEF Release
<1>4. n \in 1..(MaxReleases + 1) /\ upstream[m][p] \in Nat
  BY <1>1, <1>2, <1>3
<1>5. PICK row : row = [upstream[m] EXCEPT ![p] = n]
  OBVIOUS
<1>6. row \in [Package -> 1..(MaxReleases + 1)] /\ row[p] = n /\ \A q \in Package \ {p} : row[q] = upstream[m][q]
  BY <1>2, <1>4, <1>5
<1>7. upstream' = [upstream EXCEPT ![m] = row]
  BY <1>3, <1>5
<1>8. /\ upstream' \in [Repository -> [Package -> 1..(MaxReleases + 1)]]
      /\ \A k \in Repository, q \in Package :
           upstream[k][q] <= upstream'[k][q] /\ upstream[k][q] \in Nat /\ upstream'[k][q] \in Nat
  <2>1. /\ upstream' \in [Repository -> [Package -> 1..(MaxReleases + 1)]]
        /\ upstream'[m] = row /\ \A k \in Repository : k # m => upstream'[k] = upstream[k]
    BY <1>2, <1>6, <1>7
  <2>2. ASSUME NEW k \in Repository, NEW q \in Package
        PROVE  upstream[k][q] <= upstream'[k][q] /\ upstream[k][q] \in Nat /\ upstream'[k][q] \in Nat
    <3>1. upstream[k][q] \in 1..(MaxReleases + 1)
      BY <1>2
    <3>2. upstream'[k][q] = upstream[k][q] \/ (k = m /\ q = p /\ upstream'[k][q] = n)
      BY <1>6, <2>1
    <3>3. MaxReleases + 1 \in Nat
      BY <1>2
    <3>4. upstream[k][q] \in Nat
      BY <3>1, <3>3
    <3>5. n \in Nat /\ upstream[m][p] <= n
      BY <1>1, <1>4, <3>3
    <3> QED BY <3>2, <3>4, <3>5
  <2> QED BY <2>1, <2>2
<1>9. /\ releasedAt' \in [Package -> [1..(MaxReleases + 1) -> Nat]]
      /\ \A q \in Package : \A i \in 1..upstream'["pypi"][q] :
           \/ i \in 1..upstream["pypi"][q] /\ releasedAt'[q][i] = releasedAt[q][i]
           \/ releasedAt'[q][i] = second /\ i > upstream["pypi"][q]
  <2>1. CASE m = "pypi"
    <3>1. PICK times : times = [releasedAt[p] EXCEPT ![n] = second]
      OBVIOUS
    <3>2. /\ times \in [1..(MaxReleases + 1) -> Nat] /\ times[n] = second
          /\ \A i \in 1..(MaxReleases + 1) : i # n => times[i] = releasedAt[p][i]
      BY <1>2, <1>4, <3>1
    <3>3. releasedAt' = [releasedAt EXCEPT ![p] = times]
      BY <1>3, <2>1, <3>1
    <3>4. releasedAt' \in [Package -> [1..(MaxReleases + 1) -> Nat]]
      BY <1>2, <3>2, <3>3
    <3> SUFFICES ASSUME NEW q \in Package, NEW i \in 1..upstream'["pypi"][q]
                 PROVE  \/ i \in 1..upstream["pypi"][q] /\ releasedAt'[q][i] = releasedAt[q][i]
                        \/ releasedAt'[q][i] = second /\ i > upstream["pypi"][q]
      BY <3>4
    <3>5. "pypi" \in Repository /\ i \in 1..(MaxReleases + 1) /\ i \in Nat
      <4>1. "pypi" \in Repository
        BY DEF Repository
      <4>2. upstream'["pypi"][q] \in 1..(MaxReleases + 1)
        BY <1>8, <4>1
      <4> QED BY <1>2, <4>1, <4>2
    <3>6. CASE q # p
      <4>1. upstream'["pypi"][q] = upstream["pypi"][q] /\ releasedAt'[q] = releasedAt[q]
        BY <1>2, <1>6, <1>7, <2>1, <3>3, <3>6
      <4> QED BY <4>1
    <3>7. CASE q = p
      <4>1. upstream'["pypi"][q] = n /\ releasedAt'[q] = times
        BY <1>2, <1>6, <1>7, <2>1, <3>3, <3>7
      <4>2. n = upstream["pypi"][q] + 1 /\ upstream["pypi"][q] \in Nat
        BY <1>1, <1>4, <2>1, <3>7
      <4>3. i \in 1..n
        BY <4>1
      <4>4. CASE i = n
        BY <1>4, <3>2, <4>1, <4>2, <4>4
      <4>5. CASE i # n
        <5>1. i \in 1..upstream["pypi"][q]
          BY <1>4, <3>5, <4>2, <4>3, <4>5
        <5>2. releasedAt'[q][i] = releasedAt[q][i]
          BY <3>2, <3>5, <3>7, <4>1, <4>5
        <5> QED BY <5>1, <5>2
      <4> QED BY <4>4, <4>5
    <3> QED BY <3>6, <3>7
  <2>2. CASE m # "pypi"
    <3>1. upstream'["pypi"] = upstream["pypi"] /\ releasedAt' = releasedAt
      BY <1>2, <1>3, <1>7, <2>2 DEF Repository
    <3> QED BY <1>2, <3>1
  <2> QED BY <2>1, <2>2
<1>10. \A k \in Repository : Files(k) \subseteq Files(k)'
  <2> SUFFICES ASSUME NEW k \in Repository, NEW f \in Files(k)
               PROVE  f \in Files(k)'
    OBVIOUS
  <2>1. f \in AnyFile /\ f[1] \in Package /\ f[2] \in Nat /\ f[2] <= upstream[k][f[1]]
    BY MirrorAssumption DEF Files, AnyFile
  <2>2. f[2] <= upstream'[k][f[1]]
    BY <1>8, <2>1
  <2> QED BY <2>1, <2>2 DEF Files, AnyFile
<1>11. /\ Here' = Here /\ \A w : Item(w)' = Item(w) /\ PypiProject(w)' = PypiProject(w)
       /\ \A i : Waits(i)' <=> Waits(i)
       /\ \A k, f : Arrived(k, f)' <=> Arrived(k, f)
       /\ \A k : PageLost(k)' <=> PageLost(k)
       /\ \A q, i : Known(q, i)' <=> Known(q, i)
  BY <1>3 DEF Here, Item, PypiProject, Waits, Arrived, PageLost, Known
<1>12. MirrorTypes'
  <2>1. \A k \in Repository : bucket'[k] \subseteq Files(k)' /\ index'[k] \subseteq Files(k)'
    BY <1>3, <1>10 DEF MirrorInv, MirrorTypes
  <2>2. run'.at # 0 => run'.listed \subseteq (Files(Here))' /\ run'.existing \subseteq (bucket[Here])'
    BY <1>3, <1>10, <1>11, RunIs DEF Files
  <2> QED BY <1>2, <1>3, <1>8, <1>9, <2>1, <2>2 DEF MirrorInv, MirrorTypes
<1>13. PhasesAre'
  BY <1>3, <1>11 DEF MirrorInv, PhasesAre
<1>14. ItemsAre'
  <2> SUFFICES ASSUME run.phase = "work" PROVE ItemsAre'
    BY <1>3 DEF ItemsAre
  <2>1. ItemsOf(Here) \subseteq (ItemsOf(Here))'
    <3>1. Here \in Repository
      BY RunIs
    <3>2. Files(Here) \subseteq (Files(Here))'
      BY <1>10, <1>11, <3>1 DEF Files
    <3> QED BY <1>11, <3>2 DEF ItemsOf
  <2> QED BY <1>3, <1>11, <2>1 DEF MirrorInv, ItemsAre
<1>15. FilesArrive'
  BY <1>3, <1>11 DEF MirrorInv, FilesArrive
<1>16. ProjectsAre'
  <2> SUFFICES ASSUME run.phase = "work", Here = "pypi", NEW w \in SyncWorker,
                      working[w] # NoWork, working[w].page > 0
               PROVE  /\ working[w].next > 0 /\ working[w].next <= working[w].page + 1
                      /\ working[w].page <= upstream'["pypi"][PypiProject(w)]
                      /\ working[w].have \subseteq bucket["pypi"]
                      /\ \A i \in 1..(working[w].next - 1) : Arrived("pypi", <<PypiProject(w), i>>)
                      /\ \A i \in 1..upstream'["pypi"][PypiProject(w)] :
                           i > working[w].page => releasedAt'[PypiProject(w)][i] > run.started
    BY <1>3, <1>11 DEF ProjectsAre
  <2>1. /\ working[w].next > 0 /\ working[w].next <= working[w].page + 1
        /\ working[w].page <= upstream["pypi"][PypiProject(w)]
        /\ working[w].have \subseteq bucket["pypi"]
        /\ \A i \in 1..(working[w].next - 1) : Arrived("pypi", <<PypiProject(w), i>>)
        /\ \A i \in 1..upstream["pypi"][PypiProject(w)] :
             i > working[w].page => releasedAt[PypiProject(w)][i] > run.started
    BY DEF MirrorInv, ProjectsAre
  <2>2. "pypi" \in Repository /\ PypiProject(w) \in Package
    <3>1. Item(w) \in Package \X {0}
      BY DEF MirrorInv, ItemsAre, ItemsOf
    <3> QED BY <3>1 DEF PypiProject, Repository
  <2>3. working[w].page <= upstream'["pypi"][PypiProject(w)]
    BY <1>8, <2>1, <2>2, WorkIs
  <2>4. \A i \in 1..upstream'["pypi"][PypiProject(w)] :
           i > working[w].page => releasedAt'[PypiProject(w)][i] > run.started
    BY <1>2, <1>9, <2>1, <2>2
  <2> QED BY <2>1, <2>3, <2>4
<1>17. MarkerIsPassed'
  <2> SUFFICES ASSUME run.phase \in {"work", "index"}, Here = "pypi"
               PROVE  /\ marker <= run.started
                      /\ \A q \in Package : \A i \in 1..upstream'["pypi"][q] :
                           releasedAt'[q][i] <= run.started => Known(q, i) \/ Waits(<<q, 0>>)
    BY <1>3, <1>11 DEF MarkerIsPassed
  <2>1. marker <= run.started
    BY DEF MirrorInv, MarkerIsPassed
  <2>2. \A q \in Package : \A i \in 1..upstream["pypi"][q] :
          releasedAt[q][i] <= run.started => Known(q, i) \/ Waits(<<q, 0>>)
    BY DEF MirrorInv, MarkerIsPassed
  <2>3. ASSUME NEW q \in Package, NEW i \in 1..upstream'["pypi"][q], releasedAt'[q][i] <= run.started
        PROVE  Known(q, i) \/ Waits(<<q, 0>>)
    <3>1. ~ second <= run.started
      BY <1>2
    <3>2. i \in 1..upstream["pypi"][q] /\ releasedAt'[q][i] = releasedAt[q][i]
      BY <1>9, <2>3, <3>1
    <3> QED BY <2>2, <2>3, <3>2
  <2> QED BY <2>1, <2>3
<1>18. IndexLinksExist'
  BY <1>3 DEF MirrorInv, IndexLinksExist
<1>19. MarkerMissesNothing'
  <2>1. \A q \in Package : \A i \in 1..upstream["pypi"][q] :
          releasedAt[q][i] <= marker => <<q, i>> \in index["pypi"] \/ <<"pypi", <<q, 0>> >> \in lost
    BY DEF MirrorInv, MarkerMissesNothing
  <2>2. \A q \in Package : \A i \in 1..upstream'["pypi"][q] :
          releasedAt'[q][i] <= marker => <<q, i>> \in index["pypi"] \/ <<"pypi", <<q, 0>> >> \in lost
    <3> SUFFICES ASSUME NEW q \in Package, NEW i \in 1..upstream'["pypi"][q], releasedAt'[q][i] <= marker
                 PROVE  <<q, i>> \in index["pypi"] \/ <<"pypi", <<q, 0>> >> \in lost
      OBVIOUS
    <3>1. ~ second <= marker
      BY <1>2
    <3>2. i \in 1..upstream["pypi"][q] /\ releasedAt'[q][i] = releasedAt[q][i]
      BY <1>9, <3>1
    <3> QED BY <2>1, <3>2
  <2> QED BY <1>3, <2>2 DEF MarkerMissesNothing
<1> QED BY <1>12, <1>13, <1>14, <1>15, <1>16, <1>17, <1>18, <1>19 DEF MirrorInv

(***************************************************************************)
(* The body of a mirror function, with no worker at work.                  *)
(***************************************************************************)
LEMMA StillInv ==
  ASSUME MirrorInv, \A w \in SyncWorker : working[w] = NoWork,
         UNCHANGED <<upstream, releasedAt, second, enabled, index, marker, working, lost>>,
         run' \in RunRow, run.at # 0, run'.at = run.at, run'.phase # "stopped",
         run'.started < second, run'.listed \subseteq Files(Here),
         bucket' \in [Repository -> SUBSET AnyFile],
         \A m \in Repository : bucket[m] \subseteq bucket'[m] /\ bucket'[m] \subseteq Files(m),
         run'.existing \subseteq bucket'[Here],
         PhasesAre', ItemsAre', FilesArrive', MarkerIsPassed'
  PROVE  MirrorInv'
<1>1. Here' = Here /\ \A m : Files(m)' = Files(m)
  BY DEF Here, Files
<1>2. MirrorTypes'
  <2>1. \A m \in Repository : bucket'[m] \subseteq Files(m)' /\ index'[m] \subseteq Files(m)'
    BY <1>1 DEF MirrorInv, MirrorTypes
  <2>2. run'.listed \subseteq (Files(Here))' /\ run'.existing \subseteq (bucket[Here])'
    BY <1>1 DEF Files
  <2> QED BY <2>1, <2>2 DEF MirrorInv, MirrorTypes
<1>3. ProjectsAre'
  BY DEF ProjectsAre
<1>4. IndexLinksExist'
  BY DEF MirrorInv, IndexLinksExist
<1>5. MarkerMissesNothing'
  BY DEF MirrorInv, MarkerMissesNothing
<1> QED BY <1>2, <1>3, <1>4, <1>5 DEF MirrorInv

LEMMA RunAtIs ==
  ASSUME NEW i, NEW phase, NEW listed, NEW existing, NEW started,
         RunAt(i, phase, listed, existing, started)
  PROVE  /\ run' = [at |-> i, phase |-> phase, listed |-> listed, existing |-> existing,
                    started |-> started]
         /\ run'.at = i /\ run'.phase = phase /\ run'.listed = listed
         /\ run'.existing = existing /\ run'.started = started
BY DEF RunAt

\* Before the workers start.
LEMMA BeforeWork ==
  ASSUME MirrorInv, run.phase # "work"
  PROVE  /\ done = {} /\ \A w \in SyncWorker : working[w] = NoWork
         /\ run.phase \notin {"list", "bz2"} => queue = {}
         /\ run.phase = "list" => Here \in {"conda", "cran"} /\ queue = IF Here = "cran" THEN {IndexPage} ELSE {}
BY DEF MirrorInv, PhasesAre

LEMMA FetchIndexInv ==
  ASSUME MirrorInv, FetchIndex
  PROVE  MirrorInv'
<1>1. PICK phase : phase = CASE Here = "cran" -> "list" [] Here = "conda" -> "bz2"
                             [] Here = "nltk" -> "nltk" [] OTHER -> "work"
  OBVIOUS
<1>2. /\ run.phase \in {"begin", "list"} /\ Here # "debian"
      /\ RunAt(run.at, phase, Files(Here), run.existing, Started)
      /\ queue' = FirstQueue
      /\ UNCHANGED <<upstream, releasedAt, second, enabled, bucket, index, marker, done, working, lost>>
  BY <1>1 DEF FetchIndex, fixedVars
<1>3. /\ run.at \in 0..5 /\ run.at # 0 /\ Here \in Repository
      /\ run.existing \in SUBSET AnyFile /\ run.existing \subseteq bucket[Here]
  BY <1>2, RunIs
<1>4. done = {} /\ \A w \in SyncWorker : working[w] = NoWork
  BY <1>2, BeforeWork
<1>5. /\ run'.at = run.at /\ run'.phase = phase /\ run'.listed = Files(Here)
      /\ run'.existing = run.existing /\ run'.started = Started
  BY <1>2, RunAtIs
<1>6. Started \in Nat /\ Started < second /\ marker <= Started /\ marker \in Nat
  BY DEF MirrorInv, MirrorTypes, Started
<1>7. phase \in {"list", "bz2", "nltk", "work"} /\ Files(Here) \in SUBSET AnyFile
  BY <1>1 DEF Files, AnyFile
<1>8. run' \in RunRow
  BY <1>2, <1>3, <1>6, <1>7, RunAtIs DEF RunRow
<1>9. Here' = Here /\ \A m : Files(m)' = Files(m) /\ \A w \in SyncWorker : working'[w] = NoWork
  BY <1>2, <1>4, <1>5 DEF Here, Files
<1>10. Here \in {"conda", "cran", "pypi", "nltk"}
  BY <1>2, <1>3 DEF Repository
<1>11. /\ Here = "conda" => queue' = Files("conda")
       /\ Here = "cran" => queue' = {IndexPage}
       /\ Here = "pypi" => queue' = {<<p, 0>> : p \in ChangedSince(marker)}
       /\ Here = "nltk" => queue' = {}
  BY <1>2, <1>10 DEF FirstQueue, Crawled
<1>12. PhasesAre'
  BY <1>1, <1>2, <1>4, <1>5, <1>9, <1>10, <1>11 DEF PhasesAre
<1>13. ItemsAre'
  <2>1. queue' \subseteq (ItemsOf(Here))'
    <3>1. CASE Here = "pypi"
      <4>1. ChangedSince(marker) \subseteq Package
        BY DEF ChangedSince
      <4> QED BY <1>9, <1>11, <3>1, <4>1 DEF ItemsOf
    <3>2. CASE Here # "pypi"
      BY <1>9, <1>10, <1>11, <3>2 DEF ItemsOf, Crawled
    <3> QED BY <3>1, <3>2
  <2>2. IF Here' \in Crawled THEN queue' \subseteq done' \cup {IndexPage} ELSE done' = {}
    BY <1>2, <1>4, <1>9, <1>10, <1>11 DEF Crawled
  <2> QED BY <1>9, <2>1, <2>2 DEF ItemsAre
<1>14. FilesArrive'
  BY <1>1, <1>5, <1>9, <1>10, <1>11 DEF FilesArrive, Waits
<1>15. MarkerIsPassed'
  <2> SUFFICES ASSUME Here = "pypi", NEW p \in Package, NEW n \in 1..upstream["pypi"][p],
                      releasedAt[p][n] <= Started
               PROVE  Known(p, n) \/ <<p, 0>> \in queue'
    BY <1>2, <1>5, <1>6, <1>9 DEF MarkerIsPassed, Waits, Known
  <2>1. CASE p \in ChangedSince(marker)
    BY <1>11, <2>1
  <2>2. CASE p \notin ChangedSince(marker)
    <3>1. ~ releasedAt[p][n] > marker
      BY <2>2 DEF ChangedSince
    <3>2. releasedAt[p][n] \in Nat
      <4>1. "pypi" \in Repository
        BY DEF Repository
      <4>2. upstream["pypi"][p] \in 1..(MaxReleases + 1)
        BY <4>1 DEF MirrorInv, MirrorTypes
      <4>3. n \in 1..(MaxReleases + 1)
        BY <4>2, MirrorAssumption
      <4> QED BY <4>3 DEF MirrorInv, MirrorTypes
    <3> QED BY <1>6, <3>1, <3>2 DEF MirrorInv, MarkerMissesNothing, Known
  <2> QED BY <2>1, <2>2
<1>16. /\ bucket' \in [Repository -> SUBSET AnyFile]
       /\ \A m \in Repository : bucket[m] \subseteq bucket'[m] /\ bucket'[m] \subseteq Files(m)
  BY <1>2 DEF MirrorInv, MirrorTypes
<1>17. /\ run'.phase # "stopped" /\ run'.started < second /\ run'.listed \subseteq Files(Here)
       /\ run'.existing \subseteq bucket'[Here]
  BY <1>2, <1>3, <1>5, <1>6, <1>7
<1> QED BY <1>2, <1>3, <1>4, <1>5, <1>8, <1>12, <1>13, <1>14, <1>15, <1>16, <1>17, StillInv

LEMMA ListBucketInv ==
  ASSUME MirrorInv, ListBucket
  PROVE  MirrorInv'
<1>1. PICK phase : phase = IF Here = "conda" THEN "list" ELSE "work"
  OBVIOUS
<1>2. /\ run.phase \in {"begin", "list"}
      /\ RunAt(run.at, phase, run.listed, bucket[Here], run.started)
      /\ queue' = IF Here = "debian" THEN FirstQueue ELSE queue
      /\ UNCHANGED <<upstream, releasedAt, second, enabled, bucket, index, marker, done, working, lost>>
  BY <1>1 DEF ListBucket, fixedVars
<1>3. /\ run.at \in 0..5 /\ run.at # 0 /\ Here \in Repository /\ run.listed \in SUBSET AnyFile
      /\ run.listed \subseteq Files(Here) /\ run.started \in Nat /\ run.started < second
  BY <1>2, RunIs
<1>4. /\ done = {} /\ \A w \in SyncWorker : working[w] = NoWork
      /\ run.phase = "begin" => queue = {}
      /\ run.phase = "list" => queue = IF Here = "cran" THEN {IndexPage} ELSE {}
  BY <1>2, BeforeWork
<1>5. /\ run'.at = run.at /\ run'.phase = phase /\ run'.listed = run.listed
      /\ run'.existing = bucket[Here] /\ run'.started = run.started
  BY <1>2, RunAtIs
<1>6. phase \in {"list", "work"} /\ bucket[Here] \in SUBSET AnyFile
  BY <1>1, <1>3 DEF MirrorInv, MirrorTypes
<1>7. run' \in RunRow
  BY <1>2, <1>3, <1>6, RunAtIs DEF RunRow
<1>8. Here' = Here /\ \A m : Files(m)' = Files(m) /\ \A w \in SyncWorker : working'[w] = NoWork
  BY <1>2, <1>4, <1>5 DEF Here, Files
<1>9. /\ Here = "cran" => run.phase = "list"
      /\ Here \in {"conda", "debian"} => run.phase = "begin"
      /\ Here \in {"conda", "cran", "debian"}
  BY DEF ListBucket
<1>10. Here = "conda" => queue' = {}
  BY <1>2, <1>4, <1>9
<1>11. Here = "cran" => queue' = {IndexPage}
  BY <1>2, <1>4, <1>9
<1>12. Here = "debian" => queue' = {IndexPage}
  BY <1>2 DEF FirstQueue, Crawled
<1>13. PhasesAre'
  BY <1>1, <1>2, <1>4, <1>5, <1>8, <1>9, <1>10, <1>11, <1>12 DEF PhasesAre
<1>14. ItemsAre'
  <2>1. queue' \subseteq (ItemsOf(Here))'
    BY <1>8, <1>9, <1>10, <1>11, <1>12 DEF ItemsOf, Crawled
  <2>2. IF Here' \in Crawled THEN queue' \subseteq done' \cup {IndexPage} ELSE done' = {}
    BY <1>2, <1>4, <1>8, <1>9, <1>11, <1>12 DEF Crawled
  <2> QED BY <1>8, <2>1, <2>2 DEF ItemsAre
<1>15. FilesArrive'
  BY <1>1, <1>2, <1>4, <1>5, <1>8, <1>9, <1>11 DEF FilesArrive, Waits
<1>16. MarkerIsPassed'
  BY <1>8, <1>9 DEF MarkerIsPassed
<1>17. /\ bucket' \in [Repository -> SUBSET AnyFile]
       /\ \A m \in Repository : bucket[m] \subseteq bucket'[m] /\ bucket'[m] \subseteq Files(m)
  BY <1>2 DEF MirrorInv, MirrorTypes
<1>18. /\ run'.phase # "stopped" /\ run'.started < second /\ run'.listed \subseteq Files(Here)
       /\ run'.existing \subseteq bucket'[Here]
  BY <1>2, <1>3, <1>5, <1>6
<1> QED BY <1>2, <1>3, <1>4, <1>5, <1>7, <1>13, <1>14, <1>15, <1>16, <1>17, <1>18, StillInv

LEMMA JoinInv ==
  ASSUME MirrorInv, Join
  PROVE  MirrorInv'
<1>1. /\ run.phase = "work" /\ queue = {} /\ \A w \in SyncWorker : working[w] = NoWork
      /\ done' = {}
      /\ IF Here = "debian" THEN Advance(run.at)
         ELSE RunAt(run.at, "index", run.listed, run.existing, run.started)
      /\ UNCHANGED <<upstream, releasedAt, second, enabled, bucket, index, marker, queue,
                     working, lost>>
  BY DEF Join, fixedVars
<1>2. /\ run.at \in 0..5 /\ run.at # 0 /\ Here \in Repository /\ run.listed \in SUBSET AnyFile
      /\ run.existing \in SUBSET AnyFile
      /\ run.listed \subseteq Files(Here) /\ run.started \in Nat /\ run.started < second
      /\ run.existing \subseteq bucket[Here]
  BY <1>1, RunIs
<1>3. /\ index' \in [Repository -> SUBSET AnyFile] /\ marker' \in Nat /\ marker' < second
      /\ \A m \in Repository : index'[m] \subseteq Files(m)
      /\ enabled' \subseteq Repository
      /\ bucket' \in [Repository -> SUBSET AnyFile]
      /\ \A m \in Repository : bucket[m] \subseteq bucket'[m] /\ bucket'[m] \subseteq Files(m)
  BY <1>1 DEF MirrorInv, MirrorTypes
<1>4. CASE Here = "debian"
  <2>1. Advance(run.at)
    BY <1>1, <1>4
  <2>2. /\ run' \in RunRow /\ run'.phase \in {"stopped", "begin"}
        /\ (run'.phase = "stopped" <=> run'.at = 0) /\ run'.started = 0
        /\ run'.listed = {} /\ run'.existing = {}
    BY <1>2, <2>1, AdvanceRun
  <2>3. queue' = {} /\ done' = {} /\ UNCHANGED <<upstream, releasedAt, second, bucket>>
    BY <1>1
  <2>4. working' = [w \in SyncWorker |-> NoWork]
    <3>1. working' \in [SyncWorker -> WorkRow]
      BY <1>1 DEF MirrorInv, MirrorTypes
    <3> QED BY <1>1, <3>1
  <2>5. IndexLinksExist' /\ MarkerMissesNothing'
    BY <1>1 DEF MirrorInv, IndexLinksExist, MarkerMissesNothing
  <2> QED BY <1>3, <2>2, <2>3, <2>4, <2>5, RestInv
<1>5. CASE Here # "debian"
  <2>1. RunAt(run.at, "index", run.listed, run.existing, run.started)
    BY <1>1, <1>5
  <2>2. /\ run'.at = run.at /\ run'.phase = "index" /\ run'.listed = run.listed
        /\ run'.existing = run.existing /\ run'.started = run.started
    BY <2>1, RunAtIs
  <2>3. run' \in RunRow
    BY <1>2, <2>1, RunAtIs DEF RunRow
  <2>4. Here' = Here /\ Here # "nltk"
    BY <1>1, <2>2 DEF Here, MirrorInv, PhasesAre
  <2>5. \A i \in Items : ~Waits(i)
    BY <1>1, ItemKinds DEF Waits, Items, Item, AnyFile
  <2>6. PhasesAre'
    BY <1>1, <1>5, <2>2, <2>4 DEF PhasesAre
  <2>7. ItemsAre'
    BY <2>2 DEF ItemsAre
  <2>8. FilesArrive'
    <3> SUFFICES ASSUME Here # "pypi", NEW f \in run.listed
                 PROVE  Arrived(Here, f) \/ (PageLost(Here) /\ Here # "conda")
      BY <1>1, <2>2, <2>4 DEF FilesArrive, Arrived, PageLost
    <3>1. f \in AnyFile /\ f \in Items /\ IndexPage \in Items
      BY <1>2 DEF Items
    <3>2. Here \in {"conda", "cran"}
      BY <1>2, <1>5, <2>4 DEF Repository
    <3>3. CASE Here = "conda"
      BY <1>1, <2>5, <3>1, <3>3 DEF MirrorInv, FilesArrive
    <3>4. CASE Here = "cran"
      BY <1>1, <2>5, <3>1, <3>4 DEF MirrorInv, FilesArrive
    <3> QED BY <3>2, <3>3, <3>4
  <2>9. MarkerIsPassed'
    <3> SUFFICES ASSUME Here = "pypi"
                 PROVE  /\ marker <= run.started
                        /\ \A p \in Package : \A n \in 1..upstream["pypi"][p] :
                             releasedAt[p][n] <= run.started => Known(p, n)
      BY <1>1, <2>2, <2>4 DEF MarkerIsPassed, Known
    <3>1. \A p \in Package : <<p, 0>> \in Items
      BY DEF Items
    <3> QED BY <1>1, <2>5, <3>1 DEF MirrorInv, MarkerIsPassed
  <2>10. /\ run'.phase # "stopped" /\ run'.started < second /\ run'.listed \subseteq Files(Here)
         /\ run'.existing \subseteq bucket'[Here]
    BY <1>1, <1>2, <2>2
  <2> QED BY <1>1, <1>2, <1>3, <2>2, <2>3, <2>6, <2>7, <2>8, <2>9, <2>10, StillInv
<1> QED BY <1>4, <1>5

\* The index and the marker.
LEMMA LastWriteInv ==
  ASSUME MirrorInv, (WriteIndex /\ Here # "conda") \/ WriteMarker
  PROVE  MirrorInv'
<1>1. /\ run.phase = "index" /\ Advance(run.at)
      /\ UNCHANGED <<upstream, releasedAt, second, enabled, bucket, queue, done, working, lost>>
  BY DEF WriteIndex, WriteMarker, fixedVars
<1>2. /\ run.at \in 0..5 /\ run.at # 0 /\ Here \in Repository /\ run.listed \in SUBSET AnyFile
      /\ run.listed \subseteq Files(Here) /\ run.started \in Nat /\ run.started < second
  BY <1>1, RunIs
<1>3. /\ run' \in RunRow /\ run'.phase \in {"stopped", "begin"}
      /\ (run'.phase = "stopped" <=> run'.at = 0) /\ run'.started = 0
      /\ run'.listed = {} /\ run'.existing = {}
  BY <1>1, <1>2, AdvanceRun
<1>4. queue = {} /\ done = {} /\ \A w \in SyncWorker : working[w] = NoWork
  BY <1>1, BeforeWork
<1>5. working' = [w \in SyncWorker |-> NoWork]
  <2>1. working' \in [SyncWorker -> WorkRow]
    BY <1>1 DEF MirrorInv, MirrorTypes
  <2> QED BY <1>1, <1>4, <2>1
<1>6. /\ marker \in Nat /\ marker < second /\ enabled' \subseteq Repository
      /\ index \in [Repository -> SUBSET AnyFile]
      /\ \A m \in Repository : index[m] \subseteq Files(m)
  BY <1>1 DEF MirrorInv, MirrorTypes
<1>7. CASE WriteIndex
  <2>1. /\ Here # "pypi" /\ index' = [index EXCEPT ![Here] = run.listed] /\ marker' = marker
    BY <1>7 DEF WriteIndex, IndexWritten
  <2>2. index' \in [Repository -> SUBSET AnyFile] /\ \A m \in Repository : index'[m] \subseteq Files(m)
    BY <1>2, <1>6, <2>1
  <2>3. IndexLinksExist'
    <3> SUFFICES ASSUME NEW m \in Repository \ {"debian"}, NEW f \in index'[m]
                 PROVE  f \in bucket[m] \/ <<m, f>> \in lost \/ <<m, IndexPage>> \in lost
      BY <1>1 DEF IndexLinksExist
    <3>1. CASE m = Here
      BY <1>1, <1>6, <2>1, <3>1 DEF MirrorInv, FilesArrive, Arrived, PageLost
    <3>2. CASE m # Here
      BY <1>6, <2>1, <3>2 DEF MirrorInv, IndexLinksExist
    <3> QED BY <3>1, <3>2
  <2>4. MarkerMissesNothing'
    <3>1. "pypi" \in Repository /\ index'["pypi"] = index["pypi"]
      BY <1>6, <2>1 DEF Repository
    <3> QED BY <1>1, <2>1, <3>1 DEF MirrorInv, MarkerMissesNothing
  <2>5. marker' \in Nat /\ marker' < second
    BY <1>6, <2>1
  <2>6. queue' = {} /\ done' = {} /\ UNCHANGED <<upstream, releasedAt, second, bucket>>
    BY <1>1, <1>4
  <2> QED BY <1>3, <1>5, <1>6, <2>2, <2>3, <2>4, <2>5, <2>6, RestInv
<1>8. CASE WriteMarker
  <2>1. Here = "pypi" /\ marker' = run.started /\ index' = index
    BY <1>8 DEF WriteMarker
  <2>2. IndexLinksExist'
    BY <1>1, <2>1 DEF MirrorInv, IndexLinksExist
  <2>3. MarkerMissesNothing'
    <3>1. \A p \in Package : ~Waits(<<p, 0>>)
      BY <1>4, ItemKinds DEF Waits, Item
    <3> QED BY <1>1, <2>1, <3>1 DEF MirrorInv, MarkerIsPassed, MarkerMissesNothing, Known
  <2>4. index' \in [Repository -> SUBSET AnyFile] /\ \A m \in Repository : index'[m] \subseteq Files(m)
    BY <1>6, <2>1
  <2>5. marker' \in Nat /\ marker' < second
    BY <1>2, <2>1
  <2>6. queue' = {} /\ done' = {} /\ UNCHANGED <<upstream, releasedAt, second, bucket>>
    BY <1>1, <1>4
  <2> QED BY <1>3, <1>5, <1>6, <2>2, <2>3, <2>4, <2>5, <2>6, RestInv
<1> QED BY <1>7, <1>8

\* conda's two indexes, the one after the other.
LEMMA WriteCondaInv ==
  ASSUME MirrorInv, WriteIndex, Here = "conda"
  PROVE  MirrorInv'
<1>1. /\ run.phase = "index" /\ "conda" \in Repository
      /\ RunAt(run.at, "pack", run.listed, run.existing, run.started)
      /\ index' = [index EXCEPT !["conda"] = run.listed]
      /\ UNCHANGED <<upstream, releasedAt, second, enabled, bucket, marker, queue, done, working,
                     lost>>
  BY DEF WriteIndex, IndexWritten, fixedVars, Repository
<1>2. /\ run.at \in 0..5 /\ run.at # 0 /\ run.listed \in SUBSET AnyFile
      /\ run.existing \in SUBSET AnyFile /\ run.existing \subseteq bucket["conda"]
      /\ run.listed \subseteq Files("conda") /\ run.started \in Nat /\ run.started < second
  BY <1>1, RunIs
<1>3. /\ run'.at = run.at /\ run'.phase = "pack" /\ run'.listed = run.listed
      /\ run'.existing = run.existing /\ run'.started = run.started
  BY <1>1, RunAtIs
<1>4. run' \in RunRow
  BY <1>1, <1>2, RunAtIs DEF RunRow
<1>5. Here' = "conda" /\ \A m : Files(m)' = Files(m)
  BY <1>1, <1>3 DEF Here, Files
<1>6. queue = {} /\ done = {} /\ \A w \in SyncWorker : working[w] = NoWork
  BY <1>1, BeforeWork
<1>7. /\ index \in [Repository -> SUBSET AnyFile]
      /\ \A m \in Repository : index[m] \subseteq Files(m)
  BY DEF MirrorInv, MirrorTypes
<1>8. /\ index' \in [Repository -> SUBSET AnyFile] /\ index'["conda"] = run.listed
      /\ \A m \in Repository : m # "conda" => index'[m] = index[m]
  BY <1>1, <1>2, <1>7
<1>9. \A f \in run.listed : Arrived("conda", f)
  BY <1>1 DEF MirrorInv, FilesArrive
<1>10. MirrorTypes'
  <2>1. \A m \in Repository : bucket'[m] \subseteq Files(m)' /\ index'[m] \subseteq Files(m)'
    BY <1>1, <1>2, <1>5, <1>7, <1>8 DEF MirrorInv, MirrorTypes
  <2>2. run'.listed \subseteq (Files(Here))' /\ run'.existing \subseteq (bucket[Here])'
    BY <1>1, <1>2, <1>3, <1>5 DEF Files
  <2>3. (run'.phase = "stopped" <=> run'.at = 0) /\ run'.started < second'
    BY <1>1, <1>2, <1>3
  <2> QED BY <1>1, <1>4, <1>8, <2>1, <2>2, <2>3 DEF MirrorInv, MirrorTypes
<1>11. PhasesAre'
  BY <1>1, <1>3, <1>5, <1>6 DEF PhasesAre
<1>12. ItemsAre' /\ ProjectsAre' /\ MarkerIsPassed'
  BY <1>3 DEF ItemsAre, ProjectsAre, MarkerIsPassed
<1>13. FilesArrive'
  BY <1>1, <1>3, <1>5, <1>9 DEF FilesArrive, Arrived
<1>14. IndexLinksExist'
  <2> SUFFICES ASSUME NEW m \in Repository \ {"debian"}, NEW f \in index'[m]
               PROVE  f \in bucket[m] \/ <<m, f>> \in lost \/ <<m, IndexPage>> \in lost
    BY <1>1 DEF IndexLinksExist
  <2>1. CASE m = "conda"
    BY <1>8, <1>9, <2>1 DEF Arrived
  <2>2. CASE m # "conda"
    BY <1>8, <2>2 DEF MirrorInv, IndexLinksExist
  <2> QED BY <2>1, <2>2
<1>15. MarkerMissesNothing'
  <2>1. "pypi" \in Repository /\ index'["pypi"] = index["pypi"]
    BY <1>8 DEF Repository
  <2> QED BY <1>1, <2>1 DEF MirrorInv, MarkerMissesNothing
<1> QED BY <1>10, <1>11, <1>12, <1>13, <1>14, <1>15 DEF MirrorInv

LEMMA PackedWriteInv ==
  ASSUME MirrorInv, WritePacked
  PROVE  MirrorInv'
<1>1. /\ run.phase = "pack" /\ Advance(run.at)
      /\ UNCHANGED <<upstream, releasedAt, second, enabled, bucket, index, marker, queue, done,
                     working, lost>>
  BY DEF WritePacked
<1>2. /\ run' \in RunRow /\ run'.phase \in {"stopped", "begin"}
      /\ (run'.phase = "stopped" <=> run'.at = 0) /\ run'.started = 0
      /\ run'.listed = {} /\ run'.existing = {}
  BY <1>1, RunIs, AdvanceRun
<1>3. queue = {} /\ done = {} /\ \A w \in SyncWorker : working[w] = NoWork
  BY <1>1, BeforeWork
<1>4. working' = [w \in SyncWorker |-> NoWork]
  <2>1. working' \in [SyncWorker -> WorkRow]
    BY <1>1 DEF MirrorInv, MirrorTypes
  <2> QED BY <1>1, <1>3, <2>1
<1>5. /\ marker' \in Nat /\ marker' < second /\ enabled' \subseteq Repository
      /\ index' \in [Repository -> SUBSET AnyFile]
      /\ \A m \in Repository : index'[m] \subseteq Files(m)
  BY <1>1 DEF MirrorInv, MirrorTypes
<1>6. IndexLinksExist' /\ MarkerMissesNothing'
  BY <1>1 DEF MirrorInv, IndexLinksExist, MarkerMissesNothing
<1>7. queue' = {} /\ done' = {} /\ UNCHANGED <<upstream, releasedAt, second, bucket>>
  BY <1>1, <1>3
<1> QED BY <1>2, <1>4, <1>5, <1>6, <1>7, RestInv

LEMMA FetchPackedInv ==
  ASSUME MirrorInv, FetchPacked
  PROVE  MirrorInv'
<1>1. /\ run.phase = "bz2"
      /\ RunAt(run.at, "work", run.listed, run.existing, run.started)
      /\ UNCHANGED <<upstream, releasedAt, second, enabled, bucket, index, marker, queue, done,
                     working, lost>>
  BY DEF FetchPacked
<1>2. /\ run.at \in 0..5 /\ run.at # 0 /\ Here \in Repository
      /\ run.listed \in SUBSET AnyFile /\ run.listed \subseteq Files(Here)
      /\ run.existing \in SUBSET AnyFile /\ run.existing \subseteq bucket[Here]
      /\ run.started \in Nat /\ run.started < second
  BY <1>1, RunIs
<1>3. /\ run'.at = run.at /\ run'.phase = "work" /\ run'.listed = run.listed
      /\ run'.existing = run.existing /\ run'.started = run.started
  BY <1>1, RunAtIs
<1>4. run' \in RunRow
  BY <1>1, <1>2, RunAtIs DEF RunRow
<1>5. Here = "conda" /\ queue = run.listed
  BY <1>1 DEF MirrorInv, PhasesAre
<1>6. done = {} /\ \A w \in SyncWorker : working[w] = NoWork
  BY <1>1, BeforeWork
<1>7. Here' = "conda" /\ \A m : Files(m)' = Files(m) /\ \A w \in SyncWorker : working'[w] = NoWork
  BY <1>1, <1>3, <1>5, <1>6 DEF Here, Files
<1>8. PhasesAre'
  BY <1>3, <1>7 DEF PhasesAre
<1>9. ItemsAre'
  <2>1. queue' \subseteq (ItemsOf(Here))'
    BY <1>1, <1>2, <1>5, <1>7 DEF ItemsOf, Crawled
  <2>2. IF Here' \in Crawled THEN queue' \subseteq done' \cup {IndexPage} ELSE done' = {}
    BY <1>1, <1>6, <1>7 DEF Crawled
  <2> QED BY <1>7, <2>1, <2>2 DEF ItemsAre
<1>10. FilesArrive'
  BY <1>1, <1>3, <1>5, <1>7 DEF FilesArrive, Waits
<1>11. MarkerIsPassed'
  BY <1>7 DEF MarkerIsPassed
<1>12. /\ bucket' \in [Repository -> SUBSET AnyFile]
       /\ \A m \in Repository : bucket[m] \subseteq bucket'[m] /\ bucket'[m] \subseteq Files(m)
  BY <1>1 DEF MirrorInv, MirrorTypes
<1>13. /\ run'.phase # "stopped" /\ run'.started < second /\ run'.listed \subseteq Files(Here)
       /\ run'.existing \subseteq bucket'[Here]
  BY <1>1, <1>2, <1>3
<1> QED BY <1>1, <1>2, <1>3, <1>4, <1>6, <1>8, <1>9, <1>10, <1>11, <1>12, <1>13, StillInv

LEMMA NltkInv ==
  ASSUME MirrorInv, NltkDone \/ \E f \in Files("nltk") : NltkFile(f)
  PROVE  MirrorInv'
<1>1. run.phase = "nltk"
  BY DEF NltkDone, NltkFile
<1>2. /\ run.at \in 0..5 /\ run.at # 0 /\ Here \in Repository /\ run.listed \in SUBSET AnyFile
      /\ run.existing \in SUBSET AnyFile /\ run.existing \subseteq bucket[Here]
      /\ run.listed \subseteq Files(Here) /\ run.started \in Nat /\ run.started < second
  BY <1>1, RunIs
<1>3. Here = "nltk" /\ "nltk" \in Repository
  BY <1>1, <1>2 DEF MirrorInv, PhasesAre
<1>4. queue = {} /\ done = {} /\ \A w \in SyncWorker : working[w] = NoWork
  BY <1>1, BeforeWork
<1>5. /\ bucket \in [Repository -> SUBSET AnyFile]
      /\ \A m \in Repository : bucket[m] \subseteq Files(m)
  BY DEF MirrorInv, MirrorTypes
<1>6. CASE NltkDone
  <2>1. /\ run.listed \subseteq run.existing
        /\ RunAt(run.at, "index", run.listed, run.existing, run.started)
        /\ UNCHANGED <<upstream, releasedAt, second, enabled, bucket, index, marker, queue, done,
                       working, lost>>
    BY <1>6 DEF NltkDone, fixedVars
  <2>2. /\ run'.at = run.at /\ run'.phase = "index" /\ run'.listed = run.listed
        /\ run'.existing = run.existing /\ run'.started = run.started
    BY <2>1, RunAtIs
  <2>3. run' \in RunRow
    BY <1>2, <2>1, RunAtIs DEF RunRow
  <2>4. Here' = Here
    BY <2>2 DEF Here
  <2>5. PhasesAre'
    BY <1>3, <1>4, <2>1, <2>2, <2>4 DEF PhasesAre
  <2>6. ItemsAre' /\ MarkerIsPassed'
    BY <1>3, <2>2, <2>4 DEF ItemsAre, MarkerIsPassed
  <2>7. FilesArrive'
    BY <1>2, <1>3, <2>1, <2>2, <2>4 DEF FilesArrive, Arrived
  <2>8. /\ bucket' \in [Repository -> SUBSET AnyFile]
        /\ \A m \in Repository : bucket[m] \subseteq bucket'[m] /\ bucket'[m] \subseteq Files(m)
    BY <1>5, <2>1
  <2>9. /\ run'.phase # "stopped" /\ run'.started < second /\ run'.listed \subseteq Files(Here)
        /\ run'.existing \subseteq bucket'[Here]
    BY <1>2, <2>1, <2>2
  <2> QED BY <1>2, <1>4, <2>1, <2>2, <2>3, <2>5, <2>6, <2>7, <2>8, <2>9, StillInv
<1>7. CASE \E f \in Files("nltk") : NltkFile(f)
  <2>1. PICK f \in Files("nltk") : NltkFile(f)
    BY <1>7
  <2>2. /\ bucket' = [bucket EXCEPT !["nltk"] = @ \cup {f}]
        /\ RunAt(run.at, "nltk", run.listed, run.existing \cup {f}, run.started)
        /\ UNCHANGED <<upstream, releasedAt, second, enabled, index, marker, queue, done, working, lost>>
    BY <2>1 DEF NltkFile, Put, fixedVars
  <2>3. /\ run'.at = run.at /\ run'.phase = "nltk" /\ run'.listed = run.listed
        /\ run'.existing = run.existing \cup {f} /\ run'.started = run.started
    BY <2>2, RunAtIs
  <2>4. f \in AnyFile
    BY DEF Files, AnyFile
  <2>5. run' \in RunRow
    BY <1>2, <2>2, <2>4, RunAtIs DEF RunRow
  <2>6. Here' = Here
    BY <2>3 DEF Here
  <2>7. PhasesAre'
    BY <1>3, <1>4, <2>2, <2>3, <2>6 DEF PhasesAre
  <2>8. ItemsAre' /\ MarkerIsPassed' /\ FilesArrive'
    BY <1>3, <2>3, <2>6 DEF ItemsAre, MarkerIsPassed, FilesArrive
  <2>9. /\ bucket' \in [Repository -> SUBSET AnyFile]
        /\ \A m \in Repository : bucket[m] \subseteq bucket'[m] /\ bucket'[m] \subseteq Files(m)
    BY <1>3, <1>5, <2>2, <2>4
  <2>10. /\ run'.phase # "stopped" /\ run'.started < second /\ run'.listed \subseteq Files(Here)
         /\ run'.existing \subseteq bucket'[Here]
    BY <1>2, <1>3, <1>5, <2>2, <2>3
  <2> QED BY <1>2, <1>4, <2>2, <2>3, <2>5, <2>7, <2>8, <2>9, <2>10, StillInv
<1> QED BY <1>6, <1>7

(***************************************************************************)
(* The workers.                                                            *)
(***************************************************************************)
\* What a worker that is at work has.
LEMMA BusyIs ==
  ASSUME MirrorInv, NEW w \in SyncWorker, run.phase = "work", working[w] # NoWork
  PROVE  /\ Here \in Repository /\ Here # "nltk" /\ "pypi" \in Repository
         /\ Item(w) \in ItemsOf(Here) /\ Item(w) # NoItem
         /\ Item(w) = IndexPage \/ Item(w) \notin queue
         /\ Here = "pypi" => PypiProject(w) \in Package /\ Item(w) = <<PypiProject(w), 0>>
         /\ Here # "pypi" => /\ working[w].page = 0
                             /\ Item(w) \in Files(Here) \cup {IndexPage, DebianIndex}
                             /\ Item(w) \in AnyFile \cup {IndexPage, DebianIndex}
<1>1. Here \in Repository /\ "pypi" \in Repository
  BY RunIs DEF Repository
<1>2. /\ Item(w) \in ItemsOf(Here) /\ (Item(w) = IndexPage \/ Item(w) \notin queue)
      /\ Here # "pypi" => working[w].page = 0
  BY DEF MirrorInv, ItemsAre
<1>3. Here # "nltk"
  BY DEF MirrorInv, PhasesAre
<1>4. Here = "pypi" => PypiProject(w) \in Package /\ Item(w) = <<PypiProject(w), 0>>
  BY <1>2 DEF ItemsOf, PypiProject
<1>5. Here # "pypi" => /\ Item(w) \in Files(Here) \cup {IndexPage, DebianIndex}
                       /\ Item(w) \in AnyFile \cup {IndexPage, DebianIndex}
  BY <1>2 DEF ItemsOf, Files, AnyFile
<1>6. Item(w) # NoItem
  <2>1. \A f \in AnyFile : f # NoItem
    BY ItemKinds DEF AnyFile
  <2> QED BY <1>4, <1>5, <2>1, ItemKinds
<1> QED BY <1>1, <1>2, <1>3, <1>4, <1>5, <1>6

\* The types after a step of a worker.
LEMMA WorkerTypes ==
  ASSUME MirrorInv, NEW w \in SyncWorker, run.phase = "work",
         UNCHANGED <<upstream, releasedAt, second, enabled, marker, run>>,
         NEW row \in WorkRow, working' = [working EXCEPT ![w] = row],
         bucket' \in [Repository -> SUBSET AnyFile],
         \A m \in Repository : bucket[m] \subseteq bucket'[m] /\ bucket'[m] \subseteq Files(m),
         index' \in [Repository -> SUBSET AnyFile], \A m \in Repository : index'[m] \subseteq Files(m)
  PROVE  /\ MirrorTypes' /\ PhasesAre'
         /\ Here' = Here /\ (\A m : Files(m)' = Files(m)) /\ ItemsOf(Here)' = ItemsOf(Here)
         /\ working'[w] = row /\ \A v \in SyncWorker \ {w} : working'[v] = working[v]
<1>1. Here' = Here /\ \A m : Files(m)' = Files(m)
  BY DEF Here, Files
<1>2. ItemsOf(Here)' = ItemsOf(Here)
  BY <1>1 DEF ItemsOf, Files
<1>3. working' \in [SyncWorker -> WorkRow]
  BY DEF MirrorInv, MirrorTypes
<1>4. working'[w] = row /\ \A v \in SyncWorker \ {w} : working'[v] = working[v]
  BY DEF MirrorInv, MirrorTypes
<1>5. MirrorTypes'
  <2>1. \A m \in Repository : bucket'[m] \subseteq Files(m)' /\ index'[m] \subseteq Files(m)'
    BY <1>1
  <2>2. run'.at # 0 => run'.listed \subseteq (Files(Here))' /\ run'.existing \subseteq (bucket[Here])'
    <3>1. ASSUME run.at # 0
          PROVE  run.listed \subseteq Files(Here) /\ run.existing \subseteq bucket'[Here]
      BY <3>1, RunIs
    <3> QED BY <1>1, <3>1 DEF Files
  <2> QED BY <1>3, <2>1, <2>2 DEF MirrorInv, MirrorTypes
<1>6. PhasesAre'
  BY <1>1 DEF MirrorInv, PhasesAre
<1> QED BY <1>1, <1>2, <1>4, <1>5, <1>6

\* What is true of a file, a page, a version and an item after a step.
ArrivedNext(m, f) == f \in bucket'[m] \/ <<m, f>> \in lost'
PageLostNext(m) == <<m, IndexPage>> \in lost'
KnownNext(p, n) == <<p, n>> \in index'["pypi"] \/ <<"pypi", <<p, 0>> >> \in lost'
WaitsNext(i) == i \in queue' \/ \E w \in SyncWorker : working'[w].item = i

\* A step of a worker that takes nothing from the queue.
LEMMA WorkerInv ==
  ASSUME MirrorInv, NEW w \in SyncWorker, run.phase = "work", working[w] # NoWork,
         UNCHANGED <<upstream, releasedAt, second, enabled, marker, run, queue, done>>,
         NEW row \in WorkRow, working' = [working EXCEPT ![w] = row],
         row = NoWork \/ row.item = Item(w),
         Here # "pypi" => row.page = 0,
         bucket' \in [Repository -> SUBSET AnyFile],
         \A m \in Repository : bucket[m] \subseteq bucket'[m] /\ bucket'[m] \subseteq Files(m),
         index' \in [Repository -> SUBSET AnyFile], \A m \in Repository : index'[m] \subseteq Files(m),
         \A m \in Repository : \A f \in AnyFile : Arrived(m, f) => ArrivedNext(m, f),
         \A m \in Repository : PageLost(m) => PageLostNext(m),
         row = NoWork /\ Here # "pypi" =>
           /\ Item(w) \in AnyFile => ArrivedNext(Here, Item(w))
           /\ Item(w) = IndexPage => PageLostNext(Here),
         Here = "pypi" /\ row.page > 0 =>
           /\ row.next > 0 /\ row.next <= row.page + 1
           /\ row.page <= upstream["pypi"][PypiProject(w)] /\ row.have \subseteq bucket'["pypi"]
           /\ \A n \in 1..(row.next - 1) : ArrivedNext("pypi", <<PypiProject(w), n>>)
           /\ \A n \in 1..upstream["pypi"][PypiProject(w)] :
                n > row.page => releasedAt[PypiProject(w)][n] > run.started,
         \A p \in Package : \A n \in 1..upstream["pypi"][p] :
           (Here # "pypi" \/ releasedAt[p][n] <= run.started) /\ Known(p, n) => KnownNext(p, n),
         row = NoWork /\ Here = "pypi" =>
           \A n \in 1..upstream["pypi"][PypiProject(w)] :
             releasedAt[PypiProject(w)][n] <= run.started => KnownNext(PypiProject(w), n),
         IndexLinksExist'
  PROVE  MirrorInv'
<1>1. /\ MirrorTypes' /\ PhasesAre'
      /\ Here' = Here /\ (\A m : Files(m)' = Files(m)) /\ ItemsOf(Here)' = ItemsOf(Here)
      /\ working'[w] = row /\ \A v \in SyncWorker \ {w} : working'[v] = working[v]
  BY WorkerTypes
<1>2. Here \in Repository /\ Item(w) # NoItem
  BY BusyIs
<1>3. /\ \A v \in SyncWorker \ {w} : Item(v)' = Item(v) /\ PypiProject(v)' = PypiProject(v)
      /\ row = NoWork => Item(w)' = NoItem
      /\ row # NoWork => Item(w)' = Item(w) /\ PypiProject(w)' = PypiProject(w)
  BY <1>1, ItemKinds DEF Item, PypiProject
<1>4. \A i : Waits(i) /\ (row # NoWork \/ i # Item(w)) => WaitsNext(i)
  BY <1>1, <1>3 DEF Waits, WaitsNext, Item
<1>5. ItemsAre'
  <2>1. queue' \subseteq ItemsOf(Here)'
    BY <1>1 DEF MirrorInv, ItemsAre
  <2>2. IF Here' \in Crawled THEN queue' \subseteq done' \cup {IndexPage} ELSE done' = {}
    BY <1>1 DEF MirrorInv, ItemsAre
  <2>3. \A v \in SyncWorker : working'[v] # NoWork => working[v] # NoWork /\ Item(v)' = Item(v)
    BY <1>1, <1>3
  <2>4. ASSUME NEW v \in SyncWorker, working'[v] # NoWork
        PROVE  /\ Item(v)' \in ItemsOf(Here)' /\ (Item(v)' = IndexPage \/ Item(v)' \notin queue')
               /\ \A u \in SyncWorker : u # v /\ Item(u)' = Item(v)' => Item(v)' = IndexPage
               /\ Here' # "pypi" => working'[v].page = 0
               /\ Here' \in Crawled => Item(v)' \in done' \cup {IndexPage}
    <3>1. /\ Item(v) \in ItemsOf(Here) /\ (Item(v) = IndexPage \/ Item(v) \notin queue)
          /\ \A u \in SyncWorker : u # v /\ Item(u) = Item(v) => Item(v) = IndexPage
          /\ Here # "pypi" => working[v].page = 0
          /\ Here \in Crawled => Item(v) \in done \cup {IndexPage}
      BY <2>3, <2>4 DEF MirrorInv, ItemsAre
    <3>2. Item(v)' = Item(v) /\ Item(v) # NoItem
      BY <2>3, <2>4, BusyIs
    <3>3. ASSUME NEW u \in SyncWorker, u # v, Item(u)' = Item(v)'
          PROVE  Item(v)' = IndexPage
      <4>1. Item(u)' = Item(u)
        BY <1>3, <3>2, <3>3
      <4> QED BY <3>1, <3>2, <3>3, <4>1
    <3>4. Here' # "pypi" => working'[v].page = 0
      BY <1>1, <3>1
    <3> QED BY <1>1, <3>1, <3>2, <3>3, <3>4
  <2> QED BY <2>1, <2>2, <2>4 DEF ItemsAre
<1>6. FilesArrive'
  <2>1. ASSUME NEW f \in AnyFile, Here # "pypi", Waits(f) \/ Arrived(Here, f)
        PROVE  WaitsNext(f) \/ ArrivedNext(Here, f)
    BY <1>2, <1>4, <2>1
  <2>2. ASSUME Here # "pypi", Waits(IndexPage) \/ PageLost(Here)
        PROVE  WaitsNext(IndexPage) \/ PageLostNext(Here)
    BY <1>2, <1>4, <2>2
  <2>3. run.listed \in SUBSET AnyFile
    BY RunIs
  <2>6. Here = "conda" => \A f \in run.listed : WaitsNext(f) \/ ArrivedNext(Here, f)
    BY <2>1, <2>3 DEF MirrorInv, FilesArrive
  <2>7. Here = "cran" => /\ \A f \in done \cap AnyFile : WaitsNext(f) \/ ArrivedNext(Here, f)
                         /\ WaitsNext(IndexPage) \/ PageLostNext(Here) \/ run.listed \subseteq done
    BY <2>1, <2>2 DEF MirrorInv, FilesArrive
  <2> QED BY <1>1, <2>6, <2>7 DEF FilesArrive, Arrived, PageLost, Waits, ArrivedNext, PageLostNext, WaitsNext, Item
<1>7. ProjectsAre'
  <2> SUFFICES ASSUME Here = "pypi", NEW v \in SyncWorker, working'[v] # NoWork, working'[v].page > 0,
                      NEW q, q = PypiProject(v)'
               PROVE  /\ working'[v].next > 0 /\ working'[v].next <= working'[v].page + 1
                      /\ working'[v].page <= upstream["pypi"][q]
                      /\ working'[v].have \subseteq bucket'["pypi"]
                      /\ \A n \in 1..(working'[v].next - 1) : ArrivedNext("pypi", <<q, n>>)
                      /\ \A n \in 1..upstream["pypi"][q] :
                           n > working'[v].page => releasedAt[q][n] > run.started
    BY <1>1 DEF ProjectsAre, Arrived, ArrivedNext
  <2>1. CASE v = w
    <3>1. q = PypiProject(w)
      BY <1>1, <1>3, <2>1, ItemKinds
    <3> QED BY <1>1, <2>1, <3>1
  <2>2. CASE v # w
    <3>1. working'[v] = working[v] /\ q = PypiProject(v)
      BY <1>1, <1>3, <2>2
    <3>2. /\ working[v].next > 0 /\ working[v].next <= working[v].page + 1
          /\ working[v].page <= upstream["pypi"][PypiProject(v)]
          /\ working[v].have \subseteq bucket["pypi"]
          /\ \A n \in 1..(working[v].next - 1) : Arrived("pypi", <<PypiProject(v), n>>)
          /\ \A n \in 1..upstream["pypi"][PypiProject(v)] :
               n > working[v].page => releasedAt[PypiProject(v)][n] > run.started
      BY <3>1 DEF MirrorInv, ProjectsAre
    <3>3. working[v].have \subseteq bucket'["pypi"]
      BY <1>2, <3>2
    <3>4. ASSUME NEW n \in 1..(working[v].next - 1)
          PROVE  ArrivedNext("pypi", <<PypiProject(v), n>>)
      <4>1. <<PypiProject(v), n>> \in AnyFile
        <5>1. /\ working[v].page \in 0..(MaxReleases + 1) /\ working[v].next \in Nat
              /\ PypiProject(v) \in Package
          BY <3>1, WorkIs, BusyIs
        <5>2. n \in 1..(MaxReleases + 1)
          BY <3>2, <5>1, MirrorAssumption
        <5> QED BY <5>1, <5>2 DEF AnyFile
      <4> QED BY <1>2, <3>2, <4>1
    <3> QED BY <3>1, <3>2, <3>3, <3>4
  <2> QED BY <2>1, <2>2
<1>8. MarkerIsPassed'
  <2> SUFFICES ASSUME Here = "pypi"
               PROVE  /\ marker <= run.started
                      /\ \A p \in Package : \A n \in 1..upstream["pypi"][p] :
                           releasedAt[p][n] <= run.started => KnownNext(p, n) \/ WaitsNext(<<p, 0>>)
    BY <1>1 DEF MarkerIsPassed, Known, Waits, KnownNext, WaitsNext, Item
  <2>1. marker <= run.started
    BY DEF MirrorInv, MarkerIsPassed
  <2>2. ASSUME NEW p \in Package, NEW n \in 1..upstream["pypi"][p], releasedAt[p][n] <= run.started
        PROVE  KnownNext(p, n) \/ WaitsNext(<<p, 0>>)
    <3>1. CASE Known(p, n)
      BY <2>2, <3>1
    <3>2. CASE Waits(<<p, 0>>)
      <4>1. CASE row = NoWork /\ <<p, 0>> = Item(w)
        <5>1. p = PypiProject(w)
          BY <4>1 DEF PypiProject
        <5>2. KnownNext(PypiProject(w), n)
          BY <2>2, <4>1, <5>1
        <5> QED BY <5>1, <5>2
      <4>2. CASE row # NoWork \/ <<p, 0>> # Item(w)
        BY <1>4, <3>2, <4>2
      <4> QED BY <4>1, <4>2
    <3> QED BY <2>2, <3>1, <3>2 DEF MirrorInv, MarkerIsPassed
  <2> QED BY <2>1, <2>2
<1>9. MarkerMissesNothing'
  <2> SUFFICES ASSUME NEW p \in Package, NEW n \in 1..upstream["pypi"][p], releasedAt[p][n] <= marker
               PROVE  KnownNext(p, n)
    BY DEF MarkerMissesNothing, KnownNext
  <2>1. Known(p, n)
    BY DEF MirrorInv, MarkerMissesNothing, Known
  <2>2. Here = "pypi" => releasedAt[p][n] <= run.started
    <3>1. releasedAt[p][n] \in Nat
      <4>1. "pypi" \in Repository
        BY DEF Repository
      <4>2. upstream["pypi"][p] \in 1..(MaxReleases + 1)
        BY <4>1 DEF MirrorInv, MirrorTypes
      <4>3. n \in 1..(MaxReleases + 1)
        BY <4>2, MirrorAssumption
      <4>4. releasedAt \in [Package -> [1..(MaxReleases + 1) -> Nat]]
        BY DEF MirrorInv, MirrorTypes
      <4> QED BY <4>3, <4>4
    <3>2. marker \in Nat /\ run.started \in Nat
      BY RunIs DEF MirrorInv, MirrorTypes
    <3> QED BY <3>1, <3>2 DEF MirrorInv, MarkerIsPassed
  <2> QED BY <2>1, <2>2
<1> QED BY <1>1, <1>5, <1>6, <1>7, <1>8, <1>9 DEF MirrorInv

LEMMA BucketIs ==
  ASSUME MirrorInv
  PROVE  /\ bucket \in [Repository -> SUBSET AnyFile] /\ index \in [Repository -> SUBSET AnyFile]
         /\ \A m \in Repository : bucket[m] \subseteq Files(m) /\ index[m] \subseteq Files(m)
BY DEF MirrorInv, MirrorTypes

LEMMA TransferInv ==
  ASSUME MirrorInv, NEW w \in SyncWorker, Transfer(w)
  PROVE  MirrorInv'
<1>1. /\ run.phase = "work" /\ working[w] # NoWork /\ Here # "pypi"
      /\ Item(w) # IndexPage /\ Item(w) # DebianIndex
      /\ working' = [working EXCEPT ![w] = NoWork]
      /\ bucket' = [bucket EXCEPT ![Here] = @ \cup {Item(w)}]
      /\ UNCHANGED <<upstream, releasedAt, second, enabled, marker, run, queue, done, index>>
  BY DEF Transfer, Busy, IsFile, FreeWorker, Put, fixedVars
<1>2. lost \ {<<Here, Item(w)>>} \subseteq lost'
  BY DEF Transfer
<1>3. Here \in Repository /\ Item(w) \in Files(Here) /\ Item(w) \in AnyFile
  BY <1>1, BusyIs
<1>4. PICK row \in WorkRow : row = NoWork
  BY NoWorkIsRow
<1>5. working' = [working EXCEPT ![w] = row] /\ row.page = 0
  BY <1>1, <1>4, ItemKinds
<1>6. /\ bucket' \in [Repository -> SUBSET AnyFile]
      /\ \A m \in Repository : bucket[m] \subseteq bucket'[m] /\ bucket'[m] \subseteq Files(m)
  BY <1>1, <1>3, BucketIs
<1>7. index' \in [Repository -> SUBSET AnyFile] /\ \A m \in Repository : index'[m] \subseteq Files(m)
  BY <1>1, BucketIs
<1>8. Item(w) \in bucket'[Here]
  BY <1>1, <1>3, BucketIs
<1>9. \A m, f : <<m, f>> \in lost => <<m, f>> \in lost' \/ (m = Here /\ f = Item(w))
  BY <1>2
<1>10. \A m \in Repository : \A f \in AnyFile : Arrived(m, f) => ArrivedNext(m, f)
  BY <1>6, <1>8, <1>9 DEF Arrived, ArrivedNext
<1>11. \A m \in Repository : PageLost(m) => PageLostNext(m)
  BY <1>1, <1>9 DEF PageLost, PageLostNext
<1>12. ArrivedNext(Here, Item(w))
  BY <1>8 DEF ArrivedNext
<1>13. \A p, n : Known(p, n) => KnownNext(p, n)
  BY <1>1, <1>9 DEF Known, KnownNext
<1>14. IndexLinksExist'
  <2> SUFFICES ASSUME NEW m \in Repository \ {"debian"}, NEW f \in index[m]
               PROVE  ArrivedNext(m, f) \/ PageLostNext(m)
    BY <1>1 DEF IndexLinksExist, ArrivedNext, PageLostNext
  <2>1. f \in AnyFile
    BY BucketIs
  <2>2. Arrived(m, f) \/ PageLost(m)
    BY DEF MirrorInv, IndexLinksExist, Arrived, PageLost
  <2> QED BY <1>10, <1>11, <2>1, <2>2
<1>15. row = NoWork /\ Here # "pypi" =>
           /\ Item(w) \in AnyFile => ArrivedNext(Here, Item(w))
           /\ Item(w) = IndexPage => PageLostNext(Here)
  BY <1>1, <1>12
<1> QED BY <1>1, <1>4, <1>5, <1>6, <1>7, <1>10, <1>11, <1>13, <1>14, <1>15, WorkerInv

LEMMA TransferDebianIndexInv ==
  ASSUME MirrorInv, NEW w \in SyncWorker, TransferDebianIndex(w)
  PROVE  MirrorInv'
<1>1. /\ run.phase = "work" /\ working[w] # NoWork /\ Item(w) = DebianIndex
      /\ working' = [working EXCEPT ![w] = NoWork]
      /\ index' = [index EXCEPT !["debian"] = Files("debian")]
      /\ UNCHANGED <<upstream, releasedAt, second, enabled, marker, run, queue, done, bucket, lost>>
  BY DEF TransferDebianIndex, Busy, FreeWorker, fixedVars
<1>2. /\ "debian" \in Repository /\ "pypi" \in Repository
      /\ Files("debian") \in SUBSET AnyFile
  BY DEF Repository, Files, AnyFile
<1>3. PICK row \in WorkRow : row = NoWork
  BY NoWorkIsRow
<1>4. working' = [working EXCEPT ![w] = row] /\ row.page = 0
  BY <1>1, <1>3, ItemKinds
<1>5. /\ bucket' \in [Repository -> SUBSET AnyFile]
      /\ \A m \in Repository : bucket[m] \subseteq bucket'[m] /\ bucket'[m] \subseteq Files(m)
  BY <1>1, BucketIs
<1>6. /\ index' \in [Repository -> SUBSET AnyFile] /\ \A m \in Repository : index'[m] \subseteq Files(m)
      /\ \A m \in Repository \ {"debian"} : index'[m] = index[m]
  BY <1>1, <1>2, BucketIs
<1>7. DebianIndex \notin AnyFile /\ DebianIndex # IndexPage
  BY ItemKinds DEF AnyFile
<1>8. Here # "pypi"
  BY <1>1, BusyIs, ItemKinds
<1>9. /\ \A m \in Repository : \A f \in AnyFile : Arrived(m, f) => ArrivedNext(m, f)
      /\ \A m \in Repository : PageLost(m) => PageLostNext(m)
  BY <1>1 DEF Arrived, ArrivedNext, PageLost, PageLostNext
<1>10. \A p, n : Known(p, n) => KnownNext(p, n)
  BY <1>1, <1>2, <1>6 DEF Known, KnownNext
<1>11. IndexLinksExist'
  BY <1>1, <1>6 DEF MirrorInv, IndexLinksExist
<1>12. row = NoWork /\ Here # "pypi" =>
           /\ Item(w) \in AnyFile => ArrivedNext(Here, Item(w))
           /\ Item(w) = IndexPage => PageLostNext(Here)
  BY <1>1, <1>7
<1> QED BY <1>1, <1>3, <1>4, <1>5, <1>6, <1>8, <1>9, <1>10, <1>11, <1>12, WorkerInv

\* What a worker that is in a project of PyPI has.
LEMMA ProjectIs ==
  ASSUME MirrorInv, NEW w \in SyncWorker, InProject(w)
  PROVE  /\ run.phase = "work" /\ working[w] # NoWork /\ Here = "pypi" /\ "pypi" \in Repository
         /\ PypiProject(w) \in Package /\ Item(w) = <<PypiProject(w), 0>> /\ Item(w) # NoItem
         /\ working[w].page \in 1..(MaxReleases + 1) /\ working[w].next \in Nat
         /\ working[w].tries \in 0..(MaxTries - 1) /\ working[w].have \in SUBSET AnyFile
         /\ working[w].next > 0 /\ working[w].next <= working[w].page + 1
         /\ upstream["pypi"][PypiProject(w)] \in 1..(MaxReleases + 1)
         /\ working[w].page <= upstream["pypi"][PypiProject(w)]
         /\ working[w].have \subseteq bucket["pypi"]
         /\ \A n \in 1..(working[w].next - 1) : Arrived("pypi", <<PypiProject(w), n>>)
         /\ \A n \in 1..upstream["pypi"][PypiProject(w)] :
              n > working[w].page => releasedAt[PypiProject(w)][n] > run.started
         /\ MaxReleases \in Nat /\ MaxTries \in Nat \ {0}
<1>1. /\ run.phase = "work" /\ working[w] # NoWork /\ Here = "pypi" /\ working[w].page > 0
  BY DEF InProject, Busy
<1>2. /\ PypiProject(w) \in Package /\ Item(w) = <<PypiProject(w), 0>> /\ Item(w) # NoItem
      /\ "pypi" \in Repository
  BY <1>1, BusyIs
<1>3. /\ working[w].page \in 0..(MaxReleases + 1) /\ working[w].next \in Nat
      /\ working[w].tries \in 0..(MaxTries - 1) /\ working[w].have \in SUBSET AnyFile
  BY WorkIs
<1>4. upstream["pypi"][PypiProject(w)] \in 1..(MaxReleases + 1)
  BY <1>2 DEF MirrorInv, MirrorTypes
<1>5. working[w].page \in 1..(MaxReleases + 1)
  BY <1>1, <1>3, MirrorAssumption
<1>6. /\ working[w].next > 0 /\ working[w].next <= working[w].page + 1
      /\ working[w].page <= upstream["pypi"][PypiProject(w)]
      /\ working[w].have \subseteq bucket["pypi"]
      /\ \A n \in 1..(working[w].next - 1) : Arrived("pypi", <<PypiProject(w), n>>)
      /\ \A n \in 1..upstream["pypi"][PypiProject(w)] :
           n > working[w].page => releasedAt[PypiProject(w)][n] > run.started
  BY <1>1 DEF MirrorInv, ProjectsAre
<1> QED BY <1>1, <1>2, <1>3, <1>4, <1>5, <1>6, MirrorAssumption

\* Steps that change nothing of the bucket: what was true of it stays.
LEMMA SameBucket ==
  ASSUME MirrorInv, bucket' = bucket, index' = index, lost \subseteq lost'
  PROVE  /\ bucket' \in [Repository -> SUBSET AnyFile]
         /\ \A m \in Repository : bucket[m] \subseteq bucket'[m] /\ bucket'[m] \subseteq Files(m)
         /\ index' \in [Repository -> SUBSET AnyFile]
         /\ \A m \in Repository : index'[m] \subseteq Files(m)
         /\ \A m, f : Arrived(m, f) => ArrivedNext(m, f)
         /\ \A m : PageLost(m) => PageLostNext(m)
         /\ \A p, n : Known(p, n) => KnownNext(p, n)
         /\ IndexLinksExist'
<1>1. IndexLinksExist'
  BY DEF MirrorInv, IndexLinksExist
<1>2. /\ \A m, f : Arrived(m, f) => ArrivedNext(m, f)
      /\ \A m : PageLost(m) => PageLostNext(m)
      /\ \A p, n : Known(p, n) => KnownNext(p, n)
  BY DEF Arrived, ArrivedNext, PageLost, PageLostNext, Known, KnownNext
<1> QED BY <1>1, <1>2, BucketIs

LEMMA FetchProjectInv ==
  ASSUME MirrorInv, NEW w \in SyncWorker, FetchProject(w)
  PROVE  MirrorInv'
<1>1. PICK page : page = upstream["pypi"][PypiProject(w)]
  OBVIOUS
<1>2. PICK have : have = {f \in bucket["pypi"] : f[1] = PypiProject(w)}
  OBVIOUS
<1>0. PICK one : one = 1
  OBVIOUS
<1>3. /\ run.phase = "work" /\ working[w] # NoWork /\ Here = "pypi"
      /\ Works(w, Item(w), working[w].tries, page, have, one)
      /\ UNCHANGED <<upstream, releasedAt, second, enabled, marker, run, queue, done, bucket, index, lost>>
  BY <1>1, <1>2, <1>0 DEF FetchProject, Busy, fixedVars
<1>4. /\ PypiProject(w) \in Package /\ Item(w) = <<PypiProject(w), 0>> /\ Item(w) # NoItem
      /\ "pypi" \in Repository
  BY <1>3, BusyIs
<1>5. page \in 1..(MaxReleases + 1) /\ page \in 0..(MaxReleases + 1)
  <2>1. page \in 1..(MaxReleases + 1)
    BY <1>1, <1>4 DEF MirrorInv, MirrorTypes
  <2> QED BY <2>1, MirrorAssumption
<1>6. have \subseteq bucket["pypi"] /\ have \in SUBSET AnyFile
  BY <1>2, <1>4, BucketIs
<1>7. working[w].tries \in 0..(MaxTries - 1) /\ one \in Nat
  BY <1>0, WorkIs
<1>row. PICK row \in WorkRow : row = [item |-> Item(w), tries |-> working[w].tries, page |-> page,
                                    have |-> have, next |-> one]
  <2>1. [item |-> Item(w), tries |-> working[w].tries, page |-> page,
         have |-> have, next |-> one] \in WorkRow
    BY <1>3, <1>5, <1>6, <1>7, WorkIs DEF WorkRow
  <2> QED BY <2>1
<1>8. /\ row \in WorkRow /\ working' = [working EXCEPT ![w] = row]
      /\ row.item = Item(w) /\ row.page = page /\ row.have = have /\ row.next = one
  BY <1>3, <1>5, <1>6, <1>7, <1>row DEF Works
<1>9. row # NoWork
  BY <1>4, <1>8, ItemKinds
<1>10. Here = "pypi" /\ row.page > 0 =>
           /\ row.next > 0 /\ row.next <= row.page + 1
           /\ row.page <= upstream["pypi"][PypiProject(w)] /\ row.have \subseteq bucket'["pypi"]
           /\ \A n \in 1..(row.next - 1) : ArrivedNext("pypi", <<PypiProject(w), n>>)
           /\ \A n \in 1..upstream["pypi"][PypiProject(w)] :
                n > row.page => releasedAt[PypiProject(w)][n] > run.started
  <2>1. row.next > 0 /\ row.next <= row.page + 1 /\ 1..(row.next - 1) = {}
    BY <1>5, <1>8, <1>0
  <2>2. \A n \in 1..upstream["pypi"][PypiProject(w)] : ~ n > row.page
    BY <1>1, <1>5, <1>8
  <2>3. row.page <= upstream["pypi"][PypiProject(w)]
    BY <1>1, <1>5, <1>8
  <2> QED BY <1>3, <1>6, <1>8, <2>1, <2>2, <2>3
<1> QED BY <1>3, <1>8, <1>9, <1>10, SameBucket, WorkerInv

LEMMA TransferProjectFileInv ==
  ASSUME MirrorInv, NEW w \in SyncWorker, TransferProjectFile(w)
  PROVE  MirrorInv'
<1>1. PICK q : q = PypiProject(w)
  OBVIOUS
<1>2. PICK k : k = working[w].next
  OBVIOUS
<1>0. PICK zero, next : zero = 0 /\ next = k + 1
  OBVIOUS
<1>3. /\ InProject(w) /\ k <= working[w].page
      /\ Works(w, Item(w), zero, working[w].page, working[w].have, next)
      /\ IF <<q, k>> \in working[w].have THEN bucket' = bucket
         ELSE bucket' = [bucket EXCEPT !["pypi"] = @ \cup {<<q, k>>}]
      /\ lost' = lost \ {<<"pypi", <<q, k>> >>}
      /\ UNCHANGED <<upstream, releasedAt, second, enabled, marker, run, queue, done, index>>
  BY <1>1, <1>2, <1>0 DEF TransferProjectFile, NextFile, FileOf, Put, fixedVars
<1>4. /\ run.phase = "work" /\ working[w] # NoWork /\ Here = "pypi" /\ "pypi" \in Repository
      /\ q \in Package /\ Item(w) = <<q, 0>> /\ Item(w) # NoItem
      /\ working[w].page \in 1..(MaxReleases + 1) /\ k \in Nat
      /\ working[w].have \in SUBSET AnyFile
      /\ k > 0 /\ k <= working[w].page + 1
      /\ upstream["pypi"][q] \in 1..(MaxReleases + 1)
      /\ working[w].page <= upstream["pypi"][q]
      /\ working[w].have \subseteq bucket["pypi"]
      /\ \A n \in 1..(k - 1) : Arrived("pypi", <<q, n>>)
      /\ \A n \in 1..upstream["pypi"][q] :
           n > working[w].page => releasedAt[q][n] > run.started
      /\ MaxReleases \in Nat /\ MaxTries \in Nat \ {0}
  BY <1>1, <1>2, <1>3, ProjectIs
<1>5. <<q, k>> \in AnyFile /\ <<q, k>> \in Files("pypi")
  <2>1. k \in 1..(MaxReleases + 1) /\ k <= upstream["pypi"][q]
    BY <1>3, <1>4
  <2> QED BY <1>4, <2>1 DEF AnyFile, Files
<1>6. /\ bucket' \in [Repository -> SUBSET AnyFile]
      /\ \A m \in Repository : bucket[m] \subseteq bucket'[m] /\ bucket'[m] \subseteq Files(m)
  BY <1>3, <1>4, <1>5, BucketIs
<1>7. <<q, k>> \in bucket'["pypi"]
  BY <1>3, <1>4, <1>5, BucketIs
<1>8. index' \in [Repository -> SUBSET AnyFile] /\ \A m \in Repository : index'[m] \subseteq Files(m)
  BY <1>3, BucketIs
<1>9. zero \in 0..(MaxTries - 1) /\ working[w].page \in 0..(MaxReleases + 1) /\ next \in Nat
  BY <1>4, <1>0
<1>row. PICK row \in WorkRow : row = [item |-> Item(w), tries |-> zero, page |-> working[w].page,
                                    have |-> working[w].have, next |-> next]
  <2>1. [item |-> Item(w), tries |-> zero, page |-> working[w].page,
         have |-> working[w].have, next |-> next] \in WorkRow
    BY <1>3, <1>4, <1>9, WorkIs DEF WorkRow
  <2> QED BY <2>1
<1>10. /\ row \in WorkRow /\ working' = [working EXCEPT ![w] = row]
      /\ row.item = Item(w) /\ row.page = working[w].page
      /\ row.have = working[w].have /\ row.next = next
  BY <1>3, <1>4, <1>9, <1>row DEF Works
<1>11. row # NoWork
  BY <1>4, <1>10, ItemKinds
<1>12. \A m, f : <<m, f>> \in lost => <<m, f>> \in lost' \/ (m = "pypi" /\ f = <<q, k>>)
  BY <1>3
<1>13. \A m \in Repository : \A f \in AnyFile : Arrived(m, f) => ArrivedNext(m, f)
  BY <1>6, <1>7, <1>12 DEF Arrived, ArrivedNext
<1>14. \A m \in Repository : PageLost(m) => PageLostNext(m)
  <2>1. IndexPage # <<q, k>>
    BY ItemKinds
  <2> QED BY <1>12, <2>1 DEF PageLost, PageLostNext
<1>15. \A p \in Package : \A n : Known(p, n) => KnownNext(p, n)
  <2>1. \A p : <<p, 0>> # <<q, k>>
    BY <1>4
  <2> QED BY <1>3, <1>12, <2>1 DEF Known, KnownNext
<1>16. IndexLinksExist'
  <2> SUFFICES ASSUME NEW m \in Repository \ {"debian"}, NEW f \in index[m]
               PROVE  ArrivedNext(m, f) \/ PageLostNext(m)
    BY <1>3 DEF IndexLinksExist, ArrivedNext, PageLostNext
  <2>1. f \in AnyFile
    BY BucketIs
  <2>2. Arrived(m, f) \/ PageLost(m)
    BY DEF MirrorInv, IndexLinksExist, Arrived, PageLost
  <2> QED BY <1>13, <1>14, <2>1, <2>2
<1>17. Here = "pypi" /\ row.page > 0 =>
           /\ row.next > 0 /\ row.next <= row.page + 1
           /\ row.page <= upstream["pypi"][PypiProject(w)] /\ row.have \subseteq bucket'["pypi"]
           /\ \A n \in 1..(row.next - 1) : ArrivedNext("pypi", <<PypiProject(w), n>>)
           /\ \A n \in 1..upstream["pypi"][PypiProject(w)] :
                n > row.page => releasedAt[PypiProject(w)][n] > run.started
  <2>1. row.next > 0 /\ row.next <= row.page + 1
    BY <1>3, <1>4, <1>10, <1>0
  <2>2. row.have \subseteq bucket'["pypi"]
    BY <1>4, <1>6, <1>10
  <2>3. ASSUME NEW n \in 1..(row.next - 1)
        PROVE  ArrivedNext("pypi", <<q, n>>)
    <3>1. CASE n = k
      BY <1>7, <3>1 DEF ArrivedNext
    <3>2. CASE n # k
      <4>1. n \in 1..(k - 1) /\ n \in 1..(MaxReleases + 1)
        BY <1>3, <1>4, <1>10, <1>0, <3>2
      <4>2. <<q, n>> \in AnyFile
        BY <1>4, <4>1 DEF AnyFile
      <4> QED BY <1>4, <1>13, <4>1, <4>2
    <3> QED BY <3>1, <3>2
  <2> QED BY <1>1, <1>4, <1>10, <2>1, <2>2, <2>3
<1>18. Here # "pypi" => row.page = 0
  BY <1>4
<1> QED BY <1>3, <1>4, <1>6, <1>8, <1>10, <1>11, <1>13, <1>14, <1>15, <1>16, <1>17, <1>18, WorkerInv

LEMMA WriteProjectPageInv ==
  ASSUME MirrorInv, NEW w \in SyncWorker, WriteProjectPage(w)
  PROVE  MirrorInv'
<1>1. PICK q : q = PypiProject(w)
  OBVIOUS
<1>2. PICK page : page = working[w].page
  OBVIOUS
<1>3. PICK names : names = {f \in index["pypi"] : f[1] # q} \cup {<<q, n>> : n \in 1..page}
  OBVIOUS
<1>4. /\ InProject(w) /\ working[w].next > page
      /\ working' = [working EXCEPT ![w] = NoWork]
      /\ index' = [index EXCEPT !["pypi"] = names]
      /\ lost' = lost \ {<<"pypi", <<q, 0>> >>}
      /\ UNCHANGED <<upstream, releasedAt, second, enabled, marker, run, queue, done, bucket>>
  BY <1>1, <1>2, <1>3 DEF WriteProjectPage, FreeWorker, fixedVars
<1>5. /\ run.phase = "work" /\ working[w] # NoWork /\ Here = "pypi" /\ "pypi" \in Repository
      /\ q \in Package /\ Item(w) = <<q, 0>> /\ Item(w) # NoItem
      /\ page \in 1..(MaxReleases + 1) /\ working[w].next \in Nat
      /\ working[w].next <= page + 1
      /\ upstream["pypi"][q] \in 1..(MaxReleases + 1)
      /\ page <= upstream["pypi"][q]
      /\ \A n \in 1..(working[w].next - 1) : Arrived("pypi", <<q, n>>)
      /\ \A n \in 1..upstream["pypi"][q] : n > page => releasedAt[q][n] > run.started
      /\ MaxReleases \in Nat /\ MaxTries \in Nat \ {0}
  BY <1>1, <1>2, <1>4, ProjectIs
<1>6. \A n \in 1..page : /\ n \in 1..(MaxReleases + 1) /\ <<q, n>> \in AnyFile
                         /\ <<q, n>> \in Files("pypi") /\ Arrived("pypi", <<q, n>>)
  <2> SUFFICES ASSUME NEW n \in 1..page
               PROVE  /\ n \in 1..(MaxReleases + 1) /\ <<q, n>> \in AnyFile
                      /\ <<q, n>> \in Files("pypi") /\ Arrived("pypi", <<q, n>>)
    OBVIOUS
  <2>1. n \in 1..(MaxReleases + 1) /\ n <= upstream["pypi"][q] /\ n \in 1..(working[w].next - 1)
    BY <1>4, <1>5
  <2> QED BY <1>5, <2>1 DEF AnyFile, Files
<1>7. names \in SUBSET AnyFile /\ names \subseteq Files("pypi")
  BY <1>3, <1>5, <1>6, BucketIs
<1>8. /\ index' \in [Repository -> SUBSET AnyFile] /\ \A m \in Repository : index'[m] \subseteq Files(m)
      /\ index'["pypi"] = names /\ \A m \in Repository \ {"pypi"} : index'[m] = index[m]
  BY <1>4, <1>5, <1>7, BucketIs
<1>9. /\ bucket' \in [Repository -> SUBSET AnyFile]
      /\ \A m \in Repository : bucket[m] \subseteq bucket'[m] /\ bucket'[m] \subseteq Files(m)
  BY <1>4, BucketIs
<1>10. PICK row \in WorkRow : row = NoWork
  BY NoWorkIsRow
<1>11. working' = [working EXCEPT ![w] = row] /\ row.page = 0
  BY <1>4, <1>10, ItemKinds
<1>12. \A m, f : <<m, f>> \in lost => <<m, f>> \in lost' \/ (m = "pypi" /\ f = <<q, 0>>)
  BY <1>4
<1>13. \A m \in Repository : \A f \in AnyFile : Arrived(m, f) => ArrivedNext(m, f)
  <2>1. \A f \in AnyFile : f # <<q, 0>>
    BY DEF AnyFile
  <2> QED BY <1>4, <1>12, <2>1 DEF Arrived, ArrivedNext
<1>14. \A m \in Repository : PageLost(m) => PageLostNext(m)
  <2>1. IndexPage # <<q, 0>>
    BY ItemKinds
  <2> QED BY <1>12, <2>1 DEF PageLost, PageLostNext
<1>15. \A n \in 1..upstream["pypi"][q] : releasedAt[q][n] <= run.started => KnownNext(q, n)
  <2> SUFFICES ASSUME NEW n \in 1..upstream["pypi"][q], releasedAt[q][n] <= run.started
               PROVE  KnownNext(q, n)
    OBVIOUS
  <2>1. n \in 1..(MaxReleases + 1)
    BY <1>5
  <2>2. releasedAt[q][n] \in Nat
    BY <1>5, <2>1 DEF MirrorInv, MirrorTypes
  <2>3. ~ n > page
    BY <1>5, <2>2, RunIs
  <2>4. n \in 1..page
    BY <1>5, <2>3
  <2> QED BY <1>3, <1>8, <2>4 DEF KnownNext
<1>16. ASSUME NEW p \in Package, NEW n \in 1..upstream["pypi"][p],
              Here # "pypi" \/ releasedAt[p][n] <= run.started, Known(p, n)
       PROVE  KnownNext(p, n)
  <2>1. CASE p = q
    BY <1>5, <1>15, <1>16, <2>1
  <2>2. CASE p # q
    <3>1. <<p, 0>> # <<q, 0>>
      BY <2>2
    <3>2. <<p, n>> \in index["pypi"] => <<p, n>> \in names
      BY <1>3, <2>2
    <3> QED BY <1>8, <1>12, <1>16, <3>1, <3>2 DEF Known, KnownNext
  <2> QED BY <2>1, <2>2
<1>17. IndexLinksExist'
  <2> SUFFICES ASSUME NEW m \in Repository \ {"debian"}, NEW f \in index'[m]
               PROVE  ArrivedNext(m, f) \/ PageLostNext(m)
    BY <1>4 DEF IndexLinksExist, ArrivedNext, PageLostNext
  <2>1. f \in AnyFile
    BY <1>8
  <2>2. CASE f \in index[m]
    <3>1. Arrived(m, f) \/ PageLost(m)
      BY <2>2 DEF MirrorInv, IndexLinksExist, Arrived, PageLost
    <3> QED BY <1>13, <1>14, <2>1, <3>1
  <2>3. CASE f \notin index[m]
    <3>1. m = "pypi" /\ f \in names
      BY <1>8, <2>3
    <3>2. f \in {<<q, n>> : n \in 1..page}
      BY <1>3, <2>3, <3>1
    <3>3. Arrived(m, f)
      BY <1>6, <3>1, <3>2
    <3> QED BY <1>13, <2>1, <3>3
  <2> QED BY <2>2, <2>3
<1>18. row = NoWork /\ Here = "pypi" =>
         \A n \in 1..upstream["pypi"][PypiProject(w)] :
           releasedAt[PypiProject(w)][n] <= run.started => KnownNext(PypiProject(w), n)
  BY <1>1, <1>15
<1>19. Here = "pypi" /\ ~ row.page > 0
  BY <1>5, <1>11
<1> QED BY <1>4, <1>5, <1>8, <1>9, <1>10, <1>11, <1>13, <1>14, <1>16, <1>17, <1>18, <1>19, WorkerInv

LEMMA RetryInv ==
  ASSUME MirrorInv, NEW w \in SyncWorker, Retry(w)
  PROVE  MirrorInv'
<1>1. PICK tries : tries = working[w].tries + 1
  OBVIOUS
<1>2. /\ run.phase = "work" /\ working[w] # NoWork /\ tries < MaxTries
      /\ Here = "pypi" => working[w].page > 0
      /\ Works(w, Item(w), tries, working[w].page, working[w].have, working[w].next)
      /\ UNCHANGED <<upstream, releasedAt, second, enabled, marker, run, queue, done, bucket, index, lost>>
  BY <1>1 DEF Retry, Needed, Busy, MustRetry, fixedVars
<1>3. /\ tries \in 0..(MaxTries - 1) /\ working[w].page \in 0..(MaxReleases + 1)
      /\ working[w].have \in SUBSET AnyFile /\ working[w].next \in Nat
  BY <1>1, <1>2, WorkIs, MirrorAssumption
<1>row. PICK row \in WorkRow : row = [item |-> Item(w), tries |-> tries, page |-> working[w].page,
                                    have |-> working[w].have, next |-> working[w].next]
  <2>1. [item |-> Item(w), tries |-> tries, page |-> working[w].page,
         have |-> working[w].have, next |-> working[w].next] \in WorkRow
    BY <1>2, <1>3, WorkIs DEF WorkRow
  <2> QED BY <2>1
<1>4. /\ row \in WorkRow /\ working' = [working EXCEPT ![w] = row]
      /\ row.item = Item(w) /\ row.page = working[w].page
      /\ row.have = working[w].have /\ row.next = working[w].next
  BY <1>2, <1>3, <1>row DEF Works
<1>5. row # NoWork /\ (Here # "pypi" => row.page = 0)
  BY <1>2, <1>4, ItemKinds, BusyIs
<1>6. Here = "pypi" /\ row.page > 0 =>
           /\ row.next > 0 /\ row.next <= row.page + 1
           /\ row.page <= upstream["pypi"][PypiProject(w)] /\ row.have \subseteq bucket'["pypi"]
           /\ \A n \in 1..(row.next - 1) : ArrivedNext("pypi", <<PypiProject(w), n>>)
           /\ \A n \in 1..upstream["pypi"][PypiProject(w)] :
                n > row.page => releasedAt[PypiProject(w)][n] > run.started
  <2> SUFFICES ASSUME Here = "pypi"
               PROVE  /\ row.next > 0 /\ row.next <= row.page + 1
                      /\ row.page <= upstream["pypi"][PypiProject(w)] /\ row.have \subseteq bucket'["pypi"]
                      /\ \A n \in 1..(row.next - 1) : ArrivedNext("pypi", <<PypiProject(w), n>>)
                      /\ \A n \in 1..upstream["pypi"][PypiProject(w)] :
                           n > row.page => releasedAt[PypiProject(w)][n] > run.started
    OBVIOUS
  <2>1. InProject(w)
    BY <1>2 DEF InProject, Busy
  <2> QED BY <1>2, <1>4, <2>1, ProjectIs, SameBucket
<1> QED BY <1>2, <1>4, <1>5, <1>6, SameBucket, WorkerInv

LEMMA GiveUpFileInv ==
  ASSUME MirrorInv, NEW w \in SyncWorker, GiveUp(w), Here = "pypi"
  PROVE  MirrorInv'
<1>1. PICK q : q = PypiProject(w)
  OBVIOUS
<1>2. PICK k, zero, next : k = working[w].next /\ zero = 0 /\ next = k + 1
  OBVIOUS
<1>3. /\ InProject(w) /\ k <= working[w].page
      /\ Works(w, Item(w), zero, working[w].page, working[w].have, next)
      /\ lost' = lost \cup {<<"pypi", <<q, k>> >>}
      /\ UNCHANGED <<upstream, releasedAt, second, enabled, marker, run, queue, done, bucket, index>>
  BY <1>1, <1>2 DEF GiveUp, NextFile, FileOf, fixedVars
<1>4. /\ run.phase = "work" /\ working[w] # NoWork /\ Here = "pypi" /\ "pypi" \in Repository
      /\ q \in Package /\ Item(w) = <<q, 0>> /\ Item(w) # NoItem
      /\ working[w].page \in 1..(MaxReleases + 1) /\ k \in Nat
      /\ working[w].have \in SUBSET AnyFile
      /\ k > 0 /\ k <= working[w].page + 1
      /\ working[w].page <= upstream["pypi"][q]
      /\ working[w].have \subseteq bucket["pypi"]
      /\ \A n \in 1..(k - 1) : Arrived("pypi", <<q, n>>)
      /\ \A n \in 1..upstream["pypi"][q] :
           n > working[w].page => releasedAt[q][n] > run.started
      /\ MaxReleases \in Nat /\ MaxTries \in Nat \ {0}
  BY <1>1, <1>2, <1>3, ProjectIs
<1>5. zero \in 0..(MaxTries - 1) /\ working[w].page \in 0..(MaxReleases + 1) /\ next \in Nat
  BY <1>2, <1>4
<1>row. PICK row \in WorkRow : row = [item |-> Item(w), tries |-> zero, page |-> working[w].page,
                                    have |-> working[w].have, next |-> next]
  <2>1. [item |-> Item(w), tries |-> zero, page |-> working[w].page,
         have |-> working[w].have, next |-> next] \in WorkRow
    BY <1>3, <1>4, <1>5, WorkIs DEF WorkRow
  <2> QED BY <2>1
<1>6. /\ row \in WorkRow /\ working' = [working EXCEPT ![w] = row]
      /\ row.item = Item(w) /\ row.page = working[w].page
      /\ row.have = working[w].have /\ row.next = next
  BY <1>3, <1>4, <1>5, <1>row DEF Works
<1>7. row # NoWork
  BY <1>4, <1>6, ItemKinds
<1>8. bucket' = bucket /\ index' = index /\ lost \subseteq lost' /\ ArrivedNext("pypi", <<q, k>>)
  BY <1>3 DEF ArrivedNext
<1>9. Here = "pypi" /\ row.page > 0 =>
           /\ row.next > 0 /\ row.next <= row.page + 1
           /\ row.page <= upstream["pypi"][PypiProject(w)] /\ row.have \subseteq bucket'["pypi"]
           /\ \A n \in 1..(row.next - 1) : ArrivedNext("pypi", <<PypiProject(w), n>>)
           /\ \A n \in 1..upstream["pypi"][PypiProject(w)] :
                n > row.page => releasedAt[PypiProject(w)][n] > run.started
  <2>1. row.next > 0 /\ row.next <= row.page + 1
    BY <1>2, <1>3, <1>4, <1>6
  <2>2. ASSUME NEW n \in 1..(row.next - 1)
        PROVE  ArrivedNext("pypi", <<q, n>>)
    <3>1. CASE n = k
      BY <1>8, <3>1
    <3>2. CASE n # k
      <4>1. n \in 1..(k - 1)
        BY <1>2, <1>4, <1>6, <3>2
      <4> QED BY <1>4, <1>8, <4>1, SameBucket
    <3> QED BY <3>1, <3>2
  <2> QED BY <1>1, <1>4, <1>6, <1>8, <2>1, <2>2
<1> QED BY <1>3, <1>4, <1>6, <1>7, <1>8, <1>9, SameBucket, WorkerInv

LEMMA GiveUpItemInv ==
  ASSUME MirrorInv, NEW w \in SyncWorker, GiveUpItem(w) \/ (GiveUp(w) /\ Here # "pypi")
  PROVE  MirrorInv'
<1>1. /\ run.phase = "work" /\ working[w] # NoWork
      /\ working' = [working EXCEPT ![w] = NoWork]
      /\ lost' = lost \cup {<<Here, Item(w)>>}
      /\ UNCHANGED <<upstream, releasedAt, second, enabled, marker, run, queue, done, bucket, index>>
  BY DEF GiveUpItem, GiveUp, Needed, Busy, FreeWorker, fixedVars
<1>2. PICK row \in WorkRow : row = NoWork
  BY NoWorkIsRow
<1>3. working' = [working EXCEPT ![w] = row] /\ row.page = 0 /\ ~ row.page > 0
  BY <1>1, <1>2, ItemKinds
<1>4. bucket' = bucket /\ index' = index /\ lost \subseteq lost' /\ <<Here, Item(w)>> \in lost'
  BY <1>1
<1>5. row = NoWork /\ Here # "pypi" =>
           /\ Item(w) \in AnyFile => ArrivedNext(Here, Item(w))
           /\ Item(w) = IndexPage => PageLostNext(Here)
  BY <1>4 DEF ArrivedNext, PageLostNext
<1>6. row = NoWork /\ Here = "pypi" =>
         \A n \in 1..upstream["pypi"][PypiProject(w)] :
           releasedAt[PypiProject(w)][n] <= run.started => KnownNext(PypiProject(w), n)
  <2>1. Here = "pypi" => Item(w) = <<PypiProject(w), 0>>
    BY <1>1, BusyIs
  <2>2. ASSUME Here = "pypi", NEW n
        PROVE  KnownNext(PypiProject(w), n)
    <3>1. <<"pypi", <<PypiProject(w), 0>> >> \in lost'
      BY <1>4, <2>1, <2>2
    <3> QED BY <3>1 DEF KnownNext
  <2> QED BY <2>2
<1> QED BY <1>1, <1>2, <1>3, <1>4, <1>5, <1>6, SameBucket, WorkerInv

(***************************************************************************)
(* The queue.                                                              *)
(***************************************************************************)
LEMMA GetInv ==
  ASSUME MirrorInv, NEW w \in SyncWorker, NEW i \in queue, Get(w, i)
  PROVE  MirrorInv'
<1>1. PICK row : row = [item |-> i, tries |-> 0, page |-> 0, have |-> {}, next |-> 0]
  OBVIOUS
<1>2. /\ run.phase = "work" /\ working[w] = NoWork /\ queue' = queue \ {i}
      /\ working' = [working EXCEPT ![w] = row]
      /\ UNCHANGED <<upstream, releasedAt, second, enabled, marker, run, done, bucket, index, lost>>
  BY <1>1 DEF Get, Works, fixedVars
<1>3. /\ Here \in Repository /\ i \in ItemsOf(Here) /\ queue \subseteq ItemsOf(Here)
      /\ \A v \in SyncWorker : working[v] # NoWork => Item(v) = IndexPage \/ Item(v) # i
      /\ IF Here \in Crawled THEN queue \subseteq done \cup {IndexPage} ELSE done = {}
  BY <1>2, RunIs DEF MirrorInv, ItemsAre
<1>4. i \in Items /\ i # NoItem
  <2>1. Files(Here) \subseteq AnyFile
    BY DEF Files, AnyFile
  <2>2. i \in Items
    BY <1>3, <2>1 DEF ItemsOf, Items
  <2> QED BY <2>2, ItemKinds DEF Items, AnyFile
<1>5. row \in WorkRow /\ row.item = i /\ row.page = 0 /\ row # NoWork
  BY <1>1, <1>4, ItemKinds, MirrorAssumption DEF WorkRow
<1>6. /\ bucket' \in [Repository -> SUBSET AnyFile]
      /\ \A m \in Repository : bucket[m] \subseteq bucket'[m] /\ bucket'[m] \subseteq Files(m)
      /\ index' \in [Repository -> SUBSET AnyFile] /\ \A m \in Repository : index'[m] \subseteq Files(m)
  BY <1>2, BucketIs
<1>7. /\ MirrorTypes' /\ PhasesAre'
      /\ Here' = Here /\ (\A m : Files(m)' = Files(m)) /\ ItemsOf(Here)' = ItemsOf(Here)
      /\ working'[w] = row /\ \A v \in SyncWorker \ {w} : working'[v] = working[v]
  BY <1>2, <1>5, <1>6, WorkerTypes
<1>8. /\ \A v \in SyncWorker \ {w} : Item(v)' = Item(v) /\ PypiProject(v)' = PypiProject(v)
      /\ Item(w)' = i /\ Item(w) = NoItem
  BY <1>2, <1>5, <1>7, WorkIs DEF Item, PypiProject
<1>9. \A j : j # NoItem /\ Waits(j) => WaitsNext(j)
  <2> SUFFICES ASSUME NEW j, j # NoItem, Waits(j) PROVE WaitsNext(j)
    OBVIOUS
  <2>1. CASE j = i
    BY <1>5, <1>7, <2>1 DEF WaitsNext
  <2>2. CASE j # i /\ j \in queue
    BY <1>2, <2>2 DEF WaitsNext
  <2>3. CASE \E v \in SyncWorker : Item(v) = j
    <3>1. PICK v \in SyncWorker : Item(v) = j
      BY <2>3
    <3>2. v # w
      BY <1>8, <3>1
    <3> QED BY <1>7, <3>1, <3>2 DEF WaitsNext, Item
  <2> QED BY <2>1, <2>2, <2>3 DEF Waits
<1>10. ItemsAre'
  <2>1. queue' \subseteq ItemsOf(Here)' /\ Here' = Here
    BY <1>2, <1>3, <1>7
  <2>2. IF Here' \in Crawled THEN queue' \subseteq done' \cup {IndexPage} ELSE done' = {}
    BY <1>2, <1>3, <1>7
  <2>3. ASSUME NEW v \in SyncWorker, working'[v] # NoWork
        PROVE  /\ Item(v)' \in ItemsOf(Here)' /\ (Item(v)' = IndexPage \/ Item(v)' \notin queue')
               /\ \A u \in SyncWorker : u # v /\ Item(u)' = Item(v)' => Item(v)' = IndexPage
               /\ Here' # "pypi" => working'[v].page = 0
               /\ Here' \in Crawled => Item(v)' \in done' \cup {IndexPage}
    <3>1. CASE v = w
      <4>1. Item(v)' = i /\ working'[v] = row
        BY <1>7, <1>8, <3>1
      <4>2. ASSUME NEW u \in SyncWorker, u # v, Item(u)' = Item(v)'
            PROVE  i = IndexPage
        <5>1. Item(u) = i
          BY <1>8, <3>1, <4>1, <4>2
        <5> QED BY <1>3, <1>4, <5>1, WorkIs
      <4> QED BY <1>2, <1>3, <1>5, <1>7, <4>1, <4>2
    <3>2. CASE v # w
      <4>1. Item(v)' = Item(v) /\ working'[v] = working[v]
        BY <1>7, <1>8, <3>2
      <4>2. /\ Item(v) \in ItemsOf(Here) /\ (Item(v) = IndexPage \/ Item(v) \notin queue)
            /\ \A u \in SyncWorker : u # v /\ Item(u) = Item(v) => Item(v) = IndexPage
            /\ Here # "pypi" => working[v].page = 0
            /\ Here \in Crawled => Item(v) \in done \cup {IndexPage}
        BY <1>2, <2>3, <4>1 DEF MirrorInv, ItemsAre
      <4>3. ASSUME NEW u \in SyncWorker, u # v, Item(u)' = Item(v)'
            PROVE  Item(v) = IndexPage
        <5>1. CASE u = w
          BY <1>3, <1>8, <2>3, <4>1, <4>3, <5>1
        <5>2. CASE u # w
          BY <1>8, <4>1, <4>2, <4>3, <5>2
        <5> QED BY <5>1, <5>2
      <4> QED BY <1>2, <1>7, <4>1, <4>2, <4>3
    <3> QED BY <3>1, <3>2
  <2> QED BY <2>1, <2>2, <2>3 DEF ItemsAre
<1>11. FilesArrive'
  <2>1. run.listed \in SUBSET AnyFile /\ NoItem \notin AnyFile /\ IndexPage # NoItem
    BY RunIs, ItemKinds DEF AnyFile
  <2>2. Here = "conda" => \A f \in run.listed : WaitsNext(f) \/ ArrivedNext(Here, f)
    BY <1>2, <1>9, <2>1 DEF MirrorInv, FilesArrive, Arrived, ArrivedNext
  <2>3. Here = "cran" => /\ \A f \in done \cap AnyFile : WaitsNext(f) \/ ArrivedNext(Here, f)
                         /\ WaitsNext(IndexPage) \/ PageLostNext(Here) \/ run.listed \subseteq done
    BY <1>2, <1>9, <2>1 DEF MirrorInv, FilesArrive, Arrived, ArrivedNext, PageLost, PageLostNext
  <2> QED BY <1>2, <1>7, <2>2, <2>3
          DEF FilesArrive, Arrived, PageLost, Waits, ArrivedNext, PageLostNext, WaitsNext, Item
<1>12. ProjectsAre'
  <2> SUFFICES ASSUME Here = "pypi", NEW v \in SyncWorker, working'[v] # NoWork, working'[v].page > 0,
                      NEW q, q = PypiProject(v)'
               PROVE  /\ working'[v].next > 0 /\ working'[v].next <= working'[v].page + 1
                      /\ working'[v].page <= upstream["pypi"][q]
                      /\ working'[v].have \subseteq bucket'["pypi"]
                      /\ \A n \in 1..(working'[v].next - 1) : ArrivedNext("pypi", <<q, n>>)
                      /\ \A n \in 1..upstream["pypi"][q] :
                           n > working'[v].page => releasedAt[q][n] > run.started
    BY <1>2, <1>7 DEF ProjectsAre, Arrived, ArrivedNext
  <2>1. v # w
    BY <1>5, <1>7
  <2>2. working'[v] = working[v] /\ q = PypiProject(v)
    BY <1>7, <1>8, <2>1
  <2> QED BY <1>2, <2>2 DEF MirrorInv, ProjectsAre, Arrived, ArrivedNext
<1>13. MarkerIsPassed'
  <2>1. \A p : <<p, 0>> # NoItem
    BY ItemKinds
  <2>2. Here = "pypi" => /\ marker <= run.started
                         /\ \A p \in Package : \A n \in 1..upstream["pypi"][p] :
                              releasedAt[p][n] <= run.started => KnownNext(p, n) \/ WaitsNext(<<p, 0>>)
    BY <1>2, <1>9, <2>1 DEF MirrorInv, MarkerIsPassed, Known, KnownNext
  <2> QED BY <1>2, <1>7, <2>2 DEF MarkerIsPassed, Known, Waits, KnownNext, WaitsNext, Item
<1>14. IndexLinksExist' /\ MarkerMissesNothing'
  BY <1>2 DEF MirrorInv, IndexLinksExist, MarkerMissesNothing
<1> QED BY <1>7, <1>10, <1>11, <1>12, <1>13, <1>14 DEF MirrorInv

LEMMA CrawlPageInv ==
  ASSUME MirrorInv, NEW w \in SyncWorker, CrawlPage(w)
  PROVE  MirrorInv'
<1>1. PICK links : links = Links
  OBVIOUS
<1>2. /\ run.phase = "work" /\ working[w] # NoWork /\ Item(w) = IndexPage
      /\ working' = [working EXCEPT ![w] = NoWork]
      /\ queue' = queue \cup links /\ done' = done \cup links
      /\ UNCHANGED <<upstream, releasedAt, second, enabled, marker, run, bucket, index, lost>>
  BY <1>1 DEF CrawlPage, Busy, FreeWorker, fixedVars
<1>3. Here \in Crawled /\ Here # "pypi" /\ Here \in Repository
  <2>1. IndexPage \notin Package \X {0} /\ IndexPage \notin Files(Here)
    BY ItemKinds DEF Files
  <2> QED BY <1>2, <2>1, BusyIs DEF ItemsOf, Crawled
<1>4. /\ links \subseteq Files(Here) \cup {IndexPage, DebianIndex}
      /\ links \cap done = {}
      /\ Here = "cran" => links = (Files(Here) \cup {IndexPage}) \ done
  BY <1>1 DEF Links
<1>5. links \subseteq ItemsOf(Here)
  BY <1>3, <1>4 DEF ItemsOf
<1>6. PICK row \in WorkRow : row = NoWork
  BY NoWorkIsRow
<1>7. working' = [working EXCEPT ![w] = row]
  BY <1>2, <1>6
<1>8. /\ bucket' \in [Repository -> SUBSET AnyFile]
      /\ \A m \in Repository : bucket[m] \subseteq bucket'[m] /\ bucket'[m] \subseteq Files(m)
      /\ index' \in [Repository -> SUBSET AnyFile] /\ \A m \in Repository : index'[m] \subseteq Files(m)
  BY <1>2, BucketIs
<1>9. /\ MirrorTypes' /\ PhasesAre'
      /\ Here' = Here /\ (\A m : Files(m)' = Files(m)) /\ ItemsOf(Here)' = ItemsOf(Here)
      /\ working'[w] = row /\ \A v \in SyncWorker \ {w} : working'[v] = working[v]
  BY <1>2, <1>6, <1>7, <1>8, WorkerTypes
<1>10. /\ \A v \in SyncWorker \ {w} : Item(v)' = Item(v)
       /\ Item(w)' = NoItem
  BY <1>6, <1>9, ItemKinds DEF Item
<1>11. \A i : Waits(i) /\ i # IndexPage => WaitsNext(i)
  BY <1>2, <1>9 DEF Waits, WaitsNext, Item
<1>12. ItemsAre'
  <2>1. queue' \subseteq ItemsOf(Here)'
    BY <1>2, <1>5, <1>9 DEF MirrorInv, ItemsAre
  <2>2. IF Here' \in Crawled THEN queue' \subseteq done' \cup {IndexPage} ELSE done' = {}
    BY <1>2, <1>3, <1>9 DEF MirrorInv, ItemsAre
  <2>3. ASSUME NEW v \in SyncWorker, working'[v] # NoWork
        PROVE  /\ Item(v)' \in ItemsOf(Here)' /\ (Item(v)' = IndexPage \/ Item(v)' \notin queue')
               /\ \A u \in SyncWorker : u # v /\ Item(u)' = Item(v)' => Item(v)' = IndexPage
               /\ Here' # "pypi" => working'[v].page = 0
               /\ Here' \in Crawled => Item(v)' \in done' \cup {IndexPage}
    <3>1. v # w /\ Item(v)' = Item(v) /\ working'[v] = working[v]
      BY <1>6, <1>9, <1>10, <2>3
    <3>2. /\ Item(v) \in ItemsOf(Here) /\ (Item(v) = IndexPage \/ Item(v) \notin queue)
          /\ \A u \in SyncWorker : u # v /\ Item(u) = Item(v) => Item(v) = IndexPage
          /\ Here # "pypi" => working[v].page = 0
          /\ Item(v) \in done \cup {IndexPage} /\ Item(v) # NoItem
      BY <1>2, <1>3, <2>3, <3>1, BusyIs DEF MirrorInv, ItemsAre
    <3>3. Item(v) = IndexPage \/ Item(v) \notin queue'
      BY <1>2, <1>4, <3>2
    <3>4. ASSUME NEW u \in SyncWorker, u # v, Item(u)' = Item(v)'
          PROVE  Item(v) = IndexPage
      <4>1. u # w
        BY <1>10, <3>1, <3>2, <3>4
      <4> QED BY <1>10, <3>1, <3>2, <3>4, <4>1
    <3> QED BY <1>2, <1>9, <3>1, <3>2, <3>3, <3>4
  <2> QED BY <2>1, <2>2, <2>3 DEF ItemsAre
<1>13. FilesArrive'
  <2>1. \A m, f : Arrived(m, f) => ArrivedNext(m, f)
    BY <1>2 DEF Arrived, ArrivedNext
  <2>2. Here = "cran" => \A f \in done' \cap AnyFile : WaitsNext(f) \/ ArrivedNext(Here, f)
    <3> SUFFICES ASSUME Here = "cran", NEW f \in done' \cap AnyFile
                 PROVE  WaitsNext(f) \/ ArrivedNext(Here, f)
      OBVIOUS
    <3>1. CASE f \in links
      BY <1>2, <3>1 DEF WaitsNext
    <3>2. CASE f \notin links
      <4>1. f \in done /\ f # IndexPage
        BY <1>2, <3>2, ItemKinds DEF AnyFile
      <4>2. Waits(f) \/ Arrived(Here, f)
        BY <1>2, <4>1 DEF MirrorInv, FilesArrive
      <4> QED BY <1>11, <2>1, <4>1, <4>2
    <3> QED BY <3>1, <3>2
  <2>3. Here = "cran" => run.listed \subseteq done'
    <3>1. run.listed \subseteq Files(Here)
      BY <1>2, RunIs
    <3> QED BY <1>2, <1>4, <3>1
  <2> QED BY <1>2, <1>3, <1>9, <2>2, <2>3
          DEF FilesArrive, Crawled, Waits, WaitsNext, Arrived, ArrivedNext, Item
<1>14. ProjectsAre' /\ MarkerIsPassed'
  BY <1>3, <1>9 DEF ProjectsAre, MarkerIsPassed
<1>15. IndexLinksExist' /\ MarkerMissesNothing'
  BY <1>2 DEF MirrorInv, IndexLinksExist, MarkerMissesNothing
<1> QED BY <1>9, <1>12, <1>13, <1>14, <1>15 DEF MirrorInv

LEMMA MirrorStepInv == MirrorInv /\ [MirrorNext]_mirrorVars => MirrorInv'
<1> SUFFICES ASSUME MirrorInv, [MirrorNext]_mirrorVars PROVE MirrorInv'
  OBVIOUS
<1>1. CASE Second
  BY <1>1, SecondInv
<1>2. CASE \E m \in Repository, p \in Package : Release(m, p)
  BY <1>2, ReleaseInv
<1>3. CASE StartTask \/ Signal \/ BodyFails
  BY <1>3, BodyEndsInv
<1>4. CASE Body
  BY <1>4, FetchIndexInv, FetchPackedInv, ListBucketInv, JoinInv, LastWriteInv, WriteCondaInv,
     PackedWriteInv, NltkInv DEF Body
<1>5. CASE \E w \in SyncWorker : WorkerStep(w)
  <2>1. PICK w \in SyncWorker : WorkerStep(w)
    BY <1>5
  <2>2. CASE \E i \in queue : Get(w, i)
    BY <2>2, GetInv
  <2>3. CASE CrawlPage(w)
    BY <2>3, CrawlPageInv
  <2>4. CASE Transfer(w)
    BY <2>4, TransferInv
  <2>5. CASE TransferDebianIndex(w)
    BY <2>5, TransferDebianIndexInv
  <2>6. CASE FetchProject(w)
    BY <2>6, FetchProjectInv
  <2>7. CASE TransferProjectFile(w)
    BY <2>7, TransferProjectFileInv
  <2>8. CASE WriteProjectPage(w)
    BY <2>8, WriteProjectPageInv
  <2>9. CASE Retry(w)
    BY <2>9, RetryInv
  <2>10. CASE GiveUp(w) \/ GiveUpItem(w)
    BY <2>10, GiveUpFileInv, GiveUpItemInv
  <2> QED BY <2>1, <2>2, <2>3, <2>4, <2>5, <2>6, <2>7, <2>8, <2>9, <2>10 DEF WorkerStep
<1>6. CASE UNCHANGED mirrorVars
  <2>1. UNCHANGED <<upstream, releasedAt, bucket, index, marker, second, run, queue, done,
                    working, lost, enabled>>
    BY <1>6 DEF mirrorVars
  <2>2. Here' = Here /\ \A m : Files(m)' = Files(m)
    BY <2>1 DEF Here, Files
  <2>3. MirrorTypes'
    <3>1. \A m \in Repository : bucket'[m] \subseteq Files(m)' /\ index'[m] \subseteq Files(m)'
      BY <2>1, <2>2, BucketIs
    <3>2. run'.at # 0 => run'.listed \subseteq (Files(Here))' /\ run'.existing \subseteq (bucket[Here])'
      BY <2>1, <2>2, RunIs DEF Files
    <3> QED BY <2>1, <3>1, <3>2 DEF MirrorInv, MirrorTypes
  <2>4. PhasesAre'
    BY <2>1, <2>2 DEF MirrorInv, PhasesAre
  <2>5. ItemsAre'
    BY <2>1 DEF MirrorInv, ItemsAre, ItemsOf, Files, Item, Here
  <2>6. FilesArrive'
    BY <2>1 DEF MirrorInv, FilesArrive, Waits, Arrived, PageLost, Item, Here
  <2>7. ProjectsAre'
    BY <2>1 DEF MirrorInv, ProjectsAre, PypiProject, Arrived, Item, Here
  <2>8. MarkerIsPassed'
    BY <2>1 DEF MirrorInv, MarkerIsPassed, Known, Waits, Item, Here
  <2>9. IndexLinksExist' /\ MarkerMissesNothing'
    BY <2>1 DEF MirrorInv, IndexLinksExist, MarkerMissesNothing
  <2> QED BY <2>3, <2>4, <2>5, <2>6, <2>7, <2>8, <2>9 DEF MirrorInv
<1> QED BY <1>1, <1>2, <1>3, <1>4, <1>5, <1>6 DEF MirrorNext

\* In every state, what the index of a mirror will name is in the bucket, given up, or with
\* a worker, and what the next marker passes over is on a page (mirrors-sync.py).
THEOREM MirrorInvariance == MirrorSpec => []MirrorInv
BY MirrorInitInv, MirrorStepInv, PTL DEF MirrorSpec

(***************************************************************************)
(* conda's second index.                                                   *)
(***************************************************************************)
\* A file of conda that has arrived, or was given up, stays so.
LEMMA CondaStays ==
  ASSUME MirrorInv, [MirrorNext]_mirrorVars, NEW f, Arrived("conda", f)
  PROVE  f \in bucket'["conda"] \/ <<"conda", f>> \in lost'
<1>1. bucket \in [Repository -> SUBSET AnyFile] /\ "conda" \in Repository
  BY DEF MirrorInv, MirrorTypes, Repository
<1>2. ASSUME NEW m, NEW x, Put(m, x) PROVE f \in bucket["conda"] => f \in bucket'["conda"]
  BY <1>1, <1>2 DEF Put
<1>3. CASE bucket' = bucket /\ lost \subseteq lost'
  BY <1>3 DEF Arrived
<1>4. ASSUME NEW x, NltkFile(x) PROVE f \in bucket'["conda"] \/ <<"conda", f>> \in lost'
  BY <1>2, <1>4 DEF NltkFile, Arrived
<1>5. ASSUME NEW w \in SyncWorker, Transfer(w)
      PROVE  f \in bucket'["conda"] \/ <<"conda", f>> \in lost'
  <2>1. /\ bucket' = [bucket EXCEPT ![Here] = @ \cup {Item(w)}]
        /\ lost' = lost \/ lost' = lost \ {<<Here, Item(w)>>}
        /\ f \in bucket["conda"] => f \in bucket'["conda"]
    BY <1>2, <1>5 DEF Transfer, Put
  <2>2. CASE <<"conda", f>> = <<Here, Item(w)>>
    BY <1>1, <2>1, <2>2
  <2>3. CASE <<"conda", f>> # <<Here, Item(w)>>
    BY <2>1, <2>3 DEF Arrived
  <2> QED BY <2>2, <2>3
<1>6. ASSUME NEW w \in SyncWorker, TransferProjectFile(w)
      PROVE  f \in bucket'["conda"] \/ <<"conda", f>> \in lost'
  <2>1. /\ lost' = lost \ {<<"pypi", FileOf(w)>>}
        /\ bucket' = bucket \/ Put("pypi", FileOf(w))
    BY <1>6 DEF TransferProjectFile
  <2>2. <<"conda", f>> # <<"pypi", FileOf(w)>>
    OBVIOUS
  <2>3. f \in bucket["conda"] => f \in bucket'["conda"]
    BY <1>2, <2>1
  <2> QED BY <2>1, <2>2, <2>3 DEF Arrived
<1>7. ASSUME NEW w \in SyncWorker, WriteProjectPage(w)
      PROVE  f \in bucket'["conda"] \/ <<"conda", f>> \in lost'
  <2>1. lost' = lost \ {<<"pypi", <<PypiProject(w), 0>> >>} /\ bucket' = bucket
    BY <1>7 DEF WriteProjectPage
  <2>2. <<"conda", f>> # <<"pypi", <<PypiProject(w), 0>> >>
    OBVIOUS
  <2> QED BY <2>1, <2>2 DEF Arrived
<1>8. ASSUME NEW w \in SyncWorker, WorkerStep(w),
             ~ Transfer(w), ~ TransferProjectFile(w), ~ WriteProjectPage(w)
      PROVE  bucket' = bucket /\ lost \subseteq lost'
  BY <1>8 DEF WorkerStep, Get, CrawlPage, TransferDebianIndex, FetchProject, Retry, GiveUp,
              GiveUpItem
<1>9. CASE Body /\ ~ (\E x \in Files("nltk") : NltkFile(x))
  <2>1. bucket' = bucket /\ lost' = lost
    BY <1>9 DEF Body, FetchIndex, FetchPacked, ListBucket, Join, WriteIndex, WritePacked,
                WriteMarker, NltkDone
  <2> QED BY <1>3, <2>1
<1>10. CASE UNCHANGED mirrorVars
  BY <1>3, <1>10 DEF mirrorVars
<1>11. CASE \/ Second \/ \E m \in Repository, p \in Package : Release(m, p)
            \/ StartTask \/ Signal \/ BodyFails
  <2>1. bucket' = bucket /\ lost' = lost
    BY <1>11 DEF Second, Release, StartTask, Signal, BodyFails
  <2> QED BY <1>3, <2>1
<1> QED BY <1>3, <1>4, <1>5, <1>6, <1>7, <1>8, <1>9, <1>10, <1>11 DEF MirrorNext

\* Only the requests for the second index move what is known of it.
LEMMA PackedMoves ==
  ASSUME [MirrorNext]_mirrorVars
  PROVE  packed' = packed \/ FetchPacked \/ WritePacked
<1>1. ASSUME NEW w \in SyncWorker, WorkerStep(w) PROVE packed' = packed
  BY <1>1 DEF WorkerStep, Get, CrawlPage, Transfer, TransferDebianIndex, FetchProject,
              TransferProjectFile, WriteProjectPage, Retry, GiveUp, GiveUpItem, fixedVars
<1>2. CASE Body
  BY <1>2 DEF Body, FetchIndex, ListBucket, Join, WriteIndex, WriteMarker, NltkDone, NltkFile,
              fixedVars
<1>3. CASE \/ Second \/ \E m \in Repository, p \in Package : Release(m, p)
           \/ StartTask \/ Signal \/ BodyFails
  BY <1>3 DEF Second, Release, StartTask, Signal, BodyFails, fixedVars
<1>4. CASE UNCHANGED mirrorVars
  BY <1>4 DEF mirrorVars
<1> QED BY <1>1, <1>2, <1>3, <1>4 DEF MirrorNext

LEMMA PackedStepInv == MirrorInv /\ PackedInv /\ [MirrorNext]_mirrorVars => PackedInv'
<1> SUFFICES ASSUME MirrorInv, PackedInv, [MirrorNext]_mirrorVars PROVE PackedInv'
  OBVIOUS
<1>1. /\ packed \in [got : SUBSET AnyFile, stored : SUBSET AnyFile, late : SUBSET AnyFile]
      /\ PackedLinksExist
  BY DEF PackedInv
<1>2. ASSUME packed'.stored = packed.stored, packed'.late = packed.late
      PROVE  PackedLinksExist'
  BY <1>1, <1>2, CondaStays DEF PackedLinksExist, Arrived
<1>3. CASE packed' = packed
  BY <1>1, <1>2, <1>3 DEF PackedInv
<1>4. CASE FetchPacked
  <2>1. packed' = [packed EXCEPT !.got = Files("conda")] /\ Files("conda") \subseteq AnyFile
    BY <1>4 DEF FetchPacked, Files, AnyFile
  <2>2. /\ packed' \in [got : SUBSET AnyFile, stored : SUBSET AnyFile, late : SUBSET AnyFile]
        /\ packed'.stored = packed.stored /\ packed'.late = packed.late
    BY <1>1, <2>1
  <2> QED BY <1>2, <2>2 DEF PackedInv
<1>5. CASE WritePacked
  <2>1. /\ packed' = [packed EXCEPT !.stored = packed.got, !.late = packed.got \ run.listed]
        /\ bucket' = bucket /\ lost' = lost /\ run.phase = "pack"
    BY <1>5 DEF WritePacked
  <2>2. /\ packed' \in [got : SUBSET AnyFile, stored : SUBSET AnyFile, late : SUBSET AnyFile]
        /\ packed'.stored = packed.got /\ packed'.late = packed.got \ run.listed
    BY <1>1, <2>1
  <2>3. \A f \in run.listed : Arrived("conda", f)
    BY <2>1 DEF MirrorInv, FilesArrive, PhasesAre
  <2> QED BY <2>1, <2>2, <2>3 DEF PackedInv, PackedLinksExist, Arrived
<1> QED BY <1>3, <1>4, <1>5, PackedMoves

LEMMA PackedInvariance == MirrorSpec => []PackedInv
<1>1. MirrorInit => PackedInv
  <2> SUFFICES ASSUME MirrorInit PROVE PackedInv
    OBVIOUS
  <2>1. packed = [got |-> {}, stored |-> {}, late |-> {}]
    BY DEF MirrorInit
  <2> QED BY <2>1 DEF PackedInv, PackedLinksExist
<1> QED BY <1>1, PackedStepInv, MirrorInvariance, PTL DEF MirrorSpec

\* Indexes name files that are there and the marker misses nothing, for any packages,
\* workers, releases, runs, signals and failing requests (mirrors-sync.py).
THEOREM MirrorIsSafe == MirrorSpec => []MirrorSafety
<1>1. MirrorInv /\ PackedInv => MirrorSafety
  <2> SUFFICES ASSUME MirrorInv, PackedInv PROVE MirrorSafety
    OBVIOUS
  <2>1. marker \in 0..second
    BY DEF MirrorInv, MirrorTypes
  <2>2. \A w \in SyncWorker : working[w].tries < MaxTries
    BY WorkIs, MirrorAssumption
  <2>3. ASSUME NEW v \in SyncWorker, NEW w \in SyncWorker, v # w, working[v] # NoWork,
               working[w] # NoWork, Item(v) # IndexPage
        PROVE  Item(v) # Item(w)
    <3>1. run.phase = "work"
      BY <2>3 DEF MirrorInv, PhasesAre
    <3> QED BY <2>3, <3>1 DEF MirrorInv, ItemsAre
  <2>4. MirrorTypeOK
    BY <2>1, <2>2, <2>3, BucketIs, RunIs DEF MirrorTypeOK
  <2> QED BY <2>4 DEF MirrorInv, PackedInv, MirrorSafety
<1> QED BY <1>1, MirrorInvariance, PackedInvariance, PTL

(***************************************************************************)
(* Reference datasets.                                                     *)
(***************************************************************************)
EditPc == {"idle", "write", "line", "list", "copy", "prune", "form", "drop", "create",
           "mark", "columns", "commit"}
EditOp == {"none", "save", "delete", "upload", "synced", "edit", "remove"}

EditType ==
  [pc : EditPc, op : EditOp, inst : VersionedRow, was : VersionedRow,
   added : SUBSET Record, removed : SUBSET Record, lines : SUBSET Record,
   saved : SUBSET Record, fields : SUBSET Field, columns : SUBSET Field,
   change : SUBSET Field]

LEMMA EditTyped ==
  ASSUME RefTypeOK, NEW r \in AdminRequest
  PROVE  /\ adminEdit \in [AdminRequest -> EditType] /\ adminEdit[r] \in EditType
         /\ adminEdit[r].inst \in VersionedRow /\ adminEdit[r].was \in VersionedRow
         /\ adminEdit[r].added \in SUBSET Record /\ adminEdit[r].removed \in SUBSET Record
         /\ adminEdit[r].lines \in SUBSET Record /\ adminEdit[r].saved \in SUBSET Record
         /\ adminEdit[r].fields \in SUBSET Field /\ adminEdit[r].columns \in SUBSET Field
         /\ adminEdit[r].change \in SUBSET Field
         /\ adminEdit[r].pc \in EditPc /\ adminEdit[r].op \in EditOp
<1>1. adminEdit \in [AdminRequest -> EditType]
  BY DEF RefTypeOK, EditType, EditPc, EditOp
<1>2. adminEdit[r] \in EditType
  BY <1>1
<1>3. PICK e \in EditType : e = adminEdit[r]
  BY <1>2
<1>4. /\ e.inst \in VersionedRow /\ e.was \in VersionedRow
      /\ e.added \in SUBSET Record /\ e.removed \in SUBSET Record
      /\ e.lines \in SUBSET Record /\ e.saved \in SUBSET Record
      /\ e.fields \in SUBSET Field /\ e.columns \in SUBSET Field
      /\ e.change \in SUBSET Field /\ e.pc \in EditPc /\ e.op \in EditOp
  BY DEF EditType
<1> QED BY <1>1, <1>2, <1>3, <1>4

\* A request goes on, with these parts of its record changed or as they were.
EditGoes(r, pc, op, inst, added, lines, saved, fields, columns) ==
  /\ adminEdit' \in [AdminRequest -> EditType]
  /\ \A s \in AdminRequest \ {r} : adminEdit'[s] = adminEdit[s]
  /\ adminEdit'[r].pc = pc /\ adminEdit'[r].op = op /\ adminEdit'[r].inst = inst
  /\ adminEdit'[r].added = added /\ adminEdit'[r].lines = lines
  /\ adminEdit'[r].saved = saved /\ adminEdit'[r].fields = fields
  /\ adminEdit'[r].columns = columns
  /\ adminEdit'[r].was = adminEdit[r].was /\ adminEdit'[r].removed = adminEdit[r].removed
  /\ adminEdit'[r].change = adminEdit[r].change

LEMMA EditReplaced ==
  ASSUME RefTypeOK, NEW r \in AdminRequest, NEW row \in EditType,
         adminEdit' = [adminEdit EXCEPT ![r] = row]
  PROVE  /\ adminEdit' \in [AdminRequest -> EditType] /\ adminEdit'[r] = row
         /\ \A s \in AdminRequest \ {r} : adminEdit'[s] = adminEdit[s]
<1>1. adminEdit \in [AdminRequest -> EditType]
  BY EditTyped
<1> QED BY <1>1

\* The ways in which a step changes the record of a request.
EditChanges(e, row, pc, op, inst, added, lines, saved, fields, columns) ==
  \/ /\ row = [e EXCEPT !.pc = pc, !.inst = inst]
     /\ op = e.op /\ added = e.added /\ lines = e.lines /\ saved = e.saved
     /\ fields = e.fields /\ columns = e.columns
  \/ /\ row = [e EXCEPT !.inst = inst, !.pc = pc]
     /\ op = e.op /\ added = e.added /\ lines = e.lines /\ saved = e.saved
     /\ fields = e.fields /\ columns = e.columns
  \/ /\ row = [e EXCEPT !.pc = pc, !.added = added, !.lines = lines]
     /\ op = e.op /\ inst = e.inst /\ saved = e.saved
     /\ fields = e.fields /\ columns = e.columns
  \/ /\ row = [e EXCEPT !.lines = lines]
     /\ pc = e.pc /\ op = e.op /\ inst = e.inst /\ added = e.added /\ saved = e.saved
     /\ fields = e.fields /\ columns = e.columns
  \/ /\ row = [e EXCEPT !.pc = pc, !.op = op]
     /\ inst = e.inst /\ added = e.added /\ lines = e.lines /\ saved = e.saved
     /\ fields = e.fields /\ columns = e.columns
  \/ /\ row = [e EXCEPT !.pc = pc, !.saved = saved]
     /\ op = e.op /\ inst = e.inst /\ added = e.added /\ lines = e.lines
     /\ fields = e.fields /\ columns = e.columns
  \/ /\ row = [e EXCEPT !.pc = pc]
     /\ op = e.op /\ inst = e.inst /\ added = e.added /\ lines = e.lines /\ saved = e.saved
     /\ fields = e.fields /\ columns = e.columns
  \/ /\ row = [e EXCEPT !.pc = pc, !.columns = columns, !.fields = fields, !.inst = inst]
     /\ op = e.op /\ added = e.added /\ lines = e.lines /\ saved = e.saved
  \/ /\ row = [e EXCEPT !.pc = pc, !.fields = fields]
     /\ op = e.op /\ inst = e.inst /\ added = e.added /\ lines = e.lines /\ saved = e.saved
     /\ columns = e.columns
  \/ /\ row = [e EXCEPT !.pc = pc, !.added = added]
     /\ op = e.op /\ inst = e.inst /\ lines = e.lines /\ saved = e.saved
     /\ fields = e.fields /\ columns = e.columns

LEMMA EditMoved ==
  ASSUME RefTypeOK, NEW r \in AdminRequest, NEW pc \in EditPc, NEW op \in EditOp,
         NEW inst \in VersionedRow, NEW added \in SUBSET Record, NEW lines \in SUBSET Record,
         NEW saved \in SUBSET Record, NEW fields \in SUBSET Field,
         NEW columns \in SUBSET Field, NEW row,
         EditChanges(adminEdit[r], row, pc, op, inst, added, lines, saved, fields, columns),
         adminEdit' = [adminEdit EXCEPT ![r] = row]
  PROVE  EditGoes(r, pc, op, inst, added, lines, saved, fields, columns)
<1>1. PICK e \in EditType : e = adminEdit[r]
  BY EditTyped
<1>2. row \in EditType
  <2>1. \/ row = [e EXCEPT !.pc = pc, !.inst = inst]
        \/ row = [e EXCEPT !.inst = inst, !.pc = pc]
        \/ row = [e EXCEPT !.pc = pc, !.added = added, !.lines = lines]
        \/ row = [e EXCEPT !.lines = lines]
        \/ row = [e EXCEPT !.pc = pc, !.op = op]
        \/ row = [e EXCEPT !.pc = pc, !.saved = saved]
        \/ row = [e EXCEPT !.pc = pc]
        \/ row = [e EXCEPT !.pc = pc, !.columns = columns, !.fields = fields, !.inst = inst]
        \/ row = [e EXCEPT !.pc = pc, !.fields = fields]
        \/ row = [e EXCEPT !.pc = pc, !.added = added]
    BY <1>1 DEF EditChanges
  <2>2. CASE row = [e EXCEPT !.pc = pc, !.inst = inst]
    BY <2>2, ZenonT(60) DEF EditType
  <2>3. CASE row = [e EXCEPT !.inst = inst, !.pc = pc]
    BY <2>3, ZenonT(60) DEF EditType
  <2>4. CASE row = [e EXCEPT !.pc = pc, !.added = added, !.lines = lines]
    BY <2>4, ZenonT(60) DEF EditType
  <2>5. CASE row = [e EXCEPT !.lines = lines]
    BY <2>5, ZenonT(60) DEF EditType
  <2>6. CASE row = [e EXCEPT !.pc = pc, !.op = op]
    BY <2>6, ZenonT(60) DEF EditType
  <2>7. CASE row = [e EXCEPT !.pc = pc, !.saved = saved]
    BY <2>7, ZenonT(60) DEF EditType
  <2>8. CASE row = [e EXCEPT !.pc = pc]
    BY <2>8, ZenonT(60) DEF EditType
  <2>9. CASE row = [e EXCEPT !.pc = pc, !.columns = columns, !.fields = fields, !.inst = inst]
    BY <2>9, ZenonT(60) DEF EditType
  <2>10. CASE row = [e EXCEPT !.pc = pc, !.fields = fields]
    BY <2>10, ZenonT(60) DEF EditType
  <2>11. CASE row = [e EXCEPT !.pc = pc, !.added = added]
    BY <2>11, ZenonT(60) DEF EditType
  <2> QED BY <2>1, <2>2, <2>3, <2>4, <2>5, <2>6, <2>7, <2>8, <2>9, <2>10, <2>11
<1>3. /\ row.pc = pc /\ row.op = op /\ row.inst = inst /\ row.added = added
      /\ row.lines = lines /\ row.saved = saved /\ row.fields = fields
      /\ row.columns = columns /\ row.was = e.was /\ row.removed = e.removed
      /\ row.change = e.change
  <2>1. row.was = e.was /\ row.removed = e.removed /\ row.change = e.change
    BY <1>1 DEF EditChanges, EditType
  <2>2. row.pc = pc /\ row.op = op
    BY <1>1 DEF EditChanges, EditType
  <2>3. row.inst = inst /\ row.added = added
    BY <1>1 DEF EditChanges, EditType
  <2>4. row.lines = lines /\ row.saved = saved
    BY <1>1 DEF EditChanges, EditType
  <2>5. row.fields = fields /\ row.columns = columns
    BY <1>1 DEF EditChanges, EditType
  <2> QED BY <2>1, <2>2, <2>3, <2>4, <2>5
<1> QED BY <1>1, <1>2, <1>3, EditReplaced DEF EditGoes

(***************************************************************************)
(* manage_published.                                                       *)
(***************************************************************************)
LEMMA PublishedBy ==
  ASSUME NEW row \in VersionedRow, NEW was \in BOOLEAN, NEW new, new = ManagePublished(row, was)
  PROVE  /\ new \in VersionedRow /\ Current(new)
         /\ new.published = row.published /\ new.ext = row.ext /\ new.deleted = row.deleted
         /\ (row.published /\ was =>
               row.initial /\ AtLeast(row.major, row.minor, row.publishedMajor,
                                      row.publishedMinor))
              => AtLeast(new.publishedMajor, new.publishedMinor, row.publishedMajor,
                         row.publishedMinor)
<1>1. /\ row.published \in BOOLEAN /\ row.initial \in BOOLEAN
      /\ row.major \in Nat /\ row.minor \in Nat /\ row.publishedMajor \in Nat
      /\ row.publishedMinor \in Nat
  BY DEF VersionedRow
<1>2. CASE ~ row.published
  <2>1. new = row
    BY <1>2 DEF ManagePublished
  <2> QED BY <1>1, <1>2, <2>1 DEF Current, AtLeast
<1>3. CASE row.published
  <2>1. PICK first : first = IF row.initial THEN row
                             ELSE [row EXCEPT !.initial = TRUE, !.major = 1, !.minor = 0]
    OBVIOUS
  <2>2. /\ first.published = row.published /\ first.initial = TRUE
        /\ first.publishedMajor = row.publishedMajor
        /\ first.publishedMinor = row.publishedMinor
        /\ first.ext = row.ext /\ first.deleted = row.deleted
        /\ first.major = IF row.initial THEN row.major ELSE 1
        /\ first.minor = IF row.initial THEN row.minor ELSE 0
    BY <1>1, <2>1 DEF VersionedRow
  <2>3. first \in VersionedRow
    <3>1. CASE row.initial
      BY <2>1, <3>1
    <3>2. CASE ~ row.initial
      <4>1. PICK one \in Nat, zero \in Nat, yes \in BOOLEAN : one = 1 /\ zero = 0 /\ yes = TRUE
        OBVIOUS
      <4>2. first = [row EXCEPT !.initial = yes, !.major = one, !.minor = zero]
        BY <2>1, <3>2, <4>1
      <4> QED BY <4>2, ZenonT(60) DEF VersionedRow
    <3> QED BY <1>1, <3>1, <3>2
  <2>4. first.major \in Nat /\ first.minor \in Nat
    BY <1>1, <2>2
  <2>5. PICK a \in Nat, b \in Nat :
           /\ AtLeast(a, b, row.publishedMajor, row.publishedMinor)
           /\ ~ was => new = [first EXCEPT !.publishedMajor = a, !.publishedMinor = b,
                                           !.major = a, !.minor = b]
           /\ was => new = [first EXCEPT !.publishedMajor = first.major,
                                         !.publishedMinor = first.minor]
    <3>1. PICK next : next = CASE first.major > first.publishedMajor ->
                                    <<first.publishedMajor + 1, 0>>
                               [] first.major <= first.publishedMajor
                                  /\ first.minor > first.publishedMinor ->
                                    <<first.publishedMajor, first.publishedMinor + 1>>
                               [] OTHER -> <<first.publishedMajor, first.publishedMinor>>
      OBVIOUS
    <3>2. /\ ~ was => new = [first EXCEPT !.publishedMajor = next[1], !.publishedMinor = next[2],
                                          !.major = next[1], !.minor = next[2]]
          /\ was => new = [first EXCEPT !.publishedMajor = first.major,
                                        !.publishedMinor = first.minor]
      BY <1>3, <2>1, <3>1 DEF ManagePublished
    <3>3. /\ next[1] \in Nat /\ next[2] \in Nat
          /\ AtLeast(next[1], next[2], row.publishedMajor, row.publishedMinor)
      <4>1. \/ next[1] = first.publishedMajor + 1 /\ next[2] = 0
            \/ next[1] = first.publishedMajor /\ next[2] = first.publishedMinor + 1
            \/ next[1] = first.publishedMajor /\ next[2] = first.publishedMinor
        BY <3>1
      <4> QED BY <1>1, <2>2, <4>1 DEF AtLeast
    <3> QED BY <3>2, <3>3
  <2>6. CASE was
    <3>1. PICK m \in Nat, n \in Nat : m = first.major /\ n = first.minor
      BY <2>4
    <3>2. new = [first EXCEPT !.publishedMajor = m, !.publishedMinor = n]
      BY <2>5, <2>6, <3>1
    <3>3. new \in VersionedRow
      BY <2>3, <3>2, ZenonT(60) DEF VersionedRow
    <3>4. /\ new.published = row.published /\ new.ext = row.ext /\ new.deleted = row.deleted
          /\ new.initial = TRUE /\ new.publishedMajor = m /\ new.publishedMinor = n
          /\ new.major = m /\ new.minor = n
      BY <2>2, <2>3, <3>1, <3>2 DEF VersionedRow
    <3>5. ASSUME row.initial, AtLeast(row.major, row.minor, row.publishedMajor, row.publishedMinor)
          PROVE  AtLeast(m, n, row.publishedMajor, row.publishedMinor)
      BY <2>2, <3>1, <3>5
    <3> QED BY <1>3, <2>6, <3>3, <3>4, <3>5 DEF Current
  <2>7. CASE ~ was
    <3>2. new = [first EXCEPT !.publishedMajor = a, !.publishedMinor = b, !.major = a, !.minor = b]
      BY <2>5, <2>7
    <3>3. new \in VersionedRow
      BY <2>3, <3>2, ZenonT(60) DEF VersionedRow
    <3>4. /\ new.published = row.published /\ new.ext = row.ext /\ new.deleted = row.deleted
          /\ new.initial = TRUE /\ new.publishedMajor = a /\ new.publishedMinor = b
          /\ new.major = a /\ new.minor = b
      BY <2>2, <2>3, <3>2 DEF VersionedRow
    <3> QED BY <2>5, <3>3, <3>4 DEF Current
  <2> QED BY <2>6, <2>7
<1> QED BY <1>1, <1>2, <1>3

\* A row that is saved is current, and no older than the row it was.
LEMMA SavedBy ==
  ASSUME RefTypeOK, NEW r \in AdminRequest, NEW row \in VersionedRow, NEW new,
         new = Saved(r, row), NEW inst \in VersionedRow, NEW base \in VersionedRow,
         row.published = inst.published, row.initial = inst.initial,
         row.publishedMajor = inst.publishedMajor, row.publishedMinor = inst.publishedMinor,
         AtLeast(row.major, row.minor, inst.major, inst.minor)
  PROVE  /\ new \in VersionedRow /\ Current(new)
         /\ new.ext = row.ext /\ new.deleted = row.deleted
         /\ NotOlder(inst, adminEdit[r].was, base) => NotOlder(new, adminEdit[r].was, base)
<1>1. adminEdit[r].was \in VersionedRow
  BY EditTyped
<1>2. PICK was \in BOOLEAN : was = adminEdit[r].was.published
  BY <1>1 DEF VersionedRow
<1>3. new = ManagePublished(row, was)
  BY <1>2 DEF Saved
<1>4. /\ new \in VersionedRow /\ Current(new)
      /\ new.published = row.published /\ new.ext = row.ext /\ new.deleted = row.deleted
      /\ (row.published /\ was =>
            row.initial /\ AtLeast(row.major, row.minor, row.publishedMajor, row.publishedMinor))
           => AtLeast(new.publishedMajor, new.publishedMinor, row.publishedMajor,
                      row.publishedMinor)
  BY <1>3, PublishedBy
<1>5. ASSUME NotOlder(inst, adminEdit[r].was, base) PROVE NotOlder(new, adminEdit[r].was, base)
  <2>1. /\ inst.major \in Nat /\ inst.minor \in Nat /\ inst.publishedMajor \in Nat
        /\ inst.publishedMinor \in Nat /\ row.major \in Nat /\ row.minor \in Nat
        /\ base.publishedMajor \in Nat /\ base.publishedMinor \in Nat
        /\ new.publishedMajor \in Nat /\ new.publishedMinor \in Nat
    BY <1>4 DEF VersionedRow
  <2>2. row.published /\ was => row.initial /\ AtLeast(row.major, row.minor,
                                                      row.publishedMajor, row.publishedMinor)
    BY <1>2, <1>5, <2>1 DEF NotOlder, AtLeast
  <2>3. AtLeast(new.publishedMajor, new.publishedMinor, inst.publishedMajor, inst.publishedMinor)
    BY <1>4, <2>2
  <2>4. AtLeast(new.publishedMajor, new.publishedMinor, base.publishedMajor, base.publishedMinor)
    BY <1>5, <2>1, <2>3 DEF NotOlder, AtLeast
  <2>5. new.published => new.initial /\ AtLeast(new.major, new.minor, new.publishedMajor,
                                                new.publishedMinor)
    BY <1>4, <2>1 DEF Current, AtLeast
  <2> QED BY <2>4, <2>5 DEF NotOlder
<1> QED BY <1>4, <1>5

(***************************************************************************)
(* The other requests.                                                     *)
(***************************************************************************)
\* Beside a request that is past its first write, others have not written yet.
LEMMA OthersWait ==
  ASSUME RefInv, Quiet, NEW r \in AdminRequest, adminEdit[r].pc # "idle",
         adminEdit[r].pc = "write" => rowLock \in {Nothing, r},
         NEW s \in AdminRequest \ {r}
  PROVE  /\ adminEdit[s].pc \in {"idle", "write"}
         /\ adminEdit[s].pc = "write" =>
               adminEdit[s].op \in RecordOps /\ adminEdit[r].op \in RecordOps
         /\ adminEdit[s].op \in RecordOps \cup {"none"}
<1>1. /\ EditKept(r) /\ EditKept(s) /\ QuietKept(r) /\ QuietKept(s) /\ s # Nothing /\ r # Nothing
  BY ReferenceDataAssumption DEF RefInv
<1>2. s \in AdminRequest /\ r \in AdminRequest \ {s} /\ RefTypeOK
  BY DEF RefInv
<1>3. adminEdit[s].pc \in EditPc /\ adminEdit[s].op \in EditOp /\ adminEdit[r].op \in EditOp
  BY <1>2, EditTyped
<1>4. CASE adminEdit[s].pc = "idle"
  BY <1>1, <1>3, <1>4 DEF EditKept, Stages, EditOp
<1>5. CASE adminEdit[s].pc # "idle"
  <2>1. adminEdit[s].op \in RecordOps
    BY <1>1, <1>2, <1>5 DEF QuietKept, NobodyElse
  <2>2. adminEdit[r].op \in RecordOps
    BY <1>1, <1>2, <1>5 DEF QuietKept, NobodyElse
  <2>3. adminEdit[s].pc = "write"
    BY <1>1, <2>1, <2>2 DEF EditKept
  <2> QED BY <2>1, <2>2, <2>3
<1> QED BY <1>4, <1>5

\* What a request that is past its first write knows of the external database.
CalmKept(r) ==
  /\ refFields = refColumns /\ ColumnsKept(r)
  /\ Gone(r) => Tables(Nothing, {})
  /\ Reached(r) => ReachedKept(r)
  /\ ~ Gone(r) /\ ~ Reached(r) => Tables(Live, refColumns)
  /\ Lagging(r) \/ Holds(Live, refRecords)

LEMMA OthersCalm ==
  ASSUME NEW s \in AdminRequest, adminEdit[s].pc \in {"idle", "write"},
         adminEdit[s].op \in RecordOps \cup {"none"}
  PROVE  ~ Gone(s) /\ ~ Reached(s) /\ ~ Lagging(s) /\ ColumnsKept(s)
BY DEF Gone, Reached, Lagging, ColumnsKept, RecordOps

LEMMA CalmOfOne ==
  ASSUME RefInv, Calm, NEW r \in AdminRequest, adminEdit[r].pc # "idle",
         adminEdit[r].pc = "write" => rowLock \in {Nothing, r}
  PROVE  CalmKept(r)
<1>1. Quiet
  BY DEF Calm
<1>2. \A s \in AdminRequest \ {r} : ~ Gone(s) /\ ~ Reached(s) /\ ~ Lagging(s)
  BY <1>1, OthersWait, OthersCalm
<1> QED BY <1>2 DEF RefInv, CalmKept

\* What a step of one request has to keep.
Steps(r) ==
  /\ adminEdit[r].pc # "idle" /\ (adminEdit[r].pc = "write" => rowLock \in {Nothing, r})
  /\ \A s \in AdminRequest \ {r} : adminEdit'[s] = adminEdit[s] /\ (rowLock = s => rowLock' = s)
  /\ overlap' = overlap /\ (externalFaults' = 0 => externalFaults = 0)
  /\ adminEdit'[r].pc # "idle" /\ adminEdit'[r].op \notin RecordOps
       => adminEdit[r].op \notin RecordOps

StepKeeps(r) ==
  /\ RefTypeOK' /\ Current(refRow') /\ EditKept(r)'
  /\ overlap = "none" /\ adminEdit'[r].pc # "idle"
       => NotOlder(adminEdit'[r].inst, adminEdit'[r].was, refRow')
  /\ Quiet => /\ RowKept(r)' /\ CopyKept(r)'
              /\ adminEdit[r].op \in RecordOps
                   => refRow'.ext = refRow.ext /\ refRow'.deleted = refRow.deleted
  /\ Calm' => CalmKept(r)'

LEMMA OneSteps ==
  ASSUME RefInv, NEW r \in AdminRequest, Steps(r), StepKeeps(r)
  PROVE  RefInv'
<1>1. RefTypeOK' /\ Current(refRow')
  BY DEF StepKeeps
<1>2. ASSUME NEW s \in AdminRequest PROVE EditKept(s)'
  <2>1. CASE s = r
    BY <2>1 DEF StepKeeps
  <2>2. CASE s # r
    BY <2>2 DEF RefInv, EditKept, Steps, Stages, Current
  <2> QED BY <2>1, <2>2
<1>3. ASSUME Quiet, NEW s \in AdminRequest \ {r}
      PROVE  /\ adminEdit[s].pc \in {"idle", "write"}
             /\ adminEdit[s].pc = "write" =>
                   adminEdit[s].op \in RecordOps /\ adminEdit[r].op \in RecordOps
             /\ adminEdit[s].op \in RecordOps \cup {"none"}
             /\ adminEdit[s].pc = "idle" => adminEdit[s].op = "none"
             /\ s \in AdminRequest /\ adminEdit'[s] = adminEdit[s]
  <2>1. /\ adminEdit[s].pc \in {"idle", "write"}
        /\ adminEdit[s].pc = "write" =>
              adminEdit[s].op \in RecordOps /\ adminEdit[r].op \in RecordOps
        /\ adminEdit[s].op \in RecordOps \cup {"none"}
    BY <1>3, OthersWait DEF Steps
  <2>2. EditKept(s)
    BY DEF RefInv
  <2>3. adminEdit[s].pc = "idle" => adminEdit[s].op = "none"
    BY <2>1, <2>2 DEF EditKept, Stages, RecordOps
  <2> QED BY <2>1, <2>3 DEF Steps
<1>4. ASSUME overlap' = "none", NEW s \in AdminRequest, adminEdit'[s].pc # "idle"
      PROVE  NobodyElse(s)' /\ NotOlder(adminEdit'[s].inst, adminEdit'[s].was, refRow')
  <2>1. overlap = "none" /\ NobodyElse(r)
    BY <1>4 DEF RefInv, Steps
  <2>2. s = r
    BY <1>4, <2>1 DEF NobodyElse, Steps
  <2> QED BY <1>4, <2>1, <2>2 DEF StepKeeps, NobodyElse, Steps
<1>5. ASSUME Quiet', NEW s \in AdminRequest PROVE QuietKept(s)'
  <2>1. Quiet
    BY <1>5 DEF Quiet, Steps
  <2>2. CASE s = r
    <3>1. adminEdit[r].op \notin RecordOps => NobodyElse(r)
      BY <2>1 DEF RefInv, QuietKept, Steps
    <3> QED BY <2>1, <2>2, <3>1 DEF QuietKept, StepKeeps, Steps, NobodyElse
  <2>3. CASE s # r
    <3>1. /\ adminEdit[s].pc \in {"idle", "write"}
          /\ adminEdit[s].pc = "write" =>
                adminEdit[s].op \in RecordOps /\ adminEdit[r].op \in RecordOps
          /\ adminEdit[s].pc = "idle" => adminEdit[s].op = "none"
          /\ adminEdit'[s] = adminEdit[s]
      BY <1>3, <2>1, <2>3
    <3>2. QuietKept(s)
      BY <2>1 DEF RefInv
    <3>3. CopyKept(s)'
      BY <3>1 DEF CopyKept
    <3>4. RowKept(s)'
      BY <2>1, <3>1, <3>2 DEF RowKept, QuietKept, StepKeeps, RecordOps
    <3> QED BY <3>1, <3>3, <3>4 DEF QuietKept
  <2> QED BY <2>2, <2>3
<1>6. ASSUME Calm'
      PROVE  /\ refFields' = refColumns'
             /\ \A s \in AdminRequest : /\ ColumnsKept(s)'
                                        /\ Gone(s)' => Tables(Nothing, {})'
                                        /\ Reached(s)' => ReachedKept(s)'
             /\ (\A s \in AdminRequest : ~ Reached(s)' /\ ~ Gone(s)') => Tables(Live, refColumns)'
             /\ (\A s \in AdminRequest : ~ Lagging(s)') => Holds(Live, refRecords)'
  <2>1. CalmKept(r)' /\ Quiet
    BY <1>6 DEF StepKeeps, Calm, Quiet, Steps
  <2>2. ASSUME NEW s \in AdminRequest \ {r}
        PROVE  ~ Gone(s)' /\ ~ Reached(s)' /\ ~ Lagging(s)' /\ ColumnsKept(s)'
    <3>1. /\ adminEdit[s].pc \in {"idle", "write"}
          /\ adminEdit[s].op \in RecordOps \cup {"none"}
          /\ adminEdit'[s] = adminEdit[s]
      BY <1>3, <2>1
    <3> QED BY <3>1 DEF Gone, Reached, Lagging, ColumnsKept, RecordOps
  <2> QED BY <2>1, <2>2 DEF CalmKept
<1> QED BY <1>1, <1>2, <1>4, <1>5, <1>6 DEF RefInv

(***************************************************************************)
(* Requests begin.                                                         *)
(***************************************************************************)
\* What a request has loaded.
LoadedRow(edited, op) ==
  /\ edited \in EditType /\ edited.op = op
  /\ \/ op \in RecordOps /\ edited.pc = "write"
     \/ op = "upload" /\ edited.pc = "line"
     \/ op = "edit" /\ edited.pc = "form"
     \/ op = "remove" /\ edited.pc = "drop"
  /\ edited.was = refRow /\ edited.fields = refFields /\ edited.columns = refColumns
  /\ IF op = "edit"
     THEN /\ edited.added = {} /\ edited.removed = {}
          /\ edited.inst.deleted = refRow.deleted /\ edited.inst.initial = refRow.initial
          /\ edited.inst.major = refRow.major /\ edited.inst.minor = refRow.minor
          /\ edited.inst.publishedMajor = refRow.publishedMajor
          /\ edited.inst.publishedMinor = refRow.publishedMinor
     ELSE edited.change = {} /\ edited.inst = refRow
  /\ op \in {"edit", "remove"} => ~ refRow.deleted

LEMMA LoadKeeps ==
  ASSUME RefInv, NEW r \in AdminRequest, NEW op, NEW edited, Load(r, op, edited),
         LoadedRow(edited, op)
  PROVE  RefInv'
<1>1. /\ RefTypeOK /\ Current(refRow) /\ refRow \in VersionedRow
      /\ \A s \in AdminRequest : EditKept(s)
  BY DEF RefInv, RefTypeOK
<1>2. /\ made < MaxRequests /\ made' = made + 1 /\ adminEdit[r].pc = "idle"
      /\ adminEdit' = [adminEdit EXCEPT ![r] = edited]
      /\ UNCHANGED <<refRow, refRecords, refFields, refColumns, external, rowLock,
                     externalFaults>>
  BY DEF Load, committed
<1>3. /\ overlap' \in {"none", "records", "other"}
      /\ overlap' # "other" => overlap # "other"
      /\ overlap' = "none" => overlap = "none" /\ NobodyElse(r)
      /\ overlap' # "other" =>
            \/ NobodyElse(r)
            \/ op \in RecordOps
               /\ \A s \in AdminRequest \ {r} :
                     adminEdit[s].pc # "idle" => adminEdit[s].op \in RecordOps
  <2> DEFINE busy == {s \in AdminRequest \ {r} : adminEdit[s].pc # "idle"}
  <2>1. overlap' = IF busy = {} THEN overlap
                   ELSE IF op \in RecordOps /\ overlap # "other"
                           /\ \A s \in busy : adminEdit[s].op \in RecordOps
                        THEN "records" ELSE "other"
    BY DEF Load
  <2>2. busy = {} => NobodyElse(r)
    BY DEF NobodyElse
  <2>3. overlap \in {"none", "records", "other"}
    BY <1>1 DEF RefTypeOK
  <2> QED BY <2>1, <2>2, <2>3
<1>4. /\ adminEdit' \in [AdminRequest -> EditType] /\ adminEdit'[r] = edited
      /\ \A s \in AdminRequest \ {r} : adminEdit'[s] = adminEdit[s]
  BY <1>1, <1>2, EditReplaced DEF LoadedRow
<1>5. RefTypeOK'
  <2>1. made' \in 0 .. MaxRequests
    BY <1>1, <1>2, ReferenceDataAssumption DEF RefTypeOK
  <2> QED BY <1>1, <1>2, <1>3, <1>4, <2>1 DEF RefTypeOK, EditType, EditPc, EditOp
<1>6. adminEdit[r].op = "none"
  <2>1. EditKept(r) /\ adminEdit[r].op \in EditOp
    BY <1>1, EditTyped
  <2> QED BY <1>2, <2>1 DEF EditKept, Stages, EditOp
<1>7. ASSUME NEW s \in AdminRequest PROVE EditKept(s)'
  <2>1. CASE s = r
    BY <1>1, <1>4, <2>1 DEF LoadedRow, EditKept, Stages, RecordOps
  <2>2. CASE s # r
    BY <1>1, <1>2, <1>4, <2>2 DEF EditKept, Stages, Current
  <2> QED BY <2>1, <2>2
<1>8. ASSUME overlap' = "none", NEW s \in AdminRequest, adminEdit'[s].pc # "idle"
      PROVE  NobodyElse(s)' /\ NotOlder(adminEdit'[s].inst, adminEdit'[s].was, refRow')
  <2>1. s = r
    BY <1>3, <1>4, <1>8 DEF NobodyElse
  <2>2. NobodyElse(r)'
    BY <1>3, <1>4, <1>8 DEF NobodyElse
  <2>3. /\ edited.inst.initial = refRow.initial
        /\ edited.inst.major = refRow.major /\ edited.inst.minor = refRow.minor
        /\ edited.inst.publishedMajor = refRow.publishedMajor
        /\ edited.inst.publishedMinor = refRow.publishedMinor /\ edited.was = refRow
    BY DEF LoadedRow
  <2>4. /\ refRow.publishedMajor \in Nat /\ refRow.publishedMinor \in Nat
        /\ refRow.major \in Nat /\ refRow.minor \in Nat
    BY <1>1 DEF VersionedRow
  <2>5. NotOlder(edited.inst, edited.was, refRow)
    BY <1>1, <2>3, <2>4 DEF NotOlder, AtLeast, Current
  <2> QED BY <1>2, <1>4, <2>1, <2>2, <2>5
<1>9. ASSUME Quiet', NEW s \in AdminRequest PROVE QuietKept(s)'
  <2>1. Quiet
    BY <1>3, <1>9 DEF Quiet
  <2>2. CASE s = r
    <3>1. edited.op \notin RecordOps => NobodyElse(r)'
      BY <1>3, <1>4, <1>9 DEF NobodyElse, Quiet, LoadedRow
    <3>2. RowKept(r)' /\ CopyKept(r)'
      BY <1>2, <1>4 DEF RowKept, CopyKept, LoadedRow, RecordOps
    <3> QED BY <1>4, <2>2, <3>1, <3>2 DEF QuietKept
  <2>3. CASE s # r
    <3>1. QuietKept(s) /\ adminEdit'[s] = adminEdit[s]
      BY <1>4, <2>1, <2>3 DEF RefInv
    <3>2. RowKept(s)' /\ CopyKept(s)'
      BY <1>2, <3>1 DEF QuietKept, RowKept, CopyKept, Visible
    <3>3. adminEdit[s].pc # "idle" => adminEdit[s].op \in RecordOps
      BY <1>3, <1>9, <2>3 DEF Quiet, NobodyElse
    <3> QED BY <3>1, <3>2, <3>3 DEF QuietKept
  <2> QED BY <2>2, <2>3
<1>10. ASSUME Calm'
       PROVE  /\ refFields' = refColumns'
              /\ \A s \in AdminRequest : /\ ColumnsKept(s)'
                                         /\ Gone(s)' => Tables(Nothing, {})'
                                         /\ Reached(s)' => ReachedKept(s)'
              /\ (\A s \in AdminRequest : ~ Reached(s)' /\ ~ Gone(s)') => Tables(Live, refColumns)'
              /\ (\A s \in AdminRequest : ~ Lagging(s)') => Holds(Live, refRecords)'
  <2>1. Calm
    BY <1>2, <1>3, <1>10 DEF Calm, Quiet
  <2>2. /\ Tables(Nothing, {})' = Tables(Nothing, {})
        /\ Tables(Live, refColumns)' = Tables(Live, refColumns)
        /\ Holds(Live, refRecords)' = Holds(Live, refRecords)
    BY <1>2 DEF Tables, Holds, Live
  <2>3. /\ ~ Gone(r)' /\ ~ Reached(r)' /\ ~ Gone(r) /\ ~ Reached(r) /\ ~ Lagging(r)
    BY <1>4, <1>6 DEF Gone, Reached, Lagging, LoadedRow, RecordOps
  <2>4. refFields = refColumns
    BY <2>1 DEF RefInv
  <2>5. ColumnsKept(r)'
    BY <1>2, <1>4, <2>4 DEF ColumnsKept, LoadedRow
  <2>6. ASSUME NEW s \in AdminRequest \ {r}
        PROVE  /\ Gone(s)' = Gone(s) /\ Reached(s)' = Reached(s) /\ Lagging(s)' = Lagging(s)
               /\ ColumnsKept(s)' = ColumnsKept(s) /\ ReachedKept(s)' = ReachedKept(s)
    <3>1. adminEdit'[s] = adminEdit[s]
      BY <1>4
    <3> QED BY <1>2, <3>1 DEF Gone, Reached, Lagging, ColumnsKept, ColumnsAfter, ReachedKept,
                              Tables, Holds
  <2>7. /\ \A s \in AdminRequest : ColumnsKept(s) /\ (Gone(s) => Tables(Nothing, {}))
                                   /\ (Reached(s) => ReachedKept(s))
        /\ (\A s \in AdminRequest : ~ Reached(s) /\ ~ Gone(s)) => Tables(Live, refColumns)
        /\ (\A s \in AdminRequest : ~ Lagging(s)) => Holds(Live, refRecords)
    BY <2>1 DEF RefInv
  <2> QED BY <1>2, <2>2, <2>3, <2>4, <2>5, <2>6, <2>7
<1> QED BY <1>1, <1>2, <1>5, <1>7, <1>8, <1>9, <1>10 DEF RefInv

LEMMA NewRowTyped == NewRow \in VersionedRow /\ IdleEdit \in EditType /\ Current(NewRow)
<1>1. NewRow \in VersionedRow
  BY DEF NewRow, VersionedRow
<1>2. IdleEdit \in EditType
  BY <1>1 DEF IdleEdit, EditType, EditPc, EditOp
<1> QED BY <1>1, <1>2 DEF NewRow, Current

LEMMA LoadedIs ==
  ASSUME RefInv, NEW op \in EditOp, NEW pc \in EditPc, NEW e, e = Loaded(op, pc)
  PROVE  /\ e \in EditType /\ e.op = op /\ e.pc = pc /\ e.inst = refRow /\ e.was = refRow
         /\ e.fields = refFields /\ e.columns = refColumns
         /\ e.added = {} /\ e.removed = {} /\ e.lines = {} /\ e.saved = {} /\ e.change = {}
<1>1. PICK i \in EditType : i = IdleEdit
  BY NewRowTyped
<1>2. /\ i.added = {} /\ i.removed = {} /\ i.lines = {} /\ i.saved = {} /\ i.change = {}
  BY <1>1 DEF IdleEdit
<1>3. refRow \in VersionedRow /\ refFields \in SUBSET Field /\ refColumns \in SUBSET Field
  BY DEF RefInv, RefTypeOK
<1>4. e = [i EXCEPT !.op = op, !.pc = pc, !.inst = refRow, !.was = refRow,
                    !.fields = refFields, !.columns = refColumns]
  BY <1>1 DEF Loaded
<1>5. e \in EditType
  BY <1>3, <1>4, ZenonT(60) DEF EditType
<1>6. /\ e.op = op /\ e.pc = pc /\ e.inst = refRow /\ e.was = refRow
      /\ e.fields = refFields /\ e.columns = refColumns
      /\ e.added = i.added /\ e.removed = i.removed /\ e.lines = i.lines
      /\ e.saved = i.saved /\ e.change = i.change
  BY <1>4 DEF EditType
<1> QED BY <1>2, <1>5, <1>6

LEMMA LoadsInv ==
  ASSUME RefInv, NEW r \in AdminRequest,
         \/ LoadSaveRecord(r) \/ LoadDeleteRecords(r) \/ LoadUpload(r)
         \/ LoadEdit(r) \/ LoadDelete(r)
  PROVE  RefInv'
<1>1. refRow \in VersionedRow /\ refRecords \subseteq Record
  BY DEF RefInv, RefTypeOK
<1>2. PICK write \in EditPc, line \in EditPc, form \in EditPc, drop \in EditPc :
         write = "write" /\ line = "line" /\ form = "form" /\ drop = "drop"
  BY DEF EditPc
<1>3. PICK save \in EditOp, delete \in EditOp, upload \in EditOp, edit \in EditOp,
           remove \in EditOp :
         /\ save = "save" /\ delete = "delete" /\ upload = "upload" /\ edit = "edit"
         /\ remove = "remove"
  BY DEF EditOp
<1>4. CASE LoadSaveRecord(r)
  <2>1. PICK k \in Record : Load(r, "save", [Loaded("save", "write") EXCEPT !.added = {k}])
    BY <1>4 DEF LoadSaveRecord
  <2>2. PICK e : e = Loaded(save, write)
    OBVIOUS
  <2>3. /\ e \in EditType /\ e.op = save /\ e.pc = write /\ e.inst = refRow /\ e.was = refRow
        /\ e.fields = refFields /\ e.columns = refColumns /\ e.change = {}
    BY <2>2, LoadedIs
  <2>4. PICK row : row = [e EXCEPT !.added = {k}]
    OBVIOUS
  <2>5. row \in EditType /\ LoadedRow(row, "save")
    BY <1>2, <1>3, <2>3, <2>4 DEF EditType, LoadedRow, RecordOps
  <2>6. Load(r, "save", row)
    BY <1>2, <1>3, <2>1, <2>2, <2>4
  <2> QED BY <2>5, <2>6, LoadKeeps
<1>5. CASE LoadDeleteRecords(r)
  <2>1. PICK gone \in SUBSET refRecords :
           Load(r, "delete", [Loaded("delete", "write") EXCEPT !.removed = gone])
    BY <1>5 DEF LoadDeleteRecords
  <2>2. PICK e : e = Loaded(delete, write)
    OBVIOUS
  <2>3. /\ e \in EditType /\ e.op = delete /\ e.pc = write /\ e.inst = refRow /\ e.was = refRow
        /\ e.fields = refFields /\ e.columns = refColumns /\ e.change = {}
    BY <2>2, LoadedIs
  <2>4. PICK row : row = [e EXCEPT !.removed = gone]
    OBVIOUS
  <2>5. row \in EditType /\ LoadedRow(row, "delete")
    BY <1>1, <1>2, <1>3, <2>3, <2>4 DEF EditType, LoadedRow, RecordOps
  <2>6. Load(r, "delete", row)
    BY <1>2, <1>3, <2>1, <2>2, <2>4
  <2> QED BY <2>5, <2>6, LoadKeeps
<1>6. CASE LoadUpload(r)
  <2>1. Load(r, "upload", [Loaded("upload", "line") EXCEPT !.lines = Record])
    BY <1>6 DEF LoadUpload
  <2>2. PICK e : e = Loaded(upload, line)
    OBVIOUS
  <2>3. /\ e \in EditType /\ e.op = upload /\ e.pc = line /\ e.inst = refRow /\ e.was = refRow
        /\ e.fields = refFields /\ e.columns = refColumns /\ e.change = {}
    BY <2>2, LoadedIs
  <2>4. PICK row : row = [e EXCEPT !.lines = Record]
    OBVIOUS
  <2>5. row \in EditType /\ LoadedRow(row, "upload")
    BY <1>2, <1>3, <2>3, <2>4 DEF EditType, LoadedRow, RecordOps
  <2>6. Load(r, "upload", row)
    BY <1>2, <1>3, <2>1, <2>2, <2>4
  <2> QED BY <2>5, <2>6, LoadKeeps
<1>7. CASE LoadEdit(r)
  <2>1. PICK published \in BOOLEAN, ext \in External \cup {Nothing},
             change \in {{}} \cup {{f} : f \in Field} :
           /\ ~ refRow.deleted
           /\ Load(r, "edit", [Loaded("edit", "form") EXCEPT !.inst.published = published,
                                                             !.inst.ext = ext,
                                                             !.change = change])
    BY <1>7 DEF LoadEdit
  <2>2. PICK e : e = Loaded(edit, form)
    OBVIOUS
  <2>3. /\ e \in EditType /\ e.op = edit /\ e.pc = form /\ e.inst = refRow /\ e.was = refRow
        /\ e.fields = refFields /\ e.columns = refColumns /\ e.added = {} /\ e.removed = {}
    BY <2>2, LoadedIs
  <2>4. PICK inst : inst = [refRow EXCEPT !.published = published, !.ext = ext]
    OBVIOUS
  <2>5. inst \in VersionedRow
    BY <1>1, <2>4, ZenonT(60) DEF VersionedRow
  <2>6. /\ inst.deleted = refRow.deleted /\ inst.initial = refRow.initial
        /\ inst.major = refRow.major /\ inst.minor = refRow.minor
        /\ inst.publishedMajor = refRow.publishedMajor
        /\ inst.publishedMinor = refRow.publishedMinor
    BY <1>1, <2>4 DEF VersionedRow
  <2>7. change \in SUBSET Field
    OBVIOUS
  <2>8. PICK row : row = [e EXCEPT !.inst = inst, !.change = change]
    OBVIOUS
  <2>9. row \in EditType
    BY <2>3, <2>5, <2>7, <2>8, ZenonT(60) DEF EditType
  <2>10. /\ row.op = edit /\ row.pc = form /\ row.inst = inst /\ row.was = refRow
         /\ row.fields = refFields /\ row.columns = refColumns
         /\ row.added = {} /\ row.removed = {}
    BY <2>3, <2>8 DEF EditType
  <2>11. LoadedRow(row, "edit")
    BY <1>2, <1>3, <2>1, <2>6, <2>9, <2>10 DEF LoadedRow
  <2>12. row = [e EXCEPT !.inst.published = published, !.inst.ext = ext, !.change = change]
    BY <2>3, <2>4, <2>8 DEF EditType
  <2>13. Load(r, "edit", row)
    BY <1>2, <1>3, <2>1, <2>2, <2>12
  <2> QED BY <2>11, <2>13, LoadKeeps
<1>8. CASE LoadDelete(r)
  <2>1. ~ refRow.deleted /\ Load(r, "remove", Loaded("remove", "drop"))
    BY <1>8 DEF LoadDelete
  <2>2. PICK e : e = Loaded(remove, drop)
    OBVIOUS
  <2>3. /\ e \in EditType /\ e.op = remove /\ e.pc = drop /\ e.inst = refRow /\ e.was = refRow
        /\ e.fields = refFields /\ e.columns = refColumns /\ e.change = {}
    BY <2>2, LoadedIs
  <2>4. LoadedRow(e, "remove")
    BY <1>2, <1>3, <2>1, <2>3 DEF LoadedRow, RecordOps
  <2>5. Load(r, "remove", e)
    BY <1>2, <1>3, <2>1, <2>2
  <2> QED BY <2>4, <2>5, LoadKeeps
<1> QED BY <1>4, <1>5, <1>6, <1>7, <1>8

(***************************************************************************)
(* Records.                                                                *)
(***************************************************************************)
\* Which requests are at which step.
LEMMA OpOf ==
  ASSUME RefInv, NEW r \in AdminRequest, NEW e, e = adminEdit[r]
  PROVE  /\ e.pc = "write" => e.op \in {"save", "delete", "upload"}
         /\ e.pc = "line" => e.op = "upload"
         /\ e.pc \in {"list", "copy", "prune"} => e.op \in {"save", "delete", "synced", "edit"}
         /\ e.pc \in {"form", "create", "columns"} => e.op = "edit"
         /\ e.pc = "drop" => e.op \in {"edit", "remove"}
         /\ e.pc = "mark" => e.op = "remove"
         /\ e.pc = "commit"
              => e.op \in {"save", "delete", "upload", "synced", "edit", "remove"}
         /\ e.pc = "idle" => e.op = "none"
<1>1. EditKept(r) /\ adminEdit[r].op \in EditOp
  BY EditTyped DEF RefInv
<1>2. PICK pc, op : pc = e.pc /\ op = e.op
  OBVIOUS
<1>3. pc \in Stages[op] /\ op \in EditOp
  BY <1>1, <1>2 DEF EditKept
<1>4. CASE op = "none"
  BY <1>2, <1>3, <1>4 DEF Stages
<1>5. CASE op \in {"save", "delete"}
  BY <1>2, <1>3, <1>5 DEF Stages
<1>6. CASE op \in {"upload", "synced"}
  BY <1>2, <1>3, <1>6 DEF Stages
<1>7. CASE op = "edit"
  BY <1>2, <1>3, <1>7 DEF Stages
<1>8. CASE op = "remove"
  BY <1>2, <1>3, <1>8 DEF Stages
<1>9. op \in {"none"} \cup {"save", "delete"} \cup {"upload", "synced"} \cup {"edit", "remove"}
  BY <1>3 DEF EditOp
<1> QED BY <1>4, <1>5, <1>6, <1>7, <1>8, <1>9

\* What a step of a request alone keeps of the types.
LEMMA StepTyped ==
  ASSUME RefTypeOK, adminEdit' \in [AdminRequest -> EditType],
         refRow' \in VersionedRow, refRecords' \subseteq Record,
         refFields' \subseteq Field, refColumns' \subseteq Field,
         external' \in [External -> [exists : BOOLEAN, records : SUBSET Record,
                                     columns : SUBSET Field]],
         rowLock' \in AdminRequest \cup {Nothing}, UNCHANGED <<made, overlap>>,
         externalFaults' \in 0 .. ExternalFaults
  PROVE  RefTypeOK'
BY DEF RefTypeOK, EditType, EditPc, EditOp

\* A step that changes nothing but the record of its request, and perhaps locks the row.
Inner(r) ==
  /\ UNCHANGED <<refRow, refRecords, refFields, refColumns, external, made, overlap,
                 externalFaults>>
  /\ \/ UNCHANGED rowLock
     \/ rowLock \in {Nothing, r} /\ rowLock' = r

LEMMA InnerSteps ==
  ASSUME RefInv, NEW r \in AdminRequest, Inner(r), adminEdit[r].pc # "idle",
         adminEdit[r].pc = "write" => rowLock \in {Nothing, r},
         NEW pc \in EditPc, NEW op \in EditOp, op = adminEdit[r].op \/ op = "synced",
         adminEdit[r].op \in RecordOps => op = adminEdit[r].op,
         NEW inst, NEW added, NEW lines, NEW saved, NEW fields, NEW columns,
         EditGoes(r, pc, op, inst, added, lines, saved, fields, columns),
         EditKept(r)',
         NotOlder(adminEdit[r].inst, adminEdit[r].was, refRow)
           => NotOlder(inst, adminEdit[r].was, refRow),
         Quiet => RowKept(r)' /\ CopyKept(r)', Calm => CalmKept(r)'
  PROVE  RefInv'
<1>1. RefTypeOK /\ Current(refRow)
  BY DEF RefInv
<1>2. RefTypeOK'
  BY <1>1, StepTyped DEF Inner, EditGoes, RefTypeOK
<1>3. r # Nothing /\ Nothing \notin AdminRequest
  BY ReferenceDataAssumption
<1>4. Steps(r)
  BY <1>3 DEF Steps, Inner, EditGoes, RecordOps
<1>5. Current(refRow')
  BY <1>1 DEF Inner
<1>6. ASSUME overlap = "none", adminEdit'[r].pc # "idle"
      PROVE  NotOlder(adminEdit'[r].inst, adminEdit'[r].was, refRow')
  <2>1. NotOlder(adminEdit[r].inst, adminEdit[r].was, refRow)
    BY <1>6 DEF RefInv
  <2> QED BY <2>1 DEF EditGoes, Inner
<1>7. Calm' => Calm
  BY DEF Inner, Calm, Quiet
<1>8. StepKeeps(r)
  BY <1>2, <1>5, <1>6, <1>7 DEF StepKeeps, Inner
<1> QED BY <1>4, <1>8, OneSteps

LEMMA WriteInv ==
  ASSUME RefInv, NEW r \in AdminRequest, WriteRecords(r) PROVE RefInv'
<1>1. /\ RefTypeOK /\ refRow \in VersionedRow /\ EditKept(r)
      /\ adminEdit[r] \in EditType /\ adminEdit[r].inst \in VersionedRow
      /\ adminEdit[r].op \in EditOp
  BY EditTyped DEF RefInv, RefTypeOK
<1>2. PICK e \in EditType, inst \in VersionedRow, op \in EditOp :
         e = adminEdit[r] /\ inst = e.inst /\ op = e.op
  BY <1>1
<1>3. /\ e.pc = "write" /\ op \in {"save", "delete", "upload"}
      /\ rowLock \in {Nothing, r} /\ rowLock' = r
      /\ adminEdit' = [adminEdit EXCEPT ![r].pc = AfterWrite(r),
                                        ![r].inst = NextMinor(r)]
      /\ Inner(r)
  <2>1. /\ e.pc = "write" /\ rowLock \in {Nothing, r} /\ rowLock' = r
        /\ adminEdit' = [adminEdit EXCEPT ![r].pc = AfterWrite(r),
                                          ![r].inst = NextMinor(r)]
        /\ Inner(r)
    BY <1>2 DEF WriteRecords, LocksRow, Inner, committed
  <2>2. op \in {"save", "delete", "upload"}
    BY <1>2, <2>1, OpOf
  <2> QED BY <2>1, <2>2
<1>4. PICK row : row = [inst EXCEPT !.minor = @ + 1]
  OBVIOUS
<1>5. /\ row \in VersionedRow /\ row.published = inst.published /\ row.initial = inst.initial
      /\ row.publishedMajor = inst.publishedMajor /\ row.publishedMinor = inst.publishedMinor
      /\ row.ext = inst.ext /\ row.deleted = inst.deleted
      /\ AtLeast(row.major, row.minor, inst.major, inst.minor)
  BY <1>4 DEF VersionedRow, AtLeast
<1>6. PICK new : new = Saved(r, row)
  OBVIOUS
<1>60. new = NextMinor(r)
  BY <1>2, <1>4, <1>6 DEF NextMinor
<1>7. /\ new \in VersionedRow /\ Current(new)
      /\ new.ext = inst.ext /\ new.deleted = inst.deleted
      /\ NotOlder(inst, e.was, refRow) => NotOlder(new, e.was, refRow)
  BY <1>1, <1>2, <1>5, <1>6, SavedBy
<1>8. PICK pc \in EditPc : pc = AfterWrite(r)
  BY DEF AfterWrite, EditPc
<1>9. pc = IF op # "upload" /\ inst.ext # Nothing THEN "list" ELSE "commit"
  BY <1>2, <1>8 DEF AfterWrite
<1>10. PICK goes : goes = [e EXCEPT !.pc = pc, !.inst = new]
  OBVIOUS
<1>11. adminEdit' = [adminEdit EXCEPT ![r] = goes]
  BY <1>1, <1>2, <1>3, <1>8, <1>60, <1>10, EditTyped
<1>12. EditGoes(r, pc, op, new, e.added, e.lines, e.saved, e.fields, e.columns)
  <2>1. EditChanges(adminEdit[r], goes, pc, op, new, e.added, e.lines, e.saved, e.fields,
                    e.columns)
    BY <1>2, <1>10 DEF EditChanges
  <2>2. /\ e.added \in SUBSET Record /\ e.lines \in SUBSET Record /\ e.saved \in SUBSET Record
        /\ e.fields \in SUBSET Field /\ e.columns \in SUBSET Field
    BY <1>1, <1>2, EditTyped
  <2> QED BY <1>1, <1>7, <1>11, <2>1, <2>2, EditMoved
<1>13. EditKept(r)'
  BY <1>1, <1>2, <1>3, <1>7, <1>9, <1>12 DEF EditKept, EditGoes, Stages, RecordOps
<1>14. ASSUME Quiet PROVE RowKept(r)' /\ CopyKept(r)'
  <2>1. RowKept(r)
    BY <1>14 DEF RefInv, QuietKept
  <2>2. RowKept(r)'
    BY <1>2, <1>3, <1>7, <1>12, <2>1 DEF RowKept, EditGoes, Inner, RecordOps
  <2>3. CopyKept(r)'
    BY <1>3, <1>7, <1>9, <1>12, ReferenceDataAssumption DEF CopyKept, EditGoes, RecordOps
  <2> QED BY <2>2, <2>3
<1>15. ASSUME Calm PROVE CalmKept(r)'
  <2>1. CalmKept(r)
    BY <1>2, <1>3, <1>15, CalmOfOne
  <2>2. /\ ~ Gone(r) /\ ~ Reached(r) /\ ~ Gone(r)' /\ ~ Reached(r)'
        /\ ColumnsKept(r)' /\ (Lagging(r) => Lagging(r)')
    BY <1>2, <1>3, <1>9, <1>12 DEF Gone, Reached, Lagging, ColumnsKept, EditGoes, RecordOps
  <2> QED BY <1>3, <2>1, <2>2 DEF CalmKept, Inner, Tables, Holds, Live
<1> QED BY <1>2, <1>3, <1>7, <1>12, <1>13, <1>14, <1>15, InnerSteps

\* The lines of an upload, one after the other.
LEMMA UploadInv ==
  ASSUME RefInv, NEW r \in AdminRequest, UploadLine(r) \/ SkipLine(r) PROVE RefInv'
<1>1. /\ RefTypeOK /\ EditKept(r) /\ adminEdit \in [AdminRequest -> EditType]
      /\ refRow \in VersionedRow /\ refRecords \subseteq Record
  BY EditTyped DEF RefInv, RefTypeOK
<1>2. PICK e \in EditType : e = adminEdit[r]
  BY EditTyped, <1>1
<1>3. /\ e.inst \in VersionedRow /\ e.was \in VersionedRow
      /\ e.added \in SUBSET Record /\ e.removed \in SUBSET Record
      /\ e.lines \in SUBSET Record /\ e.saved \in SUBSET Record
      /\ e.fields \in SUBSET Field /\ e.columns \in SUBSET Field
      /\ e.change \in SUBSET Field /\ e.pc \in EditPc /\ e.op \in EditOp
  BY <1>1, <1>2, EditTyped
<1>4. PICK pc \in EditPc, added \in SUBSET Record, lines \in SUBSET Record :
         /\ \/ pc = "write"
            \/ pc = "line" /\ added = e.added
         /\ EditGoes(r, pc, e.op, e.inst, added, lines, e.saved, e.fields, e.columns)
  <2>1. CASE UploadLine(r)
    <3>1. PICK k \in e.lines :
             adminEdit' = [adminEdit EXCEPT ![r].pc = "write", ![r].added = {k},
                                            ![r].lines = @ \ {k}]
      BY <1>2, <2>1 DEF UploadLine
    <3>2. PICK pc \in EditPc, added \in SUBSET Record, lines \in SUBSET Record :
             pc = "write" /\ added = {k} /\ lines = e.lines \ {k}
      BY <1>3, <3>1 DEF EditPc
    <3>3. adminEdit' = [adminEdit EXCEPT ![r].pc = pc, ![r].added = added, ![r].lines = lines]
      BY <1>1, <1>2, <3>1, <3>2 DEF EditType
    <3>4. PICK row : row = [e EXCEPT !.pc = pc, !.added = added, !.lines = lines]
      OBVIOUS
    <3>5. adminEdit' = [adminEdit EXCEPT ![r] = row]
      BY <1>1, <1>2, <3>3, <3>4
    <3>6. EditChanges(adminEdit[r], row, pc, e.op, e.inst, added, lines, e.saved, e.fields,
                      e.columns)
      BY <1>2, <3>4 DEF EditChanges
    <3>7. EditGoes(r, pc, e.op, e.inst, added, lines, e.saved, e.fields, e.columns)
      BY <1>1, <1>3, <3>5, <3>6, EditMoved
    <3> QED BY <3>2, <3>7
  <2>2. CASE SkipLine(r)
    <3>1. PICK k \in e.lines : adminEdit' = [adminEdit EXCEPT ![r].lines = @ \ {k}]
      BY <1>2, <2>2 DEF SkipLine
    <3>2. PICK lines \in SUBSET Record : lines = e.lines \ {k}
      BY <1>3, <3>1
    <3>3. adminEdit' = [adminEdit EXCEPT ![r].lines = lines]
      BY <1>1, <1>2, <3>1, <3>2
    <3>4. PICK row : row = [e EXCEPT !.lines = lines]
      OBVIOUS
    <3>5. adminEdit' = [adminEdit EXCEPT ![r] = row]
      BY <1>1, <1>2, <3>3, <3>4
    <3>6. EditChanges(adminEdit[r], row, e.pc, e.op, e.inst, e.added, lines, e.saved, e.fields,
                      e.columns)
      BY <1>2, <3>4 DEF EditChanges
    <3>7. EditGoes(r, e.pc, e.op, e.inst, e.added, lines, e.saved, e.fields, e.columns)
      BY <1>1, <1>3, <3>5, <3>6, EditMoved
    <3>8. e.pc = "line"
      BY <1>2, <2>2 DEF SkipLine
    <3> QED BY <1>3, <3>2, <3>7, <3>8
  <2> QED BY <2>1, <2>2
<1>5. e.pc = "line" /\ e.op = "upload" /\ Inner(r)
  <2>1. e.pc = "line" /\ Inner(r)
    BY <1>2 DEF UploadLine, SkipLine, Inner, committed
  <2>2. e.op = "upload"
    BY <1>2, <2>1, OpOf
  <2> QED BY <2>1, <2>2
<1>6. EditKept(r)'
  BY <1>1, <1>2, <1>4, <1>5 DEF EditKept, EditGoes, Stages, RecordOps
<1>7. ASSUME Quiet PROVE RowKept(r)' /\ CopyKept(r)'
  <2>1. RowKept(r)
    BY <1>7 DEF RefInv, QuietKept
  <2> QED BY <1>2, <1>4, <1>5, <2>1 DEF RowKept, CopyKept, EditGoes, Inner, RecordOps
<1>8. ASSUME Calm PROVE CalmKept(r)'
  <2>1. CalmKept(r)
    BY <1>2, <1>5, <1>8, CalmOfOne
  <2>2. /\ ~ Gone(r) /\ ~ Reached(r) /\ ~ Gone(r)' /\ ~ Reached(r)'
        /\ ColumnsKept(r)' /\ Lagging(r)'
    BY <1>2, <1>4, <1>5 DEF Gone, Reached, Lagging, ColumnsKept, EditGoes
  <2> QED BY <1>5, <2>1, <2>2 DEF CalmKept, Inner, Tables, Live
<1>9. NotOlder(adminEdit[r].inst, adminEdit[r].was, refRow)
        => NotOlder(e.inst, adminEdit[r].was, refRow)
  BY <1>2
<1> QED BY <1>2, <1>3, <1>4, <1>5, <1>6, <1>7, <1>8, <1>9, InnerSteps

\* An upload turns to the external database.
LEMMA UploadSyncsInv ==
  ASSUME RefInv, NEW r \in AdminRequest, UploadSyncs(r) PROVE RefInv'
<1>1. /\ RefTypeOK /\ EditKept(r) /\ adminEdit \in [AdminRequest -> EditType]
      /\ refRow \in VersionedRow /\ refRecords \subseteq Record
  BY EditTyped DEF RefInv, RefTypeOK
<1>2. PICK e \in EditType : e = adminEdit[r]
  BY EditTyped, <1>1
<1>3. /\ e.inst \in VersionedRow /\ e.was \in VersionedRow
      /\ e.added \in SUBSET Record /\ e.removed \in SUBSET Record
      /\ e.lines \in SUBSET Record /\ e.saved \in SUBSET Record
      /\ e.fields \in SUBSET Field /\ e.columns \in SUBSET Field
      /\ e.change \in SUBSET Field /\ e.pc \in EditPc /\ e.op \in EditOp
  BY <1>1, <1>2, EditTyped
<1>4. /\ e.pc = "line" /\ e.op = "upload" /\ Inner(r)
      /\ adminEdit' = [adminEdit EXCEPT
                         ![r].pc = IF adminEdit[r].inst.ext = Nothing THEN "commit" ELSE "list",
                         ![r].op = "synced"]
  <2>1. /\ e.pc = "line" /\ Inner(r)
        /\ adminEdit' = [adminEdit EXCEPT
                           ![r].pc = IF adminEdit[r].inst.ext = Nothing THEN "commit" ELSE "list",
                           ![r].op = "synced"]
    BY <1>2 DEF UploadSyncs, Inner, committed
  <2>2. e.op = "upload"
    BY <1>2, <2>1, OpOf
  <2> QED BY <2>1, <2>2
<1>5. PICK pc \in EditPc, op \in EditOp :
         op = "synced" /\ pc = IF e.inst.ext = Nothing THEN "commit" ELSE "list"
  BY DEF EditPc, EditOp
<1>6. EditGoes(r, pc, op, e.inst, e.added, e.lines, e.saved, e.fields, e.columns)
  <2>1. adminEdit' = [adminEdit EXCEPT ![r].pc = pc, ![r].op = op]
    BY <1>2, <1>4, <1>5
  <2>2. PICK row : row = [e EXCEPT !.pc = pc, !.op = op]
    OBVIOUS
  <2>3. adminEdit' = [adminEdit EXCEPT ![r] = row]
    BY <1>1, <1>2, <2>1, <2>2
  <2>4. EditChanges(adminEdit[r], row, pc, op, e.inst, e.added, e.lines, e.saved, e.fields,
                    e.columns)
    BY <1>2, <2>2 DEF EditChanges
  <2> QED BY <1>1, <1>3, <2>3, <2>4, EditMoved
<1>7. EditKept(r)'
  <2>1. CASE pc = "commit"
    BY <1>1, <1>2, <1>4, <1>5, <1>6, <2>1 DEF EditKept, EditGoes, Stages, RecordOps
  <2>2. CASE pc = "list"
    <3>1. e.inst.ext # Nothing
      BY <1>5, <2>2
    <3> QED
      BY <1>1, <1>2, <1>4, <1>5, <1>6, <2>2, <3>1
         DEF EditKept, EditGoes, Stages, RecordOps
  <2> QED BY <1>5, <2>1, <2>2
<1>8. ASSUME Quiet PROVE RowKept(r)' /\ CopyKept(r)'
  <2>1. RowKept(r)
    BY <1>8 DEF RefInv, QuietKept
  <2>2. RowKept(r)'
    BY <1>2, <1>4, <1>6, <2>1 DEF RowKept, EditGoes, Inner, RecordOps
  <2>3. CopyKept(r)'
    BY <1>4, <1>5, <1>6, ReferenceDataAssumption DEF CopyKept, EditGoes
  <2> QED BY <2>2, <2>3
<1>9. ASSUME Calm PROVE CalmKept(r)'
  <2>1. CalmKept(r)
    BY <1>2, <1>4, <1>9, CalmOfOne
  <2>2. /\ ~ Gone(r) /\ ~ Reached(r) /\ ~ Gone(r)' /\ ~ Reached(r)'
        /\ ColumnsKept(r)' /\ Lagging(r)'
    BY <1>2, <1>4, <1>5, <1>6 DEF Gone, Reached, Lagging, ColumnsKept, EditGoes
  <2> QED BY <1>4, <2>1, <2>2 DEF CalmKept, Inner, Tables, Live
<1>10. NotOlder(adminEdit[r].inst, adminEdit[r].was, refRow)
         => NotOlder(e.inst, adminEdit[r].was, refRow)
  BY <1>2
<1> QED BY <1>2, <1>3, <1>4, <1>5, <1>6, <1>7, <1>8, <1>9, <1>10, InnerSteps DEF RecordOps

\* The query for the records to copy.
LEMMA ListInv ==
  ASSUME RefInv, NEW r \in AdminRequest, ListRecords(r) PROVE RefInv'
<1>1. /\ RefTypeOK /\ EditKept(r) /\ adminEdit \in [AdminRequest -> EditType]
      /\ refRow \in VersionedRow /\ refRecords \subseteq Record
  BY EditTyped DEF RefInv, RefTypeOK
<1>2. PICK e \in EditType : e = adminEdit[r]
  BY EditTyped, <1>1
<1>3. /\ e.inst \in VersionedRow /\ e.was \in VersionedRow
      /\ e.added \in SUBSET Record /\ e.removed \in SUBSET Record
      /\ e.lines \in SUBSET Record /\ e.saved \in SUBSET Record
      /\ e.fields \in SUBSET Field /\ e.columns \in SUBSET Field
      /\ e.change \in SUBSET Field /\ e.pc \in EditPc /\ e.op \in EditOp
  BY <1>1, <1>2, EditTyped
<1>4. /\ e.pc = "list" /\ e.op \in {"save", "delete", "synced", "edit"} /\ Inner(r)
      /\ adminEdit' = [adminEdit EXCEPT ![r].pc = "copy", ![r].saved = Visible(r)]
  <2>1. /\ e.pc = "list" /\ Inner(r)
        /\ adminEdit' = [adminEdit EXCEPT ![r].pc = "copy", ![r].saved = Visible(r)]
    BY <1>2 DEF ListRecords, Inner, committed
  <2>2. e.op \in {"save", "delete", "synced", "edit"}
    BY <1>2, <2>1, OpOf
  <2> QED BY <2>1, <2>2
<1>5. PICK pc \in EditPc, saved \in SUBSET Record : pc = "copy" /\ saved = Visible(r)
  BY <1>1, <1>2, <1>3 DEF EditPc, Visible
<1>6. EditGoes(r, pc, e.op, e.inst, e.added, e.lines, saved, e.fields, e.columns)
  <2>1. adminEdit' = [adminEdit EXCEPT ![r].pc = pc, ![r].saved = saved]
    BY <1>4, <1>5
  <2>2. PICK row : row = [e EXCEPT !.pc = pc, !.saved = saved]
    OBVIOUS
  <2>3. adminEdit' = [adminEdit EXCEPT ![r] = row]
    BY <1>1, <1>2, <2>1, <2>2
  <2>4. EditChanges(adminEdit[r], row, pc, e.op, e.inst, e.added, e.lines, saved, e.fields,
                    e.columns)
    BY <1>2, <2>2 DEF EditChanges
  <2> QED BY <1>1, <1>3, <2>3, <2>4, EditMoved
<1>7. EditKept(r)'
  BY <1>1, <1>2, <1>4, <1>5, <1>6 DEF EditKept, EditGoes, Stages, RecordOps, Inner
<1>8. ASSUME Quiet PROVE RowKept(r)' /\ CopyKept(r)'
  <2>1. RowKept(r)
    BY <1>8 DEF RefInv, QuietKept
  <2>2. Visible(r)' = Visible(r)
    BY <1>2, <1>4, <1>6 DEF Visible, EditGoes, Inner
  <2> QED BY <1>2, <1>4, <1>5, <1>6, <2>1, <2>2
          DEF RowKept, CopyKept, EditGoes, Inner, RecordOps
<1>9. ASSUME Calm PROVE CalmKept(r)'
  <2>1. CalmKept(r)
    BY <1>2, <1>4, <1>9, CalmOfOne
  <2>2. /\ ~ Gone(r) /\ ~ Gone(r)' /\ (Reached(r)' <=> Reached(r))
        /\ (Lagging(r)' <=> Lagging(r))
    BY <1>2, <1>4, <1>5, <1>6 DEF Gone, Reached, Lagging, EditGoes, RecordOps
  <2>3. ColumnsKept(r)' /\ (Reached(r) => ReachedKept(r)')
    BY <1>2, <1>4, <1>5, <1>6, <2>1
    DEF ColumnsKept, ReachedKept, EditGoes, CalmKept, Inner, Tables
  <2> QED BY <1>4, <2>1, <2>2, <2>3 DEF CalmKept, Inner, Tables, Live, Holds
<1>10. NotOlder(adminEdit[r].inst, adminEdit[r].was, refRow)
         => NotOlder(e.inst, adminEdit[r].was, refRow)
  BY <1>2
<1> QED BY <1>2, <1>3, <1>4, <1>5, <1>6, <1>7, <1>8, <1>9, <1>10, InnerSteps

(***************************************************************************)
(* The external database.                                                  *)
(***************************************************************************)
TableType == [exists : BOOLEAN, records : SUBSET Record, columns : SUBSET Field]

\* A table changes, is made or is dropped.
LEMMA TableChanged ==
  ASSUME RefTypeOK, NEW d \in External, NEW table \in TableType,
         external' = [external EXCEPT ![d] = table]
  PROVE  /\ external' \in [External -> TableType] /\ external'[d] = table
         /\ \A c \in External \ {d} : external'[c] = external[c]
BY DEF RefTypeOK, TableType

\* New records leave the tables where they are.
LEMMA TablesStay ==
  ASSUME NEW d \in External, NEW ext, NEW columns, Tables(ext, columns), external[d].exists,
         external'[d].exists, external'[d].columns = external[d].columns,
         \A c \in External \ {d} : external'[c] = external[c], NEW c \in External
  PROVE  IF c = ext THEN external'[c].exists /\ external'[c].columns = columns
         ELSE external'[c] = NoTable
<1>1. ~ NoTable.exists
  BY DEF NoTable
<1> QED BY <1>1 DEF Tables

\* A step that changes tables and the record of its request.
Outer(r) ==
  /\ UNCHANGED <<refRow, refRecords, refFields, refColumns, rowLock, made, overlap>>
  /\ external' \in [External -> TableType]
  /\ externalFaults' \in 0 .. ExternalFaults
  /\ externalFaults' = 0 => externalFaults = 0

LEMMA OuterSteps ==
  ASSUME RefInv, NEW r \in AdminRequest, Outer(r), adminEdit[r].pc \notin {"idle", "write"},
         NEW pc \in EditPc, NEW inst, NEW added, NEW lines, NEW saved, NEW fields, NEW columns,
         EditGoes(r, pc, adminEdit[r].op, inst, added, lines, saved, fields, columns),
         EditKept(r)',
         NotOlder(adminEdit[r].inst, adminEdit[r].was, refRow)
           => NotOlder(inst, adminEdit[r].was, refRow),
         Quiet => RowKept(r)' /\ CopyKept(r)', Calm' => CalmKept(r)'
  PROVE  RefInv'
<1>1. RefTypeOK /\ Current(refRow)
  BY DEF RefInv
<1>2. RefTypeOK'
  BY <1>1, StepTyped DEF Outer, EditGoes, RefTypeOK, TableType
<1>4. Steps(r)
  BY DEF Steps, Outer, EditGoes, RecordOps
<1>5. Current(refRow')
  BY <1>1 DEF Outer
<1>6. ASSUME overlap = "none", adminEdit'[r].pc # "idle"
      PROVE  NotOlder(adminEdit'[r].inst, adminEdit'[r].was, refRow')
  <2>1. NotOlder(adminEdit[r].inst, adminEdit[r].was, refRow)
    BY <1>6 DEF RefInv
  <2> QED BY <2>1 DEF EditGoes, Outer
<1>8. StepKeeps(r)
  BY <1>2, <1>5, <1>6 DEF StepKeeps, Outer
<1> QED BY <1>4, <1>8, OneSteps

\* sync_to_external_database.
LEMMA SyncInv ==
  ASSUME RefInv, NEW r \in AdminRequest, CopyRecords(r) \/ PruneRecords(r) PROVE RefInv'
<1>1. /\ RefTypeOK /\ EditKept(r) /\ adminEdit \in [AdminRequest -> EditType]
      /\ refRow \in VersionedRow /\ refRecords \subseteq Record
  BY EditTyped DEF RefInv, RefTypeOK
<1>2. PICK e \in EditType : e = adminEdit[r]
  BY EditTyped, <1>1
<1>3. /\ e.inst \in VersionedRow /\ e.was \in VersionedRow
      /\ e.added \in SUBSET Record /\ e.removed \in SUBSET Record
      /\ e.lines \in SUBSET Record /\ e.saved \in SUBSET Record
      /\ e.fields \in SUBSET Field /\ e.columns \in SUBSET Field
      /\ e.change \in SUBSET Field /\ e.pc \in EditPc /\ e.op \in EditOp
  BY <1>1, <1>2, EditTyped
<1>4. PICK d : d = e.inst.ext
  OBVIOUS
<1>50. PICK pc \in EditPc : pc = IF e.pc = "copy" THEN "prune"
                                 ELSE IF e.op = "edit" THEN "columns" ELSE "commit"
  BY DEF EditPc
<1>51. PICK records : records = IF e.pc = "copy" THEN external[d].records \cup e.saved
                                ELSE external[d].records \cap e.saved
  OBVIOUS
<1>5. /\ \/ e.pc = "copy" /\ pc = "prune" /\ records = external[d].records \cup e.saved
         \/ /\ e.pc = "prune" /\ pc = IF e.op = "edit" THEN "columns" ELSE "commit"
            /\ records = external[d].records \cap e.saved
      /\ adminEdit' = [adminEdit EXCEPT ![r].pc = pc]
      /\ external[d].exists
      /\ external' = [external EXCEPT ![d].records = records]
      /\ UNCHANGED <<refRow, refRecords, refFields, refColumns, rowLock, made, overlap,
                     externalFaults>>
  <2>1. CASE CopyRecords(r)
    <3>1. e.pc = "copy" /\ pc = "prune" /\ records = external[d].records \cup e.saved
      BY <1>2, <1>50, <1>51, <2>1 DEF CopyRecords, EditStep
    <3> QED BY <1>2, <1>4, <2>1, <3>1 DEF CopyRecords, EditStep, SyncsTo, committed
  <2>2. CASE PruneRecords(r)
    <3>1. /\ e.pc = "prune" /\ pc = IF e.op = "edit" THEN "columns" ELSE "commit"
          /\ records = external[d].records \cap e.saved
      BY <1>2, <1>50, <1>51, <2>2 DEF PruneRecords, EditStep
    <3> QED BY <1>2, <1>4, <2>2, <3>1 DEF PruneRecords, EditStep, SyncsTo, committed
  <2> QED BY <2>1, <2>2
<1>6. e.op \in {"save", "delete", "synced", "edit"}
  BY <1>2, <1>5, OpOf
<1>7. d \in External
  BY <1>1, <1>2, <1>3, <1>4, <1>5 DEF EditKept, VersionedRow
<1>8. EditGoes(r, pc, e.op, e.inst, e.added, e.lines, e.saved, e.fields, e.columns)
  <2>1. PICK row : row = [e EXCEPT !.pc = pc]
    OBVIOUS
  <2>2. adminEdit' = [adminEdit EXCEPT ![r] = row]
    BY <1>1, <1>2, <1>5, <2>1
  <2>3. EditChanges(adminEdit[r], row, pc, e.op, e.inst, e.added, e.lines, e.saved, e.fields,
                    e.columns)
    BY <1>2, <2>1 DEF EditChanges
  <2> QED BY <1>1, <1>3, <2>2, <2>3, EditMoved
<1>9. /\ external' \in [External -> TableType]
      /\ external'[d].exists /\ external'[d].columns = external[d].columns
      /\ external'[d].records = records
      /\ \A c \in External \ {d} : external'[c] = external[c]
  <2>1. external[d] \in TableType
    BY <1>1, <1>7 DEF RefTypeOK, TableType
  <2>2. PICK was \in TableType : was = external[d]
    BY <2>1
  <2>3. PICK table : table = [was EXCEPT !.records = records]
    OBVIOUS
  <2>4. was.records \in SUBSET Record /\ was.exists
    BY <1>5, <2>2 DEF TableType
  <2>5. records \in SUBSET Record
    BY <1>3, <1>5, <2>2, <2>4
  <2>6. /\ table \in TableType /\ table.exists /\ table.columns = was.columns
        /\ table.records = records
    BY <2>3, <2>4, <2>5 DEF TableType
  <2>7. external' = [external EXCEPT ![d] = table]
    BY <1>1, <1>5, <1>7, <2>2, <2>3
  <2> QED BY <1>1, <1>7, <2>2, <2>6, <2>7, TableChanged
<1>10. Outer(r)
  BY <1>1, <1>5, <1>9 DEF Outer, RefTypeOK
<1>11. EditKept(r)'
  BY <1>1, <1>2, <1>4, <1>5, <1>6, <1>8, <1>7, ReferenceDataAssumption
     DEF EditKept, EditGoes, Stages, RecordOps
<1>12. ASSUME Quiet
       PROVE  /\ RowKept(r)' /\ CopyKept(r)' /\ e.saved = Visible(r) /\ Visible(r)' = Visible(r)
              /\ pc # "prune" => external'[d].records = Visible(r)
  <2>1. RowKept(r) /\ CopyKept(r)
    BY <1>12 DEF RefInv, QuietKept
  <2>2. RowKept(r)'
    BY <1>2, <1>5, <1>6, <1>8, <2>1 DEF RowKept, EditGoes
  <2>3. Visible(r)' = Visible(r)
    BY <1>2, <1>5, <1>8 DEF Visible, EditGoes
  <2>4. e.saved = Visible(r)
    BY <1>2, <1>5, <2>1 DEF CopyKept
  <2>5. CASE pc = "prune"
    BY <1>4, <1>5, <1>8, <1>9, <2>2, <2>3, <2>4, <2>5 DEF CopyKept, EditGoes
  <2>6. CASE pc # "prune"
    <3>1. e.saved \subseteq external[d].records
      BY <1>2, <1>4, <1>5, <2>1, <2>6 DEF CopyKept
    <3>2. external'[d].records = Visible(r)
      BY <1>5, <1>9, <2>4, <2>6, <3>1
    <3>3. CopyKept(r)'
      BY <1>4, <1>5, <1>8, <2>3, <2>6, <3>2 DEF CopyKept, EditGoes
    <3> QED BY <2>2, <2>3, <2>4, <3>2, <3>3
  <2> QED BY <2>5, <2>6
<1>13. ASSUME Calm' PROVE CalmKept(r)'
  <2>1. Calm /\ Quiet
    BY <1>5, <1>13 DEF Calm, Quiet
  <2>2. CalmKept(r)
    BY <1>2, <1>5, <2>1, CalmOfOne
  <2>3. ~ Gone(r) /\ ~ Gone(r)' /\ Lagging(r)'
    BY <1>2, <1>5, <1>6, <1>8 DEF Gone, Lagging, Reached, EditGoes, RecordOps
  <2>4. ColumnsKept(r)'
    BY <1>2, <1>5, <1>6, <1>8, <2>2 DEF CalmKept, ColumnsKept, EditGoes
  <2>5. CASE e.op = "edit"
    <3>1. Reached(r) /\ Reached(r)'
      BY <1>2, <1>5, <1>8, <2>5 DEF Reached, EditGoes
    <3>2. Tables(e.inst.ext, e.columns)
      BY <1>2, <2>2, <3>1 DEF CalmKept, ReachedKept
    <3>3. Tables(adminEdit[r].inst.ext, adminEdit[r].columns)'
      BY <1>5, <1>7, <1>8, <1>9, <3>2, TablesStay DEF Tables, EditGoes
    <3>4. pc # "prune" => external'[d].records = refRecords'
      <4>1. e.added = {} /\ e.removed = {}
        BY <1>1, <1>2, <2>5 DEF EditKept
      <4> QED BY <1>2, <1>5, <1>12, <2>1, <4>1 DEF Visible
    <3>5. ReachedKept(r)'
      BY <1>4, <1>5, <1>8, <3>3, <3>4 DEF ReachedKept, Holds, EditGoes
    <3> QED BY <1>5, <2>2, <2>3, <2>4, <3>1, <3>5 DEF CalmKept
  <2>6. CASE e.op # "edit"
    <3>1. ~ Reached(r) /\ ~ Reached(r)'
      BY <1>2, <1>8, <2>6 DEF Reached, EditGoes
    <3>2. Tables(Live, refColumns)
      BY <2>2, <2>3, <3>1 DEF CalmKept
    <3>3. Live' = Live
      BY <1>5 DEF Live
    <3>4. Tables(Live, refColumns)'
      BY <1>5, <1>7, <1>9, <3>2, <3>3, TablesStay DEF Tables
    <3> QED BY <1>5, <2>2, <2>3, <2>4, <3>1, <3>4 DEF CalmKept
  <2> QED BY <2>5, <2>6
<1>14. NotOlder(adminEdit[r].inst, adminEdit[r].was, refRow)
         => NotOlder(e.inst, adminEdit[r].was, refRow)
  BY <1>2
<1> QED BY <1>2, <1>5, <1>8, <1>10, <1>11, <1>12, <1>13, <1>14, OuterSteps

\* Nothing is no external database.
LEMMA NoTables ==
  ASSUME NEW columns, NEW any, Tables(Nothing, columns)
  PROVE  /\ \A d \in External : external[d] = NoTable /\ ~ external[d].exists
         /\ Tables(Nothing, any)
<1>1. ~ NoTable.exists
  BY DEF NoTable
<1> QED BY <1>1, ReferenceDataAssumption DEF Tables

\* The form of the dataset is saved.
LEMMA EditSaveInv ==
  ASSUME RefInv, NEW r \in AdminRequest, EditSave(r) PROVE RefInv'
<1>1. /\ RefTypeOK /\ EditKept(r) /\ adminEdit \in [AdminRequest -> EditType]
      /\ refRow \in VersionedRow /\ refRecords \subseteq Record
  BY EditTyped DEF RefInv, RefTypeOK
<1>2. PICK e \in EditType : e = adminEdit[r]
  BY EditTyped, <1>1
<1>3. /\ e.inst \in VersionedRow /\ e.was \in VersionedRow
      /\ e.added \in SUBSET Record /\ e.removed \in SUBSET Record
      /\ e.lines \in SUBSET Record /\ e.saved \in SUBSET Record
      /\ e.fields \in SUBSET Field /\ e.columns \in SUBSET Field
      /\ e.change \in SUBSET Field /\ e.pc \in EditPc /\ e.op \in EditOp
  BY <1>1, <1>2, EditTyped
<1>4. PICK new : new = Saved(r, e.inst)
  OBVIOUS
<1>5. /\ new \in VersionedRow /\ Current(new)
      /\ new.ext = e.inst.ext /\ new.deleted = e.inst.deleted
      /\ NotOlder(e.inst, adminEdit[r].was, refRow) => NotOlder(new, adminEdit[r].was, refRow)
  <2>1. AtLeast(e.inst.major, e.inst.minor, e.inst.major, e.inst.minor)
    <3>1. e.inst.minor \in Nat
      BY <1>3 DEF VersionedRow
    <3> QED BY <3>1 DEF AtLeast
  <2> QED BY <1>1, <1>3, <1>4, <2>1, SavedBy
<1>6. PICK pc \in EditPc :
         pc = CASE ~ ExtChanges(r) -> "columns"
                [] ExtChanges(r) /\ adminEdit[r].was.ext # Nothing -> "drop"
                [] OTHER -> "create"
  BY DEF EditPc
<1>7. /\ e.pc = "form" /\ Inner(r)
      /\ adminEdit' = [adminEdit EXCEPT ![r].inst = new, ![r].pc = pc]
  BY <1>2, <1>4, <1>6 DEF EditSave, LocksRow, Inner, committed
<1>8. e.op = "edit"
  BY <1>2, <1>7, OpOf
<1>9. \/ pc = "columns" /\ e.inst.ext = e.was.ext
      \/ pc = "drop"
      \/ pc = "create" /\ e.was.ext = Nothing /\ e.inst.ext # Nothing
  BY <1>2, <1>6 DEF ExtChanges
<1>10. EditGoes(r, pc, e.op, new, e.added, e.lines, e.saved, e.fields, e.columns)
  <2>1. PICK row : row = [e EXCEPT !.inst = new, !.pc = pc]
    OBVIOUS
  <2>2. adminEdit' = [adminEdit EXCEPT ![r] = row]
    BY <1>1, <1>2, <1>5, <1>7, <2>1
  <2>3. EditChanges(adminEdit[r], row, pc, e.op, new, e.added, e.lines, e.saved, e.fields,
                    e.columns)
    BY <1>2, <2>1 DEF EditChanges
  <2> QED BY <1>1, <1>3, <1>5, <1>7, <2>2, <2>3, EditMoved
<1>11. EditKept(r)'
  BY <1>1, <1>2, <1>5, <1>8, <1>9, <1>10 DEF EditKept, EditGoes, Stages, RecordOps
<1>12. ASSUME Quiet
       PROVE  RowKept(r)' /\ CopyKept(r)' /\ e.was.ext = refRow.ext /\ ~ refRow.deleted
  <2>1. RowKept(r)
    BY <1>12 DEF RefInv, QuietKept
  <2>2. RowKept(r)' /\ e.was.ext = refRow.ext /\ ~ refRow.deleted
    BY <1>2, <1>5, <1>7, <1>8, <1>10, <2>1 DEF RowKept, EditGoes, Inner, RecordOps
  <2>3. CopyKept(r)'
    BY <1>9, <1>10 DEF CopyKept, EditGoes
  <2> QED BY <2>2, <2>3
<1>13. ASSUME Calm PROVE CalmKept(r)'
  <2>1. CalmKept(r) /\ Live = e.was.ext
    BY <1>2, <1>7, <1>12, <1>13, CalmOfOne DEF Calm, Live
  <2>2. /\ ~ Gone(r) /\ ~ Reached(r) /\ ~ Lagging(r)
    BY <1>2, <1>7, <1>8 DEF Gone, Reached, Lagging, RecordOps
  <2>3. Tables(Live, refColumns) /\ Holds(Live, refRecords) /\ ColumnsKept(r)
    BY <2>1, <2>2 DEF CalmKept
  <2>4. e.fields = e.columns /\ e.columns = refColumns
    BY <1>2, <1>7, <1>8, <2>3 DEF ColumnsKept
  <2>5. ColumnsKept(r)' /\ refFields' = refColumns'
    BY <1>7, <1>9, <1>10, <2>1, <2>4 DEF ColumnsKept, EditGoes, Inner, CalmKept
  <2>6. UNCHANGED <<external, refRow, refRecords, refColumns>>
    BY <1>7 DEF Inner
  <2>7. CASE pc = "columns"
    <3>1. Tables(new.ext, e.columns) /\ Holds(new.ext, refRecords)
      BY <1>5, <1>9, <2>1, <2>3, <2>4, <2>7
    <3>2. ReachedKept(r)' /\ Reached(r)' /\ ~ Gone(r)'
      BY <1>8, <1>10, <2>6, <2>7, <3>1 DEF ReachedKept, Reached, Gone, EditGoes, Tables, Holds
    <3> QED BY <2>5, <3>2 DEF CalmKept, Lagging
  <2>8. CASE pc = "create"
    <3>1. Tables(Nothing, {})
      BY <1>9, <2>1, <2>3, <2>8, NoTables
    <3>2. Tables(Nothing, {})' /\ Gone(r)' /\ ~ Reached(r)'
      BY <1>8, <1>10, <2>6, <2>8, <3>1 DEF Reached, Gone, EditGoes, Tables
    <3> QED BY <2>5, <3>2 DEF CalmKept, Lagging
  <2>9. CASE pc = "drop"
    <3>1. ~ Gone(r)' /\ ~ Reached(r)'
      BY <1>8, <1>10, <2>9 DEF Reached, Gone, EditGoes
    <3>2. Tables(Live, refColumns)' /\ Holds(Live, refRecords)'
      BY <2>3, <2>6 DEF Tables, Holds, Live
    <3> QED BY <2>5, <3>1, <3>2 DEF CalmKept
  <2> QED BY <1>9, <2>7, <2>8, <2>9
<1> QED BY <1>2, <1>3, <1>5, <1>7, <1>10, <1>11, <1>12, <1>13, InnerSteps

\* The table of the row as it was is dropped.
LEMMA DropInv ==
  ASSUME RefInv, NEW r \in AdminRequest, DropTable(r) PROVE RefInv'
<1>1. /\ RefTypeOK /\ EditKept(r) /\ adminEdit \in [AdminRequest -> EditType]
      /\ refRow \in VersionedRow /\ refRecords \subseteq Record
  BY EditTyped DEF RefInv, RefTypeOK
<1>2. PICK e \in EditType : e = adminEdit[r]
  BY EditTyped, <1>1
<1>3. /\ e.inst \in VersionedRow /\ e.was \in VersionedRow
      /\ e.added \in SUBSET Record /\ e.removed \in SUBSET Record
      /\ e.lines \in SUBSET Record /\ e.saved \in SUBSET Record
      /\ e.fields \in SUBSET Field /\ e.columns \in SUBSET Field
      /\ e.change \in SUBSET Field /\ e.pc \in EditPc /\ e.op \in EditOp
  BY <1>1, <1>2, EditTyped
<1>4. PICK d : d = e.was.ext
  OBVIOUS
<1>5. PICK pc \in EditPc :
         pc = CASE adminEdit[r].op = "remove" -> "mark"
                [] adminEdit[r].op = "edit" /\ adminEdit[r].inst.ext # Nothing -> "create"
                [] OTHER -> "columns"
  BY DEF EditPc
<1>6. /\ e.pc = "drop" /\ adminEdit' = [adminEdit EXCEPT ![r].pc = pc]
      /\ external' = IF d = Nothing THEN external ELSE [external EXCEPT ![d] = NoTable]
      /\ UNCHANGED <<refRow, refRecords, refFields, refColumns, rowLock, made, overlap,
                     externalFaults>>
  BY <1>2, <1>4, <1>5 DEF DropTable, committed
<1>7. e.op \in {"edit", "remove"}
  BY <1>2, <1>6, OpOf
<1>8. \/ pc = "mark" /\ e.op = "remove"
      \/ pc = "create" /\ e.op = "edit" /\ e.inst.ext # Nothing
      \/ pc = "columns" /\ e.op = "edit" /\ e.inst.ext = Nothing
  BY <1>2, <1>5, <1>7
<1>9. EditGoes(r, pc, e.op, e.inst, e.added, e.lines, e.saved, e.fields, e.columns)
  <2>1. PICK row : row = [e EXCEPT !.pc = pc]
    OBVIOUS
  <2>2. adminEdit' = [adminEdit EXCEPT ![r] = row]
    BY <1>1, <1>2, <1>6, <2>1
  <2>3. EditChanges(adminEdit[r], row, pc, e.op, e.inst, e.added, e.lines, e.saved, e.fields,
                    e.columns)
    BY <1>2, <2>1 DEF EditChanges
  <2> QED BY <1>1, <1>3, <1>6, <2>2, <2>3, EditMoved
<1>10. /\ external' \in [External -> TableType]
       /\ d # Nothing => external'[d] = NoTable
       /\ \A c \in External \ {d} : external'[c] = external[c]
  <2>1. d \in External \cup {Nothing}
    BY <1>3, <1>4 DEF VersionedRow
  <2>2. external \in [External -> TableType]
    BY <1>1 DEF RefTypeOK, TableType
  <2>3. PICK table \in TableType : table = NoTable
    BY DEF TableType, NoTable
  <2>4. CASE d = Nothing
    BY <1>6, <2>2, <2>4
  <2>5. CASE d # Nothing
    BY <1>1, <1>6, <2>1, <2>3, <2>5, TableChanged
  <2> QED BY <2>4, <2>5
<1>11. Outer(r)
  BY <1>1, <1>6, <1>10 DEF Outer, RefTypeOK
<1>12. EditKept(r)'
  BY <1>1, <1>2, <1>6, <1>8, <1>9 DEF EditKept, EditGoes, Stages, RecordOps
<1>13. ASSUME Quiet
       PROVE  RowKept(r)' /\ CopyKept(r)' /\ d = refRow.ext /\ ~ refRow.deleted
  <2>1. RowKept(r)
    BY <1>13 DEF RefInv, QuietKept
  <2>2. RowKept(r)' /\ d = refRow.ext /\ ~ refRow.deleted
    BY <1>2, <1>4, <1>6, <1>7, <1>8, <1>9, <2>1 DEF RowKept, EditGoes, RecordOps
  <2>3. CopyKept(r)'
    BY <1>8, <1>9 DEF CopyKept, EditGoes
  <2> QED BY <2>2, <2>3
<1>14. ASSUME Calm' PROVE CalmKept(r)'
  <2>1. Calm /\ Quiet
    BY <1>6, <1>14 DEF Calm, Quiet
  <2>2. CalmKept(r) /\ Live = d
    BY <1>2, <1>6, <1>13, <2>1, CalmOfOne DEF Live
  <2>3. ~ Gone(r) /\ ~ Reached(r)
    BY <1>2, <1>6 DEF Gone, Reached
  <2>4. Tables(d, refColumns) /\ ColumnsKept(r)
    BY <2>2, <2>3 DEF CalmKept
  <2>5. \A c \in External : external'[c] = NoTable
    BY <1>10, <2>4, ReferenceDataAssumption DEF Tables
  <2>6. ColumnsKept(r)' /\ refFields' = refColumns'
    BY <1>2, <1>6, <1>8, <1>9, <2>2, <2>4 DEF ColumnsKept, EditGoes, CalmKept
  <2>7. Tables(Nothing, {})' /\ Tables(Nothing, e.columns)'
    BY <2>5, ReferenceDataAssumption DEF Tables
  <2>8. CASE pc = "columns"
    <3>1. Reached(r)' /\ ~ Gone(r)' /\ Lagging(r)'
      BY <1>8, <1>9, <2>8 DEF Reached, Gone, Lagging, EditGoes
    <3>2. ReachedKept(r)'
      BY <1>8, <1>9, <2>7, <2>8, ReferenceDataAssumption
         DEF ReachedKept, Tables, Holds, EditGoes
    <3> QED BY <2>6, <3>1, <3>2 DEF CalmKept
  <2>9. CASE pc \in {"mark", "create"}
    <3>1. ~ Reached(r)' /\ Gone(r)' /\ Lagging(r)'
      BY <1>8, <1>9, <2>9 DEF Reached, Gone, Lagging, EditGoes
    <3> QED BY <2>6, <2>7, <3>1 DEF CalmKept
  <2> QED BY <1>8, <2>8, <2>9
<1>15. NotOlder(adminEdit[r].inst, adminEdit[r].was, refRow)
         => NotOlder(e.inst, adminEdit[r].was, refRow)
  BY <1>2
<1> QED BY <1>2, <1>3, <1>6, <1>9, <1>11, <1>12, <1>13, <1>14, <1>15, OuterSteps

\* The table of the row that is saved is made.
LEMMA CreateTableInv ==
  ASSUME RefInv, NEW r \in AdminRequest, CreateRefTable(r) PROVE RefInv'
<1>1. /\ RefTypeOK /\ EditKept(r) /\ adminEdit \in [AdminRequest -> EditType]
      /\ refRow \in VersionedRow /\ refRecords \subseteq Record
  BY EditTyped DEF RefInv, RefTypeOK
<1>2. PICK e \in EditType : e = adminEdit[r]
  BY EditTyped, <1>1
<1>3. /\ e.inst \in VersionedRow /\ e.was \in VersionedRow
      /\ e.added \in SUBSET Record /\ e.removed \in SUBSET Record
      /\ e.lines \in SUBSET Record /\ e.saved \in SUBSET Record
      /\ e.fields \in SUBSET Field /\ e.columns \in SUBSET Field
      /\ e.change \in SUBSET Field /\ e.pc \in EditPc /\ e.op \in EditOp
  BY <1>1, <1>2, EditTyped
<1>4. PICK d : d = e.inst.ext
  OBVIOUS
<1>5. PICK pc \in EditPc : pc = "list"
  BY DEF EditPc
<1>6. PICK table : table = [exists |-> TRUE, records |-> {}, columns |-> e.fields]
  OBVIOUS
<1>7. /\ e.pc = "create" /\ adminEdit' = [adminEdit EXCEPT ![r].pc = pc]
      /\ external' = [external EXCEPT ![d] = table]
      /\ UNCHANGED <<refRow, refRecords, refFields, refColumns, rowLock, made, overlap,
                     externalFaults>>
  BY <1>2, <1>4, <1>5, <1>6 DEF CreateRefTable, EditStep, committed
<1>8. e.op = "edit" /\ d \in External /\ e.inst.ext # Nothing
  <2>1. e.op = "edit"
    BY <1>2, <1>7, OpOf
  <2>2. e.inst.ext # Nothing
    BY <1>1, <1>2, <1>7 DEF EditKept
  <2> QED BY <1>3, <1>4, <2>1, <2>2 DEF VersionedRow
<1>9. EditGoes(r, pc, e.op, e.inst, e.added, e.lines, e.saved, e.fields, e.columns)
  <2>1. PICK row : row = [e EXCEPT !.pc = pc]
    OBVIOUS
  <2>2. adminEdit' = [adminEdit EXCEPT ![r] = row]
    BY <1>1, <1>2, <1>7, <2>1
  <2>3. EditChanges(adminEdit[r], row, pc, e.op, e.inst, e.added, e.lines, e.saved, e.fields,
                    e.columns)
    BY <1>2, <2>1 DEF EditChanges
  <2> QED BY <1>1, <1>3, <1>7, <2>2, <2>3, EditMoved
<1>10. /\ external' \in [External -> TableType] /\ external'[d] = table
       /\ \A c \in External \ {d} : external'[c] = external[c]
  <2>1. table \in TableType
    BY <1>3, <1>6 DEF TableType
  <2> QED BY <1>1, <1>7, <1>8, <2>1, TableChanged
<1>11. Outer(r)
  BY <1>1, <1>7, <1>10 DEF Outer, RefTypeOK
<1>12. EditKept(r)'
  BY <1>1, <1>2, <1>5, <1>7, <1>8, <1>9 DEF EditKept, EditGoes, Stages, RecordOps
<1>13. ASSUME Quiet PROVE RowKept(r)' /\ CopyKept(r)'
  <2>1. RowKept(r)
    BY <1>13 DEF RefInv, QuietKept
  <2>2. RowKept(r)'
    BY <1>2, <1>7, <1>8, <1>9, <2>1 DEF RowKept, EditGoes, RecordOps
  <2>3. CopyKept(r)'
    BY <1>5, <1>9 DEF CopyKept, EditGoes
  <2> QED BY <2>2, <2>3
<1>14. ASSUME Calm' PROVE CalmKept(r)'
  <2>1. CalmKept(r)
    BY <1>2, <1>7, <1>14, CalmOfOne DEF Calm, Quiet
  <2>2. Gone(r) /\ Reached(r)' /\ ~ Gone(r)' /\ Lagging(r)'
    BY <1>2, <1>5, <1>7, <1>8, <1>9 DEF Gone, Reached, Lagging, EditGoes
  <2>3. Tables(Nothing, {}) /\ ColumnsKept(r)
    BY <2>1, <2>2 DEF CalmKept
  <2>4. e.fields = e.columns /\ e.columns = refColumns
    BY <1>2, <1>7, <1>8, <2>3 DEF ColumnsKept
  <2>5. ColumnsKept(r)' /\ refFields' = refColumns'
    BY <1>5, <1>7, <1>9, <2>1, <2>4 DEF ColumnsKept, EditGoes, CalmKept
  <2>6. external'[d].exists /\ external'[d].columns = e.columns
    BY <1>6, <1>10, <2>4
  <2>7. \A c \in External \ {d} : external'[c] = NoTable
    BY <1>10, <2>3, NoTables
  <2>8. ReachedKept(r)'
    BY <1>4, <1>5, <1>9, <2>6, <2>7 DEF ReachedKept, Tables, EditGoes
  <2> QED BY <2>2, <2>5, <2>8 DEF CalmKept
<1>15. NotOlder(adminEdit[r].inst, adminEdit[r].was, refRow)
         => NotOlder(e.inst, adminEdit[r].was, refRow)
  BY <1>2
<1> QED BY <1>2, <1>3, <1>7, <1>9, <1>11, <1>12, <1>13, <1>14, <1>15, OuterSteps

\* The dataset is marked as deleted, and saved.
LEMMA MarkInv ==
  ASSUME RefInv, NEW r \in AdminRequest, MarkDeleted(r) PROVE RefInv'
<1>1. /\ RefTypeOK /\ EditKept(r) /\ adminEdit \in [AdminRequest -> EditType]
      /\ refRow \in VersionedRow /\ refRecords \subseteq Record
  BY EditTyped DEF RefInv, RefTypeOK
<1>2. PICK e \in EditType : e = adminEdit[r]
  BY EditTyped, <1>1
<1>3. /\ e.inst \in VersionedRow /\ e.was \in VersionedRow
      /\ e.added \in SUBSET Record /\ e.removed \in SUBSET Record
      /\ e.lines \in SUBSET Record /\ e.saved \in SUBSET Record
      /\ e.fields \in SUBSET Field /\ e.columns \in SUBSET Field
      /\ e.change \in SUBSET Field /\ e.pc \in EditPc /\ e.op \in EditOp
  BY <1>1, <1>2, EditTyped
<1>4. PICK row : row = [e.inst EXCEPT !.deleted = TRUE]
  OBVIOUS
<1>5. /\ row \in VersionedRow /\ row.published = e.inst.published
      /\ row.initial = e.inst.initial
      /\ row.publishedMajor = e.inst.publishedMajor
      /\ row.publishedMinor = e.inst.publishedMinor
      /\ row.ext = e.inst.ext /\ row.deleted = TRUE
      /\ AtLeast(row.major, row.minor, e.inst.major, e.inst.minor)
  <2>1. PICK inst \in VersionedRow, yes \in BOOLEAN : inst = e.inst /\ yes = TRUE
    BY <1>3
  <2>2. row = [inst EXCEPT !.deleted = yes]
    BY <1>4, <2>1
  <2>3. row \in VersionedRow
    BY <2>2, ZenonT(60) DEF VersionedRow
  <2>4. /\ row.published = inst.published /\ row.initial = inst.initial
        /\ row.publishedMajor = inst.publishedMajor
        /\ row.publishedMinor = inst.publishedMinor
        /\ row.ext = inst.ext /\ row.deleted = yes
        /\ row.major = inst.major /\ row.minor = inst.minor /\ inst.minor \in Nat
    BY <2>2 DEF VersionedRow
  <2>5. AtLeast(row.major, row.minor, inst.major, inst.minor)
    BY <2>4 DEF AtLeast
  <2> QED BY <2>1, <2>3, <2>4, <2>5
<1>6. PICK new : new = Saved(r, row)
  OBVIOUS
<1>7. /\ new \in VersionedRow /\ Current(new) /\ new.deleted
      /\ NotOlder(e.inst, adminEdit[r].was, refRow) => NotOlder(new, adminEdit[r].was, refRow)
  BY <1>1, <1>3, <1>5, <1>6, SavedBy
<1>8. PICK pc \in EditPc : pc = "commit"
  BY DEF EditPc
<1>9. /\ e.pc = "mark" /\ Inner(r)
      /\ adminEdit' = [adminEdit EXCEPT ![r].pc = pc, ![r].inst = new]
  BY <1>2, <1>4, <1>6, <1>8 DEF MarkDeleted, SoftDeleted, LocksRow, Inner, committed
<1>10. e.op = "remove"
  BY <1>2, <1>9, OpOf
<1>11. EditGoes(r, pc, e.op, new, e.added, e.lines, e.saved, e.fields, e.columns)
  <2>1. PICK goes : goes = [e EXCEPT !.pc = pc, !.inst = new]
    OBVIOUS
  <2>2. adminEdit' = [adminEdit EXCEPT ![r] = goes]
    BY <1>1, <1>2, <1>7, <1>9, <2>1
  <2>3. EditChanges(adminEdit[r], goes, pc, e.op, new, e.added, e.lines, e.saved, e.fields,
                    e.columns)
    BY <1>2, <2>1 DEF EditChanges
  <2> QED BY <1>1, <1>3, <1>7, <1>9, <2>2, <2>3, EditMoved
<1>12. EditKept(r)'
  BY <1>1, <1>2, <1>7, <1>8, <1>10, <1>11 DEF EditKept, EditGoes, Stages, RecordOps
<1>13. ASSUME Quiet PROVE RowKept(r)' /\ CopyKept(r)'
  <2>1. RowKept(r)
    BY <1>13 DEF RefInv, QuietKept
  <2>2. RowKept(r)'
    BY <1>2, <1>7, <1>9, <1>10, <1>11, <2>1 DEF RowKept, EditGoes, Inner, RecordOps
  <2>3. CopyKept(r)'
    BY <1>8, <1>10, <1>11 DEF CopyKept, EditGoes, RecordOps
  <2> QED BY <2>2, <2>3
<1>14. ASSUME Calm PROVE CalmKept(r)'
  <2>1. CalmKept(r)
    BY <1>2, <1>9, <1>14, CalmOfOne
  <2>2. /\ Gone(r) /\ Gone(r)' /\ ~ Reached(r)' /\ ColumnsKept(r)' /\ Lagging(r)'
    BY <1>2, <1>8, <1>9, <1>10, <1>11 DEF Gone, Reached, Lagging, ColumnsKept, EditGoes
  <2> QED BY <1>9, <2>1, <2>2 DEF CalmKept, Inner, Tables
<1> QED BY <1>2, <1>3, <1>7, <1>9, <1>11, <1>12, <1>13, <1>14, InnerSteps

(***************************************************************************)
(* Fields and columns.                                                     *)
(***************************************************************************)
\* An edit that changes no field.
LEMMA NoChangeInv ==
  ASSUME RefInv, NEW r \in AdminRequest, NoChange(r) PROVE RefInv'
<1>1. /\ RefTypeOK /\ EditKept(r) /\ adminEdit \in [AdminRequest -> EditType]
      /\ refRow \in VersionedRow /\ refRecords \subseteq Record
  BY EditTyped DEF RefInv, RefTypeOK
<1>2. PICK e \in EditType : e = adminEdit[r]
  BY EditTyped, <1>1
<1>3. /\ e.inst \in VersionedRow /\ e.was \in VersionedRow
      /\ e.added \in SUBSET Record /\ e.removed \in SUBSET Record
      /\ e.lines \in SUBSET Record /\ e.saved \in SUBSET Record
      /\ e.fields \in SUBSET Field /\ e.columns \in SUBSET Field
      /\ e.change \in SUBSET Field /\ e.pc \in EditPc /\ e.op \in EditOp
  BY <1>1, <1>2, EditTyped
<1>4. PICK pc \in EditPc : pc = "commit"
  BY DEF EditPc
<1>5. /\ e.pc = "columns" /\ e.change = {} /\ Inner(r)
      /\ adminEdit' = [adminEdit EXCEPT ![r].pc = pc]
  BY <1>2, <1>4 DEF NoChange, EditStep, Inner, committed
<1>6. e.op = "edit"
  BY <1>2, <1>5, OpOf
<1>7. EditGoes(r, pc, e.op, e.inst, e.added, e.lines, e.saved, e.fields, e.columns)
  <2>1. PICK row : row = [e EXCEPT !.pc = pc]
    OBVIOUS
  <2>2. adminEdit' = [adminEdit EXCEPT ![r] = row]
    BY <1>1, <1>2, <1>5, <2>1
  <2>3. EditChanges(adminEdit[r], row, pc, e.op, e.inst, e.added, e.lines, e.saved, e.fields,
                    e.columns)
    BY <1>2, <2>1 DEF EditChanges
  <2> QED BY <1>1, <1>3, <1>5, <2>2, <2>3, EditMoved
<1>8. EditKept(r)'
  BY <1>1, <1>2, <1>4, <1>5, <1>6, <1>7 DEF EditKept, EditGoes, Stages, RecordOps
<1>9. ASSUME Quiet PROVE RowKept(r)' /\ CopyKept(r)'
  <2>1. RowKept(r)
    BY <1>9 DEF RefInv, QuietKept
  <2>2. RowKept(r)'
    BY <1>2, <1>5, <1>6, <1>7, <2>1 DEF RowKept, EditGoes, Inner, RecordOps
  <2>3. CopyKept(r)'
    BY <1>4, <1>6, <1>7 DEF CopyKept, EditGoes, RecordOps
  <2> QED BY <2>2, <2>3
<1>10. ASSUME Calm PROVE CalmKept(r)'
  <2>1. CalmKept(r)
    BY <1>2, <1>5, <1>10, CalmOfOne
  <2>2. Reached(r) /\ Reached(r)' /\ ~ Gone(r)' /\ Lagging(r)'
    BY <1>2, <1>4, <1>5, <1>6, <1>7 DEF Reached, Gone, Lagging, EditGoes
  <2>3. ReachedKept(r) /\ ColumnsKept(r)
    BY <2>1, <2>2 DEF CalmKept
  <2>4. e.fields = e.columns /\ e.columns = refColumns
    BY <1>2, <1>5, <1>6, <2>3 DEF ColumnsKept
  <2>5. ColumnsKept(r)'
    BY <1>2, <1>4, <1>5, <1>7, <2>4 DEF ColumnsKept, ColumnsAfter, EditGoes, Inner
  <2>6. ReachedKept(r)'
    BY <1>2, <1>5, <1>7, <2>3 DEF ReachedKept, Tables, Holds, EditGoes, Inner
  <2> QED BY <1>5, <2>1, <2>2, <2>5, <2>6 DEF CalmKept, Inner
<1>11. NotOlder(adminEdit[r].inst, adminEdit[r].was, refRow)
         => NotOlder(e.inst, adminEdit[r].was, refRow)
  BY <1>2
<1> QED BY <1>2, <1>3, <1>5, <1>7, <1>8, <1>9, <1>10, <1>11, InnerSteps

\* The version of a dataset whose fields change.
LEMMA MajorBy ==
  ASSUME RefTypeOK, NEW r \in AdminRequest, NEW base \in VersionedRow, NEW new, new = NextMajor(r)
  PROVE  /\ new \in VersionedRow /\ Current(new)
         /\ new.ext = adminEdit[r].inst.ext /\ new.deleted = adminEdit[r].inst.deleted
         /\ NotOlder(adminEdit[r].inst, adminEdit[r].was, base)
              => NotOlder(new, adminEdit[r].was, base)
<1>1. PICK inst \in VersionedRow : inst = adminEdit[r].inst
  BY EditTyped
<1>2. PICK row : row = [inst EXCEPT !.major = @ + 1, !.minor = 0]
  OBVIOUS
<1>3. inst.major \in Nat /\ inst.minor \in Nat
  BY DEF VersionedRow
<1>4. PICK m \in Nat, n \in Nat : m = inst.major + 1 /\ n = 0
  BY <1>3
<1>5. row = [inst EXCEPT !.major = m, !.minor = n]
  BY <1>2, <1>4
<1>6. row \in VersionedRow
  BY <1>5, ZenonT(60) DEF VersionedRow
<1>7. /\ row.published = inst.published /\ row.initial = inst.initial
      /\ row.publishedMajor = inst.publishedMajor /\ row.publishedMinor = inst.publishedMinor
      /\ row.ext = inst.ext /\ row.deleted = inst.deleted
      /\ row.major = m /\ row.minor = n
  BY <1>5 DEF VersionedRow
<1>8. AtLeast(row.major, row.minor, inst.major, inst.minor)
  BY <1>3, <1>4, <1>7 DEF AtLeast
<1>9. new = Saved(r, row)
  BY <1>1, <1>2 DEF NextMajor
<1> QED BY <1>1, <1>6, <1>7, <1>8, <1>9, SavedBy

\* A field comes or goes, with its columns in both databases.
FieldsChange(r, columns, fields, new) ==
  /\ \/ /\ columns = adminEdit[r].columns \cup adminEdit[r].change
        /\ fields = adminEdit[r].fields \cup adminEdit[r].change
     \/ /\ columns = adminEdit[r].columns \ adminEdit[r].change
        /\ fields = adminEdit[r].fields \ adminEdit[r].change
  /\ new = NextMajor(r) \/ new = adminEdit[r].inst
  /\ adminEdit[r].pc = "columns" /\ ExternalThere(r) /\ AltersExternal(r, columns)
  /\ adminEdit' = [adminEdit EXCEPT ![r].pc = "commit", ![r].columns = columns,
                                    ![r].fields = fields, ![r].inst = new]
  /\ UNCHANGED <<refRow, refRecords, refFields, refColumns, rowLock, made, overlap,
                 externalFaults>>

LEMMA ColumnsInv ==
  ASSUME RefInv, NEW r \in AdminRequest, AddField(r) \/ RemoveField(r) PROVE RefInv'
<1>1. /\ RefTypeOK /\ EditKept(r) /\ adminEdit \in [AdminRequest -> EditType]
      /\ refRow \in VersionedRow /\ refRecords \subseteq Record
  BY EditTyped DEF RefInv, RefTypeOK
<1>2. PICK e \in EditType : e = adminEdit[r]
  BY EditTyped, <1>1
<1>3. /\ e.inst \in VersionedRow /\ e.was \in VersionedRow
      /\ e.added \in SUBSET Record /\ e.removed \in SUBSET Record
      /\ e.lines \in SUBSET Record /\ e.saved \in SUBSET Record
      /\ e.fields \in SUBSET Field /\ e.columns \in SUBSET Field
      /\ e.change \in SUBSET Field /\ e.pc \in EditPc /\ e.op \in EditOp
  BY <1>1, <1>2, EditTyped
<1>4. PICK d : d = e.inst.ext
  OBVIOUS
<1>5. PICK pc \in EditPc : pc = "commit"
  BY DEF EditPc
<1>60. \E columns \in SUBSET Field, fields \in SUBSET Field : \E new :
          FieldsChange(r, columns, fields, new)
  <2>1. CASE AddField(r)
    <3>1. PICK columns \in SUBSET Field, fields \in SUBSET Field :
             columns = e.columns \cup e.change /\ fields = e.fields \cup e.change
      BY <1>3
    <3>2. PICK new : new = WithNewField(r)
      OBVIOUS
    <3>3. adminEdit' = [adminEdit EXCEPT ![r].pc = "commit", ![r].columns = columns,
                                         ![r].fields = fields, ![r].inst = new]
      BY <1>1, <1>2, <2>1, <3>1, <3>2 DEF AddField
    <3>4. /\ e.pc = "columns" /\ ExternalThere(r) /\ AltersExternal(r, columns)
          /\ UNCHANGED <<refRow, refRecords, refFields, refColumns, rowLock, made, overlap,
                         externalFaults>>
      BY <1>2, <2>1, <3>1 DEF AddField, committed
    <3>5. FieldsChange(r, columns, fields, new)
      BY <1>2, <3>1, <3>2, <3>3, <3>4 DEF FieldsChange, WithNewField
    <3> QED BY <3>5
  <2>2. CASE RemoveField(r)
    <3>1. PICK columns \in SUBSET Field, fields \in SUBSET Field :
             columns = e.columns \ e.change /\ fields = e.fields \ e.change
      BY <1>3
    <3>2. PICK new : new = NextMajor(r)
      OBVIOUS
    <3>3. adminEdit' = [adminEdit EXCEPT ![r].pc = "commit", ![r].columns = columns,
                                         ![r].fields = fields, ![r].inst = new]
      BY <1>1, <1>2, <2>2, <3>1, <3>2 DEF RemoveField
    <3>4. /\ e.pc = "columns" /\ ExternalThere(r) /\ AltersExternal(r, columns)
          /\ UNCHANGED <<refRow, refRecords, refFields, refColumns, rowLock, made, overlap,
                         externalFaults>>
      BY <1>2, <2>2, <3>1 DEF RemoveField, committed
    <3>5. FieldsChange(r, columns, fields, new)
      BY <1>2, <3>1, <3>2, <3>3, <3>4 DEF FieldsChange
    <3> QED BY <3>5
  <2> QED BY <2>1, <2>2
<1>61. PICK columns \in SUBSET Field, fields \in SUBSET Field : \E new :
          FieldsChange(r, columns, fields, new)
  BY <1>60
<1>62. PICK new : FieldsChange(r, columns, fields, new)
  BY <1>61
<1>6. /\ \/ columns = e.columns \cup e.change /\ fields = e.fields \cup e.change
         \/ columns = e.columns \ e.change /\ fields = e.fields \ e.change
      /\ new = NextMajor(r) \/ new = e.inst
      /\ e.pc = "columns" /\ ExternalThere(r) /\ AltersExternal(r, columns)
      /\ adminEdit' = [adminEdit EXCEPT ![r].pc = pc, ![r].columns = columns,
                                        ![r].fields = fields, ![r].inst = new]
      /\ UNCHANGED <<refRow, refRecords, refFields, refColumns, rowLock, made, overlap,
                     externalFaults>>
  BY <1>2, <1>5, <1>62 DEF FieldsChange
<1>7. e.op = "edit" /\ Current(e.inst)
  <2>1. e.op = "edit"
    BY <1>2, <1>6, OpOf
  <2> QED BY <1>1, <1>2, <1>6, <2>1 DEF EditKept
<1>8. /\ new \in VersionedRow /\ Current(new)
      /\ new.ext = d /\ new.deleted = e.inst.deleted
      /\ NotOlder(adminEdit[r].inst, adminEdit[r].was, refRow)
           => NotOlder(new, adminEdit[r].was, refRow)
  BY <1>1, <1>2, <1>3, <1>4, <1>6, <1>7, MajorBy
<1>9. EditGoes(r, pc, e.op, new, e.added, e.lines, e.saved, fields, columns)
  <2>1. PICK row : row = [e EXCEPT !.pc = pc, !.columns = columns, !.fields = fields, !.inst = new]
    OBVIOUS
  <2>2. adminEdit' = [adminEdit EXCEPT ![r] = row]
    BY <1>1, <1>2, <1>6, <2>1
  <2>3. EditChanges(adminEdit[r], row, pc, e.op, new, e.added, e.lines, e.saved, fields, columns)
    BY <1>2, <2>1 DEF EditChanges
  <2> QED BY <1>1, <1>3, <1>8, <2>2, <2>3, EditMoved
<1>10. /\ external' \in [External -> TableType]
       /\ d \in External => /\ external'[d].exists /\ external'[d].columns = columns
                            /\ external'[d].records = external[d].records
       /\ \A c \in External \ {d} : external'[c] = external[c]
  <2>1. d \in External \cup {Nothing}
    BY <1>3, <1>4 DEF VersionedRow
  <2>2. external \in [External -> TableType]
    BY <1>1 DEF RefTypeOK, TableType
  <2>3. external' = IF d = Nothing THEN external ELSE [external EXCEPT ![d].columns = columns]
    BY <1>2, <1>4, <1>6 DEF AltersExternal
  <2>4. CASE d = Nothing
    BY <2>2, <2>3, <2>4, ReferenceDataAssumption
  <2>5. CASE d \in External
    <3>1. PICK was \in TableType : was = external[d]
      BY <2>2, <2>5
    <3>2. was.exists
      BY <1>2, <1>4, <1>6, <2>5, <3>1 DEF ExternalThere
    <3>3. PICK table : table = [was EXCEPT !.columns = columns]
      OBVIOUS
    <3>4. /\ table \in TableType /\ table.exists /\ table.columns = columns
          /\ table.records = was.records
      BY <3>2, <3>3 DEF TableType
    <3>5. external' = [external EXCEPT ![d] = table]
      BY <2>2, <2>3, <2>5, <3>1, <3>3, ReferenceDataAssumption
    <3> QED BY <1>1, <2>5, <3>1, <3>4, <3>5, TableChanged
  <2> QED BY <2>1, <2>4, <2>5
<1>11. Outer(r)
  BY <1>1, <1>6, <1>10 DEF Outer, RefTypeOK
<1>12. EditKept(r)'
  BY <1>1, <1>2, <1>5, <1>7, <1>8, <1>9 DEF EditKept, EditGoes, Stages, RecordOps
<1>13. ASSUME Quiet PROVE RowKept(r)' /\ CopyKept(r)'
  <2>1. RowKept(r)
    BY <1>13 DEF RefInv, QuietKept
  <2>2. RowKept(r)'
    BY <1>2, <1>6, <1>7, <1>8, <1>9, <2>1 DEF RowKept, EditGoes, RecordOps
  <2>3. CopyKept(r)'
    BY <1>5, <1>7, <1>9 DEF CopyKept, EditGoes, RecordOps
  <2> QED BY <2>2, <2>3
<1>14. ASSUME Calm' PROVE CalmKept(r)'
  <2>1. CalmKept(r)
    BY <1>2, <1>6, <1>14, CalmOfOne DEF Calm, Quiet
  <2>2. Reached(r) /\ Reached(r)' /\ ~ Gone(r)' /\ Lagging(r)'
    BY <1>2, <1>5, <1>6, <1>7, <1>9 DEF Gone, Reached, Lagging, EditGoes
  <2>3. ReachedKept(r) /\ ColumnsKept(r)
    BY <2>1, <2>2 DEF CalmKept
  <2>4. e.fields = e.columns /\ e.columns = refColumns
    BY <1>2, <1>6, <1>7, <2>3 DEF ColumnsKept
  <2>5. fields = columns /\ columns = (refColumns \ (e.change \ columns)) \cup (e.change \cap columns)
    BY <1>6, <2>4
  <2>6. ColumnsKept(r)'
    BY <1>2, <1>5, <1>6, <1>9, <2>5 DEF ColumnsKept, ColumnsAfter, EditGoes
  <2>7. Tables(d, e.columns) /\ Holds(d, refRecords)
    BY <1>2, <1>4, <1>6, <2>3 DEF ReachedKept
  <2>8. Tables(d, columns)' /\ Holds(d, refRecords)'
    BY <1>6, <1>10, <2>7 DEF Tables, Holds
  <2>9. ReachedKept(r)'
    BY <1>8, <1>9, <2>8 DEF ReachedKept, Tables, Holds, EditGoes
  <2> QED BY <1>6, <2>1, <2>2, <2>6, <2>9 DEF CalmKept
<1> QED BY <1>2, <1>3, <1>6, <1>8, <1>9, <1>11, <1>12, <1>13, <1>14, OuterSteps

\* A column that cannot be added.
LEMMA AddFailsInv ==
  ASSUME RefInv, NEW r \in AdminRequest, AddFieldFails(r) PROVE RefInv'
<1>1. /\ RefTypeOK /\ EditKept(r) /\ adminEdit \in [AdminRequest -> EditType]
      /\ refRow \in VersionedRow /\ refRecords \subseteq Record
  BY EditTyped DEF RefInv, RefTypeOK
<1>2. PICK e \in EditType : e = adminEdit[r]
  BY EditTyped, <1>1
<1>3. /\ e.inst \in VersionedRow /\ e.was \in VersionedRow
      /\ e.added \in SUBSET Record /\ e.removed \in SUBSET Record
      /\ e.lines \in SUBSET Record /\ e.saved \in SUBSET Record
      /\ e.fields \in SUBSET Field /\ e.columns \in SUBSET Field
      /\ e.change \in SUBSET Field /\ e.pc \in EditPc /\ e.op \in EditOp
  BY <1>1, <1>2, EditTyped
<1>4. PICK pc \in EditPc, fields \in SUBSET Field : pc = "commit" /\ fields = e.fields \cup e.change
  BY <1>3 DEF EditPc
<1>5. /\ e.pc = "columns" /\ externalFaults < ExternalFaults
      /\ externalFaults' = externalFaults + 1
      /\ adminEdit' = [adminEdit EXCEPT ![r].pc = pc, ![r].fields = fields,
                                        ![r].inst = WithNewField(r)]
      /\ UNCHANGED <<refRow, refRecords, refFields, refColumns, external, rowLock, made, overlap>>
  BY <1>1, <1>2, <1>4 DEF AddFieldFails, committed
<1>6. e.op = "edit" /\ Current(e.inst)
  <2>1. e.op = "edit"
    BY <1>2, <1>5, OpOf
  <2> QED BY <1>1, <1>2, <1>5, <2>1 DEF EditKept
<1>61. PICK new : new = WithNewField(r)
  OBVIOUS
<1>62. new = NextMajor(r) \/ new = e.inst
  BY <1>2, <1>61 DEF WithNewField
<1>63. /\ new \in VersionedRow /\ Current(new)
       /\ new.ext = e.inst.ext /\ new.deleted = e.inst.deleted
       /\ NotOlder(adminEdit[r].inst, adminEdit[r].was, refRow)
            => NotOlder(new, adminEdit[r].was, refRow)
  BY <1>1, <1>2, <1>3, <1>6, <1>62, MajorBy
<1>7. EditGoes(r, pc, e.op, new, e.added, e.lines, e.saved, fields, e.columns)
  <2>1. PICK row : row = [e EXCEPT !.pc = pc, !.fields = fields, !.inst = new]
    OBVIOUS
  <2>2. adminEdit' = [adminEdit EXCEPT ![r] = row]
    BY <1>1, <1>2, <1>5, <1>61, <2>1
  <2>3. EditChanges(adminEdit[r], row, pc, e.op, new, e.added, e.lines, e.saved, fields,
                    e.columns)
    BY <1>2, <2>1 DEF EditChanges
  <2> QED BY <1>1, <1>3, <1>63, <2>2, <2>3, EditMoved
<1>8. Outer(r) /\ externalFaults' # 0
  <2>1. externalFaults \in 0 .. ExternalFaults /\ ExternalFaults \in Nat
    BY <1>1, ReferenceDataAssumption DEF RefTypeOK
  <2> QED BY <1>1, <1>5, <2>1 DEF Outer, RefTypeOK, TableType
<1>9. EditKept(r)'
  BY <1>1, <1>2, <1>4, <1>6, <1>7, <1>63 DEF EditKept, EditGoes, Stages, RecordOps
<1>10. ASSUME Quiet PROVE RowKept(r)' /\ CopyKept(r)'
  <2>1. RowKept(r)
    BY <1>10 DEF RefInv, QuietKept
  <2>2. RowKept(r)'
    BY <1>2, <1>5, <1>6, <1>7, <1>63, <2>1 DEF RowKept, EditGoes, RecordOps
  <2>3. CopyKept(r)'
    BY <1>4, <1>6, <1>7 DEF CopyKept, EditGoes, RecordOps
  <2> QED BY <2>2, <2>3
<1>11. ~ Calm'
  BY <1>8 DEF Calm
<1> QED BY <1>2, <1>3, <1>5, <1>7, <1>8, <1>9, <1>10, <1>11, <1>63, OuterSteps

(***************************************************************************)
(* The end of a transaction.                                               *)
(***************************************************************************)
LEMMA EndsEdit ==
  ASSUME RefInv, NEW r \in AdminRequest, Ends(r)
  PROVE  /\ adminEdit' \in [AdminRequest -> EditType]
         /\ \A s \in AdminRequest \ {r} :
               adminEdit'[s] = adminEdit[s] /\ (rowLock = s => rowLock' = s)
         /\ adminEdit[r].op # "upload" => adminEdit'[r] = IdleEdit
         /\ adminEdit[r].op = "upload" =>
               /\ adminEdit'[r].pc = "line" /\ adminEdit'[r].op = "upload"
               /\ adminEdit'[r].inst = adminEdit[r].inst
               /\ adminEdit'[r].was = adminEdit[r].was
               /\ adminEdit'[r].change = adminEdit[r].change
         /\ rowLock' \in AdminRequest \cup {Nothing}
<1>1. /\ RefTypeOK /\ adminEdit \in [AdminRequest -> EditType]
      /\ refRow \in VersionedRow /\ refRecords \subseteq Record
  BY EditTyped DEF RefInv, RefTypeOK
<1>2. PICK e \in EditType : e = adminEdit[r]
  BY EditTyped, <1>1
<1>3. /\ e.inst \in VersionedRow /\ e.was \in VersionedRow
      /\ e.added \in SUBSET Record /\ e.removed \in SUBSET Record
      /\ e.lines \in SUBSET Record /\ e.saved \in SUBSET Record
      /\ e.fields \in SUBSET Field /\ e.columns \in SUBSET Field
      /\ e.change \in SUBSET Field /\ e.pc \in EditPc /\ e.op \in EditOp
  BY <1>1, <1>2, EditTyped
<1>4. PICK line \in EditPc, none \in SUBSET Record : line = "line" /\ none = {}
  BY DEF EditPc
<1>5. PICK row : row = IF e.op = "upload" THEN [e EXCEPT !.pc = line, !.added = none] ELSE IdleEdit
  OBVIOUS
<1>6. adminEdit' = [adminEdit EXCEPT ![r] = row]
  BY <1>1, <1>2, <1>4, <1>5 DEF Ends
<1>7. CASE e.op = "upload"
  <2>1. row = [e EXCEPT !.pc = line, !.added = none]
    BY <1>5, <1>7
  <2>2. row \in EditType
    BY <2>1, ZenonT(60) DEF EditType
  <2>3. row.pc = line /\ row.op = e.op /\ row.inst = e.inst /\ row.was = e.was
        /\ row.change = e.change
    BY <2>1 DEF EditType
  <2> QED BY <1>1, <1>2, <1>4, <1>6, <1>7, <2>2, <2>3, EditReplaced DEF Ends, RefTypeOK
<1>8. CASE e.op # "upload"
  <2>1. row \in EditType /\ row = IdleEdit
    BY <1>5, <1>8, NewRowTyped
  <2> QED BY <1>1, <1>2, <1>6, <1>8, <2>1, EditReplaced DEF Ends, RefTypeOK
<1> QED BY <1>7, <1>8

\* What a request that is over keeps.
LEMMA IdleKept ==
  ASSUME NEW r \in AdminRequest, adminEdit'[r] = IdleEdit
  PROVE  /\ adminEdit'[r].pc = "idle" /\ adminEdit'[r].op = "none"
         /\ EditKept(r)' /\ RowKept(r)' /\ CopyKept(r)'
         /\ ColumnsKept(r)' /\ ~ Gone(r)' /\ ~ Reached(r)' /\ ~ Lagging(r)'
<1>1. /\ adminEdit'[r].pc = "idle" /\ adminEdit'[r].op = "none" /\ adminEdit'[r].change = {}
      /\ Current(adminEdit'[r].inst)
  BY NewRowTyped DEF IdleEdit
<1>2. EditKept(r)'
  BY <1>1 DEF EditKept, Stages, RecordOps
<1>3. RowKept(r)' /\ CopyKept(r)'
  BY <1>1 DEF RowKept, CopyKept, RecordOps
<1>4. ColumnsKept(r)' /\ ~ Gone(r)' /\ ~ Reached(r)' /\ ~ Lagging(r)'
  BY <1>1 DEF ColumnsKept, Gone, Reached, Lagging, RecordOps
<1> QED BY <1>1, <1>2, <1>3, <1>4

\* The transaction is rolled back.
LEMMA RollbackInv ==
  ASSUME RefInv, NEW r \in AdminRequest, ExternalFails(r) PROVE RefInv'
<1>1. /\ RefTypeOK /\ EditKept(r) /\ adminEdit \in [AdminRequest -> EditType]
      /\ refRow \in VersionedRow /\ refRecords \subseteq Record
  BY EditTyped DEF RefInv, RefTypeOK
<1>2. PICK e \in EditType : e = adminEdit[r]
  BY EditTyped, <1>1
<1>3. /\ e.inst \in VersionedRow /\ e.was \in VersionedRow
      /\ e.added \in SUBSET Record /\ e.removed \in SUBSET Record
      /\ e.lines \in SUBSET Record /\ e.saved \in SUBSET Record
      /\ e.fields \in SUBSET Field /\ e.columns \in SUBSET Field
      /\ e.change \in SUBSET Field /\ e.pc \in EditPc /\ e.op \in EditOp
  BY <1>1, <1>2, EditTyped
<1>4. /\ Ends(r)
      /\ e.pc \in {"copy", "prune", "create", "drop", "columns"}
      /\ UNCHANGED <<refRow, refRecords, refFields, refColumns, external, made, overlap>>
      /\ \/ externalFaults < ExternalFaults /\ externalFaults' = externalFaults + 1
         \/ /\ UNCHANGED externalFaults
            /\ \/ e.pc \in {"copy", "prune"} /\ ~ external[e.inst.ext].exists
               \/ e.pc = "create" /\ external[e.inst.ext].exists
               \/ e.pc = "columns" /\ ~ ExternalThere(r)
  BY <1>2 DEF ExternalFails, committed
<1>5. e.op \in {"save", "delete", "synced", "edit", "remove"}
  BY <1>2, <1>4, OpOf
<1>6. /\ adminEdit' \in [AdminRequest -> EditType] /\ adminEdit'[r] = IdleEdit
      /\ \A s \in AdminRequest \ {r} :
            adminEdit'[s] = adminEdit[s] /\ (rowLock = s => rowLock' = s)
      /\ rowLock' \in AdminRequest \cup {Nothing}
  BY <1>2, <1>4, <1>5, EndsEdit
<1>7. /\ externalFaults' \in 0 .. ExternalFaults
      /\ externalFaults' = 0 => externalFaults = 0 /\ UNCHANGED externalFaults
  <2>1. externalFaults \in 0 .. ExternalFaults /\ ExternalFaults \in Nat
    BY <1>1, ReferenceDataAssumption DEF RefTypeOK
  <2> QED BY <1>4, <2>1
<1>8. RefTypeOK'
  BY <1>1, <1>4, <1>6, <1>7, StepTyped DEF RefTypeOK
<1>9. Steps(r)
  BY <1>2, <1>4, <1>6, <1>7, IdleKept DEF Steps
<1>10. Current(refRow')
  BY <1>4 DEF RefInv
<1>11. ASSUME Calm' PROVE CalmKept(r)'
  <2>1. Calm /\ Quiet /\ UNCHANGED externalFaults
    BY <1>4, <1>7, <1>11 DEF Calm, Quiet
  <2>2. CalmKept(r)
    BY <1>2, <1>4, <2>1, CalmOfOne
  <2>3. RowKept(r)
    BY <2>1 DEF RefInv, QuietKept
  <2>4. Tables(Live, refColumns) /\ Holds(Live, refRecords)
    <3>0. e.inst.ext \in External \cup {Nothing}
      BY <1>3 DEF VersionedRow
    <3>1. ASSUME Reached(r) PROVE FALSE
      <4>1. Tables(e.inst.ext, e.columns)
        BY <1>2, <2>2, <3>1 DEF CalmKept, ReachedKept
      <4>2. e.inst.ext \in External => external[e.inst.ext].exists
        BY <4>1 DEF Tables
      <4>3. ExternalThere(r)
        BY <1>2, <4>2 DEF ExternalThere
      <4>4. e.pc # "create"
        BY <1>2, <3>1 DEF Reached
      <4>5. e.pc \in {"copy", "prune"} => e.inst.ext # Nothing
        BY <1>1, <1>2 DEF EditKept
      <4>6. externalFaults' # externalFaults + 1
        BY <1>1, <2>1 DEF RefTypeOK
      <4> QED BY <1>4, <3>0, <4>2, <4>3, <4>4, <4>5, <4>6
    <3>2. ASSUME Gone(r) PROVE FALSE
      <4>1. Tables(Nothing, {})
        BY <2>2, <3>2 DEF CalmKept
      <4>2. e.pc = "create"
        BY <1>2, <1>4, <3>2 DEF Gone
      <4>3. e.inst.ext \in External
        BY <1>1, <1>2, <3>0, <4>2 DEF EditKept
      <4>4. ~ external[e.inst.ext].exists
        BY <4>1, <4>3, NoTables
      <4>6. externalFaults' # externalFaults + 1
        BY <1>1, <2>1 DEF RefTypeOK
      <4> QED BY <1>4, <4>2, <4>4, <4>6
    <3>3. Tables(Live, refColumns)
      BY <2>2, <3>1, <3>2 DEF CalmKept
    <3>4. CASE e.pc \in {"copy", "prune"}
      <4>1. e.op \in {"save", "delete", "synced"}
        <5>1. e.op \in {"save", "delete", "synced", "edit"}
          BY <1>2, <3>4, OpOf
        <5> QED BY <1>2, <3>1, <3>4, <5>1 DEF Reached
      <4>2. e.inst.ext = refRow.ext
        BY <1>2, <2>3, <4>1 DEF RowKept, RecordOps
      <4>3. e.inst.ext \in External
        BY <1>1, <1>2, <3>0, <3>4 DEF EditKept
      <4>4. externalFaults' # externalFaults + 1
        BY <1>1, <2>1 DEF RefTypeOK
      <4>5. ~ external[e.inst.ext].exists
        BY <1>4, <3>4, <4>4
      <4>6. Live = Nothing
        BY <3>3, <4>2, <4>3, <4>5 DEF Live, Tables
      <4> QED BY <3>3, <4>6, ReferenceDataAssumption DEF Holds
    <3>5. CASE e.pc \notin {"copy", "prune"}
      <4>4. externalFaults' # externalFaults + 1
        BY <1>1, <2>1 DEF RefTypeOK
      <4>5. e.pc \in {"create", "columns"}
        BY <1>4, <3>5, <4>4
      <4>6. e.op = "edit"
        BY <1>2, <4>5, OpOf
      <4> QED BY <1>2, <3>1, <3>2, <4>5, <4>6 DEF Reached, Gone
    <3> QED BY <3>3, <3>4, <3>5
  <2>5. Tables(Live, refColumns)' /\ Holds(Live, refRecords)'
    BY <1>4, <2>4 DEF Tables, Holds, Live
  <2> QED BY <1>4, <1>6, <2>2, <2>5, IdleKept DEF CalmKept
<1>12. StepKeeps(r)
  BY <1>4, <1>6, <1>8, <1>10, <1>11, IdleKept DEF StepKeeps
<1> QED BY <1>9, <1>12, OneSteps

\* The transaction commits.
LEMMA CommitInv ==
  ASSUME RefInv, NEW r \in AdminRequest, Commit(r) PROVE RefInv'
<1>1. /\ RefTypeOK /\ EditKept(r) /\ adminEdit \in [AdminRequest -> EditType]
      /\ refRow \in VersionedRow /\ refRecords \subseteq Record
  BY EditTyped DEF RefInv, RefTypeOK
<1>2. PICK e \in EditType : e = adminEdit[r]
  BY EditTyped, <1>1
<1>3. /\ e.inst \in VersionedRow /\ e.was \in VersionedRow
      /\ e.added \in SUBSET Record /\ e.removed \in SUBSET Record
      /\ e.lines \in SUBSET Record /\ e.saved \in SUBSET Record
      /\ e.fields \in SUBSET Field /\ e.columns \in SUBSET Field
      /\ e.change \in SUBSET Field /\ e.pc \in EditPc /\ e.op \in EditOp
  BY <1>1, <1>2, EditTyped
<1>4. /\ Ends(r) /\ e.pc = "commit" /\ refRecords' = Visible(r)
      /\ UNCHANGED <<external, made, overlap, externalFaults>>
      /\ e.op = "synced" => UNCHANGED <<refRow, refFields, refColumns>>
      /\ e.op # "synced" =>
            /\ refRow' = e.inst
            /\ refFields' = (refFields \ (e.change \ e.fields)) \cup (e.change \cap e.fields)
            /\ refColumns' = (refColumns \ (e.change \ e.columns)) \cup (e.change \cap e.columns)
  BY <1>2 DEF Commit
<1>5. /\ e.op \in {"save", "delete", "upload", "synced", "edit", "remove"}
      /\ Current(e.inst)
      /\ e.op # "edit" => e.change = {}
      /\ e.op = "edit" => e.added = {} /\ e.removed = {}
  <2>1. e.op \in {"save", "delete", "upload", "synced", "edit", "remove"}
    BY <1>2, <1>4, OpOf
  <2> QED BY <1>1, <1>2, <1>4, <2>1 DEF EditKept
<1>6. /\ adminEdit' \in [AdminRequest -> EditType]
      /\ \A s \in AdminRequest \ {r} :
            adminEdit'[s] = adminEdit[s] /\ (rowLock = s => rowLock' = s)
      /\ e.op # "upload" => adminEdit'[r] = IdleEdit
      /\ e.op = "upload" =>
            /\ adminEdit'[r].pc = "line" /\ adminEdit'[r].op = "upload"
            /\ adminEdit'[r].inst = e.inst /\ adminEdit'[r].was = e.was
            /\ adminEdit'[r].change = e.change
      /\ rowLock' \in AdminRequest \cup {Nothing}
  BY <1>2, <1>4, EndsEdit
<1>7. RefTypeOK'
  <2>1. refRecords' \subseteq Record
    BY <1>1, <1>2, <1>3, <1>4 DEF Visible
  <2>2. refRow' \in VersionedRow /\ refFields' \subseteq Field /\ refColumns' \subseteq Field
    <3>1. refFields \subseteq Field /\ refColumns \subseteq Field
      BY <1>1 DEF RefTypeOK
    <3> QED BY <1>1, <1>3, <1>4, <3>1
  <2> QED BY <1>1, <1>4, <1>6, <2>1, <2>2, StepTyped DEF RefTypeOK
<1>8. Steps(r)
  <2>1. e.op # "upload" => adminEdit'[r].pc = "idle"
    BY <1>6, IdleKept
  <2> QED BY <1>2, <1>4, <1>6, <2>1 DEF Steps, RecordOps
<1>9. Current(refRow')
  BY <1>4, <1>5 DEF RefInv
<1>10. EditKept(r)'
  <2>1. CASE e.op = "upload"
    BY <1>5, <1>6, <2>1 DEF EditKept, Stages, RecordOps
  <2>2. CASE e.op # "upload"
    BY <1>6, <2>2, IdleKept
  <2> QED BY <2>1, <2>2
<1>11. ASSUME overlap = "none", adminEdit'[r].pc # "idle"
       PROVE  NotOlder(adminEdit'[r].inst, adminEdit'[r].was, refRow')
  <2>1. e.op = "upload"
    BY <1>6, <1>11, IdleKept
  <2>2. NotOlder(e.inst, e.was, refRow)
    BY <1>2, <1>4, <1>11 DEF RefInv
  <2>3. AtLeast(e.inst.publishedMajor, e.inst.publishedMinor, e.inst.publishedMajor,
                e.inst.publishedMinor)
    <3>1. e.inst.publishedMajor \in Nat /\ e.inst.publishedMinor \in Nat
      BY <1>3 DEF VersionedRow
    <3> QED BY <3>1 DEF AtLeast
  <2>4. NotOlder(e.inst, e.was, e.inst)
    BY <2>2, <2>3 DEF NotOlder
  <2> QED BY <1>4, <1>6, <2>1, <2>4
<1>12. ASSUME Quiet
       PROVE  /\ RowKept(r)' /\ CopyKept(r)'
              /\ e.op \in {"save", "delete", "upload", "synced"}
                    => refRow'.ext = refRow.ext /\ refRow'.deleted = refRow.deleted
              /\ e.op = "edit" => ~ refRow'.deleted
              /\ e.op = "remove" => refRow'.deleted
  <2>1. RowKept(r)
    BY <1>12 DEF RefInv, QuietKept
  <2>2. /\ e.op \in {"save", "delete", "upload", "synced"}
             => refRow'.ext = refRow.ext /\ refRow'.deleted = refRow.deleted
        /\ e.op = "edit" => ~ refRow'.deleted
        /\ e.op = "remove" => refRow'.deleted
    BY <1>2, <1>4, <2>1 DEF RowKept, RecordOps
  <2>3. CASE e.op = "upload"
    BY <1>4, <1>6, <2>2, <2>3 DEF RowKept, CopyKept, RecordOps
  <2>4. CASE e.op # "upload"
    BY <1>6, <2>2, <2>4, IdleKept
  <2> QED BY <2>3, <2>4
<1>13. ASSUME Calm' PROVE CalmKept(r)'
  <2>1. Calm /\ Quiet
    BY <1>4, <1>13 DEF Calm, Quiet
  <2>2. CalmKept(r)
    BY <1>2, <1>4, <2>1, CalmOfOne
  <2>3. refFields = refColumns /\ CopyKept(r)
    BY <2>1, <2>2 DEF CalmKept, RefInv, QuietKept
  <2>4. CASE e.op \in {"save", "delete", "upload", "synced"}
    <3>1. Live' = Live
      BY <1>12, <2>1, <2>4 DEF Live
    <3>2. refFields' = refFields /\ refColumns' = refColumns
      BY <1>4, <1>5, <2>4
    <3>3. ~ Gone(r) /\ ~ Reached(r)
      BY <1>2, <2>4 DEF Gone, Reached
    <3>4. Tables(Live, refColumns)'
      BY <1>4, <2>2, <3>1, <3>2, <3>3 DEF CalmKept, Tables
    <3>5. CASE e.op = "upload"
      <4>1. ColumnsKept(r)' /\ ~ Gone(r)' /\ ~ Reached(r)' /\ Lagging(r)'
        BY <1>6, <3>5 DEF ColumnsKept, Gone, Reached, Lagging
      <4> QED BY <2>3, <3>2, <3>4, <4>1 DEF CalmKept
    <3>6. CASE e.op # "upload"
      <4>1. e.inst.ext = refRow.ext
        <5>1. RowKept(r)
          BY <2>1 DEF RefInv, QuietKept
        <5> QED BY <1>2, <2>4, <5>1 DEF RowKept, RecordOps
      <4>2. e.inst.ext \in External => external[e.inst.ext].records = Visible(r)
        BY <1>2, <1>4, <2>3, <2>4, <3>6 DEF CopyKept, RecordOps
      <4>3. Holds(Live, refRecords)'
        BY <1>4, <3>1, <4>1, <4>2, ReferenceDataAssumption DEF Live, Holds
      <4> QED BY <1>6, <2>3, <3>2, <3>4, <3>6, <4>3, IdleKept DEF CalmKept
    <3> QED BY <3>5, <3>6
  <2>5. CASE e.op = "edit"
    <3>1. Reached(r) /\ ColumnsKept(r)
      BY <1>2, <1>4, <2>2, <2>5 DEF Reached, CalmKept
    <3>2. Tables(e.inst.ext, e.columns) /\ Holds(e.inst.ext, refRecords)
      BY <1>2, <1>4, <2>2, <3>1 DEF CalmKept, ReachedKept
    <3>3. e.fields = e.columns
          /\ e.columns = (refColumns \ (e.change \ e.columns)) \cup (e.change \cap e.columns)
      BY <1>2, <1>4, <2>5, <3>1 DEF ColumnsKept, ColumnsAfter
    <3>4. refColumns' = e.columns /\ refFields' = refColumns'
      BY <1>4, <2>3, <2>5, <3>3
    <3>5. Live' = e.inst.ext
      BY <1>4, <1>12, <2>1, <2>5 DEF Live
    <3>6. refRecords' = refRecords
      BY <1>2, <1>4, <1>5, <2>5 DEF Visible
    <3>7. Tables(Live, refColumns)' /\ Holds(Live, refRecords)'
      BY <1>4, <3>2, <3>4, <3>5, <3>6 DEF Tables, Holds
    <3> QED BY <1>6, <2>5, <3>4, <3>7, IdleKept DEF CalmKept
  <2>6. CASE e.op = "remove"
    <3>1. Gone(r)
      BY <1>2, <1>4, <2>6 DEF Gone
    <3>2. Tables(Nothing, {})
      BY <2>2, <3>1 DEF CalmKept
    <3>3. Live' = Nothing
      BY <1>12, <2>1, <2>6 DEF Live
    <3>4. refFields' = refColumns'
      BY <1>4, <1>5, <2>3, <2>6
    <3>5. Tables(Live, refColumns)' /\ Holds(Live, refRecords)'
      BY <1>4, <3>2, <3>3, ReferenceDataAssumption DEF Tables, Holds
    <3> QED BY <1>6, <2>6, <3>4, <3>5, IdleKept DEF CalmKept
  <2> QED BY <1>5, <2>4, <2>5, <2>6
<1>14. StepKeeps(r)
  BY <1>2, <1>7, <1>9, <1>10, <1>11, <1>12, <1>13 DEF StepKeeps, RecordOps
<1> QED BY <1>8, <1>14, OneSteps

(***************************************************************************)
(* Every step, and what follows.                                           *)
(***************************************************************************)
\* A new dataset.
LEMMA RefInitInv == RefInit => RefInv
<1> SUFFICES ASSUME RefInit PROVE RefInv
  OBVIOUS
<1>1. /\ refRow = NewRow /\ refRecords = {} /\ refColumns = refFields /\ rowLock = Nothing
      /\ external = [d \in External |-> NoTable] /\ made = 0 /\ overlap = "none"
      /\ externalFaults = 0
      /\ \A r \in AdminRequest : adminEdit[r] = IdleEdit
      /\ adminEdit = [r \in AdminRequest |-> IdleEdit]
  BY DEF RefInit
<1>2. refFields \subseteq Field
  BY ReferenceDataAssumption DEF RefInit
<1>3. RefTypeOK
  <2>1. NoTable \in TableType
    BY DEF NoTable, TableType
  <2>2. adminEdit \in [AdminRequest -> EditType] /\ external \in [External -> TableType]
    BY <1>1, <2>1, NewRowTyped
  <2>3. made \in 0 .. MaxRequests /\ externalFaults \in 0 .. ExternalFaults
    BY <1>1, ReferenceDataAssumption
  <2> QED BY <1>1, <1>2, <2>2, <2>3, NewRowTyped
          DEF RefTypeOK, EditType, EditPc, EditOp, TableType
<1>4. ASSUME NEW r \in AdminRequest
      PROVE  /\ adminEdit[r].pc = "idle" /\ adminEdit[r].op = "none"
             /\ adminEdit[r].change = {} /\ Current(adminEdit[r].inst)
  BY <1>1, NewRowTyped DEF IdleEdit
<1>5. ASSUME NEW r \in AdminRequest
      PROVE  /\ EditKept(r) /\ QuietKept(r) /\ ColumnsKept(r)
             /\ ~ Gone(r) /\ ~ Reached(r)
  <2>1. EditKept(r)
    BY <1>4 DEF EditKept, Stages, RecordOps
  <2>2. QuietKept(r)
    BY <1>4 DEF QuietKept, RowKept, CopyKept, RecordOps
  <2> QED BY <1>4, <2>1, <2>2 DEF ColumnsKept, Gone, Reached
<1>6. Tables(Live, refColumns) /\ Holds(Live, refRecords)
  <2>1. Live = Nothing
    BY <1>1 DEF Live, NewRow
  <2> QED BY <1>1, <2>1, ReferenceDataAssumption DEF Tables, Holds
<1> QED BY <1>1, <1>3, <1>4, <1>5, <1>6, NewRowTyped DEF RefInv

LEMMA RefStepInv == RefInv /\ [RefNext]_refVars => RefInv'
<1> SUFFICES ASSUME RefInv, [RefNext]_refVars PROVE RefInv'
  OBVIOUS
<1>1. CASE UNCHANGED refVars
  <2>1. UNCHANGED <<refRow, refRecords, refFields, refColumns, external, rowLock, adminEdit,
                    made, overlap, externalFaults>>
    BY <1>1 DEF refVars
  <2>2. RefTypeOK' /\ Quiet' = Quiet /\ Calm' = Calm /\ overlap' = overlap
    BY <2>1 DEF RefInv, RefTypeOK, Quiet, Calm
  <2>3. ASSUME NEW r \in AdminRequest
        PROVE  /\ EditKept(r)' = EditKept(r) /\ NobodyElse(r)' = NobodyElse(r)
               /\ RowKept(r)' = RowKept(r) /\ CopyKept(r)' = CopyKept(r)
    BY <2>1 DEF EditKept, Current, NobodyElse, RowKept, CopyKept, Visible, Stages
  <2>4. \A r \in AdminRequest : QuietKept(r)' = QuietKept(r)
    BY <2>1, <2>3 DEF QuietKept
  <2>5. ASSUME NEW r \in AdminRequest
        PROVE  /\ ColumnsKept(r)' = ColumnsKept(r) /\ Gone(r)' = Gone(r)
               /\ Reached(r)' = Reached(r) /\ Lagging(r)' = Lagging(r)
    BY <2>1 DEF ColumnsKept, ColumnsAfter, Gone, Reached, Lagging
  <2>6. /\ Tables(Live, refColumns)' = Tables(Live, refColumns)
        /\ Tables(Nothing, {})' = Tables(Nothing, {})
        /\ Holds(Live, refRecords)' = Holds(Live, refRecords)
    BY <2>1 DEF Tables, Holds, Live
  <2>7. \A r \in AdminRequest : ReachedKept(r)' = ReachedKept(r)
    BY <2>1 DEF ReachedKept, Tables, Holds
  <2>8. ASSUME overlap' = "none", NEW r \in AdminRequest, adminEdit'[r].pc # "idle"
        PROVE  NobodyElse(r)' /\ NotOlder(adminEdit'[r].inst, adminEdit'[r].was, refRow')
    BY <2>1, <2>3, <2>8 DEF RefInv
  <2> QED BY <2>1, <2>2, <2>3, <2>4, <2>5, <2>6, <2>7, <2>8 DEF RefInv
<1>2. CASE RefNext
  <2>1. PICK r \in AdminRequest :
           \/ LoadSaveRecord(r) \/ LoadDeleteRecords(r) \/ LoadUpload(r)
           \/ LoadEdit(r) \/ LoadDelete(r)
           \/ WriteRecords(r) \/ UploadLine(r) \/ SkipLine(r) \/ UploadSyncs(r)
           \/ ListRecords(r) \/ CopyRecords(r) \/ PruneRecords(r)
           \/ EditSave(r) \/ DropTable(r) \/ CreateRefTable(r) \/ MarkDeleted(r)
           \/ NoChange(r) \/ AddField(r) \/ RemoveField(r) \/ AddFieldFails(r)
           \/ Commit(r) \/ ExternalFails(r)
    BY <1>2 DEF RefNext
  <2> QED BY <2>1, LoadsInv, WriteInv, UploadInv, UploadSyncsInv, ListInv, SyncInv, EditSaveInv,
             DropInv, CreateTableInv, MarkInv, NoChangeInv, ColumnsInv, AddFailsInv, CommitInv,
             RollbackInv
<1> QED BY <1>1, <1>2

\* What is known of a reference dataset, its requests and its external copy, for any
\* number of requests, records, fields and external databases, and whatever of them
\* fails (ReferenceDataset.save, sync_to_external_database).
THEOREM ReferenceInvariance == RefSpec => []RefInv
<1> QED BY RefInitInv, RefStepInv, PTL DEF RefSpec

\* Every step but a commit leaves the row, and no request that is about to commit ends.
LEMMA OnlyCommits ==
  ASSUME RefTypeOK, RefNext
  PROVE  \/ \E r \in AdminRequest : Commit(r)
         \/ /\ refRow' = refRow
            /\ \A r \in AdminRequest : adminEdit[r].pc = "commit" => adminEdit'[r].pc # "idle"
<1> DEFINE Stays == \A r \in AdminRequest : adminEdit[r].pc = "commit" => adminEdit'[r].pc # "idle"
<1>1. adminEdit \in [AdminRequest -> EditType]
  BY DEF RefTypeOK, EditType, EditPc, EditOp
<1>2. ASSUME NEW s \in AdminRequest, NEW row, adminEdit' = [adminEdit EXCEPT ![s] = row],
             adminEdit[s].pc # "commit"
      PROVE  Stays
  BY <1>1, <1>2
<1>3. ASSUME NEW s \in AdminRequest,
             \/ LoadSaveRecord(s) \/ LoadDeleteRecords(s) \/ LoadUpload(s)
             \/ LoadEdit(s) \/ LoadDelete(s)
      PROVE  refRow' = refRow /\ Stays
  <2>1. PICK op, row : Load(s, op, row)
    BY <1>3 DEF LoadSaveRecord, LoadDeleteRecords, LoadUpload, LoadEdit, LoadDelete
  <2>2. /\ refRow' = refRow /\ adminEdit[s].pc = "idle"
        /\ adminEdit' = [adminEdit EXCEPT ![s] = row]
    BY <2>1 DEF Load, committed
  <2> QED BY <1>2, <2>2
<1>4. ASSUME NEW s \in AdminRequest,
             \/ WriteRecords(s) \/ UploadLine(s) \/ SkipLine(s) \/ UploadSyncs(s)
             \/ ListRecords(s) \/ EditSave(s) \/ MarkDeleted(s)
      PROVE  refRow' = refRow /\ Stays
  <2>1. refRow' = refRow /\ adminEdit[s].pc # "commit"
    BY <1>4 DEF WriteRecords, UploadLine, SkipLine, UploadSyncs, ListRecords, EditSave,
                MarkDeleted, committed
  <2>2. \A r \in AdminRequest \ {s} : adminEdit'[r] = adminEdit[r]
    BY <1>1, <1>4 DEF WriteRecords, UploadLine, SkipLine, UploadSyncs, ListRecords, EditSave,
                      MarkDeleted
  <2> QED BY <2>1, <2>2
<1>5. ASSUME NEW s \in AdminRequest,
             \/ CopyRecords(s) \/ PruneRecords(s) \/ DropTable(s) \/ CreateRefTable(s)
             \/ NoChange(s) \/ AddField(s) \/ RemoveField(s) \/ AddFieldFails(s)
      PROVE  refRow' = refRow /\ Stays
  <2>1. refRow' = refRow /\ adminEdit[s].pc # "commit"
    BY <1>5 DEF CopyRecords, PruneRecords, DropTable, CreateRefTable, NoChange, AddField,
                RemoveField, AddFieldFails, SyncsTo, EditStep, committed
  <2>2. \A r \in AdminRequest \ {s} : adminEdit'[r] = adminEdit[r]
    BY <1>1, <1>5 DEF CopyRecords, PruneRecords, DropTable, CreateRefTable, NoChange, AddField,
                      RemoveField, AddFieldFails, EditStep
  <2> QED BY <2>1, <2>2
<1>6. ASSUME NEW s \in AdminRequest, ExternalFails(s)
      PROVE  refRow' = refRow /\ Stays
  <2>1. refRow' = refRow /\ adminEdit[s].pc # "commit"
    BY <1>6 DEF ExternalFails, committed
  <2>2. \A r \in AdminRequest \ {s} : adminEdit'[r] = adminEdit[r]
    BY <1>1, <1>6 DEF ExternalFails, Ends
  <2> QED BY <2>1, <2>2
<1> QED BY <1>3, <1>4, <1>5, <1>6 DEF RefNext

\* The request whose transaction commits.
LEMMA CommitMoves ==
  ASSUME RefInv, NEW r \in AdminRequest, Commit(r)
  PROVE  /\ \A s \in AdminRequest \ {r} : adminEdit'[s] = adminEdit[s]
         /\ adminEdit[r].op \in RecordOps /\ Quiet /\ refRow'.ext # Nothing
              => external[refRow'.ext].records = refRecords'
         /\ overlap = "none" =>
              AtLeast(refRow'.publishedMajor, refRow'.publishedMinor,
                      refRow.publishedMajor, refRow.publishedMinor)
<1>1. RefTypeOK /\ refRow \in VersionedRow /\ EditKept(r)
  BY DEF RefInv, RefTypeOK
<1>2. PICK e \in EditType : e = adminEdit[r]
  BY <1>1, EditTyped
<1>3. e.inst \in VersionedRow /\ e.op \in EditOp
  BY <1>1, <1>2, EditTyped
<1>4. /\ e.pc = "commit" /\ refRecords' = Visible(r)
      /\ e.op = "synced" => refRow' = refRow
      /\ e.op # "synced" => refRow' = e.inst
  BY <1>2 DEF Commit
<1>5. \A s \in AdminRequest \ {r} : adminEdit'[s] = adminEdit[s]
  BY EndsEdit DEF Commit
<1>6. ASSUME e.op \in RecordOps, Quiet, refRow'.ext # Nothing
      PROVE  external[refRow'.ext].records = refRecords'
  <2>1. CopyKept(r)
    BY <1>6 DEF RefInv, QuietKept
  <2>2. refRow' = e.inst
    BY <1>4, <1>6 DEF RecordOps
  <2>3. e.inst.ext \in External
    BY <1>3, <1>6, <2>2 DEF VersionedRow
  <2>4. external[e.inst.ext].records = Visible(r)
    BY <1>2, <1>4, <1>6, <2>1, <2>3 DEF CopyKept
  <2> QED BY <1>4, <2>2, <2>4
<1>7. ASSUME overlap = "none"
      PROVE  AtLeast(refRow'.publishedMajor, refRow'.publishedMinor,
                     refRow.publishedMajor, refRow.publishedMinor)
  <2>1. NotOlder(e.inst, e.was, refRow)
    BY <1>2, <1>4, <1>7 DEF RefInv
  <2>2. refRow.publishedMajor \in Nat /\ refRow.publishedMinor \in Nat
    BY <1>1 DEF VersionedRow
  <2>3. CASE e.op = "synced"
    BY <1>4, <2>2, <2>3 DEF AtLeast
  <2>4. CASE e.op # "synced"
    BY <1>4, <2>1, <2>4 DEF NotOlder
  <2> QED BY <2>3, <2>4
<1> QED BY <1>2, <1>5, <1>6, <1>7

\* Between requests.
LEMMA FollowsOf == RefInv => ExternalFollows
<1> SUFFICES ASSUME RefInv, NoEdit, overlap # "other", externalFaults = 0, NEW d \in External
             PROVE  external[d] = IF d = refRow.ext /\ ~ refRow.deleted
                                  THEN [exists |-> TRUE, records |-> refRecords,
                                        columns |-> refColumns]
                                  ELSE NoTable
  BY DEF ExternalFollows
<1>1. Calm
  BY DEF Calm, Quiet
<1>2. ASSUME NEW r \in AdminRequest PROVE ~ Gone(r) /\ ~ Reached(r) /\ ~ Lagging(r)
  <2>1. adminEdit[r].pc = "idle" /\ adminEdit[r].op = "none"
    BY OpOf DEF NoEdit
  <2> QED BY <2>1 DEF Gone, Reached, Lagging, RecordOps
<1>3. Tables(Live, refColumns) /\ Holds(Live, refRecords)
  BY <1>1, <1>2 DEF RefInv
<1>4. PICK table \in TableType : table = external[d]
  BY DEF RefInv, RefTypeOK, TableType
<1>5. d # Nothing
  BY ReferenceDataAssumption
<1>6. CASE d = refRow.ext /\ ~ refRow.deleted
  <2>1. table.exists /\ table.columns = refColumns /\ table.records = refRecords
    BY <1>3, <1>4, <1>6 DEF Live, Tables, Holds
  <2>2. table.exists = TRUE
    BY <2>1 DEF TableType
  <2>3. table = [exists |-> TRUE, records |-> refRecords, columns |-> refColumns]
    BY <2>1, <2>2 DEF TableType
  <2> QED BY <1>4, <1>6, <2>3
<1>7. CASE ~ (d = refRow.ext /\ ~ refRow.deleted)
  <2>1. d # Live
    BY <1>5, <1>7 DEF Live
  <2> QED BY <1>3, <1>7, <2>1 DEF Tables
<1> QED BY <1>6, <1>7

\* What users and the readers of the external database are promised of a reference
\* dataset, for any number of requests, records, fields and external databases: between
\* requests the copy has the columns and the records, the next save repairs it, the
\* published version is the current one and never goes back (ReferenceDataset.save,
\* save_record, sync_to_external_database).
THEOREM ReferenceIsKept == RefSpec => ReferencePromise
<1>1. RefInv => RefTypeOK /\ ExternalFollows /\ PublishedIsCurrent /\ FieldsHaveColumns
  <2> SUFFICES ASSUME RefInv PROVE RefTypeOK /\ PublishedIsCurrent /\ FieldsHaveColumns
    BY FollowsOf
  <2>1. RefTypeOK /\ PublishedIsCurrent
    BY DEF RefInv, Current, PublishedIsCurrent
  <2>2. FieldsHaveColumns
    BY DEF RefInv, FieldsHaveColumns, Calm, Quiet
  <2> QED BY <2>1, <2>2
<1>2. RefInv /\ [RefNext]_refVars =>
        [\A r \in AdminRequest :
            adminEdit[r].op \in RecordOps /\ adminEdit[r].pc = "commit"
            /\ adminEdit'[r].pc = "idle" /\ refRow'.ext # Nothing /\ overlap # "other"
               => external[refRow'.ext].records = refRecords']_refVars
  <2> SUFFICES ASSUME RefInv, RefNext, NEW r \in AdminRequest,
                      adminEdit[r].op \in RecordOps, adminEdit[r].pc = "commit",
                      adminEdit'[r].pc = "idle", refRow'.ext # Nothing, overlap # "other"
               PROVE  external[refRow'.ext].records = refRecords'
    OBVIOUS
  <2>1. PICK s \in AdminRequest : Commit(s)
    BY OnlyCommits DEF RefInv
  <2>2. s = r
    BY <2>1, CommitMoves
  <2> QED BY <2>1, <2>2, CommitMoves DEF Quiet
<1>3. RefInv /\ [RefNext]_refVars =>
        [overlap' = "none" =>
            \/ refRow.publishedMajor < refRow'.publishedMajor
            \/ /\ refRow.publishedMajor = refRow'.publishedMajor
               /\ refRow.publishedMinor <= refRow'.publishedMinor]_refVars
  <2> SUFFICES ASSUME RefInv, RefNext, overlap' = "none"
               PROVE  \/ refRow.publishedMajor < refRow'.publishedMajor
                      \/ /\ refRow.publishedMajor = refRow'.publishedMajor
                         /\ refRow.publishedMinor <= refRow'.publishedMinor
    OBVIOUS
  <2>1. refRow.publishedMajor \in Nat /\ refRow.publishedMinor \in Nat
    BY DEF RefInv, RefTypeOK, VersionedRow
  <2>2. CASE refRow' = refRow
    BY <2>1, <2>2
  <2>3. ASSUME NEW r \in AdminRequest, Commit(r)
        PROVE  \/ refRow.publishedMajor < refRow'.publishedMajor
               \/ /\ refRow.publishedMajor = refRow'.publishedMajor
                  /\ refRow.publishedMinor <= refRow'.publishedMinor
    <3>1. overlap = "none"
      BY <2>3 DEF Commit
    <3> QED BY <2>3, <3>1, CommitMoves DEF AtLeast
  <2> QED BY <2>2, <2>3, OnlyCommits DEF RefInv
<1> QED BY ReferenceInvariance, <1>1, <1>2, <1>3, PTL
        DEF RefSpec, ReferencePromise, SaveRepairs, PublishedNeverBack
=====================================================================================

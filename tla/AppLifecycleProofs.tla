------------------------- MODULE AppLifecycleProofs -------------------------
(***************************************************************************)
(* Proofs, for any sets of hosts, instances and requests, of the safety    *)
(* properties of AppLifecycle, and that it implements HostSlot.            *)
(***************************************************************************)
EXTENDS AppLifecycle, TLAPS

USE DEF VisibleStates, Phase, Method

\* A request record after Reply and after Goto.
LEMMA ReplyEffect ==
    ASSUME TypeOK, NEW r \in Request, NEW h \in Host \cup {None},
           NEW op \in Method \cup {None},
           NEW status \in {0, 200, 404, 409, 500},
           Reply(r, op, h, status)
    PROVE  /\ req' \in [Request -> RequestType]
           /\ \A q \in Request \ {r} : req'[q] = req[q]
           /\ req'[r].pc = "done" /\ req'[r].op = op /\ req'[r].host = h
  <1>1. RequestAt("done", op, h, None, None, status) \in RequestType
    BY DEF RequestAt, RequestType
  <1>2. req \in [Request -> RequestType]
    BY DEF TypeOK
  <1> QED
    BY <1>1, <1>2 DEF Reply, RequestAt

LEMMA GotoEffect ==
    ASSUME TypeOK, NEW r \in Request, NEW h \in Host \cup {None},
           NEW op \in Method \cup {None},
           NEW pc \in {"describe", "create", "delay_spawn", "patch", "delay_stop", "save"},
           NEW i \in Instance \cup {None}, NEW seen \in Row \cup {None},
           Goto(r, op, h, pc, i, seen)
    PROVE  /\ req' \in [Request -> RequestType]
           /\ \A q \in Request \ {r} : req'[q] = req[q]
           /\ req'[r].pc = pc /\ req'[r].op = op /\ req'[r].host = h
           /\ req'[r].inst = i /\ req'[r].seen = seen
  <1>1. RequestAt(pc, op, h, i, seen, 0) \in RequestType
    BY DEF RequestAt, RequestType
  <1>2. req \in [Request -> RequestType]
    BY DEF TypeOK
  <1> QED
    BY <1>1, <1>2 DEF Goto, RequestAt

\* Changing only where a request is keeps it a request.
LEMMA MoveEffect ==
    ASSUME TypeOK, NEW r \in Request,
           NEW pc \in {"describe", "reget", "save"},
           req' = [req EXCEPT ![r].pc = pc]
    PROVE  /\ req' \in [Request -> RequestType]
           /\ \A q \in Request \ {r} : req'[q] = req[q]
           /\ req'[r].pc = pc /\ req'[r].op = req[r].op
           /\ req'[r].host = req[r].host
           /\ req'[r].inst = req[r].inst /\ req'[r].seen = req[r].seen
  <1>1. PICK row : row = [req[r] EXCEPT !.pc = pc]
    OBVIOUS
  <1>2. req \in [Request -> RequestType] /\ req[r] \in RequestType
    BY DEF TypeOK
  <1>3. /\ row \in RequestType /\ row.pc = pc /\ row.op = req[r].op /\ row.host = req[r].host
        /\ row.inst = req[r].inst /\ row.seen = req[r].seen
    BY <1>1, <1>2 DEF RequestType
  <1>4. req' = [req EXCEPT ![r] = row]
    BY <1>1, <1>2
  <1> QED BY <1>2, <1>3, <1>4

\* The effect of the reply of api_application_dict.
LEMMA DescribeEffect ==
    ASSUME TypeOK, RequestInv, NEW r \in Request, Describe(r)
    PROVE  /\ req' \in [Request -> RequestType]
           /\ \A q \in Request \ {r} : req'[q] = req[q]
           /\ req'[r].pc = "done" /\ req'[r].op = req[r].op
           /\ req'[r].host = req[r].host
  <1>1. req[r].seen \in Row
    BY DEF RequestInv, Describe
  <1>2. PICK s \in {"RUNNING", "STOPPED"} :
          req' = [req EXCEPT ![r] = ApplicationDict(req[r], s)]
    BY DEF Describe
  <1>3. req[r] \in RequestType /\ req \in [Request -> RequestType]
    BY DEF TypeOK
  <1>4. ApplicationDict(req[r], s) \in RequestType
    BY <1>1, <1>3 DEF Row, RequestType, ApplicationDict
  <1> QED
    BY <1>2, <1>3, <1>4 DEF ApplicationDict

\* Every handler starts with the same query.
LEMMA LookupEffect ==
    ASSUME TypeOK, NEW r \in Request, NEW h \in Host,
           NEW op \in {"GET", "PATCH", "DELETE", "STOP"},
           NEW missing \in {200, 404},
           NEW pc \in {"describe", "patch", "delay_stop", "save"},
           op = "GET" <=> pc = "describe",
           Lookup(r, op, h, missing, pc)
    PROVE  /\ req' \in [Request -> RequestType]
           /\ \A q \in Request \ {r} : req'[q] = req[q]
           /\ req'[r].op = op /\ req'[r].host = h
           /\ \/ req'[r].pc = "done"
              \/ /\ req'[r].pc = pc
                 /\ req'[r].inst \in Instance
                 /\ state[req'[r].inst] \in VisibleStates
                 /\ pc = "describe" => req'[r].seen \in Row
           /\ UNCHANGED <<columns, clock, reap, spawn, stops, crashes, external>>
  <1>0. UNCHANGED <<columns, clock, reap, spawn, stops, crashes, external>>
    BY DEF Lookup
  <1>1. CASE Reply(r, op, h, missing)
    BY <1>0, <1>1, ReplyEffect
  <1>2. CASE Reply(r, op, h, 500)
    BY <1>0, <1>2, ReplyEffect
  <1>3. ASSUME NEW i \in Instance, Visible(h) = {i},
               Goto(r, op, h, pc, i, IF op = "GET" THEN RowOf(i) ELSE None)
        PROVE  /\ req' \in [Request -> RequestType]
               /\ \A q \in Request \ {r} : req'[q] = req[q]
               /\ req'[r].op = op /\ req'[r].host = h
               /\ req'[r].pc = pc
               /\ req'[r].inst \in Instance
               /\ state[req'[r].inst] \in VisibleStates
               /\ pc = "describe" => req'[r].seen \in Row
    <2>1. state[i] \in VisibleStates
      BY <1>3 DEF Visible
    <2>2. RowOf(i) \in Row
      BY <2>1 DEF RowOf, Row, TypeOK
    <2> DEFINE seen == IF op = "GET" THEN RowOf(i) ELSE None
    <2>3. seen \in Row \cup {None} /\ (pc = "describe" => seen \in Row)
      BY <2>2
    <2>4. Goto(r, op, h, pc, i, seen)
      BY <1>3
    <2> HIDE DEF seen
    <2> QED
      BY <2>1, <2>3, <2>4, GotoEffect
  <1> QED
    BY <1>0, <1>1, <1>2, <1>3 DEF Lookup

\* The type invariant is preserved by every step.
LEMMA TypeStep ==
    ASSUME TypeOK, RequestInv, [Next]_vars
    PROVE  TypeOK'
  <1> USE ConstantsAssumption DEF columns, clock, external
  <1>1. CASE UNCHANGED vars
    BY <1>1 DEF TypeOK, vars
  <1>2. ASSUME NEW r \in Request, NEW h \in Host, StartRequest(r, h)
        PROVE  TypeOK'
    <2>1. CASE Get(r, h)
      <3>1. Lookup(r, "GET", h, 404, "describe")
        BY <2>1 DEF Get
      <3>2. req' \in [Request -> RequestType]
        BY <3>1, LookupEffect
      <3> QED BY <3>1, <3>2 DEF TypeOK, Lookup
    <2>2. CASE Patch(r, h)
      <3>1. Lookup(r, "PATCH", h, 404, "patch")
        BY <2>2 DEF Patch
      <3>2. req' \in [Request -> RequestType]
        BY <3>1, LookupEffect
      <3> QED BY <3>1, <3>2 DEF TypeOK, Lookup
    <2>3. CASE Delete(r, h)
      <3>1. Lookup(r, "DELETE", h, 200, "save")
        BY <2>3 DEF Delete
      <3>2. req' \in [Request -> RequestType]
        BY <3>1, LookupEffect
      <3> QED BY <3>1, <3>2 DEF TypeOK, Lookup
    <2>4. CASE Stop(r, h)
      <3>1. Lookup(r, "STOP", h, 200, "delay_stop")
        BY <2>4 DEF Stop
      <3>2. req' \in [Request -> RequestType]
        BY <3>1, LookupEffect
      <3> QED BY <3>1, <3>2 DEF TypeOK, Lookup
    <2>5. CASE Put(r, h)
      <3>1. ASSUME Goto(r, "PUT", h, "create", None, None)
            PROVE  req' \in [Request -> RequestType]
        BY <3>1, GotoEffect
      <3>2. ASSUME Reply(r, "PUT", h, 409) \/ Reply(r, "PUT", h, 500)
            PROVE  req' \in [Request -> RequestType]
        BY <3>2, ReplyEffect
      <3>3. req' \in [Request -> RequestType]
        BY <2>5, <3>1, <3>2 DEF Put
      <3> QED
        BY <2>5, <3>3 DEF TypeOK, Put
    <2> QED
      BY <1>2, <2>1, <2>2, <2>3, <2>4, <2>5 DEF StartRequest
  <1>3. ASSUME NEW r \in Request, RequestStep(r) \/ Return(r) \/ RequestCrash(r)
        PROVE  TypeOK'
    <2>0. /\ req[r].op \in Method \cup {None}
          /\ req[r].host \in Host \cup {None}
          /\ req[r].inst \in Instance \cup {None}
      BY DEF TypeOK, RequestType
    <2>1. CASE PutCreate(r)
      <3>1. req[r].host \in Host
        BY <2>1 DEF RequestInv, PutCreate
      <3>2. NewRow \in Row
        BY DEF NewRow, Row
      <3>3. req' \in [Request -> RequestType]
        BY <2>0, <2>1, <3>1, <3>2, GotoEffect DEF PutCreate
      <3> QED
        BY <2>1, <3>1, <3>3 DEF TypeOK, PutCreate
    <2>2. CASE PutIntegrityError(r)
      BY <2>2, MoveEffect DEF TypeOK, PutIntegrityError
    <2>3. CASE PutReget(r)
      <3>1. \A i \in Instance : Visible(req[r].host) = {i} => RowOf(i) \in Row
        BY DEF Visible, RowOf, Row, TypeOK
      <3>2. req' \in [Request -> RequestType]
        <4>1. req[r].host \in Host \cup {None}
          BY <2>0
        <4>2. ASSUME NEW i \in Instance, Visible(req[r].host) = {i},
                     Goto(r, "PUT", req[r].host, "describe", i, RowOf(i))
              PROVE  req' \in [Request -> RequestType]
          <5>1. PICK row \in Row : row = RowOf(i)
            BY <3>1, <4>2
          <5>2. Goto(r, "PUT", req[r].host, "describe", i, row)
            BY <4>2, <5>1
          <5> QED BY <4>1, <5>2, GotoEffect
        <4>3. CASE Reply(r, "PUT", req[r].host, 500)
          BY <4>1, <4>3, ReplyEffect
        <4> QED BY <2>3, <4>2, <4>3 DEF PutReget
      <3> QED
        BY <2>3, <3>2 DEF TypeOK, PutReget
    <2>4. CASE PutDelaySpawn(r)
      BY <2>4, MoveEffect DEF TypeOK, PutDelaySpawn
    <2>5. CASE Describe(r)
      BY <2>5, DescribeEffect DEF TypeOK, Describe
    <2>6. CASE PatchSave(r)
      <3>1. req' \in [Request -> RequestType]
        BY <2>0, <2>6, ReplyEffect DEF PatchSave
      <3> QED
        BY <2>6, <3>1 DEF TypeOK, PatchSave
    <2>7. CASE StopDelay(r)
      <3>1. req' \in [Request -> RequestType]
        BY <2>7, MoveEffect DEF StopDelay
      <3>2. stops' \in [Instance -> 0 .. MaxStops]
        BY <2>0, <2>7 DEF TypeOK, RequestInv, HasRow, StopDelay, DelayStop
      <3> QED
        BY <2>7, <3>1, <3>2 DEF TypeOK, StopDelay
    <2>8. CASE StopSave(r)
      <3>1. req' \in [Request -> RequestType]
        BY <2>0, <2>8, ReplyEffect DEF StopSave
      <3> QED
        BY <2>0, <2>8, <3>1 DEF TypeOK, StopSave, SetStopped
    <2>9. CASE Return(r)
      <3>1. IdleRequest \in RequestType
        BY DEF IdleRequest, RequestAt, RequestType
      <3> QED
        BY <2>9, <3>1 DEF TypeOK, Return
    <2>10. CASE RequestCrash(r)
      <3>1. req' \in [Request -> RequestType]
        BY <2>0, <2>10, ReplyEffect DEF RequestCrash
      <3> QED
        BY <2>10, <3>1 DEF TypeOK, RequestCrash
    <2> QED
      BY <1>3, <2>1, <2>2, <2>3, <2>4, <2>5, <2>6, <2>7, <2>8, <2>9, <2>10
      DEF RequestStep
  <1>4. ASSUME NEW i \in Instance, ReapStep(i) \/ ReapCrash(i)
        PROVE  TypeOK'
    BY <1>4 DEF TypeOK, ReapStep, ReapStart, ReapMetrics, ReapDelay, ReapSave,
                ReapCrash, DelayStop, SetStopped
  <1>5. ASSUME NEW i \in Instance, SpawnStep(i) \/ SpawnCrash(i)
        PROVE  TypeOK'
    <2>1. CASE SpawnTriggerPipeline(i) \/ SpawnSaveTask(i) \/ SpawnPollIp(i)
      <3>1. spawnerId' \in [Instance -> SUBSET {"pipeline", "task"}]
        BY <2>1 DEF TypeOK, SpawnTriggerPipeline, SpawnSaveTask, SpawnPollIp
      <3>2. spawn' \in [Instance -> Phase]
        BY <2>1 DEF TypeOK, SpawnTriggerPipeline, SpawnSaveTask, SpawnPollIp, SpawnGoto
      <3>3. url' \in [Instance -> BOOLEAN]
        BY <2>1 DEF TypeOK, SpawnTriggerPipeline, SpawnSaveTask, SpawnPollIp
      <3>4. pipeline' \in [Instance -> {"none", "running", "success", "failed"}]
        BY <2>1 DEF TypeOK, SpawnTriggerPipeline, SpawnSaveTask, SpawnPollIp
      <3> QED
        BY <2>1, <3>1, <3>2, <3>3, <3>4
        DEF TypeOK, SpawnTriggerPipeline, SpawnSaveTask, SpawnPollIp
    <2>2. CASE SpawnCredentials(i) \/ SpawnPipelineFails(i) \/ SpawnRunTask(i)
      BY <2>2 DEF TypeOK, SpawnCredentials, SpawnPipelineFails, SpawnRunTask, SpawnGoto
    <2>3. CASE SpawnRefresh(i) \/ SpawnCleanup(i) \/ SpawnCrash(i)
      BY <2>3 DEF TypeOK, SpawnRefresh, SpawnCleanup, SpawnCrash, SpawnGoto
    <2> QED
      BY <1>5, <2>1, <2>2, <2>3 DEF SpawnStep
  <1>6. ASSUME NEW i \in Instance, StopTask(i) \/ Environment(i)
        PROVE  TypeOK'
    BY <1>6 DEF TypeOK, StopTask, Environment, EcsTaskExits, PipelineFinishes,
                AgeInstance, AgePipeline, TwoHours, ThreeMinutes
  <1> QED
    BY <1>1, <1>2, <1>3, <1>4, <1>5, <1>6 DEF Next, SystemNext, Crash

\* What a request knows of its row stays true: no row disappears, and a
\* spawn task is queued once.
LEMMA RequestStepInv ==
    ASSUME TypeOK, RequestInv, SlotInv, [Next]_vars
    PROVE  RequestInv'
  <1> USE ConstantsAssumption DEF columns, clock, external, HasRow
  <1>1. CASE UNCHANGED vars
    BY <1>1 DEF RequestInv, vars
  <1>2. ASSUME NEW r \in Request, NEW h \in Host, StartRequest(r, h)
        PROVE  RequestInv'
    <2>1. /\ \A q \in Request \ {r} : req'[q] = req[q]
          /\ req'[r].op \in Method /\ req'[r].host = h
          /\ \/ req'[r].pc \in {"done", "create"}
             \/ /\ req'[r].pc \in {"describe", "patch", "delay_stop", "save"}
                /\ req'[r].inst \in Instance
                /\ state[req'[r].inst] \in VisibleStates
                /\ req'[r].pc = "describe" => req'[r].seen \in Row
          /\ UNCHANGED <<columns, clock, reap, spawn, stops, crashes, external>>
      <3>1. CASE Get(r, h)
        BY <3>1, LookupEffect DEF Get
      <3>2. CASE Patch(r, h)
        BY <3>2, LookupEffect DEF Patch
      <3>3. CASE Delete(r, h)
        BY <3>3, LookupEffect DEF Delete
      <3>4. CASE Stop(r, h)
        BY <3>4, LookupEffect DEF Stop
      <3>5. CASE Put(r, h)
        BY <3>5, ReplyEffect, GotoEffect DEF Put
      <3> QED
        BY <1>2, <3>1, <3>2, <3>3, <3>4, <3>5 DEF StartRequest
    <2> QED
      BY <2>1 DEF RequestInv
  <1>3. ASSUME NEW r \in Request, RequestStep(r) \/ Return(r) \/ RequestCrash(r)
        PROVE  RequestInv'
    <2>0. /\ req[r].op \in Method \cup {None}
          /\ req[r].host \in Host \cup {None}
          /\ req[r].inst \in Instance \cup {None}
      BY DEF TypeOK, RequestType
    <2>1. CASE PutCreate(r)
      <3>1. req[r].host \in Host
        BY <2>1 DEF RequestInv, PutCreate
      <3>2. PICK i \in Instance :
              /\ state[i] = "ABSENT"
              /\ state' = [state EXCEPT ![i] = "SPAWNING"]
              /\ Goto(r, "PUT", req[r].host, "delay_spawn", i, NewRow)
        BY <2>1 DEF PutCreate
      <3>3. NewRow \in Row
        BY DEF NewRow, Row
      <3>4. /\ \A q \in Request \ {r} : req'[q] = req[q]
            /\ req'[r].pc = "delay_spawn" /\ req'[r].op = "PUT"
            /\ req'[r].host = req[r].host
            /\ req'[r].inst = i /\ req'[r].seen = NewRow
        BY <3>1, <3>2, <3>3, GotoEffect
      <3>5. spawn' = spawn /\ spawn[i] = "none"
        BY <2>1, <3>2 DEF PutCreate, SlotInv
      <3>6. \A q \in Request \ {r} :
               req[q].pc \in HasRow => req[q].inst \in Instance /\ req[q].inst # i
        BY <3>2 DEF RequestInv
      <3>7. \A j \in Instance : state'[j] = IF j = i THEN "SPAWNING" ELSE state[j]
        BY <3>2 DEF TypeOK
      <3>8. \A q \in Request :
              /\ req'[q].pc # "idle" => req'[q].op \in Method /\ req'[q].host \in Host
              /\ req'[q].pc \in HasRow =>
                    req'[q].inst \in Instance /\ state'[req'[q].inst] # "ABSENT"
              /\ req'[q].pc \in {"describe", "delay_spawn"} => req'[q].seen \in Row
              /\ req'[q].pc = "delay_spawn" => spawn'[req'[q].inst] = "none"
        BY <3>1, <3>3, <3>4, <3>5, <3>6, <3>7 DEF RequestInv
      <3>9. \A p, q \in Request :
              /\ req'[p].pc = "delay_spawn" /\ req'[q].pc = "delay_spawn"
              /\ req'[p].inst = req'[q].inst
              => p = q
        BY <3>4, <3>6 DEF RequestInv
      <3> QED
        BY <3>8, <3>9 DEF RequestInv
    <2>2. CASE PutIntegrityError(r)
      <3>1. /\ req[r].pc = "create" /\ req' = [req EXCEPT ![r].pc = "reget"]
            /\ state' = state /\ spawn' = spawn
        BY <2>2 DEF PutIntegrityError
      <3>2. /\ \A q \in Request \ {r} : req'[q] = req[q]
            /\ req'[r].pc = "reget" /\ req'[r].op = req[r].op /\ req'[r].host = req[r].host
        BY <3>1, MoveEffect
      <3> QED BY <3>1, <3>2 DEF RequestInv
    <2>3. CASE PutReget(r)
      <3>1. req[r].host \in Host /\ state' = state /\ spawn' = spawn
        BY <2>3 DEF RequestInv, PutReget
      <3>2. CASE Reply(r, "PUT", req[r].host, 500)
        BY <3>1, <3>2, ReplyEffect DEF RequestInv
      <3>3. ASSUME NEW i \in Instance, Visible(req[r].host) = {i},
                   Goto(r, "PUT", req[r].host, "describe", i, RowOf(i))
            PROVE  RequestInv'
        <4>1. state[i] \in VisibleStates
          BY <3>3 DEF Visible
        <4>2. RowOf(i) \in Row
          BY <4>1 DEF RowOf, Row, TypeOK
        <4>3. /\ \A q \in Request \ {r} : req'[q] = req[q]
              /\ req'[r].pc = "describe" /\ req'[r].op = "PUT"
              /\ req'[r].host = req[r].host
              /\ req'[r].inst = i /\ req'[r].seen = RowOf(i)
          BY <3>1, <3>3, <4>2, GotoEffect
        <4> QED
          BY <3>1, <4>1, <4>2, <4>3 DEF RequestInv
      <3> QED
        BY <2>3, <3>2, <3>3 DEF PutReget
    <2>4. CASE PutDelaySpawn(r)
      <3>1. /\ req' = [req EXCEPT ![r].pc = "describe"]
            /\ spawn' = [spawn EXCEPT ![req[r].inst] = "queued"]
            /\ state' = state /\ req[r].pc = "delay_spawn"
        BY <2>4 DEF PutDelaySpawn
      <3>2. /\ \A q \in Request \ {r} : req'[q] = req[q]
            /\ req'[r].pc = "describe" /\ req'[r].op = req[r].op
            /\ req'[r].host = req[r].host
            /\ req'[r].inst = req[r].inst /\ req'[r].seen = req[r].seen
        BY <3>1, MoveEffect
      <3>3. \A q \in Request \ {r} : req[q].pc = "delay_spawn" =>
               spawn'[req[q].inst] = spawn[req[q].inst]
        BY <3>1 DEF RequestInv, TypeOK
      <3> QED
        BY <3>1, <3>2, <3>3 DEF RequestInv
    <2>5. CASE Describe(r)
      <3>1. /\ \A q \in Request \ {r} : req'[q] = req[q]
            /\ req'[r].pc = "done" /\ req'[r].op = req[r].op
            /\ req'[r].host = req[r].host
        BY <2>5, DescribeEffect
      <3>2. state' = state /\ spawn' = spawn /\ req[r].pc = "describe"
        BY <2>5 DEF Describe
      <3> QED
        BY <3>1, <3>2 DEF RequestInv
    <2>6. CASE PatchSave(r) \/ StopSave(r)
      <3>1. /\ req[r].host \in Host /\ req[r].op \in Method
            /\ Reply(r, req[r].op, req[r].host, 200)
            /\ spawn' = spawn
        BY <2>6 DEF PatchSave, StopSave, RequestInv
      <3>2. \A i \in Instance : state[i] # "ABSENT" => state'[i] # "ABSENT"
        BY <2>6 DEF PatchSave, StopSave, SetStopped, TypeOK
      <3>3. /\ \A q \in Request \ {r} : req'[q] = req[q]
            /\ req'[r].pc = "done" /\ req'[r].op = req[r].op
            /\ req'[r].host = req[r].host
        BY <2>0, <3>1, ReplyEffect
      <3> QED
        BY <3>1, <3>2, <3>3 DEF RequestInv
    <2>7. CASE StopDelay(r)
      <3>1. /\ \A q \in Request \ {r} : req'[q] = req[q]
            /\ req'[r].pc = "save" /\ req'[r].op = req[r].op
            /\ req'[r].host = req[r].host
            /\ req'[r].inst = req[r].inst
        BY <2>7, MoveEffect DEF StopDelay
      <3> QED
        BY <2>7, <3>1 DEF RequestInv, StopDelay
    <2>8. CASE Return(r)
      <3>1. /\ \A q \in Request \ {r} : req'[q] = req[q]
            /\ req'[r].pc = "idle"
        BY <2>8 DEF Return, IdleRequest, RequestAt, TypeOK
      <3> QED
        BY <2>8, <3>1 DEF RequestInv, Return
    <2>9. CASE RequestCrash(r)
      <3>1. /\ req[r].host \in Host /\ req[r].op \in Method
        BY <2>9 DEF RequestCrash, RequestInv
      <3> QED
        BY <2>0, <2>9, <3>1, ReplyEffect DEF RequestInv, RequestCrash
    <2> QED
      BY <1>3, <2>1, <2>2, <2>3, <2>4, <2>5, <2>6, <2>7, <2>8, <2>9 DEF RequestStep
  <1>4. ASSUME NEW i \in Instance, ReapStep(i) \/ ReapCrash(i)
        PROVE  RequestInv'
    <2>1. /\ req' = req /\ spawn' = spawn
          /\ \A j \in Instance : state[j] # "ABSENT" => state'[j] # "ABSENT"
      BY <1>4 DEF ReapStep, ReapStart, ReapMetrics, ReapDelay, ReapSave, ReapCrash,
                  SetStopped, TypeOK
    <2> QED
      BY <2>1 DEF RequestInv
  <1>5. ASSUME NEW i \in Instance, SpawnStep(i) \/ SpawnCrash(i)
        PROVE  RequestInv'
    <2>1. /\ req' = req /\ state' = state
          /\ \A j \in Instance : spawn[j] = "none" => spawn'[j] = "none"
      BY <1>5 DEF SpawnStep, SpawnCredentials, SpawnTriggerPipeline,
                  SpawnPipelineFails, SpawnRunTask, SpawnSaveTask, SpawnRefresh,
                  SpawnPollIp, SpawnCleanup, SpawnCrash, SpawnGoto, TypeOK
    <2> QED
      BY <2>1 DEF RequestInv
  <1>6. ASSUME NEW i \in Instance, StopTask(i) \/ Environment(i)
        PROVE  RequestInv'
    BY <1>6 DEF RequestInv, StopTask, Environment, EcsTaskExits, PipelineFinishes,
                AgeInstance, AgePipeline
  <1> QED
    BY <1>1, <1>2, <1>3, <1>4, <1>5, <1>6 DEF Next, SystemNext, Crash

\* set_application_stopped, by whoever calls it, keeps the slots right.
LEMMA SetStoppedSlot ==
    ASSUME TypeOK, SlotInv, NEW i \in Instance, state[i] # "ABSENT",
           SetStopped(i), UNCHANGED <<host, spawn>>,
           \A j \in Instance : reap'[j] # "idle" => reap[j] # "idle"
    PROVE  SlotInv'
  <1>1. \A j \in Instance : /\ state'[j] = IF j = i THEN "STOPPED" ELSE state[j]
                            /\ key'[j] = IF j = i THEN i ELSE key[j]
    BY DEF SetStopped, TypeOK
  <1> QED
    BY <1>1, ConstantsAssumption DEF SlotInv

\* Who holds an integrity key.
LEMMA SlotStepInv ==
    ASSUME TypeOK, RequestInv, SlotInv, [Next]_vars
    PROVE  SlotInv'
  <1> USE ConstantsAssumption DEF columns, clock, external, HasRow
  <1>1. CASE UNCHANGED vars
    BY <1>1 DEF SlotInv, vars
  <1>2. ASSUME NEW r \in Request, NEW h \in Host, StartRequest(r, h)
        PROVE  SlotInv'
    BY <1>2 DEF SlotInv, StartRequest, Get, Put, Patch, Delete, Stop, Lookup
  <1>3. ASSUME NEW r \in Request, RequestStep(r) \/ Return(r) \/ RequestCrash(r)
        PROVE  SlotInv'
    <2>1. CASE PutCreate(r)
      <3>1. req[r].host \in Host /\ ~ KeyTaken(req[r].host)
            /\ spawn' = spawn /\ reap' = reap
        BY <2>1 DEF RequestInv, PutCreate
      <3>2. PICK i \in Instance :
              /\ state[i] = "ABSENT"
              /\ host' = [host EXCEPT ![i] = req[r].host]
              /\ state' = [state EXCEPT ![i] = "SPAWNING"]
              /\ key' = [key EXCEPT ![i] = req[r].host]
        BY <2>1 DEF PutCreate
      <3>3. \A j \in Instance :
              /\ state'[j] = IF j = i THEN "SPAWNING" ELSE state[j]
              /\ host'[j] = IF j = i THEN req[r].host ELSE host[j]
              /\ key'[j] = IF j = i THEN req[r].host ELSE key[j]
        BY <3>2 DEF TypeOK
      <3> QED
        BY <3>1, <3>2, <3>3 DEF SlotInv, KeyTaken
    <2>2. CASE PutDelaySpawn(r)
      <3>1. /\ req[r].inst \in Instance /\ state[req[r].inst] # "ABSENT"
            /\ spawn' = [spawn EXCEPT ![req[r].inst] = "queued"]
            /\ UNCHANGED <<host, state, key, reap>>
        BY <2>2 DEF RequestInv, PutDelaySpawn
      <3> QED
        BY <3>1 DEF SlotInv, TypeOK
    <2>3. CASE PatchSave(r)
      <3>1. /\ req[r].inst \in Instance /\ state[req[r].inst] # "ABSENT"
            /\ state' = [state EXCEPT ![req[r].inst] = "RUNNING"]
            /\ UNCHANGED <<host, key, reap, spawn>>
        BY <2>3 DEF RequestInv, PatchSave
      <3>2. \A j \in Instance :
              state'[j] = IF j = req[r].inst THEN "RUNNING" ELSE state[j]
        BY <3>1 DEF TypeOK
      <3>3. key[req[r].inst] \in {host[req[r].inst], req[r].inst}
        BY <3>1 DEF SlotInv, TypeOK
      <3> QED
        BY <3>1, <3>2, <3>3 DEF SlotInv
    <2>4. CASE StopSave(r)
      <3>1. req[r].inst \in Instance /\ state[req[r].inst] # "ABSENT"
        BY <2>4 DEF RequestInv, StopSave
      <3> QED
        BY <2>4, <3>1, SetStoppedSlot DEF StopSave
    <2>5. CASE \/ PutIntegrityError(r) \/ PutReget(r) \/ Describe(r)
               \/ StopDelay(r) \/ Return(r) \/ RequestCrash(r)
      <3>1. UNCHANGED <<host, state, key, reap, spawn>>
        BY <2>5 DEF PutIntegrityError, PutReget, Describe, StopDelay, Return, RequestCrash
      <3> QED
        BY <3>1 DEF SlotInv
    <2> QED
      BY <1>3, <2>1, <2>2, <2>3, <2>4, <2>5 DEF RequestStep
  <1>4. ASSUME NEW i \in Instance, ReapStep(i) \/ ReapCrash(i)
        PROVE  SlotInv'
    <2>1. CASE ReapSave(i)
      <3>1. /\ state[i] # "ABSENT"
            /\ \A j \in Instance : reap'[j] # "idle" => reap[j] # "idle"
        BY <2>1 DEF ReapSave, SlotInv, TypeOK
      <3> QED
        BY <2>1, <3>1, SetStoppedSlot DEF ReapSave
    <2>2. CASE ReapStart(i) \/ ReapMetrics(i) \/ ReapDelay(i) \/ ReapCrash(i)
      <3>1. /\ UNCHANGED <<host, state, key, spawn>>
            /\ \A j \in Instance : reap'[j] # "idle" => state[j] # "ABSENT"
        BY <2>2 DEF ReapStart, ReapMetrics, ReapDelay, ReapCrash, SlotInv, TypeOK
      <3> QED
        BY <3>1 DEF SlotInv
    <2> QED
      BY <1>4, <2>1, <2>2 DEF ReapStep
  <1>5. ASSUME NEW i \in Instance, SpawnStep(i) \/ SpawnCrash(i)
        PROVE  SlotInv'
    <2>1. /\ UNCHANGED <<host, state, key, reap>>
          /\ \A j \in Instance : spawn[j] = "none" => spawn'[j] = "none"
      BY <1>5 DEF SpawnStep, SpawnCredentials, SpawnTriggerPipeline,
                  SpawnPipelineFails, SpawnRunTask, SpawnSaveTask, SpawnRefresh,
                  SpawnPollIp, SpawnCleanup, SpawnCrash, SpawnGoto, TypeOK
    <2> QED
      BY <2>1 DEF SlotInv
  <1>6. ASSUME NEW i \in Instance, StopTask(i) \/ Environment(i)
        PROVE  SlotInv'
    BY <1>6 DEF SlotInv, StopTask, Environment, EcsTaskExits, PipelineFinishes,
                AgeInstance, AgePipeline
  <1> QED
    BY <1>1, <1>2, <1>3, <1>4, <1>5, <1>6 DEF Next, SystemNext, Crash

\* How far each phase of the spawn task has filled in the row.
LEMMA SpawnStepInv ==
    ASSUME TypeOK, RequestInv, SpawnInv, [Next]_vars
    PROVE  SpawnInv'
  <1> USE ConstantsAssumption DEF columns, clock, external, HasRow
  <1>1. CASE UNCHANGED vars
    BY <1>1 DEF SpawnInv, vars
  <1>2. ASSUME NEW r \in Request, NEW h \in Host, StartRequest(r, h)
        PROVE  SpawnInv'
    BY <1>2 DEF SpawnInv, StartRequest, Get, Put, Patch, Delete, Stop, Lookup
  <1>3. ASSUME NEW r \in Request, RequestStep(r) \/ Return(r) \/ RequestCrash(r)
        PROVE  SpawnInv'
    <2>1. CASE PutDelaySpawn(r)
      <3>1. /\ req[r].inst \in Instance /\ spawn[req[r].inst] = "none"
            /\ spawn' = [spawn EXCEPT ![req[r].inst] = "queued"]
            /\ UNCHANGED <<url, spawnerId, ecs>>
        BY <2>1 DEF RequestInv, PutDelaySpawn
      <3> QED
        BY <3>1 DEF SpawnInv, TypeOK
    <2>2. CASE ~ PutDelaySpawn(r)
      <3>1. UNCHANGED <<spawn, url, spawnerId, ecs>>
        BY <1>3, <2>2 DEF RequestStep, PutCreate, PutIntegrityError, PutReget, Describe,
                          PatchSave, StopDelay, StopSave, Return, RequestCrash
      <3> QED
        BY <3>1 DEF SpawnInv
    <2> QED
      BY <2>1, <2>2
  <1>4. ASSUME NEW i \in Instance, ReapStep(i) \/ ReapCrash(i)
        PROVE  SpawnInv'
    BY <1>4 DEF SpawnInv, ReapStep, ReapStart, ReapMetrics, ReapDelay, ReapSave, ReapCrash
  <1>5. ASSUME NEW i \in Instance, SpawnStep(i) \/ SpawnCrash(i)
        PROVE  SpawnInv'
    <2> USE DEF SpawnInv, TypeOK, SpawnGoto
    <2>1. CASE SpawnCredentials(i) \/ SpawnCrash(i)
      BY <2>1 DEF SpawnCredentials, SpawnCrash
    <2>2. CASE SpawnTriggerPipeline(i)
      BY <2>2 DEF SpawnTriggerPipeline
    <2>3. CASE SpawnPipelineFails(i) \/ SpawnRefresh(i)
      BY <2>3 DEF SpawnPipelineFails, SpawnRefresh
    <2>4. CASE SpawnRunTask(i)
      BY <2>4 DEF SpawnRunTask
    <2>5. CASE SpawnSaveTask(i)
      BY <2>5 DEF SpawnSaveTask
    <2>6. CASE SpawnPollIp(i)
      BY <2>6 DEF SpawnPollIp
    <2>7. CASE SpawnCleanup(i)
      BY <2>7 DEF SpawnCleanup
    <2> QED
      BY <1>5, <2>1, <2>2, <2>3, <2>4, <2>5, <2>6, <2>7 DEF SpawnStep
  <1>6. ASSUME NEW i \in Instance, StopTask(i) \/ Environment(i)
        PROVE  SpawnInv'
    BY <1>6 DEF SpawnInv, TypeOK, StopTask, Environment, EcsTaskExits,
                PipelineFinishes, AgeInstance, AgePipeline
  <1> QED
    BY <1>1, <1>2, <1>3, <1>4, <1>5, <1>6 DEF Next, SystemNext, Crash

LEMMA InitInv == Init => LifecycleInv
  <1>1. Init => TypeOK
    BY ConstantsAssumption DEF Init, TypeOK, IdleRequest, RequestAt, RequestType,
       TwoHours, ThreeMinutes
  <1>2. Init => RequestInv /\ SlotInv /\ SpawnInv
    BY ConstantsAssumption
    DEF Init, RequestInv, SlotInv, SpawnInv, IdleRequest, RequestAt, HasRow
  <1> QED
    BY <1>1, <1>2 DEF LifecycleInv

\* The inductive invariant of the lifecycle holds in every reachable state,
\* whatever the number of hosts, instances and concurrent requests, and
\* whatever crashes: it is what OneSpawningPerHost, KeyHolderIsVisible,
\* AddressImpliesStoppable and the refinement follow from.
THEOREM LifecycleInvariance == SafetySpec => []LifecycleInv
  <1>1. LifecycleInv /\ [Next]_vars => LifecycleInv'
    BY TypeStep, RequestStepInv, SlotStepInv, SpawnStepInv DEF LifecycleInv
  <1> QED
    BY InitInv, <1>1, PTL DEF SafetySpec

\* Every column and every process keeps a value of its type (models.py, the
\* fields of ApplicationInstance).
THEOREM TypeCorrect == Spec => []TypeOK
  BY LifecycleInvariance, PTL DEF LifecycleInv, Spec

\* The unique integrity key of ApplicationInstance decides the race of any
\* number of PUTs: a host never has two SPAWNING instances.
THEOREM OneSpawning == Spec => []OneSpawningPerHost
  <1>1. LifecycleInv => OneSpawningPerHost
    BY DEF LifecycleInv, SlotInv, OneSpawningPerHost
  <1> QED
    BY <1>1, LifecycleInvariance, PTL DEF Spec

\* No host is ever locked out by a row that the API does not show: what
\* set_application_stopped writes always frees the key.
THEOREM NeverLockedOut == Spec => []KeyHolderIsVisible
  <1>1. LifecycleInv => KeyHolderIsVisible
    BY ConstantsAssumption DEF LifecycleInv, SlotInv, TypeOK, KeyHolderIsVisible
  <1> QED
    BY <1>1, LifecycleInvariance, PTL DEF Spec

\* FargateSpawner.spawn publishes proxy_url only for a task whose ARN the
\* row records.
THEOREM AddressIsStoppable == Spec => []AddressImpliesStoppable
  <1>1. LifecycleInv => AddressImpliesStoppable
    BY DEF LifecycleInv, SpawnInv, AddressImpliesStoppable
  <1> QED
    BY <1>1, LifecycleInvariance, PTL DEF Spec

\* Both promises of the integrity key together: it is never shared, and never
\* lost (application_api_PUT, set_application_stopped).
THEOREM HostKeyIsSafe == Spec => []HostKeySafety
  BY OneSpawning, NeverLockedOut, PTL DEF HostKeySafety

\* Rows stay well formed, and whatever the proxy may send requests to can be
\* stopped (FargateSpawner.spawn).
THEOREM InstancesAreSafe == Spec => []InstanceSafety
  BY TypeCorrect, AddressIsStoppable, PTL DEF InstanceSafety

\* set_application_stopped releases the slot the instance held, if any.
LEMMA SetStoppedReleases ==
    ASSUME LifecycleInv, NEW i \in Instance, state[i] # "ABSENT", SetStopped(i)
    PROVE  [Slot!Next]_<<held, used>>
  <1> USE ConstantsAssumption DEF LifecycleInv
  <1>1. \A j \in Instance : /\ state'[j] = IF j = i THEN "STOPPED" ELSE state[j]
                            /\ key'[j] = IF j = i THEN i ELSE key[j]
    BY DEF SetStopped, TypeOK
  <1>2. used' = used
    BY <1>1 DEF used
  <1>3. CASE key[i] \in Host
    <2>1. <<key[i], i>> \in held
      BY <1>3 DEF held
    <2>2. held' = held \ {<<key[i], i>>}
      BY <1>1, <1>3 DEF held
    <2> QED
      BY <1>2, <1>3, <2>1, <2>2 DEF Slot!Next, Slot!Release
  <1>4. CASE key[i] \notin Host
    <2>1. held' = held
      BY <1>1, <1>4 DEF held
    <2> QED
      BY <1>2, <2>1
  <1> QED
    BY <1>3, <1>4

\* Every step of the system is a step of the slots, or leaves them alone.
LEMMA SlotStep ==
    ASSUME LifecycleInv, [Next]_vars
    PROVE  [Slot!Next]_<<held, used>>
  <1> USE ConstantsAssumption DEF LifecycleInv, columns, clock, external, HasRow
  <1>1. CASE UNCHANGED <<key, state>>
    BY <1>1 DEF held, used
  <1>2. ASSUME NEW r \in Request, PutCreate(r)
        PROVE  [Slot!Next]_<<held, used>>
    <2>1. req[r].host \in Host /\ ~ KeyTaken(req[r].host)
      BY <1>2 DEF RequestInv, PutCreate
    <2>2. PICK i \in Instance :
            /\ state[i] = "ABSENT"
            /\ state' = [state EXCEPT ![i] = "SPAWNING"]
            /\ key' = [key EXCEPT ![i] = req[r].host]
      BY <1>2 DEF PutCreate
    <2>3. \A j \in Instance :
            /\ state'[j] = IF j = i THEN "SPAWNING" ELSE state[j]
            /\ key'[j] = IF j = i THEN req[r].host ELSE key[j]
      BY <2>2 DEF TypeOK
    <2>4. i \notin used /\ used' = used \cup {i}
      BY <2>2, <2>3 DEF used
    <2>5. key[i] = None
      BY <2>2 DEF SlotInv
    <2>6. held' = held \cup {<<req[r].host, i>>}
      BY <2>1, <2>3, <2>5 DEF held
    <2>7. \A j \in Instance : <<req[r].host, j>> \notin held
      BY <2>1 DEF held, KeyTaken
    <2> QED
      BY <2>1, <2>4, <2>6, <2>7 DEF Slot!Next, Slot!Acquire
  <1>3. ASSUME NEW r \in Request, PatchSave(r)
        PROVE  [Slot!Next]_<<held, used>>
    <2>1. /\ req[r].inst \in Instance /\ state[req[r].inst] # "ABSENT"
          /\ state' = [state EXCEPT ![req[r].inst] = "RUNNING"]
          /\ key' = key
      BY <1>3 DEF RequestInv, PatchSave
    <2> QED
      BY <2>1 DEF held, used, TypeOK
  <1>4. ASSUME NEW r \in Request, StopSave(r)
        PROVE  [Slot!Next]_<<held, used>>
    <2>1. req[r].inst \in Instance /\ state[req[r].inst] # "ABSENT"
      BY <1>4 DEF RequestInv, StopSave
    <2> QED
      BY <1>4, <2>1, SetStoppedReleases DEF StopSave
  <1>5. ASSUME NEW i \in Instance, ReapSave(i)
        PROVE  [Slot!Next]_<<held, used>>
    <2>1. state[i] # "ABSENT"
      BY <1>5 DEF SlotInv, ReapSave
    <2> QED
      BY <1>5, <2>1, SetStoppedReleases DEF ReapSave
  <1>6. ASSUME NEW r \in Request, \E h \in Host : StartRequest(r, h)
        PROVE  UNCHANGED <<key, state>>
    BY <1>6 DEF StartRequest, Get, Put, Patch, Delete, Stop, Lookup
  <1>7. ASSUME NEW r \in Request, RequestStep(r) \/ Return(r) \/ RequestCrash(r)
        PROVE  \/ PutCreate(r) \/ PatchSave(r) \/ StopSave(r)
               \/ UNCHANGED <<key, state>>
    BY <1>7 DEF RequestStep, PutIntegrityError, PutReget, PutDelaySpawn, Describe,
                StopDelay, Return, RequestCrash
  <1>8. ASSUME NEW i \in Instance, ReapStep(i) \/ ReapCrash(i)
        PROVE  ReapSave(i) \/ UNCHANGED <<key, state>>
    BY <1>8 DEF ReapStep, ReapStart, ReapMetrics, ReapDelay, ReapCrash
  <1>9. ASSUME NEW i \in Instance, SpawnStep(i) \/ SpawnCrash(i)
        PROVE  UNCHANGED <<key, state>>
    BY <1>9 DEF SpawnStep, SpawnCredentials, SpawnTriggerPipeline,
                SpawnPipelineFails, SpawnRunTask, SpawnSaveTask, SpawnRefresh,
                SpawnPollIp, SpawnCleanup, SpawnCrash
  <1>10. ASSUME NEW i \in Instance, StopTask(i) \/ Environment(i)
         PROVE  UNCHANGED <<key, state>>
    BY <1>10 DEF StopTask, Environment, EcsTaskExits, PipelineFinishes,
                 AgeInstance, AgePipeline
  <1>11. UNCHANGED vars => UNCHANGED <<key, state>>
    BY DEF vars
  <1> QED
    BY <1>1, <1>2, <1>3, <1>4, <1>5, <1>6, <1>7, <1>8, <1>9, <1>10, <1>11
    DEF Next, SystemNext, Crash

\* The handlers of the API, the reaper and the Celery tasks implement the
\* abstract slot of a host: only the INSERT of application_api_PUT takes it,
\* only set_application_stopped gives it up, an instance holds it at most
\* once, and a late PATCH does not take it back.
THEOREM SlotRefinement == Spec => ImplementsHostSlot
  <1>1. Init => Slot!Init
    BY ConstantsAssumption DEF Init, Slot!Init, held, used
  <1> QED
    BY <1>1, SlotStep, LifecycleInvariance, PTL
    DEF Spec, SafetySpec, ImplementsHostSlot, Slot!Spec
=============================================================================

--------------------------- MODULE ProxyAppProofs ---------------------------
(***************************************************************************)
(* The proxy only ever drives the API as AppLifecycle allows, so that what *)
(* is proved of AppLifecycle holds behind any number of browser tabs.      *)
(***************************************************************************)
EXTENDS MCProxyApp, AppLifecycleProofs

\* Every step of the proxy, of a tab or of the tools page is a step of the
\* lifecycle, or none.
LEMMA ProxyStepIsLifecycleStep ==
    ASSUME TabInv, [ProxyNext]_allVars
    PROVE  [Next]_vars
  <1> USE ProxyAssumption DEF Method
  <1>1. CASE UNCHANGED allVars
    BY <1>1 DEF allVars
  <1>2. ASSUME NEW b \in Browser, NEW h \in Host, Load(b, h)
        PROVE  Next
    BY <1>2 DEF Load, Next, StartRequest
  <1>3. ASSUME NEW b \in Browser, Poll(b) \/ CallDelete(b) \/ CallPut(b)
        PROVE  Next
    <2>1. tab[b].host \in Host
      BY <1>3 DEF Poll, CallDelete, CallPut, TabInv
    <2> QED
      BY <1>3, <2>1 DEF Poll, CallDelete, CallPut, Next, StartRequest
  <1>4. ASSUME NEW b \in Browser, GotGet(b) \/ GotDelete(b) \/ GotPut(b)
        PROVE  Next
    BY <1>4 DEF GotGet, GotDelete, GotPut, Next
  <1>5. ASSUME NEW b \in Browser,
               \/ SpawningPage(b) \/ RunningPage(b) \/ ConnectSpawning(b)
               \/ ConnectSpawningFails(b) \/ ConnectRunning(b)
        PROVE  UNCHANGED vars
    BY <1>5 DEF SpawningPage, RunningPage, ConnectSpawning, ConnectSpawningFails,
                ConnectRunning
  <1>6. ASSUME NEW g \in Background, NEW h \in Host, SendPatch(g, h)
        PROVE  Next
    BY <1>6 DEF SendPatch, Next, StartRequest
  <1>7. ASSUME NEW g \in Background, Return(g)
        PROVE  Next
    BY <1>7 DEF Next
  <1>8. ASSUME NEW r \in Page, Stopper(r)
        PROVE  Next
    BY <1>8 DEF Stopper, Next, StartRequest
  <1>9. SystemNext => Next
    BY DEF Next
  <1> QED
    BY <1>1, <1>2, <1>3, <1>4, <1>5, <1>6, <1>7, <1>8, <1>9 DEF ProxyNext, ProxyStep

\* A tab after TabGoto and after Answer.
LEMMA TabEffect ==
    ASSUME TabInv, NEW b \in Browser, tab[b].host \in Host
    PROVE  /\ \A pc \in {"delete_call", "delete", "put_call", "put", "spawning_page",
                         "running_page", "connect_spawning", "connect_running"},
                 i \in Instance \cup {None} : TabGoto(b, pc, i) => TabInv'
           /\ \A page \in {"spawning", "app", "error"} : Answer(b, page) => TabInv'
  <1> USE DEF TabInv
  <1>1. tab[b] \in TabType
    OBVIOUS
  <1>2. ASSUME NEW t \in TabType, t.host \in Host, tab' = [tab EXCEPT ![b] = t]
        PROVE  TabInv'
    BY <1>2
  <1>3. ASSUME NEW pc \in {"delete_call", "delete", "put_call", "put", "spawning_page",
                           "running_page", "connect_spawning", "connect_running"},
               NEW i \in Instance \cup {None}, TabGoto(b, pc, i)
        PROVE  TabInv'
    <2> DEFINE t == TabAt(pc, tab[b].mode, tab[b].host, tab[b].page, tab[b].polled, i)
    <2>1. t \in TabType /\ t.host \in Host
      BY <1>1 DEF TabAt, TabType
    <2>2. tab' = [tab EXCEPT ![b] = t]
      BY <1>3 DEF TabGoto
    <2> HIDE DEF t
    <2> QED
      BY <1>2, <2>1, <2>2
  <1>4. ASSUME NEW page \in {"spawning", "app", "error"}, Answer(b, page)
        PROVE  TabInv'
    <2> DEFINE shown == CASE tab[b].mode = "load" -> page
                          [] tab[b].mode = "poll" /\ page = "spawning" -> "spawning"
                          [] tab[b].mode = "poll" /\ page # "spawning" -> "reload"
               polled == IF tab[b].mode = "poll" THEN page ELSE "none"
               t == TabAt("idle", tab[b].mode, tab[b].host, shown, polled, None)
    <2>1. tab[b].mode \in {"load", "poll"}
      BY <1>1 DEF TabType
    <2>2. shown \in {"spawning", "app", "error", "reload"}
      BY <2>1
    <2>3. polled \in {"none", "spawning", "app", "error"}
      BY <2>1
    <2>4. tab' = [tab EXCEPT ![b] = t]
      BY <1>4 DEF Answer
    <2> HIDE DEF shown, polled
    <2>5. t \in TabType /\ t.host \in Host
      BY <2>1, <2>2, <2>3 DEF TabAt, TabType
    <2> HIDE DEF t
    <2> QED
      BY <1>2, <2>4, <2>5
  <1> QED
    BY <1>3, <1>4

\* Every step leaves every tab that has been used with its host.
LEMMA TabStep ==
    ASSUME TypeOK, TabInv, [ProxyNext]_allVars
    PROVE  TabInv'
  <1> USE ProxyAssumption
  <1>1. CASE UNCHANGED tab
    BY <1>1 DEF TabInv
  <1>2. ASSUME NEW b \in Browser, NEW h \in Host, Load(b, h)
        PROVE  TabInv'
    <2> DEFINE polled == IF tab[b].page = "reload" THEN tab[b].polled ELSE "none"
               t == TabAt("get", "load", h, tab[b].page, polled, None)
    <2>1. tab[b] \in TabType
      BY DEF TabInv
    <2>2. t \in TabType /\ t.host \in Host
      BY <2>1 DEF TabAt, TabType
    <2>3. tab' = [tab EXCEPT ![b] = t]
      BY <1>2 DEF Load
    <2> HIDE DEF t
    <2> QED
      BY <2>2, <2>3 DEF TabInv
  <1>3. ASSUME NEW b \in Browser, Poll(b)
        PROVE  TabInv'
    <2> DEFINE t == TabAt("get", "poll", tab[b].host, "spawning", "none", None)
    <2>1. tab[b].host \in Host
      BY <1>3 DEF Poll, TabInv
    <2>2. t \in TabType /\ t.host \in Host
      BY <2>1 DEF TabAt, TabType
    <2>3. tab' = [tab EXCEPT ![b] = t]
      BY <1>3 DEF Poll
    <2> HIDE DEF t
    <2> QED
      BY <2>2, <2>3 DEF TabInv
  <1>4. ASSUME NEW b \in Browser, ProxyStep(b)
        PROVE  TabInv'
    <2>1. tab[b].host \in Host /\ tab[b].saw \in Instance \cup {None}
      BY <1>4 DEF TabInv, TabType, ProxyStep, GotGet, CallDelete, GotDelete, CallPut,
                  GotPut, Answered, SpawningPage, RunningPage, ConnectSpawning,
                  ConnectSpawningFails, ConnectRunning
    <2>2. req[b].inst \in Instance \cup {None}
      BY DEF TypeOK, RequestType
    <2>3. Route(b) => TabInv'
      BY <2>1, <2>2, TabEffect DEF Route
    <2>4. CASE GotGet(b) \/ GotDelete(b) \/ GotPut(b)
      BY <2>1, <2>2, <2>3, <2>4, TabEffect DEF GotGet, GotDelete, GotPut
    <2>5. CASE CallDelete(b) \/ CallPut(b)
      BY <2>1, <2>5, TabEffect DEF CallDelete, CallPut
    <2>6. CASE SpawningPage(b) \/ RunningPage(b)
      BY <2>1, <2>6, TabEffect DEF SpawningPage, RunningPage
    <2>7. CASE ConnectSpawning(b) \/ ConnectSpawningFails(b) \/ ConnectRunning(b)
      BY <2>1, <2>7, TabEffect DEF ConnectSpawning, ConnectSpawningFails, ConnectRunning
    <2> QED
      BY <1>4, <2>4, <2>5, <2>6, <2>7 DEF ProxyStep
  <1>5. ASSUME NEW g \in Background, NEW h \in Host, SendPatch(g, h)
        PROVE  UNCHANGED tab
    BY <1>5 DEF SendPatch
  <1> QED
    BY <1>1, <1>2, <1>3, <1>4, <1>5 DEF ProxyNext, proxyVars, allVars

\* Tabs, proxy, tools page, API, Celery and reaper together only do what
\* AppLifecycle allows: handle_application never reaches the API in a way
\* that the invariants of the lifecycle do not cover.
LEMMA ProxyRefinesLifecycle == ProxySpec => SafetySpec
  <1>1. ProxyInit => LifecycleInv /\ TabInv
    <2>1. ProxyInit => TabInv
      BY DEF ProxyInit, TabInv, ClosedTab, TabAt, TabType
    <2> QED
      BY <2>1, InitInv DEF ProxyInit
  <1>2. LifecycleInv /\ TabInv /\ [ProxyNext]_allVars => LifecycleInv' /\ TabInv'
    <2> SUFFICES ASSUME LifecycleInv, TabInv, [ProxyNext]_allVars
                 PROVE  LifecycleInv' /\ TabInv'
      OBVIOUS
    <2>1. TypeOK /\ RequestInv /\ SlotInv /\ SpawnInv
      BY DEF LifecycleInv
    <2>2. [Next]_vars
      BY ProxyStepIsLifecycleStep
    <2>3. TypeOK' /\ RequestInv' /\ SlotInv' /\ SpawnInv'
      BY <2>1, <2>2, TypeStep, RequestStepInv, SlotStepInv, SpawnStepInv
    <2> QED
      BY <2>1, <2>3, TabStep DEF LifecycleInv
  <1>3. LifecycleInv /\ TabInv /\ [ProxyNext]_allVars => [Next]_vars
    BY ProxyStepIsLifecycleStep
  <1>4. ProxyInit => Init
    BY DEF ProxyInit
  <1> QED
    BY <1>1, <1>2, <1>3, <1>4, PTL DEF ProxySpec, SafetySpec

\* Behind any number of tabs, loads, polls and late PATCHes, a host never has
\* two SPAWNING instances, and is never locked out by a row that the API does not
\* show.
THEOREM HostKeyIsSafeBehindProxy == ProxySpec => []HostKeySafety
  <1>1. LifecycleInv => HostKeySafety
    BY ConstantsAssumption
    DEF LifecycleInv, SlotInv, TypeOK, KeyHolderIsVisible, OneSpawningPerHost,
        HostKeySafety, VisibleStates
  <1> QED
    BY <1>1, ProxyRefinesLifecycle, LifecycleInvariance, PTL

(***************************************************************************)
(* What a request of the API may do to its own state.                      *)
(***************************************************************************)
\* CallInv, of the record of one request.
InItsCall(q) ==
    /\ q.pc \in {"create", "reget", "delay_spawn"} => q.op = "PUT"
    /\ q.pc = "patch" => q.op = "PATCH"
    /\ q.pc \in {"delay_stop", "save"} => q.op \in {"DELETE", "STOP"}
    /\ q.pc = "done" /\ q.status = 200 /\ q.op \in {"GET", "PUT"} => q.inst \in Instance

\* What starting an operation leaves in the request.
Started(r, h, op) ==
    /\ \A q \in Request \ {r} : req'[q] = req[q]
    /\ req[r].pc = "idle" /\ req'[r].pc # "idle" /\ req'[r].op = op
    /\ InItsCall(req'[r])
    /\ Visible(h) # {} /\ req'[r].pc = "done" => req'[r].status # 404

\* A step of an operation, or a crash, between its start and its reply.
Proceeds(r) ==
    /\ \A q \in Request \ {r} : req'[q] = req[q]
    /\ req[r].pc # "idle" /\ req'[r].pc # "idle" /\ req'[r].op = req[r].op
    /\ InItsCall(req'[r])
    /\ req'[r].pc = "done" /\ req[r].pc # "done" => req'[r].status # 404
    /\ req[r].pc # "done"

\* One request's record is replaced.
LEMMA RequestReplaced ==
    ASSUME TypeOK, NEW r \in Request, NEW v, req' = [req EXCEPT ![r] = v]
    PROVE  req'[r] = v /\ \A q \in Request \ {r} : req'[q] = req[q]
  <1>1. DOMAIN req = Request
    BY DEF TypeOK
  <1> QED
    BY <1>1

\* A request that Reply ends.
LEMMA Replied ==
    ASSUME TypeOK, NEW r \in Request, NEW op, NEW h, NEW status, Reply(r, op, h, status),
           status = 200 => op \notin {"GET", "PUT"}
    PROVE  /\ \A q \in Request \ {r} : req'[q] = req[q]
           /\ req'[r].pc = "done" /\ req'[r].op = op /\ req'[r].status = status
           /\ InItsCall(req'[r])
  <1> DEFINE v == RequestAt("done", op, h, None, None, status)
  <1>1. v.pc = "done" /\ v.op = op /\ v.status = status
    BY DEF RequestAt
  <1>2. req' = [req EXCEPT ![r] = v]
    BY DEF Reply
  <1> HIDE DEF v
  <1>3. req'[r] = v /\ \A q \in Request \ {r} : req'[q] = req[q]
    BY <1>2, RequestReplaced
  <1> QED
    BY <1>1, <1>3 DEF InItsCall

\* A request that Goto moves on.
LEMMA Moved ==
    ASSUME TypeOK, NEW r \in Request, NEW op, NEW h, NEW pc, NEW i, NEW seen,
           Goto(r, op, h, pc, i, seen), pc \notin {"done", "idle"},
           pc \in {"create", "reget", "delay_spawn"} => op = "PUT",
           pc = "patch" => op = "PATCH",
           pc \in {"delay_stop", "save"} => op \in {"DELETE", "STOP"}
    PROVE  /\ \A q \in Request \ {r} : req'[q] = req[q]
           /\ req'[r].pc = pc /\ req'[r].op = op
           /\ InItsCall(req'[r])
  <1> DEFINE v == RequestAt(pc, op, h, i, seen, 0)
  <1>1. v.pc = pc /\ v.op = op
    BY DEF RequestAt
  <1>2. req' = [req EXCEPT ![r] = v]
    BY DEF Goto
  <1> HIDE DEF v
  <1>3. req'[r] = v /\ \A q \in Request \ {r} : req'[q] = req[q]
    BY <1>2, RequestReplaced
  <1> QED
    BY <1>1, <1>3 DEF InItsCall

\* Every handler but PUT starts with Lookup.
LEMMA LookupStarts ==
    ASSUME TypeOK, NEW r \in Request, NEW h, NEW op, NEW missing, NEW pc,
           Lookup(r, op, h, missing, pc),
           pc \notin {"done", "idle", "create", "reget", "delay_spawn"},
           pc = "patch" => op = "PATCH",
           pc \in {"delay_stop", "save"} => op \in {"DELETE", "STOP"},
           missing = 200 => op \notin {"GET", "PUT"}
    PROVE  Started(r, h, op)
  <1>1. req[r].pc = "idle"
    BY DEF Lookup
  <1>2. CASE Visible(h) = {} /\ Reply(r, op, h, missing)
    BY <1>1, <1>2, Replied DEF Started
  <1>3. CASE Ambiguous(h) /\ Reply(r, op, h, 500)
    <2> DEFINE status == 500
    <2>1. Reply(r, op, h, status) /\ status # 200 /\ status # 404
      BY <1>3
    <2> HIDE DEF status
    <2> QED
      BY <1>1, <2>1, Replied DEF Started
  <1>4. ASSUME NEW i \in Instance,
               Goto(r, op, h, pc, i, IF op = "GET" THEN RowOf(i) ELSE None)
        PROVE  Started(r, h, op)
    <2> DEFINE seen == IF op = "GET" THEN RowOf(i) ELSE None
    <2>1. Goto(r, op, h, pc, i, seen)
      BY <1>4
    <2> HIDE DEF seen
    <2> QED
      BY <1>1, <2>1, Moved DEF Started
  <1> QED
    BY <1>2, <1>3, <1>4 DEF Lookup

\* The five operations, as they start.
LEMMA CallStarts ==
    ASSUME TypeOK, NEW r \in Request, NEW h
    PROVE  /\ Get(r, h) => Started(r, h, "GET")
           /\ Patch(r, h) => Started(r, h, "PATCH")
           /\ Delete(r, h) => Started(r, h, "DELETE")
           /\ Stop(r, h) => Started(r, h, "STOP")
           /\ Put(r, h) => Started(r, h, "PUT")
  <1>1. Get(r, h) => Started(r, h, "GET")
    BY LookupStarts DEF Get
  <1>2. Patch(r, h) => Started(r, h, "PATCH")
    BY LookupStarts DEF Patch
  <1>3. Delete(r, h) => Started(r, h, "DELETE")
    BY LookupStarts DEF Delete
  <1>4. Stop(r, h) => Started(r, h, "STOP")
    BY LookupStarts DEF Stop
  <1>5. ASSUME Put(r, h)
        PROVE  Started(r, h, "PUT")
    <2>1. PICK op, pc, none : op = "PUT" /\ pc = "create" /\ none = None
      OBVIOUS
    <2>2. PICK conflict, error : conflict = 409 /\ error = 500
      OBVIOUS
    <2>3. /\ req[r].pc = "idle"
          /\ \/ Goto(r, op, h, pc, none, none)
             \/ Reply(r, op, h, conflict)
             \/ Reply(r, op, h, error)
      BY <1>5, <2>1, <2>2 DEF Put
    <2>4. CASE Goto(r, op, h, pc, none, none)
      BY <2>1, <2>3, <2>4, Moved DEF Started
    <2>5. CASE Reply(r, op, h, conflict)
      BY <2>1, <2>2, <2>3, <2>5, Replied DEF Started
    <2>6. CASE Reply(r, op, h, error)
      BY <2>1, <2>2, <2>3, <2>6, Replied DEF Started
    <2> QED
      BY <2>3, <2>4, <2>5, <2>6
  <1> QED
    BY <1>1, <1>2, <1>3, <1>4, <1>5

\* A step in the middle of an operation, or a crash, goes on with that operation.
LEMMA CallProceeds ==
    ASSUME TypeOK, RequestInv, CallInv, NEW r \in Request,
           RequestStep(r) \/ RequestCrash(r)
    PROVE  Proceeds(r)
  <1>1. /\ req[r].pc \in {"create", "reget", "delay_spawn"} => req[r].op = "PUT"
        /\ req[r].pc = "patch" => req[r].op = "PATCH"
        /\ req[r].pc \in {"delay_stop", "save"} => req[r].op \in {"DELETE", "STOP"}
    BY DEF CallInv
  <1>2. CASE PutCreate(r)
    <2>1. PICK op, pc, seen, h : /\ op = "PUT" /\ pc = "delay_spawn" /\ seen = NewRow
                                 /\ h = req[r].host
      OBVIOUS
    <2>2. PICK i \in Instance : Goto(r, op, h, pc, i, seen)
      BY <1>2, <2>1 DEF PutCreate
    <2>3. req[r].pc = "create"
      BY <1>2 DEF PutCreate
    <2> QED
      BY <1>1, <2>1, <2>2, <2>3, Moved DEF Proceeds
  <1>3. CASE PutReget(r)
    <2>1. PICK op, pc, h : op = "PUT" /\ pc = "describe" /\ h = req[r].host
      OBVIOUS
    <2>2. PICK error : error = 500
      OBVIOUS
    <2>3. \/ \E i \in Instance : \E seen : Goto(r, op, h, pc, i, seen)
          \/ Reply(r, op, h, error)
      BY <1>3, <2>1, <2>2 DEF PutReget
    <2>4. req[r].pc = "reget"
      BY <1>3 DEF PutReget
    <2>5. ASSUME NEW i \in Instance, NEW seen, Goto(r, op, h, pc, i, seen)
          PROVE  Proceeds(r)
      BY <1>1, <2>1, <2>4, <2>5, Moved DEF Proceeds
    <2>6. CASE Reply(r, op, h, error)
      BY <1>1, <2>1, <2>2, <2>4, <2>6, Replied DEF Proceeds
    <2> QED
      BY <2>3, <2>5, <2>6
  <1>4. ASSUME NEW pc \in {"describe", "reget", "save"}, NEW from \in {"create", "delay_spawn", "delay_stop"},
               req[r].pc = from,
               pc = "reget" => from = "create", pc = "save" => from = "delay_stop",
               req' = [req EXCEPT ![r].pc = pc]
        PROVE  Proceeds(r)
    <2>1. /\ \A q \in Request \ {r} : req'[q] = req[q]
          /\ req'[r].pc = pc /\ req'[r].op = req[r].op
      BY <1>4, MoveEffect
    <2> QED
      BY <1>1, <1>4, <2>1 DEF Proceeds, InItsCall
  <1>5. CASE PutIntegrityError(r)
    BY <1>4, <1>5 DEF PutIntegrityError
  <1>6. CASE PutDelaySpawn(r)
    BY <1>4, <1>6 DEF PutDelaySpawn
  <1>7. CASE StopDelay(r)
    BY <1>4, <1>7 DEF StopDelay
  <1>8. CASE Describe(r)
    <2>1. PICK s \in {"RUNNING", "STOPPED"} :
            req' = [req EXCEPT ![r] = ApplicationDict(req[r], s)]
      BY <1>8 DEF Describe
    <2> DEFINE v == ApplicationDict(req[r], s)
    <2>2. req[r].pc = "describe" /\ req[r].inst \in Instance
      BY <1>8 DEF Describe, RequestInv, HasRow
    <2>3. v.pc = "done" /\ v.op = req[r].op /\ v.status = 200 /\ v.inst = req[r].inst
      BY DEF ApplicationDict
    <2> HIDE DEF v
    <2>4. req'[r] = v /\ \A q \in Request \ {r} : req'[q] = req[q]
      BY <2>1, RequestReplaced DEF v
    <2> QED
      BY <2>2, <2>3, <2>4 DEF Proceeds, InItsCall
  <1>9. CASE PatchSave(r) \/ StopSave(r)
    <2>1. PICK op, h, status : op = req[r].op /\ h = req[r].host /\ status = 200
      OBVIOUS
    <2>2. req[r].pc \in {"patch", "save"} /\ Reply(r, op, h, status)
      BY <1>9, <2>1 DEF PatchSave, StopSave
    <2>3. op \notin {"GET", "PUT"}
      BY <1>1, <2>1, <2>2
    <2> QED
      BY <2>1, <2>2, <2>3, Replied DEF Proceeds
  <1>10. CASE RequestCrash(r)
    <2>1. PICK op, h, status : op = req[r].op /\ h = req[r].host /\ status = 500
      OBVIOUS
    <2>2. req[r].pc \notin {"idle", "done"} /\ Reply(r, op, h, status)
      BY <1>10, <2>1 DEF RequestCrash
    <2> QED
      BY <2>1, <2>2, Replied DEF Proceeds
  <1> QED
    BY <1>2, <1>3, <1>5, <1>6, <1>7, <1>8, <1>9, <1>10 DEF RequestStep

\* The client takes the reply.
LEMMA CallReturns ==
    ASSUME TypeOK, NEW r \in Request, Return(r)
    PROVE  /\ \A q \in Request \ {r} : req'[q] = req[q]
           /\ req[r].pc = "done" /\ req'[r].pc = "idle"
           /\ InItsCall(req'[r])
  <1> DEFINE v == IdleRequest
  <1>1. v.pc = "idle"
    BY DEF IdleRequest, RequestAt
  <1> HIDE DEF v
  <1>2. req'[r] = v /\ \A q \in Request \ {r} : req'[q] = req[q]
    BY RequestReplaced DEF Return, v
  <1> QED
    BY <1>1, <1>2 DEF InItsCall, Return

\* The reaper, Celery, the external systems and time leave requests alone.
LEMMA OthersKeepRequests ==
    ASSUME NEW i \in Instance,
           \/ ReapStep(i) \/ SpawnStep(i) \/ StopTask(i) \/ Environment(i)
           \/ ReapCrash(i) \/ SpawnCrash(i)
    PROVE  UNCHANGED req
  BY DEF ReapStep, ReapStart, ReapMetrics, ReapDelay, ReapSave, ReapCrash, SpawnStep,
         SpawnCredentials, SpawnTriggerPipeline, SpawnPipelineFails, SpawnRunTask,
         SpawnSaveTask, SpawnRefresh, SpawnPollIp, SpawnCleanup, SpawnCrash, StopTask,
         Environment, EcsTaskExits, PipelineFinishes, AgeInstance, AgePipeline

\* A step of the system moves at most one request, on with its operation.
LEMMA SystemMovesRequests ==
    ASSUME TypeOK, RequestInv, CallInv, SystemNext
    PROVE  UNCHANGED req \/ \E r \in Request : Proceeds(r)
  BY CallProceeds, OthersKeepRequests DEF SystemNext, Crash

\* An operation goes from step to step of its own method (apps/api_v1/views.py).
LEMMA CallStep ==
    ASSUME TypeOK, RequestInv, CallInv, [Next]_vars
    PROVE  CallInv'
  <1>1. ASSUME NEW r \in Request, \A q \in Request \ {r} : req'[q] = req[q],
               InItsCall(req'[r])
        PROVE  CallInv'
    BY <1>1 DEF CallInv, InItsCall
  <1>2. CASE UNCHANGED req
    BY <1>2 DEF CallInv
  <1>3. ASSUME NEW r \in Request, NEW h \in Host, StartRequest(r, h)
        PROVE  CallInv'
    BY <1>1, <1>3, CallStarts DEF StartRequest, Started
  <1>4. ASSUME NEW r \in Request, Return(r)
        PROVE  CallInv'
    BY <1>1, <1>4, CallReturns
  <1>5. ASSUME SystemNext
        PROVE  CallInv'
    BY <1>1, <1>2, <1>5, SystemMovesRequests DEF Proceeds
  <1> QED
    BY <1>2, <1>3, <1>4, <1>5 DEF Next, vars

(***************************************************************************)
(* What a step may do to a tab, and to the request it waits for.           *)
(***************************************************************************)
Waiting == {"get", "delete", "put"}
Aimed == {"connect_spawning", "connect_running", "delete_call"}

\* A tab and its request are in step: ProxyTypeOK and TabCallInv, of one tab.
InStep(t, q) ==
    /\ t.pc \in Waiting <=> q.pc # "idle"
    /\ t.pc = "get" => q.op = "GET"
    /\ t.pc = "delete" => q.op = "DELETE"
    /\ t.pc = "put" => q.op = "PUT"
    /\ t.pc \in Aimed => t.saw \in Instance

AllInStep == \A b \in Browser : InStep(tab[b], req[b])

OnlyTab(b) == \A c \in Browser \ {b} : tab'[c] = tab[c]

\* The tab goes on with its request.
TabGoes(b, pc, i) ==
    /\ OnlyTab(b)
    /\ tab'[b].pc = pc /\ tab'[b].saw = i
    /\ tab'[b].mode = tab[b].mode /\ tab'[b].host = tab[b].host
    /\ tab'[b].page = tab[b].page /\ tab'[b].polled = tab[b].polled

\* The tab is answered.
TabEnds(b, page) ==
    /\ OnlyTab(b)
    /\ tab'[b].pc = "idle" /\ tab'[b].host = tab[b].host
    /\ tab[b].mode = "load" => tab'[b].page = page /\ tab'[b].polled = "none"
    /\ tab[b].mode = "poll" /\ page = "spawning" => tab'[b].page = "spawning"

LEMMA TabReplaced ==
    ASSUME TabInv, NEW b \in Browser, NEW t, tab' = [tab EXCEPT ![b] = t]
    PROVE  tab'[b] = t /\ OnlyTab(b)
  <1>1. DOMAIN tab = Browser
    BY DEF TabInv
  <1> QED
    BY <1>1 DEF OnlyTab

LEMMA GotoMoves ==
    ASSUME TabInv, NEW b \in Browser, NEW pc, NEW i, TabGoto(b, pc, i)
    PROVE  TabGoes(b, pc, i)
  <1> DEFINE t == TabAt(pc, tab[b].mode, tab[b].host, tab[b].page, tab[b].polled, i)
  <1>1. /\ t.pc = pc /\ t.saw = i /\ t.mode = tab[b].mode /\ t.host = tab[b].host
        /\ t.page = tab[b].page /\ t.polled = tab[b].polled
    BY DEF TabAt
  <1>2. tab' = [tab EXCEPT ![b] = t]
    BY DEF TabGoto
  <1> HIDE DEF t
  <1>3. tab'[b] = t /\ OnlyTab(b)
    BY <1>2, TabReplaced
  <1> QED
    BY <1>1, <1>3 DEF TabGoes

LEMMA AnswerEnds ==
    ASSUME TabInv, NEW b \in Browser, NEW page, Answer(b, page)
    PROVE  TabEnds(b, page)
  <1> DEFINE shown == CASE tab[b].mode = "load" -> page
                        [] tab[b].mode = "poll" /\ page = "spawning" -> "spawning"
                        [] tab[b].mode = "poll" /\ page # "spawning" -> "reload"
             polled == IF tab[b].mode = "poll" THEN page ELSE "none"
             t == TabAt("idle", tab[b].mode, tab[b].host, shown, polled, None)
  <1>1. /\ t.pc = "idle" /\ t.host = tab[b].host /\ t.page = shown /\ t.polled = polled
    BY DEF TabAt
  <1>2. tab' = [tab EXCEPT ![b] = t]
    BY DEF Answer
  <1>3. tab[b].mode = "load" => shown = page /\ polled = "none"
    OBVIOUS
  <1>4. tab[b].mode = "poll" /\ page = "spawning" => shown = "spawning"
    OBVIOUS
  <1> HIDE DEF t, shown, polled
  <1>5. tab'[b] = t /\ OnlyTab(b)
    BY <1>2, TabReplaced
  <1> QED
    BY <1>1, <1>3, <1>4, <1>5 DEF TabEnds

\* The browser's two requests.
LEMMA LoadEffect ==
    ASSUME TypeOK, TabInv, NEW b \in Browser, NEW h \in Host, Load(b, h)
    PROVE  /\ OnlyTab(b) /\ Started(b, h, "GET")
           /\ tab[b].pc = "idle" /\ tab[b].page = "reload" => tab[b].host = h
           /\ tab'[b].pc = "get" /\ tab'[b].mode = "load" /\ tab'[b].host = h
           /\ tab[b].page # "reload" => tab'[b].polled = "none"
  <1> DEFINE polled == IF tab[b].page = "reload" THEN tab[b].polled ELSE "none"
             t == TabAt("get", "load", h, tab[b].page, polled, None)
  <1>1. t.pc = "get" /\ t.mode = "load" /\ t.host = h /\ t.polled = polled
    BY DEF TabAt
  <1>2. tab' = [tab EXCEPT ![b] = t] /\ Get(b, h)
    BY DEF Load
  <1>3. tab[b].page # "reload" => polled = "none"
    OBVIOUS
  <1> HIDE DEF t, polled
  <1>4. tab'[b] = t /\ OnlyTab(b)
    BY <1>2, TabReplaced
  <1>5. b \in Request
    BY ProxyAssumption
  <1>6. Started(b, h, "GET")
    BY <1>2, <1>5, CallStarts
  <1> QED
    BY <1>1, <1>3, <1>4, <1>6 DEF Load

LEMMA PollEffect ==
    ASSUME TypeOK, TabInv, NEW b \in Browser, Poll(b)
    PROVE  /\ OnlyTab(b) /\ Started(b, tab[b].host, "GET")
           /\ tab[b].pc = "idle" /\ tab[b].page = "spawning"
           /\ tab'[b].pc = "get" /\ tab'[b].host = tab[b].host
           /\ tab'[b].polled = "none"
  <1> DEFINE t == TabAt("get", "poll", tab[b].host, "spawning", "none", None)
  <1>1. t.pc = "get" /\ t.host = tab[b].host /\ t.polled = "none"
    BY DEF TabAt
  <1>2. tab' = [tab EXCEPT ![b] = t] /\ Get(b, tab[b].host)
    BY DEF Poll
  <1> HIDE DEF t
  <1>3. tab'[b] = t /\ OnlyTab(b)
    BY <1>2, TabReplaced
  <1>4. b \in Request
    BY ProxyAssumption
  <1>5. Started(b, tab[b].host, "GET")
    BY <1>2, <1>4, CallStarts
  <1> QED
    BY <1>1, <1>3, <1>5 DEF Poll

\* A step of one tab and its request leaves all tabs in step if that one is.
LEMMA OneTabMoves ==
    ASSUME AllInStep, NEW b \in Browser, OnlyTab(b),
           \A q \in Request \ {b} : req'[q] = req[q],
           InStep(tab'[b], req'[b])
    PROVE  AllInStep'
  BY ProxyAssumption DEF AllInStep, OnlyTab

Pages == {"spawning_page", "running_page", "connect_spawning", "connect_running"}

\* Where Route sends a tab, it knows the instance.
LEMMA RouteMoves ==
    ASSUME TypeOK, CallInv, TabInv, NEW b \in Browser, IsUp(b), Route(b),
           req[b].pc = "done", req[b].op \in {"GET", "PUT"}
    PROVE  \E pc \in Pages, i \in Instance : TabGoes(b, pc, i)
  <1>1. req[b].inst \in Instance
    BY ProxyAssumption DEF CallInv, IsUp
  <1>2. PICK pc \in Pages : TabGoto(b, pc, req[b].inst)
    BY DEF Route, Pages
  <1>3. TabGoes(b, pc, req[b].inst)
    BY <1>2, GotoMoves
  <1> QED
    BY <1>1, <1>3

\* What the proxy does with a GET's answer.
LEMMA GotGetMoves ==
    ASSUME TypeOK, CallInv, TabInv, AllInStep, NEW b \in Browser, GotGet(b)
    PROVE  \/ \E pc \in Pages, i \in Instance : TabGoes(b, pc, i)
           \/ /\ tab[b].mode = "load"
              /\ \E i \in Instance : TabGoes(b, "delete_call", i)
           \/ /\ tab[b].mode = "load" /\ req[b].status = 404
              /\ TabGoes(b, "put_call", None)
           \/ TabEnds(b, "error")
  <1>1. tab[b].pc = "get" /\ req[b].pc = "done" /\ req[b].op = "GET"
    BY DEF GotGet, Answered, AllInStep, InStep
  <1>2. CASE IsUp(b) /\ Route(b)
    BY <1>1, <1>2, RouteMoves
  <1>3. CASE req[b].status = 200 /\ tab[b].mode = "load" /\ TabGoto(b, "delete_call", req[b].inst)
    <2>1. req[b].inst \in Instance
      BY <1>1, <1>3, ProxyAssumption DEF CallInv
    <2>2. TabGoes(b, "delete_call", req[b].inst)
      BY <1>3, GotoMoves
    <2> QED
      BY <1>3, <2>1, <2>2
  <1>4. CASE req[b].status = 404 /\ tab[b].mode = "load" /\ TabGoto(b, "put_call", None)
    BY <1>4, GotoMoves
  <1>5. CASE Answer(b, "error")
    BY <1>5, AnswerEnds
  <1> QED
    BY <1>2, <1>3, <1>4, <1>5 DEF GotGet

\* The three answers of the API.
LEMMA GotMoves ==
    ASSUME TypeOK, CallInv, TabInv, AllInStep, NEW b \in Browser,
           GotGet(b) \/ GotDelete(b) \/ GotPut(b)
    PROVE  AllInStep'
  <1>1. \A q \in Request \ {b} : req'[q] = req[q]
    BY CallReturns, ProxyAssumption DEF GotGet, GotDelete, GotPut
  <1>2. req'[b].pc = "idle"
    BY CallReturns, ProxyAssumption DEF GotGet, GotDelete, GotPut
  <1>3. ASSUME NEW pc \in Pages \cup {"delete_call"}, NEW i \in Instance, TabGoes(b, pc, i)
        PROVE  AllInStep'
    <2>1. OnlyTab(b) /\ tab'[b].pc = pc /\ tab'[b].saw = i
      BY <1>3 DEF TabGoes
    <2>2. InStep(tab'[b], req'[b])
      BY <1>2, <2>1 DEF InStep, Waiting, Aimed, Pages
    <2> QED
      BY <1>1, <2>1, <2>2, OneTabMoves
  <1>4. ASSUME TabGoes(b, "put_call", None)
        PROVE  AllInStep'
    <2>1. OnlyTab(b) /\ tab'[b].pc = "put_call"
      BY <1>4 DEF TabGoes
    <2>2. InStep(tab'[b], req'[b])
      BY <1>2, <2>1 DEF InStep, Waiting, Aimed
    <2> QED
      BY <1>1, <2>1, <2>2, OneTabMoves
  <1>5. ASSUME TabEnds(b, "error")
        PROVE  AllInStep'
    <2>1. OnlyTab(b) /\ tab'[b].pc = "idle"
      BY <1>5 DEF TabEnds
    <2>2. InStep(tab'[b], req'[b])
      BY <1>2, <2>1 DEF InStep, Waiting, Aimed
    <2> QED
      BY <1>1, <2>1, <2>2, OneTabMoves
  <1>6. CASE GotGet(b)
    BY <1>3, <1>4, <1>5, <1>6, GotGetMoves
  <1>7. CASE GotDelete(b)
    <2>1. TabEnds(b, "error")
      BY <1>7, AnswerEnds DEF GotDelete
    <2> QED
      BY <1>5, <2>1
  <1>8. CASE GotPut(b)
    <2>1. tab[b].pc = "put" /\ req[b].pc = "done" /\ req[b].op = "PUT"
      BY <1>8 DEF GotPut, Answered, AllInStep, InStep
    <2>2. CASE IsUp(b) /\ Route(b)
      BY <1>3, <2>1, <2>2, RouteMoves
    <2>3. CASE Answer(b, "error")
      BY <1>5, <2>3, AnswerEnds
    <2> QED
      BY <1>8, <2>2, <2>3 DEF GotPut
  <1> QED
    BY <1>6, <1>7, <1>8

\* The steps of a tab that is not waiting for the API.
LEMMA PageMoves ==
    ASSUME TypeOK, TabInv, NEW b \in Browser,
           \/ SpawningPage(b) \/ RunningPage(b) \/ ConnectSpawning(b)
           \/ ConnectSpawningFails(b) \/ ConnectRunning(b)
    PROVE  /\ tab[b].pc \in Pages
           /\ \/ \E page \in {"app", "error"} : TabEnds(b, page)
              \/ TabEnds(b, "spawning") /\ Visible(tab[b].host) # {}
              \/ TabGoes(b, "spawning_page", tab[b].saw)
           /\ UNCHANGED vars
  <1>1. tab[b].pc \in Pages /\ UNCHANGED vars
    BY DEF SpawningPage, RunningPage, ConnectSpawning, ConnectSpawningFails,
           ConnectRunning, Pages
  <1>2. CASE SpawningPage(b)
    <2>1. CASE \E i \in Instance : Visible(tab[b].host) = {i}
      <3>1. Answer(b, "spawning") /\ Visible(tab[b].host) # {}
        BY <1>2, <2>1 DEF SpawningPage
      <3> QED
        BY <1>1, <3>1, AnswerEnds
    <2>2. CASE ~ \E i \in Instance : Visible(tab[b].host) = {i}
      <3>1. Answer(b, "error")
        BY <1>2, <2>2 DEF SpawningPage
      <3> QED
        BY <1>1, <3>1, AnswerEnds
    <2> QED
      BY <2>1, <2>2
  <1>3. ASSUME NEW page \in {"app", "error"}, Answer(b, page)
        PROVE  TabEnds(b, page)
    BY <1>3, AnswerEnds
  <1>4. CASE RunningPage(b) \/ ConnectSpawning(b) \/ ConnectRunning(b)
    <2>1. \E page \in {"app", "error"} : Answer(b, page)
      BY <1>4 DEF RunningPage, ConnectSpawning, ConnectRunning
    <2> QED
      BY <1>1, <1>3, <2>1
  <1>5. CASE ConnectSpawningFails(b)
    BY <1>1, <1>5, GotoMoves DEF ConnectSpawningFails
  <1> QED
    BY <1>2, <1>4, <1>5

\* Every step leaves every tab in step with its request (handle_application).
LEMMA InStepStep ==
    ASSUME TypeOK, RequestInv, CallInv, TabInv, AllInStep, [ProxyNext]_allVars
    PROVE  AllInStep'
  <1> USE ProxyAssumption
  <1>1. CASE UNCHANGED allVars
    BY <1>1 DEF AllInStep, allVars, vars, proxyVars
  <1>2. ASSUME NEW b \in Browser, (\E h \in Host : Load(b, h)) \/ Poll(b)
        PROVE  AllInStep'
    <2>1. /\ OnlyTab(b) /\ tab'[b].pc = "get"
          /\ \E h : Started(b, h, "GET")
      BY <1>2, LoadEffect, PollEffect
    <2>2. /\ \A q \in Request \ {b} : req'[q] = req[q]
          /\ req'[b].pc # "idle" /\ req'[b].op = "GET"
      BY <2>1 DEF Started
    <2>3. InStep(tab'[b], req'[b])
      BY <2>1, <2>2 DEF InStep, Waiting, Aimed
    <2> QED
      BY <2>1, <2>2, <2>3, OneTabMoves
  <1>3. ASSUME NEW b \in Browser, CallDelete(b)
        PROVE  AllInStep'
    <2>1. Started(b, tab[b].host, "DELETE")
      BY <1>3, CallStarts DEF CallDelete
    <2>2. TabGoes(b, "delete", tab[b].saw)
      BY <1>3, GotoMoves DEF CallDelete
    <2>3. InStep(tab'[b], req'[b])
      BY <2>1, <2>2 DEF InStep, Waiting, Aimed, Started, TabGoes
    <2> QED
      BY <2>1, <2>2, <2>3, OneTabMoves DEF Started, TabGoes
  <1>4. ASSUME NEW b \in Browser, CallPut(b)
        PROVE  AllInStep'
    <2>1. Started(b, tab[b].host, "PUT")
      BY <1>4, CallStarts DEF CallPut
    <2>2. TabGoes(b, "put", None)
      BY <1>4, GotoMoves DEF CallPut
    <2>3. InStep(tab'[b], req'[b])
      BY <2>1, <2>2 DEF InStep, Waiting, Aimed, Started, TabGoes
    <2> QED
      BY <2>1, <2>2, <2>3, OneTabMoves DEF Started, TabGoes
  <1>5. ASSUME NEW b \in Browser,
               \/ SpawningPage(b) \/ RunningPage(b) \/ ConnectSpawning(b)
               \/ ConnectSpawningFails(b) \/ ConnectRunning(b)
        PROVE  AllInStep'
    <2>1. OnlyTab(b) /\ tab'[b].pc \in {"idle", "spawning_page"}
      BY <1>5, PageMoves DEF TabEnds, TabGoes
    <2>2. tab[b].pc \in Pages /\ UNCHANGED req
      BY <1>5, PageMoves DEF vars
    <2>3. InStep(tab'[b], req'[b])
      BY <2>1, <2>2 DEF AllInStep, InStep, Waiting, Aimed, Pages
    <2> QED
      BY <2>1, <2>2, <2>3, OneTabMoves
  <1>6. ASSUME NEW r \in Request \ Browser, UNCHANGED tab,
               \A q \in Request \ {r} : req'[q] = req[q]
        PROVE  AllInStep'
    BY <1>6 DEF AllInStep
  <1>7. ASSUME NEW g \in Background, NEW h \in Host, SendPatch(g, h)
        PROVE  AllInStep'
    <2>1. Started(g, h, "PATCH") /\ UNCHANGED tab
      BY <1>7, CallStarts DEF SendPatch
    <2> QED
      BY <1>6, <2>1 DEF Started
  <1>8. ASSUME NEW r \in Request \ Browser, Return(r), UNCHANGED tab
        PROVE  AllInStep'
    BY <1>6, <1>8, CallReturns
  <1>9. ASSUME NEW p \in Page, Stopper(p), UNCHANGED tab
        PROVE  AllInStep'
    <2>1. \A q \in Request \ {p} : req'[q] = req[q]
      BY <1>9, CallStarts, CallReturns DEF Stopper, Started
    <2> QED
      BY <1>6, <1>9, <2>1
  <1>10. ASSUME SystemNext, UNCHANGED tab
         PROVE  AllInStep'
    <2>1. CASE UNCHANGED req
      BY <1>10, <2>1 DEF AllInStep
    <2>2. ASSUME NEW r \in Request, Proceeds(r)
          PROVE  AllInStep'
      BY <1>10, <2>2 DEF Proceeds, AllInStep, InStep
    <2> QED
      BY <1>10, <2>1, <2>2, SystemMovesRequests
  <1>11. ASSUME NEW b \in Browser, ProxyStep(b)
         PROVE  AllInStep'
    BY <1>3, <1>4, <1>5, <1>11, GotMoves DEF ProxyStep
  <1> QED
    BY <1>1, <1>2, <1>7, <1>8, <1>9, <1>10, <1>11 DEF ProxyNext, proxyVars

\* At most MaxPatches PATCHes wait to be sent.
LEMMA PatchesStep ==
    ASSUME patches \in [Host -> 0 .. MaxPatches], TabInv, [ProxyNext]_allVars
    PROVE  patches' \in [Host -> 0 .. MaxPatches]
  <1> USE ProxyAssumption
  <1>1. CASE UNCHANGED patches
    BY <1>1
  <1>2. ASSUME NEW b \in Browser, ConnectSpawning(b)
        PROVE  patches' \in [Host -> 0 .. MaxPatches]
    <2>1. PICK h \in Host : /\ patches[h] < MaxPatches
                            /\ patches' = [patches EXCEPT ![h] = @ + 1]
      BY <1>2 DEF ConnectSpawning, TabInv
    <2> QED
      BY <2>1
  <1>3. ASSUME NEW g \in Background, NEW h \in Host, SendPatch(g, h)
        PROVE  patches' \in [Host -> 0 .. MaxPatches]
    <2>1. patches[h] > 0 /\ patches' = [patches EXCEPT ![h] = @ - 1]
      BY <1>3 DEF SendPatch
    <2> QED
      BY <2>1
  <1>4. ASSUME NEW b \in Browser,
               \/ \E h \in Host : Load(b, h)
               \/ Poll(b) \/ GotGet(b) \/ CallDelete(b) \/ GotDelete(b) \/ CallPut(b)
               \/ GotPut(b) \/ SpawningPage(b) \/ RunningPage(b)
               \/ ConnectSpawningFails(b) \/ ConnectRunning(b)
        PROVE  UNCHANGED patches
    BY <1>4 DEF Load, Poll, GotGet, CallDelete, GotDelete, CallPut, GotPut, SpawningPage,
                RunningPage, ConnectSpawningFails, ConnectRunning
  <1> QED
    BY <1>1, <1>2, <1>3, <1>4 DEF ProxyNext, ProxyStep, proxyVars, allVars

\* The types of the proxy, in the terms of the lemmas above.
LEMMA InStepIsTyped ==
    ProxyInv <=> /\ LifecycleInv /\ CallInv /\ TabInv /\ AllInStep
                 /\ patches \in [Host -> 0 .. MaxPatches]
  BY DEF ProxyInv, ProxyTypeOK, TabCallInv, LifecycleInv, TabInv, AllInStep, InStep,
         Waiting, Aimed

LEMMA ProxyInitInv == ProxyInit => ProxyInv
  <1> SUFFICES ASSUME ProxyInit
               PROVE  ProxyInv
    OBVIOUS
  <1> USE ProxyAssumption
  <1>1. LifecycleInv
    BY InitInv DEF ProxyInit
  <1>2. \A r \in Request : req[r].pc = "idle"
    BY DEF ProxyInit, Init, IdleRequest, RequestAt
  <1>3. CallInv
    BY <1>2 DEF CallInv
  <1>4. TabInv
    BY DEF ProxyInit, TabInv, ClosedTab, TabAt, TabType
  <1>5. AllInStep
    BY <1>2 DEF ProxyInit, AllInStep, InStep, Waiting, Aimed, ClosedTab, TabAt
  <1>6. patches \in [Host -> 0 .. MaxPatches]
    BY DEF ProxyInit
  <1> QED
    BY <1>1, <1>3, <1>4, <1>5, <1>6, InStepIsTyped

LEMMA ProxyStepInv ==
    ASSUME ProxyInv, [ProxyNext]_allVars
    PROVE  ProxyInv'
  <1>1. /\ LifecycleInv /\ CallInv /\ TabInv /\ AllInStep
        /\ patches \in [Host -> 0 .. MaxPatches]
    BY InStepIsTyped
  <1>2. TypeOK /\ RequestInv /\ SlotInv /\ SpawnInv
    BY <1>1 DEF LifecycleInv
  <1>3. [Next]_vars
    BY <1>1, ProxyStepIsLifecycleStep
  <1>4. LifecycleInv'
    BY <1>2, <1>3, TypeStep, RequestStepInv, SlotStepInv, SpawnStepInv DEF LifecycleInv
  <1>5. CallInv' /\ TabInv'
    BY <1>1, <1>2, <1>3, CallStep, TabStep
  <1>6. AllInStep'
    BY <1>1, <1>2, InStepStep
  <1>7. patches' \in [Host -> 0 .. MaxPatches]
    BY <1>1, PatchesStep
  <1> QED
    BY <1>4, <1>5, <1>6, <1>7
    DEF ProxyInv, ProxyTypeOK, TabCallInv, LifecycleInv, TabInv, AllInStep, InStep,
        Waiting, Aimed

\* For any number of tabs, beside the tools page and late PATCHes: the proxy waits for
\* the API exactly when a call of the tab is in flight there, and whatever it connects
\* to or asks to DELETE is an instance that a 200 of the API was about
\* (handle_application).
THEOREM TabsAreInStep == ProxySpec => []ProxyTypeOK
  <1>1. ProxyInv => ProxyTypeOK
    BY DEF ProxyInv
  <1>2. ProxyInv /\ [ProxyNext]_allVars => ProxyInv'
    BY ProxyStepInv
  <1> QED
    BY <1>1, <1>2, ProxyInitInv, PTL DEF ProxySpec

(***************************************************************************)
(* An error that a poll has found, where nobody but the tab stops.         *)
(***************************************************************************)
\* PollInv, of one tab, its request and whether its application has a visible row.
HasFound(t, q, visible) ==
    /\ t.pc = "idle" /\ t.page \in {"spawning", "reload"} => visible
    /\ t.pc # "idle" /\ t.mode = "poll" =>
          visible /\ t.pc \notin {"delete_call", "delete", "put_call", "put"}
    /\ t.pc = "get" /\ (t.mode = "poll" \/ t.polled = "error") =>
          visible /\ (q.pc = "done" => q.status # 404)
    /\ t.pc \in {"put_call", "put"} => t.polled # "error"

\* Visible(h) # {}, of any two columns.
HasRowIn(hosts, states, h) ==
    \E i \in Instance : hosts[i] = h /\ states[i] \in VisibleStates

AllHaveFound ==
    \A b \in Browser : HasFound(tab[b], req[b], HasRowIn(host, state, tab[b].host))

\* Only set_application_stopped hides a row, and only a DELETE calls it here.
LEMMA RowsStayVisible ==
    ASSUME TypeOK, NobodyStops, [Next]_vars, NEW h, HasRowIn(host, state, h),
           ~ \E r \in Request : StopSave(r)
    PROVE  HasRowIn(host', state', h)
  <1> USE DEF columns
  <1>1. CASE UNCHANGED <<host, state>>
    BY <1>1 DEF HasRowIn
  <1>2. ASSUME NEW r \in Request, PutCreate(r)
        PROVE  HasRowIn(host', state', h)
    <2>1. PICK i \in Instance : /\ state[i] = "ABSENT"
                                /\ host' = [host EXCEPT ![i] = req[r].host]
                                /\ state' = [state EXCEPT ![i] = "SPAWNING"]
      BY <1>2 DEF PutCreate
    <2>2. PICK j \in Instance : host[j] = h /\ state[j] \in VisibleStates
      BY DEF HasRowIn
    <2>3. host'[j] = h /\ state'[j] \in VisibleStates
      BY <2>1, <2>2 DEF TypeOK, VisibleStates
    <2> QED
      BY <2>3 DEF HasRowIn
  <1>3. ASSUME NEW r \in Request, PatchSave(r)
        PROVE  HasRowIn(host', state', h)
    <2>1. state' = [state EXCEPT ![req[r].inst] = "RUNNING"] /\ host' = host
      BY <1>3 DEF PatchSave
    <2>2. PICK j \in Instance : host[j] = h /\ state[j] \in VisibleStates
      BY DEF HasRowIn
    <2>3. host'[j] = h /\ state'[j] \in VisibleStates
      BY <2>1, <2>2 DEF TypeOK, VisibleStates
    <2> QED
      BY <2>3 DEF HasRowIn
  <1>4. ASSUME NEW i \in Instance
        PROVE  ~ ReapSave(i)
    BY DEF ReapSave, NobodyStops
  <1>5. ASSUME NEW r \in Request, Return(r) \/ RequestCrash(r) \/ \E g \in Host : StartRequest(r, g)
        PROVE  UNCHANGED <<host, state>>
    BY <1>5 DEF Return, RequestCrash, StartRequest, Get, Put, Patch, Delete, Stop, Lookup
  <1>6. ASSUME NEW r \in Request,
               \/ PutIntegrityError(r) \/ PutReget(r) \/ PutDelaySpawn(r)
               \/ Describe(r) \/ StopDelay(r)
        PROVE  UNCHANGED <<host, state>>
    BY <1>6 DEF PutIntegrityError, PutReget, PutDelaySpawn, Describe, StopDelay
  <1>7. ASSUME NEW i \in Instance,
               \/ ReapStart(i) \/ ReapMetrics(i) \/ ReapDelay(i) \/ ReapCrash(i)
               \/ SpawnStep(i) \/ SpawnCrash(i) \/ StopTask(i) \/ Environment(i)
        PROVE  UNCHANGED <<host, state>>
    BY <1>7
    DEF ReapStart, ReapMetrics, ReapDelay, ReapCrash, SpawnStep, SpawnCredentials,
        SpawnTriggerPipeline, SpawnPipelineFails, SpawnRunTask, SpawnSaveTask,
        SpawnRefresh, SpawnPollIp, SpawnCleanup, SpawnCrash, StopTask, Environment,
        EcsTaskExits, PipelineFinishes, AgeInstance, AgePipeline
  <1>8. CASE UNCHANGED vars
    BY <1>1, <1>8 DEF vars
  <1>9. CASE Next
    BY <1>1, <1>2, <1>3, <1>4, <1>5, <1>6, <1>7, <1>9
    DEF Next, SystemNext, RequestStep, ReapStep, Crash
  <1> QED
    BY <1>8, <1>9

\* The tab's own steps leave the rows alone.
LEMMA TabKeepsRows ==
    ASSUME NEW b \in Browser, (\E h \in Host : Load(b, h)) \/ Poll(b) \/ ProxyStep(b)
    PROVE  UNCHANGED <<host, state>>
  BY DEF Load, Poll, ProxyStep, GotGet, CallDelete, GotDelete, CallPut, GotPut,
         SpawningPage, RunningPage, ConnectSpawning, ConnectSpawningFails,
         ConnectRunning, Return, Get, Put, Delete, Lookup, vars, columns

\* Neither pages nor the reaper begin to stop, and background requests remain PATCHes.
LEMMA NobodyStopsStep ==
    ASSUME ProxyInv, NobodyStops, [ProxyNext /\ NoPageStops]_allVars,
           \A a \in Ages : a < TwoHours
    PROVE  NobodyStops'
  <1> USE ProxyAssumption
  <1>1. TypeOK /\ RequestInv /\ CallInv /\ TabInv
    BY DEF ProxyInv, LifecycleInv
  <1>2. ASSUME NEW p \in Page
        PROVE  req'[p].pc = "idle"
    BY <1>2 DEF NobodyStops, NoPageStops, allVars, vars
  <1>3. ASSUME NEW g \in Background, req'[g].pc # "idle"
        PROVE  req'[g].op = "PATCH"
    <2>1. req[g].pc # "idle" => req[g].op = "PATCH"
      BY DEF NobodyStops
    <2>2. CASE req'[g] = req[g]
      BY <1>3, <2>1, <2>2
    <2>3. ASSUME NEW r \in Request, Proceeds(r)
          PROVE  req'[g].op = "PATCH"
      BY <1>3, <2>1, <2>3 DEF Proceeds
    <2>4. ASSUME NEW r \in Request, NEW h \in Host, SendPatch(r, h)
          PROVE  req'[g].op = "PATCH"
      <3>1. Started(r, h, "PATCH")
        BY <1>1, <2>4, CallStarts DEF SendPatch
      <3> QED
        BY <1>3, <2>1, <3>1 DEF Started
    <2>5. ASSUME NEW r \in Request, Return(r)
          PROVE  req'[g].op = "PATCH"
      BY <1>1, <1>3, <2>1, <2>5, CallReturns
    <2>6. ASSUME NEW b \in Browser, (\E h \in Host : Load(b, h)) \/ Poll(b) \/ ProxyStep(b)
          PROVE  req'[g] = req[g]
      <3>1. CASE (\E h \in Host : Load(b, h)) \/ Poll(b)
        BY <1>1, <3>1, LoadEffect, PollEffect DEF Started
      <3>2. CASE CallDelete(b) \/ CallPut(b)
        BY <1>1, <3>2, CallStarts DEF CallDelete, CallPut, Started
      <3>3. CASE GotGet(b) \/ GotDelete(b) \/ GotPut(b)
        BY <1>1, <3>3, CallReturns DEF GotGet, GotDelete, GotPut
      <3>4. CASE \/ SpawningPage(b) \/ RunningPage(b) \/ ConnectSpawning(b)
                 \/ ConnectSpawningFails(b) \/ ConnectRunning(b)
        BY <1>1, <3>4, PageMoves DEF vars
      <3> QED
        BY <2>6, <3>1, <3>2, <3>3, <3>4 DEF ProxyStep
    <2>7. ASSUME NEW p \in Page, Stopper(p)
          PROVE  req'[g] = req[g]
      BY <1>1, <2>7, CallStarts, CallReturns DEF Stopper, Started
    <2>8. CASE SystemNext
      BY <1>1, <2>2, <2>3, <2>8, SystemMovesRequests
    <2>9. CASE UNCHANGED allVars
      BY <2>2, <2>9 DEF allVars, vars
    <2> QED
      BY <2>2, <2>4, <2>5, <2>6, <2>7, <2>8, <2>9 DEF ProxyNext
  <1>4. [Next]_vars
    BY <1>1, ProxyStepIsLifecycleStep
  <1>5. ASSUME NEW i \in Instance
        PROVE  reap'[i] = "idle" /\ age'[i] < TwoHours
    <2>1. reap[i] = "idle" /\ age[i] < TwoHours /\ age[i] \in Nat
      BY <1>1 DEF NobodyStops, TypeOK, TwoHours
    <2>2. \A j \in Instance : ~ (ReapStep(j) \/ ReapCrash(j))
      BY <1>1 DEF NobodyStops, ReapStep, ReapStart, ReapMetrics, ReapDelay, ReapSave,
                  ReapCrash, TypeOK, TwoHours
    <2>3. CASE UNCHANGED <<reap, age>>
      BY <2>1, <2>3
    <2>4. ASSUME NEW j \in Instance, AgeInstance(j)
          PROVE  reap'[i] = "idle" /\ age'[i] < TwoHours
      <3>1. reap' = reap
        BY <2>4 DEF AgeInstance
      <3>2. PICK a \in Ages : age' = [age EXCEPT ![j] = a]
        BY <2>4 DEF AgeInstance
      <3> QED
        BY <1>1, <2>1, <3>1, <3>2 DEF TypeOK
    <2>5. ASSUME NEW r \in Request,
                 \/ Return(r) \/ RequestCrash(r) \/ RequestStep(r)
                 \/ \E h \in Host : StartRequest(r, h)
          PROVE  UNCHANGED <<reap, age>>
      BY <2>5
      DEF Return, RequestCrash, StartRequest, Get, Put, Patch, Delete, Stop, Lookup,
          RequestStep, PutCreate, PutIntegrityError, PutReget, PutDelaySpawn, Describe,
          PatchSave, StopDelay, StopSave, clock
    <2>6. ASSUME NEW j \in Instance,
                 \/ SpawnStep(j) \/ SpawnCrash(j) \/ StopTask(j)
                 \/ EcsTaskExits(j) \/ PipelineFinishes(j) \/ AgePipeline(j)
          PROVE  UNCHANGED <<reap, age>>
      BY <2>6
      DEF SpawnStep, SpawnCredentials, SpawnTriggerPipeline, SpawnPipelineFails,
          SpawnRunTask, SpawnSaveTask, SpawnRefresh, SpawnPollIp, SpawnCleanup,
          SpawnCrash, StopTask, EcsTaskExits, PipelineFinishes, AgePipeline, clock
    <2>7. CASE UNCHANGED vars
      BY <2>3, <2>7 DEF vars, clock
    <2>8. CASE Next
      BY <2>2, <2>3, <2>4, <2>5, <2>6, <2>8 DEF Next, SystemNext, Crash, Environment
    <2> QED
      BY <1>4, <2>7, <2>8
  <1> QED
    BY <1>2, <1>3, <1>5 DEF NobodyStops

\* With one tab, only a tab that waits for its DELETE can see a row disappear.
LEMMA OnlyDeleteHides ==
    ASSUME ProxyInv, NobodyStops, NEW b, Browser = {b}, NEW r \in Request, StopSave(r)
    PROVE  r = b /\ tab[b].pc = "delete"
  <1>1. CallInv /\ AllInStep
    BY InStepIsTyped
  <1>2. req[r].pc = "save" /\ req[r].op \in {"DELETE", "STOP"}
    BY <1>1 DEF StopSave, CallInv
  <1>3. r = b
    BY <1>2, ProxyAssumption DEF NobodyStops
  <1> QED
    BY <1>1, <1>2, <1>3 DEF AllInStep, InStep, Waiting

\* A tab whose request a step of the system moves, or hides the row of.
LEMMA SystemKeepsFound ==
    ASSUME ProxyInv, NobodyStops, AllHaveFound, NEW b, Browser = {b},
           SystemNext, UNCHANGED tab
    PROVE  HasFound(tab[b], req'[b], HasRowIn(host', state', tab[b].host))
  <1>1. TypeOK /\ RequestInv /\ CallInv /\ AllInStep
    BY InStepIsTyped DEF LifecycleInv
  <1>2. HasFound(tab[b], req[b], HasRowIn(host, state, tab[b].host))
    BY DEF AllHaveFound
  <1>3. CASE tab[b].pc = "delete"
    BY <1>2, <1>3 DEF HasFound
  <1>4. CASE tab[b].pc # "delete"
    <2>1. [Next]_vars
      BY DEF Next
    <2>2. HasRowIn(host, state, tab[b].host) => HasRowIn(host', state', tab[b].host)
      BY <1>1, <1>4, <2>1, OnlyDeleteHides, RowsStayVisible
    <2>3. req'[b].pc = "done" => req'[b].status # 404 \/ req'[b] = req[b]
      <3>1. CASE UNCHANGED req
        BY <3>1
      <3>2. ASSUME NEW r \in Request, Proceeds(r)
            PROVE  req'[b].pc = "done" => req'[b].status # 404 \/ req'[b] = req[b]
        BY <3>2, ProxyAssumption DEF Proceeds
      <3> QED
        BY <1>1, <3>1, <3>2, SystemMovesRequests
    <2> QED
      BY <1>2, <2>2, <2>3 DEF HasFound
  <1> QED
    BY <1>3, <1>4

\* A tab that goes on, or is answered, while the rows stay as they are.
LEMMA TabKeepsFound ==
    ASSUME ProxyInv, AllHaveFound, NEW b \in Browser,
           (\E h \in Host : Load(b, h)) \/ Poll(b) \/ ProxyStep(b)
    PROVE  HasFound(tab'[b], req'[b], HasRowIn(host, state, tab'[b].host))
  <1>1. TypeOK /\ RequestInv /\ CallInv /\ AllInStep /\ TabInv
    BY InStepIsTyped DEF LifecycleInv
  <1>2. HasFound(tab[b], req[b], HasRowIn(host, state, tab[b].host))
    BY DEF AllHaveFound
  <1>3. \A h : Visible(h) # {} <=> HasRowIn(host, state, h)
    BY DEF Visible, HasRowIn
  <1>4. tab[b].mode \in {"load", "poll"}
    BY <1>1 DEF TabInv, TabType
  <1>5. ASSUME NEW pc \in Pages, NEW i, TabGoes(b, pc, i), tab[b].pc # "idle"
        PROVE  HasFound(tab'[b], req'[b], HasRowIn(host, state, tab'[b].host))
    BY <1>2, <1>5 DEF HasFound, TabGoes, Pages
  <1>6. ASSUME NEW page \in {"app", "error"}, TabEnds(b, page), tab[b].pc # "idle"
        PROVE  HasFound(tab'[b], req'[b], HasRowIn(host, state, tab'[b].host))
    BY <1>2, <1>4, <1>6 DEF HasFound, TabEnds
  <1>7. ASSUME NEW h \in Host, Load(b, h)
        PROVE  HasFound(tab'[b], req'[b], HasRowIn(host, state, tab'[b].host))
    <2>1. /\ Started(b, h, "GET")
          /\ tab[b].pc = "idle" /\ tab[b].page = "reload" => tab[b].host = h
          /\ tab'[b].pc = "get" /\ tab'[b].mode = "load" /\ tab'[b].host = h
          /\ tab[b].page # "reload" => tab'[b].polled = "none"
      BY <1>1, <1>7, LoadEffect
    <2>2. tab[b].pc = "idle"
      BY <1>7 DEF Load
    <2> QED
      BY <1>2, <1>3, <2>1, <2>2 DEF HasFound, Started
  <1>8. CASE Poll(b)
    <2>1. /\ Started(b, tab[b].host, "GET")
          /\ tab[b].pc = "idle" /\ tab[b].page = "spawning"
          /\ tab'[b].pc = "get" /\ tab'[b].host = tab[b].host
          /\ tab'[b].polled = "none"
      BY <1>1, <1>8, PollEffect
    <2> QED
      BY <1>2, <1>3, <2>1 DEF HasFound, Started
  <1>9. CASE GotGet(b)
    <2>1. tab[b].pc = "get" /\ req[b].pc = "done"
      BY <1>9 DEF GotGet, Answered
    <2>2. ASSUME NEW i, TabGoes(b, "delete_call", i), tab[b].mode = "load"
          PROVE  HasFound(tab'[b], req'[b], HasRowIn(host, state, tab'[b].host))
      BY <2>2 DEF HasFound, TabGoes
    <2>3. CASE tab[b].mode = "load" /\ req[b].status = 404 /\ TabGoes(b, "put_call", None)
      BY <1>2, <2>1, <2>3 DEF HasFound, TabGoes
    <2> QED
      BY <1>1, <1>5, <1>6, <1>9, <2>1, <2>2, <2>3, GotGetMoves
  <1>10. CASE CallDelete(b)
    <2>1. tab[b].pc = "delete_call" /\ TabGoes(b, "delete", tab[b].saw)
      BY <1>1, <1>10, GotoMoves DEF CallDelete
    <2> QED
      BY <1>2, <2>1 DEF HasFound, TabGoes
  <1>11. CASE GotDelete(b)
    <2>1. tab[b].pc = "delete" /\ TabEnds(b, "error")
      BY <1>1, <1>11, AnswerEnds DEF GotDelete, Answered
    <2> QED
      BY <1>6, <2>1
  <1>12. CASE CallPut(b)
    <2>1. tab[b].pc = "put_call" /\ TabGoes(b, "put", None)
      BY <1>1, <1>12, GotoMoves DEF CallPut
    <2> QED
      BY <1>2, <2>1 DEF HasFound, TabGoes
  <1>13. CASE GotPut(b)
    <2>1. tab[b].pc = "put" /\ req[b].pc = "done" /\ req[b].op = "PUT"
      BY <1>1, <1>13 DEF GotPut, Answered, AllInStep, InStep
    <2>2. CASE IsUp(b) /\ Route(b)
      BY <1>1, <1>5, <2>1, <2>2, RouteMoves
    <2>3. CASE Answer(b, "error")
      BY <1>1, <1>6, <2>1, <2>3, AnswerEnds
    <2> QED
      BY <1>13, <2>2, <2>3 DEF GotPut
  <1>14. CASE \/ SpawningPage(b) \/ RunningPage(b) \/ ConnectSpawning(b)
              \/ ConnectSpawningFails(b) \/ ConnectRunning(b)
    <2>1. /\ tab[b].pc \in Pages
          /\ \/ \E page \in {"app", "error"} : TabEnds(b, page)
             \/ TabEnds(b, "spawning") /\ Visible(tab[b].host) # {}
             \/ TabGoes(b, "spawning_page", tab[b].saw)
      BY <1>1, <1>14, PageMoves
    <2>2. tab[b].pc # "idle" /\ "spawning_page" \in Pages
      BY <2>1 DEF Pages
    <2>3. CASE TabEnds(b, "spawning") /\ Visible(tab[b].host) # {}
      BY <1>3, <2>3 DEF HasFound, TabEnds
    <2> QED
      BY <1>5, <1>6, <2>1, <2>2, <2>3
  <1> QED
    BY <1>7, <1>8, <1>9, <1>10, <1>11, <1>12, <1>13, <1>14 DEF ProxyStep

\* What one tab has found remains true.
LEMMA FoundStep ==
    ASSUME ProxyInv, NobodyStops, AllHaveFound, NEW b, Browser = {b},
           [ProxyNext /\ NoPageStops]_allVars
    PROVE  AllHaveFound'
  <1> USE ProxyAssumption
  <1>1. TypeOK /\ RequestInv /\ CallInv /\ TabInv
    BY InStepIsTyped DEF LifecycleInv
  <1>2. HasFound(tab[b], req[b], HasRowIn(host, state, tab[b].host))
    BY DEF AllHaveFound
  <1>3. SUFFICES HasFound(tab'[b], req'[b], HasRowIn(host', state', tab'[b].host))
    BY DEF AllHaveFound
  <1>4. ASSUME UNCHANGED tab, req'[b] = req[b], UNCHANGED <<host, state>>
        PROVE  HasFound(tab'[b], req'[b], HasRowIn(host', state', tab'[b].host))
    BY <1>2, <1>4
  <1>5. CASE UNCHANGED allVars
    BY <1>4, <1>5 DEF allVars, vars, columns, proxyVars
  <1>6. CASE (\E h \in Host : Load(b, h)) \/ Poll(b) \/ ProxyStep(b)
    <2>1. UNCHANGED <<host, state>>
      BY <1>6, TabKeepsRows
    <2>2. HasFound(tab'[b], req'[b], HasRowIn(host, state, tab'[b].host))
      BY <1>6, TabKeepsFound
    <2> QED
      BY <2>1, <2>2
  <1>7. ASSUME NEW g \in Background, NEW h \in Host, SendPatch(g, h)
        PROVE  HasFound(tab'[b], req'[b], HasRowIn(host', state', tab'[b].host))
    <2>1. Started(g, h, "PATCH")
      BY <1>1, <1>7, CallStarts DEF SendPatch
    <2>2. UNCHANGED tab /\ UNCHANGED <<host, state>>
      BY <1>7 DEF SendPatch, Patch, Lookup, columns
    <2> QED
      BY <1>4, <2>1, <2>2 DEF Started
  <1>8. ASSUME NEW g \in Background, Return(g), UNCHANGED proxyVars
        PROVE  HasFound(tab'[b], req'[b], HasRowIn(host', state', tab'[b].host))
    <2>1. UNCHANGED tab /\ UNCHANGED <<host, state>>
      BY <1>8 DEF Return, proxyVars, columns
    <2> QED
      BY <1>1, <1>4, <1>8, <2>1, CallReturns
  <1>9. ASSUME NEW p \in Page, Stopper(p), NoPageStops
        PROVE  FALSE
    BY <1>1, <1>9, CallStarts DEF NobodyStops, NoPageStops, Stopper, Started, Return
  <1>10. CASE SystemNext /\ UNCHANGED proxyVars
    BY <1>10, SystemKeepsFound DEF proxyVars
  <1> QED
    BY <1>5, <1>6, <1>7, <1>8, <1>9, <1>10 DEF ProxyNext

LEMMA PollIsFound == PollInv <=> AllHaveFound
  BY DEF PollInv, AllHaveFound, HasFound, HasRowIn, Visible

\* One tab, nobody who stops its application by hand, and too little time for the
\* reaper: where spawning.html's header is all that keeps an error from being hidden.
OneTab ==
    /\ \E b : Browser = {b}
    /\ \A a \in Ages : a < TwoHours

\* With one tab, what a poll has found stays true until the tab itself calls DELETE.
LEMMA OneTabStep ==
    ASSUME OneTab, ProxyInv, NobodyStops, PollInv, [ProxyNext /\ NoPageStops]_allVars
    PROVE  ProxyInv' /\ NobodyStops' /\ PollInv'
  <1>1. PICK b : Browser = {b}
    BY DEF OneTab
  <1>2. [ProxyNext]_allVars
    OBVIOUS
  <1>3. AllHaveFound'
    BY <1>1, FoundStep, PollIsFound
  <1>4. PollInv'
    BY <1>3 DEF PollInv, AllHaveFound, HasFound, HasRowIn, Visible
  <1> QED
    BY <1>2, <1>4, ProxyStepInv, NobodyStopsStep DEF OneTab

LEMMA OneTabInit == ProxyInit => NobodyStops /\ PollInv
  <1> SUFFICES ASSUME ProxyInit
               PROVE  NobodyStops /\ PollInv
    OBVIOUS
  <1>1. \A r \in Request : req[r].pc = "idle"
    BY DEF ProxyInit, Init, IdleRequest, RequestAt
  <1>2. NobodyStops
    BY <1>1, ProxyAssumption DEF NobodyStops, ProxyInit, Init, TwoHours
  <1>3. PollInv
    BY DEF ProxyInit, PollInv, ClosedTab, TabAt
  <1> QED
    BY <1>2, <1>3

LEMMA FoundIsShown == PollInv => ErrorShownOnReload
  BY DEF PollInv, ErrorShownOnReload

\* What spawning.html wants of the no-modify header, for any numbers of hosts,
\* instances and PATCHes, and whatever fails or crashes: where only the tab itself can
\* stop its application, the reload after a poll that has found an error reaches the
\* row that failed, and never starts a new application instead of showing the error.
THEOREM ErrorIsShown ==
    ASSUME OneTab
    PROVE  ProxyInit /\ [][ProxyNext /\ NoPageStops]_allVars => []ErrorShownOnReload
  <1>1. ProxyInv /\ NobodyStops /\ PollInv /\ [ProxyNext /\ NoPageStops]_allVars
           => ProxyInv' /\ NobodyStops' /\ PollInv'
    BY OneTabStep
  <1> QED
    BY <1>1, ProxyInitInv, OneTabInit, FoundIsShown, PTL

\* The run's scopes: all tabs stay in step, and in the scope "tab", where the tools page
\* is not used, an error is shown.
THEOREM TabIsSafe ==
    ASSUME OneTab
    PROVE  MCSpec => []TabSafety
  <1> DEFINE Inv == ProxyInv /\ (scope = "tab" => NobodyStops /\ PollInv)
  <1>1. MCInit => Inv
    BY ProxyInitInv, OneTabInit DEF MCInit
  <1>2. Inv /\ [MCNext]_mcVars => Inv'
    <2> SUFFICES ASSUME Inv, [MCNext]_mcVars
                 PROVE  Inv'
      OBVIOUS
    <2>1. scope' = scope /\ [ProxyNext]_allVars
      BY DEF MCNext, mcVars, InScope
    <2>2. ProxyInv'
      BY <2>1, ProxyStepInv
    <2>3. CASE scope = "tab"
      <3>1. [ProxyNext /\ NoPageStops]_allVars
        BY <2>3 DEF MCNext, mcVars, InScope
      <3> QED
        BY <2>1, <2>3, <3>1, OneTabStep
    <2>4. CASE scope # "tab"
      BY <2>1, <2>2, <2>4
    <2> QED
      BY <2>3, <2>4
  <1>3. Inv => TabSafety
    BY FoundIsShown DEF ProxyInv, TabSafety, TabShowsError
  <1> QED
    BY <1>1, <1>2, <1>3, PTL DEF MCSpec

(***************************************************************************)
(* The relay of a websocket.                                               *)
(***************************************************************************)
\* HeardInOrder, of the values of one direction: h was heard, t is on its way.
Stream(h, t, s, is, w) ==
    /\ \A i \in 1 .. Len(h) : h[i] = i
    /\ \A i \in 1 .. Len(t) : t[i] = IF i = Len(t) /\ is # "open" THEN 0 ELSE Len(h) + i
    /\ is = "open" => Len(h) + Len(t) = s
    /\ is # "open" => Len(t) > 0
    /\ is = "closed" => Len(h) + Len(t) = s + 1 /\ w # "none"
    /\ is = "lost" => Len(h) + Len(t) <= s + 1

\* One more item after m of them.
LEMMA OneMore ==
    ASSUME NEW n \in Nat, NEW m \in Nat, NEW t, NEW u, NEW x,
           \A i \in 1 .. m : t[i] = n + i, \A i \in 1 .. m : u[i] = t[i], u[m + 1] = x
    PROVE  \A i \in 1 .. m + 1 : u[i] = IF i = m + 1 THEN x ELSE n + i
  <1>1. ASSUME NEW i \in 1 .. m + 1
        PROVE  u[i] = IF i = m + 1 THEN x ELSE n + i
    <2>1. CASE i = m + 1
      BY <2>1
    <2>2. CASE i # m + 1
      <3>1. i \in 1 .. m
        BY <2>2
      <3> QED
        BY <2>2, <3>1
    <2> QED
      BY <2>1, <2>2
  <1> QED
    BY <1>1

LEMMA SayKeepsStream ==
    ASSUME NEW h \in Seq(Nat), NEW t \in Seq(Nat), NEW s \in Nat, NEW w,
           Stream(h, t, s, "open", w)
    PROVE  Stream(h, Append(t, s + 1), s + 1, "open", w)
  <1> DEFINE u == Append(t, s + 1)
  <1>1. PICK n \in Nat, m \in Nat : n = Len(h) /\ m = Len(t)
    OBVIOUS
  <1>2. Len(u) = m + 1 /\ (\A i \in 1 .. m : u[i] = t[i]) /\ u[m + 1] = s + 1
    BY <1>1
  <1>3. (\A i \in 1 .. n : h[i] = i) /\ (\A i \in 1 .. m : t[i] = n + i) /\ n + m = s
    BY <1>1 DEF Stream
  <1> HIDE DEF u
  <1>4. \A i \in 1 .. m + 1 : u[i] = IF i = m + 1 THEN s + 1 ELSE n + i
    BY <1>2, <1>3, OneMore
  <1>5. s + 1 = n + (m + 1)
    BY <1>3
  <1>6. \A i \in 1 .. m + 1 : u[i] = n + i
    BY <1>4, <1>5
  <1>7. Stream(h, u, s + 1, "open", w)
    BY <1>1, <1>2, <1>3, <1>5, <1>6 DEF Stream
  <1> QED
    BY <1>7 DEF u

LEMMA CloseKeepsStream ==
    ASSUME NEW h \in Seq(Nat), NEW t \in Seq(Nat), NEW s \in Nat, NEW w, w # "none",
           Stream(h, t, s, "open", w)
    PROVE  Stream(h, Append(t, 0), s, "closed", w)
  <1> DEFINE u == Append(t, 0)
  <1>1. PICK n \in Nat, m \in Nat : n = Len(h) /\ m = Len(t)
    OBVIOUS
  <1>2. Len(u) = m + 1 /\ (\A i \in 1 .. m : u[i] = t[i]) /\ u[m + 1] = 0
    BY <1>1
  <1>3. (\A i \in 1 .. n : h[i] = i) /\ (\A i \in 1 .. m : t[i] = n + i) /\ n + m = s
    BY <1>1 DEF Stream
  <1> HIDE DEF u
  <1>4. \A i \in 1 .. m + 1 : u[i] = IF i = m + 1 THEN 0 ELSE n + i
    BY <1>2, <1>3, OneMore
  <1>5. n + (m + 1) = s + 1 /\ m + 1 > 0
    BY <1>3
  <1>6. Stream(h, u, s, "closed", w)
    BY <1>1, <1>2, <1>3, <1>4, <1>5 DEF Stream
  <1> QED
    BY <1>6 DEF u

LEMMA LossKeepsStream ==
    ASSUME NEW h \in Seq(Nat), NEW t \in Seq(Nat), NEW s \in Nat, NEW w,
           NEW l \in 0 .. Len(t), Stream(h, t, s, "open", w)
    PROVE  Stream(h, Append(SubSeq(t, 1, l), 0), s, "lost", w)
  <1> DEFINE v == SubSeq(t, 1, l)
             u == Append(v, 0)
  <1>1. PICK n \in Nat, m \in Nat : n = Len(h) /\ m = Len(t)
    OBVIOUS
  <1>2. l \in Nat /\ l <= m
    BY <1>1
  <1>3. v \in Seq(Nat) /\ Len(v) = l /\ \A i \in 1 .. l : v[i] = t[i]
    OBVIOUS
  <1> HIDE DEF v
  <1>4. Len(u) = l + 1 /\ (\A i \in 1 .. l : u[i] = v[i]) /\ u[l + 1] = 0
    BY <1>3
  <1>5. (\A i \in 1 .. n : h[i] = i) /\ (\A i \in 1 .. m : t[i] = n + i) /\ n + m = s
    BY <1>1 DEF Stream
  <1> HIDE DEF u
  <1>6. \A i \in 1 .. l : v[i] = n + i
    BY <1>2, <1>3, <1>5
  <1>7. \A i \in 1 .. l + 1 : u[i] = IF i = l + 1 THEN 0 ELSE n + i
    BY <1>2, <1>4, <1>6, OneMore
  <1>8. n + (l + 1) <= s + 1 /\ l + 1 > 0
    BY <1>2, <1>5
  <1>9. Stream(h, u, s, "lost", w)
    BY <1>1, <1>4, <1>5, <1>7, <1>8 DEF Stream
  <1> QED
    BY <1>9 DEF u, v

LEMMA ProxyKeepsStream ==
    ASSUME NEW h \in Seq(Nat), NEW t \in Seq(Nat), NEW s \in Nat, NEW w, NEW is,
           Stream(h, t, s, is, w), t # << >>, Head(t) # 0
    PROVE  Stream(Append(h, Head(t)), Tail(t), s, is, w)
  <1>1. Len(h) \in Nat /\ Len(t) \in Nat \ {0} /\ Head(t) = t[1]
    OBVIOUS
  <1>2. t[1] = Len(h) + 1 /\ (is # "open" => Len(t) # 1)
    BY <1>1 DEF Stream
  <1>3. /\ Len(Tail(t)) = Len(t) - 1
        /\ \A i \in 1 .. Len(t) - 1 : Tail(t)[i] = t[i + 1]
    BY <1>1
  <1>4. /\ Len(Append(h, t[1])) = Len(h) + 1
        /\ \A i \in 1 .. Len(h) : Append(h, t[1])[i] = h[i]
        /\ Append(h, t[1])[Len(h) + 1] = t[1]
    BY <1>1
  <1> DEFINE g == Append(h, t[1])
             u == Tail(t)
  <1>5. Len(g) = Len(h) + 1 /\ Len(u) = Len(t) - 1
    BY <1>3, <1>4
  <1>6. \A i \in 1 .. Len(g) : g[i] = i
    BY <1>1, <1>2, <1>4 DEF Stream
  <1>7. \A i \in 1 .. Len(t) - 1 : u[i] = t[i + 1]
    BY <1>3
  <1> HIDE DEF g, u
  <1>8. \A i \in 1 .. Len(u) : u[i] = IF i = Len(u) /\ is # "open" THEN 0 ELSE Len(g) + i
    BY <1>1, <1>5, <1>7 DEF Stream
  <1>9. /\ Len(g) + Len(u) = Len(h) + Len(t)
        /\ is # "open" => Len(u) > 0
    BY <1>1, <1>2, <1>5 DEF Stream
  <1>10. Stream(g, u, s, is, w)
    BY <1>6, <1>8, <1>9 DEF Stream
  <1> QED
    BY <1>1, <1>10 DEF g, u

\* RelayTypeOK, but for what it says of the ends of both coroutines.
RelayTypes ==
    /\ handler \in {"waiting", "preparing", "reading", "over"}
    /\ relay \in {"connecting", "waiting", "reading", "over"}
    /\ upstreamKnown \in {"pending", "set", "failed"}
    /\ downstreamKnown \in BOOLEAN /\ cancelled \in BOOLEAN
    /\ wire \in [Peer -> {"none", "open", "closed"}]
    /\ said \in [Peer -> 0 .. MaxMessages]
    /\ toProxy \in [Peer -> Seq(0 .. MaxMessages)]
    /\ heard \in [Peer -> Seq(1 .. MaxMessages)]
    /\ peerIs \in [Peer -> {"open", "closed", "lost"}]

LEMMA PartsOfSeq ==
    ASSUME NEW S, NEW t \in Seq(S)
    PROVE  /\ \A n \in 0 .. Len(t) : SubSeq(t, 1, n) \in Seq(S)
           /\ t # << >> => Head(t) \in S /\ Tail(t) \in Seq(S)
  OBVIOUS

LEMMA TwoPeers ==
    /\ \A p \in Peer : Other(p) \in Peer /\ Other(p) # p /\ Other(Other(p)) = p
    /\ Other("client") = "app" /\ Other("app") = "client"
    /\ \A p, q \in Peer : q = p \/ q = Other(p)
    /\ "client" \in Peer /\ "app" \in Peer
  BY DEF Peer, Other

LEMMA DirectionIsTyped ==
    ASSUME RelayTypes, NEW p \in Peer
    PROVE  /\ heard[Other(p)] \in Seq(Nat) /\ toProxy[p] \in Seq(Nat) /\ said[p] \in Nat
           /\ Len(heard[Other(p)]) \in Nat /\ Len(toProxy[p]) \in Nat
  <1>1. heard[Other(p)] \in Seq(1 .. MaxMessages) /\ toProxy[p] \in Seq(0 .. MaxMessages)
    BY TwoPeers DEF RelayTypes
  <1>2. said[p] \in 0 .. MaxMessages
    BY DEF RelayTypes
  <1> QED
    BY <1>1, <1>2, RelayAssumption

LEMMA StreamIsHeard ==
    ASSUME NEW p \in Peer
    PROVE  HeardInOrder(p) <=> Stream(heard[Other(p)], toProxy[p], said[p], peerIs[p], wire[p])
  BY DEF HeardInOrder, Stream

\* The connections after Shut.
LEMMA ShutEffect ==
    ASSUME RelayTypes, NEW ps, Shut(ps)
    PROVE  /\ wire' \in [Peer -> {"none", "open", "closed"}]
           /\ \A p \in Peer : wire'[p] = IF p \in ps /\ wire[p] = "open"
                                         THEN "closed" ELSE wire[p]
  BY DEF Shut, RelayTypes

\* The steps of the two coroutines that proxy nothing.
Coordinates ==
    \/ UpstreamConnects \/ UpstreamFails \/ UpstreamWaits \/ UpstreamEnds
    \/ UpstreamCancelled \/ HandlerAwaits \/ HandlerRaises \/ HandlerPrepares
    \/ HandlerEnds

LEMMA CoordinateKeeps ==
    ASSUME RelayTypes, Coordinates
    PROVE  /\ RelayTypes'
           /\ UNCHANGED <<said, toProxy, heard, peerIs>>
           /\ \A p \in Peer : wire[p] # "none" => wire'[p] # "none"
  <1>1. UNCHANGED <<said, toProxy, heard, peerIs>>
    BY DEF Coordinates, UpstreamConnects, UpstreamFails, UpstreamWaits, UpstreamEnds,
           UpstreamCancelled, HandlerAwaits, HandlerRaises, HandlerPrepares, HandlerEnds,
           HandlerOver
  <1>2. /\ handler' \in {"waiting", "preparing", "reading", "over"}
        /\ relay' \in {"connecting", "waiting", "reading", "over"}
        /\ upstreamKnown' \in {"pending", "set", "failed"}
        /\ downstreamKnown' \in BOOLEAN /\ cancelled' \in BOOLEAN
    BY DEF Coordinates, UpstreamConnects, UpstreamFails, UpstreamWaits, UpstreamEnds,
           UpstreamCancelled, HandlerAwaits, HandlerRaises, HandlerPrepares, HandlerEnds,
           HandlerOver, RelayTypes
  <1>3. /\ wire' \in [Peer -> {"none", "open", "closed"}]
        /\ \A p \in Peer : wire[p] # "none" => wire'[p] # "none"
    <2>1. CASE wire' = wire
      BY <2>1 DEF RelayTypes
    <2>2. ASSUME NEW ps, Shut(ps)
          PROVE  <1>3!1 /\ <1>3!2
      BY <2>2, ShutEffect
    <2>3. ASSUME NEW p \in Peer, wire' = [wire EXCEPT ![p] = "open"]
          PROVE  <1>3!1 /\ <1>3!2
      BY <2>3 DEF RelayTypes
    <2>4. \/ wire' = wire
          \/ \E ps : Shut(ps)
          \/ \E p \in Peer : wire' = [wire EXCEPT ![p] = "open"]
      BY TwoPeers
      DEF Coordinates, UpstreamConnects, UpstreamFails, UpstreamWaits, UpstreamEnds,
          UpstreamCancelled, HandlerAwaits, HandlerRaises, HandlerPrepares, HandlerEnds,
          HandlerOver
    <2> QED
      BY <2>1, <2>2, <2>3, <2>4
  <1> QED
    BY <1>1, <1>2, <1>3 DEF RelayTypes

\* What a peer does changes its own direction only.
LEMMA PeerKeeps ==
    ASSUME RelayTypes, NEW q \in Peer, HeardInOrder(q),
           PeerSays(q) \/ PeerCloses(q) \/ PeerIsLost(q)
    PROVE  /\ RelayTypes'
           /\ Stream(heard'[Other(q)], toProxy'[q], said'[q], peerIs'[q], wire'[q])
           /\ \A p \in Peer \ {q} : /\ toProxy'[p] = toProxy[p] /\ said'[p] = said[p]
                                    /\ peerIs'[p] = peerIs[p]
           /\ UNCHANGED <<handler, relay, upstreamKnown, downstreamKnown, cancelled, wire,
                          heard>>
           /\ peerIs[q] = "open"
  <1> DEFINE h == heard[Other(q)]
             t == toProxy[q]
             s == said[q]
             w == wire[q]
  <1>0. h \in Seq(Nat) /\ t \in Seq(Nat) /\ s \in Nat /\ t \in Seq(0 .. MaxMessages)
    BY DirectionIsTyped DEF RelayTypes
  <1>1. peerIs[q] = "open" /\ UNCHANGED <<handler, relay, upstreamKnown, downstreamKnown,
                                          cancelled, wire, heard>>
    BY DEF PeerSays, PeerCloses, PeerIsLost
  <1>2. Stream(h, t, s, "open", w)
    BY <1>1, StreamIsHeard
  <1>3. DOMAIN toProxy = Peer /\ DOMAIN said = Peer /\ DOMAIN peerIs = Peer
    BY DEF RelayTypes
  <1>4. CASE PeerSays(q)
    <2>1. /\ s < MaxMessages
          /\ said' = [said EXCEPT ![q] = s + 1]
          /\ toProxy' = [toProxy EXCEPT ![q] = Append(t, s + 1)]
          /\ peerIs' = peerIs
      BY <1>4 DEF PeerSays
    <2>2. s + 1 \in 0 .. MaxMessages
      BY <1>0, <2>1, RelayAssumption
    <2>3. Append(t, s + 1) \in Seq(0 .. MaxMessages)
      BY <1>0, <2>2
    <2>4. Stream(h, Append(t, s + 1), s + 1, "open", w)
      BY <1>0, <1>2, SayKeepsStream
    <2> HIDE DEF h, t, s, w
    <2>5. RelayTypes'
      BY <1>1, <2>1, <2>2, <2>3 DEF RelayTypes
    <2>6. Stream(heard'[Other(q)], toProxy'[q], said'[q], peerIs'[q], wire'[q])
      BY <1>1, <1>3, <2>1, <2>4 DEF h, w
    <2> QED
      BY <1>1, <1>3, <2>1, <2>5, <2>6
  <1>5. CASE PeerCloses(q)
    <2>1. /\ w = "open" /\ said' = said
          /\ toProxy' = [toProxy EXCEPT ![q] = Append(t, 0)]
          /\ peerIs' = [peerIs EXCEPT ![q] = "closed"]
      BY <1>5 DEF PeerCloses
    <2>2. 0 \in 0 .. MaxMessages
      BY RelayAssumption
    <2>3. Append(t, 0) \in Seq(0 .. MaxMessages)
      BY <1>0, <2>2
    <2>4. Stream(h, Append(t, 0), s, "closed", w)
      BY <1>0, <1>2, <2>1, CloseKeepsStream
    <2> HIDE DEF h, t, s, w
    <2>5. RelayTypes'
      BY <1>1, <2>1, <2>3 DEF RelayTypes
    <2>6. Stream(heard'[Other(q)], toProxy'[q], said'[q], peerIs'[q], wire'[q])
      BY <1>1, <1>3, <2>1, <2>4 DEF h, s, w
    <2> QED
      BY <1>1, <1>3, <2>1, <2>5, <2>6
  <1>6. CASE PeerIsLost(q)
    <2>1. PICK n \in 0 .. Len(t) :
            /\ said' = said
            /\ toProxy' = [toProxy EXCEPT ![q] = Append(SubSeq(t, 1, n), 0)]
            /\ peerIs' = [peerIs EXCEPT ![q] = "lost"]
      BY <1>6 DEF PeerIsLost
    <2>2. 0 \in 0 .. MaxMessages
      BY RelayAssumption
    <2>3. SubSeq(t, 1, n) \in Seq(0 .. MaxMessages)
      BY <1>0, PartsOfSeq
    <2>4. Append(SubSeq(t, 1, n), 0) \in Seq(0 .. MaxMessages)
      BY <2>2, <2>3
    <2>5. Stream(h, Append(SubSeq(t, 1, n), 0), s, "lost", w)
      BY <1>0, <1>2, LossKeepsStream
    <2> HIDE DEF h, t, s, w
    <2>6. RelayTypes'
      BY <1>1, <2>1, <2>4 DEF RelayTypes
    <2>7. Stream(heard'[Other(q)], toProxy'[q], said'[q], peerIs'[q], wire'[q])
      BY <1>1, <1>3, <2>1, <2>5 DEF h, s, w
    <2> QED
      BY <1>1, <1>3, <2>1, <2>6, <2>7
  <1> QED
    BY <1>4, <1>5, <1>6

\* A message is proxied in its own direction only, and the last one leaves the end.
LEMMA ProxiedKeeps ==
    ASSUME RelayTypes, NEW q \in Peer, HeardInOrder(q), Proxied(q),
           UNCHANGED <<handler, relay, upstreamKnown, downstreamKnown, cancelled, wire,
                       said, peerIs>>
    PROVE  /\ RelayTypes'
           /\ Stream(heard'[Other(q)], toProxy'[q], said'[q], peerIs'[q], wire'[q])
           /\ \A p \in Peer \ {q} : toProxy'[p] = toProxy[p] /\ heard'[Other(p)] = heard[Other(p)]
           /\ peerIs[q] # "open" => Len(toProxy[q]) # 1
  <1> DEFINE h == heard[Other(q)]
             t == toProxy[q]
             m == Head(t)
  <1>0. /\ h \in Seq(Nat) /\ t \in Seq(Nat) /\ said[q] \in Nat
        /\ t \in Seq(0 .. MaxMessages) /\ h \in Seq(1 .. MaxMessages)
    BY DirectionIsTyped, TwoPeers DEF RelayTypes
  <1>1. /\ t # << >> /\ m # 0
        /\ toProxy' = [toProxy EXCEPT ![q] = Tail(t)]
        /\ heard' = [heard EXCEPT ![Other(q)] = Append(h, m)]
    BY DEF Proxied
  <1>2. Stream(h, t, said[q], peerIs[q], wire[q])
    BY StreamIsHeard
  <1>3. m \in 1 .. MaxMessages /\ Tail(t) \in Seq(0 .. MaxMessages)
    <2>1. m \in 0 .. MaxMessages /\ Tail(t) \in Seq(0 .. MaxMessages)
      BY <1>0, <1>1, PartsOfSeq
    <2> QED
      BY <1>1, <2>1, RelayAssumption
  <1>4. Append(h, m) \in Seq(1 .. MaxMessages)
    BY <1>0, <1>3
  <1>5. Stream(Append(h, m), Tail(t), said[q], peerIs[q], wire[q])
    BY <1>0, <1>1, <1>2, ProxyKeepsStream
  <1>6. peerIs[q] # "open" => Len(t) # 1
    <2>1. m = t[1]
      BY <1>0, <1>1
    <2> QED
      BY <1>1, <1>2, <2>1 DEF Stream
  <1> HIDE DEF h, t, m
  <1>7. DOMAIN toProxy = Peer /\ DOMAIN heard = Peer
    BY DEF RelayTypes
  <1>8. RelayTypes'
    BY <1>1, <1>3, <1>4, TwoPeers DEF RelayTypes
  <1>9. heard'[Other(q)] = Append(h, m) /\ toProxy'[q] = Tail(t)
    BY <1>1, <1>7, TwoPeers
  <1>10. \A p \in Peer \ {q} : toProxy'[p] = toProxy[p] /\ heard'[Other(p)] = heard[Other(p)]
    BY <1>1, <1>7, TwoPeers
  <1> QED
    BY <1>5, <1>6, <1>8, <1>9, <1>10 DEF t

Reads == UpstreamReads \/ HandlerReads

PeerActs(q) == PeerSays(q) \/ PeerCloses(q) \/ PeerIsLost(q)

LEMMA RelaySteps ==
    RelayNext <=> Coordinates \/ Reads \/ \E q \in Peer : PeerActs(q)
  BY DEF RelayNext, RelayStep, HandlerStep, Coordinates, Reads, PeerActs

\* A read proxies one message of one peer.
LEMMA ReadsEffect ==
    ASSUME Reads
    PROVE  /\ \E q \in Peer : Proxied(q)
           /\ UNCHANGED <<handler, relay, upstreamKnown, downstreamKnown, cancelled, wire,
                          said, peerIs>>
  BY TwoPeers DEF Reads, UpstreamReads, HandlerReads

\* Each direction stays in order, and HeardOut stays true, at every step.
LEMMA StreamsStep ==
    ASSUME RelayTypes, \A p \in Peer : HeardInOrder(p), [RelayNext]_relayVars
    PROVE  /\ RelayTypes'
           /\ \A p \in Peer : HeardInOrder(p)'
           /\ \A p \in Peer : HeardOut(p) => HeardOut(p)'
           /\ \A p \in Peer : peerIs[p] = "lost" => peerIs'[p] = "lost"
  <1>1. ASSUME NEW p \in Peer,
               Stream(heard'[Other(p)], toProxy'[p], said'[p], peerIs'[p], wire'[p])
        PROVE  HeardInOrder(p)'
    BY <1>1 DEF HeardInOrder, Stream
  <1>2. \A p \in Peer : Stream(heard[Other(p)], toProxy[p], said[p], peerIs[p], wire[p])
    BY StreamIsHeard
  <1>3. CASE UNCHANGED relayVars
    BY <1>3 DEF relayVars, RelayTypes, HeardInOrder, HeardOut
  <1>4. CASE Coordinates
    <2>1. /\ RelayTypes'
          /\ UNCHANGED <<said, toProxy, heard, peerIs>>
          /\ \A p \in Peer : wire[p] # "none" => wire'[p] # "none"
      BY <1>4, CoordinateKeeps
    <2>2. ASSUME NEW p \in Peer
          PROVE  HeardInOrder(p)'
      <3>1. Stream(heard[Other(p)], toProxy[p], said[p], peerIs[p], wire'[p])
        BY <1>2, <2>1 DEF Stream
      <3> QED
        BY <1>1, <2>1, <3>1
    <2> QED
      BY <2>1, <2>2 DEF HeardOut
  <1>5. CASE Reads
    <2>1. PICK q \in Peer : Proxied(q)
      BY <1>5, ReadsEffect
    <2>2. UNCHANGED <<handler, relay, upstreamKnown, downstreamKnown, cancelled, wire,
                      said, peerIs>>
      BY <1>5, ReadsEffect
    <2>3. /\ RelayTypes'
          /\ Stream(heard'[Other(q)], toProxy'[q], said'[q], peerIs'[q], wire'[q])
          /\ \A p \in Peer \ {q} : toProxy'[p] = toProxy[p] /\ heard'[Other(p)] = heard[Other(p)]
          /\ peerIs[q] # "open" => Len(toProxy[q]) # 1
      BY <2>1, <2>2, ProxiedKeeps
    <2>4. ASSUME NEW p \in Peer
          PROVE  Stream(heard'[Other(p)], toProxy'[p], said'[p], peerIs'[p], wire'[p])
      BY <1>2, <2>2, <2>3
    <2>5. ASSUME NEW p \in Peer
          PROVE  HeardInOrder(p)'
      BY <1>1, <2>4
    <2>6. ASSUME NEW p \in Peer, HeardOut(p)
          PROVE  HeardOut(p)'
      BY <2>2, <2>3, <2>6 DEF HeardOut
    <2> QED
      BY <2>2, <2>3, <2>5, <2>6
  <1>6. ASSUME NEW q \in Peer, PeerActs(q)
        PROVE  /\ RelayTypes'
               /\ \A p \in Peer : HeardInOrder(p)'
               /\ \A p \in Peer : HeardOut(p) => HeardOut(p)'
               /\ \A p \in Peer : peerIs[p] = "lost" => peerIs'[p] = "lost"
    <2>1. /\ RelayTypes'
          /\ Stream(heard'[Other(q)], toProxy'[q], said'[q], peerIs'[q], wire'[q])
          /\ \A p \in Peer \ {q} : /\ toProxy'[p] = toProxy[p] /\ said'[p] = said[p]
                                   /\ peerIs'[p] = peerIs[p]
          /\ UNCHANGED <<handler, relay, upstreamKnown, downstreamKnown, cancelled, wire,
                         heard>>
          /\ peerIs[q] = "open"
      BY <1>6, PeerKeeps DEF PeerActs
    <2>2. ASSUME NEW p \in Peer
          PROVE  Stream(heard'[Other(p)], toProxy'[p], said'[p], peerIs'[p], wire'[p])
      BY <1>2, <2>1
    <2>3. ASSUME NEW p \in Peer
          PROVE  HeardInOrder(p)'
      BY <1>1, <2>2
    <2>4. ASSUME NEW p \in Peer, HeardOut(p)
          PROVE  HeardOut(p)'
      BY <2>1, <2>4 DEF HeardOut
    <2> QED
      BY <2>1, <2>3, <2>4
  <1> QED
    BY <1>3, <1>4, <1>5, <1>6, RelaySteps

\* What each coroutine knows of the other's connection remains so.
LEMMA ConnectionStep ==
    ASSUME RelayTypes, ConnectionInv, \A p \in Peer : HeardInOrder(p),
           [RelayNext]_relayVars
    PROVE  ConnectionInv'
  <1>1. CASE UNCHANGED <<handler, relay, upstreamKnown, downstreamKnown, cancelled, wire>>
    BY <1>1 DEF ConnectionInv
  <1>2. CASE Reads
    BY <1>1, <1>2, ReadsEffect
  <1>3. ASSUME NEW q \in Peer, PeerActs(q)
        PROVE  ConnectionInv'
    BY <1>1, <1>3, PeerKeeps DEF PeerActs
  <1>4. ASSUME NEW ps, Shut(ps)
        PROVE  \A p \in Peer : wire'[p] = IF p \in ps /\ wire[p] = "open"
                                          THEN "closed" ELSE wire[p]
    BY <1>4, ShutEffect
  <1>5. /\ wire["client"] \in {"none", "open", "closed"}
        /\ wire["app"] \in {"none", "open", "closed"}
    BY TwoPeers DEF RelayTypes
  <1>6. ASSUME Shut(Peer)
        PROVE  /\ wire'["app"] = IF wire["app"] = "open" THEN "closed" ELSE wire["app"]
               /\ wire'["client"] = IF wire["client"] = "open" THEN "closed" ELSE wire["client"]
    BY <1>4, <1>6, TwoPeers
  <1>7. ASSUME HandlerOver
        PROVE  /\ wire'["app"] = wire["app"]
               /\ wire'["client"] = IF wire["client"] = "open" THEN "closed" ELSE wire["client"]
    BY <1>4, <1>7, TwoPeers DEF HandlerOver
  <1>8. ASSUME NEW q \in Peer, wire' = [wire EXCEPT ![q] = "open"]
        PROVE  wire'[q] = "open" /\ wire'[Other(q)] = wire[Other(q)]
    BY <1>8, TwoPeers DEF RelayTypes
  <1>9. CASE UpstreamConnects
    <2>1. wire'["app"] = "open" /\ wire'["client"] = wire["client"]
      BY <1>8, <1>9, TwoPeers DEF UpstreamConnects
    <2> QED
      BY <1>9, <2>1 DEF UpstreamConnects, ConnectionInv
  <1>10. CASE UpstreamFails
    BY <1>10 DEF UpstreamFails, ConnectionInv
  <1>11. CASE UpstreamWaits
    BY <1>11 DEF UpstreamWaits, ConnectionInv
  <1>12. CASE UpstreamEnds
    BY <1>5, <1>6, <1>12 DEF UpstreamEnds, ConnectionInv
  <1>13. CASE UpstreamCancelled
    BY <1>5, <1>6, <1>13 DEF UpstreamCancelled, ConnectionInv
  <1>14. CASE HandlerAwaits
    BY <1>14 DEF HandlerAwaits, ConnectionInv
  <1>15. CASE HandlerOver
    BY <1>5, <1>7, <1>15 DEF HandlerOver, ConnectionInv
  <1>16. CASE HandlerPrepares
    <2>1. wire'["client"] = "open" /\ wire'["app"] = wire["app"]
      BY <1>8, <1>16, TwoPeers DEF HandlerPrepares
    <2> QED
      BY <1>16, <2>1 DEF HandlerPrepares, ConnectionInv
  <1>17. HandlerRaises \/ HandlerEnds => HandlerOver
    BY DEF HandlerRaises, HandlerEnds
  <1> QED
    BY <1>1, <1>2, <1>3, <1>9, <1>10, <1>11, <1>12, <1>13, <1>14, <1>15, <1>16, <1>17,
       RelaySteps DEF Coordinates, relayVars

\* The first coroutine that is over has a reason of its own, and the second has that one.
LEMMA CauseStep ==
    ASSUME RelayTypes, ConnectionInv, CauseInv, \A p \in Peer : HeardInOrder(p),
           [RelayNext]_relayVars
    PROVE  CauseInv'
  <1> DEFINE Cause == \/ upstreamKnown = "failed"
                      \/ peerIs["client"] = "lost"
                      \/ \E p \in Peer : HeardOut(p)
  <1>1. /\ \A p \in Peer : HeardOut(p) => HeardOut(p)'
        /\ \A p \in Peer : peerIs[p] = "lost" => peerIs'[p] = "lost"
    BY StreamsStep
  <1>2. upstreamKnown = "failed" => upstreamKnown' = "failed"
    <2>1. CASE UNCHANGED upstreamKnown
      BY <2>1
    <2>2. CASE UpstreamConnects \/ UpstreamFails
      BY <2>2 DEF UpstreamConnects, UpstreamFails, ConnectionInv
    <2>3. CASE \/ UpstreamWaits \/ UpstreamEnds
               \/ UpstreamCancelled \/ HandlerAwaits \/ HandlerRaises \/ HandlerPrepares
               \/ HandlerEnds
      BY <2>1, <2>3 DEF UpstreamWaits, UpstreamEnds, UpstreamCancelled, HandlerAwaits,
                        HandlerRaises, HandlerPrepares, HandlerEnds, HandlerOver
    <2>4. CASE Reads
      BY <2>1, <2>4, ReadsEffect
    <2>5. ASSUME NEW q \in Peer, PeerActs(q)
          PROVE  UNCHANGED upstreamKnown
      BY <2>5 DEF PeerActs, PeerSays, PeerCloses, PeerIsLost
    <2> QED
      BY <2>1, <2>2, <2>3, <2>4, <2>5, RelaySteps DEF Coordinates, relayVars
  <1>3. Cause => Cause'
    BY <1>1, <1>2, TwoPeers
  <1>4. ASSUME NEW p \in Peer, Ends(p)
        PROVE  Cause \/ wire[Other(p)] # "open"
    <2>1. CASE wire[Other(p)] # "open"
      BY <2>1
    <2>2. CASE toProxy[p] # << >> /\ Head(toProxy[p]) = 0
      <3>1. toProxy[p] \in Seq(Nat) /\ heard[Other(p)] \in Seq(Nat)
        BY DirectionIsTyped
      <3>2. PICK n \in Nat, m \in Nat : n = Len(heard[Other(p)]) /\ m = Len(toProxy[p])
        BY <3>1
      <3>3. m > 0 /\ toProxy[p][1] = 0
        BY <2>2, <3>1, <3>2
      <3>4. \A i \in 1 .. m : toProxy[p][i] = IF i = m /\ peerIs[p] # "open" THEN 0 ELSE n + i
        BY <3>2 DEF HeardInOrder
      <3>5. m = 1 /\ peerIs[p] # "open"
        <4>1. 1 \in 1 .. m
          BY <3>3
        <4>2. toProxy[p][1] = IF 1 = m /\ peerIs[p] # "open" THEN 0 ELSE n + 1
          BY <3>4, <4>1
        <4>3. n + 1 # 0
          OBVIOUS
        <4> QED
          BY <3>3, <4>2, <4>3
      <3>6. HeardOut(p)
        BY <3>2, <3>5 DEF HeardOut
      <3> QED
        BY <3>6
    <2> QED
      BY <1>4, <2>1, <2>2 DEF Ends
  <1>5. handler = "over" \/ relay = "over" => Cause
    BY DEF CauseInv
  <1>6. /\ wire["client"] \in {"none", "open", "closed"}
        /\ wire["app"] \in {"none", "open", "closed"}
    BY TwoPeers DEF RelayTypes
  <1>7. UpstreamEnds => Cause
    BY <1>4, <1>5, <1>6, TwoPeers DEF UpstreamEnds, ConnectionInv
  <1>8. UpstreamCancelled => Cause
    BY <1>5 DEF UpstreamCancelled, ConnectionInv
  <1>9. HandlerEnds => Cause
    BY <1>4, <1>5, <1>6, TwoPeers DEF HandlerEnds, ConnectionInv
  <1>10. HandlerRaises => Cause
    BY DEF HandlerRaises
  <1>11. UpstreamFails => Cause'
    BY DEF UpstreamFails
  <1>12. CASE \/ UNCHANGED <<handler, relay>>
              \/ handler' = handler /\ relay' # "over"
              \/ relay' = relay /\ handler' # "over"
    <2>1. handler' = "over" \/ relay' = "over" => handler = "over" \/ relay = "over"
      BY <1>12
    <2> QED
      BY <1>3, <1>5, <2>1 DEF CauseInv
  <1>13. CASE UpstreamConnects \/ UpstreamWaits \/ HandlerAwaits \/ HandlerPrepares
    BY <1>12, <1>13 DEF UpstreamConnects, UpstreamWaits, HandlerAwaits, HandlerPrepares
  <1>14. CASE Reads
    BY <1>12, <1>14, ReadsEffect
  <1>15. ASSUME NEW q \in Peer, PeerActs(q)
         PROVE  UNCHANGED <<handler, relay>>
    BY <1>15 DEF PeerActs, PeerSays, PeerCloses, PeerIsLost
  <1>16. Cause' => CauseInv'
    BY DEF CauseInv
  <1> HIDE DEF Cause
  <1> QED
    BY <1>3, <1>7, <1>8, <1>9, <1>10, <1>11, <1>12, <1>13, <1>14, <1>15, <1>16,
       RelaySteps DEF Coordinates, relayVars

\* Both over, and a peer that closed unless the other was gone: it has been heard out.
LEMMA LastWordsFollow == RelayInv => LastWordsArrive
  <1> SUFFICES ASSUME RelayInv, NEW p \in Peer,
                      peerIs[p] = "closed", peerIs[Other(p)] = "open",
                      handler = "over", relay = "over"
               PROVE  heard[Other(p)] = [i \in 1 .. said[p] |-> i]
    BY DEF LastWordsArrive
  <1>1. RelayTypes
    BY DEF RelayInv, RelayTypeOK, RelayTypes
  <1>2. HeardOut(p)
    <2>1. \/ upstreamKnown = "failed"
          \/ peerIs["client"] = "lost"
          \/ \E q \in Peer : HeardOut(q)
      BY DEF RelayInv, CauseInv
    <2>2. wire[p] # "none"
      BY DEF RelayInv, HeardInOrder
    <2>3. upstreamKnown # "failed"
      BY <2>2 DEF RelayInv, ConnectionInv, Peer
    <2>4. peerIs["client"] # "lost"
      BY TwoPeers DEF Peer
    <2>5. ~ HeardOut(Other(p))
      BY DEF HeardOut
    <2> QED
      BY <2>1, <2>3, <2>4, <2>5, TwoPeers
  <1> DEFINE h == heard[Other(p)]
  <1>3. h \in Seq(Nat) /\ Len(h) \in Nat /\ said[p] \in Nat
    BY <1>1, DirectionIsTyped
  <1>4. Len(h) + 1 = said[p] + 1
    BY <1>2 DEF HeardOut, RelayInv, HeardInOrder
  <1>5. \A i \in 1 .. Len(h) : h[i] = i
    BY DEF RelayInv, HeardInOrder
  <1>6. h = [i \in 1 .. Len(h) |-> h[i]]
    BY <1>3
  <1> HIDE DEF h
  <1>7. Len(h) = said[p]
    BY <1>3, <1>4
  <1>8. h = [i \in 1 .. said[p] |-> i]
    BY <1>5, <1>6, <1>7
  <1> QED
    BY <1>8 DEF h

LEMMA RelayInitInv == RelayInit => RelayInv
  <1> SUFFICES ASSUME RelayInit
               PROVE  RelayInv
    OBVIOUS
  <1> USE RelayAssumption
  <1>0. << >> \in Seq(0 .. MaxMessages) /\ << >> \in Seq(1 .. MaxMessages)
    OBVIOUS
  <1>1. RelayTypeOK
    <2>1. /\ toProxy \in [Peer -> Seq(0 .. MaxMessages)]
          /\ heard \in [Peer -> Seq(1 .. MaxMessages)]
      BY <1>0 DEF RelayInit
    <2>2. /\ wire \in [Peer -> {"none", "open", "closed"}]
          /\ said \in [Peer -> 0 .. MaxMessages]
          /\ peerIs \in [Peer -> {"open", "closed", "lost"}]
      BY DEF RelayInit
    <2> QED
      BY <2>1, <2>2 DEF RelayInit, RelayTypeOK
  <1>2. \A p \in Peer : HeardInOrder(p)
    BY TwoPeers DEF RelayInit, HeardInOrder
  <1>3. ConnectionInv /\ CauseInv
    BY TwoPeers DEF RelayInit, ConnectionInv, CauseInv
  <1> QED
    BY <1>1, <1>2, <1>3 DEF RelayInv

LEMMA RelayStepInv ==
    ASSUME RelayInv, [RelayNext]_relayVars
    PROVE  RelayInv'
  <1>1. RelayTypes /\ ConnectionInv /\ CauseInv /\ \A p \in Peer : HeardInOrder(p)
    BY DEF RelayInv, RelayTypeOK, RelayTypes
  <1>2. RelayTypes' /\ \A p \in Peer : HeardInOrder(p)'
    BY <1>1, StreamsStep
  <1>3. ConnectionInv' /\ CauseInv'
    BY <1>1, ConnectionStep, CauseStep
  <1>4. RelayTypeOK'
    BY <1>2, <1>3 DEF RelayTypes, RelayTypeOK, ConnectionInv, Peer
  <1> QED
    BY <1>2, <1>3, <1>4 DEF RelayInv

\* Both tasks of a websocket, for any number of messages, wherever either peer closes or
\* is lost and whichever task is over first: nothing is left open, and the last words of
\* a peer that closes are heard by the other (handle_websocket).
THEOREM LastWordsAreHeard == RelaySpec => [](RelayTypeOK /\ LastWordsArrive)
  <1>1. RelayInv /\ [RelayNext]_relayVars => RelayInv'
    BY RelayStepInv
  <1>2. RelayInv => RelayTypeOK /\ LastWordsArrive
    BY LastWordsFollow DEF RelayInv
  <1> QED
    BY <1>1, <1>2, RelayInitInv, PTL DEF RelaySpec
=============================================================================

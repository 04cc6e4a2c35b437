---------------------------- MODULE AppLifecycle ----------------------------
(***************************************************************************)
(* The life of an application instance (a tool or a visualisation):        *)
(*                                                                         *)
(*   - the rows of app_applicationinstance, one variable per column, since *)
(*     every write after the INSERT is a save(update_fields=[...]) of some *)
(*     columns only;                                                       *)
(*   - the handlers of /api/v1/application/<host> (GET, PUT, PATCH,        *)
(*     DELETE) and the two pages that stop an application, each split at   *)
(*     the points where another process can run: requests are not run in a *)
(*     transaction, so a row read by the first query of a handler may have *)
(*     changed when the handler writes it;                                 *)
(*   - the Celery tasks spawn, stop and kill_idle_fargate;                 *)
(*   - what they drive: ECS tasks and GitLab image-build pipelines.        *)
(*                                                                         *)
(* An element of Instance is the uuid of a row; a uuid is used by at most  *)
(* one row.                                                                *)
(***************************************************************************)
EXTENDS Naturals

CONSTANTS
    Host,       \* public host names for which an application template exists
    Instance,   \* ids of application instances
    Request,    \* Django workers' in-flight HTTP requests
    Op,         \* the operations requests perform in this instance
    None,       \* the value of a column or field that is not set
    Builds,     \* may an instance need its image built by a pipeline?
    Faults,     \* which calls to AWS may fail: subset of FaultKinds
    Ages,       \* the ages of an instance that are told apart, see below
    MaxStops,   \* bound on the stop tasks queued for one instance
    MaxCrashes  \* bound on the crashes of Django and Celery processes

\* The methods of the API, and STOP for the pages that stop an application.
Method == {"GET", "PUT", "PATCH", "DELETE", "STOP"}

FaultKinds == {"describe", "run", "stop"}

ASSUME ConstantsAssumption ==
    /\ Host \cap Instance = {}
    /\ None \notin Host \cup Instance
    /\ Op \subseteq Method
    /\ Builds \in BOOLEAN
    /\ Faults \subseteq FaultKinds
    /\ Ages \subseteq 0 .. 4
    /\ MaxStops \in Nat
    /\ MaxCrashes \in Nat

VARIABLES
    \* Columns of app_applicationinstance; a row that does not exist yet has
    \* state "ABSENT".
    host,       \* public_host
    state,      \* state
    key,        \* single_running_or_spawning_integrity
    spawnerId,  \* which ids spawner_application_instance_id holds
    url,        \* is proxy_url set?
    \* Time, in the units the code compares with
    age,        \* how long ago created_date is
    built,      \* how long ago the pipeline's finished_at is
    \* Processes
    req,        \* the state of each HTTP request
    reap,       \* kill_idle_fargate's loop body for each instance
    spawn,      \* where the spawn task of each instance is
    stops,      \* number of stop tasks queued for each instance
    crashes,    \* number of crashes so far
    \* External systems
    ecs,        \* the Fargate task started for each instance
    pipeline    \* the GitLab pipeline started for each instance

columns  == <<host, state, key, spawnerId, url>>
clock    == <<age, built>>
external == <<ecs, pipeline>>
vars == <<columns, clock, req, reap, spawn, stops, crashes, external>>

(***************************************************************************)
(* Ages are kept as the interval between two of the code's thresholds: an  *)
(* age of ThreeMinutes is one from three minutes up to thirty.             *)
(***************************************************************************)
SixtySeconds  == 1
ThreeMinutes  == 2
ThirtyMinutes == 3
TwoHours      == 4

VisibleStates == {"SPAWNING", "RUNNING"}

\* The local state of a request: where it is, what it was asked to do, the
\* instance and the columns it has read, and its reply.
RequestAt(pc, op, h, i, seen, status) ==
    [pc |-> pc, op |-> op, host |-> h, inst |-> i, seen |-> seen,
     status |-> status, api |-> None, url |-> FALSE]

\* A request that has not started, or whose reply has been read.
IdleRequest == RequestAt("idle", None, None, None, None, 0)

Phase == {"none", "queued", "credentials", "building", "unsaved",
          "saved", "polling", "cleanup", "ended"}

Init ==
    /\ host = [i \in Instance |-> None]
    /\ state = [i \in Instance |-> "ABSENT"]
    /\ key = [i \in Instance |-> None]
    /\ spawnerId = [i \in Instance |-> {}]
    /\ url = [i \in Instance |-> FALSE]
    /\ age = [i \in Instance |-> 0]
    /\ built = [i \in Instance |-> 0]
    /\ req = [r \in Request |-> IdleRequest]
    /\ reap = [i \in Instance |-> "idle"]
    /\ spawn = [i \in Instance |-> "none"]
    /\ stops = [i \in Instance |-> 0]
    /\ crashes = 0
    /\ ecs = [i \in Instance |-> "none"]
    /\ pipeline = [i \in Instance |-> "none"]

(***************************************************************************)
(* Reads of the table.                                                     *)
(***************************************************************************)
Visible(h) == {i \in Instance : host[i] = h /\ state[i] \in VisibleStates}

\* .get() raises MultipleObjectsReturned, which no handler catches.
Ambiguous(h) == \E i, j \in Visible(h) : i # j

\* What a query reads of a row and the handler keeps in memory.
RowOf(i) == [state |-> state[i], id |-> spawnerId[i], url |-> url[i]]

NewRow == [state |-> "SPAWNING", id |-> {}, url |-> FALSE]

(***************************************************************************)
(* FargateSpawner.state: s is a value it can return for instance i, given  *)
(* the ids in the row that was read.  With "describe" in Faults a call to  *)
(* ECS or GitLab may raise (the handler then answers STOPPED), and ECS,    *)
(* which is eventually consistent, may not know the task.                  *)
(***************************************************************************)
TaskShouldBeCreated(i, id) == IF "pipeline" \in id THEN built[i] ELSE age[i]

SpawnerState(i, id, s) ==
    \/ /\ id = {}
       /\ s = IF age[i] < SixtySeconds THEN "RUNNING" ELSE "STOPPED"
    \/ /\ id = {"pipeline"}
       /\ s = IF \/ pipeline[i] = "running" /\ age[i] < ThirtyMinutes
                 \/ pipeline[i] = "success" /\ built[i] < SixtySeconds
              THEN "RUNNING" ELSE "STOPPED"
    \/ /\ "task" \in id
       /\ s = IF ecs[i] = "live" THEN "RUNNING" ELSE "STOPPED"
    \/ /\ "task" \in id
       /\ "describe" \in Faults
       /\ s = IF TaskShouldBeCreated(i, id) < ThreeMinutes
              THEN "RUNNING" ELSE "STOPPED"
    \/ /\ id # {}
       /\ "describe" \in Faults
       /\ s = "STOPPED"

(***************************************************************************)
(* Steps of a request.                                                     *)
(***************************************************************************)
Reply(r, op, h, status) ==
    req' = [req EXCEPT ![r] = RequestAt("done", op, h, None, None, status)]

Goto(r, op, h, pc, i, seen) ==
    req' = [req EXCEPT ![r] = RequestAt(pc, op, h, i, seen, 0)]

\* The first query of every handler: one visible row, none, or several.
\* Only GET uses the columns it read later on.
Lookup(r, op, h, missing, pc) ==
    /\ req[r].pc = "idle"
    /\ \/ Visible(h) = {} /\ Reply(r, op, h, missing)
       \/ \E i \in Instance :
             /\ Visible(h) = {i}
             /\ Goto(r, op, h, pc, i, IF op = "GET" THEN RowOf(i) ELSE None)
       \/ Ambiguous(h) /\ Reply(r, op, h, 500)
    /\ UNCHANGED <<columns, clock, reap, spawn, stops, crashes, external>>

Get(r, h) == Lookup(r, "GET", h, 404, "describe")

Patch(r, h) == Lookup(r, "PATCH", h, 404, "patch")

Delete(r, h) == Lookup(r, "DELETE", h, 200, "save")

\* The tools page and the release of a visualisation's commit.
Stop(r, h) == Lookup(r, "STOP", h, 200, "delay_stop")

\* For PUT a row that is found is the conflict, and its absence goes on.
Put(r, h) ==
    /\ req[r].pc = "idle"
    /\ \/ Visible(h) = {} /\ Goto(r, "PUT", h, "create", None, None)
       \/ (\E i \in Instance : Visible(h) = {i}) /\ Reply(r, "PUT", h, 409)
       \/ Ambiguous(h) /\ Reply(r, "PUT", h, 500)
    /\ UNCHANGED <<columns, clock, reap, spawn, stops, crashes, external>>

\* ApplicationInstance.objects.create: the INSERT succeeds only if no row
\* has the key.
KeyTaken(h) == \E i \in Instance : key[i] = h

PutCreate(r) ==
    LET h == req[r].host IN
    /\ req[r].pc = "create"
    /\ ~ KeyTaken(h)
    /\ \E i \in Instance :
          /\ state[i] = "ABSENT"
          /\ host' = [host EXCEPT ![i] = h]
          /\ state' = [state EXCEPT ![i] = "SPAWNING"]
          /\ key' = [key EXCEPT ![i] = h]
          /\ Goto(r, "PUT", h, "delay_spawn", i, NewRow)
    /\ UNCHANGED <<spawnerId, url, clock, reap, spawn, stops, crashes, external>>

\* The INSERT raises IntegrityError; the existing row is read in a new query.
PutIntegrityError(r) ==
    LET h == req[r].host IN
    /\ req[r].pc = "create"
    /\ KeyTaken(h)
    /\ req' = [req EXCEPT ![r].pc = "reget"]
    /\ UNCHANGED <<columns, clock, reap, spawn, stops, crashes, external>>

\* DoesNotExist is not caught here: the row may have been stopped since.
PutReget(r) ==
    LET h == req[r].host IN
    /\ req[r].pc = "reget"
    /\ \/ \E i \in Instance :
             /\ Visible(h) = {i}
             /\ Goto(r, "PUT", h, "describe", i, RowOf(i))
       \/ /\ Visible(h) = {} \/ Ambiguous(h)
          /\ Reply(r, "PUT", h, 500)
    /\ UNCHANGED <<columns, clock, reap, spawn, stops, crashes, external>>

PutDelaySpawn(r) ==
    /\ req[r].pc = "delay_spawn"
    /\ spawn' = [spawn EXCEPT ![req[r].inst] = "queued"]
    /\ req' = [req EXCEPT ![r].pc = "describe"]
    /\ UNCHANGED <<columns, clock, reap, stops, crashes, external>>

\* api_application_dict, from the row read earlier and the spawner's state
\* now: the state in the database only if the spawner is running.
ApplicationDict(q, s) ==
    [pc |-> "done", op |-> q.op, host |-> q.host, inst |-> q.inst,
     seen |-> None, status |-> 200,
     api |-> IF s = "RUNNING" THEN q.seen.state ELSE s, url |-> q.seen.url]

Describe(r) ==
    /\ req[r].pc = "describe"
    /\ \E s \in {"RUNNING", "STOPPED"} :
          /\ SpawnerState(req[r].inst, req[r].seen.id, s)
          /\ req' = [req EXCEPT ![r] = ApplicationDict(req[r], s)]
    /\ UNCHANGED <<columns, clock, reap, spawn, stops, crashes, external>>

\* Mutant: save() of the whole row that was read, stale columns included.
PatchSaveWholeRow(r) ==
    LET i == req[r].inst IN
    /\ req[r].pc = "patch"
    /\ ~ KeyTaken(req[r].host) \/ key[i] = req[r].host
    /\ state' = [state EXCEPT ![i] = "RUNNING"]
    /\ key' = [key EXCEPT ![i] = req[r].host]
    /\ Reply(r, req[r].op, req[r].host, 200)
    /\ UNCHANGED <<host, spawnerId, url, clock, reap, spawn, stops, crashes, external>>

\* save(update_fields=["state"]) of the row read earlier.
PatchSave(r) ==
    /\ req[r].pc = "patch"
    /\ state' = [state EXCEPT ![req[r].inst] = "RUNNING"]
    /\ Reply(r, req[r].op, req[r].host, 200)
    /\ UNCHANGED <<host, key, spawnerId, url, clock, reap, spawn, stops,
                   crashes, external>>

\* Mutant: the integrity column is missing from update_fields.
SetStoppedKeepsKey(i) ==
    /\ state' = [state EXCEPT ![i] = "STOPPED"]
    /\ UNCHANGED key

\* set_application_stopped
SetStopped(i) ==
    /\ state' = [state EXCEPT ![i] = "STOPPED"]
    /\ key' = [key EXCEPT ![i] = i]

DelayStop(i) ==
    /\ stops[i] < MaxStops
    /\ stops' = [stops EXCEPT ![i] = @ + 1]

\* stop_spawner_and_application queues the task first and saves second.
StopDelay(r) ==
    /\ req[r].pc = "delay_stop"
    /\ DelayStop(req[r].inst)
    /\ req' = [req EXCEPT ![r].pc = "save"]
    /\ UNCHANGED <<columns, clock, reap, spawn, crashes, external>>

StopSave(r) ==
    /\ req[r].pc = "save"
    /\ SetStopped(req[r].inst)
    /\ Reply(r, req[r].op, req[r].host, 200)
    /\ UNCHANGED <<host, spawnerId, url, clock, reap, spawn, stops, crashes,
                   external>>

\* The client has the response.
Return(r) ==
    /\ req[r].pc = "done"
    /\ req' = [req EXCEPT ![r] = IdleRequest]
    /\ UNCHANGED <<columns, clock, reap, spawn, stops, crashes, external>>

\* The Django process serving the request goes down: nothing is resumed.
RequestCrash(r) ==
    /\ req[r].pc \notin {"idle", "done"}
    /\ crashes < MaxCrashes
    /\ crashes' = crashes + 1
    /\ Reply(r, req[r].op, req[r].host, 500)
    /\ UNCHANGED <<columns, clock, reap, spawn, stops, external>>

(***************************************************************************)
(* kill_idle_fargate: the rows are read once, at the start of a run, and   *)
(* treated one by one; a run treats a row on the state read then.          *)
(***************************************************************************)
\* Mutant: only RUNNING instances are looked at.
ReapStartRunningOnly(i) ==
    /\ reap[i] = "idle"
    /\ state[i] = "RUNNING"
    /\ age[i] >= TwoHours
    /\ reap' = [reap EXCEPT ![i] = "metrics"]
    /\ UNCHANGED <<columns, clock, req, spawn, stops, crashes, external>>

ReapStart(i) ==
    /\ reap[i] = "idle"
    /\ state[i] \in VisibleStates
    /\ age[i] >= TwoHours
    /\ reap' = [reap EXCEPT ![i] =
                  IF state[i] = "SPAWNING" THEN "delay_stop" ELSE "metrics"]
    /\ UNCHANGED <<columns, clock, req, spawn, stops, crashes, external>>

\* A RUNNING application is stopped if its CPU is known and below 1%; an
\* unreachable metrics server, or one that has no value, means skip.
ReapMetrics(i) ==
    /\ reap[i] = "metrics"
    /\ \E pc \in {"idle", "delay_stop"} : reap' = [reap EXCEPT ![i] = pc]
    /\ UNCHANGED <<columns, clock, req, spawn, stops, crashes, external>>

ReapDelay(i) ==
    /\ reap[i] = "delay_stop"
    /\ DelayStop(i)
    /\ reap' = [reap EXCEPT ![i] = "save"]
    /\ UNCHANGED <<columns, clock, req, spawn, crashes, external>>

ReapSave(i) ==
    /\ reap[i] = "save"
    /\ SetStopped(i)
    /\ reap' = [reap EXCEPT ![i] = "idle"]
    /\ UNCHANGED <<host, spawnerId, url, clock, req, spawn, stops, crashes,
                   external>>

ReapCrash(i) ==
    /\ reap[i] # "idle"
    /\ crashes < MaxCrashes
    /\ crashes' = crashes + 1
    /\ reap' = [reap EXCEPT ![i] = "idle"]
    /\ UNCHANGED <<columns, clock, req, spawn, stops, external>>

(***************************************************************************)
(* The Celery task spawn, then FargateSpawner.spawn.                       *)
(***************************************************************************)
SpawnGoto(i, phase) == spawn' = [spawn EXCEPT ![i] = phase]

\* new_private_database_credentials and write_credentials_to_bucket run
\* before the try: if they raise, nothing is cleaned up and the row stays
\* SPAWNING.
SpawnCredentials(i) ==
    /\ spawn[i] = "queued"
    /\ \E phase \in {"credentials", "ended"} : SpawnGoto(i, phase)
    /\ UNCHANGED <<columns, clock, req, reap, stops, crashes, external>>

\* Database users stored, IAM role created; then, if the image does not
\* exist, its pipeline is triggered and the pipeline's id saved.
SpawnTriggerPipeline(i) ==
    /\ Builds
    /\ spawn[i] = "credentials"
    /\ SpawnGoto(i, "building")
    /\ pipeline' = [pipeline EXCEPT ![i] = "running"]
    /\ spawnerId' = [spawnerId EXCEPT ![i] = {"pipeline"}]
    /\ UNCHANGED <<host, state, key, url, clock, req, reap, stops, crashes, ecs>>

\* 900 polls, three seconds apart: a failed pipeline ends the spawn, and one
\* that still runs after the last poll is cancelled.
SpawnPipelineFails(i) ==
    /\ spawn[i] = "building"
    /\ \/ pipeline[i] = "failed" /\ UNCHANGED pipeline
       \/ /\ pipeline[i] = "running"
          /\ age[i] >= ThirtyMinutes
          /\ pipeline' = [pipeline EXCEPT ![i] = "failed"]
    /\ SpawnGoto(i, "cleanup")
    /\ UNCHANGED <<columns, clock, req, reap, stops, crashes, ecs>>

\* run_task, after up to ten attempts, once the image is there.
SpawnRunTask(i) ==
    /\ \/ spawn[i] = "credentials"
       \/ spawn[i] = "building" /\ pipeline[i] = "success"
    /\ \/ /\ SpawnGoto(i, "unsaved")
          /\ ecs' = [ecs EXCEPT ![i] = "live"]
       \/ /\ "run" \in Faults
          /\ SpawnGoto(i, "cleanup")
          /\ UNCHANGED ecs
    /\ UNCHANGED <<columns, clock, req, reap, stops, crashes, pipeline>>

\* Mutant: spawner_application_instance_id is missing from update_fields.
SpawnSaveTaskForgetsId(i) ==
    /\ spawn[i] = "unsaved"
    /\ SpawnGoto(i, "saved")
    /\ UNCHANGED <<columns, clock, req, reap, stops, crashes, external>>

SpawnSaveTask(i) ==
    /\ spawn[i] = "unsaved"
    /\ SpawnGoto(i, "saved")
    /\ spawnerId' = [spawnerId EXCEPT ![i] = @ \cup {"task"}]
    /\ UNCHANGED <<host, state, key, url, clock, req, reap, stops, crashes,
                   external>>

\* Mutant: the state read when the task started is checked.
SpawnRefreshStale(i) ==
    /\ spawn[i] = "saved"
    /\ SpawnGoto(i, "polling")
    /\ UNCHANGED <<columns, clock, req, reap, stops, crashes, external>>

\* refresh_from_db, and the check that the application was not stopped.
SpawnRefresh(i) ==
    /\ spawn[i] = "saved"
    /\ SpawnGoto(i, IF state[i] = "STOPPED" THEN "cleanup" ELSE "polling")
    /\ UNCHANGED <<columns, clock, req, reap, stops, crashes, external>>

SpawnPollIp(i) ==
    /\ spawn[i] = "polling"
    /\ \/ /\ ecs[i] = "live"
          /\ url' = [url EXCEPT ![i] = TRUE]
          /\ SpawnGoto(i, "ended")
       \/ /\ SpawnGoto(i, "cleanup")
          /\ UNCHANGED url
    /\ UNCHANGED <<host, state, key, spawnerId, clock, req, reap, stops,
                   crashes, external>>

\* The except clause: the task is stopped, then the pipeline cancelled; if
\* six attempts to stop the task fail the pipeline is left alone.
SpawnCleanup(i) ==
    /\ spawn[i] = "cleanup"
    /\ SpawnGoto(i, "ended")
    /\ \/ /\ ecs' = [ecs EXCEPT ![i] = IF @ = "live" THEN "dead" ELSE @]
          /\ pipeline' = [pipeline EXCEPT ![i] =
                            IF @ = "running" THEN "failed" ELSE @]
       \/ /\ "stop" \in Faults
          /\ ecs[i] # "none"
          /\ UNCHANGED external
    /\ UNCHANGED <<columns, clock, req, reap, stops, crashes>>

\* The Celery worker goes down.  Celery acknowledges a message before it
\* runs the task, so the task is not run again.
SpawnCrash(i) ==
    /\ spawn[i] \notin {"none", "queued", "ended"}
    /\ crashes < MaxCrashes
    /\ crashes' = crashes + 1
    /\ SpawnGoto(i, "ended")
    /\ UNCHANGED <<columns, clock, req, reap, stops, external>>

(***************************************************************************)
(* The Celery task stop, then FargateSpawner.stop: without a task_arn in   *)
(* the row it raises, and stops nothing.                                   *)
(***************************************************************************)
StopTask(i) ==
    /\ stops[i] > 0
    /\ stops' = [stops EXCEPT ![i] = @ - 1]
    /\ \/ /\ "task" \in spawnerId[i]
          /\ ecs' = [ecs EXCEPT ![i] = "dead"]
       \/ /\ "task" \notin spawnerId[i] \/ "stop" \in Faults
          /\ UNCHANGED ecs
    /\ UNCHANGED <<columns, clock, req, reap, spawn, crashes, pipeline>>

(***************************************************************************)
(* External systems and time.                                              *)
(***************************************************************************)
EcsTaskExits(i) ==
    /\ ecs[i] = "live"
    /\ ecs' = [ecs EXCEPT ![i] = "dead"]
    /\ UNCHANGED <<columns, clock, req, reap, spawn, stops, crashes, pipeline>>

PipelineFinishes(i) ==
    /\ pipeline[i] = "running"
    /\ \E s \in {"success", "failed"} : pipeline' = [pipeline EXCEPT ![i] = s]
    /\ UNCHANGED <<columns, clock, req, reap, spawn, stops, crashes, ecs>>

AgeInstance(i) ==
    /\ state[i] # "ABSENT"
    /\ \E a \in Ages : a > age[i] /\ age' = [age EXCEPT ![i] = a]
    /\ UNCHANGED <<columns, built, req, reap, spawn, stops, crashes, external>>

AgePipeline(i) ==
    /\ pipeline[i] = "success"
    /\ built[i] < ThreeMinutes
    /\ built' = [built EXCEPT ![i] = @ + 1]
    /\ UNCHANGED <<columns, age, req, reap, spawn, stops, crashes, external>>

(***************************************************************************)
(* The specification.                                                      *)
(***************************************************************************)
StartRequest(r, h) ==
    \/ "GET" \in Op /\ Get(r, h)
    \/ "PUT" \in Op /\ Put(r, h)
    \/ "PATCH" \in Op /\ Patch(r, h)
    \/ "DELETE" \in Op /\ Delete(r, h)
    \/ "STOP" \in Op /\ Stop(r, h)

RequestStep(r) ==
    \/ PutCreate(r) \/ PutIntegrityError(r) \/ PutReget(r) \/ PutDelaySpawn(r)
    \/ Describe(r) \/ PatchSave(r) \/ StopDelay(r) \/ StopSave(r)

ReapStep(i) == ReapStart(i) \/ ReapMetrics(i) \/ ReapDelay(i) \/ ReapSave(i)

SpawnStep(i) ==
    \/ SpawnCredentials(i) \/ SpawnTriggerPipeline(i)
    \/ SpawnPipelineFails(i) \/ SpawnRunTask(i) \/ SpawnSaveTask(i) \/ SpawnRefresh(i)
    \/ SpawnPollIp(i) \/ SpawnCleanup(i)

Crash ==
    \/ \E r \in Request : RequestCrash(r)
    \/ \E i \in Instance : ReapCrash(i) \/ SpawnCrash(i)

Environment(i) ==
    EcsTaskExits(i) \/ PipelineFinishes(i) \/ AgeInstance(i) \/ AgePipeline(i)

\* Everything but the start and the end of a request, which a client decides.
SystemNext ==
    \/ \E r \in Request : RequestStep(r)
    \/ \E i \in Instance : ReapStep(i) \/ SpawnStep(i) \/ StopTask(i)
                             \/ Environment(i)
    \/ Crash

Next ==
    \/ \E r \in Request : Return(r) \/ \E h \in Host : StartRequest(r, h)
    \/ SystemNext

\* Django finishes the requests it accepted, Celery runs its queued and its
\* scheduled tasks, and time passes.  No request is ever promised.
Fairness ==
    /\ \A r \in Request : WF_vars(RequestStep(r))
    /\ \A i \in Instance :
          /\ WF_vars(ReapStep(i))
          /\ WF_vars(SpawnStep(i))
          /\ WF_vars(StopTask(i))
          /\ WF_vars(AgeInstance(i))

SafetySpec == Init /\ [][Next]_vars

Spec == SafetySpec /\ Fairness

(***************************************************************************)
(* Properties.                                                             *)
(***************************************************************************)
Row == [state : VisibleStates, id : SUBSET {"pipeline", "task"}, url : BOOLEAN]

RequestType ==
    [pc : {"idle", "describe", "create", "reget", "delay_spawn", "patch",
           "delay_stop", "save", "done"},
     op : Method \cup {None},
     host : Host \cup {None},
     inst : Instance \cup {None},
     seen : Row \cup {None},
     status : {0, 200, 404, 409, 500},
     api : {"SPAWNING", "RUNNING", "STOPPED", None},
     url : BOOLEAN]

\* Every column, process and external resource holds a value the code can
\* give it.
TypeOK ==
    /\ host \in [Instance -> Host \cup {None}]
    /\ state \in [Instance -> {"ABSENT", "SPAWNING", "RUNNING", "STOPPED"}]
    /\ key \in [Instance -> Host \cup Instance \cup {None}]
    /\ spawnerId \in [Instance -> SUBSET {"pipeline", "task"}]
    /\ url \in [Instance -> BOOLEAN]
    /\ age \in [Instance -> 0 .. TwoHours]
    /\ built \in [Instance -> 0 .. ThreeMinutes]
    /\ req \in [Request -> RequestType]
    /\ reap \in [Instance -> {"idle", "metrics", "delay_stop", "save"}]
    /\ spawn \in [Instance -> Phase]
    /\ stops \in [Instance -> 0 .. MaxStops]
    /\ crashes \in 0 .. MaxCrashes
    /\ ecs \in [Instance -> {"none", "live", "dead"}]
    /\ pipeline \in [Instance -> {"none", "running", "success", "failed"}]

\* However requests, the reaper and crashes interleave, a host never has two
\* instances that are being spawned: the race of two PUTs is decided by the
\* unique single_running_or_spawning_integrity.
OneSpawningPerHost ==
    \A i, j \in Instance :
        /\ state[i] = "SPAWNING" /\ state[j] = "SPAWNING"
        /\ host[i] = host[j]
        => i = j

\* A host is never locked out: its integrity key is only ever held by a row
\* that the API still shows, so that a DELETE or a stop can release it.  A
\* row that is STOPPED for good and still holds the key would make every
\* later PUT fail with an IntegrityError.
KeyHolderIsVisible ==
    \A i \in Instance, h \in Host :
        key[i] = h => host[i] = h /\ state[i] \in VisibleStates

(***************************************************************************)
(* The inductive invariant behind the three safety properties above and    *)
(* below: what a request in flight still knows about the row it read, who  *)
(* can hold an integrity key, and how far each phase of the spawn task has *)
(* filled in the row.                                                      *)
(***************************************************************************)
HasRow == {"describe", "delay_spawn", "patch", "delay_stop", "save"}

RequestInv ==
    /\ \A r \in Request :
          /\ req[r].pc # "idle" => req[r].op \in Method /\ req[r].host \in Host
          /\ req[r].pc \in HasRow =>
                req[r].inst \in Instance /\ state[req[r].inst] # "ABSENT"
          /\ req[r].pc \in {"describe", "delay_spawn"} => req[r].seen \in Row
          /\ req[r].pc = "delay_spawn" => spawn[req[r].inst] = "none"
    /\ \A q, r \in Request :
          /\ req[q].pc = "delay_spawn" /\ req[r].pc = "delay_spawn"
          /\ req[q].inst = req[r].inst
          => q = r

SlotInv ==
    /\ \A i \in Instance :
          /\ state[i] = "ABSENT" => host[i] = None /\ key[i] = None /\ spawn[i] = "none"
          /\ state[i] # "ABSENT" => host[i] \in Host
          /\ state[i] = "SPAWNING" => key[i] = host[i]
          /\ state[i] = "RUNNING" => key[i] \in {host[i], i}
          /\ state[i] = "STOPPED" => key[i] = i
          /\ reap[i] # "idle" => state[i] # "ABSENT"
    /\ \A i, j \in Instance : key[i] = key[j] /\ key[i] \in Host => i = j

SpawnInv ==
    \A i \in Instance :
        /\ spawn[i] \in {"none", "queued", "credentials", "building", "unsaved"} =>
              ~ url[i] /\ "task" \notin spawnerId[i]
        /\ spawn[i] \in {"none", "queued", "credentials"} => ecs[i] = "none"
        /\ spawn[i] \in {"unsaved", "saved", "polling"} => ecs[i] # "none"
        /\ spawn[i] \in {"saved", "polling"} => "task" \in spawnerId[i]
        /\ url[i] => "task" \in spawnerId[i]
        /\ "task" \in spawnerId[i] => ecs[i] # "none"

\* Which operation of the API can be at which of its steps, and that a 200 to a GET or
\* a PUT is about an instance (api_application_dict).
CallInv ==
    \A r \in Request :
        /\ req[r].pc \in {"create", "reget", "delay_spawn"} => req[r].op = "PUT"
        /\ req[r].pc = "patch" => req[r].op = "PATCH"
        /\ req[r].pc \in {"delay_stop", "save"} => req[r].op \in {"DELETE", "STOP"}
        /\ req[r].pc = "done" /\ req[r].status = 200 /\ req[r].op \in {"GET", "PUT"}
              => req[r].inst \in Instance

\* Everything the proofs need to know of a reachable state.
LifecycleInv == TypeOK /\ RequestInv /\ SlotInv /\ SpawnInv

\* The unique column implements a slot per host.
held == {p \in Host \X Instance : key[p[2]] = p[1]}
used == {i \in Instance : state[i] # "ABSENT"}
Slot == INSTANCE HostSlot WITH held <- held, used <- used

\* Rows, handlers and reaper implement the slot of a host: it is taken by the
\* INSERT of application_api_PUT only, given up by set_application_stopped,
\* and a late PATCH that makes a stopped instance RUNNING again does not take
\* it back.
ImplementsHostSlot == Slot!Spec

\* The proxy is only given the address of a task that was started for that
\* very row, and whose ARN the row records, so that whoever sees the
\* application can also stop it.
AddressImpliesStoppable ==
    \A i \in Instance : url[i] => "task" \in spawnerId[i] /\ ecs[i] # "none"

\* What models.py and application_api_PUT say the integrity key is for: no
\* host has two instances that are running or spawning.
SingleVisible == \A h \in Host : ~ Ambiguous(h)

\* An instance never stays SPAWNING, whatever became of its spawn task: the
\* reaper stops it two hours after it was created, at the latest.
SpawningEnds ==
    \A i \in Instance : state[i] = "SPAWNING" ~> state[i] # "SPAWNING"

\* An instance that is stopped while its spawn task has not yet checked for
\* that leaves no Fargate task behind: the spawn task stops what it started,
\* unless a late PATCH has made the instance visible again, or a process has
\* crashed, or AWS refuses to stop the task.
LateStopIsHonoured ==
    \A i \in Instance :
        state[i] = "STOPPED"
        /\ spawn[i] \in {"queued", "credentials", "building", "unsaved",
                         "saved"}
        ~> \/ spawn[i] = "ended" /\ ecs[i] # "live"
           \/ state[i] \in VisibleStates
           \/ crashes > 0
           \/ "stop" \in Faults

\* The integrity key is a lock that is neither shared nor lost: at most one instance of
\* a host is being spawned, and the key of a host is held by a row that the API shows,
\* so that it can be given back (application_api_PUT, set_application_stopped).
HostKeySafety ==
  /\ OneSpawningPerHost
  /\ KeyHolderIsVisible

\* Every row is well formed, and a row that gives the proxy an address also has what
\* stopping needs, whatever call fails (FargateSpawner.spawn).
InstanceSafety ==
  /\ TypeOK
  /\ AddressImpliesStoppable
=============================================================================

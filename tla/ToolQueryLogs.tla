---------------------------- MODULE ToolQueryLogs ----------------------------
(***************************************************************************)
(* sync_tool_query_logs: every two minutes a Celery task copies what       *)
(* PostgreSQL's audit log says of queries made by tools into the admin     *)
(* database.  How far it got is in the cache, which forgets after five     *)
(* minutes; without it the task looks back five minutes.  Time is in       *)
(* minutes.                                                                *)
(***************************************************************************)
EXTENDS Naturals, FiniteSets

CONSTANTS
    Entry,       \* statements that tools run
    Worker,      \* Celery processes that may run the task
    Nobody,
    Beat,        \* minutes between two runs: 2 in the settings
    LookBack,    \* minutes the marker lives, and minutes to look back: 5
    RunMinutes,  \* minutes a run takes at most
    FailMinutes, \* minutes into a run that it fails at most
    MaxClock, SyncFaults

ASSUME ToolQueryLogsAssumption ==
    /\ Nobody \notin Worker
    /\ Beat \in Nat \ {0} /\ LookBack \in Nat /\ RunMinutes \in Nat /\ FailMinutes \in Nat
    /\ MaxClock \in Nat \ {0} /\ SyncFaults \in Nat

VARIABLES
    clock,
    due,        \* the run of this beat has not started
    logTime,    \* when an entry was logged, 0 before
    ownerless,  \* entries of databases, or users, that are not known (any more)
    logMarker,     \* query_tool_logs_last_run in the cache, and when it was set
    lastRunLock,
    auditLog,   \* entries that have their row of ToolQueryAuditLog
    logTables,     \* entries whose tables are recorded
    logSync,       \* the run of each worker
    syncFaults

toolLogVars == <<clock, due, logTime, ownerless, logMarker, lastRunLock, auditLog, logTables,
                 logSync, syncFaults>>

NoRun == [pc |-> "idle", start |-> 0, from |-> 0, to |-> 0, logs |-> {},
          made |-> {}]
NoMarker == [at |-> 0, set |-> 0]

ToolLogInit ==
    /\ clock = 1
    /\ due = FALSE
    /\ logTime = [e \in Entry |-> 0]
    /\ ownerless = {}
    /\ logMarker = NoMarker
    /\ lastRunLock = Nobody
    /\ auditLog = {}
    /\ logTables = {}
    /\ logSync = [w \in Worker |-> NoRun]
    /\ syncFaults = 0

SyncGoto(w, from, to) ==
    /\ logSync[w].pc = from
    /\ logSync' = [logSync EXCEPT ![w].pc = to]

(***************************************************************************)
(* Time, the tools, and the users of databases.                            *)
(***************************************************************************)
\* Runs start on time and end within RunMinutes.
Tick ==
    /\ clock < MaxClock
    /\ ~ due
    /\ \A w \in Worker : logSync[w].pc # "idle" => clock < logSync[w].start + RunMinutes
    /\ clock' = clock + 1
    /\ due' = (clock' % Beat = 0)
    /\ UNCHANGED <<logTime, ownerless, logMarker, lastRunLock, auditLog, logTables, logSync, syncFaults>>

LogQuery(e) ==
    /\ logTime[e] = 0
    /\ logTime' = [logTime EXCEPT ![e] = clock]
    /\ UNCHANGED <<clock, due, ownerless, logMarker, lastRunLock, auditLog, logTables, logSync, syncFaults>>

\* The temporary user is deleted (DbUsers) before its queries are copied.
OwnerDeleted(e) ==
    /\ e \notin ownerless
    /\ ownerless' = ownerless \cup {e}
    /\ UNCHANGED <<clock, due, logTime, logMarker, lastRunLock, auditLog, logTables, logSync, syncFaults>>

(***************************************************************************)
(* sync_tool_query_logs.                                                   *)
(***************************************************************************)
Marked == logMarker # NoMarker /\ clock <= logMarker.set + LookBack

\* from_date and to_date of a run that starts now.
SyncStarted ==
    [pc |-> "fetch", start |-> clock, to |-> clock, logs |-> {}, made |-> {},
     from |-> IF Marked THEN logMarker.at ELSE IF clock > LookBack THEN clock - LookBack ELSE 0]

\* blocking_timeout=0: a run that finds the lock taken does nothing.
SyncStart(w) ==
    /\ due
    /\ due' = FALSE
    /\ logSync[w].pc = "idle"
    /\ \/ /\ lastRunLock = Nobody
          /\ lastRunLock' = w
          /\ logSync' = [logSync EXCEPT ![w] = SyncStarted]
       \/ lastRunLock # Nobody /\ UNCHANGED <<lastRunLock, logSync>>
    /\ UNCHANGED <<clock, logTime, ownerless, logMarker, auditLog, logTables, syncFaults>>

\* Log times are instants, so what is logged in the minute of to_date counts as
\* later than to_date.
FetchLogs(w) ==
    /\ logSync[w].pc = "fetch"
    /\ logSync' = [logSync EXCEPT ![w].pc = "copy",
                            ![w].logs = {e \in Entry : /\ logTime[e] # 0
                                                       /\ logSync[w].from <= logTime[e]
                                                       /\ logTime[e] < logSync[w].to}]
    /\ UNCHANGED <<clock, due, logTime, ownerless, logMarker, lastRunLock, auditLog, logTables, syncFaults>>

\* The database or its user is not known, or the unique index finds the entry
\* copied already: the next one.
SkipEntry(w, e) ==
    /\ logSync[w].pc = "copy"
    /\ e \in logSync[w].logs \cap (ownerless \cup auditLog)
    /\ logSync' = [logSync EXCEPT ![w].logs = @ \ {e}]
    /\ UNCHANGED <<clock, due, logTime, ownerless, logMarker, lastRunLock, auditLog, logTables, syncFaults>>

CreateEntry(w, e) ==
    /\ logSync[w].pc = "copy"
    /\ e \in logSync[w].logs \ (ownerless \cup auditLog)
    /\ auditLog' = auditLog \cup {e}
    /\ logSync' = [logSync EXCEPT ![w].pc = "tables", ![w].logs = @ \ {e},
                            ![w].made = {e}]
    /\ UNCHANGED <<clock, due, logTime, ownerless, logMarker, lastRunLock, logTables, syncFaults>>

\* ToolQueryAuditLogTable rows, of the entry that was created last: a run that
\* fails before leaves an entry without tables, which later runs skip.
RecordTables(w) ==
    /\ SyncGoto(w, "tables", "copy")
    /\ logTables' = logTables \cup logSync[w].made
    /\ UNCHANGED <<clock, due, logTime, ownerless, logMarker, lastRunLock, auditLog, syncFaults>>

\* Mutant: the next run starts where this one ended in time.
FinishRunNow(w) ==
    /\ logSync[w].pc = "copy"
    /\ logSync[w].logs = {}
    /\ logMarker' = [at |-> clock, set |-> clock]
    /\ logSync' = [logSync EXCEPT ![w] = NoRun]
    /\ lastRunLock' = IF lastRunLock = w THEN Nobody ELSE lastRunLock
    /\ UNCHANGED <<clock, due, logTime, ownerless, auditLog, logTables, syncFaults>>

FinishRun(w) ==
    /\ logSync[w].pc = "copy"
    /\ logSync[w].logs = {}
    /\ logMarker' = [at |-> logSync[w].to, set |-> clock]
    /\ logSync' = [logSync EXCEPT ![w] = NoRun]
    /\ lastRunLock' = IF lastRunLock = w THEN Nobody ELSE lastRunLock
    /\ UNCHANGED <<clock, due, logTime, ownerless, auditLog, logTables, syncFaults>>

\* RDS or a database fails: the marker stays as it is.
LogSyncFails(w) ==
    /\ syncFaults < SyncFaults
    /\ syncFaults' = syncFaults + 1
    /\ logSync[w].pc # "idle" /\ clock <= logSync[w].start + FailMinutes
    /\ logSync' = [logSync EXCEPT ![w] = NoRun]
    /\ lastRunLock' = IF lastRunLock = w THEN Nobody ELSE lastRunLock
    /\ UNCHANGED <<clock, due, logTime, ownerless, logMarker, auditLog, logTables>>

(***************************************************************************)
LogSyncStep(w) ==
    \/ SyncStart(w) \/ FetchLogs(w) \/ RecordTables(w) \/ FinishRun(w)
    \/ \E e \in Entry : SkipEntry(w, e) \/ CreateEntry(w, e)

ToolLogNext ==
    \/ Tick
    \/ \E e \in Entry : LogQuery(e) \/ OwnerDeleted(e)
    \/ \E w \in Worker : LogSyncStep(w) \/ LogSyncFails(w)

ToolLogSpec == ToolLogInit /\ [][ToolLogNext]_toolLogVars

(***************************************************************************)
(* Properties.                                                             *)
(***************************************************************************)
ToolLogTypeOK ==
    /\ clock \in 1 .. MaxClock
    /\ due \in BOOLEAN
    /\ logTime \in [Entry -> 0 .. MaxClock]
    /\ ownerless \subseteq Entry
    /\ logMarker \in [at : 0 .. MaxClock, set : 0 .. MaxClock]
    /\ lastRunLock \in Worker \cup {Nobody}
    /\ auditLog \subseteq Entry
    /\ logTables \subseteq auditLog
    /\ logSync \in [Worker -> [pc : {"idle", "fetch", "copy", "tables"},
                            start : 0 .. MaxClock, from : 0 .. MaxClock,
                            to : 0 .. MaxClock, logs : SUBSET Entry,
                            made : SUBSET Entry]]
    /\ syncFaults \in 0 .. SyncFaults

\* The audit has no gaps: what was logged before the time in the cache has been
\* copied, unless its user was deleted before.  The five minutes that the cache
\* remembers, and that a run looks back without it, bridge a run that fails
\* within a minute of its start.
AuditHasNoGaps ==
    \A e \in Entry :
       logTime[e] \in 1 .. logMarker.at - 1 => e \in auditLog \cup ownerless

\* The time in the cache never goes back: a run that was overtaken by a later
\* one would have the queries of both looked at once more (the lock).
MarkerNeverGoesBack == [][logMarker.at <= logMarker'.at]_toolLogVars

\* What the copied audit log promises: no statement between two runs is passed over,
\* and no run moves the window back, whatever run fails or is overtaken
\* (_do_sync_tool_query_logs).
ToolLogPromise ==
  /\ [](ToolLogTypeOK /\ AuditHasNoGaps)
  /\ MarkerNeverGoesBack

(***************************************************************************)
(* Everything the proofs need to know of a reachable state.                *)
(***************************************************************************)
\* A beat, and another with the minutes into a run for each failure, are within the
\* minutes that the cache remembers the marker.
FailuresAreBridged ==
    /\ Beat > 1
    /\ SyncFaults * (Beat + FailMinutes) + Beat <= LookBack

\* The latest time at which the run before the next one may have ended.
Deadline == logMarker.set + syncFaults * (Beat + FailMinutes)

\* What a run reads of the audit log.
Window(w) ==
    {e \in Entry : /\ logTime[e] # 0
                   /\ logSync[w].from <= logTime[e] /\ logTime[e] < logSync[w].to}

\* Its window starts where the copied entries end.
RunTimes(w) ==
    /\ logMarker.at <= logSync[w].to
    /\ logSync[w].to = logSync[w].start /\ logSync[w].start <= clock
    /\ FailuresAreBridged => /\ logSync[w].from <= logMarker.at
                             /\ logSync[w].start <= Deadline + Beat

\* Only the run that has the lock is under way, and what it has read of the window it
\* has copied or has yet to copy.
LogRunInv ==
    \A w \in Worker :
        /\ logSync[w].pc # "idle" <=> lastRunLock = w
        /\ logSync[w].made \subseteq auditLog
        /\ logSync[w].pc # "idle" => RunTimes(w)
        /\ logSync[w].pc \in {"copy", "tables"}
             => Window(w) \subseteq logSync[w].logs \cup auditLog \cup ownerless

\* While no run is under way the next one is not late.
BeatInv ==
    /\ logMarker.at <= logMarker.set /\ logMarker.set <= clock
    /\ FailuresAreBridged /\ lastRunLock = Nobody =>
          /\ ~ due => clock - (clock % Beat) <= Deadline
          /\ due => clock <= Deadline + Beat

ToolLogInv ==
    /\ ToolLogTypeOK
    /\ LogRunInv
    /\ BeatInv
    /\ FailuresAreBridged => AuditHasNoGaps

=============================================================================

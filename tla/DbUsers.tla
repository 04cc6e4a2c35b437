------------------------------ MODULE DbUsers ------------------------------
(***************************************************************************)
(* Temporary PostgreSQL users of applications: created, for each database, *)
(* by new_private_database_credentials inside the spawn task, recorded in  *)
(* ApplicationInstanceDbUsers by FargateSpawner.spawn, and dropped by the  *)
(* periodic task delete_unused_datasets_users.  Both sides run GRANT and   *)
(* REVOKE statements under the Redis lock "database-grant-v1".             *)
(*                                                                         *)
(* A spawn task stands for its application instance and for the user name  *)
(* it makes up, which contains a random part and is used in every          *)
(* database.                                                               *)
(***************************************************************************)
EXTENDS Naturals

CONSTANTS
    Spawn,       \* spawn tasks
    Database,    \* the databases of settings.DATABASES_DATA
    Cleaner,     \* the one run of delete_unused_datasets_users at a time
    Free,        \* nobody holds the lock
    Overlong,    \* the tasks whose sections may outlive the timeout of the lock
    Brief,       \* steps of a spawn task that never outlast the cleaner's sleep
    MaxCrashes   \* bound on crashes of the cleaner

ASSUME DbUsersAssumption ==
    /\ Cleaner \notin Spawn
    /\ Free \notin Spawn \cup {Cleaner}
    /\ Free \notin Database
    /\ Overlong \subseteq Spawn \cup {Cleaner}
    /\ MaxCrashes \in Nat

VARIABLES
    lock,       \* owner of "database-grant-v1", as Redis knows it
    pc,         \* where each spawn task is
    db,         \* the database a spawn task, or the cleaner, is working on
    todo,       \* the databases still to be done
    instance,   \* state of the application instance of each spawn task
    pgUser,     \* pairs <<d, s>>: the user of s exists in database d
    stored,     \* pairs <<d, s>>: rows of ApplicationInstanceDbUsers
    tracked,    \* the DatabaseUser row of each user: deleted_date
    cleaner,    \* where the cleaner is
    listed,     \* the cleaner's usenames
    unused,     \* the cleaner's not_in_use_usernames still to be dropped
    crashes     \* crashes of the cleaner so far

vars == <<lock, pc, db, todo, instance, pgUser, stored, tracked, cleaner,
          listed, unused, crashes>>

cleanerVars == <<cleaner, listed, unused, crashes>>

Init ==
    /\ lock = Free
    /\ pc = [s \in Spawn |-> "queued"]
    /\ db = [p \in Spawn \cup {Cleaner} |-> Free]
    /\ todo = [p \in Spawn \cup {Cleaner} |-> Database]
    /\ instance = [s \in Spawn |-> "SPAWNING"]
    /\ pgUser = {}
    /\ stored = {}
    /\ tracked = [s \in Spawn |-> "none"]
    /\ cleaner = "idle"
    /\ listed = {}
    /\ unused = {}
    /\ crashes = 0

(***************************************************************************)
(* cache.lock: a context manager.  Entering it raises LockError if the     *)
(* lock is not free before blocking_timeout; leaving it raises             *)
(* LockNotOwnedError if the lock has expired.                              *)
(***************************************************************************)
Acquire(p) == lock = Free /\ lock' = p

Release(p) == lock' = IF lock = p THEN Free ELSE lock

\* Redis drops the lock when its timeout has passed: always so for a process
\* that went down while holding it.
LockExpires ==
    /\ lock # Free
    /\ \/ lock \in Overlong
       \/ IF lock = Cleaner THEN cleaner = "crashed" ELSE pc[lock] = "failed"
    /\ lock' = Free
    /\ UNCHANGED <<pc, db, todo, instance, pgUser, stored, tracked, cleanerVars>>

(***************************************************************************)
(* The spawn task.                                                         *)
(***************************************************************************)
Goto(s, l) == pc' = [pc EXCEPT ![s] = l]

\* Roles are made sure of, the master user is GRANTed the ones it lacks (a
\* section of its own), and the user is created.
NextDatabase(s) ==
    /\ pc[s] = "queued"
    /\ \E d \in todo[s] :
          /\ db' = [db EXCEPT ![s] = d]
          /\ todo' = [todo EXCEPT ![s] = @ \ {d}]
    /\ \E l \in {"lock_roles", "create"} : Goto(s, l)
    /\ UNCHANGED <<lock, instance, pgUser, stored, tracked, cleanerVars>>

LockRoles(s) ==
    /\ pc[s] = "lock_roles"
    /\ Acquire(s)
    /\ Goto(s, "grant_roles")
    /\ UNCHANGED <<db, todo, instance, pgUser, stored, tracked, cleanerVars>>

UnlockRoles(s) ==
    /\ pc[s] = "grant_roles"
    /\ Release(s)
    /\ Goto(s, IF lock = s THEN "create" ELSE "failed")
    /\ UNCHANGED <<db, todo, instance, pgUser, stored, tracked, cleanerVars>>

CreateUser(s) ==
    /\ pc[s] = "create"
    /\ pgUser' = pgUser \cup {<<db[s], s>>}
    /\ Goto(s, "lock_grant")
    /\ UNCHANGED <<lock, db, todo, instance, stored, tracked, cleanerVars>>

LockGrant(s) ==
    /\ pc[s] = "lock_grant"
    /\ Acquire(s)
    /\ Goto(s, "grant")
    /\ UNCHANGED <<db, todo, instance, pgUser, stored, tracked, cleanerVars>>

\* blocking_timeout: fifteen seconds.
LockTimeout(s) ==
    /\ pc[s] \in {"lock_roles", "lock_grant"}
    /\ lock # Free
    /\ Goto(s, "failed")
    /\ UNCHANGED <<lock, db, todo, instance, pgUser, stored, tracked, cleanerVars>>

\* GRANT role TO user, and after the section ALTER USER ... SET ROLE, fail if
\* the user is not there any more.
UnlockGrant(s) ==
    /\ pc[s] = "grant"
    /\ Release(s)
    /\ Goto(s, IF lock = s /\ <<db[s], s>> \in pgUser THEN "alter" ELSE "failed")
    /\ UNCHANGED <<db, todo, instance, pgUser, stored, tracked, cleanerVars>>

AlterUser(s) ==
    /\ pc[s] = "alter"
    /\ Goto(s, IF <<db[s], s>> \notin pgUser THEN "failed"
               ELSE IF todo[s] # {} THEN "queued" ELSE "track")
    /\ UNCHANGED <<lock, db, todo, instance, pgUser, stored, tracked, cleanerVars>>

\* DatabaseUser.objects.create, the last statement of
\* new_private_database_credentials.
TrackUser(s) ==
    /\ pc[s] = "track"
    /\ tracked' = [tracked EXCEPT ![s] = "active"]
    /\ Goto(s, "store")
    /\ UNCHANGED <<lock, db, todo, instance, pgUser, stored, cleanerVars>>

\* ApplicationInstanceDbUsers.objects.create, for each of the credentials.
StoreUser(s) ==
    /\ pc[s] = "store"
    /\ \E d \in Database :
          /\ <<d, s>> \notin stored
          /\ stored' = stored \cup {<<d, s>>}
          /\ Goto(s, IF \A e \in Database \ {d} : <<e, s>> \in stored
                     THEN "in_use" ELSE "store")
    /\ UNCHANGED <<lock, db, todo, instance, pgUser, tracked, cleanerVars>>

\* A statement fails: the exception ends the task, and leaves the section.
SpawnFails(s) ==
    /\ pc[s] \notin {"in_use", "failed"}
    /\ Release(s)
    /\ Goto(s, "failed")
    /\ UNCHANGED <<db, todo, instance, pgUser, stored, tracked, cleanerVars>>

\* The Celery worker goes down.  A lock it holds is left to expire.
SpawnCrash(s) ==
    /\ pc[s] \notin {"in_use", "failed"}
    /\ Goto(s, "failed")
    /\ UNCHANGED <<lock, db, todo, instance, pgUser, stored, tracked, cleanerVars>>

\* The proxy sees the application answer, and sends PATCH.
RunInstance(s) ==
    /\ pc[s] = "in_use"
    /\ instance[s] = "SPAWNING"
    /\ instance' = [instance EXCEPT ![s] = "RUNNING"]
    /\ UNCHANGED <<lock, pc, db, todo, pgUser, stored, tracked, cleanerVars>>

\* A user, the proxy or the reaper stops the instance.
StopInstance(s) ==
    /\ instance[s] \in {"SPAWNING", "RUNNING"}
    /\ instance' = [instance EXCEPT ![s] = "STOPPED"]
    /\ UNCHANGED <<lock, pc, db, todo, pgUser, stored, tracked, cleanerVars>>

(***************************************************************************)
(* delete_unused_datasets_users.                                           *)
(***************************************************************************)
\* The users of one database, then a sleep of fifteen seconds.
ListUsers ==
    /\ cleaner = "idle"
    /\ \E d \in todo[Cleaner] :
          /\ db' = [db EXCEPT ![Cleaner] = d]
          /\ todo' = [todo EXCEPT ![Cleaner] = @ \ {d}]
          /\ listed' = {s \in Spawn : <<d, s>> \in pgUser}
    /\ cleaner' = "sleep"
    /\ UNCHANGED <<lock, pc, instance, pgUser, stored, tracked, unused, crashes>>

\* Mutant: the state of the instance is not looked at, or an instance
\* that is still spawning is forgotten.
InUseAnyState(d, s) == <<d, s>> \in stored

InUseRunningOnly(d, s) == <<d, s>> \in stored /\ instance[s] = "RUNNING"

\* in_use_usenames: the rows of instances in one of these states.
InUse(d, s) == <<d, s>> \in stored /\ instance[s] \in {"RUNNING", "SPAWNING"}

\* The fifteen seconds are over, and with them the brief steps under way.
FindUnused ==
    /\ cleaner = "sleep"
    /\ \A s \in listed : pc[s] \notin Brief
    /\ unused' = {s \in listed : ~ InUse(db[Cleaner], s)}
    /\ listed' = {}
    /\ cleaner' = "lock"
    /\ UNCHANGED <<lock, pc, db, todo, instance, pgUser, stored, tracked, crashes>>

\* Mutant: the lock error is swallowed, and the statements run anyway.
LockDropAnyway ==
    /\ cleaner = "lock"
    /\ Acquire(Cleaner) \/ (lock # Free /\ UNCHANGED lock)
    /\ cleaner' = "drop"
    /\ UNCHANGED <<pc, db, todo, instance, pgUser, stored, tracked, listed, unused, crashes>>

\* blocking_timeout=0: this database is left to the next run if the lock is
\* taken.
LockDrop ==
    /\ cleaner = "lock"
    /\ \/ Acquire(Cleaner) /\ cleaner' = "drop" /\ UNCHANGED unused
       \/ lock # Free /\ cleaner' = "idle" /\ unused' = {} /\ UNCHANGED lock
    /\ UNCHANGED <<pc, db, todo, instance, pgUser, stored, tracked, listed, crashes>>

\* REVOKE, REASSIGN OWNED, DROP OWNED, DROP USER and deleted_date; a user that
\* is gone already is an exception, caught and logged.
DropUser(s) ==
    /\ cleaner = "drop"
    /\ s \in unused
    /\ unused' = unused \ {s}
    /\ pgUser' = pgUser \ {<<db[Cleaner], s>>}
    /\ tracked' = [tracked EXCEPT ![s] =
                     IF @ = "active" /\ <<db[Cleaner], s>> \in pgUser
                     THEN "deleted" ELSE @]
    /\ UNCHANGED <<lock, pc, db, todo, instance, stored, cleaner, listed, crashes>>

\* LockNotOwnedError is caught with the other lock errors.
UnlockDrop ==
    /\ cleaner = "drop"
    /\ unused = {}
    /\ Release(Cleaner)
    /\ cleaner' = "idle"
    /\ UNCHANGED <<pc, db, todo, instance, pgUser, stored, tracked, listed, unused, crashes>>

\* The worker that runs it goes down; its locks are left to expire.
CleanerCrash ==
    /\ crashes < MaxCrashes
    /\ cleaner \in {"sleep", "lock", "drop"}
    /\ crashes' = crashes + 1
    /\ cleaner' = "crashed"
    /\ listed' = {} /\ unused' = {}
    /\ UNCHANGED <<lock, pc, db, todo, instance, pgUser, stored, tracked>>

\* The next run, ten minutes later.  After a crash it waits for the lock
\* "delete_unused_datasets_users" of the last one, that expires after thirty
\* minutes; "database-grant-v1" does so after four seconds.
NextRun ==
    /\ \/ cleaner = "idle" /\ todo[Cleaner] = {}
       \/ cleaner = "crashed" /\ lock # Cleaner
    /\ todo' = [todo EXCEPT ![Cleaner] = Database]
    /\ cleaner' = "idle"
    /\ UNCHANGED <<lock, pc, db, instance, pgUser, stored, tracked, listed, unused, crashes>>

(***************************************************************************)
(* The specification.                                                      *)
(***************************************************************************)
SpawnStep(s) ==
    \/ NextDatabase(s) \/ LockRoles(s) \/ UnlockRoles(s) \/ CreateUser(s)
    \/ LockGrant(s) \/ LockTimeout(s) \/ UnlockGrant(s) \/ AlterUser(s)
    \/ TrackUser(s) \/ StoreUser(s)

CleanerStep ==
    \/ ListUsers \/ FindUnused \/ LockDrop \/ UnlockDrop \/ NextRun
    \/ \E s \in Spawn : DropUser(s)

Next ==
    \/ \E s \in Spawn :
          \/ SpawnStep(s) \/ SpawnFails(s) \/ SpawnCrash(s)
          \/ RunInstance(s) \/ StopInstance(s)
    \/ CleanerStep
    \/ CleanerCrash
    \/ LockExpires

\* Celery runs the spawn tasks it accepted and its periodic tasks, and Redis
\* keeps to the timeout of a lock.
Fairness ==
    /\ WF_vars(CleanerStep)
    /\ WF_vars(LockExpires)
    /\ \A s \in Spawn : WF_vars(SpawnStep(s))

SafetySpec == Init /\ [][Next]_vars

Spec == SafetySpec /\ Fairness

(***************************************************************************)
(* Properties.                                                             *)
(***************************************************************************)
Critical(p) ==
    IF p = Cleaner THEN cleaner = "drop" ELSE pc[p] \in {"grant_roles", "grant"}

TypeOK ==
    /\ lock \in Spawn \cup {Cleaner, Free}
    /\ pc \in [Spawn -> {"queued", "lock_roles", "grant_roles", "create",
                         "lock_grant", "grant", "alter", "track", "store",
                         "in_use", "failed"}]
    /\ db \in [Spawn \cup {Cleaner} -> Database \cup {Free}]
    /\ todo \in [Spawn \cup {Cleaner} -> SUBSET Database]
    /\ instance \in [Spawn -> {"SPAWNING", "RUNNING", "STOPPED"}]
    /\ pgUser \subseteq Database \X Spawn
    /\ stored \subseteq Database \X Spawn
    /\ tracked \in [Spawn -> {"none", "active", "deleted"}]
    /\ cleaner \in {"idle", "sleep", "lock", "drop", "crashed"}
    /\ crashes \in Nat
    /\ listed \subseteq Spawn
    /\ unused \subseteq Spawn

\* core/utils.py: "PostgreSQL doesn't handle concurrent GRANT/REVOKEs on the
\* same objects well, so we lock": no two processes run them at once, unless
\* one of them has outlived its lock; that one disturbs no other two.
GrantsExclusive ==
    \A p, q \in (Spawn \cup {Cleaner}) \ Overlong : Critical(p) /\ Critical(q) => p = q

\* Once the row of a user is stored, and the user is not already on the way to
\* being dropped, no run of the clean up that is under way, was waiting, or
\* comes later, drops it or decides to, as long as its application is not
\* stopped.
Kept(d, s) ==
    /\ <<d, s>> \in pgUser \cap stored
    /\ instance[s] # "STOPPED"
    /\ ~ (db[Cleaner] = d /\ s \in unused)

StoredUsersAreKept ==
    [][\A d \in Database, s \in Spawn :
          Kept(d, s) /\ instance'[s] # "STOPPED" => Kept(d, s)']_vars

\* spawner.py: the users are stored so that the clean up knows not to delete
\* any users used by running or spawning apps.
UsersOfAppsAreKept ==
    \A s \in Spawn :
        pc[s] = "in_use" /\ instance[s] \in {"SPAWNING", "RUNNING"}
        => \A d \in Database : <<d, s>> \in pgUser

\* The clean up gets there in the end: a user of an application that was
\* stopped, also of one that failed to start, is dropped from every database,
\* though a database is skipped whenever its lock is taken.
UsersOfStoppedAppsGo ==
    \A s \in Spawn, d \in Database :
        <<d, s>> \in pgUser /\ instance[s] = "STOPPED" ~> <<d, s>> \notin pgUser

(***************************************************************************)
(* The strengthening the proofs rest on.  A process inside a section holds *)
(* the lock, unless it can outlive it; the cleaner has names to drop           *)
(* only between its query and the end of its section; a spawn task has a   *)
(* database while it works on one.                                         *)
(***************************************************************************)
LockInv == \A p \in (Spawn \cup {Cleaner}) \ Overlong : Critical(p) => lock = p

UnusedInv == cleaner \in {"idle", "sleep", "crashed"} => unused = {}

DatabaseInv ==
    \A s \in Spawn :
        pc[s] \in {"lock_roles", "grant_roles", "create", "lock_grant", "grant", "alter"}
        => db[s] \in Database

DbUsersInv == TypeOK /\ LockInv /\ UnusedInv /\ DatabaseInv

\* Every variable is of its type, and no two sections that GRANT or REVOKE are under
\* way at once, unless one has outlived its lock (database_grant lock of
\* core/utils.py).
UsersSafety ==
  /\ TypeOK
  /\ GrantsExclusive
=============================================================================

--------------------------- MODULE DbUsersProofs ---------------------------
(***************************************************************************)
(* For any number of spawn tasks and databases: GRANT and REVOKE sections  *)
(* that do not outlive their lock exclude each other, and the clean up     *)
(* never drops a user whose row it could have seen.                        *)
(***************************************************************************)
EXTENDS DbUsers, TLAPS

\* Init establishes the strengthening.
LEMMA InitInv == Init => DbUsersInv
  BY DbUsersAssumption
  DEF Init, DbUsersInv, TypeOK, LockInv, UnusedInv, DatabaseInv, Critical

\* Every step of a spawn task, the ones that end it included, preserves it.
LEMMA SpawnStepInv ==
  ASSUME DbUsersInv, NEW s \in Spawn,
         SpawnStep(s) \/ SpawnFails(s) \/ SpawnCrash(s)
         \/ RunInstance(s) \/ StopInstance(s)
  PROVE  DbUsersInv'
<1> USE DbUsersAssumption DEF DbUsersInv
<1>1. TypeOK'
  <2> USE DEF TypeOK, cleanerVars, Goto, Acquire, Release
  <2>1. CASE NextDatabase(s)
    BY <2>1 DEF NextDatabase
  <2>2. CASE LockRoles(s) \/ UnlockRoles(s)
    BY <2>2 DEF LockRoles, UnlockRoles
  <2>6. CASE CreateUser(s)
    <3>1. db[s] \in Database
      BY <2>6 DEF CreateUser, DatabaseInv
    <3> QED BY <2>6, <3>1 DEF CreateUser
  <2>3. CASE LockGrant(s) \/ LockTimeout(s) \/ UnlockGrant(s)
    BY <2>3 DEF LockGrant, LockTimeout, UnlockGrant
  <2>4. CASE AlterUser(s) \/ TrackUser(s)
    BY <2>4 DEF AlterUser, TrackUser
  <2>7. CASE StoreUser(s)
    <3>1. stored' \subseteq Database \X Spawn
      BY <2>7 DEF StoreUser
    <3>2. pc' = [pc EXCEPT ![s] = "in_use"] \/ pc' = [pc EXCEPT ![s] = "store"]
      BY <2>7 DEF StoreUser
    <3> QED BY <2>7, <3>1, <3>2 DEF StoreUser
  <2>5. CASE SpawnFails(s) \/ SpawnCrash(s) \/ RunInstance(s) \/ StopInstance(s)
    BY <2>5 DEF SpawnFails, SpawnCrash, RunInstance, StopInstance
  <2> QED BY <2>1, <2>2, <2>3, <2>4, <2>5, <2>6, <2>7 DEF SpawnStep
<1>2. UNCHANGED cleanerVars
  BY DEF SpawnStep, NextDatabase, LockRoles, UnlockRoles, CreateUser, LockGrant,
         LockTimeout, UnlockGrant, AlterUser, TrackUser, StoreUser, SpawnFails,
         SpawnCrash, RunInstance, StopInstance
\* A step into a section takes the lock; every other one leaves the locks of
\* the others alone.
<1>3. /\ \A q \in Spawn \ {s} : pc'[q] = pc[q]
      /\ pc'[s] \in {"grant_roles", "grant"} =>
           \/ lock = Free /\ lock' = s
           \/ pc[s] = pc'[s] /\ lock' = lock
      /\ lock' # lock => lock = s \/ lock = Free
  BY DEF TypeOK, Goto, Acquire, Release,
         SpawnStep, NextDatabase, LockRoles, UnlockRoles, CreateUser, LockGrant,
         LockTimeout, UnlockGrant, AlterUser, TrackUser, StoreUser, SpawnFails,
         SpawnCrash, RunInstance, StopInstance
<1>4. LockInv'
  <2> SUFFICES ASSUME NEW p \in (Spawn \cup {Cleaner}) \ Overlong, Critical(p)'
               PROVE  lock' = p
    BY DEF LockInv
  <2>1. CASE p = s
    BY <2>1, <1>3 DEF LockInv, Critical
  <2>2. CASE p # s
    <3>1. Critical(p) /\ lock = p
      BY <2>2, <1>2, <1>3 DEF LockInv, Critical, cleanerVars
    <3> QED BY <3>1, <2>2, <1>3
  <2> QED BY <2>1, <2>2
<1>5. UnusedInv'
  BY <1>2 DEF UnusedInv, cleanerVars
<1>6. DatabaseInv'
  <2> USE DEF DatabaseInv, TypeOK, Goto
  <2>1. CASE NextDatabase(s)
    BY <2>1 DEF NextDatabase
  <2>2. CASE SpawnStep(s) /\ ~ NextDatabase(s)
    <3>1. CASE LockRoles(s) \/ UnlockRoles(s)
      BY <3>1 DEF LockRoles, UnlockRoles
    <3>2. CASE CreateUser(s)
      BY <3>2 DEF CreateUser
    <3>3. CASE LockGrant(s) \/ LockTimeout(s)
      BY <3>3 DEF LockGrant, LockTimeout
    <3>4. CASE UnlockGrant(s) \/ AlterUser(s)
      BY <3>4 DEF UnlockGrant, AlterUser
    <3>5. CASE TrackUser(s)
      BY <3>5 DEF TrackUser
    <3>6. CASE StoreUser(s)
      BY <3>6 DEF StoreUser
    <3> QED BY <2>2, <3>1, <3>2, <3>3, <3>4, <3>5, <3>6 DEF SpawnStep
  <2>3. CASE SpawnFails(s) \/ SpawnCrash(s) \/ RunInstance(s) \/ StopInstance(s)
    BY <2>3 DEF SpawnFails, SpawnCrash, RunInstance, StopInstance
  <2> QED BY <2>1, <2>2, <2>3
<1> QED BY <1>1, <1>4, <1>5, <1>6

\* So does every step of the cleaner, and the expiry of a lock.
LEMMA CleanerStepInv ==
  ASSUME DbUsersInv, CleanerStep \/ CleanerCrash \/ LockExpires
  PROVE  DbUsersInv'
<1> USE DbUsersAssumption DEF DbUsersInv
<1>1. TypeOK'
  <2> USE DEF TypeOK, cleanerVars, Acquire, Release
  <2>1. CASE ListUsers
    BY <2>1 DEF ListUsers
  <2>5. CASE FindUnused
    BY <2>5 DEF FindUnused
  <2>6. CASE LockDrop
    BY <2>6 DEF LockDrop
  <2>2. CASE \E s \in Spawn : DropUser(s)
    BY <2>2 DEF DropUser
  <2>3. CASE UnlockDrop \/ NextRun \/ LockExpires
    BY <2>3 DEF UnlockDrop, NextRun, LockExpires
  <2>4. CASE CleanerCrash
    BY <2>4 DEF CleanerCrash
  <2> QED BY <2>1, <2>2, <2>3, <2>4, <2>5, <2>6 DEF CleanerStep
<1>2. LockInv'
  <2> SUFFICES ASSUME NEW p \in (Spawn \cup {Cleaner}) \ Overlong, Critical(p)'
               PROVE  lock' = p
    BY DEF LockInv
  <2>1. pc' = pc
    BY DEF CleanerStep, ListUsers, FindUnused, LockDrop, DropUser, UnlockDrop,
           NextRun, CleanerCrash, LockExpires
  <2>2. CASE LockExpires
    <3>1. Critical(p) /\ lock = p
      BY <2>1, <2>2 DEF LockExpires, LockInv, Critical, cleanerVars
    <3>2. lock \in Spawn => pc[lock] = "failed"
      BY <2>2, <3>1 DEF LockExpires
    <3>3. lock = Cleaner => cleaner = "crashed"
      BY <2>2, <3>1 DEF LockExpires
    <3> QED BY <3>1, <3>2, <3>3 DEF Critical
  <2>3. CASE LockDrop
    BY <2>1, <2>3 DEF LockDrop, Acquire, LockInv, Critical
  <2>4. CASE UnlockDrop
    BY <2>1, <2>4 DEF UnlockDrop, Release, LockInv, Critical
  <2>5. CASE \E s \in Spawn : DropUser(s)
    BY <2>1, <2>5 DEF DropUser, LockInv, Critical
  <2>6. CASE ListUsers \/ FindUnused \/ NextRun \/ CleanerCrash
    BY <2>1, <2>6 DEF ListUsers, FindUnused, NextRun, CleanerCrash, LockInv, Critical
  <2> QED BY <2>2, <2>3, <2>4, <2>5, <2>6 DEF CleanerStep
<1>3. UnusedInv'
  BY DEF UnusedInv, CleanerStep, ListUsers, FindUnused, LockDrop, DropUser,
         UnlockDrop, NextRun, CleanerCrash, LockExpires, cleanerVars
<1>4. DatabaseInv'
  BY DEF DatabaseInv, TypeOK, CleanerStep, ListUsers, FindUnused, LockDrop, DropUser,
         UnlockDrop, NextRun, CleanerCrash, LockExpires
<1> QED BY <1>1, <1>2, <1>3, <1>4

\* The strengthening is an invariant of the users and their clean up.
THEOREM DbUsersInvariance == SafetySpec => []DbUsersInv
<1>1. Init => DbUsersInv
  BY InitInv
<1>2. DbUsersInv /\ [Next]_vars => DbUsersInv'
  <2> SUFFICES ASSUME DbUsersInv, [Next]_vars
               PROVE  DbUsersInv'
    OBVIOUS
  <2>1. CASE Next
    BY <2>1, SpawnStepInv, CleanerStepInv DEF Next
  <2>2. CASE UNCHANGED vars
    BY <2>2 DEF vars, DbUsersInv, TypeOK, LockInv, UnusedInv, DatabaseInv, Critical
  <2> QED BY <2>1, <2>2
<1> QED BY <1>1, <1>2, PTL DEF SafetySpec

\* "PostgreSQL doesn't handle concurrent GRANT/REVOKEs on the same objects
\* well, so we lock" (core/utils.py): of the processes whose sections do not
\* outlive the timeout of their lock no two are ever in one, whatever fails or
\* crashes, and however long the others take.
THEOREM GrantsAreExclusive == SafetySpec => []GrantsExclusive
<1>1. DbUsersInv => GrantsExclusive
  BY DEF DbUsersInv, LockInv, GrantsExclusive
<1> QED BY <1>1, DbUsersInvariance, PTL

\* A user whose row delete_unused_datasets_users can see is not dropped, by any
\* run, before its application is stopped.
THEOREM StoredUsersKept == SafetySpec => StoredUsersAreKept
<1>1. ASSUME DbUsersInv, [Next]_vars
      PROVE  [\A d \in Database, s \in Spawn :
                Kept(d, s) /\ instance'[s] # "STOPPED" => Kept(d, s)']_vars
  <2> USE <1>1, DbUsersAssumption DEF DbUsersInv
  <2> SUFFICES ASSUME Next, NEW d \in Database, NEW s \in Spawn,
                      Kept(d, s), instance'[s] # "STOPPED"
               PROVE  Kept(d, s)'
    OBVIOUS
  <2>1. CASE \E t \in Spawn : \/ SpawnStep(t) \/ SpawnFails(t) \/ SpawnCrash(t)
                              \/ RunInstance(t) \/ StopInstance(t)
    <3> PICK t \in Spawn : \/ SpawnStep(t) \/ SpawnFails(t) \/ SpawnCrash(t)
                           \/ RunInstance(t) \/ StopInstance(t)
      BY <2>1
    <3>1. /\ pgUser \subseteq pgUser' /\ stored \subseteq stored'
          /\ unused' = unused /\ db'[Cleaner] = db[Cleaner]
      BY DEF TypeOK, cleanerVars,
             SpawnStep, NextDatabase, LockRoles, UnlockRoles, CreateUser, LockGrant,
             LockTimeout, UnlockGrant, AlterUser, TrackUser, StoreUser, SpawnFails,
             SpawnCrash, RunInstance, StopInstance
    <3>2. instance'[s] \in {"SPAWNING", "RUNNING"}
      BY SpawnStepInv DEF TypeOK
    <3> QED BY <3>1, <3>2 DEF Kept
  <2>2. CASE CleanerStep \/ CleanerCrash \/ LockExpires
    <3>1. instance' = instance /\ stored' = stored
      BY <2>2 DEF CleanerStep, ListUsers, FindUnused, LockDrop, DropUser, UnlockDrop,
                  NextRun, CleanerCrash, LockExpires
    <3>2. <<d, s>> \in pgUser'
      BY <2>2 DEF Kept, TypeOK, CleanerStep, ListUsers, FindUnused, LockDrop, DropUser,
                  UnlockDrop, NextRun, CleanerCrash, LockExpires
    <3>3. ~ (db'[Cleaner] = d /\ s \in unused')
      BY <2>2 DEF Kept, InUse, UnusedInv, TypeOK, CleanerStep, ListUsers, FindUnused,
                  LockDrop, DropUser, UnlockDrop, NextRun, CleanerCrash, LockExpires,
                  cleanerVars
    <3> QED BY <3>1, <3>2, <3>3 DEF Kept
  <2> QED BY <2>1, <2>2 DEF Next
<1> QED BY <1>1, DbUsersInvariance, PTL DEF SafetySpec, StoredUsersAreKept

\* Tasks, clean up and locks stay in their types, and sections that GRANT or
\* REVOKE exclude each other (database_grant lock of core/utils.py).
THEOREM UsersAreSafe == SafetySpec => []UsersSafety
<1>1. DbUsersInv => TypeOK
  BY DEF DbUsersInv
<1> QED BY <1>1, DbUsersInvariance, GrantsAreExclusive, PTL DEF UsersSafety
=============================================================================

--------------------------- MODULE DbCredentials ---------------------------
(***************************************************************************)
(* Who may read which table.  The admin site changes permissions in the    *)
(* admin database; the privileges of a user's permanent PostgreSQL role    *)
(* follow only when new_private_database_credentials runs for the user:    *)
(* when a tool is started, or when Data Explorer or Superset finds no      *)
(* credentials in its cache.  The cache is cleared by the admin pages, per *)
(* user by deleting the key, for all users by incrementing the version     *)
(* that is a part of every key.                                            *)
(*                                                                         *)
(* A page of the admin site runs in one database transaction, and the      *)
(* cache, in Redis, is not a part of it.                                   *)
(***************************************************************************)
EXTENDS Naturals

CONSTANTS
    User,
    Table,       \* tables datasets give access to
    Team,        \* teams, each with a role that its members are GRANTed
    Process,     \* web requests and Celery tasks that need credentials
    Service,     \* what they run for: subset of Services
    Page,        \* the admin pages in use: subset of Pages
    Absent,
    LockExpiry,  \* whether the credentials may take longer than 180 seconds
    MaxAccessChanges,  \* bound on the permission changes
    MaxCredsFailures  \* bound on the requests that fail

Services == {"explorer", "superset", "spawn"}

\* Change of a dataset's access type; of a dataset's authorized users; of a
\* user's datasets; of a team's members; "Reset Data Explorer and Superset
\* credentials", which changes no permission.
Pages == {"access_type", "dataset_users", "user", "team", "reset"}

CachedCreds == Service \cap {"explorer", "superset"}

Privilege == Table \cup Team

ASSUME DbCredentialsAssumption ==
    /\ Table \cap Team = {}
    /\ Service \subseteq Services
    /\ Page \subseteq Pages
    /\ Absent \notin User \cup Process
    /\ LockExpiry \in BOOLEAN
    /\ MaxAccessChanges \in Nat
    /\ MaxCredsFailures \in Nat

Versions == 1 .. MaxAccessChanges + 1

VARIABLES
    access,    \* what the committed permissions and teams give each user
    admin,     \* the admin page being saved
    changes,   \* admin pages saved so far
    credsFailures,  \* requests that failed so far
    version,   \* the credentials version of each service, 0 if not set
    cache,     \* per service, version and user: the cached credentials
    credsLock,      \* per user, the holder of "get-explorer-connection-..."
    role,      \* the privileges of each user's permanent role
    proc       \* the requests and tasks

credsVars == <<access, admin, changes, credsFailures, version, cache, credsLock, role, proc>>

\* Credentials in the cache, with the version when their tables were read.
NoEntry == 0

IdleAdmin == [pc |-> "idle", page |-> Absent, pending |-> access, user |-> Absent,
              todo |-> {}]

IdleProcess ==
    [pc |-> "idle", svc |-> Absent, user |-> Absent, key |-> 0, read |-> 0,
     wants |-> {}, revoke |-> {}, grant |-> {}]

CredsInit ==
    /\ access \in [User -> SUBSET Privilege]
    /\ admin = IdleAdmin
    /\ changes = 0
    /\ credsFailures = 0
    /\ version = [c \in CachedCreds |-> 0]
    /\ cache = [c \in CachedCreds |-> [v \in Versions |-> [u \in User |-> NoEntry]]]
    /\ credsLock = [u \in User |-> Absent]
    /\ role = access
    /\ proc = [p \in Process |-> IdleProcess]

(***************************************************************************)
(* The admin site.                                                         *)
(***************************************************************************)
\* What a page lets an administrator choose.
Changed(page) ==
    CASE page = "team" -> Team
      [] page = "reset" -> {}
      [] OTHER -> Table

\* save_model up to the clearing: nothing of it is visible to others yet.
AdminSave(page, u) ==
    /\ admin.pc = "idle"
    /\ changes < MaxAccessChanges
    /\ changes' = changes + 1
    /\ \E x \in SUBSET Changed(page) :
          admin' = [pc |-> "saved", page |-> page, user |-> u,
                    pending |-> [w \in User |->
                       IF w = u \/ page = "access_type"
                       THEN (access[w] \ Changed(page)) \cup x
                       ELSE access[w]],
                    todo |-> CASE page = "team" -> {}
                               [] page = "user" -> CachedCreds \cap {"explorer"}
                               [] OTHER -> CachedCreds]
    /\ UNCHANGED <<access, credsFailures, version, cache, credsLock, role, proc>>

\* remove_..._user_cached_credentials makes the key like everyone else, which
\* sets the version if there is none; invalidate_..._user_cached_credentials
\* leaves a version alone that is not set.
AdminClear(c) ==
    /\ admin.pc = "saved"
    /\ c \in admin.todo
    /\ admin' = [admin EXCEPT !.todo = @ \ {c}]
    /\ LET v == IF version[c] = 0 THEN 1 ELSE version[c] IN
       \/ /\ admin.page = "access_type"
          /\ version' = [version EXCEPT ![c] = IF @ = 0 THEN 0 ELSE @ + 1]
          /\ UNCHANGED cache
       \/ /\ admin.page # "access_type"
          /\ version' = [version EXCEPT ![c] = v]
          /\ cache' = [cache EXCEPT ![c][v][admin.user] = NoEntry]
    /\ UNCHANGED <<access, changes, credsFailures, credsLock, role, proc>>

\* The transaction of the page commits, or an exception rolls it back.
AdminEnd ==
    /\ admin.pc = "saved"
    /\ \/ admin.todo = {} /\ access' = admin.pending
       \/ UNCHANGED access
    /\ admin' = [admin EXCEPT !.pc = "idle", !.page = Absent, !.user = Absent, !.todo = {},
                              !.pending = access']
    /\ UNCHANGED <<changes, credsFailures, version, cache, credsLock, role, proc>>

(***************************************************************************)
(* A request that needs credentials.                                       *)
(***************************************************************************)
Step(p, from, rec) ==
    /\ proc[p].pc = from
    /\ proc' = [proc EXCEPT ![p] = rec]

\* Mutant: Data Explorer looks into its cache without the lock.
StartUnlocked(p, u, svc) ==
    /\ Step(p, "idle", [IdleProcess EXCEPT !.pc = IF svc = "spawn" THEN "read" ELSE "key",
                                           !.svc = svc, !.user = u])
    /\ UNCHANGED <<access, admin, changes, credsFailures, version, cache, credsLock, role>>

\* Data Explorer takes a lock of the user's, Superset does not; a tool that is
\* started has no cache to look at.
Start(p, u, svc) ==
    /\ Step(p, "idle", [IdleProcess EXCEPT !.pc = IF svc = "spawn" THEN "read" ELSE "key",
                                           !.svc = svc, !.user = u])
    /\ \/ svc = "explorer" /\ credsLock[u] = Absent /\ credsLock' = [credsLock EXCEPT ![u] = p]
       \/ svc # "explorer" /\ UNCHANGED credsLock
    /\ UNCHANGED <<access, admin, changes, credsFailures, version, cache, role>>

\* get_user_cached_credentials_key and get_cached_credentials_key: the version
\* is set if it is not there, and read.
MakeKey(p) ==
    LET c == proc[p].svc
        v == IF version[c] = 0 THEN 1 ELSE version[c]
    IN  /\ Step(p, "key", [proc[p] EXCEPT !.pc = "lookup", !.key = v])
        /\ version' = [version EXCEPT ![c] = v]
        /\ UNCHANGED <<access, admin, changes, credsFailures, cache, credsLock, role>>

Unlock(p) ==
    credsLock' = [credsLock EXCEPT ![proc[p].user] = IF @ = p THEN Absent ELSE @]

\* Cached credentials are used, unless Data Explorer cannot connect with them.
LookupHit(p) ==
    /\ Step(p, "lookup", IdleProcess)
    /\ cache[proc[p].svc][proc[p].key][proc[p].user] # NoEntry
    /\ Unlock(p)
    /\ UNCHANGED <<access, admin, changes, credsFailures, version, cache, role>>

LookupMiss(p) ==
    /\ Step(p, "lookup", [proc[p] EXCEPT !.pc = "read"])
    /\ \/ cache[proc[p].svc][proc[p].key][proc[p].user] = NoEntry
       \/ proc[p].svc = "explorer"
    /\ UNCHANGED <<access, admin, changes, credsFailures, version, cache, credsLock, role>>

\* source_tables_for_user, and the teams of the user.
ReadTables(p) ==
    LET c == proc[p].svc IN
    /\ Step(p, "read", [proc[p] EXCEPT !.pc = "diff", !.wants = access[proc[p].user],
                                       !.read = IF c \in CachedCreds THEN version[c] ELSE 0])
    /\ UNCHANGED <<access, admin, changes, credsFailures, version, cache, credsLock, role>>

\* tables_to_revoke, schemas_to_revoke and db_team_roles_to_revoke
ToRevoke(granted, wanted) == granted \ wanted

\* The query for db_team_roles_previously_granted asks for a role LIKE
\* '\_team\_', and no team's role has that name.
PreviouslyGranted(u) == role[u] \cap Table

\* The difference is computed before the lock "database-grant-v1" is taken.
Diff(p) ==
    LET granted == PreviouslyGranted(proc[p].user) IN
    /\ Step(p, "diff", [proc[p] EXCEPT !.pc = "apply",
                                       !.revoke = ToRevoke(granted, proc[p].wants),
                                       !.grant = proc[p].wants \ granted])
    /\ UNCHANGED <<access, admin, changes, credsFailures, version, cache, credsLock, role>>

\* REVOKE and GRANT, under that lock.
Apply(p) ==
    LET q == proc[p] IN
    /\ Step(p, "apply", [q EXCEPT !.pc = IF q.svc \in CachedCreds THEN "store" ELSE "done",
                               !.revoke = {}, !.grant = {}])
    /\ role' = [role EXCEPT ![q.user] = (@ \ q.revoke) \cup q.grant]
    /\ UNCHANGED <<access, admin, changes, credsFailures, version, cache, credsLock>>

\* Mutant: the key is made when the credentials are stored.
StoreUnderNewKey(p) ==
    LET q == proc[p] IN
    /\ Step(p, "store", [q EXCEPT !.pc = "done"])
    /\ cache' = [cache EXCEPT ![q.svc][version[q.svc]][q.user] = q.read]
    /\ UNCHANGED <<access, admin, changes, credsFailures, version, credsLock, role>>

\* cache.set with the key made at the start.
Store(p) ==
    LET q == proc[p] IN
    /\ Step(p, "store", [q EXCEPT !.pc = "done"])
    /\ cache' = [cache EXCEPT ![q.svc][q.key][q.user] = q.read]
    /\ UNCHANGED <<access, admin, changes, credsFailures, version, credsLock, role>>

Finish(p) ==
    /\ Step(p, "done", IdleProcess)
    /\ Unlock(p)
    /\ UNCHANGED <<access, admin, changes, credsFailures, version, cache, role>>

\* An exception on the way leaves the block that holds the lock.
Fail(p) ==
    /\ proc[p].pc \notin {"idle", "done"}
    /\ credsFailures < MaxCredsFailures
    /\ credsFailures' = credsFailures + 1
    /\ proc' = [proc EXCEPT ![p] = IdleProcess]
    /\ Unlock(p)
    /\ UNCHANGED <<access, admin, changes, version, cache, role>>

\* Redis drops the lock 180 seconds after it was taken.
CredsLockExpires(u) ==
    /\ LockExpiry
    /\ credsLock[u] # Absent
    /\ credsLock' = [credsLock EXCEPT ![u] = Absent]
    /\ UNCHANGED <<access, admin, changes, credsFailures, version, cache, role, proc>>

\* Mutant: credentials are cached with no timeout.
ExpireNever(c, v, u) == FALSE /\ UNCHANGED credsVars

\* Cached credentials expire after 23 hours and 45 minutes.
ExpireEntry(c, v, u) ==
    /\ cache[c][v][u] # NoEntry
    /\ cache' = [cache EXCEPT ![c][v][u] = NoEntry]
    /\ UNCHANGED <<access, admin, changes, credsFailures, version, credsLock, role, proc>>

(***************************************************************************)
(* The specification.                                                      *)
(***************************************************************************)
AdminStep == (\E c \in CachedCreds : AdminClear(c)) \/ AdminEnd

ProcessStep(p) ==
    \/ MakeKey(p) \/ LookupHit(p) \/ LookupMiss(p) \/ ReadTables(p) \/ Diff(p)
    \/ Apply(p) \/ Store(p) \/ Finish(p)

CredsNext ==
    \/ \E page \in Page, u \in User : AdminSave(page, u)
    \/ AdminStep
    \/ \E p \in Process :
          \/ \E u \in User, svc \in Service : Start(p, u, svc)
          \/ ProcessStep(p)
          \/ Fail(p)
    \/ \E u \in User : CredsLockExpires(u)
    \/ \E c \in CachedCreds, v \in Versions, u \in User : ExpireEntry(c, v, u)

\* A page that is being saved is finished, requests that have started go on,
\* the user comes back to Data Explorer, and Redis drops what has expired.
CredsFairness ==
    /\ WF_credsVars(AdminStep)
    /\ \A p \in Process : WF_credsVars(ProcessStep(p))
    /\ \A u \in User : SF_credsVars(\E p \in Process, svc \in Service \cap {"explorer"} : Start(p, u, svc))
    /\ \A c \in CachedCreds, v \in Versions, u \in User : WF_credsVars(ExpireEntry(c, v, u))

CredsSafetySpec == CredsInit /\ [][CredsNext]_credsVars

CredsSpec == CredsSafetySpec /\ CredsFairness

(***************************************************************************)
(* Properties.                                                             *)
(***************************************************************************)
Keyed == {"lookup", "read", "diff", "apply", "store"}

\* The variables have their types; a request of a service with a cache looks
\* there with a version that is set.
CredsTypeOK ==
    /\ access \in [User -> SUBSET Privilege]
    /\ admin \in [pc : {"idle", "saved"}, page : Page \cup {Absent}, user : User \cup {Absent},
                  pending : [User -> SUBSET Privilege], todo : SUBSET CachedCreds]
    /\ changes \in 0 .. MaxAccessChanges
    /\ credsFailures \in 0 .. MaxCredsFailures
    /\ version \in [CachedCreds -> Versions \cup {0}]
    /\ cache \in [CachedCreds -> [Versions -> [User -> Versions \cup {NoEntry}]]]
    /\ credsLock \in [User -> Process \cup {Absent}]
    /\ role \in [User -> SUBSET Privilege]
    /\ proc \in [Process ->
                   [pc : {"idle", "key", "done"} \cup Keyed, svc : Service \cup {Absent},
                    user : User \cup {Absent}, key : Versions \cup {0},
                    read : Versions \cup {0}, wants : SUBSET Privilege,
                    revoke : SUBSET Privilege, grant : SUBSET Privilege]]
    /\ \A p \in Process :
          proc[p].pc \in Keyed /\ proc[p].svc \in CachedCreds => proc[p].key \in Versions

\* Credentials that are found under a version had their tables read after the
\* version was set, also if many requests of a user fill the cache while the
\* version is incremented: invalidating is final, which
\* get_user_cached_credentials_key has by making the key before the tables are
\* read.
EntriesPostdateClear ==
    \A c \in CachedCreds, v \in Versions, u \in User :
       cache[c][v][u] # NoEntry => cache[c][v][u] >= v

\* A slow request never replaces credentials of Data Explorer by ones whose
\* tables were read before: what the lock of the user is for.
NewerEntriesStay ==
    [][ "explorer" \in CachedCreds =>
           \A v \in Versions, u \in User :
              cache'["explorer"][v][u] # NoEntry =>
                 cache'["explorer"][v][u] >= cache["explorer"][v][u] ]_credsVars

\* When the permissions no longer change, the tables a user's role can read
\* come to be the ones the user has access to and stay so, whatever was
\* cached, whichever request was late and whichever page forgot to clear.
TablesFollowAccess ==
    \A u \in User : <>[](role[u] \cap Table = access[u] \cap Table)

\* What EntriesPostdateClear and NewerEntriesStay need to be inductive.  The
\* version grows by at most one per page, keys are made before tables are read
\* and tables are read before they are stored, and a lock that does not expire
\* is held by the only request of Data Explorer for its user.
VersionInv ==
    /\ admin.pc = "saved" => changes >= 1 /\ admin.user \in User
    /\ \A c \in CachedCreds :
          /\ version[c] <= changes + 1
          /\ admin.pc = "saved" /\ admin.page = "access_type" /\ c \in admin.todo
                => version[c] <= changes

Reading == {"diff", "apply", "store"}

ProcessInv ==
    \A p \in Process :
       /\ proc[p].pc # "idle" => proc[p].user \in User /\ proc[p].svc \in Service
       /\ proc[p].pc \in {"key", "lookup", "store"} => proc[p].svc \in CachedCreds
       /\ proc[p].pc \in Keyed /\ proc[p].svc \in CachedCreds => proc[p].key <= version[proc[p].svc]
       /\ proc[p].pc \in Reading /\ proc[p].svc \in CachedCreds
             => proc[p].key <= proc[p].read /\ proc[p].read <= version[proc[p].svc]

EntryInv ==
    \A c \in CachedCreds, v \in Versions, u \in User : cache[c][v][u] <= version[c]

FillInv ==
    ~LockExpiry =>
       \A p \in Process :
          proc[p].pc # "idle" /\ proc[p].svc = "explorer" =>
             /\ credsLock[proc[p].user] = p
             /\ proc[p].pc \in Reading =>
                   cache["explorer"][proc[p].key][proc[p].user] <= proc[p].read

CredentialsInv ==
    CredsTypeOK /\ VersionInv /\ ProcessInv /\ EntryInv /\ EntriesPostdateClear /\ FillInv

\* A page that is saved takes effect: when no request is on its way, a user
\* who has credentials under the current version of Data Explorer cannot read
\* tables that the user has lost.
LostAccessIsLost ==
    \A u \in User :
       /\ admin.pc = "idle"
       /\ \A p \in Process : proc[p].pc = "idle"
       /\ version["explorer"] # 0
       /\ cache["explorer"][version["explorer"]][u] # NoEntry
       => role[u] \cap Table \subseteq access[u]

\* Invalidating is final: all variables are of their types, and credentials found under
\* a version were made of permissions read since that version was set
\* (get_user_cached_credentials_key).
CacheSafety ==
  /\ CredsTypeOK
  /\ EntriesPostdateClear
=============================================================================

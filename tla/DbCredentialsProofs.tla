------------------------ MODULE DbCredentialsProofs ------------------------
(***************************************************************************)
(* For any number of users, tables, teams, requests and permission changes:*)
(* what is found under a version of the cache was read after the version   *)
(* was set, and a request of Data Explorer never replaces credentials by   *)
(* older ones.                                                             *)
(***************************************************************************)
EXTENDS DbCredentials, TLAPS

AdminRecord ==
    [pc : {"idle", "saved"}, page : Page \cup {Absent}, user : User \cup {Absent},
     pending : [User -> SUBSET Privilege], todo : SUBSET CachedCreds]

ProcRecord ==
    [pc : {"idle", "key", "done"} \cup Keyed, svc : Service \cup {Absent},
     user : User \cup {Absent}, key : Versions \cup {0}, read : Versions \cup {0},
     wants : SUBSET Privilege, revoke : SUBSET Privilege, grant : SUBSET Privilege]

\* Init establishes the strengthening.
LEMMA InitInv == CredsInit => CredentialsInv
<1> SUFFICES ASSUME CredsInit PROVE CredentialsInv
  OBVIOUS
<1> USE DbCredentialsAssumption DEF CredsInit
<1>1. IdleProcess \in ProcRecord /\ IdleProcess.pc = "idle"
  BY DEF IdleProcess, ProcRecord, Keyed
<1>2. admin \in AdminRecord /\ admin.pc = "idle"
  BY DEF IdleAdmin, AdminRecord
<1>3. \A p \in Process : proc[p] = IdleProcess
  OBVIOUS
<1>4. CredsTypeOK
  BY <1>1, <1>2, <1>3 DEF CredsTypeOK, AdminRecord, ProcRecord, NoEntry, Keyed
<1>5. VersionInv /\ EntryInv /\ EntriesPostdateClear
  BY <1>2 DEF VersionInv, EntryInv, EntriesPostdateClear, NoEntry
<1>6. ProcessInv /\ FillInv
  BY <1>1, <1>3 DEF ProcessInv, FillInv, Keyed, Reading
<1> QED BY <1>4, <1>5, <1>6 DEF CredentialsInv

\* The types, one by one, and the versions as numbers.
LEMMA TypeFacts ==
  ASSUME CredentialsInv
  PROVE  /\ proc \in [Process -> ProcRecord]
         /\ admin \in AdminRecord
         /\ access \in [User -> SUBSET Privilege]
         /\ version \in [CachedCreds -> Versions \cup {0}]
         /\ cache \in [CachedCreds -> [Versions -> [User -> Versions \cup {NoEntry}]]]
         /\ credsLock \in [User -> Process \cup {Absent}]
         /\ changes \in 0 .. MaxAccessChanges /\ MaxAccessChanges \in Nat /\ changes \in Nat
         /\ Versions \subseteq Nat /\ 0 \notin Versions /\ 1 \in Versions
         /\ \A n \in Nat : n >= 1 /\ n <= MaxAccessChanges + 1 => n \in Versions
         /\ \A c \in CachedCreds : version[c] \in Nat
         /\ \A p \in Process : proc[p].key \in Nat /\ proc[p].read \in Nat
         /\ \A c \in CachedCreds, v \in Versions, u \in User : cache[c][v][u] \in Nat
<1>1. MaxAccessChanges \in Nat
  BY DbCredentialsAssumption
<1>2. \A n \in Versions \cup {0} : n \in Nat
  BY <1>1 DEF Versions
<1>9. /\ 0 \notin Versions /\ 1 \in Versions
      /\ \A n \in Nat : n >= 1 /\ n <= MaxAccessChanges + 1 => n \in Versions
  BY <1>1 DEF Versions
<1>3. changes \in 0 .. MaxAccessChanges /\ changes \in Nat
  BY <1>1 DEF CredentialsInv, CredsTypeOK
<1>4. /\ version \in [CachedCreds -> Versions \cup {0}]
      /\ access \in [User -> SUBSET Privilege]
      /\ cache \in [CachedCreds -> [Versions -> [User -> Versions \cup {NoEntry}]]]
      /\ credsLock \in [User -> Process \cup {Absent}]
  BY DEF CredentialsInv, CredsTypeOK
<1>5. proc \in [Process -> ProcRecord] /\ admin \in AdminRecord
  BY DEF CredentialsInv, CredsTypeOK, ProcRecord, AdminRecord
<1>6. \A c \in CachedCreds : version[c] \in Nat
  <2>1. \A c \in CachedCreds : version[c] \in Versions \cup {0}
    BY <1>4
  <2> QED BY <1>2, <2>1
<1>7. \A p \in Process : proc[p].key \in Nat /\ proc[p].read \in Nat
  <2>1. \A p \in Process : {proc[p].key, proc[p].read} \subseteq Versions \cup {0}
    BY <1>5 DEF ProcRecord
  <2> QED BY <1>2, <2>1
<1>8. \A c \in CachedCreds, v \in Versions, u \in User : cache[c][v][u] \in Nat
  <2>1. \A c \in CachedCreds, v \in Versions, u \in User : cache[c][v][u] \in Versions \cup {0}
    BY <1>4 DEF NoEntry
  <2> QED BY <1>2, <2>1
<1> QED BY <1>1, <1>2, <1>3, <1>4, <1>5, <1>6, <1>7, <1>8, <1>9

\* What it means to set one entry of the cache.
Entries == [CachedCreds -> [Versions -> [User -> Versions \cup {NoEntry}]]]

WithEntry(f, c, v, u, x) == [f EXCEPT ![c][v][u] = x]

LEMMA SetEntry ==
  ASSUME NEW f \in Entries, NEW c \in CachedCreds, NEW v \in Versions, NEW u \in User,
         NEW x \in Versions \cup {NoEntry}
  PROVE  LET g == WithEntry(f, c, v, u, x) IN
         /\ g \in Entries
         /\ g[c][v][u] = x
         /\ \A d \in CachedCreds, w \in Versions, y \in User :
               d # c \/ w # v \/ y # u => g[d][w][y] = f[d][w][y]
<1>1. /\ f \in [CachedCreds -> [Versions -> [User -> Versions \cup {NoEntry}]]]
      /\ f[c] \in [Versions -> [User -> Versions \cup {NoEntry}]]
      /\ f[c][v] \in [User -> Versions \cup {NoEntry}]
  BY DEF Entries
<1> DEFINE g == WithEntry(f, c, v, u, x)
           row == [f[c][v] EXCEPT ![u] = x]
           table == [f[c] EXCEPT ![v] = row]
<1>2. row \in [User -> Versions \cup {NoEntry}] /\ row[u] = x
  BY <1>1
<1>3. \A y \in User : y # u => row[y] = f[c][v][y]
  BY <1>1
<1>4. g = [f EXCEPT ![c] = table]
  BY DEF WithEntry
<1> HIDE DEF row, g
<1>5. table \in [Versions -> [User -> Versions \cup {NoEntry}]] /\ table[v] = row
  BY <1>1, <1>2
<1>6. \A w \in Versions : w # v => table[w] = f[c][w]
  BY <1>1
<1> HIDE DEF table
<1>7. g \in Entries /\ g[c] = table
  BY <1>1, <1>4, <1>5 DEF Entries
<1>8. \A d \in CachedCreds : d # c => g[d] = f[d]
  BY <1>1, <1>4
<1>9. /\ g \in Entries /\ g[c][v][u] = x
      /\ \A d \in CachedCreds, w \in Versions, y \in User :
            d # c \/ w # v \/ y # u => g[d][w][y] = f[d][w][y]
  BY <1>2, <1>3, <1>5, <1>6, <1>7, <1>8
<1> QED BY <1>9 DEF g

LEMMA OtherEntries ==
  ASSUME NEW f \in Entries, NEW c \in CachedCreds, NEW v \in Versions, NEW u \in User,
         NEW x \in Versions \cup {NoEntry},
         NEW d \in CachedCreds, NEW w \in Versions, NEW y \in User,
         d # c \/ w # v \/ y # u
  PROVE  WithEntry(f, c, v, u, x)[d][w][y] = f[d][w][y]
  BY SetEntry

LEMMA CacheUpdate ==
  ASSUME cache \in Entries, NEW c \in CachedCreds, NEW v \in Versions, NEW u \in User,
         NEW x \in Versions \cup {NoEntry},
         cache' = WithEntry(cache, c, v, u, x)
  PROVE  /\ cache' \in Entries
         /\ cache'[c][v][u] = x
         /\ \A d \in CachedCreds, w \in Versions, y \in User :
               d # c \/ w # v \/ y # u => cache'[d][w][y] = cache[d][w][y]
<1> DEFINE g == WithEntry(cache, c, v, u, x)
<1>1. g \in Entries /\ g[c][v][u] = x
  BY SetEntry
<1>2. \A d \in CachedCreds, w \in Versions, y \in User :
         d # c \/ w # v \/ y # u => g[d][w][y] = cache[d][w][y]
  <2> SUFFICES ASSUME NEW d \in CachedCreds, NEW w \in Versions, NEW y \in User,
                      d # c \/ w # v \/ y # u
               PROVE  g[d][w][y] = cache[d][w][y]
    OBVIOUS
  <2> QED BY OtherEntries
<1>3. cache' = g
  OBVIOUS
<1> HIDE DEF g
<1> QED BY <1>1, <1>2, <1>3

\* The steps of a request, whatever ends it.
RequestStep(p) ==
    \/ \E u \in User, svc \in Service : Start(p, u, svc)
    \/ ProcessStep(p)
    \/ Fail(p)

\* A request changes its own record only, and to one of the right type.
LEMMA RequestRecord ==
  ASSUME CredentialsInv, NEW p \in Process, RequestStep(p)
  PROVE  /\ proc' \in [Process -> ProcRecord]
         /\ \A q \in Process \ {p} : proc'[q] = proc[q]
<1> USE DbCredentialsAssumption
<1>1. proc \in [Process -> ProcRecord]
  BY DEF CredentialsInv, CredsTypeOK, ProcRecord
<1>2. \A rec : rec \in ProcRecord /\ proc' = [proc EXCEPT ![p] = rec] =>
         /\ proc' \in [Process -> ProcRecord]
         /\ \A q \in Process \ {p} : proc'[q] = proc[q]
  BY <1>1
<1>3. IdleProcess \in ProcRecord
  BY DEF IdleProcess, ProcRecord, Keyed
<1>4. CASE \E u \in User, svc \in Service : Start(p, u, svc)
  BY <1>2, <1>4 DEF Start, Step, IdleProcess, ProcRecord, Keyed
<1>5. CASE MakeKey(p)
  <2>1. proc[p].svc \in CachedCreds /\ version \in [CachedCreds -> Versions \cup {0}]
    BY <1>5 DEF CredentialsInv, ProcessInv, CredsTypeOK, MakeKey, Step
  <2>2. (IF version[proc[p].svc] = 0 THEN 1 ELSE version[proc[p].svc]) \in Versions
    BY <2>1 DEF Versions
  <2>3. ASSUME NEW v \in Versions
        PROVE  [proc[p] EXCEPT !.pc = "lookup", !.key = v] \in ProcRecord
    <3>1. PICK c \in ProcRecord : c = proc[p]
      BY <1>1
    <3>2. [c EXCEPT !.pc = "lookup", !.key = v] \in ProcRecord
      BY ZenonT(60) DEF ProcRecord, Keyed
    <3> QED BY <3>1, <3>2
  <2> QED BY <1>2, <1>5, <2>2, <2>3 DEF MakeKey, Step
<1>6. CASE LookupHit(p) \/ Finish(p) \/ Fail(p)
  BY <1>2, <1>3, <1>6 DEF LookupHit, Finish, Fail, Step
<1>7. CASE LookupMiss(p)
  BY <1>1, <1>2, <1>7 DEF LookupMiss, Step, ProcRecord, Keyed
<1>8. CASE ReadTables(p)
  <2>1. proc[p].user \in User
    BY <1>8 DEF CredentialsInv, ProcessInv, ReadTables, Step
  <2>2. access[proc[p].user] \in SUBSET Privilege
    BY <2>1 DEF CredentialsInv, CredsTypeOK
  <2>3. (IF proc[p].svc \in CachedCreds THEN version[proc[p].svc] ELSE 0) \in Versions \cup {0}
    BY DEF CredentialsInv, CredsTypeOK
  <2>4. ASSUME NEW w \in SUBSET Privilege, NEW r \in Versions \cup {0}
        PROVE  [proc[p] EXCEPT !.pc = "diff", !.wants = w, !.read = r] \in ProcRecord
    <3>1. PICK c \in ProcRecord : c = proc[p]
      BY <1>1
    <3>2. [c EXCEPT !.pc = "diff", !.wants = w, !.read = r] \in ProcRecord
      BY ZenonT(60) DEF ProcRecord, Keyed
    <3> QED BY <3>1, <3>2
  <2> QED BY <1>2, <1>8, <2>2, <2>3, <2>4 DEF ReadTables, Step
<1>9. CASE Diff(p)
  <2>1. proc[p].wants \subseteq Privilege
    BY <1>1 DEF ProcRecord
  <2>2. PreviouslyGranted(proc[p].user) \subseteq Privilege
    BY DEF PreviouslyGranted, Privilege
  <2>3. ASSUME NEW x \in SUBSET Privilege, NEW y \in SUBSET Privilege
        PROVE  [proc[p] EXCEPT !.pc = "apply", !.revoke = x, !.grant = y] \in ProcRecord
    <3>1. PICK c \in ProcRecord : c = proc[p]
      BY <1>1
    <3>2. [c EXCEPT !.pc = "apply", !.revoke = x, !.grant = y] \in ProcRecord
      BY ZenonT(60) DEF ProcRecord, Keyed
    <3> QED BY <3>1, <3>2
  <2>4. /\ ToRevoke(PreviouslyGranted(proc[p].user), proc[p].wants) \in SUBSET Privilege
        /\ proc[p].wants \ PreviouslyGranted(proc[p].user) \in SUBSET Privilege
    BY <2>1, <2>2 DEF ToRevoke
  <2> QED BY <1>2, <1>9, <2>3, <2>4 DEF Diff, Step
<1>10. CASE Apply(p)
  <2>1. ASSUME NEW l \in {"store", "done"}
        PROVE  [proc[p] EXCEPT !.pc = l, !.revoke = {}, !.grant = {}] \in ProcRecord
    <3>1. PICK c \in ProcRecord : c = proc[p]
      BY <1>1
    <3>2. [c EXCEPT !.pc = l, !.revoke = {}, !.grant = {}] \in ProcRecord
      BY ZenonT(60) DEF ProcRecord, Keyed
    <3> QED BY <3>1, <3>2
  <2> QED BY <1>2, <1>10, <2>1 DEF Apply, Step
<1>11. CASE Store(p)
  BY <1>1, <1>2, <1>11 DEF Store, Step, ProcRecord, Keyed
<1> QED BY <1>4, <1>5, <1>6, <1>7, <1>8, <1>9, <1>10, <1>11
        DEF RequestStep, ProcessStep

\* A request leaves what the administrator changes alone, and sets a version
\* to 1 if at all.
LEMMA RequestFrame ==
  ASSUME CredentialsInv, NEW p \in Process, RequestStep(p)
  PROVE  /\ access' = access /\ admin' = admin /\ changes' = changes
         /\ credsFailures' \in 0 .. MaxCredsFailures
         /\ version' \in [CachedCreds -> Versions \cup {0}]
         /\ \A c \in CachedCreds : version'[c] = version[c] \/ (version[c] = 0 /\ version'[c] = 1)
         /\ version' = version \/ (proc[p].pc = "key" /\ cache' = cache /\ credsLock' = credsLock)
<1>0. /\ credsFailures \in 0 .. MaxCredsFailures /\ version \in [CachedCreds -> Versions \cup {0}]
      /\ MaxCredsFailures \in Nat /\ 1 \in Versions
  BY DbCredentialsAssumption DEF CredentialsInv, CredsTypeOK, Versions
<1>1. CASE MakeKey(p)
  <2>1. proc[p].svc \in CachedCreds
    BY <1>1 DEF MakeKey, Step, CredentialsInv, ProcessInv
  <2>2. /\ version' = [version EXCEPT ![proc[p].svc] =
                        IF version[proc[p].svc] = 0 THEN 1 ELSE version[proc[p].svc]]
        /\ proc[p].pc = "key" /\ cache' = cache /\ credsLock' = credsLock
        /\ access' = access /\ admin' = admin /\ changes' = changes /\ credsFailures' = credsFailures
    BY <1>1 DEF MakeKey, Step
  <2> QED BY <1>0, <2>1, <2>2
<1>2. CASE Fail(p)
  <2>1. /\ access' = access /\ admin' = admin /\ changes' = changes /\ version' = version
        /\ credsFailures' \in 0 .. MaxCredsFailures
    BY <1>0, <1>2 DEF Fail
  <2> QED BY <1>0, <2>1
<1>3. CASE ~MakeKey(p) /\ ~Fail(p)
  <2>1. /\ access' = access /\ admin' = admin /\ changes' = changes /\ version' = version
        /\ credsFailures' = credsFailures
    BY <1>3 DEF RequestStep, ProcessStep, Start, LookupHit, LookupMiss, ReadTables, Diff,
                Apply, Store, Finish
  <2> QED BY <1>0, <2>1
<1> QED BY <1>1, <1>2, <1>3

\* The cache changes only when a request stores what it read.
LEMMA RequestCache ==
  ASSUME CredentialsInv, NEW p \in Process, RequestStep(p)
  PROVE  \/ UNCHANGED cache
         \/ /\ proc[p].pc = "store" /\ proc'[p].pc = "done"
            /\ proc[p].svc \in CachedCreds /\ proc[p].key \in Versions /\ proc[p].user \in User
            /\ proc[p].read \in Versions
            /\ cache' \in Entries
            /\ cache'[proc[p].svc][proc[p].key][proc[p].user] = proc[p].read
            /\ \A d \in CachedCreds, w \in Versions, y \in User :
                  d # proc[p].svc \/ w # proc[p].key \/ y # proc[p].user
                     => cache'[d][w][y] = cache[d][w][y]
<1> USE DbCredentialsAssumption
<1>1. CASE Store(p)
  <2>1. proc[p].pc = "store" /\ proc[p].svc \in CachedCreds /\ proc[p].user \in User
    BY <1>1 DEF Store, Step, CredentialsInv, ProcessInv
  <2>2. /\ proc[p].key \in Versions /\ proc[p].key <= proc[p].read
        /\ proc[p].read \in Versions \cup {0}
    BY <2>1 DEF CredentialsInv, CredsTypeOK, ProcessInv, Keyed, Reading
  <2>3. proc[p].read \in Versions
    BY <2>2 DEF Versions
  <2>4. proc'[p].pc = "done"
    BY <1>1 DEF Store, Step, CredentialsInv, CredsTypeOK
  <2>5. cache' = WithEntry(cache, proc[p].svc, proc[p].key, proc[p].user, proc[p].read)
    BY <1>1 DEF Store, WithEntry
  <2>6. cache \in Entries
    BY DEF CredentialsInv, CredsTypeOK, Entries
  <2>7. /\ cache' \in Entries
        /\ cache'[proc[p].svc][proc[p].key][proc[p].user] = proc[p].read
        /\ \A d \in CachedCreds, w \in Versions, y \in User :
              d # proc[p].svc \/ w # proc[p].key \/ y # proc[p].user
                 => cache'[d][w][y] = cache[d][w][y]
    <3>1. proc[p].read \in Versions \cup {NoEntry} /\ proc[p].key \in Versions
      BY <2>2, <2>3
    <3>2. PICK c \in CachedCreds, u \in User, v \in Versions, x \in Versions \cup {NoEntry} :
            c = proc[p].svc /\ u = proc[p].user /\ v = proc[p].key /\ x = proc[p].read
      BY <2>1, <3>1
    <3>3. cache' = WithEntry(cache, c, v, u, x)
      BY <2>5, <3>2
    <3>4. /\ cache' \in Entries /\ cache'[c][v][u] = x
          /\ \A d \in CachedCreds, w \in Versions, y \in User :
                d # c \/ w # v \/ y # u => cache'[d][w][y] = cache[d][w][y]
      BY <2>6, <3>3, CacheUpdate
    <3> QED BY <3>2, <3>4
  <2> QED BY <2>1, <2>2, <2>3, <2>4, <2>7
<1>2. CASE ~Store(p)
  BY <1>2 DEF RequestStep, ProcessStep, Start, MakeKey, LookupHit, LookupMiss, ReadTables, Diff,
              Apply, Finish, Fail
<1> QED BY <1>1, <1>2

\* A request takes a free lock when it starts and frees its own at the end.
LEMMA RequestLock ==
  ASSUME CredentialsInv, NEW p \in Process, RequestStep(p)
  PROVE  /\ credsLock' \in [User -> Process \cup {Absent}]
         /\ \A u \in User : credsLock[u] \in Process \ {p} => credsLock'[u] = credsLock[u]
         /\ proc'[p].pc # "idle" =>
              \/ /\ UNCHANGED credsLock /\ proc[p].pc # "idle"
                 /\ proc'[p].svc = proc[p].svc /\ proc'[p].user = proc[p].user
              \/ /\ proc[p].pc = "idle" /\ proc'[p].pc \in {"key", "read"}
                 /\ proc'[p].user \in User /\ proc'[p].svc \in Service
                 /\ proc'[p].pc = "key" => proc'[p].svc \in CachedCreds
                 /\ proc'[p].svc \in CachedCreds => proc'[p].pc = "key"
                 /\ proc'[p].svc = "explorer" => credsLock'[proc'[p].user] = p
<1> USE DbCredentialsAssumption
<1>0. proc \in [Process -> ProcRecord] /\ credsLock \in [User -> Process \cup {Absent}]
  BY DEF CredentialsInv, CredsTypeOK, ProcRecord
<1>1. CASE \E u \in User, svc \in Service : Start(p, u, svc)
  <2>1. PICK u \in User, svc \in Service : Start(p, u, svc)
    BY <1>1
  <2>2. /\ proc'[p].pc = IF svc = "spawn" THEN "read" ELSE "key"
        /\ proc'[p].svc = svc /\ proc'[p].user = u /\ proc[p].pc = "idle"
    BY <1>0, <2>1 DEF Start, Step, IdleProcess
  <2>3. svc # "spawn" <=> svc \in CachedCreds
    BY DEF CachedCreds, Services
  <2>4. \/ svc = "explorer" /\ credsLock[u] = Absent /\ credsLock' = [credsLock EXCEPT ![u] = p]
        \/ svc # "explorer" /\ UNCHANGED credsLock
    BY <2>1 DEF Start
  <2>5. credsLock' \in [User -> Process \cup {Absent}]
    BY <1>0, <2>4
  <2>6. \A x \in User : credsLock[x] \in Process \ {p} => credsLock'[x] = credsLock[x]
    BY <1>0, <2>4
  <2>7. svc = "explorer" => credsLock'[u] = p
    BY <1>0, <2>4
  <2> QED BY <2>2, <2>3, <2>5, <2>6, <2>7
<1>2. CASE LookupHit(p) \/ Finish(p) \/ Fail(p)
  <2>1. proc'[p].pc = "idle" /\ Unlock(p) /\ proc[p].user \in User
    BY <1>0, <1>2 DEF LookupHit, Finish, Fail, Step, IdleProcess, CredentialsInv, ProcessInv
  <2> QED BY <1>0, <2>1 DEF Unlock
<1>3. CASE MakeKey(p) \/ LookupMiss(p) \/ ReadTables(p) \/ Diff(p) \/ Apply(p) \/ Store(p)
  <2>1. UNCHANGED credsLock /\ proc[p].pc # "idle"
    BY <1>3 DEF MakeKey, LookupMiss, ReadTables, Diff, Apply, Store, Step
  <2>2. proc'[p].svc = proc[p].svc /\ proc'[p].user = proc[p].user
    <3>1. CASE MakeKey(p)
      BY <1>0, <3>1 DEF MakeKey, Step, ProcRecord
    <3>2. CASE LookupMiss(p)
      BY <1>0, <3>2 DEF LookupMiss, Step, ProcRecord
    <3>3. CASE ReadTables(p)
      BY <1>0, <3>3 DEF ReadTables, Step, ProcRecord
    <3>4. CASE Diff(p)
      BY <1>0, <3>4 DEF Diff, Step, ProcRecord
    <3>5. CASE Apply(p)
      BY <1>0, <3>5 DEF Apply, Step, ProcRecord
    <3>6. CASE Store(p)
      BY <1>0, <3>6 DEF Store, Step, ProcRecord
    <3> QED BY <1>3, <3>1, <3>2, <3>3, <3>4, <3>5, <3>6
  <2> QED BY <1>0, <2>1, <2>2
<1> QED BY <1>1, <1>2, <1>3 DEF RequestStep, ProcessStep

\* The key is made from the version, and the tables are read at the version,
\* that the service has at that moment; later steps keep both.
LEMMA RequestKey ==
  ASSUME CredentialsInv, NEW p \in Process, RequestStep(p)
  PROVE  LET q == proc'[p] IN
         /\ proc[p].pc # "idle" => q.pc # "key"
         /\ q.pc = "store" => q.svc \in CachedCreds
         /\ q.pc = "lookup" => q.svc \in CachedCreds /\ q.key = version'[q.svc] /\ q.key # 0
         /\ q.pc \in {"read", "diff", "apply", "store"} /\ q.svc \in CachedCreds =>
              /\ proc[p].pc \in Keyed /\ proc[p].svc = q.svc /\ proc[p].key = q.key
              /\ \/ q.pc = "read"
                 \/ q.pc = "diff" /\ q.read = version[q.svc]
                 \/ proc[p].pc \in Reading /\ q.read = proc[p].read
<1> USE DbCredentialsAssumption
<1>0. /\ proc \in [Process -> ProcRecord]
      /\ version \in [CachedCreds -> Versions \cup {0}]
      /\ 0 \notin Versions
  BY DEF CredentialsInv, CredsTypeOK, ProcRecord, Versions
<1>1. CASE \E u \in User, svc \in Service : Start(p, u, svc)
  <2>1. PICK u \in User, svc \in Service : Start(p, u, svc)
    BY <1>1
  <2>2. /\ proc'[p].pc = IF svc = "spawn" THEN "read" ELSE "key"
        /\ proc'[p].svc = svc
    BY <1>0, <2>1 DEF Start, Step, IdleProcess
  <2>3. proc[p].pc = "idle"
    BY <2>1 DEF Start, Step
  <2> QED BY <2>2, <2>3 DEF CachedCreds
<1>2. CASE LookupHit(p) \/ Finish(p) \/ Fail(p)
  <2>1. proc'[p].pc = "idle"
    BY <1>0, <1>2 DEF LookupHit, Finish, Fail, Step, IdleProcess
  <2> QED BY <2>1
<1>3. CASE MakeKey(p)
  <2>1. proc[p].svc \in CachedCreds
    BY <1>3 DEF MakeKey, Step, CredentialsInv, ProcessInv
  <2>2. /\ proc'[p].pc = "lookup" /\ proc'[p].svc = proc[p].svc
        /\ proc'[p].key = IF version[proc[p].svc] = 0 THEN 1 ELSE version[proc[p].svc]
    BY <1>0, <1>3 DEF MakeKey, Step, ProcRecord
  <2>3. version' = [version EXCEPT ![proc[p].svc] =
                       IF version[proc[p].svc] = 0 THEN 1 ELSE version[proc[p].svc]]
    BY <1>3 DEF MakeKey
  <2> QED BY <1>0, <2>1, <2>2, <2>3
<1>4. CASE LookupMiss(p)
  <2>1. /\ proc[p].pc = "lookup" /\ proc'[p].pc = "read"
        /\ proc'[p].svc = proc[p].svc /\ proc'[p].key = proc[p].key
    BY <1>0, <1>4 DEF LookupMiss, Step, ProcRecord
  <2> QED BY <2>1 DEF Keyed
<1>5. CASE ReadTables(p)
  <2>1. /\ proc[p].pc = "read" /\ proc'[p].pc = "diff"
        /\ proc'[p].svc = proc[p].svc /\ proc'[p].key = proc[p].key
        /\ proc[p].svc \in CachedCreds => proc'[p].read = version[proc[p].svc]
    BY <1>0, <1>5 DEF ReadTables, Step, ProcRecord
  <2> QED BY <2>1 DEF Keyed
<1>6. CASE Diff(p)
  <2>1. /\ proc[p].pc = "diff" /\ proc'[p].pc = "apply" /\ proc'[p].svc = proc[p].svc
        /\ proc'[p].key = proc[p].key /\ proc'[p].read = proc[p].read
    BY <1>0, <1>6 DEF Diff, Step, ProcRecord
  <2> QED BY <2>1 DEF Keyed, Reading
<1>7. CASE Apply(p)
  <2>1. /\ proc[p].pc = "apply" /\ proc'[p].svc = proc[p].svc
        /\ proc'[p].pc = IF proc[p].svc \in CachedCreds THEN "store" ELSE "done"
        /\ proc'[p].key = proc[p].key /\ proc'[p].read = proc[p].read
    BY <1>0, <1>7 DEF Apply, Step, ProcRecord
  <2> QED BY <2>1 DEF Keyed, Reading
<1>8. CASE Store(p)
  <2>1. proc'[p].pc = "done"
    BY <1>0, <1>8 DEF Store, Step, ProcRecord
  <2> QED BY <2>1
<1> QED BY <1>1, <1>2, <1>3, <1>4, <1>5, <1>6, <1>7, <1>8 DEF RequestStep, ProcessStep

\* Every step of a request preserves the strengthening.
LEMMA RequestStepInv ==
  ASSUME CredentialsInv, NEW p \in Process, RequestStep(p)
  PROVE  CredentialsInv'
<1>0. /\ proc \in [Process -> ProcRecord]
      /\ admin \in AdminRecord
      /\ access \in [User -> SUBSET Privilege]
      /\ version \in [CachedCreds -> Versions \cup {0}]
      /\ cache \in [CachedCreds -> [Versions -> [User -> Versions \cup {NoEntry}]]]
      /\ credsLock \in [User -> Process \cup {Absent}]
      /\ changes \in 0 .. MaxAccessChanges /\ MaxAccessChanges \in Nat /\ changes \in Nat
      /\ Versions \subseteq Nat /\ 0 \notin Versions /\ 1 \in Versions
      /\ \A n \in Nat : n >= 1 /\ n <= MaxAccessChanges + 1 => n \in Versions
      /\ \A c \in CachedCreds : version[c] \in Nat
      /\ \A q \in Process : proc[q].key \in Nat /\ proc[q].read \in Nat
      /\ \A c \in CachedCreds, v \in Versions, u \in User : cache[c][v][u] \in Nat
  BY TypeFacts
<1>1. /\ proc' \in [Process -> ProcRecord]
      /\ \A q \in Process \ {p} : proc'[q] = proc[q]
  BY RequestRecord
<1>2. /\ access' = access /\ admin' = admin /\ changes' = changes
      /\ credsFailures' \in 0 .. MaxCredsFailures
      /\ version' \in [CachedCreds -> Versions \cup {0}]
      /\ \A c \in CachedCreds : version'[c] = version[c] \/ (version[c] = 0 /\ version'[c] = 1)
  BY RequestFrame
<1>3. ASSUME NEW c \in CachedCreds PROVE version[c] <= version'[c]
  <2>1. version[c] \in Nat
    BY <1>0
  <2>2. version'[c] = version[c] \/ (version[c] = 0 /\ version'[c] = 1)
    BY <1>2
  <2> QED BY <2>1, <2>2
<1>4. /\ credsLock' \in [User -> Process \cup {Absent}]
      /\ \A u \in User : credsLock[u] \in Process \ {p} => credsLock'[u] = credsLock[u]
      /\ proc'[p].pc # "idle" =>
           \/ /\ credsLock' = credsLock /\ proc[p].pc # "idle"
              /\ proc'[p].svc = proc[p].svc /\ proc'[p].user = proc[p].user
           \/ /\ proc[p].pc = "idle" /\ proc'[p].pc \in {"key", "read"}
              /\ proc'[p].user \in User /\ proc'[p].svc \in Service
              /\ proc'[p].pc = "key" => proc'[p].svc \in CachedCreds
              /\ proc'[p].svc \in CachedCreds => proc'[p].pc = "key"
              /\ proc'[p].svc = "explorer" => credsLock'[proc'[p].user] = p
  BY RequestLock
<1>5. /\ proc'[p].pc = "store" => proc'[p].svc \in CachedCreds
      /\ proc'[p].pc = "lookup" =>
           /\ proc'[p].svc \in CachedCreds /\ proc'[p].key = version'[proc'[p].svc]
           /\ proc'[p].key # 0
      /\ proc'[p].pc \in {"read", "diff", "apply", "store"} /\ proc'[p].svc \in CachedCreds =>
           /\ proc[p].pc \in Keyed /\ proc[p].svc = proc'[p].svc /\ proc[p].key = proc'[p].key
           /\ \/ proc'[p].pc = "read"
              \/ proc'[p].pc = "diff" /\ proc'[p].read = version[proc'[p].svc]
              \/ proc[p].pc \in Reading /\ proc'[p].read = proc[p].read
  BY RequestKey
<1>6. \/ cache' = cache
      \/ /\ proc[p].pc = "store" /\ proc'[p].pc = "done"
         /\ proc[p].svc \in CachedCreds /\ proc[p].key \in Versions /\ proc[p].user \in User
         /\ proc[p].read \in Versions
         /\ cache' \in Entries
         /\ cache'[proc[p].svc][proc[p].key][proc[p].user] = proc[p].read
         /\ \A d \in CachedCreds, w \in Versions, y \in User :
               d # proc[p].svc \/ w # proc[p].key \/ y # proc[p].user
                  => cache'[d][w][y] = cache[d][w][y]
  BY RequestCache
<1>7. \A q \in Process :
         proc'[q].pc \in Keyed /\ proc'[q].svc \in CachedCreds => proc'[q].key \in Versions
  <2>1. CASE proc'[p].pc \in {"read", "diff", "apply", "store"} /\ proc'[p].svc \in CachedCreds
    BY <1>1, <1>5, <2>1 DEF CredentialsInv, CredsTypeOK
  <2>2. CASE proc'[p].pc = "lookup"
    <3>1. proc'[p].svc \in CachedCreds /\ proc'[p].key = version'[proc'[p].svc] /\ proc'[p].key # 0
      BY <1>5, <2>2
    <3>2. version'[proc'[p].svc] \in Versions \cup {0}
      BY <1>2, <3>1
    <3>3. proc'[p].key \in Versions
      BY <3>1, <3>2
    <3>4. \A q \in Process : proc[q].pc \in Keyed /\ proc[q].svc \in CachedCreds => proc[q].key \in Versions
      BY DEF CredentialsInv, CredsTypeOK
    <3> QED BY <1>1, <3>3, <3>4
  <2>3. CASE proc'[p].pc \notin Keyed \/ proc'[p].svc \notin CachedCreds
    BY <1>1, <2>3 DEF CredentialsInv, CredsTypeOK
  <2> QED BY <2>1, <2>2, <2>3 DEF Keyed
<1>8. cache' \in [CachedCreds -> [Versions -> [User -> Versions \cup {NoEntry}]]]
  BY <1>0, <1>6 DEF Entries
<1>9. role' \in [User -> SUBSET Privilege]
  <2>1. role \in [User -> SUBSET Privilege] /\ proc[p].grant \subseteq Privilege
    BY <1>0 DEF CredentialsInv, CredsTypeOK, ProcRecord
  <2>2. CASE Apply(p)
    <3>1. role' = [role EXCEPT ![proc[p].user] = (@ \ proc[p].revoke) \cup proc[p].grant]
      BY <2>2 DEF Apply
    <3> QED BY <2>1, <3>1
  <2>3. CASE ~Apply(p)
    <3>1. role' = role
      BY <2>3 DEF RequestStep, ProcessStep, Start, MakeKey, LookupHit, LookupMiss,
                  ReadTables, Diff, Store, Finish, Fail
    <3> QED BY <2>1, <3>1
  <2> QED BY <2>2, <2>3
<1>10. CredsTypeOK'
  BY <1>1, <1>2, <1>4, <1>7, <1>8, <1>9 DEF CredentialsInv, CredsTypeOK, ProcRecord
<1>11. VersionInv'
  <2>0. admin.pc = "saved" => changes >= 1 /\ admin.user \in User
    BY DEF CredentialsInv, VersionInv
  <2> SUFFICES ASSUME NEW c \in CachedCreds
               PROVE  /\ version'[c] <= changes + 1
                      /\ admin.pc = "saved" /\ admin.page = "access_type" /\ c \in admin.todo
                            => version'[c] <= changes
    BY <1>2, <2>0 DEF VersionInv
  <2>1. CASE version'[c] = version[c]
    BY <2>1 DEF CredentialsInv, VersionInv
  \* A page counts as a change before it clears.
  <2>2. CASE version[c] = 0 /\ version'[c] = 1
    <3>1. admin.pc = "saved" => changes >= 1
      BY DEF CredentialsInv, VersionInv
    <3> QED BY <1>0, <2>2, <3>1
  <2> QED BY <1>2, <2>1, <2>2
<1>12. ProcessInv'
  <2> SUFFICES ASSUME NEW q \in Process
               PROVE  /\ proc'[q].pc # "idle" => proc'[q].user \in User /\ proc'[q].svc \in Service
                      /\ proc'[q].pc \in {"key", "lookup", "store"} => proc'[q].svc \in CachedCreds
                      /\ proc'[q].pc \in Keyed /\ proc'[q].svc \in CachedCreds
                            => proc'[q].key <= version'[proc'[q].svc]
                      /\ proc'[q].pc \in Reading /\ proc'[q].svc \in CachedCreds
                            => /\ proc'[q].key <= proc'[q].read
                               /\ proc'[q].read <= version'[proc'[q].svc]
    BY DEF ProcessInv
  <2>1. CASE q # p
    <3>1. proc'[q] = proc[q]
      BY <1>1, <2>1
    <3>2. proc[q].key \in Nat /\ proc[q].read \in Nat
      BY <1>0 DEF ProcRecord
    <3>3. /\ proc[q].pc # "idle" => proc[q].user \in User /\ proc[q].svc \in Service
          /\ proc[q].pc \in {"key", "lookup", "store"} => proc[q].svc \in CachedCreds
      BY DEF CredentialsInv, ProcessInv
    <3>4. ASSUME proc[q].svc \in CachedCreds
          PROVE  /\ proc[q].pc \in Keyed => proc[q].key <= version'[proc[q].svc]
                 /\ proc[q].pc \in Reading => /\ proc[q].key <= proc[q].read
                                              /\ proc[q].read <= version'[proc[q].svc]
      <4>1. /\ proc[q].pc \in Keyed => proc[q].key <= version[proc[q].svc]
            /\ proc[q].pc \in Reading => /\ proc[q].key <= proc[q].read
                                         /\ proc[q].read <= version[proc[q].svc]
        BY <3>4 DEF CredentialsInv, ProcessInv
      <4>2. /\ version[proc[q].svc] \in Nat /\ version'[proc[q].svc] \in Nat
            /\ version[proc[q].svc] <= version'[proc[q].svc]
        BY <1>0, <1>2, <1>3, <3>4
      <4> QED BY <3>2, <4>1, <4>2
    <3> QED BY <3>1, <3>3, <3>4
  <2>2. CASE q = p
    <3>1. /\ proc'[p].pc # "idle" => proc'[p].user \in User /\ proc'[p].svc \in Service
          /\ proc'[p].pc \in {"key", "lookup", "store"} => proc'[p].svc \in CachedCreds
      <4>1. proc[p].pc # "idle" => proc[p].user \in User /\ proc[p].svc \in Service
        BY DEF CredentialsInv, ProcessInv
      <4>2. proc[p].pc # "idle" => proc'[p].pc # "key"
        BY RequestKey
      <4> QED BY <1>4, <1>5, <4>1, <4>2
    <3>2. /\ proc'[p].key \in Nat /\ proc'[p].read \in Nat /\ proc[p].key \in Nat
          /\ proc[p].read \in Nat
      <4>1. {proc'[p].key, proc'[p].read} \subseteq Versions \cup {0}
        BY <1>1 DEF ProcRecord
      <4>2. \A n \in Versions \cup {0} : n \in Nat
        BY <1>0
      <4> QED BY <1>0, <4>1, <4>2
    <3>3. ASSUME proc'[p].pc \in Keyed, proc'[p].svc \in CachedCreds
          PROVE  proc'[p].key <= version'[proc'[p].svc]
      <4>1. version[proc'[p].svc] \in Nat /\ version'[proc'[p].svc] \in Nat
        BY <1>0, <1>2, <3>3
      <4>2. CASE proc'[p].pc = "lookup"
        BY <1>5, <4>1, <4>2
      <4>3. CASE proc'[p].pc # "lookup"
        <5>1. /\ proc[p].key <= version[proc[p].svc] /\ proc[p].svc = proc'[p].svc
              /\ proc[p].key = proc'[p].key
          BY <1>5, <3>3, <4>3 DEF CredentialsInv, ProcessInv, Keyed
        <5> QED BY <1>3, <3>2, <3>3, <4>1, <5>1
      <4> QED BY <4>2, <4>3
    <3>4. ASSUME proc'[p].pc \in Reading, proc'[p].svc \in CachedCreds
          PROVE  proc'[p].key <= proc'[p].read /\ proc'[p].read <= version'[proc'[p].svc]
      <4>1. /\ version[proc'[p].svc] \in Nat /\ version'[proc'[p].svc] \in Nat
            /\ version[proc'[p].svc] <= version'[proc'[p].svc]
        BY <1>0, <1>2, <1>3, <3>4
      <4>2. /\ proc[p].pc \in Keyed /\ proc[p].svc = proc'[p].svc /\ proc[p].key = proc'[p].key
            /\ \/ proc'[p].read = version[proc'[p].svc]
               \/ proc[p].pc \in Reading /\ proc'[p].read = proc[p].read
        BY <1>5, <3>4 DEF Reading
      <4>3. CASE proc'[p].read = version[proc'[p].svc]
        <5>1. proc[p].key <= version[proc[p].svc]
          BY <3>4, <4>2 DEF CredentialsInv, ProcessInv
        <5> QED BY <3>2, <4>1, <4>2, <4>3, <5>1
      <4>4. CASE proc[p].pc \in Reading /\ proc'[p].read = proc[p].read
        <5>1. proc[p].key <= proc[p].read /\ proc[p].read <= version[proc[p].svc]
          BY <3>4, <4>2, <4>4 DEF CredentialsInv, ProcessInv
        <5> QED BY <3>2, <4>1, <4>2, <4>4, <5>1
      <4> QED BY <4>2, <4>3, <4>4
    <3> QED BY <2>2, <3>1, <3>3, <3>4
  <2> QED BY <2>1, <2>2
<1>13. EntryInv' /\ EntriesPostdateClear'
  <2> SUFFICES ASSUME NEW c \in CachedCreds, NEW v \in Versions, NEW u \in User
               PROVE  /\ cache'[c][v][u] <= version'[c]
                      /\ cache'[c][v][u] # NoEntry => cache'[c][v][u] >= v
    BY DEF EntryInv, EntriesPostdateClear
  <2>1. /\ cache[c][v][u] <= version[c] /\ cache[c][v][u] \in Nat
        /\ cache[c][v][u] # NoEntry => cache[c][v][u] >= v
        /\ version[c] \in Nat /\ version'[c] \in Nat /\ version[c] <= version'[c]
    BY <1>0, <1>2, <1>3 DEF CredentialsInv, EntryInv, EntriesPostdateClear, NoEntry
  <2>2. CASE cache'[c][v][u] = cache[c][v][u]
    BY <2>1, <2>2
  <2>3. CASE cache'[c][v][u] # cache[c][v][u]
    <3>1. /\ proc[p].pc = "store" /\ c = proc[p].svc /\ v = proc[p].key
          /\ proc[p].read \in Versions /\ cache'[c][v][u] = proc[p].read
      BY <1>0, <1>6, <2>3
    <3>2. proc[p].key <= proc[p].read /\ proc[p].read <= version[c]
      BY <3>1 DEF CredentialsInv, ProcessInv, Reading
    <3>3. proc[p].read \in Nat /\ v \in Nat
      BY <1>0, <3>1
    <3> QED BY <2>1, <3>1, <3>2, <3>3
  <2> QED BY <2>2, <2>3
<1>14. FillInv'
  <2> SUFFICES ASSUME ~LockExpiry, NEW q \in Process,
                      proc'[q].pc # "idle", proc'[q].svc = "explorer"
               PROVE  /\ credsLock'[proc'[q].user] = q
                      /\ proc'[q].pc \in Reading =>
                           cache'["explorer"][proc'[q].key][proc'[q].user] <= proc'[q].read
    BY DEF FillInv
  <2>1. "explorer" \in CachedCreds /\ proc'[q].user \in User
    BY <1>12 DEF ProcessInv, CachedCreds
  \* Another request of Data Explorer for the same user would hold its lock.
  <2>2. CASE q # p
    <3>1. proc'[q] = proc[q]
      BY <1>1, <2>2
    <3>2. /\ credsLock[proc[q].user] = q
          /\ proc[q].pc \in Reading =>
               cache["explorer"][proc[q].key][proc[q].user] <= proc[q].read
      BY <3>1 DEF CredentialsInv, FillInv
    <3>3. credsLock'[proc'[q].user] = q
      BY <1>4, <2>1, <2>2, <3>1, <3>2
    <3>4. ~(proc[p].svc = "explorer" /\ proc[p].user = proc[q].user /\ proc[p].pc = "store")
      BY <2>2, <3>2 DEF CredentialsInv, FillInv
    <3>5. proc[q].pc \in Reading => proc[q].key \in Versions
      BY <2>1, <3>1 DEF CredentialsInv, CredsTypeOK, Keyed, Reading
    <3>6. proc[q].pc \in Reading =>
             cache'["explorer"][proc[q].key][proc[q].user]
                = cache["explorer"][proc[q].key][proc[q].user]
      BY <1>6, <2>1, <3>1, <3>4, <3>5
    <3> QED BY <3>1, <3>2, <3>3, <3>6
  <2>3. CASE q = p
    <3>1. credsLock'[proc'[p].user] = p
      <4>1. proc[p].pc # "idle" /\ proc[p].svc = "explorer" => credsLock[proc[p].user] = p
        BY DEF CredentialsInv, FillInv
      <4> QED BY <1>4, <2>3, <4>1
    <3>2. ASSUME proc'[p].pc \in Reading
          PROVE  cache'["explorer"][proc'[p].key][proc'[p].user] <= proc'[p].read
      <4>1. /\ proc[p].pc \in Keyed /\ proc[p].svc = "explorer"
            /\ proc[p].key = proc'[p].key
            /\ \/ proc'[p].read = version["explorer"]
               \/ proc[p].pc \in Reading /\ proc'[p].read = proc[p].read
        BY <1>5, <2>1, <2>3, <3>2 DEF Reading
      <4>2. proc[p].key \in Versions /\ proc[p].pc # "idle"
        BY <2>1, <4>1 DEF CredentialsInv, CredsTypeOK, Keyed
      <4>3. proc[p].user = proc'[p].user
        BY <1>4, <3>2, <4>2 DEF Reading
      <4>4. cache' = cache
        BY <1>6, <3>2 DEF Reading
      <4>5. cache["explorer"][proc[p].key][proc[p].user] <= version["explorer"]
        BY <2>1, <2>3, <4>2, <4>3 DEF CredentialsInv, EntryInv
      <4>6. proc[p].pc \in Reading =>
               cache["explorer"][proc[p].key][proc[p].user] <= proc[p].read
        BY <4>1, <4>2 DEF CredentialsInv, FillInv
      <4> QED BY <4>1, <4>3, <4>4, <4>5, <4>6
    <3> QED BY <2>3, <3>1, <3>2
  <2> QED BY <2>2, <2>3
<1> QED BY <1>10, <1>11, <1>12, <1>13, <1>14 DEF CredentialsInv

\* Everything but a request that stores only takes entries away.
Dropped ==
    \A c \in CachedCreds, v \in Versions, u \in User :
       cache'[c][v][u] = cache[c][v][u] \/ cache'[c][v][u] = NoEntry

LEMMA AdminClearDrops ==
  ASSUME CredentialsInv, NEW c \in CachedCreds, AdminClear(c)
  PROVE  cache' \in Entries /\ Dropped
<1>1. cache \in Entries /\ admin.user \in User
  BY DEF CredentialsInv, CredsTypeOK, VersionInv, Entries, AdminClear
<1>2. CASE cache' = cache
  BY <1>1, <1>2 DEF Dropped
<1>3. CASE cache' # cache
  <2>1. PICK v \in Versions : cache' = WithEntry(cache, c, v, admin.user, NoEntry)
    <3> DEFINE x == IF version[c] = 0 THEN 1 ELSE version[c]
    <3>1. cache' = WithEntry(cache, c, x, admin.user, NoEntry)
      BY <1>3 DEF AdminClear, WithEntry
    <3>2. x \in Versions
      BY TypeFacts
    <3> QED BY <3>1, <3>2
  <2>3. NoEntry \in Versions \cup {NoEntry}
    OBVIOUS
  <2>4. /\ cache' \in Entries /\ cache'[c][v][admin.user] = NoEntry
        /\ \A d \in CachedCreds, w \in Versions, y \in User :
              d # c \/ w # v \/ y # admin.user => cache'[d][w][y] = cache[d][w][y]
    BY <1>1, <2>1, <2>3, CacheUpdate
  <2> QED BY <2>4 DEF Dropped
<1> QED BY <1>2, <1>3

LEMMA ExpireDrops ==
  ASSUME CredentialsInv,
         \E c \in CachedCreds, v \in Versions, u \in User : ExpireEntry(c, v, u)
  PROVE  cache' \in Entries /\ Dropped
<1>1. cache \in Entries
  BY DEF CredentialsInv, CredsTypeOK, Entries
<1>2. PICK c \in CachedCreds, v \in Versions, u \in User : ExpireEntry(c, v, u)
  OBVIOUS
<1>3. cache' = WithEntry(cache, c, v, u, NoEntry) /\ NoEntry \in Versions \cup {NoEntry}
  BY <1>2 DEF ExpireEntry, WithEntry
<1>4. /\ cache' \in Entries /\ cache'[c][v][u] = NoEntry
      /\ \A d \in CachedCreds, w \in Versions, y \in User :
            d # c \/ w # v \/ y # u => cache'[d][w][y] = cache[d][w][y]
  BY <1>1, <1>3, CacheUpdate
<1> QED BY <1>4 DEF Dropped

\* Taking entries away and incrementing versions disturbs no request.
LEMMA DropKeeps ==
  ASSUME CredentialsInv, proc' = proc, credsLock' = credsLock, Dropped,
         \A c \in CachedCreds : version'[c] \in Nat /\ version[c] <= version'[c]
  PROVE  ProcessInv' /\ EntryInv' /\ EntriesPostdateClear' /\ FillInv'
<1>1. /\ \A c \in CachedCreds : version[c] \in Nat
      /\ \A q \in Process : proc[q].key \in Nat /\ proc[q].read \in Nat
      /\ \A c \in CachedCreds, v \in Versions, u \in User : cache[c][v][u] \in Nat
  BY TypeFacts
<1>2. ProcessInv'
  <2> SUFFICES ASSUME NEW q \in Process
               PROVE  /\ proc[q].pc # "idle" => proc[q].user \in User /\ proc[q].svc \in Service
                      /\ proc[q].pc \in {"key", "lookup", "store"} => proc[q].svc \in CachedCreds
                      /\ proc[q].pc \in Keyed /\ proc[q].svc \in CachedCreds
                            => proc[q].key <= version'[proc[q].svc]
                      /\ proc[q].pc \in Reading /\ proc[q].svc \in CachedCreds
                            => /\ proc[q].key <= proc[q].read
                               /\ proc[q].read <= version'[proc[q].svc]
    BY DEF ProcessInv
  <2>1. /\ proc[q].pc # "idle" => proc[q].user \in User /\ proc[q].svc \in Service
        /\ proc[q].pc \in {"key", "lookup", "store"} => proc[q].svc \in CachedCreds
    BY DEF CredentialsInv, ProcessInv
  <2>2. ASSUME proc[q].svc \in CachedCreds
        PROVE  /\ proc[q].pc \in Keyed => proc[q].key <= version'[proc[q].svc]
               /\ proc[q].pc \in Reading => /\ proc[q].key <= proc[q].read
                                            /\ proc[q].read <= version'[proc[q].svc]
    <3>1. /\ proc[q].pc \in Keyed => proc[q].key <= version[proc[q].svc]
          /\ proc[q].pc \in Reading => /\ proc[q].key <= proc[q].read
                                       /\ proc[q].read <= version[proc[q].svc]
      BY <2>2 DEF CredentialsInv, ProcessInv
    <3> QED BY <1>1, <2>2, <3>1
  <2> QED BY <2>1, <2>2
<1>3. EntryInv' /\ EntriesPostdateClear'
  <2> SUFFICES ASSUME NEW c \in CachedCreds, NEW v \in Versions, NEW u \in User
               PROVE  /\ cache'[c][v][u] <= version'[c]
                      /\ cache'[c][v][u] # NoEntry => cache'[c][v][u] >= v
    BY DEF EntryInv, EntriesPostdateClear
  <2>1. /\ cache[c][v][u] <= version[c] /\ cache[c][v][u] \in Nat
        /\ cache[c][v][u] # NoEntry => cache[c][v][u] >= v
        /\ version[c] \in Nat /\ version'[c] \in Nat /\ version[c] <= version'[c]
    BY <1>1 DEF CredentialsInv, EntryInv, EntriesPostdateClear
  <2>2. cache'[c][v][u] = cache[c][v][u] \/ cache'[c][v][u] = 0
    BY DEF Dropped, NoEntry
  <2> QED BY <2>1, <2>2 DEF NoEntry
<1>4. FillInv'
  <2> SUFFICES ASSUME ~LockExpiry, NEW q \in Process,
                      proc[q].pc # "idle", proc[q].svc = "explorer"
               PROVE  /\ credsLock[proc[q].user] = q
                      /\ proc[q].pc \in Reading =>
                           cache'["explorer"][proc[q].key][proc[q].user] <= proc[q].read
    BY DEF FillInv
  <2>1. /\ credsLock[proc[q].user] = q
        /\ proc[q].pc \in Reading =>
             cache["explorer"][proc[q].key][proc[q].user] <= proc[q].read
    BY DEF CredentialsInv, FillInv
  <2>2. proc[q].pc \in Reading =>
           "explorer" \in CachedCreds /\ proc[q].key \in Versions /\ proc[q].user \in User
    BY DEF CredentialsInv, CredsTypeOK, ProcessInv, CachedCreds, Reading, Keyed
  <2>3. proc[q].pc \in Reading =>
           \/ cache'["explorer"][proc[q].key][proc[q].user]
                = cache["explorer"][proc[q].key][proc[q].user]
           \/ cache'["explorer"][proc[q].key][proc[q].user] = 0
    BY <2>2 DEF Dropped, NoEntry
  <2> QED BY <1>1, <2>1, <2>3
<1> QED BY <1>2, <1>3, <1>4

\* Pages of the admin site, and what Redis drops, preserve it too.
LEMMA OtherStepInv ==
  ASSUME CredentialsInv,
         \/ \E page \in Page, u \in User : AdminSave(page, u)
         \/ AdminStep
         \/ \E u \in User : CredsLockExpires(u)
         \/ \E c \in CachedCreds, v \in Versions, u \in User : ExpireEntry(c, v, u)
  PROVE  CredentialsInv'
<1>0. /\ proc \in [Process -> ProcRecord]
      /\ admin \in AdminRecord
      /\ access \in [User -> SUBSET Privilege]
      /\ version \in [CachedCreds -> Versions \cup {0}]
      /\ cache \in [CachedCreds -> [Versions -> [User -> Versions \cup {NoEntry}]]]
      /\ credsLock \in [User -> Process \cup {Absent}]
      /\ changes \in 0 .. MaxAccessChanges /\ MaxAccessChanges \in Nat /\ changes \in Nat
      /\ Versions \subseteq Nat /\ 0 \notin Versions /\ 1 \in Versions
      /\ \A n \in Nat : n >= 1 /\ n <= MaxAccessChanges + 1 => n \in Versions
      /\ \A c \in CachedCreds : version[c] \in Nat
      /\ \A q \in Process : proc[q].key \in Nat /\ proc[q].read \in Nat
      /\ \A c \in CachedCreds, v \in Versions, u \in User : cache[c][v][u] \in Nat
  BY TypeFacts
<1>1. CASE \E page \in Page, u \in User : AdminSave(page, u)
  <2>1. PICK page \in Page, u \in User : AdminSave(page, u)
    BY <1>1
  <2>2. PICK x \in SUBSET Changed(page) :
          admin' = [pc |-> "saved", page |-> page, user |-> u,
                    pending |-> [w \in User |->
                       IF w = u \/ page = "access_type"
                       THEN (access[w] \ Changed(page)) \cup x
                       ELSE access[w]],
                    todo |-> CASE page = "team" -> {}
                               [] page = "user" -> CachedCreds \cap {"explorer"}
                               [] OTHER -> CachedCreds]
    BY <2>1 DEF AdminSave
  <2>3. Changed(page) \subseteq Privilege
    BY DEF Changed, Privilege
  <2>4. admin' \in AdminRecord
    <3>1. [w \in User |-> IF w = u \/ page = "access_type"
                          THEN (access[w] \ Changed(page)) \cup x
                          ELSE access[w]] \in [User -> SUBSET Privilege]
      BY <1>0, <2>3
    <3>2. (CASE page = "team" -> {}
             [] page = "user" -> CachedCreds \cap {"explorer"}
             [] OTHER -> CachedCreds) \subseteq CachedCreds
      OBVIOUS
    <3> QED BY <2>2, <3>1, <3>2 DEF AdminRecord
  <2>5. /\ changes' = changes + 1 /\ changes' \in 0 .. MaxAccessChanges
        /\ UNCHANGED <<access, credsFailures, version, cache, credsLock, role, proc>>
    BY <1>0, <2>1 DEF AdminSave
  <2>6. CredsTypeOK'
    BY <2>4, <2>5 DEF CredentialsInv, CredsTypeOK, AdminRecord
  <2>7. VersionInv'
    <3>1. admin'.pc = "saved" /\ admin'.user = u
      BY <2>2
    <3>2. \A c \in CachedCreds : version[c] \in Nat /\ version[c] <= changes + 1
      BY <1>0 DEF CredentialsInv, VersionInv
    <3>3. changes \in Nat /\ changes' = changes + 1 /\ version' = version
      BY <1>0, <2>5
    <3>4. \A c \in CachedCreds : version'[c] <= changes' /\ version'[c] <= changes' + 1
      BY <3>2, <3>3
    <3>5. changes' >= 1
      BY <3>3
    <3> QED BY <3>1, <3>4, <3>5 DEF VersionInv
  <2>8. ProcessInv' /\ EntryInv' /\ EntriesPostdateClear' /\ FillInv'
    BY <2>5 DEF CredentialsInv, ProcessInv, EntryInv, EntriesPostdateClear, FillInv
  <2> QED BY <2>6, <2>7, <2>8 DEF CredentialsInv
<1>2. CASE \E c \in CachedCreds : AdminClear(c)
  <2>1. PICK c \in CachedCreds : AdminClear(c)
    BY <1>2
  <2>0. /\ MaxAccessChanges \in Nat /\ changes \in Nat /\ changes <= MaxAccessChanges
        /\ version[c] \in Nat
    BY <1>0
  <2>2. /\ admin' \in AdminRecord /\ admin.pc = "saved" /\ c \in admin.todo
        /\ admin'.pc = admin.pc /\ admin'.page = admin.page
        /\ admin'.todo = admin.todo \ {c}
        /\ UNCHANGED <<access, changes, credsFailures, credsLock, role, proc>>
    BY <1>0, <2>1 DEF AdminClear, AdminRecord
  <2>3. /\ changes >= 1 /\ version[c] \in Nat /\ version[c] <= changes + 1
        /\ admin.page = "access_type" => version[c] <= changes
    BY <1>0, <2>2 DEF CredentialsInv, VersionInv
  <2>4. PICK n \in Versions \cup {0} :
          /\ version' = [version EXCEPT ![c] = n]
          /\ version[c] <= n /\ n <= changes + 1
          /\ admin.page = "access_type" => cache' = cache
    <3>1. CASE /\ admin.page = "access_type"
               /\ version' = [version EXCEPT ![c] = IF @ = 0 THEN 0 ELSE @ + 1]
               /\ UNCHANGED cache
      <4>1. (IF version[c] = 0 THEN 0 ELSE version[c] + 1) \in Versions \cup {0}
        <5>1. version[c] + 1 \in Nat /\ version[c] + 1 >= 1 /\ version[c] + 1 <= MaxAccessChanges + 1
          BY <2>0, <2>3, <3>1
        <5>2. version[c] + 1 \in Versions
          BY <1>0, <5>1
        <5> QED BY <5>2
      <4>2. /\ version[c] <= (IF version[c] = 0 THEN 0 ELSE version[c] + 1)
            /\ (IF version[c] = 0 THEN 0 ELSE version[c] + 1) <= changes + 1
        BY <2>0, <2>3, <3>1
      <4> QED BY <3>1, <4>1, <4>2
    <3>2. CASE /\ admin.page # "access_type"
               /\ version' = [version EXCEPT ![c] = IF version[c] = 0 THEN 1 ELSE version[c]]
      <4>1. (IF version[c] = 0 THEN 1 ELSE version[c]) \in Versions \cup {0}
        BY <1>0
      <4>2. /\ version[c] <= (IF version[c] = 0 THEN 1 ELSE version[c])
            /\ (IF version[c] = 0 THEN 1 ELSE version[c]) <= changes + 1
        BY <2>0, <2>3
      <4> QED BY <3>2, <4>1, <4>2
    <3> QED BY <2>1, <3>1, <3>2 DEF AdminClear
  <2>5. /\ version' \in [CachedCreds -> Versions \cup {0}]
        /\ \A d \in CachedCreds : version'[d] \in Nat /\ version[d] <= version'[d]
        /\ \A d \in CachedCreds \ {c} : version'[d] = version[d]
        /\ version'[c] = n
    <3>1. /\ version' \in [CachedCreds -> Versions \cup {0}]
          /\ \A d \in CachedCreds \ {c} : version'[d] = version[d]
          /\ version'[c] = n
      BY <1>0, <2>4
    <3>2. \A d \in CachedCreds : version'[d] \in Nat
      <4>1. \A m \in Versions \cup {0} : m \in Nat
        BY <1>0
      <4> QED BY <3>1, <4>1
    <3>3. \A d \in CachedCreds : version[d] \in Nat /\ version[d] <= version[d]
      BY <1>0
    <3> QED BY <2>4, <3>1, <3>2, <3>3
  <2>6. cache' \in Entries /\ Dropped
    BY <2>1, AdminClearDrops
  <2>7. CredsTypeOK'
    BY <2>2, <2>5, <2>6 DEF CredentialsInv, CredsTypeOK, AdminRecord, Entries
  <2>8. VersionInv'
    <3>1. admin.user \in User /\ admin'.user = admin.user
      BY <1>0, <2>1, <2>2 DEF AdminClear, AdminRecord, CredentialsInv, VersionInv
    <3>2. version'[c] <= changes + 1
      BY <2>4, <2>5
    <3>3. \A d \in CachedCreds \ {c} :
             /\ version'[d] <= changes + 1
             /\ admin.page = "access_type" /\ d \in admin.todo => version'[d] <= changes
      BY <2>2, <2>5 DEF CredentialsInv, VersionInv
    <3> QED BY <2>2, <2>3, <3>1, <3>2, <3>3 DEF VersionInv
  <2>9. ProcessInv' /\ EntryInv' /\ EntriesPostdateClear' /\ FillInv'
    BY <2>2, <2>5, <2>6, DropKeeps
  <2> QED BY <2>7, <2>8, <2>9 DEF CredentialsInv
<1>3. CASE AdminEnd
  <2>1. /\ access' \in [User -> SUBSET Privilege]
        /\ UNCHANGED <<changes, credsFailures, version, cache, credsLock, role, proc>>
    BY <1>0, <1>3 DEF AdminEnd, AdminRecord
  <2>2. /\ admin' \in AdminRecord /\ admin'.pc = "idle"
    BY <1>0, <1>3, <2>1 DEF AdminEnd, AdminRecord
  <2>3. CredsTypeOK'
    BY <2>1, <2>2 DEF CredentialsInv, CredsTypeOK, AdminRecord
  <2>4. VersionInv'
    BY <2>1, <2>2 DEF CredentialsInv, VersionInv
  <2>5. ProcessInv' /\ EntryInv' /\ EntriesPostdateClear' /\ FillInv'
    BY <2>1 DEF CredentialsInv, ProcessInv, EntryInv, EntriesPostdateClear, FillInv
  <2> QED BY <2>3, <2>4, <2>5 DEF CredentialsInv
<1>4. CASE \E u \in User : CredsLockExpires(u)
  <2>1. /\ credsLock' \in [User -> Process \cup {Absent}] /\ LockExpiry
        /\ UNCHANGED <<access, admin, changes, credsFailures, version, cache, role, proc>>
    BY <1>0, <1>4 DEF CredsLockExpires
  <2>2. CredsTypeOK'
    BY <2>1 DEF CredentialsInv, CredsTypeOK
  <2> QED BY <2>1, <2>2 DEF CredentialsInv, VersionInv, ProcessInv, EntryInv,
                            EntriesPostdateClear, FillInv
<1>5. CASE \E c \in CachedCreds, v \in Versions, u \in User : ExpireEntry(c, v, u)
  <2>1. /\ cache' \in Entries /\ Dropped
        /\ UNCHANGED <<access, admin, changes, credsFailures, version, credsLock, role, proc>>
    BY <1>5, ExpireDrops DEF ExpireEntry
  <2>2. CredsTypeOK'
    BY <2>1 DEF CredentialsInv, CredsTypeOK, Entries
  <2>3. VersionInv'
    BY <2>1 DEF CredentialsInv, VersionInv
  <2>4. \A d \in CachedCreds : version'[d] \in Nat /\ version[d] <= version'[d]
    BY <1>0, <2>1
  <2>5. ProcessInv' /\ EntryInv' /\ EntriesPostdateClear' /\ FillInv'
    BY <2>1, <2>4, DropKeeps
  <2> QED BY <2>2, <2>3, <2>5 DEF CredentialsInv
<1> QED BY <1>1, <1>2, <1>3, <1>4, <1>5 DEF AdminStep

\* The strengthening is an invariant.
THEOREM CredentialsInvariance == CredsSafetySpec => []CredentialsInv
<1>1. CredentialsInv /\ [CredsNext]_credsVars => CredentialsInv'
  <2> SUFFICES ASSUME CredentialsInv, [CredsNext]_credsVars PROVE CredentialsInv'
    OBVIOUS
  <2>1. CASE UNCHANGED credsVars
    BY <2>1 DEF credsVars, CredentialsInv, CredsTypeOK, VersionInv, ProcessInv, EntryInv,
                EntriesPostdateClear, FillInv
  <2>2. CASE \E p \in Process : RequestStep(p)
    BY <2>2, RequestStepInv
  <2>3. CASE CredsNext /\ ~\E p \in Process : RequestStep(p)
    BY <2>3, OtherStepInv DEF CredsNext, RequestStep
  <2> QED BY <2>1, <2>2, <2>3
<1> QED BY <1>1, InitInv, PTL DEF CredsSafetySpec

\* Invalidating is final: whatever a request finds under a version of the cache
\* had its tables read after that version was set.
THEOREM EntriesAreFresh == CredsSafetySpec => []EntriesPostdateClear
<1>1. CredentialsInv => EntriesPostdateClear
  BY DEF CredentialsInv
<1> QED BY <1>1, CredentialsInvariance, PTL

\* The admin pages, the cache, the locks, the roles and the requests stay in
\* their types, and a key that is looked up always holds a version that is set.
THEOREM CredentialsTypeCorrect == CredsSafetySpec => []CredsTypeOK
<1>1. CredentialsInv => CredsTypeOK
  BY DEF CredentialsInv
<1> QED BY <1>1, CredentialsInvariance, PTL

\* If no request takes longer than the lock lasts, credentials of Data Explorer
\* are never replaced by ones whose tables were read before.
THEOREM ExplorerNeverGoesBack ==
  ASSUME ~LockExpiry PROVE CredsSafetySpec => NewerEntriesStay
<1>1. ASSUME CredentialsInv, [CredsNext]_credsVars, "explorer" \in CachedCreds,
             NEW v \in Versions, NEW u \in User, cache'["explorer"][v][u] # NoEntry
      PROVE  cache'["explorer"][v][u] >= cache["explorer"][v][u]
  <2>1. /\ cache \in [CachedCreds -> [Versions -> [User -> Versions \cup {NoEntry}]]]
        /\ cache["explorer"][v][u] \in Nat
    BY <1>1, DbCredentialsAssumption DEF CredentialsInv, CredsTypeOK, Versions, NoEntry
  <2>2. CASE cache'["explorer"][v][u] = cache["explorer"][v][u]
    BY <2>1, <2>2
  <2>3. CASE cache'["explorer"][v][u] # cache["explorer"][v][u]
    <3>1. PICK p \in Process : RequestStep(p)
      <4>1. cache' # cache /\ ~Dropped
        BY <1>1, <2>3 DEF Dropped
      <4>2. ~\E c \in CachedCreds : AdminClear(c)
        BY <1>1, <4>1, AdminClearDrops
      <4>3. ~\E c \in CachedCreds, w \in Versions, x \in User : ExpireEntry(c, w, x)
        BY <1>1, <4>1, ExpireDrops
      <4> QED BY <1>1, <4>1, <4>2, <4>3
              DEF CredsNext, AdminStep, AdminSave, AdminEnd, CredsLockExpires, RequestStep, credsVars
    <3>2. /\ proc[p].pc = "store"
          /\ proc[p].svc \in CachedCreds /\ proc[p].key \in Versions /\ proc[p].user \in User
          /\ cache'[proc[p].svc][proc[p].key][proc[p].user] = proc[p].read
          /\ \A d \in CachedCreds, w \in Versions, y \in User :
                d # proc[p].svc \/ w # proc[p].key \/ y # proc[p].user
                   => cache'[d][w][y] = cache[d][w][y]
      BY <1>1, <2>3, <3>1, RequestCache
    <3>3. /\ proc[p].svc = "explorer" /\ proc[p].key = v /\ proc[p].user = u
          /\ cache'["explorer"][v][u] = proc[p].read
      BY <1>1, <2>3, <3>2
    <3>4. cache["explorer"][v][u] <= proc[p].read
      BY <1>1, <3>2, <3>3 DEF CredentialsInv, FillInv, Reading
    <3> QED BY <3>3, <3>4
  <2> QED BY <2>2, <2>3
<1>2. CredentialsInv /\ [CredsNext]_credsVars =>
        [ "explorer" \in CachedCreds =>
           \A v \in Versions, u \in User :
              cache'["explorer"][v][u] # NoEntry =>
                 cache'["explorer"][v][u] >= cache["explorer"][v][u] ]_credsVars
  BY <1>1
<1> QED BY <1>2, CredentialsInvariance, PTL DEF CredsSafetySpec, NewerEntriesStay

\* Whoever invalidates the cached credentials of a user is rid of what was read
\* before (get_user_cached_credentials_key), for any number of users, requests
\* and versions.
THEOREM CacheIsSafe == CredsSafetySpec => []CacheSafety
  BY CredentialsTypeCorrect, EntriesAreFresh, PTL DEF CacheSafety
=============================================================================

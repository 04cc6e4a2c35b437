---------------------------- MODULE PermissionSync ----------------------------
(***************************************************************************)
(* Who may use one master dataset, as the forms of the admin site change   *)
(* it: the form of the dataset and the form of a user, each one            *)
(* transaction; the event log that tells what they did; and the data       *)
(* sources of the users in QuickSight, brought up to date by Celery tasks  *)
(* that the forms queue and by the one of every night.                     *)
(***************************************************************************)
EXTENDS Naturals

CONSTANTS
    Member,      \* users of the workspace, all of them authors in QuickSight
    AdminForm,        \* requests of the admin site, and the task that each one queues
    Nightly,     \* the sync of all users of the beat schedule
    NoOne,
    MaxForms,    \* bound on the forms that are sent
    MaxSyncs,    \* bound on the runs of the sync of all users
    SyncTrouble  \* bound on the failing calls, timeouts and expiring locks of the syncs

ASSUME PermissionAssumption ==
    /\ Nightly \notin AdminForm /\ NoOne \notin AdminForm \cup {Nightly} \cup Member
    /\ MaxForms \in Nat /\ MaxSyncs \in Nat /\ SyncTrouble \in Nat

VARIABLES
    accessType,     \* user_access_type of the dataset: open to all, or to some
    permittedUsers,  \* rows of DataSetUserPermission
    domainUsers,     \* users whose email address is at one of its authorized_email_domains
    isPublished,     \* the dataset is published and not deleted
    log,        \* events about each user: what the latest committed one says, and
                \* the order of the forms whose later ones are not committed
    form,       \* the transactions of the admin site
    sourceSync,       \* the Celery tasks
    source,     \* the users who have a data source in QuickSight
    userLock,   \* Redis lock "sync-quicksight-permissions-..." of each user
    missed,     \* users whose permission a form wanted to delete when it was gone
    logExcused,    \* users whose data source nobody is bound to correct before the night
    forms, syncs, trouble

rowVars == <<accessType, permittedUsers, domainUsers, isPublished>>
permVars == <<rowVars, log, form, sourceSync, source, userLock, missed, logExcused, forms,
              syncs, trouble>>
adminFormVars == <<rowVars, log, form, missed, forms>>
quickVars == <<sourceSync, source, userLock, syncs, trouble>>

Task == AdminForm \cup {Nightly}

NoForm == [pc |-> "idle", item |-> TRUE, was |-> "some", access |-> "some", domain |-> {},
           shown |-> TRUE, seen |-> {}, wanted |-> {}, grants |-> {}, revokes |-> {}]
NoTask == [pc |-> "none", users |-> {}, todo |-> {}, user |-> NoOne, reads |-> FALSE]
Queued(users) == [pc |-> "queued", users |-> users, todo |-> users, user |-> NoOne, reads |-> FALSE]

PermInit ==
    /\ accessType = "some" /\ permittedUsers = {} /\ domainUsers = {} /\ isPublished = TRUE
    /\ log = [u \in Member |-> [granted |-> FALSE, order |-> {}]]
    /\ form = [f \in AdminForm |-> NoForm]
    /\ sourceSync = [t \in Task |-> NoTask]
    /\ source = {}
    /\ userLock = [u \in Member |-> NoOne]
    /\ missed = {} /\ logExcused = {}
    /\ forms = 0 /\ syncs = 0 /\ trouble = 0

\* source_tables_for_user, for users who are no superusers: a permission
\* counts only while the dataset is open to some.
HasAccess(u) ==
    /\ isPublished
    /\ accessType = "all" \/ u \in permittedUsers \/ u \in domainUsers

ChangedUsers(f) == form[f].grants \cup form[f].revokes

(***************************************************************************)
(* The forms.  The task of the form that used a slot before has ended.     *)
(***************************************************************************)
BeginForm(f) ==
    /\ form[f].pc = "idle" /\ sourceSync[f].pc = "none"
    /\ forms < MaxForms
    /\ forms' = forms + 1
    /\ UNCHANGED <<rowVars, log, missed, logExcused, quickVars>>

\* BaseDatasetAdmin.save_model, up to super().save_model: the users who are
\* permitted are read before the row is locked.
BeginDataset(f) ==
    /\ BeginForm(f)
    /\ \E wanted, domain \in SUBSET Member, type \in {"all", "some"}, shown \in BOOLEAN :
          form' = [form EXCEPT ![f] =
             [pc |-> "save", item |-> TRUE, was |-> accessType, access |-> type,
              domain |-> domain, shown |-> shown,
              seen |-> permittedUsers, wanted |-> wanted, grants |-> {}, revokes |-> {}]]

\* AppUserAdmin.save_model, for this dataset: it writes no row of the dataset.
BeginUser(f) ==
    /\ BeginForm(f)
    /\ \E u \in Member : \E wanted \in SUBSET {u} :
          form' = [form EXCEPT ![f] =
             [pc |-> "edit", item |-> FALSE, was |-> "some", access |-> "some",
              domain |-> {}, shown |-> TRUE,
              seen |-> permittedUsers \cap {u}, wanted |-> wanted, grants |-> {}, revokes |-> {}]]

\* The UPDATE of the dataset locks its row until the transaction ends.
SaveDataset(f) ==
    /\ form[f].pc = "save"
    /\ \A g \in AdminForm : form[g].item => form[g].pc \in {"idle", "save"}
    /\ form' = [form EXCEPT ![f].pc = "edit"]
    /\ UNCHANGED <<rowVars, log, missed, forms, logExcused, quickVars>>

\* An uncommitted INSERT or DELETE of the same permission makes others wait.
RowIsFree(f, u) == \A g \in AdminForm \ {f} : u \notin ChangedUsers(g)

\* Forms with an event about the user that is later than the committed ones; the
\* order has <<f, g>> when that of f is not later than that of g.
Pending(u) == {f \in AdminForm : <<f, f>> \in log[u].order}

\* log_permission_change, in the transaction of the form.
Event(f, u) ==
    log' = [log EXCEPT ![u] =
              [granted |-> log[u].granted,
               order |-> log[u].order \cup {<<g, f>> : g \in Pending(u) \cup {f}}]]

Edit(f, u) ==
    /\ form[f].pc = "edit"
    /\ u \notin ChangedUsers(f)
    /\ UNCHANGED <<rowVars, forms, logExcused, quickVars>>

\* DataSetUserPermission.objects.create, and the event.
Grant(f, u) ==
    /\ Edit(f, u)
    /\ u \in form[f].wanted \ form[f].seen
    /\ RowIsFree(f, u)
    /\ u \notin permittedUsers
    /\ form' = [form EXCEPT ![f].grants = @ \cup {u}]
    /\ Event(f, u)
    /\ UNCHANGED missed

\* filter(...).delete(), which may delete nothing, and the event.
Revoke(f, u) ==
    /\ Edit(f, u)
    /\ u \in form[f].seen \ form[f].wanted
    /\ u \in permittedUsers => RowIsFree(f, u)
    /\ form' = [form EXCEPT ![f].revokes = @ \cup {u}]
    /\ Event(f, u)
    /\ missed' = IF u \in permittedUsers THEN missed ELSE missed \cup {u}

\* The events of the form become part of the log: what came before them is history.
Logged(f) ==
    [u \in Member |->
       IF f \notin Pending(u) THEN log[u]
       ELSE [granted |-> u \in form[f].grants,
             order |-> {p \in log[u].order : p[1] # f /\ <<f, p[1]>> \in log[u].order}]]

Unlogged(f) ==
    [u \in Member |-> [granted |-> log[u].granted,
                       order |-> {p \in log[u].order : p[1] # f /\ p[2] # f}]]

\* The INSERT finds a row (unique_together), or the request fails.
Abort(f) ==
    /\ form[f].pc \in {"save", "edit", "commit"}
    /\ form' = [form EXCEPT ![f] = NoForm]
    /\ log' = Unlogged(f)
    /\ UNCHANGED <<rowVars, missed, forms, logExcused, quickVars>>

\* Mutant: only users who gain access.
SyncOfGranted(f) ==
    IF ChangedUsers(f) # {} THEN form[f].grants
    ELSE IF form[f].access # form[f].was THEN Member ELSE {}

\* Whose data sources the form has synced.  The form of the dataset looks at
\* the type of access only if it changed no users, and never at the email
\* domains or at what is published.
SyncOf(f) ==
    IF ChangedUsers(f) # {} THEN ChangedUsers(f)
    ELSE IF form[f].access # form[f].was THEN Member ELSE {}

\* sync_quicksight_permissions.delay, inside the transaction.
QueueSync(f) ==
    /\ form[f].pc = "edit"
    /\ ChangedUsers(f) = (form[f].wanted \ form[f].seen) \cup (form[f].seen \ form[f].wanted)
    /\ form' = [form EXCEPT ![f].pc = "commit"]
    /\ sourceSync' = IF SyncOf(f) = {} THEN sourceSync
               ELSE [sourceSync EXCEPT ![f] = Queued(SyncOf(f))]
    /\ UNCHANGED <<rowVars, log, missed, forms, logExcused, source,
                   userLock, syncs, trouble>>

\* Users whom the task of the form has already looked up.
ReadBefore(f) ==
    {u \in sourceSync[f].users : u \notin sourceSync[f].todo /\ ~ (sourceSync[f].user = u /\ sourceSync[f].pc = "locked")}

\* What a form may leave to the night, by the code: users whom its task read
\* before the commit; everybody, when it changed users and the type of access
\* in one form, or wrote a type back that had changed since it was loaded; and
\* those for whom it changed the email domains or published, for which it
\* queues no task.
LeftToNight(f) ==
    (ReadBefore(f) \cap ChangedUsers(f))
    \cup (IF accessType' = accessType THEN {}
          ELSE IF ChangedUsers(f) # {} \/ form[f].access = form[f].was THEN Member
          ELSE ReadBefore(f))
    \cup {u \in Member : isPublished' # isPublished \/ ~(u \in domainUsers' <=> u \in domainUsers)}

\* The whole row of the dataset is saved; its email domains and published as
\* the form shows them.
CommitForm(f) ==
    /\ form[f].pc = "commit"
    /\ accessType' = IF form[f].item THEN form[f].access ELSE accessType
    /\ domainUsers' = IF form[f].item THEN form[f].domain ELSE domainUsers
    /\ isPublished' = IF form[f].item THEN form[f].shown ELSE isPublished
    /\ permittedUsers' = (permittedUsers \cup form[f].grants) \ form[f].revokes
    /\ log' = Logged(f)
    /\ logExcused' = logExcused \cup LeftToNight(f)
    /\ form' = [form EXCEPT ![f] = NoForm]
    /\ UNCHANGED <<missed, forms, quickVars>>

(***************************************************************************)
(* sync_quicksight_permissions: the users one after the other, each under  *)
(* a lock of its own.                                                      *)
(***************************************************************************)
StartNightly ==
    /\ sourceSync[Nightly].pc = "none"
    /\ syncs < MaxSyncs
    /\ syncs' = syncs + 1
    /\ sourceSync' = [sourceSync EXCEPT ![Nightly] = Queued(Member)]
    /\ UNCHANGED <<source, userLock, trouble, logExcused, adminFormVars>>

\* The task goes on: it still has these users to sync, and one at hand.
SyncGoes(t, pc, todo, user, reads) ==
    sourceSync' = [sourceSync EXCEPT ![t] =
                     [pc |-> pc, users |-> sourceSync[t].users, todo |-> todo,
                      user |-> user, reads |-> reads]]

SyncWaits(t, pc, todo, user) == SyncGoes(t, pc, todo, user, FALSE)

LockUser(t, u) ==
    /\ sourceSync[t].pc = "queued"
    /\ u \in sourceSync[t].todo
    /\ userLock[u] = NoOne
    /\ userLock' = [userLock EXCEPT ![u] = t]
    /\ SyncWaits(t, "locked", sourceSync[t].todo \ {u}, u)
    /\ UNCHANGED <<source, syncs, trouble, logExcused, adminFormVars>>

\* LockError after sixty seconds: the user is skipped.
LockTimesOut(t, u) ==
    /\ sourceSync[t].pc = "queued"
    /\ u \in sourceSync[t].todo /\ userLock[u] # NoOne
    /\ trouble < SyncTrouble
    /\ trouble' = trouble + 1
    /\ SyncWaits(t, "queued", sourceSync[t].todo \ {u}, NoOne)
    /\ logExcused' = logExcused \cup {u}
    /\ UNCHANGED <<source, userLock, syncs, adminFormVars>>

\* source_tables_for_user.
ReadUserTables(t) ==
    /\ sourceSync[t].pc = "locked"
    /\ SyncGoes(t, "write", sourceSync[t].todo, sourceSync[t].user, HasAccess(sourceSync[t].user))
    /\ logExcused' = logExcused \ {sourceSync[t].user}
    /\ UNCHANGED <<source, userLock, syncs, trouble, adminFormVars>>

Unlocked(t) ==
    [u \in Member |-> IF userLock[u] = t THEN NoOne ELSE userLock[u]]

\* create_update_delete_quicksight_user_data_sources, with new credentials.
\* If the lock expired, another task may have written since this one read.
WriteSources(t) ==
    LET u == sourceSync[t].user IN
    /\ sourceSync[t].pc = "write"
    /\ source' = IF sourceSync[t].reads THEN source \cup {u} ELSE source \ {u}
    /\ logExcused' = IF userLock[u] = t THEN logExcused ELSE logExcused \cup {u}
    /\ userLock' = Unlocked(t)
    /\ SyncWaits(t, "queued", sourceSync[t].todo, NoOne)
    /\ UNCHANGED <<syncs, trouble, adminFormVars>>

\* A ClientError at one user ends the task for the users after, too.
SourceSyncFails(t) ==
    /\ sourceSync[t].pc \in {"queued", "locked", "write"}
    /\ trouble < SyncTrouble
    /\ trouble' = trouble + 1
    /\ logExcused' = logExcused \cup sourceSync[t].todo \cup ({sourceSync[t].user} \cap Member)
    /\ userLock' = Unlocked(t)
    /\ SyncWaits(t, "queued", {}, NoOne)
    /\ UNCHANGED <<source, syncs, adminFormVars>>

\* The task of a form leaves its slot after the form has ended.
EndSync(t) ==
    /\ sourceSync[t].pc = "queued" /\ sourceSync[t].todo = {}
    /\ t \in AdminForm => form[t].pc = "idle"
    /\ sourceSync' = [sourceSync EXCEPT ![t] = NoTask]
    /\ UNCHANGED <<source, userLock, syncs, trouble, logExcused, adminFormVars>>

\* After 360 seconds.
UserLockExpires(u) ==
    /\ userLock[u] # NoOne
    /\ trouble < SyncTrouble
    /\ trouble' = trouble + 1
    /\ userLock' = [userLock EXCEPT ![u] = NoOne]
    /\ UNCHANGED <<sourceSync, source, syncs, logExcused, adminFormVars>>

(***************************************************************************)
AdminFormStep(f) ==
    \/ BeginDataset(f) \/ BeginUser(f) \/ SaveDataset(f) \/ QueueSync(f) \/ CommitForm(f)
    \/ Abort(f)
    \/ \E u \in Member : Grant(f, u) \/ Revoke(f, u)

SourceSyncStep(t) ==
    \/ ReadUserTables(t) \/ WriteSources(t) \/ SourceSyncFails(t) \/ EndSync(t)
    \/ \E u \in Member : LockUser(t, u) \/ LockTimesOut(t, u)

PermNext ==
    \/ \E f \in AdminForm : AdminFormStep(f)
    \/ \E t \in Task : SourceSyncStep(t)
    \/ StartNightly
    \/ \E u \in Member : UserLockExpires(u)

PermSpec == PermInit /\ [][PermNext]_permVars

(***************************************************************************)
(* Properties.                                                             *)
(***************************************************************************)
FormRow == [pc : {"idle", "save", "edit", "commit"}, item : BOOLEAN, was : {"all", "some"},
            access : {"all", "some"}, domain : SUBSET Member, shown : BOOLEAN, seen : SUBSET Member, wanted : SUBSET Member,
            grants : SUBSET Member, revokes : SUBSET Member]
TaskRow == [pc : {"none", "queued", "locked", "write"}, users : SUBSET Member, todo : SUBSET Member,
            user : Member \cup {NoOne}, reads : BOOLEAN]
PermTypeOK ==
    /\ accessType \in {"all", "some"} /\ permittedUsers \subseteq Member
    /\ domainUsers \subseteq Member /\ isPublished \in BOOLEAN
    /\ log \in [Member -> [granted : BOOLEAN, order : SUBSET (AdminForm \X AdminForm)]]
    /\ form \in [AdminForm -> FormRow]
    /\ sourceSync \in [Task -> TaskRow]
    /\ source \subseteq Member
    /\ userLock \in [Member -> Task \cup {NoOne}]
    /\ \A f \in AdminForm : form[f].grants \cap permittedUsers = {}
    /\ \A f, g \in AdminForm : f # g => form[f].grants \cap form[g].grants = {}
    /\ missed \subseteq Member /\ logExcused \subseteq Member
    /\ forms \in 0 .. MaxForms /\ syncs \in 0 .. MaxSyncs /\ trouble \in 0 .. SyncTrouble

\* The latest event of the log about a user says whether the user is permitted,
\* however forms of the dataset and of the user interleave, unless a form
\* deleted a permission that another one had deleted already: its event may
\* come after that of a third one, which granted it again.
LogExplainsPermissions ==
    \A u \in Member \ missed : (log[u].granted <=> u \in permittedUsers)

InHand(u) ==
    \E t \in Task : u \in sourceSync[t].todo \cup {sourceSync[t].user}

\* Data sources of QuickSight follow the permissions and the type of access:
\* when no task has a user still to sync and nothing is left to the night, the
\* user has a data source if and only if the user may use the dataset.  It does
\* not hold of a change of the email domains, of published or of deleted: that
\* one is left to the night for all it concerns (LeftToNight).
SourcesFollow ==
    \A u \in Member \ logExcused : InHand(u) \/ (u \in source <=> HasAccess(u))

(***************************************************************************)
(* The strengthening.  While no deletion missed its row, one form at a     *)
(* time changes a user, and only its event waits to be committed.  A form  *)
(* that is about to commit has queued the task of its users, and a user    *)
(* whom no task will read, or give up, is right: at the task that holds    *)
(* the lock, or in QuickSight.                                             *)
(***************************************************************************)
PermTypes ==
    /\ accessType \in {"all", "some"} /\ permittedUsers \subseteq Member
    /\ domainUsers \subseteq Member /\ isPublished \in BOOLEAN
    /\ log \in [Member -> [granted : BOOLEAN, order : SUBSET (AdminForm \X AdminForm)]]
    /\ form \in [AdminForm -> FormRow]
    /\ sourceSync \in [Task -> TaskRow]
    /\ source \subseteq Member
    /\ userLock \in [Member -> Task \cup {NoOne}]
    /\ missed \subseteq Member /\ logExcused \subseteq Member
    /\ forms \in 0 .. MaxForms /\ syncs \in 0 .. MaxSyncs /\ trouble \in 0 .. SyncTrouble

FormsAre ==
    \A f \in AdminForm :
       /\ form[f].pc \notin {"edit", "commit"} => ChangedUsers(f) = {}
       /\ form[f].grants \cap form[f].revokes = {} /\ form[f].grants \cap permittedUsers = {}
       /\ ~form[f].item => form[f].access = form[f].was
       /\ \A g \in AdminForm : f # g => form[f].grants \cap form[g].grants = {}
EventsAre ==
    \A u \in Member \ missed :
       /\ (log[u].granted <=> u \in permittedUsers)
       /\ \A f \in AdminForm : f \in Pending(u) <=> u \in ChangedUsers(f)
       /\ \A f, g \in AdminForm : u \in ChangedUsers(f) /\ u \in ChangedUsers(g) => f = g
TasksAre ==
    /\ \A t \in Task :
         /\ sourceSync[t].pc = "none" => sourceSync[t].users = {} /\ sourceSync[t].todo = {}
         /\ sourceSync[t].pc \in {"none", "queued"} <=> sourceSync[t].user = NoOne
         /\ \A u \in Member : userLock[u] = t => sourceSync[t].user = u
    /\ \A f \in AdminForm :
         /\ form[f].pc \in {"save", "edit"} => sourceSync[f].pc = "none"
         /\ form[f].pc = "commit" => sourceSync[f].users = SyncOf(f)
WillRead(t, u) ==
    u \in sourceSync[t].todo \/ (sourceSync[t].user = u /\ sourceSync[t].pc = "locked")
\* Some task reads the user later, or gives the user up as it writes without the lock.
Settling(u) ==
    \E t \in Task : WillRead(t, u) \/ (sourceSync[t].user = u /\ userLock[u] # t)
SourcesAre ==
    \A u \in Member \ logExcused :
       \/ Settling(u)
       \/ \E t \in Task : sourceSync[t].user = u /\ sourceSync[t].reads = HasAccess(u)
       \/ ~InHand(u) /\ (u \in source <=> HasAccess(u))
PermInv == PermTypes /\ FormsAre /\ EventsAre /\ TasksAre /\ SourcesAre

\* Permissions are told alike by the row, the event log and QuickSight, once the tasks
\* that bring them together are done (BaseDatasetAdmin.save_model,
\* sync_quicksight_permissions).
PermissionSafety ==
  /\ PermTypeOK
  /\ LogExplainsPermissions
  /\ SourcesFollow
=============================================================================

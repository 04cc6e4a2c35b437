------------------------------- MODULE SsoUsers -------------------------------
(***************************************************************************)
(* The accounts of Data Workspace and how they follow SSO: an account is   *)
(* made or updated by every page of its person (backends.py) and by the    *)
(* synchronisation with the activity stream, both through                  *)
(* create_user_from_sso; the IAM role of its tools is made by a task of    *)
(* its own; administrators make accounts and give the permission.          *)
(*                                                                         *)
(* A user object is the row as it was read, written back as a whole; its   *)
(* profile is read at its first use and written back with each save.       *)
(***************************************************************************)
EXTENDS Naturals, Sequences, FiniteSets

CONSTANTS Person,
          EmailsOf,    \* person -> the addresses SSO may give them, in order
          WebWorker, SyncTask, \* who runs create_user_from_sso
          MaxAccounts, \* bound on the accounts
          MaxPageViews, MaxSsoSyncs, MaxMails, \* bounds on what happens
          SsoFailures  \* bound on the failures of AWS and of activity stream

Account == 1..MaxAccounts
Caller == WebWorker \cup SyncTask
NoRole == "no role"
NoTools == "no tools"
Unread == "unread"        \* a profile that was not read yet
UnusedId == "unknown"     \* the random sso_id of an account nobody has used yet
FirstEmails(p, n) == {EmailsOf[p][i] : i \in 1..n}
Addresses(p) == FirstEmails(p, Len(EmailsOf[p]))
EveryEmail == UNION {Addresses(p) : p \in Person}

ASSUME EmailsAssumption ==
  /\ \A p \in Person : Len(EmailsOf[p]) \in Nat \ {0}
  /\ \A p, q \in Person : p # q => Addresses(p) \cap Addresses(q) = {}
ASSUME SsoAssumption ==
  /\ MaxAccounts \in Nat
  /\ WebWorker \cap SyncTask = {}
  /\ \A c, d \in SyncTask : c = d     \* activity_stream_sync_last_published_lock
  /\ {NoTools, NoRole, UnusedId, Unread} \cap Person = {} /\ {NoRole, Unread} \cap EveryEmail = {}

VARIABLES
  primary,   \* SSO: person -> the number of the address they use now
  outrun,    \* persons whose address changed while their old one was in use
  account,   \* account -> [email, sso, role], the rows of User and Profile, once made
  accounts,  \* accounts made so far
  tooled,    \* account -> sso_id it had when given start_all_applications
  call,      \* caller -> its call of create_user_from_sso
  stream,    \* activity stream: what SSO published, in order
  lastPublished, \* activity_stream_sync_last_published
  ssoSync,   \* the task that synchronises: how far it is
  roleTasks, \* create_tools_access_iam_role_task in the queue
  roleTask,  \* the one that runs: the user object it read
  policy,    \* IAM: address -> sso_id its role is for
  ssoBudget

ssoVars == <<primary, outrun, account, accounts, tooled, call, stream, lastPublished, ssoSync,
             roleTasks, roleTask, policy, ssoBudget>>
\* What create_user_from_sso leaves alone.
outside == <<primary, outrun, stream, lastPublished, roleTask, policy, tooled>>

NotCalled == [at |-> "idle"]
NoRoleTask == [at |-> "idle"]
NewAccount(email) == [email |-> email, sso |-> UnusedId, role |-> NoRole]
SsoInit ==
  /\ primary = [p \in Person |-> 1] /\ outrun = {} /\ accounts = 0
  /\ account = [a \in Account |-> NewAccount("none")] /\ tooled = [a \in Account |-> NoTools]
  /\ call = [c \in Caller |-> NotCalled] /\ stream = <<>> /\ lastPublished = 0
  /\ ssoSync = 0 /\ roleTasks = {} /\ roleTask = NoRoleTask
  /\ policy = [e \in EveryEmail |-> NoRole]
  /\ ssoBudget = [views |-> MaxPageViews, syncs |-> MaxSsoSyncs, mails |-> MaxMails,
                  failures |-> SsoFailures]

ProfileOf(p, n) == [person |-> p, email |-> EmailsOf[p][n], emails |-> FirstEmails(p, n)]
Profile(p) == ProfileOf(p, primary[p])
Spend(what) == /\ ssoBudget[what] > 0
               /\ ssoBudget' = [ssoBudget EXCEPT ![what] = @ - 1]
BySso(p) == {a \in 1..accounts : account[a].sso = p}
ByEmail(emails) == {a \in 1..accounts : account[a].email \in emails}

(***************************************************************************)
(* Saving a user object: the row as it was read, then the profile as it    *)
(* was read.  Names are unique, and so are sso_ids: the one save or the    *)
(* other fails with IntegrityError.                                        *)
(***************************************************************************)
EmailTaken(a, email) == \E b \in 1..accounts \ {a} : account[b].email = email
SsoTaken(a, sso) == sso # UnusedId /\ BySso(sso) \ {a} # {}
SavedUser(a, email, sso, arn) ==
  IF EmailTaken(a, email) THEN account
  ELSE IF SsoTaken(a, sso)
  THEN [account EXCEPT ![a] = [email |-> email, sso |-> account[a].sso, role |-> account[a].role]]
  ELSE [account EXCEPT ![a] = [email |-> email, sso |-> sso, role |-> arn]]

(***************************************************************************)
(* The surroundings.                                                       *)
(***************************************************************************)
\* SSO publishes a user, and does so again when they get another address.
Publish(p, n) == stream' = Append(stream, ProfileOf(p, n))
FirstPublish(p) ==
  /\ Spend("mails") /\ Publish(p, primary[p])
  /\ UNCHANGED <<primary, outrun, account, accounts, tooled, call, lastPublished, ssoSync,
                 roleTasks, roleTask, policy>>
InUse(p) == \/ \E c \in {d \in Caller : call[d].at # "idle"} : call[c].who.person = p
            \/ \E i \in 1..Len(stream) : stream[i].person = p
ChangeEmail(p) ==
  /\ Spend("mails") /\ primary[p] < Len(EmailsOf[p])
  /\ primary' = [primary EXCEPT ![p] = @ + 1] /\ Publish(p, primary[p] + 1)
  /\ outrun' = IF InUse(p) THEN outrun \cup {p} ELSE outrun
  /\ UNCHANGED <<account, accounts, tooled, call, lastPublished, ssoSync, roleTasks,
                 roleTask, policy>>
\* AppUserCreationForm: an account for somebody who has none.
CreateUser(p) ==
  /\ ByEmail(Profile(p).emails) = {} /\ BySso(p) = {} /\ accounts < MaxAccounts
  /\ accounts' = accounts + 1
  /\ account' = [account EXCEPT ![accounts + 1] = NewAccount(Profile(p).email)]
  /\ UNCHANGED <<primary, outrun, tooled, call, stream, lastPublished, ssoSync, roleTasks, roleTask,
                 policy, ssoBudget>>
\* AppUserAdmin.save_model gives the permission.
GiveTools(a) ==
  /\ tooled[a] = NoTools /\ tooled' = [tooled EXCEPT ![a] = account[a].sso]
  /\ roleTasks' = IF account[a].role = NoRole THEN roleTasks \cup {a} ELSE roleTasks
  /\ UNCHANGED <<primary, outrun, account, accounts, call, stream, lastPublished, ssoSync, roleTask,
                 policy, ssoBudget>>

(***************************************************************************)
(* create_user_from_sso.                                                   *)
(***************************************************************************)
GoOn(c, next) == call' = [call EXCEPT ![c] = next]
Returns(c) == /\ GoOn(c, NotCalled)
              /\ ssoSync' = IF c \in SyncTask THEN ssoSync + 1 ELSE ssoSync
\* An exception that the synchronisation does not catch ends its task.
Raises(c) == /\ GoOn(c, NotCalled)
             /\ ssoSync' = IF c \in SyncTask THEN 0 ELSE ssoSync
NoCallOf(c) == call[c].at = "idle"
CallAt(c, step) == call[c].at = step
\* The proxy's headers: the profile of the person, as the proxy has it.
ViewPage(c, p) ==
  /\ NoCallOf(c) /\ c \in WebWorker /\ Spend("views")
  /\ GoOn(c, [at |-> "look", who |-> Profile(p)])
  /\ UNCHANGED <<outside, account, accounts, roleTasks, ssoSync>>
ObjectOf(c, a, next, sso, role) == [at |-> next, who |-> call[c].who, row |-> a,
                                    email |-> account[a].email, sso |-> sso, role |-> role]
\* The permission is looked up, and the profile is read for it.
CheckedTools(c, a) ==
  IF tooled[a] # NoTools
  THEN /\ GoOn(c, ObjectOf(c, a, "update", account[a].sso, account[a].role))
       /\ roleTasks' = IF account[a].role = NoRole THEN roleTasks \cup {a} ELSE roleTasks
  ELSE GoOn(c, ObjectOf(c, a, "update", Unread, Unread)) /\ UNCHANGED roleTasks
LookUp(c) ==
  /\ CallAt(c, "look")
  /\ \/ /\ BySso(call[c].who.person) = {}
        /\ GoOn(c, [at |-> "create", who |-> call[c].who]) /\ UNCHANGED roleTasks
     \/ \E a \in BySso(call[c].who.person) :
          IF c \in SyncTask THEN CheckedTools(c, a)
          ELSE GoOn(c, ObjectOf(c, a, "update", Unread, Unread)) /\ UNCHANGED roleTasks
  /\ UNCHANGED <<outside, account, accounts, ssoSync, ssoBudget>>
Matches(c) == ByEmail({call[c].who.email} \cup call[c].who.emails)
\* get_or_create, and the first save, which reads the profile.
GetOrCreate(c) ==
  /\ CallAt(c, "create")
  /\ \/ /\ Matches(c) = {} /\ accounts < MaxAccounts /\ accounts' = accounts + 1
        /\ account' = [account EXCEPT ![accounts + 1] = NewAccount(call[c].who.email)]
        /\ GoOn(c, [at |-> "claim", who |-> call[c].who, row |-> accounts + 1,
                    email |-> call[c].who.email, sso |-> UnusedId, role |-> NoRole])
        /\ UNCHANGED ssoSync
     \/ /\ \E a \in Matches(c) :
             /\ Matches(c) = {a}
             /\ GoOn(c, ObjectOf(c, a, "claim", account[a].sso, account[a].role))
        /\ UNCHANGED <<account, accounts, ssoSync>>
     \/ /\ Cardinality(Matches(c)) > 1     \* MultipleObjectsReturned
        /\ Raises(c) /\ UNCHANGED <<account, accounts>>
  /\ UNCHANGED <<outside, roleTasks, ssoBudget>>
\* The second save: user.profile.sso_id = sso_id, or the account of the request
\* that was faster.
RowIsTaken(u) == EmailTaken(u.row, u.email) \/ SsoTaken(u.row, u.who.person)
Claim(c) ==
  /\ CallAt(c, "claim") /\ LET u == call[c] IN account' = SavedUser(u.row, u.email, u.who.person, u.role)
  /\ IF ~RowIsTaken(call[c])
     THEN /\ GoOn(c, [at |-> "update", who |-> call[c].who, row |-> call[c].row,
                      email |-> call[c].email, sso |-> call[c].who.person, role |-> call[c].role])
          /\ roleTasks' = IF tooled[call[c].row] # NoTools /\ call[c].role = NoRole
                          THEN roleTasks \cup {call[c].row} ELSE roleTasks
          /\ UNCHANGED ssoSync
     ELSE IF BySso(call[c].who.person) = {} THEN Raises(c) /\ UNCHANGED roleTasks
     ELSE /\ \E a \in BySso(call[c].who.person) : CheckedTools(c, a)
          /\ UNCHANGED ssoSync
  /\ UNCHANGED <<outside, accounts, ssoBudget>>
\* The details that changed are saved, with the profile as it was read.
Update(c) ==
  /\ CallAt(c, "update")
  /\ LET u == call[c]
         now == account[u.row]
     IN account' = IF u.email = u.who.email THEN account
                   ELSE IF u.sso = Unread THEN SavedUser(u.row, u.who.email, now.sso, now.role)
                   ELSE SavedUser(u.row, u.who.email, u.sso, u.role)
  /\ Returns(c) /\ UNCHANGED <<outside, accounts, roleTasks, ssoBudget>>

(***************************************************************************)
(* The synchronisation with the activity stream, one at a time.            *)
(***************************************************************************)
\* The activities from ten seconds before the last one, each in turn; ssoSync is
\* the number of the next one, 0 when no task runs.
SyncStarts(c) ==
  /\ ssoSync = 0 /\ NoCallOf(c) /\ c \in SyncTask /\ Spend("syncs")
  /\ ssoSync' = IF lastPublished = 0 THEN 1 ELSE lastPublished
  /\ UNCHANGED <<primary, outrun, account, accounts, tooled, call, stream, lastPublished, roleTasks,
                 roleTask, policy>>
SyncRecord(c) ==
  /\ ssoSync \in 1..Len(stream) /\ NoCallOf(c) /\ c \in SyncTask
  /\ GoOn(c, [at |-> "look", who |-> stream[ssoSync]])
  /\ UNCHANGED <<outside, account, accounts, roleTasks, ssoSync, ssoBudget>>
\* Mutant: the marker moves with each batch that was asked for.
SyncEndsEarly(c) ==
  /\ ssoSync > 0 /\ NoCallOf(c) /\ c \in SyncTask
  /\ lastPublished' = Len(stream) /\ ssoSync' = 0
  /\ UNCHANGED <<primary, outrun, account, accounts, tooled, call, stream, roleTasks, roleTask, policy,
                 ssoBudget>>
SyncEnds(c) ==
  /\ ssoSync > Len(stream) /\ NoCallOf(c) /\ c \in SyncTask
  /\ lastPublished' = ssoSync - 1 /\ ssoSync' = 0
  /\ UNCHANGED <<primary, outrun, account, accounts, tooled, call, stream, roleTasks, roleTask, policy,
                 ssoBudget>>
\* The activity stream answers with an error, or the task dies.
SyncDies(c) ==
  /\ ssoSync > 0 /\ c \in SyncTask /\ Spend("failures")
  /\ GoOn(c, NotCalled) /\ ssoSync' = 0
  /\ UNCHANGED <<outside, account, accounts, roleTasks>>

(***************************************************************************)
(* create_tools_access_iam_role_task, one at a time.                       *)
(***************************************************************************)
RoleTaskStarts(a) ==
  /\ roleTask = NoRoleTask /\ a \in roleTasks /\ roleTasks' = roleTasks \ {a}
  /\ roleTask' = IF account[a].role # NoRole THEN NoRoleTask
                 ELSE [at |-> "aws", row |-> a, email |-> account[a].email, sso |-> account[a].sso]
  /\ UNCHANGED <<primary, outrun, account, accounts, tooled, call, stream, lastPublished, ssoSync,
                 policy, ssoBudget>>
PutRole ==
  /\ roleTask.at = "aws" /\ policy' = [policy EXCEPT ![roleTask.email] = roleTask.sso]
  /\ roleTask' = [at |-> "save", row |-> roleTask.row, email |-> roleTask.email,
                  sso |-> roleTask.sso]
  /\ UNCHANGED <<primary, outrun, account, accounts, tooled, call, stream, lastPublished, ssoSync,
                 roleTasks, ssoBudget>>
\* The user is saved as it was read before the calls of AWS.
SaveRole ==
  /\ roleTask.at = "save" /\ roleTask' = NoRoleTask
  /\ account' = SavedUser(roleTask.row, roleTask.email, roleTask.sso, roleTask.email)
  /\ UNCHANGED <<primary, outrun, accounts, tooled, call, stream, lastPublished, ssoSync, roleTasks,
                 policy, ssoBudget>>
RoleTaskDies ==
  /\ roleTask.at # "idle" /\ Spend("failures") /\ roleTask' = NoRoleTask
  /\ UNCHANGED <<primary, outrun, account, accounts, tooled, call, stream, lastPublished, ssoSync,
                 roleTasks, policy>>

CallStep(c) ==
  \/ \E p \in Person : ViewPage(c, p)
  \/ LookUp(c) \/ GetOrCreate(c) \/ Claim(c) \/ Update(c)
  \/ SyncStarts(c) \/ SyncRecord(c) \/ SyncEnds(c) \/ SyncDies(c)
SsoNext ==
  \/ \E c \in Caller : CallStep(c)
  \/ \E p \in Person : FirstPublish(p) \/ ChangeEmail(p) \/ CreateUser(p)
  \/ \E a \in 1..accounts : GiveTools(a) \/ RoleTaskStarts(a)
  \/ PutRole \/ SaveRole \/ RoleTaskDies
SsoSpec == SsoInit /\ [][SsoNext]_ssoVars

(***************************************************************************)
(* Properties.                                                             *)
(***************************************************************************)

(* Types; two accounts never have the same name or the same person.        *)
SsoTypeOK ==
  /\ accounts \in 0..MaxAccounts
  /\ \A a, b \in 1..accounts : a # b => /\ account[a].email # account[b].email
                                        /\ account[a].sso # account[b].sso \/ account[a].sso = UnusedId

(* However many pages a person opens at once while the synchronisation and *)
(* the administrators are at work, all find the one account, which may have *)
(* an earlier address of theirs: no person has two, unless the address      *)
(* changed under a request or a record that had the old one.               *)
OneAccountEach ==
  \A p \in Person \ outrun : Cardinality(ByEmail(Addresses(p)) \cup BySso(p)) <= 1

(* Once a synchronisation has ended, every user it was told of has an      *)
(* account.                                                                *)
PublishedUsersHaveAccounts ==
  \A i \in 1..lastPublished : ByEmail(Addresses(stream[i].person)) # {}

(* The role an account names has its policy, and the policy is for the     *)
(* files of the person: but of an account whose person had not signed in   *)
(* when the permission was given, which has an sso_id of its own till      *)
(* then, and of one who may have two accounts, as above.                   *)
RolesHavePolicies ==
  \A a \in 1..accounts : account[a].role # NoRole =>
    policy[account[a].role] \in IF tooled[a] \in {UnusedId} \cup outrun THEN Person \cup {UnusedId}
                               ELSE {tooled[a]}

(***************************************************************************)
(* Why they hold.  An account is of one person for ever: the one of whose  *)
(* addresses it has one that SSO has used.  What a call or a role task has *)
(* read is of the person it is for.  Policies of a person were made for an *)
(* account that had the permission, hence not before it had it.            *)
(***************************************************************************)
Used(p) == FirstEmails(p, primary[p])
AccountsOf(p) == {a \in 1..accounts : account[a].email \in Used(p)}
KnownProfile(who) ==
  /\ who.person \in Person /\ who.email \in Used(who.person)
  /\ who.emails \subseteq Used(who.person)
  /\ who.person \notin outrun => who.emails = Used(who.person)
\* A role that an account of the person may name.
RoleIs(a, p, role) == role = NoRole \/ (role \in Used(p) /\ policy[role] # NoRole /\ tooled[a] # NoTools)

ProfileRow == [person : Person, email : EveryEmail, emails : SUBSET EveryEmail]
SsoTypes ==
  /\ accounts \in 0..MaxAccounts /\ outrun \subseteq Person
  /\ DOMAIN account = Account /\ tooled \in [Account -> Person \cup {UnusedId, NoTools}]
  /\ DOMAIN call = Caller /\ policy \in [EveryEmail -> Person \cup {UnusedId, NoRole}]
  /\ primary \in [Person -> Nat] /\ \A p \in Person : primary[p] \in 1..Len(EmailsOf[p])
  /\ stream \in Seq(ProfileRow) /\ \A i \in 1..Len(stream) : KnownProfile(stream[i])
  /\ lastPublished \in 0..Len(stream) /\ ssoSync \in 0..(Len(stream) + 1)
AccountHolds(a) ==
  \E p \in Person :
    /\ account[a].email \in Used(p) /\ account[a].sso \in {p, UnusedId}
    /\ tooled[a] \in {p, UnusedId, NoTools} /\ (tooled[a] = p => account[a].sso = p)
    /\ RoleIs(a, p, account[a].role)
AccountsHold ==
  /\ \A a \in 1..accounts : AccountHolds(a)
  /\ \A a, b \in 1..accounts : a # b => /\ account[a].email # account[b].email
                                        /\ account[a].sso # account[b].sso \/ account[a].sso = UnusedId
  /\ \A p \in Person \ outrun : \A a, b \in AccountsOf(p) : a = b
  /\ \A a \in Account : a > accounts => tooled[a] = NoTools
CallHolds(c) ==
  call[c].at # "idle" =>
    /\ call[c].at \in {"look", "create", "claim", "update"} /\ KnownProfile(call[c].who)
    /\ c \in SyncTask => ssoSync \in 1..Len(stream) /\ call[c].who = stream[ssoSync]
    /\ call[c].at \in {"claim", "update"} =>
         /\ call[c].row \in AccountsOf(call[c].who.person) /\ call[c].email \in Used(call[c].who.person)
         /\ call[c].sso \in {call[c].who.person, IF call[c].at = "claim" THEN UnusedId ELSE Unread}
         /\ call[c].sso # Unread => RoleIs(call[c].row, call[c].who.person, call[c].role)
CallsHold == \A c \in Caller : CallHolds(c)
RoleTaskHolds ==
  roleTask.at # "idle" =>
    /\ roleTask.at \in {"aws", "save"} /\ tooled[roleTask.row] # NoTools
    /\ roleTask.at = "save" => policy[roleTask.email] # NoRole
    /\ \E p \in Person :
         /\ roleTask.row \in AccountsOf(p) /\ roleTask.email \in Used(p)
         /\ roleTask.sso \in {p, UnusedId} /\ (tooled[roleTask.row] = p => roleTask.sso = p)
PoliciesHold ==
  \A p \in Person : \A e \in Addresses(p) : policy[e] # NoRole =>
    /\ \E a \in AccountsOf(p) : tooled[a] # NoTools
    /\ p \notin outrun => \A a \in AccountsOf(p) : tooled[a] = p => policy[e] = p
RolesHold ==
  /\ \A a \in roleTasks : a \in 1..accounts /\ tooled[a] # NoTools
  /\ RoleTaskHolds /\ PoliciesHold
ToldHaveAccounts ==
  \A i \in 1..Len(stream) : i <= lastPublished \/ i < ssoSync => AccountsOf(stream[i].person) # {}
AccountInv == SsoTypes /\ AccountsHold /\ CallsHold /\ RolesHold /\ ToldHaveAccounts

\* Accounts follow SSO: one for each person, one for everybody the activity stream told
\* of, and a role of AWS with the policy of its person (create_user_from_sso,
\* create_tools_access_iam_role).
AccountSafety ==
  /\ SsoTypeOK
  /\ OneAccountEach
  /\ PublishedUsersHaveAccounts
  /\ RolesHavePolicies
===============================================================================

----------------------------- MODULE Notifications -----------------------------
(***************************************************************************)
(* Emails about changes of datasets (datasets/utils.py): the rows of       *)
(* dataflow.metadata that two Celery tasks write every five minutes, the   *)
(* changelog made of them, the task that makes notifications and sends     *)
(* them, and the subscriptions of users (datasets/subscriptions).  No task *)
(* holds a lock: when one takes longer than five minutes, the next starts. *)
(***************************************************************************)
EXTENDS Naturals, Sequences

CONSTANTS Subject,     \* source tables, custom queries and reference datasets
          Subscriber, NotifyTask, MetadataTask,
          MaxVersions,      \* bound on the versions of a subject
          MaxSubscribing,   \* bound on the changes of subscriptions
          MaxNotifyRuns,    \* bound on the runs of each task
          MailFailures      \* bound on the failures of GOV.UK Notify and of tasks

VARIABLES
  tableVersion,   \* subject -> [structure, data, date], as it is in the database
  metadata,  \* subject -> its rows of dataflow.metadata
  wants,     \* <<subscriber, subject>> -> [kind, since]
  notified,  \* Notification: the changes, <<subject, number of the row>>
  told,      \* UserNotification: <<change, subscriber>> -> email_id set or not
  mails,     \* what GOV.UK Notify sent: <<change, subscriber>> -> how often
  writer,    \* metadata task -> what it has read
  sender,    \* notification task -> its transaction
  cut,       \* mails sent by transactions that were never committed
  notifyBudget

notifyVars == <<tableVersion, metadata, wants, notified, told, mails, writer, sender, cut,
                notifyBudget>>
subjects == <<tableVersion, metadata, writer>>

IdleRun == [at |-> "idle"]
NotifyInit ==
  /\ tableVersion = [o \in Subject |-> [structure |-> 1, data |-> 1, date |-> 1]]
  /\ metadata = [o \in Subject |-> <<>>]
  /\ wants = [p \in Subscriber \X Subject |-> [kind |-> "none", since |-> 0]]
  /\ notified = {} /\ told = <<>> /\ mails = <<>> /\ cut = 0
  /\ writer = [w \in MetadataTask |-> IdleRun] /\ sender = [w \in NotifyTask |-> IdleRun]
  /\ notifyBudget = [subscribing |-> MaxSubscribing, failures |-> MailFailures,
                     runs |-> [w \in NotifyTask \cup MetadataTask |-> MaxNotifyRuns]]
Use(what) == /\ notifyBudget[what] > 0
             /\ notifyBudget' = [notifyBudget EXCEPT ![what] = @ - 1]
Runs(w) == /\ notifyBudget.runs[w] > 0
           /\ notifyBudget' = [notifyBudget EXCEPT !.runs[w] = @ - 1]

(***************************************************************************)
(* The changelog of a subject: its first row, and each that differs from   *)
(* the one before.                                                         *)
(***************************************************************************)
Columns(o, i) == metadata[o][i].structure
Hash(o, i) == metadata[o][i].data
SchemaChange(c) == c[2] = 1 \/ Columns(c[1], c[2]) # Columns(c[1], c[2] - 1)
DataChange(c) == c[2] = 1 \/ Hash(c[1], c[2]) # Hash(c[1], c[2] - 1)
Changelog(o) == {c \in {o} \X (1..Len(metadata[o])) : SchemaChange(c) \/ DataChange(c)}
Newest(o) == {c \in Changelog(o) : \A d \in Changelog(o) : d[2] <= c[2]}

(***************************************************************************)
(* The subjects change, and the metadata tasks note it.                    *)
(***************************************************************************)
ChangeSubject(o, columnsToo) ==
  /\ tableVersion[o].date < MaxVersions
  /\ tableVersion' = [tableVersion EXCEPT ![o] =
       [structure |-> IF columnsToo THEN @.date + 1 ELSE @.structure,
        data |-> @.date + 1, date |-> @.date + 1]]
  /\ UNCHANGED <<metadata, wants, notified, told, mails, writer, sender, cut, notifyBudget>>
\* The date of the last update is compared with that of the last row.
LastDate(o) == IF metadata[o] = <<>> THEN 0 ELSE metadata[o][Len(metadata[o])].date
ReadDate(w, o) ==
  /\ writer[w] = IdleRun /\ Runs(w)
  /\ tableVersion[o].date # LastDate(o)
  /\ writer' = [writer EXCEPT ![w] = [at |-> "insert", of |-> o, date |-> tableVersion[o].date]]
  /\ UNCHANGED <<tableVersion, metadata, wants, notified, told, mails, sender, cut>>
\* The columns and the hash are those of a later moment.
InsertRow(w) ==
  /\ writer[w].at = "insert" /\ writer' = [writer EXCEPT ![w] = IdleRun]
  /\ LET o == writer[w].of
     IN metadata' = [metadata EXCEPT ![o] =
                       Append(@, [tableVersion[o] EXCEPT !.date = writer[w].date])]
  /\ UNCHANGED <<tableVersion, wants, notified, told, mails, sender, cut, notifyBudget>>

(***************************************************************************)
(* Subscriptions.                                                          *)
(***************************************************************************)
Subscribe(s, o, kind) ==
  /\ wants[<<s, o>>].kind # kind /\ Use("subscribing")
  /\ wants' = [wants EXCEPT ![<<s, o>>] = [kind |-> kind, since |-> Len(metadata[o])]]
  /\ UNCHANGED <<subjects, notified, told, mails, sender, cut>>
Unsubscribe(s, o) ==
  /\ wants[<<s, o>>].kind # "none" /\ Use("subscribing")
  /\ wants' = [wants EXCEPT ![<<s, o>>].kind = "none"]
  /\ UNCHANGED <<subjects, notified, told, mails, sender, cut>>
Wanted(s, c) == \/ SchemaChange(c) /\ wants[<<s, c[1]>>].kind \in {"columns", "all"}
                \/ ~SchemaChange(c) /\ wants[<<s, c[1]>>].kind = "all"

(***************************************************************************)
(* create_notifications, in one transaction: subject after subject.        *)
(***************************************************************************)
Phase(w, step) == sender[w].at = step
StartCreating(w) ==
  /\ sender[w] = IdleRun /\ Runs(w)
  /\ sender' = [sender EXCEPT ![w] = [at |-> "create", left |-> Subject, made |-> {}, told |-> {}]]
  /\ UNCHANGED <<subjects, wants, notified, told, mails, cut>>
\* changelog_id is unique: whoever creates the same one waits for the first.
InsertedBy(v) == IF Phase(v, "create") THEN sender[v].made ELSE {}
CreateFor(w, o) ==
  /\ Phase(w, "create") /\ o \in sender[w].left
  /\ \A v \in NotifyTask \ {w} : Newest(o) \cap InsertedBy(v) = {}
  /\ LET new == Newest(o) \ (notified \cup sender[w].made)
     IN sender' = [sender EXCEPT ![w] =
          [at |-> "create", left |-> @.left \ {o}, made |-> @.made \cup new,
           told |-> @.told \cup {p \in new \X Subscriber : Wanted(p[2], p[1])}]]
  /\ UNCHANGED <<subjects, wants, notified, told, mails, cut, notifyBudget>>
CommitCreated(w) ==
  /\ Phase(w, "create") /\ sender[w].left = {}
  /\ notified' = notified \cup sender[w].made
  /\ told' = [p \in sender[w].told \cup DOMAIN told |->
                IF p \in sender[w].told THEN "unsent" ELSE told[p]]
  /\ sender' = [sender EXCEPT ![w] = [at |-> "list"]]
  /\ UNCHANGED <<subjects, wants, mails, cut, notifyBudget>>

(***************************************************************************)
(* send_notifications: one transaction for each user notification.         *)
(***************************************************************************)
ListUnsent(w) ==
  /\ Phase(w, "list")
  /\ sender' = [sender EXCEPT ![w] =
                  [at |-> "send", left |-> {p \in DOMAIN told : told[p] = "unsent"}]]
  /\ UNCHANGED <<subjects, wants, notified, told, mails, cut, notifyBudget>>
\* Mutant: the row is read without FOR UPDATE.
ReadWithoutLock(p) == TRUE
FreeToLock(p) == \A v \in NotifyTask : Phase(v, "locked") => sender[v].note # p
LockNote(w, p) ==
  /\ Phase(w, "send") /\ p \in sender[w].left /\ FreeToLock(p)
  /\ sender' = [sender EXCEPT ![w] =
       IF told[p] = "sent" THEN [at |-> "send", left |-> @.left \ {p}]
       ELSE [at |-> "locked", left |-> @.left \ {p}, note |-> p, mailed |-> FALSE]]
  /\ UNCHANGED <<subjects, wants, notified, told, mails, cut, notifyBudget>>
Count(f, p) == IF p \in DOMAIN f THEN f[p] ELSE 0
SendMail(w) ==
  /\ Phase(w, "locked") /\ ~sender[w].mailed
  /\ mails' = [p \in {sender[w].note} \cup DOMAIN mails |->
                 Count(mails, p) + (IF p = sender[w].note THEN 1 ELSE 0)]
  /\ sender' = [sender EXCEPT ![w].mailed = TRUE]
  /\ UNCHANGED <<subjects, wants, notified, told, cut, notifyBudget>>
\* GOV.UK Notify answers without an id: the next user notification's turn.
MailRefused(w) ==
  /\ Phase(w, "locked") /\ ~sender[w].mailed /\ Use("failures")
  /\ sender' = [sender EXCEPT ![w] = [at |-> "send", left |-> @.left]]
  /\ UNCHANGED <<subjects, wants, notified, told, mails, cut>>
CommitSent(w) ==
  /\ Phase(w, "locked") /\ sender[w].mailed
  /\ told' = [told EXCEPT ![sender[w].note] = "sent"]
  /\ sender' = [sender EXCEPT ![w] = [at |-> "send", left |-> @.left]]
  /\ UNCHANGED <<subjects, wants, notified, mails, cut, notifyBudget>>
EndOfRun(w) ==
  /\ Phase(w, "send") /\ sender[w].left = {} /\ sender' = [sender EXCEPT ![w] = IdleRun]
  /\ UNCHANGED <<subjects, wants, notified, told, mails, cut, notifyBudget>>
\* An error of GOV.UK Notify that is no answer, a change that is not in the
\* changelog any more, or the end of the process: all that is not committed is lost.
SenderDies(w) ==
  /\ sender[w] # IdleRun /\ Use("failures") /\ sender' = [sender EXCEPT ![w] = IdleRun]
  /\ cut' = IF Phase(w, "locked") /\ sender[w].mailed THEN cut + 1 ELSE cut
  /\ UNCHANGED <<subjects, wants, notified, told, mails>>

SenderStep(w) ==
  \/ StartCreating(w) \/ CommitCreated(w) \/ ListUnsent(w)
  \/ \E o \in Subject : CreateFor(w, o)
  \/ \E p \in DOMAIN told : LockNote(w, p)
  \/ SendMail(w) \/ MailRefused(w) \/ CommitSent(w) \/ EndOfRun(w) \/ SenderDies(w)
NotifyNext ==
  \/ \E o \in Subject, both \in BOOLEAN : ChangeSubject(o, both)
  \/ \E w \in MetadataTask : InsertRow(w) \/ \E o \in Subject : ReadDate(w, o)
  \/ \E s \in Subscriber, o \in Subject :
       Unsubscribe(s, o) \/ \E kind \in {"columns", "all"} : Subscribe(s, o, kind)
  \/ \E w \in NotifyTask : SenderStep(w)
NotifySpec == NotifyInit /\ [][NotifyNext]_notifyVars

(***************************************************************************)
(* Properties.                                                             *)
(***************************************************************************)

(* Types; no change is inserted as a notification by two transactions, and *)
(* every user notification is of a notification.                           *)
NotifyTypeOK ==
  /\ \A p \in DOMAIN told : p[1] \in notified /\ told[p] \in {"unsent", "sent"}
  /\ \A v, w \in NotifyTask : v # w => InsertedBy(v) \cap InsertedBy(w) = {}
  /\ \A v \in NotifyTask : InsertedBy(v) \cap notified = {}

(* Tasks that overlap send nobody the same email twice; only a task that   *)
(* dies between the sending and the commit has it sent again.              *)
EachMailOnce == \A p \in DOMAIN mails : mails[p] <= 1 + cut

(* A change that has a notification was told to all who had subscribed     *)
(* before it: a task that dies halfway, or two at a time, lose nobody.     *)
Steady(s, c) == wants[<<s, c[1]>>].since < c[2] /\ Wanted(s, c)
SubscribersAreTold ==
  \A c \in notified, s \in Subscriber : Steady(s, c) => <<c, s>> \in DOMAIN told

(***************************************************************************)
(* Why they hold: what each transaction has made or locked so far.         *)
(***************************************************************************)
Change == Subject \X Nat
Note == Change \X Subscriber
Version == [structure : Nat, data : Nat, date : Nat]
SenderRun == {IdleRun, [at |-> "list"]}
  \cup [at : {"create"}, left : SUBSET Subject, made : SUBSET Change, told : SUBSET Note]
  \cup [at : {"send"}, left : SUBSET Note]
  \cup [at : {"locked"}, left : SUBSET Note, note : Note, mailed : BOOLEAN]
NotifyTypes ==
  /\ tableVersion \in [Subject -> Version] /\ metadata \in [Subject -> Seq(Version)]
  /\ wants \in [Subscriber \X Subject -> [kind : {"none", "columns", "all"}, since : Nat]]
  /\ notified \in SUBSET Change
  /\ DOMAIN told \subseteq Note /\ told \in [DOMAIN told -> {"unsent", "sent"}]
  /\ DOMAIN mails \subseteq Note /\ mails \in [DOMAIN mails -> Nat]
  /\ writer \in [MetadataTask -> {IdleRun} \cup [at : {"insert"}, of : Subject, date : Nat]]
  /\ sender \in [NotifyTask -> SenderRun] /\ cut \in Nat

\* What is noted stays noted: a notification is of a row of the metadata.
Noted(c) == c[2] \in 1..Len(metadata[c[1]])
NotifyCreating ==
  /\ \A c \in notified : Noted(c)
  /\ \A v \in NotifyTask : \A c \in InsertedBy(v) : Noted(c)
  /\ \A v \in NotifyTask : Phase(v, "create") =>
       /\ \A p \in sender[v].told : p[1] \in sender[v].made
       /\ \A c \in sender[v].made, s \in Subscriber : Steady(s, c) => <<c, s>> \in sender[v].told
\* A row that is locked is not sent yet, and has one transaction.
NotifyLocks ==
  \A v \in NotifyTask : Phase(v, "locked") =>
    /\ sender[v].note \in DOMAIN told /\ told[sender[v].note] = "unsent"
    /\ \A w \in NotifyTask : Phase(w, "locked") /\ sender[w].note = sender[v].note => w = v
Mailed(p) == \/ p \in DOMAIN told /\ told[p] = "sent"
             \/ \E v \in NotifyTask : Phase(v, "locked") /\ sender[v].note = p /\ sender[v].mailed
MailsCounted == \A p \in DOMAIN mails : mails[p] <= cut + (IF Mailed(p) THEN 1 ELSE 0)
NotifyInv == /\ NotifyTypes
             /\ NotifyTypeOK
             /\ SubscribersAreTold
             /\ NotifyCreating
             /\ NotifyLocks
             /\ MailsCounted

\* Every subscriber is told of a change, and nobody twice, whatever tasks overlap, fail
\* or die (send_notification_emails).
NotifySafety ==
  /\ NotifyTypeOK
  /\ EachMailOnce
  /\ SubscribersAreTold
===============================================================================

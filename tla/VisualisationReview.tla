-------------------------- MODULE VisualisationReview --------------------------
(***************************************************************************)
(* The pages on which the developers of a visualisation review and publish *)
(* it (apps/applications/views.py): approvals, the catalogue item and the  *)
(* two publish buttons.  Every request loads rows first and writes later,  *)
(* the catalogue item as a whole, so that two requests of the same moment  *)
(* work on what the other is about to change.  Every query is a step: at   *)
(* READ COMMITTED what one has read may be withdrawn before the next.      *)
(***************************************************************************)
EXTENDS Naturals, Sequences, FiniteSets

CONSTANTS Developer,
          VisRequest,      \* requests that are served at a time
          MaxVisRequests   \* bound on the requests of a behaviour

ASSUME ReviewAssumption == IsFiniteSet(VisRequest) /\ MaxVisRequests \in Nat

VARIABLES
  approvals,   \* rows of VisualisationApproval, in order of creation
  reviewItem,        \* row of VisualisationCatalogueItem
  visible,     \* ApplicationTemplate.visible
  entries,     \* LogEntry rows, newest last
  serving,     \* request -> what it has loaded
  asked,       \* requests so far
  stood,       \* history: request -> what stood at a moment while it was served
  raced,     \* history: requests beside which another has changed a row
  overwritten       \* history: a form loaded before it overwrote the last publication

reviewVars == <<approvals, reviewItem, visible, entries, serving, asked, stood, raced,
                overwritten>>

NoRequest == [kind |-> "none"]
ReviewInit ==
  /\ approvals = <<>> /\ visible = FALSE
  /\ reviewItem = [published |-> FALSE, complete |-> TRUE, open |-> FALSE]
  /\ entries = <<>>
  /\ serving = [r \in VisRequest |-> NoRequest] /\ asked = 0
  /\ stood = [r \in VisRequest |-> {}] /\ raced = {} /\ overwritten = FALSE

FinishRequest(r) == serving' = [serving EXCEPT ![r] = NoRequest]
Log(entry) == entries' = Append(entries, entry)
Respond(r) == /\ FinishRequest(r)
              /\ UNCHANGED <<approvals, reviewItem, visible, entries, asked, overwritten>>
LoadPage(r, loaded) ==
  /\ serving[r] = NoRequest /\ asked < MaxVisRequests /\ asked' = asked + 1
  /\ serving' = [serving EXCEPT ![r] = loaded]
  /\ UNCHANGED <<approvals, reviewItem, visible, entries, overwritten>>
Serving(r, kind) == serving[r].kind = kind

(***************************************************************************)
(* Approvals: the developer's own approved row is looked up, and the form  *)
(* saves a new row or takes that one back.  VisualisationApproval.save     *)
(* refuses to save an approved row as it is.                               *)
(***************************************************************************)
MyApproval(d) ==
  LET mine == {i \in 1..Len(approvals) : approvals[i] = [by |-> d, approved |-> TRUE]}
  IN IF mine = {} THEN 0 ELSE CHOOSE i \in mine : \A j \in mine : i <= j
LoadApproval(r, d, approve) ==
  LoadPage(r, [kind |-> "approval", by |-> d, approve |-> approve, mine |-> MyApproval(d)])
\* The form wants the box ticked for a new approval.
MayApprove(q) == q.approve \/ q.mine > 0
SaveApproval(r) ==
  LET q == serving[r] IN
  /\ Serving(r, "approval") /\ FinishRequest(r)
  /\ approvals' = IF ~MayApprove(q) THEN approvals
                  ELSE IF q.mine = 0
                  THEN Append(approvals, [by |-> q.by, approved |-> TRUE])
                  ELSE IF q.approve THEN approvals
                  ELSE [approvals EXCEPT ![q.mine].approved = FALSE]
  /\ UNCHANGED <<reviewItem, visible, entries, asked, overwritten>>

Approvals == {i \in 1..Len(approvals) : approvals[i].approved}
IsApproved == Cardinality(Approvals) >= 2

(***************************************************************************)
(* The publish page.  The item is loaded at the start of the request and   *)
(* saved as a whole; in the transaction the template of the item is read,  *)
(* then its approvals are counted, and the item or the template saved.     *)
(***************************************************************************)
LoadPublish(r, what, publish) ==
  LoadPage(r, [kind |-> "publish", what |-> what, publish |-> publish, item |-> reviewItem,
               at |-> IF what = "catalogue" THEN "template" ELSE "count",
               visible |-> FALSE, approved |-> 0, by |-> {}])
Publishing(r, what, at) == Serving(r, "publish") /\ serving[r].what = what /\ serving[r].at = at
ReadTemplate(r) ==
  /\ Publishing(r, "catalogue", "template")
  /\ serving' = [serving EXCEPT ![r].at = "count", ![r].visible = visible]
  /\ UNCHANGED <<approvals, reviewItem, visible, entries, asked, overwritten>>
CountApprovals(r) ==
  /\ Serving(r, "publish") /\ serving[r].at = "count"
  /\ serving' = [serving EXCEPT ![r].at = "save", ![r].approved = Cardinality(Approvals),
                                ![r].by = {approvals[i].by : i \in Approvals}]
  /\ UNCHANGED <<approvals, reviewItem, visible, entries, asked, overwritten>>

\* What is so when the row is saved, beside what the request has found.
Standing == (IF IsApproved THEN {"approved"} ELSE {}) \cup (IF visible THEN {"visible"} ELSE {})
LogEntry(r) ==
  [what |-> serving[r].what, publish |-> serving[r].publish, by |-> serving[r].by,
   stood |-> stood[r], standing |-> Standing, raced |-> r \in raced]
PublishVisualisation(r) ==
  LET q == serving[r] IN
  /\ Publishing(r, "visualisation", "save")
  /\ ~q.publish \/ q.approved >= 2
  /\ visible' = q.publish /\ Log(LogEntry(r)) /\ FinishRequest(r)
  /\ UNCHANGED <<approvals, reviewItem, asked, overwritten>>
\* Mutant: the visualisation need not be published.
MayPublishHidden(q) == ~q.publish \/ (q.approved >= 2 /\ q.item.complete)
MayPublish(q) == ~q.publish \/ (q.approved >= 2 /\ q.visible /\ q.item.complete)
PublishItem(r) ==
  LET q == serving[r] IN
  /\ Publishing(r, "catalogue", "save") /\ MayPublish(q)
  /\ reviewItem' = [q.item EXCEPT !.published = q.publish] /\ overwritten' = FALSE
  /\ Log(LogEntry(r)) /\ FinishRequest(r)
  /\ UNCHANGED <<approvals, visible, asked>>
RefusePublish(r) ==
  LET q == serving[r] IN
  /\ Serving(r, "publish") /\ q.at = "save" /\ q.publish
  /\ IF q.what = "catalogue" THEN ~MayPublish(q) ELSE q.approved < 2
  /\ Respond(r)

(***************************************************************************)
(* The form of the catalogue item: loaded, edited and saved as a whole.    *)
(***************************************************************************)
LoadItemForm(r, complete, open) ==
  LoadPage(r, [kind |-> "item", complete |-> complete, open |-> open, item |-> reviewItem])
SaveItemForm(r) ==
  LET q == serving[r] IN
  /\ Serving(r, "item") /\ FinishRequest(r)
  /\ reviewItem' = [q.item EXCEPT !.complete = q.complete, !.open = q.open]
  /\ IF q.open # q.item.open THEN Log([what |-> "access type", publish |-> q.open])
     ELSE UNCHANGED entries
  /\ overwritten' = (overwritten \/ r \in raced)
  /\ UNCHANGED <<approvals, visible, asked>>

VisView(r) ==
  \/ \E d \in Developer, b \in BOOLEAN : LoadApproval(r, d, b)
  \/ \E what \in {"visualisation", "catalogue"}, b \in BOOLEAN : LoadPublish(r, what, b)
  \/ \E b, c \in BOOLEAN : LoadItemForm(r, b, c)
  \/ SaveApproval(r) \/ ReadTemplate(r) \/ CountApprovals(r)
  \/ PublishVisualisation(r) \/ PublishItem(r) \/ RefusePublish(r)
  \/ SaveItemForm(r)

\* What the history variables note of every step.
HistoryKept ==
  /\ stood' = [s \in VisRequest |->
                 IF serving'[s] = NoRequest THEN {}
                 ELSE IF serving[s] = NoRequest THEN Standing' ELSE stood[s] \cup Standing']
  /\ raced' = {s \in VisRequest :
                   /\ serving[s] # NoRequest /\ serving'[s] # NoRequest
                   /\ s \in raced
                      \/ <<approvals, reviewItem, visible>>' # <<approvals, reviewItem, visible>>}

ReviewNext == (\E r \in VisRequest : VisView(r)) /\ HistoryKept
ReviewSpec == ReviewInit /\ [][ReviewNext]_reviewVars

(***************************************************************************)
(* Properties.                                                             *)
(***************************************************************************)

(* Types; a developer has at most as many approvals as requests at a time. *)
ApprovalRow == [by : Developer, approved : BOOLEAN]
ReviewItem == [published : BOOLEAN, complete : BOOLEAN, open : BOOLEAN]
ApprovalsBy(d) == {i \in Approvals : approvals[i].by = d}
ReviewTypeOK ==
  /\ approvals \in Seq(ApprovalRow)
  /\ reviewItem \in ReviewItem
  /\ visible \in BOOLEAN
  /\ asked \in 0..MaxVisRequests
  /\ \A d \in Developer : Cardinality(ApprovalsBy(d)) <= Cardinality(VisRequest)

(* What a publication has to find: two approvals, and for the catalogue    *)
(* the visualisation itself published.                                     *)
Publication == {"visualisation", "catalogue"}
Demanded(what) == IF what = "catalogue" THEN {"approved", "visible"} ELSE {"approved"}
(* Each thing that a publication wants has stood at some moment while it   *)
(* was served, and unless another request changed a row beside it, all of  *)
(* it when the row was saved.  An approval that is withdrawn between the   *)
(* count and the save does not stop it.                                    *)
PublicationsWereReviewed ==
  \A i \in 1..Len(entries) : entries[i].what \in Publication /\ entries[i].publish =>
    /\ Demanded(entries[i].what) \subseteq entries[i].stood
    /\ ~entries[i].raced => Demanded(entries[i].what) \subseteq entries[i].standing

(* The log tells what is published: what its last entry about it says, but *)
(* for an item that a form loaded before has overwritten since, and that   *)
(* too was published once.                                                 *)
LogSays(what) == \E i \in 1..Len(entries) :
  /\ entries[i].what = what /\ entries[i].publish
  /\ \A j \in 1..Len(entries) : j > i => entries[j].what # what
ItemLogged == \E i \in 1..Len(entries) : entries[i].what = "catalogue" /\ entries[i].publish
PublishedAsLogged ==
  /\ visible = LogSays("visualisation")
  /\ ~overwritten => reviewItem.published = LogSays("catalogue")
  /\ reviewItem.published => ItemLogged

(* "The visualisation must be approved by two developers before it can be  *)
(* published."  Two requests of one developer, served at the same time,    *)
(* make two approvals, and the count does not tell who approved.           *)
ApprovedByTwoDevelopers ==
  \A i \in 1..Len(entries) :
    entries[i].what \in Publication /\ entries[i].publish =>
      Cardinality(entries[i].by) >= 2

(***************************************************************************)
(* Why they hold: what each request has loaded.                            *)
(***************************************************************************)
VisRequestType ==
  {NoRequest}
  \cup [kind : {"approval"}, by : Developer, approve : BOOLEAN, mine : Nat]
  \cup [kind : {"publish"}, what : Publication, publish : BOOLEAN, item : ReviewItem,
        at : {"template", "count", "save"}, visible : BOOLEAN, approved : Nat,
        by : SUBSET Developer]
  \cup [kind : {"item"}, complete : BOOLEAN, open : BOOLEAN, item : ReviewItem]
LogRow ==
  [what : Publication, publish : BOOLEAN, by : SUBSET Developer,
   stood : SUBSET {"approved", "visible"}, standing : SUBSET {"approved", "visible"},
   raced : BOOLEAN]
  \cup [what : {"access type"}, publish : BOOLEAN]

\* The requests that are about to make an approval of a developer.
NewApprovals(d) ==
  {r \in VisRequest : Serving(r, "approval") /\ serving[r].by = d /\ serving[r].mine = 0}

\* What a request has read was so at some moment, and still is unless others wrote.
ReadOnce(r) ==
  LET q == serving[r] IN
  /\ Serving(r, "publish") \/ Serving(r, "item") =>
       /\ q.item.published => ItemLogged
       /\ r \notin raced => q.item = reviewItem
  /\ Serving(r, "publish") =>
       /\ q.what = "visualisation" => q.at # "template"
       /\ q.visible => "visible" \in stood[r] /\ (r \notin raced => visible)
       /\ q.approved >= 2 => "approved" \in stood[r] /\ (r \notin raced => IsApproved)

ReviewInv ==
  /\ ReviewTypeOK
  /\ PublicationsWereReviewed /\ PublishedAsLogged
  /\ serving \in [VisRequest -> VisRequestType]
  /\ entries \in Seq(LogRow)
  /\ stood \in [VisRequest -> SUBSET {"approved", "visible"}]
  /\ raced \subseteq VisRequest /\ overwritten \in BOOLEAN
  /\ \A r \in VisRequest :
       /\ Serving(r, "approval") => serving[r].mine \in 0..Len(approvals)
       /\ serving[r] # NoRequest => Standing \subseteq stood[r]
       /\ ReadOnce(r)
  /\ \A d \in Developer :
       Cardinality(ApprovalsBy(d)) + Cardinality(NewApprovals(d)) <= Cardinality(VisRequest)

\* A publication found its approvals, and what is published is what the log says last,
\* whatever crosses it (_set_published_on_visualisation, _set_published_on_catalogue_item).
ReviewSafety ==
  /\ ReviewTypeOK
  /\ PublicationsWereReviewed
  /\ PublishedAsLogged
=============================================================================

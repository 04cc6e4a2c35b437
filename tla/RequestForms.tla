------------------------------ MODULE RequestForms ------------------------------
(***************************************************************************)
(* The wizards that ask for data (apps/request_data) and for access to a   *)
(* dataset or to tools (apps/request_access): one row that page after page *)
(* fills, and a Zendesk ticket at the end.  Every request reads the whole  *)
(* row and writes the whole row; a user may have the pages in two tabs.    *)
(***************************************************************************)
EXTENDS Naturals, Sequences, FiniteSets, TLC

CONSTANTS FormTab, Form,
          MaxPosts,       \* bound on the forms posted
          TicketFailures  \* bound on the requests that fail after the ticket was made

VARIABLES formRow,    \* DataRequest or AccessRequest
          formTab,    \* tab -> the page it shows, or the request it made and the row it read
          tickets,    \* the tickets of Zendesk
          excused,    \* form -> requests that overlapped, failed, or wrote an old row
          astray,     \* form -> it was open in a second tab, or its confirmation out of turn
          formBudget

formVars == <<formRow, formTab, tickets, excused, astray, formBudget>>
NoRow == [kind |-> "none"]
Rows(kind) == [kind |-> kind, given |-> {}, owner |-> FALSE, spss |-> FALSE, ticket |-> 0]
FormInit ==
  /\ formRow = [q \in Form |-> NoRow] /\ formTab = [t \in FormTab |-> [at |-> "away"]]
  /\ tickets = <<>> /\ excused = [q \in Form |-> 0] /\ astray = [q \in Form |-> FALSE]
  /\ formBudget = [posts |-> MaxPosts, failures |-> TicketFailures]

TabOn(t, at) == formTab[t].at = at
RowOf(t) == formRow[formTab[t].of]
Shows(t, q, page) == formTab' = [formTab EXCEPT ![t] =
                                   [at |-> "page", of |-> q, page |-> page, change |-> FALSE]]
PostLeft == /\ formBudget.posts > 0
            /\ formBudget' = [formBudget EXCEPT !.posts = @ - 1]

(***************************************************************************)
(* The first page.                                                         *)
(***************************************************************************)
StartDataRequest(t, q) ==
  /\ TabOn(t, "away") /\ formRow[q] = NoRow
  /\ formRow' = [formRow EXCEPT ![q] = Rows("data")] /\ Shows(t, q, "who")
  /\ UNCHANGED <<tickets, excused, astray, formBudget>>
\* A user with access to the dataset, or none in view, can only lack tools.
StartToolsRequest(t, q) ==
  /\ TabOn(t, "away") /\ formRow[q] = NoRow
  /\ formRow' = [formRow EXCEPT ![q] = Rows("tools")] /\ Shows(t, q, "tools-1")
  /\ UNCHANGED <<tickets, excused, astray, formBudget>>
\* No tools are asked for by those who have them, nor for a visualisation or a data cut.
StartDatasetRequest(t, q, toolsToo) ==
  /\ TabOn(t, "away") /\ formRow[q] = NoRow
  /\ formRow' = [formRow EXCEPT ![q] =
                    [Rows(IF toolsToo THEN "both" ELSE "dataset") EXCEPT !.given = {"dataset"}]]
  /\ Shows(t, q, IF toolsToo THEN "tools-1" ELSE "check")
  /\ UNCHANGED <<tickets, excused, astray, formBudget>>
\* The address of a page can be opened in another tab.
GoesAstray(q) == astray' = [astray EXCEPT ![q] = TRUE]
OpenInTab(t, u) ==
  /\ TabOn(t, "away") /\ TabOn(u, "page") /\ Shows(t, formTab[u].of, formTab[u].page)
  /\ GoesAstray(formTab[u].of)
  /\ UNCHANGED <<formRow, tickets, excused, formBudget>>

(***************************************************************************)
(* A page: the view reads the row, and saves it with the answer.           *)
(***************************************************************************)
PageAfter(row, page, change) ==
  CASE page = "who" -> IF ~row.owner /\ (change => "owner" \notin row.given) THEN "owner"
                       ELSE IF change THEN "check" ELSE "description"
    [] page = "dataset" -> IF "tools-1" \in row.given THEN "tools-1" ELSE "check"
    [] page = "tools-1" -> "tools-2"
    [] page = "tools-2" -> IF row.spss THEN "tools-3" ELSE "check"
    [] page \in {"tools-3", "licence"} -> "check"
    [] OTHER -> IF change THEN "check"
                ELSE CASE page = "owner" -> "description" [] page = "description" -> "purpose"
                       [] page = "purpose" -> "security"  [] page = "security" -> "location"
                       [] page = "location" -> "licence"
ReadForPage(t) ==
  /\ TabOn(t, "page") /\ formTab[t].page # "check" /\ PostLeft
  /\ formTab' = [formTab EXCEPT ![t] = [at |-> "answer", of |-> @.of, page |-> @.page,
                                        change |-> @.change, row |-> RowOf(t)]]
  /\ UNCHANGED <<formRow, tickets, excused, astray>>
\* The ticket of a row that was read before the ticket was saved is lost.
Loses(t, row) == IF RowOf(t).ticket # 0 /\ row.ticket = 0 THEN 1 ELSE 0
SaveAnswer(t, yes) ==
  /\ TabOn(t, "answer")
  /\ LET shown == formTab[t]
         given == [shown.row EXCEPT !.given = @ \cup {shown.page}]
         row == CASE shown.page = "who" -> [given EXCEPT !.owner = yes]
                  [] shown.page = "tools-2" -> [given EXCEPT !.spss = yes]
                  [] OTHER -> given
     IN /\ formRow' = [formRow EXCEPT ![shown.of] = row]
        /\ excused' = [excused EXCEPT ![shown.of] = @ + Loses(t, row)]
        /\ formTab' = [formTab EXCEPT ![t] =
             [at |-> "page", of |-> shown.of, page |-> PageAfter(row, shown.page, shown.change),
              change |-> shown.change]]
  /\ UNCHANGED <<tickets, astray, formBudget>>
ChangeAnswer(t, page) ==
  /\ TabOn(t, "page") /\ formTab[t].page = "check" /\ page \in RowOf(t).given
  /\ page \in {"who", "description", "dataset"}
  /\ formTab' = [formTab EXCEPT ![t] =
                    [at |-> "page", of |-> @.of, page |-> page, change |-> TRUE]]
  /\ UNCHANGED <<formRow, tickets, excused, astray, formBudget>>

(***************************************************************************)
(* The ticket: RequestDataCheckAnswers.post, which looks whether required  *)
(* fields are blank, and AccessRequestConfirmationPage.get, which does not *)
(* and answers whoever opens its address, from the summary or before it.   *)
(***************************************************************************)
Required == {"who", "description", "purpose", "security"}
Complete(row) == row.kind = "data" => Required \subseteq row.given
\* Mutant: the ticket is made without a look at the row.
AlwaysUnsubmitted(row) == TRUE
Unsubmitted(row) == row.ticket = 0
Submit(t) ==
  /\ TabOn(t, "page") /\ formTab[t].page = "check" /\ PostLeft
  /\ formTab' = [formTab EXCEPT ![t] =
       IF ~Unsubmitted(RowOf(t)) THEN [at |-> "confirmed", of |-> @.of]
       ELSE IF Complete(RowOf(t)) THEN [at |-> "ticket", of |-> @.of, row |-> RowOf(t)]
       ELSE [at |-> "error", of |-> @.of]]
  /\ UNCHANGED <<formRow, tickets, excused, astray>>
OpenConfirmation(t) ==
  /\ TabOn(t, "page") /\ formTab[t].page # "check" /\ RowOf(t).kind # "data" /\ PostLeft
  /\ formTab' = [formTab EXCEPT ![t] =
       IF Unsubmitted(RowOf(t)) THEN [at |-> "ticket", of |-> @.of, row |-> RowOf(t)]
       ELSE [at |-> "confirmed", of |-> @.of]]
  /\ GoesAstray(formTab[t].of)
  /\ UNCHANGED <<formRow, tickets, excused>>
Submitting(q) == {t \in FormTab : formTab[t].at \in {"ticket", "save"} /\ formTab[t].of = q}
MakeTicket(t) ==
  /\ TabOn(t, "ticket")
  /\ tickets' = Append(tickets, [of |-> formTab[t].of, row |-> formTab[t].row])
  /\ formTab' = [formTab EXCEPT ![t] =
       [at |-> "save", of |-> @.of, row |-> [@.row EXCEPT !.ticket = Len(tickets) + 1]]]
  /\ excused' = IF Submitting(formTab[t].of) = {t} /\ Loses(t, formTab[t].row) = 0
                THEN excused
                ELSE [excused EXCEPT ![formTab[t].of] = @ + 1]
  /\ UNCHANGED <<formRow, astray, formBudget>>
SaveTicket(t) ==
  /\ TabOn(t, "save")
  /\ formRow' = [formRow EXCEPT ![formTab[t].of] = formTab[t].row]
  /\ formTab' = [formTab EXCEPT ![t] = [at |-> "confirmed", of |-> @.of]]
  /\ UNCHANGED <<tickets, excused, astray, formBudget>>
\* The email to the second contact of a visualisation, or the private comment, fails.
FailAfterTicket(t) ==
  /\ TabOn(t, "save") /\ formBudget.failures > 0
  /\ formBudget' = [formBudget EXCEPT !.failures = @ - 1]
  /\ formTab' = [formTab EXCEPT ![t] = [at |-> "error", of |-> @.of]]
  /\ excused' = [excused EXCEPT ![formTab[t].of] = @ + 1]
  /\ UNCHANGED <<formRow, tickets, astray>>
\* Reloading the page, or going back to it.
BackToCheck(t) ==
  /\ formTab[t].at \in {"confirmed", "error"} /\ Shows(t, formTab[t].of, "check")
  /\ UNCHANGED <<formRow, tickets, excused, astray, formBudget>>

FormStep(t) ==
  \/ \E q \in Form : \/ StartDataRequest(t, q) \/ StartToolsRequest(t, q)
                     \/ \E toolsToo \in BOOLEAN : StartDatasetRequest(t, q, toolsToo)
  \/ \E u \in FormTab : OpenInTab(t, u)
  \/ ReadForPage(t) \/ \E yes \in BOOLEAN : SaveAnswer(t, yes)
  \/ \E page \in {"who", "description", "dataset"} : ChangeAnswer(t, page)
  \/ Submit(t) \/ OpenConfirmation(t) \/ MakeTicket(t) \/ SaveTicket(t) \/ FailAfterTicket(t) \/ BackToCheck(t)
FormNext == \E t \in FormTab : FormStep(t)
FormSpec == FormInit /\ [][FormNext]_formVars

(***************************************************************************)
(* Properties.                                                             *)
(***************************************************************************)

(* Types, and the number in a row is that of a ticket about this row.      *)
FormTypeOK ==
  /\ \A q \in Form : formRow[q] # NoRow => formRow[q].ticket \in 0..Len(tickets)
  /\ \A q \in Form : formRow[q] # NoRow /\ formRow[q].ticket # 0 =>
       tickets[formRow[q].ticket].of = q
  /\ \A t \in FormTab : TabOn(t, "confirmed") =>
       \E i \in 1..Len(tickets) : tickets[i].of = formTab[t].of

(* However often its pages are opened, reloaded and posted, a form has one *)
(* ticket; another only when two requests overlapped, one failed after the *)
(* ticket was made, or one wrote back a row that had none yet.             *)
TicketsOf(q) == {i \in 1..Len(tickets) : tickets[i].of = q}
OneTicketEach == \A q \in Form : Cardinality(TicketsOf(q)) <= 1 + excused[q]

(* "If they've hacked the URL, some required fields might be blank": not   *)
(* in the ticket of a data request, and neither when a second tab blanked  *)
(* them again.  For access nobody looks: its ticket has what the journey   *)
(* asks for when the pages were gone through in one tab and in turn; one   *)
(* from a confirmation opened before, or from two tabs, may lack answers.  *)
FirstPage(row) == IF row.kind \in {"dataset", "both"} THEN {"dataset"} ELSE {}
Needed(row) == FirstPage(row) \cup
  IF row.kind = "dataset" THEN {}
  ELSE {"tools-1", "tools-2"} \cup (IF row.spss THEN {"tools-3"} ELSE {})
DataTicketsAreComplete ==
  \A i \in 1..Len(tickets) : tickets[i].row.kind = "data" => Required \subseteq tickets[i].row.given
AccessTicketsAreComplete ==
  \A i \in 1..Len(tickets) : tickets[i].row.kind # "data" /\ ~astray[tickets[i].of] =>
    Needed(tickets[i].row) \subseteq tickets[i].row.given
TicketsAreComplete == DataTicketsAreComplete /\ AccessTicketsAreComplete

(***************************************************************************)
(* Why they hold: what each tab has read, and who still knows the ticket.  *)
(***************************************************************************)
FormPage == {"who", "owner", "description", "purpose", "security", "location", "licence",
             "dataset", "tools-1", "tools-2", "tools-3", "check"}
FormRowType == [kind : {"data", "tools", "dataset", "both"}, given : SUBSET FormPage,
                owner : BOOLEAN, spss : BOOLEAN, ticket : Nat]
FormTabType ==
  [at : {"away"}] \cup [at : {"confirmed", "error"}, of : Form]
  \cup [at : {"page"}, of : Form, page : FormPage, change : BOOLEAN]
  \cup [at : {"answer"}, of : Form, page : FormPage \ {"check"}, change : BOOLEAN,
        row : FormRowType]
  \cup [at : {"ticket", "save"}, of : Form, row : FormRowType]

\* The number in a row, stored or read, is that of a ticket about the row.
TicketIs(row, q) == row.ticket # 0 => row.ticket \in TicketsOf(q)
FormTabInv ==
  \A t \in FormTab :
    /\ ~TabOn(t, "away") => RowOf(t) # NoRow
    /\ formTab[t].at \in {"answer", "ticket", "save"} => TicketIs(formTab[t].row, formTab[t].of)
    /\ TabOn(t, "ticket") => formTab[t].row.ticket = 0 /\ Complete(formTab[t].row)
    /\ TabOn(t, "save") => formTab[t].row.ticket # 0
    /\ TabOn(t, "confirmed") => TicketsOf(formTab[t].of) # {}

\* The row has its ticket, or a request is about to save it.
TicketKnown(q) == \/ formRow[q] # NoRow /\ formRow[q].ticket # 0
                  \/ \E t \in FormTab : TabOn(t, "save") /\ formTab[t].of = q
TicketsExcused ==
  \A q \in Form : Cardinality(TicketsOf(q)) <= excused[q] + (IF TicketKnown(q) THEN 1 ELSE 0)

FormInv ==
  /\ formRow \in [Form -> {NoRow} \cup FormRowType]
  /\ formTab \in [FormTab -> FormTabType]
  /\ tickets \in Seq([of : Form, row : FormRowType])
  /\ excused \in [Form -> Nat]
  /\ \A q \in Form : formRow[q] # NoRow => TicketIs(formRow[q], q)
  /\ FormTabInv
  /\ TicketsExcused
  /\ DataTicketsAreComplete

\* A form for access that did not go astray is open in one tab, on a page that follows
\* those it was given the answers of.
AccessPage == {"dataset", "tools-1", "tools-2", "tools-3", "check"}
Before(row, page) ==
  CASE page = "tools-1" -> FirstPage(row)
    [] page = "tools-2" -> FirstPage(row) \cup {"tools-1"}
    [] page = "tools-3" -> FirstPage(row) \cup {"tools-1", "tools-2"}
    [] OTHER -> Needed(row)
SameAnswers(row, stored) ==
  row.kind = stored.kind /\ row.given = stored.given /\ row.spss = stored.spss
InTurn(t) ==
  /\ \A u \in FormTab \ {t} : formTab[u].at # "away" => formTab[u].of # formTab[t].of
  /\ formTab[t].at \in {"answer", "ticket", "save"} => SameAnswers(formTab[t].row, RowOf(t))
  /\ formTab[t].at \in {"page", "answer"} =>
       formTab[t].page \in AccessPage /\ Before(RowOf(t), formTab[t].page) \subseteq RowOf(t).given
  /\ formTab[t].at \in {"ticket", "save", "confirmed", "error"} =>
       Needed(RowOf(t)) \subseteq RowOf(t).given
  /\ RowOf(t).given \subseteq AccessPage
WalkInv ==
  /\ astray \in [Form -> BOOLEAN]
  /\ \A t \in FormTab :
       formTab[t].at # "away" /\ RowOf(t).kind # "data" /\ ~astray[formTab[t].of] => InTurn(t)
  /\ \A t \in FormTab :
       formTab[t].at \in {"answer", "ticket", "save"} => formTab[t].row.kind = RowOf(t).kind
  /\ AccessTicketsAreComplete

\* A request for data or access ends in one ticket, however its pages are opened, reloaded
\* and posted in two tabs; that of a data request has all its answers, and that of an access
\* request when its pages were gone through in turn (RequestDataCheckAnswers,
\* AccessRequestConfirmationPage).
FormSafety ==
  /\ FormTypeOK
  /\ OneTicketEach
  /\ TicketsAreComplete
===============================================================================

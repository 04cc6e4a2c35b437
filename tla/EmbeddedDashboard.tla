--------------------------- MODULE EmbeddedDashboard ---------------------------
(***************************************************************************)
(* The page of a QuickSight dashboard: visualisation_link_html_view and    *)
(* get_quicksight_dashboard_name_url.                                      *)
(*                                                                         *)
(* Each view registers its viewer as a reader of QuickSight, tries a few   *)
(* times to add the reader to the group of the dashboards, since a new     *)
(* reader may not be found at once, and then asks for the dashboard.       *)
(* Views of the same person run at the same time, while admins change the  *)
(* link, the permissions and the dashboard.                                *)
(***************************************************************************)
EXTENDS Naturals, FiniteSets

CONSTANTS
    View,               \* requests for the page of the link
    DashViewer,             \* people
    MaxDashChanges      \* bound: changes by admins

ASSUME EmbedAssumption == MaxDashChanges \in Nat

Attempts == 5
NoViewer == "nobody"

VARIABLES
    linkExists, linkAccess,     \* the link, and who may see its catalogue item
    dashboardExists,            \* whether QuickSight has the dashboard
    readers, findable, group,   \* registered, found by others, in the group
    viewing,                    \* where each view is
    viewerOf,                   \* who asked for it
    attempts,                   \* attempts left
    admitted,                   \* whether the viewer had access when it was read
    viewLog,                    \* views in the event log
    dashChanges

embedVars == <<linkExists, linkAccess, dashboardExists, readers, findable, group,
               viewing, viewerOf, attempts, admitted, viewLog, dashChanges>>

adminVars == <<linkExists, linkAccess, dashboardExists, dashChanges>>

Stage == {"none", "not found", "asked to request access",
          "registering", "joining", "asking", "shown", "error"}

EmbedInit ==
    /\ linkExists = TRUE /\ linkAccess = DashViewer /\ dashboardExists = TRUE
    /\ readers = {} /\ findable = {} /\ group = {}
    /\ viewing = [v \in View |-> "none"]
    /\ viewerOf = [v \in View |-> NoViewer]
    /\ attempts = [v \in View |-> 0]
    /\ admitted = [v \in View |-> FALSE]
    /\ viewLog = {}
    /\ dashChanges = 0

Viewing(v, from, to) == viewing[v] = from /\ viewing' = [viewing EXCEPT ![v] = to]
-------------------------------------------------------------------------------
\* The view: no link, no access, or on to the dashboard with an event logged.
OpenLink(v, u) ==
    /\ viewing[v] = "none"
    /\ viewerOf' = [viewerOf EXCEPT ![v] = u]
    /\ viewing' = [viewing EXCEPT ![v] =
           IF ~linkExists THEN "not found"
           ELSE IF u \notin linkAccess THEN "asked to request access"
           ELSE "registering"]
    /\ admitted' = [admitted EXCEPT ![v] = linkExists /\ u \in linkAccess]
    /\ viewLog' = IF linkExists /\ u \in linkAccess THEN viewLog \cup {v}
                  ELSE viewLog
    /\ UNCHANGED <<adminVars, readers, findable, group, attempts>>

\* register_user; a reader that exists already is as good.
Register(v) ==
    /\ Viewing(v, "registering", "joining")
    /\ readers' = readers \cup {viewerOf[v]}
    /\ attempts' = [attempts EXCEPT ![v] = Attempts]
    /\ UNCHANGED <<adminVars, findable, group, viewerOf, admitted, viewLog>>

\* QuickSight finds a new reader after a while.
BecomesFindable(u) ==
    /\ u \in readers \ findable
    /\ findable' = findable \cup {u}
    /\ UNCHANGED <<adminVars, readers, group, viewing, viewerOf, attempts,
                   admitted, viewLog>>

JoinGroup(v) ==
    /\ viewerOf[v] \in findable
    /\ Viewing(v, "joining", "asking")
    /\ group' = group \cup {viewerOf[v]}
    /\ UNCHANGED <<adminVars, readers, findable, viewerOf, attempts, admitted,
                   viewLog>>

\* Mutant: after the last attempt the loop is simply over.
NotFoundGoesOn(v) ==
    /\ viewing[v] = "joining" /\ viewerOf[v] \notin findable
    /\ attempts' = [attempts EXCEPT ![v] = @ - 1]
    /\ viewing' = [viewing EXCEPT ![v] = IF attempts[v] > 1 THEN "joining" ELSE "asking"]
    /\ UNCHANGED <<adminVars, readers, findable, group, viewerOf, admitted, viewLog>>

\* ResourceNotFoundException: another attempt after a sleep, or the error.
NotFoundYet(v) ==
    /\ viewing[v] = "joining" /\ viewerOf[v] \notin findable
    /\ attempts' = [attempts EXCEPT ![v] = @ - 1]
    /\ viewing' = [viewing EXCEPT ![v] = IF attempts[v] > 1 THEN "joining" ELSE "error"]
    /\ UNCHANGED <<adminVars, readers, findable, group, viewerOf, admitted, viewLog>>

\* describe_dashboard and get_dashboard_embed_url, in the viewer's own name.
ShowDashboard(v) ==
    /\ dashboardExists
    /\ Viewing(v, "asking", "shown")
    /\ UNCHANGED <<adminVars, readers, findable, group, viewerOf, attempts,
                   admitted, viewLog>>

\* Any other error of a call.
ViewFails(v) ==
    /\ viewing[v] \in {"registering", "joining", "asking"}
    /\ viewing' = [viewing EXCEPT ![v] = "error"]
    /\ UNCHANGED <<adminVars, readers, findable, group, viewerOf, attempts,
                   admitted, viewLog>>

\* Admins give and take access, and delete the link or the dashboard.
DashAdmin ==
    /\ dashChanges < MaxDashChanges
    /\ dashChanges' = dashChanges + 1
    /\ \/ \E u \in DashViewer :
              /\ linkAccess' = IF u \in linkAccess THEN linkAccess \ {u}
                               ELSE linkAccess \cup {u}
              /\ UNCHANGED <<linkExists, dashboardExists>>
       \/ linkExists /\ linkExists' = FALSE /\ UNCHANGED <<linkAccess, dashboardExists>>
       \/ /\ dashboardExists /\ dashboardExists' = FALSE
          /\ UNCHANGED <<linkAccess, linkExists>>
    /\ UNCHANGED <<readers, findable, group, viewing, viewerOf, attempts,
                   admitted, viewLog>>

EmbedNext ==
    \/ \E v \in View : \/ \E u \in DashViewer : OpenLink(v, u)
                       \/ Register(v) \/ JoinGroup(v) \/ NotFoundYet(v)
                       \/ ShowDashboard(v) \/ ViewFails(v)
    \/ \E u \in DashViewer : BecomesFindable(u)
    \/ DashAdmin

EmbedSpec == EmbedInit /\ [][EmbedNext]_embedVars
-------------------------------------------------------------------------------
\* A view is never left with attempts that have run out.
EmbedTypeOK ==
    /\ linkExists \in BOOLEAN /\ dashboardExists \in BOOLEAN
    /\ linkAccess \subseteq DashViewer
    /\ group \subseteq findable /\ findable \subseteq readers /\ readers \subseteq DashViewer
    /\ viewing \in [View -> Stage]
    /\ viewerOf \in [View -> DashViewer \cup {NoViewer}]
    /\ attempts \in [View -> 0 .. Attempts]
    /\ \A v \in View : viewing[v] = "joining" => attempts[v] > 0
    /\ admitted \in [View -> BOOLEAN]
    /\ viewLog \subseteq View
    /\ dashChanges \in 0 .. MaxDashChanges

\* A dashboard is shown to a reader of the group only, so that QuickSight serves
\* it, to somebody who had access to its catalogue item when the link was read,
\* and with the view in the event log.
ShownToMembers ==
    \A v \in View : viewing[v] = "shown" =>
        viewerOf[v] \in group /\ admitted[v] /\ v \in viewLog

\* Why it holds: what each view has been through.
EmbedViewInv ==
    \A v \in View :
       /\ viewing[v] # "none" => viewerOf[v] \in DashViewer
       /\ viewing[v] \in {"registering", "joining", "asking", "shown"} =>
             admitted[v] /\ v \in viewLog
       /\ viewing[v] \in {"asking", "shown"} => viewerOf[v] \in group

EmbedInv == EmbedTypeOK /\ EmbedViewInv

\* A dashboard is shown to members of its group who may see it, though new readers are
\* not found at once (get_quicksight_dashboard_name_url).
EmbedSafety ==
  /\ EmbedTypeOK
  /\ ShownToMembers
===============================================================================

-------------------------- MODULE MCCatalogue --------------------------
(***************************************************************************)
(* The components around the catalogue, in one run: they share no variable,*)
(* scope says which of them a behaviour is about, and the others stay as   *)
(* they are at first.                                                      *)
(***************************************************************************)
EXTENDS DatasetCatalogue, EmbeddedDashboard, DataGrid, ReferenceData,
        PermissionSync, QueryReview, DatasetSources, DashboardLinks,
        Notifications, Pipelines, CreateTable, RequestForms,
        VisualisationReview, VisualisationProject

VARIABLE scope

mcVars == <<scope, catalogueVars, embedVars, gridVars, refVars, permVars,
            cutVars, sourceVars, dashVars, notifyVars, pipelineVars,
            importVars, formVars, reviewVars, projectVars>>

MCInit ==
    /\ scope \in {"catalogue", "dashboard", "grid", "reference data",
                  "permissions", "queries", "sources", "files", "quicksight",
                  "notifications", "pipelines", "import", "forms", "review",
                  "project"}
    /\ CatalogueInit /\ EmbedInit /\ GridInit /\ RefInit /\ PermInit /\ CutInit /\
       SourcesInit /\ DashInit /\ NotifyInit /\ PipelineInit /\ ImportInit /\
       FormInit /\ ReviewInit /\ ProjectInit

InScope(s) == scope = s /\ UNCHANGED scope

\* What is not in scope stays as it is.
Rest ==
    /\ IF scope = "catalogue" THEN TRUE ELSE UNCHANGED catalogueVars
    /\ IF scope = "dashboard" THEN TRUE ELSE UNCHANGED embedVars
    /\ IF scope = "grid" THEN TRUE ELSE UNCHANGED gridVars
    /\ IF scope = "reference data" THEN TRUE ELSE UNCHANGED refVars
    /\ IF scope = "permissions" THEN TRUE ELSE UNCHANGED permVars
    /\ IF scope = "queries" THEN TRUE ELSE UNCHANGED cutVars
    /\ IF scope \in {"sources", "files"} THEN TRUE ELSE UNCHANGED sourceVars
    /\ IF scope = "quicksight" THEN TRUE ELSE UNCHANGED dashVars
    /\ IF scope = "notifications" THEN TRUE ELSE UNCHANGED notifyVars
    /\ IF scope = "pipelines" THEN TRUE ELSE UNCHANGED pipelineVars
    /\ IF scope = "import" THEN TRUE ELSE UNCHANGED importVars
    /\ IF scope = "forms" THEN TRUE ELSE UNCHANGED formVars
    /\ IF scope = "review" THEN TRUE ELSE UNCHANGED reviewVars
    /\ IF scope = "project" THEN TRUE ELSE UNCHANGED projectVars

(***************************************************************************)
(* What the largest scopes are narrowed to, so that the last post, request *)
(* or fault that is allowed is spent where it is needed.                   *)
(***************************************************************************)
\* The eighth post is of a form for data, which has the longer way to its ticket.
LastPost == formBudget'.posts = 0 => \A q \in Form : formRow'[q].kind = "data"
\* A fifth request comes where the form of the item is not used, or nothing is taken back.
ItemIsUntouched ==
    /\ reviewItem.complete /\ ~reviewItem.open
    /\ \A r \in VisRequest : ~Serving(r, "item")
NothingIsTakenBack ==
    /\ \A i \in 1..Len(approvals) : approvals[i].approved
    /\ \A i \in 1..Len(entries) : entries[i].publish
    /\ \A r \in VisRequest : /\ Serving(r, "approval") => serving[r].approve
                             /\ Serving(r, "publish") => serving[r].publish
LastReview == asked' < MaxVisRequests \/ ItemIsUntouched' \/ NothingIsTakenBack'
\* A third request about a project comes where all of them release.
AllRelease ==
    /\ hour = 0 /\ member = ProjectDeveloper
    /\ \A r \in ProjectRequest :
         request[r].kind \in {"none", "asking", "answered", "admitted", "release"}
LastRelease == requested' < MaxProjectRequests \/ AllRelease'
\* Email domains and published change where no task of the synchronisation fails.
OnlyTheUsersChange ==
    /\ domainUsers = {} /\ isPublished
    /\ \A f \in AdminForm : form[f].domain = {} /\ form[f].shown
OneCause == trouble' = 0 \/ OnlyTheUsersChange'

MCNext ==
    \/ InScope("catalogue") /\ CatalogueNext /\ Rest
    \/ InScope("dashboard") /\ EmbedNext /\ Rest
    \/ InScope("grid") /\ GridNext /\ Rest
    \/ InScope("reference data") /\ RefNext /\ Rest
    \/ InScope("permissions") /\ PermNext /\ OneCause /\ Rest
    \/ InScope("queries") /\ CutNext /\ Rest
    \/ InScope("sources") /\ SourceNumbers /\ UNCHANGED fileVars /\ Rest
    \/ InScope("files") /\ SourceFiles /\ UNCHANGED numberVars /\ Rest
    \/ InScope("quicksight") /\ DashNext /\ Rest
    \/ InScope("notifications") /\ NotifyNext /\ Rest
    \/ InScope("pipelines") /\ PipelineNext /\ Rest
    \/ InScope("import") /\ ImportNext /\ Rest
    \/ InScope("forms") /\ FormNext /\ LastPost /\ Rest
    \/ InScope("review") /\ ReviewNext /\ LastReview /\ Rest
    \/ InScope("project") /\ ProjectNext /\ LastRelease /\ Rest

MCSpec == MCInit /\ [][MCNext]_mcVars
=============================================================================

-------------------------- MODULE VisualisationProject --------------------------
(***************************************************************************)
(* A visualisation behind its GitLab project (apps/applications/views.py,  *)
(* gitlab.py, and retag of spawner.py): the check that a developer works   *)
(* on the project, cached for an hour; the template and the catalogue item *)
(* made for a project on first sight, with a free name; the release of a   *)
(* commit; the users with access, and the datasets the visualisation reads.*)
(* GitLab, the registry and the administrators act on their own.           *)
(***************************************************************************)
EXTENDS Naturals, FiniteSets

CONSTANTS ProjectDeveloper, Viewer, Source,
          Project,           \* GitLab projects, all of one name
          VisCommit,            \* commits whose image has been built
          ProjectRequest,    \* requests that are served at a time
          MaxProjectRequests,\* bound on the requests of a behaviour
          MaxAttempts,       \* names that are tried (20 in the code)
          TakenNames,        \* suffixes that other catalogue items use
          CacheHours,        \* how long a found membership is cached (60 minutes)
          MaxHour            \* bound on the time

ASSUME ProjectAssumption ==
  /\ MaxProjectRequests \in Nat /\ MaxAttempts \in Nat /\ MaxHour \in Nat
  /\ CacheHours \in Nat \ {0}

VARIABLES
  hour,       \* the time
  member,     \* developers of the project, in GitLab
  wasMember,  \* developer -> last hour at which he was one
  cachedAt,   \* developer -> hour of the cached answer, or Never
  template,   \* project -> suffix of its template and item, or NoName
  released,   \* the commit the production tag of the registry points to
  instance,   \* the running instance: none, starting, or the commit it runs
  viewers,    \* VisualisationUserPermission
  readable,   \* DataSetApplicationTemplatePermission
  held,       \* developer -> the datasets he has access to
  request, requested,
  abandoned   \* a release failed after its tag, and what ran then is still there

projectVars == <<hour, member, wasMember, cachedAt, template, released, instance,
                 viewers, readable, held, request, requested, abandoned>>
gitlabVars == <<hour, member, wasMember, cachedAt>>
instanceVars == <<instance, abandoned>>
accessVars == <<viewers, readable, held>>

Never == MaxHour + CacheHours + 1
NoName == MaxAttempts
Idle0 == [kind |-> "none"]
RequestKind(r, k) == request[r].kind = k
ProjectInit ==
  /\ hour = 0 /\ member = ProjectDeveloper /\ wasMember = [d \in ProjectDeveloper |-> 0]
  /\ cachedAt = [d \in ProjectDeveloper |-> Never]
  /\ template = [p \in Project |-> NoName]
  /\ released = "none" /\ instance = "none" /\ abandoned = FALSE
  /\ viewers = {} /\ readable = {} /\ held = [d \in ProjectDeveloper |-> Source]
  /\ request = [r \in ProjectRequest |-> Idle0] /\ requested = 0

(***************************************************************************)
(* The surroundings: time, GitLab memberships, access of developers.       *)
(***************************************************************************)
HourPasses ==
  /\ hour < MaxHour /\ hour' = hour + 1
  /\ \A r \in ProjectRequest : RequestKind(r, "answered") => request[r].at = hour
  /\ wasMember' = [d \in ProjectDeveloper |-> IF d \in member THEN hour + 1 ELSE wasMember[d]]
  /\ UNCHANGED <<member, cachedAt, template, released, instanceVars, accessVars,
                 request, requested>>
LeaveProject(d) ==
  /\ d \in member /\ member' = member \ {d}
  /\ UNCHANGED <<hour, wasMember, cachedAt, template, released, instanceVars,
                 accessVars, request, requested>>
JoinProject(d) ==
  /\ d \notin member /\ member' = member \cup {d}
  /\ wasMember' = [wasMember EXCEPT ![d] = hour]
  /\ UNCHANGED <<hour, cachedAt, template, released, instanceVars, accessVars,
                 request, requested>>
LoseDataset(d, s) ==
  /\ s \in held[d] /\ held' = [held EXCEPT ![d] = @ \ {s}]
  /\ UNCHANGED <<gitlabVars, template, released, instanceVars, viewers, readable,
                 request, requested>>

(***************************************************************************)
(* gitlab_has_developer_access: what the cache holds is good; otherwise    *)
(* GitLab is asked, and a membership that it answers is cached after that. *)
(* The lack of one is not.  Between the answer and the cache a request     *)
(* waits for less than an hour (the guard of HourPasses).                  *)
(***************************************************************************)
RequestEnds(r) == request' = [request EXCEPT ![r] = Idle0]
Asked(kind, d, at) == [kind |-> kind, by |-> d, at |-> at]
Cached(d) == cachedAt[d] # Never /\ hour < cachedAt[d] + CacheHours
Ask(r, d) ==
  /\ request[r] = Idle0 /\ requested < MaxProjectRequests
  /\ requested' = requested + 1
  /\ request' = [request EXCEPT ![r] =
                   Asked(IF Cached(d) THEN "admitted" ELSE "asking", d, 0)]
  /\ UNCHANGED <<gitlabVars, template, released, instanceVars, accessVars>>
GitlabAnswers(r) ==
  /\ RequestKind(r, "asking")
  /\ IF request[r].by \in member
     THEN request' = [request EXCEPT ![r] = Asked("answered", request[r].by, hour)]
     ELSE RequestEnds(r)
  /\ UNCHANGED <<gitlabVars, template, released, instanceVars, accessVars, requested>>
CacheAnswer(r) ==
  /\ RequestKind(r, "answered")
  /\ cachedAt' = [cachedAt EXCEPT ![request[r].by] = hour]
  /\ request' = [request EXCEPT ![r] = Asked("admitted", request[r].by, 0)]
  /\ UNCHANGED <<hour, member, wasMember, template, released, instanceVars, accessVars,
                 requested>>
\* The request is served as what it is.
BeginRequest(r, what) ==
  /\ RequestKind(r, "admitted")
  /\ request' = [request EXCEPT ![r] = what]
  /\ UNCHANGED <<gitlabVars, template, released, instanceVars, accessVars, requested>>

(***************************************************************************)
(* _application_template: the row of the project, or one more attempt at   *)
(* making template and item with the next name, in a transaction.          *)
(***************************************************************************)
OpenProject(r, p) ==
  BeginRequest(r, [kind |-> IF template[p] = NoName THEN "create" ELSE "shown",
               project |-> p, attempt |-> 0])
Free(p, n) == template[p] = NoName /\ n \notin TakenNames
              /\ \A q \in Project : template[q] # n
NameIsFree(p, n) == Free(p, n)
CreateTemplate(r) ==
  LET q == request[r] IN
  /\ RequestKind(r, "create") /\ q.attempt < MaxAttempts
  /\ IF NameIsFree(q.project, q.attempt)
     THEN /\ template' = [template EXCEPT ![q.project] = q.attempt] /\ RequestEnds(r)
     ELSE /\ request' = [request EXCEPT ![r].attempt = @ + 1] /\ UNCHANGED template
  /\ UNCHANGED <<gitlabVars, released, instanceVars, accessVars, requested>>
\* After the last attempt the row another request made is good enough; with no
\* row the error is raised.
LookAgain(r) ==
  /\ RequestKind(r, "create") /\ request[r].attempt = MaxAttempts
  /\ request' = [request EXCEPT ![r].kind =
                   IF template[request[r].project] = NoName THEN "error" ELSE "shown"]
  /\ UNCHANGED <<gitlabVars, template, released, instanceVars, accessVars, requested>>
ProjectShown(r) ==
  /\ request[r].kind \in {"shown", "error"} /\ RequestEnds(r)
  /\ UNCHANGED <<gitlabVars, template, released, instanceVars, accessVars, requested>>

(***************************************************************************)
(* Release of a commit: the registry is tagged, and then the instance that *)
(* runs, or is starting, is stopped.                                       *)
(***************************************************************************)
BeginRelease(r, c) == BeginRequest(r, [kind |-> "release", commit |-> c, step |-> 1])
\* Mutant: the instance is stopped first.
RetagStepLast == 2
RetagStep == 1
Retag(r) ==
  /\ RequestKind(r, "release") /\ request[r].step = RetagStep
  /\ released' = request[r].commit
  /\ IF RetagStep = 2 THEN RequestEnds(r) ELSE request' = [request EXCEPT ![r].step = 2]
  /\ UNCHANGED <<gitlabVars, template, instanceVars, accessVars, requested>>
StopInstance(r) ==
  /\ RequestKind(r, "release") /\ request[r].step = 3 - RetagStep
  /\ instance' = "none" /\ abandoned' = FALSE
  /\ IF RetagStep = 1 THEN RequestEnds(r) ELSE request' = [request EXCEPT ![r].step = 2]
  /\ UNCHANGED <<gitlabVars, template, released, accessVars, requested>>
\* The registry fails, two rows of the host are found, the stop is refused or the
\* process dies: what runs after the tag goes on running.
ReleaseFails(r) ==
  /\ RequestKind(r, "release") /\ RequestEnds(r)
  /\ abandoned' = (abandoned \/ (request[r].step = 2 /\ instance \in VisCommit))
  /\ UNCHANGED <<gitlabVars, template, released, instance, accessVars, requested>>
\* The instance ends without a release: it was idle, or its row was stopped.
InstanceEnds ==
  /\ instance \in VisCommit /\ instance' = "none" /\ abandoned' = FALSE
  /\ UNCHANGED <<gitlabVars, template, released, accessVars, request, requested>>
\* A visitor starts the visualisation: first its row, then the task, which
\* takes the image of the tag.
StartInstance == /\ instance = "none" /\ released # "none" /\ instance' = "starting"
                 /\ UNCHANGED <<gitlabVars, template, released, accessVars, request,
                                requested, abandoned>>
RunTask == /\ instance = "starting" /\ instance' = released
           /\ UNCHANGED <<gitlabVars, template, released, accessVars, request, requested,
                          abandoned>>

(***************************************************************************)
(* Users with access: one row, in a transaction with its log entry.        *)
(***************************************************************************)
BeginGive(r, u) == BeginRequest(r, [kind |-> "give", user |-> u])
BeginRemove(r, u) == BeginRequest(r, [kind |-> "remove", user |-> u])
GiveAccess(r) ==
  /\ RequestKind(r, "give") /\ RequestEnds(r) /\ viewers' = viewers \cup {request[r].user}
  /\ UNCHANGED <<gitlabVars, template, released, instanceVars, readable, held, requested>>
RemoveAccess(r) ==
  /\ RequestKind(r, "remove") /\ RequestEnds(r) /\ viewers' = viewers \ {request[r].user}
  /\ UNCHANGED <<gitlabVars, template, released, instanceVars, readable, held, requested>>

(***************************************************************************)
(* Datasets of the visualisation.  The developer can change only what he   *)
(* could select when the request began; each dataset has a transaction.    *)
(***************************************************************************)
BeginDatasets(r, chosen) ==
  LET mine == held[request[r].by] IN
  BeginRequest(r, [kind |-> "datasets", selectable |-> mine, chosen |-> chosen,
               give |-> (chosen \cap mine) \ readable,
               remove |-> (readable \cap mine) \ chosen])
ToRemove(q) == q.remove
GiveDataset(r, s) ==
  /\ RequestKind(r, "datasets") /\ s \in request[r].give
  /\ readable' = readable \cup {s}
  /\ request' = [request EXCEPT ![r].give = @ \ {s}]
  /\ UNCHANGED <<gitlabVars, template, released, instanceVars, viewers, held, requested>>
RemoveDataset(r, s) ==
  /\ RequestKind(r, "datasets") /\ request[r].give = {} /\ s \in ToRemove(request[r])
  /\ readable' = readable \ {s}
  /\ request' = [request EXCEPT ![r].remove = @ \ {s}]
  /\ UNCHANGED <<gitlabVars, template, released, instanceVars, viewers, held, requested>>
DatasetsSaved(r) ==
  /\ RequestKind(r, "datasets") /\ request[r].give = {} /\ ToRemove(request[r]) = {}
  /\ RequestEnds(r)
  /\ UNCHANGED <<gitlabVars, template, released, instanceVars, accessVars, requested>>

ProjectView(r) ==
  \/ \E d \in ProjectDeveloper : Ask(r, d)
  \/ GitlabAnswers(r) \/ CacheAnswer(r)
  \/ \E p \in Project : OpenProject(r, p)
  \/ \E c \in VisCommit : BeginRelease(r, c)
  \/ \E u \in Viewer : BeginGive(r, u) \/ BeginRemove(r, u)
  \/ RequestKind(r, "admitted") /\ \E chosen \in SUBSET Source : BeginDatasets(r, chosen)
  \/ CreateTemplate(r) \/ LookAgain(r) \/ ProjectShown(r)
  \/ Retag(r) \/ StopInstance(r) \/ ReleaseFails(r) \/ GiveAccess(r) \/ RemoveAccess(r)
  \/ \E s \in Source : GiveDataset(r, s) \/ RemoveDataset(r, s)
  \/ DatasetsSaved(r)
ProjectNext ==
  \/ HourPasses \/ StartInstance \/ RunTask \/ InstanceEnds
  \/ \E d \in ProjectDeveloper :
       LeaveProject(d) \/ JoinProject(d) \/ \E s \in Source : LoseDataset(d, s)
  \/ \E r \in ProjectRequest : ProjectView(r)
ProjectSpec == ProjectInit /\ [][ProjectNext]_projectVars

(***************************************************************************)
(* Properties.                                                             *)
(***************************************************************************)

(* Types; two projects never share the name of a template.                 *)
ProjectTypeOK ==
  /\ template \in [Project -> 0..MaxAttempts] /\ viewers \subseteq Viewer
  /\ readable \subseteq Source /\ requested \in 0..MaxProjectRequests
  /\ released \in VisCommit \cup {"none"}
  /\ instance \in VisCommit \cup {"none", "starting"}
  /\ \A p, q \in Project : p # q /\ template[p] # NoName => template[p] # template[q]

(* A project has one template for good: requests that meet at the creation *)
(* end with the template of the first.                                     *)
TemplateStays == [][\A p \in Project : template[p] # NoName =>
                      template'[p] = template[p]]_projectVars

(* A request is admitted, by GitLab or by the cache, only when its         *)
(* developer was one of the GitLab project within the hours of the cache:  *)
(* an answer that aged on its way into the cache counts from then on.      *)
GitlabAccessIsFresh ==
  [][/\ \A d \in ProjectDeveloper : Cached(d)' => hour' <= wasMember'[d] + CacheHours
     /\ \A r \in ProjectRequest :
          ~RequestKind(r, "admitted") /\ RequestKind(r, "admitted")' =>
             hour' <= wasMember'[request'[r].by] + CacheHours]_projectVars

(* Once the requests that release are over, the visualisation does not run *)
(* another commit than the one released last, unless the last of them      *)
(* failed between the tag and the stop: then what ran goes on, until it    *)
(* ends or a later release stops it.                                       *)
ReleaseReachesUsers ==
  (\A r \in ProjectRequest : ~RequestKind(r, "release")) =>
    abandoned \/ instance \in {"none", "starting", released}

(* A dataset is given to the visualisation, or taken from it, only by a    *)
(* request that began when its developer had access to that dataset: a     *)
(* developer never makes a change he could not undo.                       *)
OnlySelectableChanges ==
  [][\A s \in Source : (s \in readable) # (s \in readable') =>
       \E r \in ProjectRequest : RequestKind(r, "datasets") /\ s \in request[r].selectable
    ]_projectVars

(***************************************************************************)
(* The strengthening.  A developer of the project was one this very hour,  *)
(* a cached membership was true an hour before it was cached at most, a    *)
(* running instance of another commit is about to be stopped by a release  *)
(* or was abandoned by one, and what is left to give or to take is among   *)
(* what the developer could select.                                        *)
(***************************************************************************)
ProjectRequestRow ==
       {Idle0} \cup [kind : {"create", "shown", "error"}, project : Project, attempt : 0..MaxAttempts]
  \cup [kind : {"asking", "answered", "admitted"}, by : ProjectDeveloper, at : 0..MaxHour]
  \cup [kind : {"release"}, commit : VisCommit, step : {1, 2}]
  \cup [kind : {"give", "remove"}, user : Viewer]
  \cup [kind : {"datasets"}, selectable : SUBSET Source, chosen : SUBSET Source,
        give : SUBSET Source, remove : SUBSET Source]
ProjectTypes ==
  /\ hour \in 0..MaxHour /\ member \subseteq ProjectDeveloper
  /\ wasMember \in [ProjectDeveloper -> 0..MaxHour]
  /\ cachedAt \in [ProjectDeveloper -> 0..Never]
  /\ held \in [ProjectDeveloper -> SUBSET Source]
  /\ request \in [ProjectRequest -> ProjectRequestRow]
  /\ abandoned \in BOOLEAN
CacheHolds ==
  \A d \in ProjectDeveloper :
    /\ wasMember[d] <= hour /\ (d \in member => wasMember[d] = hour)
    /\ cachedAt[d] # Never => cachedAt[d] <= hour /\ cachedAt[d] <= wasMember[d] + 1
AnswersHold ==
  \A r \in ProjectRequest : RequestKind(r, "answered") =>
    request[r].at <= wasMember[request[r].by] /\ hour <= request[r].at + 1
StopIsDue == \E r \in ProjectRequest : RequestKind(r, "release") /\ request[r].step = 2
DatasetsHold ==
  \A r \in ProjectRequest : RequestKind(r, "datasets") =>
    /\ request[r].give \subseteq request[r].selectable
    /\ request[r].remove \subseteq request[r].selectable
ProjectInv ==
  /\ ProjectTypes /\ ProjectTypeOK /\ CacheHolds /\ AnswersHold /\ DatasetsHold
  /\ instance \in {"none", "starting", released} \/ StopIsDue \/ abandoned

\* What the pages of a GitLab project promise: one template, developers of the last
\* hours only, releases that reach the users unless they fail half-way, and changes of
\* datasets within what the developer may use (_application_template, gitlab_has_developer_access,
\* visualisation_datasets_html_POST).
ProjectPromise ==
  /\ [](ProjectTypeOK /\ ReleaseReachesUsers)
  /\ TemplateStays
  /\ GitlabAccessIsFresh
  /\ OnlySelectableChanges
=============================================================================

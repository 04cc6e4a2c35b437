------------------------------ MODULE ProxyApp ------------------------------
(***************************************************************************)
(* The proxy in front of applications, composed with AppLifecycle.  A      *)
(* browser tab loads a page of an application's host; the proxy turns this *)
(* into a sequence of calls of the API, each of which is a request of      *)
(* AppLifecycle, and the tab ends with a page: the application, the        *)
(* "spawning" page or an error.  The script of the spawning page polls the *)
(* same address, with a header that asks the proxy not to create or delete *)
(* the application, and reloads once the answer is not "still spawning".   *)
(*                                                                         *)
(* The proxy keeps nothing between two requests of the browser, except     *)
(* that it may still have to PATCH an application that has answered.       *)
(***************************************************************************)
EXTENDS AppLifecycle

CONSTANTS
    Browser,      \* browser tabs; each has at most one request in flight
    Background,   \* PATCH requests in flight: asyncio.ensure_future
    Page,         \* requests of the tools page, which stop applications
    MaxPatches    \* bound on the PATCHes that have not been sent yet

ASSUME ProxyAssumption ==
    /\ Request = Browser \cup Background \cup Page
    /\ Browser \cap Background = {}
    /\ (Browser \cup Background) \cap Page = {}
    /\ Op = Method
    /\ MaxPatches \in Nat

VARIABLES
    tab,      \* the tab, and the proxy's handling of its request
    patches   \* per host, PATCHes whose task has not run yet

proxyVars == <<tab, patches>>
allVars == <<vars, proxyVars>>

\* mode is "poll" for a request with the no-modify header; page is what the
\* tab shows; polled is the answer the last poll got; saw is the instance
\* that the last answer of the API was about.
TabAt(pc, mode, h, page, polled, saw) ==
    [pc |-> pc, mode |-> mode, host |-> h, page |-> page, polled |-> polled,
     saw |-> saw]

ClosedTab == TabAt("idle", "load", None, "none", "none", None)

ProxyInit ==
    /\ Init
    /\ tab = [b \in Browser |-> ClosedTab]
    /\ patches = [h \in Host |-> 0]

\* The proxy goes on with the request of tab b, about instance i.
TabGoto(b, pc, i) ==
    tab' = [tab EXCEPT ![b] = TabAt(pc, tab[b].mode, tab[b].host, tab[b].page,
                                    tab[b].polled, i)]

\* The answer reaches the browser.  A load shows it; a poll that is not told
\* to wait (status 202) reloads the page.
Answer(b, page) ==
    tab' = [tab EXCEPT ![b] =
              TabAt("idle", tab[b].mode, tab[b].host,
                    CASE tab[b].mode = "load" -> page
                      [] tab[b].mode = "poll" /\ page = "spawning" -> "spawning"
                      [] tab[b].mode = "poll" /\ page # "spawning" -> "reload",
                    IF tab[b].mode = "poll" THEN page ELSE "none",
                    None)]

(***************************************************************************)
(* The browser.                                                            *)
(***************************************************************************)
\* A user opens or refreshes a page, or the script of the spawning page
\* reloads it; handle_application starts with a GET of the API.
Load(b, h) ==
    /\ tab[b].pc = "idle"
    /\ tab[b].page = "reload" => tab[b].host = h
    /\ Get(b, h)
    /\ tab' = [tab EXCEPT ![b] =
                 TabAt("get", "load", h, tab[b].page,
                       IF tab[b].page = "reload" THEN tab[b].polled ELSE "none",
                       None)]
    /\ UNCHANGED patches

Poll(b) ==
    /\ tab[b].pc = "idle"
    /\ tab[b].page = "spawning"
    /\ Get(b, tab[b].host)
    /\ tab' = [tab EXCEPT ![b] =
                 TabAt("get", "poll", tab[b].host, "spawning", "none", None)]
    /\ UNCHANGED patches

(***************************************************************************)
(* handle_application.                                                     *)
(***************************************************************************)
Answered(b, pc) == tab[b].pc = pc /\ req[b].pc = "done"


IsUp(b) == req[b].status = 200 /\ req[b].api \in VisibleStates

\* Where a request goes once the API says that the application is starting or
\* running: handle_application_http_spawning, ..._running_wrapped and
\* ..._running_direct.
Route(b) ==
    \E pc \in {"spawning_page", "connect_spawning", "connect_running", "running_page"} :
        /\ pc = "spawning_page" <=> ~ req[b].url
        /\ pc = "connect_spawning" <=> req[b].url /\ req[b].api = "SPAWNING"
        /\ TabGoto(b, pc, req[b].inst)

\* Mutant: the no-modify header is not looked at before the DELETE.
GotGetAlwaysDeletes(b) ==
    /\ Answered(b, "get")
    /\ Return(b)
    /\ \/ IsUp(b) /\ Route(b)
       \/ /\ req[b].status = 200 /\ ~ IsUp(b)
          /\ TabGoto(b, "delete_call", req[b].inst)
       \/ /\ req[b].status = 404
          /\ tab[b].mode = "load"
          /\ TabGoto(b, "put_call", None)
       \/ /\ \/ req[b].status \notin {200, 404}
             \/ req[b].status = 404 /\ tab[b].mode = "poll"
          /\ Answer(b, "error")
    /\ UNCHANGED patches

\* Mutant: a STOPPED application is reported, and not DELETEd.
GotGetNeverDeletes(b) ==
    /\ Answered(b, "get")
    /\ Return(b)
    /\ \/ IsUp(b) /\ Route(b)
       \/ /\ req[b].status = 404
          /\ tab[b].mode = "load"
          /\ TabGoto(b, "put_call", None)
       \/ /\ ~ IsUp(b)
          /\ req[b].status # 404 \/ tab[b].mode = "poll"
          /\ Answer(b, "error")
    /\ UNCHANGED patches

GotGet(b) ==
    /\ Answered(b, "get")
    /\ Return(b)
    /\ \/ IsUp(b) /\ Route(b)
       \/ /\ req[b].status = 200 /\ ~ IsUp(b)
          /\ tab[b].mode = "load"
          /\ TabGoto(b, "delete_call", req[b].inst)
       \/ /\ req[b].status = 404
          /\ tab[b].mode = "load"
          /\ TabGoto(b, "put_call", None)
       \/ /\ \/ req[b].status \notin {200, 404}
             \/ ~ IsUp(b) /\ tab[b].mode = "poll"
          /\ Answer(b, "error")
    /\ UNCHANGED patches

CallDelete(b) ==
    /\ tab[b].pc = "delete_call"
    /\ Delete(b, tab[b].host)
    /\ TabGoto(b, "delete", tab[b].saw)
    /\ UNCHANGED patches

GotDelete(b) ==
    /\ Answered(b, "delete")
    /\ Return(b)
    /\ Answer(b, "error")
    /\ UNCHANGED patches

CallPut(b) ==
    /\ tab[b].pc = "put_call"
    /\ Put(b, tab[b].host)
    /\ TabGoto(b, "put", None)
    /\ UNCHANGED patches

GotPut(b) ==
    /\ Answered(b, "put")
    /\ Return(b)
    /\ \/ IsUp(b) /\ Route(b)
       \/ ~ IsUp(b) /\ Answer(b, "error")
    /\ UNCHANGED patches

\* Django renders both pages from a query of its own, and shows an error if
\* it finds no row, or several.
SpawningPage(b) ==
    /\ tab[b].pc = "spawning_page"
    /\ Answer(b, IF \E i \in Instance : Visible(tab[b].host) = {i}
                 THEN "spawning" ELSE "error")
    /\ UNCHANGED <<vars, patches>>

RunningPage(b) ==
    /\ tab[b].pc = "running_page"
    /\ Answer(b, IF \E i \in Instance : Visible(tab[b].host) = {i}
                 THEN "app" ELSE "error")
    /\ UNCHANGED <<vars, patches>>

\* Only a live task can answer at the address of an instance.
Connects(b) == ecs[tab[b].saw] = "live"

\* The application answered while SPAWNING: a task of its own sets it RUNNING.
ConnectSpawning(b) ==
    LET h == tab[b].host IN
    /\ tab[b].pc = "connect_spawning"
    /\ Connects(b)
    /\ patches[h] < MaxPatches
    /\ patches' = [patches EXCEPT ![h] = @ + 1]
    /\ Answer(b, "app")
    /\ UNCHANGED vars

\* Errors connecting to a SPAWNING application are swallowed.
ConnectSpawningFails(b) ==
    /\ tab[b].pc = "connect_spawning"
    /\ TabGoto(b, "spawning_page", tab[b].saw)
    /\ UNCHANGED <<vars, patches>>

ConnectRunning(b) ==
    /\ tab[b].pc = "connect_running"
    /\ \/ Connects(b) /\ Answer(b, "app")
       \/ Answer(b, "error")
    /\ UNCHANGED <<vars, patches>>

SendPatch(g, h) ==
    /\ patches[h] > 0
    /\ Patch(g, h)
    /\ patches' = [patches EXCEPT ![h] = @ - 1]
    /\ UNCHANGED tab

(***************************************************************************)
(* The specification.                                                      *)
(***************************************************************************)
ProxyStep(b) ==
    \/ GotGet(b) \/ CallDelete(b) \/ GotDelete(b) \/ CallPut(b) \/ GotPut(b)
    \/ SpawningPage(b) \/ RunningPage(b) \/ ConnectSpawning(b)
    \/ ConnectSpawningFails(b) \/ ConnectRunning(b)

Stopper(r) == (\E h \in Host : Stop(r, h)) \/ Return(r)

ProxyNext ==
    \/ \E b \in Browser : (\E h \in Host : Load(b, h)) \/ Poll(b) \/ ProxyStep(b)
    \/ \E g \in Background, h \in Host : SendPatch(g, h)
    \/ \E g \in Background : Return(g) /\ UNCHANGED proxyVars
    \/ \E r \in Page : Stopper(r) /\ UNCHANGED proxyVars
    \/ SystemNext /\ UNCHANGED proxyVars

\* The proxy finishes the requests it accepted, and a user who is not shown
\* the application refreshes the page until he is.
ProxyFairness ==
    /\ Fairness
    /\ \A b \in Browser :
          /\ WF_allVars(ProxyStep(b))
          /\ WF_allVars(Poll(b))
          /\ WF_allVars(\E h \in Host : Load(b, h))

ProxySpec == ProxyInit /\ [][ProxyNext]_allVars /\ ProxyFairness

(***************************************************************************)
(* Properties.                                                             *)
(***************************************************************************)
TabType ==
    [pc : {"idle", "get", "delete_call", "delete", "put_call", "put",
           "spawning_page", "running_page", "connect_spawning", "connect_running"},
     mode : {"load", "poll"},
     host : Host \cup {None},
     page : {"none", "spawning", "app", "error", "reload"},
     polled : {"none", "spawning", "app", "error"},
     saw : Instance \cup {None}]

\* A tab that has been used knows its host.
TabInv ==
    /\ tab \in [Browser -> TabType]
    /\ \A b \in Browser :
          tab[b].pc # "idle" \/ tab[b].page # "none" => tab[b].host \in Host

\* The proxy waits for the API exactly when it has a request in flight there,
\* and knows which instance it routes a request to.
ProxyTypeOK ==
    /\ TypeOK
    /\ tab \in [Browser -> TabType]
    /\ patches \in [Host -> 0 .. MaxPatches]
    /\ \A b \in Browser :
          /\ tab[b].pc \in {"get", "delete", "put"} <=> req[b].pc # "idle"
          /\ tab[b].pc \in {"connect_spawning", "connect_running", "delete_call"}
                => tab[b].saw \in Instance

\* Which of its calls of the API a tab waits for.
TabCallInv ==
    \A b \in Browser :
        /\ tab[b].pc = "get" => req[b].op = "GET"
        /\ tab[b].pc = "delete" => req[b].op = "DELETE"
        /\ tab[b].pc = "put" => req[b].op = "PUT"

\* Everything the proofs need to know of the tabs, any number of them.
ProxyInv == LifecycleInv /\ CallInv /\ TabInv /\ ProxyTypeOK /\ TabCallInv

\* Nobody but a tab stops an application: no page does, no late PATCH can, and the
\* reaper has not found an instance that is old enough.
NobodyStops ==
    /\ \A p \in Page : req[p].pc = "idle"
    /\ \A g \in Background : req[g].pc # "idle" => req[g].op = "PATCH"
    /\ \A i \in Instance : reap[i] = "idle" /\ age[i] < TwoHours

\* What a poll has found, and what the next request will find: as long as the tab
\* has not called DELETE, the application it shows or polls has a visible row.
PollInv ==
    \A b \in Browser :
        LET visible == Visible(tab[b].host) # {}
            asks == tab[b].mode = "poll" \/ tab[b].polled = "error" IN
        /\ tab[b].pc = "idle" /\ tab[b].page \in {"spawning", "reload"} => visible
        /\ tab[b].pc # "idle" /\ tab[b].mode = "poll" =>
              visible /\ tab[b].pc \notin {"delete_call", "delete", "put_call", "put"}
        /\ tab[b].pc = "get" /\ asks =>
              visible /\ (req[b].pc = "done" => req[b].status # 404)
        /\ tab[b].pc \in {"put_call", "put"} => tab[b].polled # "error"

\* The application of row i has come to its end, or it was too slow to start; or ECS
\* and GitLab cannot be asked, which answers the same.
Over(i) ==
    \/ ecs[i] = "dead" \/ pipeline[i] = "failed"
    \/ age[i] >= SixtySeconds \/ built[i] >= SixtySeconds
    \/ "describe" \in Faults

\* A tab that sends a DELETE does so for an application that is over, and not for one
\* that starts or runs: what a GET saw then is still so when the DELETE is handled.
DeletesTheOver ==
    \A b \in Browser : tab[b].pc \in {"delete_call", "delete"} => Over(tab[b].saw)

\* The bound on instances is reached: a PUT waits for an id for ever.
OutOfIds ==
    /\ \A i \in Instance : state[i] # "ABSENT"
    /\ \E b \in Browser : req[b].pc = "create"

\* Every page load and every poll ends with a page, whatever fails behind.
EveryRequestIsAnswered ==
    \A b \in Browser : tab[b].pc # "idle" ~> tab[b].pc = "idle" \/ OutOfIds

\* What spawning.html wants of the no-modify header: once a poll has found an
\* error, the reload shows it and does not silently start the application
\* again.  (With a single tab: another tab's load may start it.)
ErrorShownOnReload ==
    \A b \in Browser :
        tab[b].pc \in {"put_call", "put"} => tab[b].polled # "error"

\* An application whose task is dead does not stay in the way: a refresh makes
\* the proxy DELETE it, unless the API cannot tell which of several visible
\* instances of the host is meant.
DeadAppMakesWay ==
    \A i \in Instance :
        /\ state[i] \in VisibleStates
        /\ ecs[i] = "dead"
        ~> \/ state[i] = "STOPPED"
           \/ \E h \in Host : Ambiguous(h)
           \/ OutOfIds

\* A visitor gets somewhere: each request is answered, and an application that failed
\* makes way for a new one (handle_application).
VisitorsAreServed ==
  /\ EveryRequestIsAnswered
  /\ DeadAppMakesWay
=============================================================================

----------------------------- MODULE MCProxyApp -----------------------------
(***************************************************************************)
(* The proxy on small instances, three in one run.  In the scope "tab" a   *)
(* tab opens an application and refreshes it, with two instances to be     *)
(* made; in the scope "stop" the tools page may stop the application too,  *)
(* of which there is one instance; and in the scope "websocket" the proxy  *)
(* relays a websocket of an application, which shares no variable with the *)
(* other two.                                                              *)
(***************************************************************************)
EXTENDS ProxyApp, WebsocketRelay

VARIABLE scope

mcVars == <<allVars, relayVars, scope>>

InScope(s) == scope = s /\ UNCHANGED scope

MCInit == ProxyInit /\ RelayInit /\ scope \in {"tab", "stop", "websocket"}

NoPageStops == \A p \in Page : req'[p] = req[p]
OneInstance == \A i, j \in Instance : i # j => state'[i] = "ABSENT" \/ state'[j] = "ABSENT"

MCNext ==
    \/ InScope("tab") /\ ProxyNext /\ NoPageStops /\ UNCHANGED relayVars
    \/ InScope("stop") /\ ProxyNext /\ OneInstance /\ UNCHANGED relayVars
    \/ InScope("websocket") /\ RelayNext /\ UNCHANGED allVars

\* The fairness of the one in scope: no tab is open in the scope "websocket".
TabFairness ==
    /\ \A r \in Request : WF_vars(scope # "websocket" /\ RequestStep(r))
    /\ \A i \in Instance :
          /\ WF_vars(scope # "websocket" /\ ReapStep(i))
          /\ WF_vars(scope # "websocket" /\ SpawnStep(i))
          /\ WF_vars(scope # "websocket" /\ StopTask(i))
          /\ WF_vars(scope # "websocket" /\ AgeInstance(i))
    /\ \A b \in Browser :
          /\ WF_allVars(scope # "websocket" /\ ProxyStep(b))
          /\ WF_allVars(scope # "websocket" /\ Poll(b))
          /\ WF_allVars(scope # "websocket" /\ \E h \in Host : Load(b, h))

WebsocketFairness ==
    /\ WF_relayVars(scope = "websocket" /\ RelayStep)
    /\ WF_relayVars(scope = "websocket" /\ HandlerStep)

MCSpec == MCInit /\ [][MCNext]_mcVars /\ TabFairness /\ WebsocketFairness

\* What spawning.html wants of the no-modify header, where nobody stops the
\* application by hand: see ErrorShownOnReload.
TabShowsError == scope = "tab" => ErrorShownOnReload

\* The proxy deletes by host what it saw by id: where the tab alone stops and starts
\* applications, the row that the DELETE stops is the one that its GET saw.  (Another
\* tab may have replaced that row in the meantime: then the DELETE stops the successor.)
DeletesWhatItSaw ==
    scope = "tab" => \A b \in Browser :
        tab[b].pc = "delete" /\ req[b].pc = "save" => req[b].inst = tab[b].saw


\* Every tab is in a state that the proxy made, and an error found by a poll is shown
\* by the reload (handle_application, spawning.html).
TabSafety ==
  /\ ProxyTypeOK
  /\ TabShowsError
=============================================================================

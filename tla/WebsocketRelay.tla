---------------------------- MODULE WebsocketRelay ----------------------------
(***************************************************************************)
(* One websocket of an application in the proxy: handle_websocket.         *)
(*                                                                         *)
(* The handler of the client's request and a task of its own for the       *)
(* application each read one connection and write to the other's.  They    *)
(* learn of each other's connection through two futures.  Either peer may  *)
(* close, or be lost with what it had not yet delivered, at any time.      *)
(***************************************************************************)
EXTENDS Naturals, Sequences

CONSTANT MaxMessages    \* bound: messages either peer sends

ASSUME RelayAssumption == MaxMessages \in Nat

Peer == {"client", "app"}
Other(p) == IF p = "client" THEN "app" ELSE "client"

VARIABLES
    handler,            \* where the request's handler is
    relay,              \* where the task upstream() is
    upstreamKnown,      \* upstream_connection
    downstreamKnown,    \* downstream_connection has its result
    cancelled,          \* upstream_task.cancel() was called
    wire,               \* the proxy's own end of each peer's connection
    said,               \* messages each peer has sent
    toProxy,            \* sent and not yet read by the proxy; 0 ends the stream
    heard,              \* messages each peer got
    peerIs              \* whether each peer still speaks

relayVars == <<handler, relay, upstreamKnown, downstreamKnown, cancelled,
               wire, said, toProxy, heard, peerIs>>

RelayInit ==
    /\ handler = "waiting"
    /\ relay = "connecting"
    /\ upstreamKnown = "pending"
    /\ downstreamKnown = FALSE
    /\ cancelled = FALSE
    /\ wire = [p \in Peer |-> "none"]
    /\ said = [p \in Peer |-> 0]
    /\ toProxy = [p \in Peer |-> << >>]
    /\ heard = [p \in Peer |-> << >>]
    /\ peerIs = [p \in Peer |-> "open"]
-------------------------------------------------------------------------------
(***************************************************************************)
(* The peers.                                                              *)
(***************************************************************************)
PeerSays(p) ==
    /\ wire[p] = "open" /\ peerIs[p] = "open" /\ said[p] < MaxMessages
    /\ said' = [said EXCEPT ![p] = @ + 1]
    /\ toProxy' = [toProxy EXCEPT ![p] = Append(@, said[p] + 1)]
    /\ UNCHANGED <<handler, relay, upstreamKnown, downstreamKnown, cancelled,
                   wire, heard, peerIs>>

PeerCloses(p) ==
    /\ wire[p] = "open" /\ peerIs[p] = "open"
    /\ peerIs' = [peerIs EXCEPT ![p] = "closed"]
    /\ toProxy' = [toProxy EXCEPT ![p] = Append(@, 0)]
    /\ UNCHANGED <<handler, relay, upstreamKnown, downstreamKnown, cancelled,
                   wire, said, heard>>

\* The connection breaks, or the heartbeat misses its answer; the client may
\* be gone before its connection is prepared.
PeerIsLost(p) ==
    /\ peerIs[p] = "open" /\ (p = "client" \/ wire[p] = "open")
    /\ peerIs' = [peerIs EXCEPT ![p] = "lost"]
    /\ \E n \in 0 .. Len(toProxy[p]) :
           toProxy' = [toProxy EXCEPT ![p] = Append(SubSeq(@, 1, n), 0)]
    /\ UNCHANGED <<handler, relay, upstreamKnown, downstreamKnown, cancelled,
                   wire, said, heard>>
-------------------------------------------------------------------------------
(***************************************************************************)
(* upstream(): the task that speaks with the application.                  *)
(***************************************************************************)
Shut(ps) == wire' = [p \in Peer |-> IF p \in ps /\ wire[p] = "open"
                                    THEN "closed" ELSE wire[p]]

UpstreamConnects ==
    /\ relay = "connecting" /\ ~cancelled
    /\ relay' = "waiting"
    /\ upstreamKnown' = "set"
    /\ wire' = [wire EXCEPT !["app"] = "open"]
    /\ UNCHANGED <<handler, downstreamKnown, cancelled, said, toProxy, heard,
                   peerIs>>

\* The exception is handed to the handler; there is no downstream to close.
UpstreamFails ==
    /\ relay = "connecting" /\ ~cancelled
    /\ relay' = "over"
    /\ upstreamKnown' = "failed"
    /\ UNCHANGED <<handler, downstreamKnown, cancelled, wire, said, toProxy,
                   heard, peerIs>>

\* Mutant: the application is read before the client's connection is there.
UpstreamGoesOn ==
    /\ relay = "waiting" /\ ~cancelled
    /\ relay' = "reading"
    /\ UNCHANGED <<handler, upstreamKnown, downstreamKnown, cancelled, wire,
                   said, toProxy, heard, peerIs>>

\* downstream_ws = await downstream_connection
UpstreamWaits ==
    /\ relay = "waiting" /\ ~cancelled /\ downstreamKnown
    /\ relay' = "reading"
    /\ UNCHANGED <<handler, upstreamKnown, downstreamKnown, cancelled, wire,
                   said, toProxy, heard, peerIs>>

\* proxy_msg of the next message of p.
Proxied(p) ==
    /\ toProxy[p] # << >> /\ Head(toProxy[p]) # 0 /\ wire[Other(p)] = "open"
    /\ toProxy' = [toProxy EXCEPT ![p] = Tail(@)]
    /\ heard' = [heard EXCEPT ![Other(p)] = Append(@, Head(toProxy[p]))]

\* Nothing more of p is proxied: it has ended, or what it says cannot be written.
Ends(p) ==
    /\ toProxy[p] # << >>
    /\ Head(toProxy[p]) = 0 \/ wire[Other(p)] # "open"

UpstreamReads ==
    /\ relay = "reading" /\ ~cancelled
    /\ Proxied("app")
    /\ UNCHANGED <<handler, relay, upstreamKnown, downstreamKnown, cancelled,
                   wire, said, peerIs>>

\* Leaving ws_connect closes the application's connection, and the finally
\* clause the client's.
UpstreamEnds ==
    /\ relay = "reading" /\ ~cancelled
    /\ Ends("app")
    /\ relay' = "over"
    /\ Shut(Peer)
    /\ UNCHANGED <<handler, upstreamKnown, downstreamKnown, cancelled, said,
                   toProxy, heard, peerIs>>

\* CancelledError, wherever the task is.
UpstreamCancelled ==
    /\ relay # "over" /\ cancelled
    /\ relay' = "over"
    /\ Shut(Peer)
    /\ UNCHANGED <<handler, upstreamKnown, downstreamKnown, cancelled, said,
                   toProxy, heard, peerIs>>
-------------------------------------------------------------------------------
(***************************************************************************)
(* The handler of the client's request.  When it is over the web server    *)
(* closes what is left of the client's connection.                         *)
(***************************************************************************)

\* finally: upstream_task.cancel()
HandlerOver ==
    /\ handler' = "over"
    /\ cancelled' = TRUE
    /\ Shut({"client"})
    /\ UNCHANGED <<relay, upstreamKnown, downstreamKnown, said, toProxy, heard,
                   peerIs>>

HandlerAwaits ==
    /\ handler = "waiting" /\ upstreamKnown = "set"
    /\ handler' = "preparing"
    /\ UNCHANGED <<relay, upstreamKnown, downstreamKnown, cancelled, wire, said,
                   toProxy, heard, peerIs>>

HandlerRaises ==
    /\ \/ handler = "waiting" /\ upstreamKnown = "failed"
       \/ handler = "preparing" /\ peerIs["client"] = "lost"
    /\ HandlerOver

HandlerPrepares ==
    /\ handler = "preparing"
    /\ handler' = "reading"
    /\ downstreamKnown' = TRUE
    /\ wire' = [wire EXCEPT !["client"] = "open"]
    /\ UNCHANGED <<relay, upstreamKnown, cancelled, said, toProxy, heard,
                   peerIs>>

HandlerReads ==
    /\ handler = "reading" /\ wire["client"] = "open"
    /\ Proxied("client")
    /\ UNCHANGED <<handler, relay, upstreamKnown, downstreamKnown, cancelled,
                   wire, said, peerIs>>

HandlerEnds ==
    /\ handler = "reading"
    /\ wire["client"] = "closed" \/ Ends("client")
    /\ HandlerOver
-------------------------------------------------------------------------------
RelayStep ==
    \/ UpstreamConnects \/ UpstreamFails \/ UpstreamWaits \/ UpstreamReads
    \/ UpstreamEnds \/ UpstreamCancelled

HandlerStep ==
    \/ HandlerAwaits \/ HandlerRaises \/ HandlerPrepares \/ HandlerReads
    \/ HandlerEnds

RelayNext ==
    \/ RelayStep
    \/ HandlerStep
    \/ \E p \in Peer : PeerSays(p) \/ PeerCloses(p) \/ PeerIsLost(p)

\* The event loop runs both tasks.  Nothing is asked of the peers.
RelayFairness == WF_relayVars(RelayStep) /\ WF_relayVars(HandlerStep)

RelaySpec == RelayInit /\ [][RelayNext]_relayVars /\ RelayFairness
-------------------------------------------------------------------------------
\* Once both tasks are over nothing is left open on the side of the proxy,
\* whichever of them failed, ended or was cancelled first.
RelayTypeOK ==
    /\ handler \in {"waiting", "preparing", "reading", "over"}
    /\ relay \in {"connecting", "waiting", "reading", "over"}
    /\ upstreamKnown \in {"pending", "set", "failed"}
    /\ downstreamKnown \in BOOLEAN /\ cancelled \in BOOLEAN
    /\ wire \in [Peer -> {"none", "open", "closed"}]
    /\ said \in [Peer -> 0 .. MaxMessages]
    /\ toProxy \in [Peer -> Seq(0 .. MaxMessages)]
    /\ heard \in [Peer -> Seq(1 .. MaxMessages)]
    /\ peerIs \in [Peer -> {"open", "closed", "lost"}]
    /\ (handler = "over" /\ relay = "over") => \A p \in Peer : wire[p] # "open"

\* A peer that closes after its last message is heard to the end by the other,
\* unless that one closed or was lost itself: nothing said before the other's
\* connection was there is dropped, and the end of one direction cuts off only
\* the other direction.
LastWordsArrive ==
    \A p \in Peer :
        (/\ peerIs[p] = "closed" /\ peerIs[Other(p)] = "open"
         /\ handler = "over" /\ relay = "over")
        => heard[Other(p)] = [i \in 1 .. said[p] |-> i]

(***************************************************************************)
(* Everything the proofs need to know of a reachable state.                *)
(***************************************************************************)
\* What p has said is heard in order: what is still on its way follows what was heard,
\* up to the end of the stream.
HeardInOrder(p) ==
    LET n == Len(heard[Other(p)])
        left == Len(toProxy[p]) IN
    /\ \A i \in 1 .. n : heard[Other(p)][i] = i
    /\ \A i \in 1 .. left :
           toProxy[p][i] = IF i = left /\ peerIs[p] # "open" THEN 0 ELSE n + i
    /\ peerIs[p] = "open" => n + left = said[p]
    /\ peerIs[p] # "open" => left > 0
    /\ peerIs[p] = "closed" => n + left = said[p] + 1 /\ wire[p] # "none"
    /\ peerIs[p] = "lost" => n + left <= said[p] + 1

\* p has been heard to the end of its stream.
HeardOut(p) == peerIs[p] # "open" /\ Len(toProxy[p]) = 1

\* What each coroutine knows of the other's connection.
ConnectionInv ==
    /\ cancelled <=> handler = "over"
    /\ relay = "connecting" => upstreamKnown = "pending" /\ wire["app"] = "none"
    /\ upstreamKnown = "set" => wire["app"] # "none"
    /\ upstreamKnown = "failed" => relay = "over" /\ wire["app"] = "none"
    /\ handler \in {"preparing", "reading"} => upstreamKnown = "set"
    /\ wire["client"] # "none" => upstreamKnown = "set"
    /\ relay = "reading" => downstreamKnown
    /\ downstreamKnown => wire["client"] # "none"
    /\ wire["app"] = "closed" => relay = "over"
    /\ wire["client"] = "closed" => relay = "over" \/ handler = "over"
    /\ relay = "over" => wire["app"] # "open"
    /\ handler = "over" => wire["client"] # "open"

\* Why the first of the two was over.
CauseInv ==
    handler = "over" \/ relay = "over" =>
        \/ upstreamKnown = "failed"
        \/ peerIs["client"] = "lost"
        \/ \E p \in Peer : HeardOut(p)

RelayInv ==
    /\ RelayTypeOK
    /\ \A p \in Peer : HeardInOrder(p)
    /\ ConnectionInv
    /\ CauseInv

\* When either peer is gone the proxy gives up both connections: a socket is
\* not kept for an application nobody looks at, nor a page kept waiting for an
\* application that has stopped.
RelayEnds ==
    (\E p \in Peer : peerIs[p] # "open") ~> (handler = "over" /\ relay = "over")

\* What a websocket of an application promises: the last words of either peer are heard
\* by the other, and both connections are given up when either is gone
\* (handle_websocket).
RelayPromise ==
  /\ [](RelayTypeOK /\ LastWordsArrive)
  /\ RelayEnds
===============================================================================

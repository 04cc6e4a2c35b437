------------------------------ MODULE HostSlot ------------------------------
(***************************************************************************)
(* What single_running_or_spawning_integrity promises of a public host: it *)
(* is a slot that at most one instance holds at a time, that an instance   *)
(* takes when it is created, and that it never takes again once it gave it *)
(* up.                                                                     *)
(***************************************************************************)
CONSTANTS Host, Instance

VARIABLES
    held,   \* the pairs <<h, i>> such that instance i holds the slot of host h
    used    \* the instances that have been created

Init == held = {} /\ used = {}

Acquire(h, i) ==
    /\ i \notin used
    /\ \A j \in Instance : <<h, j>> \notin held
    /\ held' = held \cup {<<h, i>>}
    /\ used' = used \cup {i}

Release(h, i) ==
    /\ <<h, i>> \in held
    /\ held' = held \ {<<h, i>>}
    /\ UNCHANGED used

Next == \E h \in Host, i \in Instance : Acquire(h, i) \/ Release(h, i)

Spec == Init /\ [][Next]_<<held, used>>
=============================================================================

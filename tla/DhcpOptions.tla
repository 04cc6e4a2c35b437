------------------------------ MODULE DhcpOptions ------------------------------
(***************************************************************************)
(* The start of a name server of the notebooks' network: entrypoint.sh,    *)
(* set-dhcp.py and the start of nameserver.py.                             *)
(*                                                                         *)
(* Each start makes a set of DHCP options that names itself, points the    *)
(* VPC at it and deletes the set the VPC had when it began.  A container   *)
(* that fails is started again, and a deployment runs the old and the new  *)
(* one at the same time.                                                   *)
(***************************************************************************)
EXTENDS Naturals, FiniteSets

CONSTANTS
    Container,          \* containers of the name server's service
    MaxStarts           \* bound: starts of a container

ASSUME DhcpAssumption == IsFiniteSet(Container) /\ MaxStarts \in Nat

VARIABLES
    associated,         \* the set of DHCP options the VPC uses
    optionSets,         \* the sets that exist
    nextSet,            \* the identifier AWS gives next
    starting,           \* where the start script of each container is
    existing,           \* existing_dhcp_options_id of each script
    created,            \* new_dhcp_options_id of each script
    starts,             \* containers started
    troubled            \* whether a request failed of itself, or two scripts overlapped

dhcpVars == <<associated, optionSets, nextSet, starting, existing, created,
              starts, troubled>>

DhcpInit ==
    /\ associated = 0
    /\ optionSets = {0}
    /\ nextSet = 1
    /\ starting = [c \in Container |-> "down"]
    /\ existing = [c \in Container |-> 0]
    /\ created = [c \in Container |-> 0]
    /\ starts = 0
    /\ troubled = FALSE

Place == {"down", "finding", "creating", "tagging", "associating", "deleting", "serving"}
InScript(c) == starting[c] \notin {"down", "serving"}
Moves(c, there) == starting' = [starting EXCEPT ![c] = there]
-------------------------------------------------------------------------------
ContainerStarts(c) ==
    /\ starting[c] = "down" /\ starts < MaxStarts
    /\ Moves(c, "finding")
    /\ starts' = starts + 1
    /\ troubled' = (troubled \/ \E d \in Container : InScript(d))
    /\ UNCHANGED <<associated, optionSets, nextSet, existing, created>>

FindExisting(c) ==
    /\ starting[c] = "finding"
    /\ existing' = [existing EXCEPT ![c] = associated]
    /\ Moves(c, "creating")
    /\ UNCHANGED <<associated, optionSets, nextSet, created, starts, troubled>>

CreateOptions(c) ==
    /\ starting[c] = "creating"
    /\ created' = [created EXCEPT ![c] = nextSet]
    /\ optionSets' = optionSets \cup {nextSet}
    /\ nextSet' = nextSet + 1
    /\ Moves(c, "tagging")
    /\ UNCHANGED <<associated, existing, starts, troubled>>

TagOptions(c) ==
    /\ starting[c] = "tagging"
    /\ Moves(c, "associating")
    /\ UNCHANGED <<associated, optionSets, nextSet, existing, created, starts,
                   troubled>>

\* Mutant: the new set is taken for the existing one.
AssociateExisting(c) ==
    /\ starting[c] = "associating"
    /\ associated' = existing[c]
    /\ Moves(c, "deleting")
    /\ UNCHANGED <<optionSets, nextSet, existing, created, starts, troubled>>

AssociateOptions(c) ==
    /\ starting[c] = "associating"
    /\ associated' = created[c]
    /\ Moves(c, "deleting")
    /\ UNCHANGED <<optionSets, nextSet, existing, created, starts, troubled>>

\* AWS deletes a set that exists and that no VPC uses.
MayDelete(o) == o \in optionSets /\ o # associated

DeleteExisting(c) ==
    /\ starting[c] = "deleting" /\ MayDelete(existing[c])
    /\ optionSets' = optionSets \ {existing[c]}
    /\ Moves(c, "serving")
    /\ UNCHANGED <<associated, nextSet, existing, created, starts, troubled>>

\* The request is refused: ec2_request raises and the container ends.
DeleteRefused(c) ==
    /\ starting[c] = "deleting" /\ ~MayDelete(existing[c])
    /\ Moves(c, "down")
    /\ UNCHANGED <<associated, optionSets, nextSet, existing, created, starts,
                   troubled>>

\* Any request fails, or the container is stopped in the middle of its script.
ScriptFails(c) ==
    /\ InScript(c)
    /\ Moves(c, "down")
    /\ troubled' = TRUE
    /\ UNCHANGED <<associated, optionSets, nextSet, existing, created, starts>>

\* SIGTERM, or an exception, ends the server.
ServerStops(c) ==
    /\ starting[c] = "serving"
    /\ Moves(c, "down")
    /\ UNCHANGED <<associated, optionSets, nextSet, existing, created, starts,
                   troubled>>

DhcpNext ==
    \E c \in Container :
        \/ ContainerStarts(c) \/ FindExisting(c) \/ CreateOptions(c)
        \/ TagOptions(c) \/ AssociateOptions(c) \/ DeleteExisting(c)
        \/ DeleteRefused(c) \/ ScriptFails(c) \/ ServerStops(c)

DhcpSpec == DhcpInit /\ [][DhcpNext]_dhcpVars
-------------------------------------------------------------------------------
\* The VPC never names a set that is gone, however the starts interleave; a
\* container only serves after its own set has replaced another, which is gone.
DhcpTypeOK ==
    /\ associated \in optionSets
    /\ optionSets \subseteq 0 .. MaxStarts
    /\ nextSet \in 1 .. MaxStarts + 1
    /\ starting \in [Container -> Place]
    /\ existing \in [Container -> 0 .. MaxStarts]
    /\ created \in [Container -> 0 .. MaxStarts]
    /\ \A c \in Container : starting[c] = "serving" => existing[c] \notin optionSets
    /\ starts \in 0 .. MaxStarts
    /\ troubled \in BOOLEAN

\* Starts that neither fail nor overlap leave one set behind them, the one of
\* the last of them: restarts do not use up the account's sets of DHCP options.
\* A failure or an overlap may leave a set that no later start deletes.
OneSetIsLeft ==
    (~troubled /\ \A c \in Container : ~InScript(c)) => optionSets = {associated}

(***************************************************************************)
(* Why they hold: what the script of each container knows.                 *)
(***************************************************************************)
\* The containers whose scripts have yet to make their set.
Makers == {c \in Container : starting[c] \in {"finding", "creating"}}

\* Each set was made by another start.
StartsInv ==
    /\ \A o \in optionSets : o < nextSet
    /\ \A c \in Container : existing[c] < nextSet /\ created[c] < nextSet
    /\ nextSet + Cardinality(Makers) <= starts + 1

\* A set that was made and not yet associated is there, is its script's alone and
\* is nobody's existing set.
Unused(c) == starting[c] \in {"tagging", "associating"}
UnusedSetInv ==
    \A c \in Container : Unused(c) =>
       /\ created[c] \in optionSets \ {associated}
       /\ \A d \in Container : /\ existing[d] # created[c]
                               /\ Unused(d) /\ d # c => created[d] # created[c]

\* Without troubles there is one script at most, and what it has done is all there is.
ScriptAlone(c) ==
    CASE starting[c] = "finding" -> optionSets = {associated}
      [] starting[c] = "creating" -> optionSets = {associated} /\ existing[c] = associated
      [] Unused(c) -> optionSets = {associated, created[c]} /\ existing[c] = associated
      [] starting[c] = "deleting" -> optionSets = {associated, existing[c]} /\ existing[c] # associated
      [] OTHER -> TRUE
UntroubledInv ==
    ~troubled => /\ \A c, d \in Container : InScript(c) /\ InScript(d) => c = d
                 /\ \A c \in Container : ScriptAlone(c)
                 /\ OneSetIsLeft

DhcpInv ==
    /\ DhcpTypeOK
    /\ StartsInv
    /\ UnusedSetInv
    /\ UntroubledInv

\* A name server that starts leaves the network with one set of DHCP options, its own,
\* and serves only with its options in place (set-dhcp.py, entrypoint.sh).
DhcpSafety ==
  /\ DhcpTypeOK
  /\ OneSetIsLeft
===============================================================================

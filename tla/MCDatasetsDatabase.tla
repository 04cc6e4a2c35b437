------------------------- MODULE MCDatasetsDatabase -------------------------
(***************************************************************************)
(* The components that work on the datasets database, in one run.  They    *)
(* share no variable: scope says which one a behaviour is about, and the   *)
(* others stay as they were at first.                                      *)
(***************************************************************************)
EXTENDS DbUsers, ExplorerQuery, StreamingQuery, DbCredentials

VARIABLE scope

mcVars == <<scope, vars, explorerVars, streamVars, credsVars>>

AllInit ==
    /\ Init /\ ExplorerInit /\ StreamInit /\ CredsInit
    /\ scope \in {"one user", "all users"} \/ \A u \in User : access[u] = {}

InScope(s) == scope = s /\ UNCHANGED scope

MCInit ==
    /\ scope \in {"users", "explorer", "streaming", "one user", "all users"}
    /\ AllInit

\* Queries and tabs are interchangeable: they are used in the order of their numbers.
InOrder ==
    /\ \A p, q \in Query : p < q /\ state[p] = "ABSENT" => state'[q] = "ABSENT"
    /\ \A s, t \in Tab : s < t /\ tab[s].pc = "blank" => tab'[t].pc = "blank"

\* The cache is cleared for one user while two requests fill it, or for all users
\* while one does.
From(page) == admin'.page \in {page, Absent}
OneRequest == \A p, q \in Process : p = q \/ proc'[p].pc = "idle" \/ proc'[q].pc = "idle"

MCNext ==
    \/ InScope("users") /\ Next /\ UNCHANGED <<explorerVars, streamVars, credsVars>>
    \/ InScope("explorer") /\ ExplorerNext /\ InOrder /\ UNCHANGED <<vars, streamVars, credsVars>>
    \/ InScope("streaming") /\ StreamNext /\ UNCHANGED <<vars, explorerVars, credsVars>>
    \/ InScope("one user") /\ CredsNext /\ From("user")
          /\ UNCHANGED <<vars, explorerVars, streamVars>>
    \/ InScope("all users") /\ CredsNext /\ From("access_type") /\ OneRequest
          /\ UNCHANGED <<vars, explorerVars, streamVars>>

CredsScope == scope \in {"one user", "all users"}

\* The fairness of each component, where it is the one in scope.
MCFairness ==
    /\ WF_vars(scope = "users" /\ CleanerStep)
    /\ WF_vars(scope = "users" /\ LockExpires)
    /\ \A s \in Spawn : WF_vars(scope = "users" /\ SpawnStep(s))
    /\ \A q \in Query : /\ WF_explorerVars(scope = "explorer" /\ TaskStep(q))
                        /\ WF_explorerVars(scope = "explorer" /\ Age(q))
    /\ \A t \in Tab : WF_explorerVars(scope = "explorer" /\ PageStep(t))
    /\ WF_explorerVars(scope = "explorer" /\ NightlyStep)
    /\ WF_streamVars(scope = "streaming" /\ Produce)
    /\ WF_streamVars(scope = "streaming" /\ Get)
    /\ WF_streamVars(scope = "streaming" /\ IdleTimeout)
    /\ WF_streamVars(scope = "streaming" /\ (ClientReads \/ ClientLeaves))
    /\ WF_credsVars(CredsScope /\ AdminStep)
    /\ \A p \in Process : WF_credsVars(CredsScope /\ ProcessStep(p))
    /\ \A u \in User :
          SF_credsVars(/\ CredsScope
                       /\ \E p \in Process, svc \in Service \cap {"explorer"} : Start(p, u, svc))
    /\ \A c \in CachedCreds, v \in Versions, u \in User :
          WF_credsVars(CredsScope /\ ExpireEntry(c, v, u))

MCSpec == MCInit /\ [][MCNext]_mcVars /\ MCFairness
=============================================================================

-------------------------- MODULE MCAccounts --------------------------
(***************************************************************************)
(* The components around accounts and tools, in one run: they share no     *)
(* variable, scope says which of them a behaviour is about, and the others *)
(* stay as they are at first.                                              *)
(***************************************************************************)
EXTENDS ProxyLogin, SsoUsers, DbCredentials, ToolQueryLogs, QueryEditor,
        DataApi, MirrorsSync, DhcpOptions

VARIABLE scope

mcVars == <<scope, loginVars, ssoVars, credsVars, toolLogVars, editorVars,
            apiVars, mirrorVars, dhcpVars>>

MCBrowserOf == [t \in Tab |-> IF t = "t3" THEN "b2" ELSE "b1"]

MCEmailsOf == [p \in Person |-> <<"a1", "a2">>]

MCDeployments == {{"conda", "nltk"}, {"cran"}, {"pypi"}, {"debian"}}

\* The requests of users are for one service: their caches are apart.
Serves(svc) == \A p \in Process : proc'[p].svc \in {Absent, svc}

MCInit ==
    /\ scope \in {"sign in", "users", "explorer", "superset", "logs", "texts",
                  "tables", "lists", "hawk", "mirrors", "dhcp"}
    /\ LoginInit /\ SsoInit /\ CredsInit /\ ToolLogInit /\ EditorInit /\ ApiInit /\
       MirrorInit /\ DhcpInit
    /\ scope \in {"explorer", "superset"} \/ \A u \in User : access[u] = {}

InScope(s) == scope = s /\ UNCHANGED scope

\* What is not in scope stays as it is.
Rest ==
    /\ IF scope = "sign in" THEN TRUE ELSE UNCHANGED loginVars
    /\ IF scope = "users" THEN TRUE ELSE UNCHANGED ssoVars
    /\ IF scope \in {"explorer", "superset"} THEN TRUE ELSE UNCHANGED credsVars
    /\ IF scope = "logs" THEN TRUE ELSE UNCHANGED toolLogVars
    /\ IF scope \in {"texts", "tables"} THEN TRUE ELSE UNCHANGED editorVars
    /\ IF scope \in {"lists", "hawk"} THEN TRUE ELSE UNCHANGED apiVars
    /\ IF scope = "mirrors" THEN TRUE ELSE UNCHANGED mirrorVars
    /\ IF scope = "dhcp" THEN TRUE ELSE UNCHANGED dhcpVars

MCNext ==
    \/ InScope("sign in") /\ LoginNext /\ Rest
    \/ InScope("users") /\ SsoNext /\ Rest
    \/ InScope("explorer") /\ CredsNext /\ Serves("explorer") /\ Rest
    \/ InScope("superset") /\ CredsNext /\ Serves("superset") /\ Rest
    \/ InScope("logs") /\ ToolLogNext /\ Rest
    \/ InScope("texts") /\ (\E t \in EditorTab : EditorTexts(t)) /\ Rest
    \/ InScope("tables") /\ EditorLists /\ Rest
    \/ InScope("lists") /\ ApiLists /\ UNCHANGED hawk /\ Rest
    \/ InScope("hawk") /\ ApiHawk /\ UNCHANGED <<listVars, pull, got, apiPages>> /\ Rest
    \/ InScope("mirrors") /\ MirrorNext /\ Rest
    \/ InScope("dhcp") /\ DhcpNext /\ Rest

MCSpec == MCInit /\ [][MCNext]_mcVars
=============================================================================

------------------------------ MODULE ProxyLogin ------------------------------
(***************************************************************************)
(* Signing in through the proxy: the session of a cookie in Redis          *)
(* (proxy_session.py), the SSO middleware (authenticate_by_staff_sso in    *)
(* proxy.py) with its profiles cached for a minute, and the hand-over of   *)
(* the request to the Django application, to an application of a user, to  *)
(* Superset or to the mirror.  The tabs of a browser share its cookie, and *)
(* the responses that set it arrive in any order.                          *)
(*                                                                         *)
(* Each redirection to SSO makes a session of its own with one random key; *)
(* the number of the session stands for the key too.                       *)
(***************************************************************************)
EXTENDS Naturals, FiniteSets

CONSTANTS Tab,
          BrowserOf,    \* tab -> its browser; one person uses a browser
          Target,       \* what tabs ask for, by its kind
          AddressOK,    \* browsers whose address is in the IP whitelist
          MaxSessions,  \* bound on the sessions
          MaxVisits,    \* bound on the pages asked for
          MaxMinute     \* bound on the time, in minutes

ASSUME LoginAssumption == MaxSessions \in Nat

\* The kinds of pages that need no SSO, and those behind the IP whitelist.
WithoutSSO == {"healthcheck", "service discovery", "table", "dataset"}
Whitelisted == {"app", "superset", "mirror", "credentials", "files", "explorer"}
Browser == {BrowserOf[t] : t \in Tab}
NoCookie == 0
NoToken == "none"

VARIABLES
  jar,       \* browser -> its session cookie
  session,   \* Redis: session -> [url, token], what the keys hold
  sessionsMade,      \* sessions made so far
  signedOut, \* browsers whose person SSO does not let in any more
  lastIn,    \* browser -> the last minute at which SSO did
  profile,   \* Redis: token (that of a browser) -> minute the profile expires
  minute,
  visits,    \* pages asked for so far
  tab        \* tab -> its request, or the response on its way

loginVars == <<jar, session, sessionsMade, signedOut, lastIn, profile, minute,
               visits, tab>>

Blank == [at |-> "blank"]
EmptySession == [url |-> "none", token |-> NoToken]
LoginInit ==
  /\ jar = [b \in Browser |-> NoCookie] /\ sessionsMade = 0
  /\ session = [c \in 0..MaxSessions |-> EmptySession]
  /\ signedOut = {} /\ lastIn = [b \in Browser |-> 0] /\ minute = 0
  /\ profile = [b \in Browser |-> 0] /\ tab = [t \in Tab |-> Blank]
  /\ visits = 0

Me(t) == BrowserOf[t]
TabIsAt(t, step) == tab[t].at = step
Go(t, next) == tab' = [tab EXCEPT ![t] = next]
GetValue(cookie) == session[cookie]

(***************************************************************************)
(* The browser.                                                            *)
(***************************************************************************)
Visit(t, url) ==
  /\ TabIsAt(t, "blank") /\ visits < MaxVisits /\ visits' = visits + 1
  /\ Go(t, [at |-> "request", url |-> url, cookie |-> jar[Me(t)]])
  /\ UNCHANGED <<jar, session, sessionsMade, signedOut, lastIn, profile, minute>>
\* A response that sets the cookie arrives: the tab is sent on, to SSO or to a
\* page, and all tabs of the browser use the cookie from now on.
Arrive(t) ==
  /\ TabIsAt(t, "response") /\ jar' = [jar EXCEPT ![Me(t)] = tab[t].cookie]
  /\ Go(t, IF tab[t].to = "sso" THEN [at |-> "sso", key |-> tab[t].key, url |-> tab[t].url]
           ELSE [at |-> "request", url |-> tab[t].url, cookie |-> tab[t].cookie])
  /\ UNCHANGED <<session, sessionsMade, signedOut, lastIn, profile, minute, visits>>
\* SSO knows the person and sends the tab back with a code and the state.
BackFromSSO(t) ==
  /\ TabIsAt(t, "sso") /\ Me(t) \notin signedOut
  /\ Go(t, [at |-> "callback", key |-> tab[t].key, url |-> tab[t].url,
            cookie |-> jar[Me(t)]])
  /\ UNCHANGED <<jar, session, sessionsMade, signedOut, lastIn, profile, minute, visits>>
Leave(t) == /\ TabIsAt(t, "served") /\ Go(t, Blank)
            /\ UNCHANGED <<jar, session, sessionsMade, signedOut, lastIn, profile, minute, visits>>

(***************************************************************************)
(* The surroundings: time, persons that leave, sessions that expire.       *)
(***************************************************************************)
MinutePasses ==
  /\ minute < MaxMinute /\ minute' = minute + 1
  /\ lastIn' = [b \in Browser |-> IF b \in signedOut THEN lastIn[b] ELSE minute + 1]
  /\ UNCHANGED <<jar, session, sessionsMade, signedOut, profile, visits, tab>>
SignOut(b) == /\ b \notin signedOut /\ signedOut' = signedOut \cup {b}
              /\ UNCHANGED <<jar, session, sessionsMade, lastIn, profile, minute, visits, tab>>
SessionExpires(c) == /\ session[c].token # NoToken
                     /\ session' = [session EXCEPT ![c] = EmptySession]
                     /\ UNCHANGED <<jar, sessionsMade, signedOut, lastIn, profile, minute, visits, tab>>

(***************************************************************************)
(* _authenticate_by_sso.                                                   *)
(***************************************************************************)
\* with_new_session_cookie: a new session that holds what was set.
NewSession(t, values, response) ==
  /\ sessionsMade < MaxSessions /\ sessionsMade' = sessionsMade + 1
  /\ session' = [session EXCEPT ![sessionsMade + 1] = values]
  /\ Go(t, response)
  /\ UNCHANGED <<jar, signedOut, lastIn, profile, minute, visits>>
RedirectionToSSO(t, url) ==
  NewSession(t, [EmptySession EXCEPT !.url = url],
             [at |-> "response", to |-> "sso", key |-> sessionsMade + 1, url |-> url,
              cookie |-> sessionsMade + 1])
Token(t) == GetValue(tab[t].cookie).token
Unknown(t) == /\ TabIsAt(t, "request") /\ tab[t].url \notin WithoutSSO /\ Token(t) = NoToken
              /\ RedirectionToSSO(t, tab[t].url)
NotRequired(t) ==
  /\ TabIsAt(t, "request") /\ tab[t].url \in WithoutSSO
  /\ Go(t, [at |-> "handle", url |-> tab[t].url, as |-> NoToken])
  /\ UNCHANGED <<jar, session, sessionsMade, signedOut, lastIn, profile, minute, visits>>

\* The page SSO sends the tab back to: the address of the state must be the one
\* the session holds under the key of the state.
FromSession(t) == IF tab[t].key = tab[t].cookie THEN GetValue(tab[t].cookie).url
                  ELSE "none"
Overtaken(t) == /\ TabIsAt(t, "callback") /\ tab[t].url # FromSession(t)
                /\ RedirectionToSSO(t, tab[t].url)
\* Mutant: the page is the one the session holds, whatever the state says.
SignedInUnchecked(t) ==
  /\ TabIsAt(t, "callback") /\ GetValue(tab[t].cookie).url # "none"
  /\ NewSession(t, [EmptySession EXCEPT !.token = Me(t)],
                [at |-> "response", to |-> "page", cookie |-> sessionsMade + 1,
                 url |-> GetValue(tab[t].cookie).url])
SignedIn(t) ==
  /\ TabIsAt(t, "callback") /\ tab[t].url = FromSession(t)
  /\ NewSession(t, [EmptySession EXCEPT !.token = Me(t)],
                [at |-> "response", to |-> "page", url |-> FromSession(t),
                 cookie |-> sessionsMade + 1])

\* The profile, from the cache or from SSO; None when SSO refuses the token.
Authenticated(t) == TabIsAt(t, "request") /\ tab[t].url \notin WithoutSSO /\ Token(t) # NoToken
ProfileCached(k) == minute < profile[k]
ProfileFromCache(t) ==
  /\ Authenticated(t) /\ ProfileCached(Token(t))
  /\ Go(t, [at |-> "handle", url |-> tab[t].url, as |-> Token(t)])
  /\ UNCHANGED <<jar, session, sessionsMade, signedOut, lastIn, profile, minute, visits>>
AskSSO(t) ==
  /\ Authenticated(t) /\ ~ProfileCached(Token(t))
  /\ Go(t, [at |-> "me", url |-> tab[t].url, as |-> Token(t)])
  /\ UNCHANGED <<jar, session, sessionsMade, signedOut, lastIn, profile, minute, visits>>
MeRefused(t) == TabIsAt(t, "me") /\ tab[t].as \in signedOut /\ RedirectionToSSO(t, tab[t].url)
CachedFor == 1
MeAnswered(t) ==
  /\ TabIsAt(t, "me") /\ tab[t].as \notin signedOut
  /\ profile' = [profile EXCEPT ![tab[t].as] = minute + CachedFor]
  /\ Go(t, [tab[t] EXCEPT !.at = "handle"])
  /\ UNCHANGED <<jar, session, sessionsMade, signedOut, lastIn, minute, visits>>

(***************************************************************************)
(* The IP whitelist, and the handler of the target.  handle_http puts the  *)
(* cookie of the request on the response again.                            *)
(***************************************************************************)
AddressAllowed(t) == tab[t].url \in Whitelisted => Me(t) \in AddressOK
Handle(t) ==
  /\ TabIsAt(t, "handle")
  /\ Go(t, IF AddressAllowed(t) THEN [tab[t] EXCEPT !.at = "served"]
           ELSE [at |-> "served", url |-> "error_403", as |-> tab[t].as])
  /\ UNCHANGED <<jar, session, sessionsMade, signedOut, lastIn, profile, minute, visits>>

LoginStep(t) ==
  \/ \E url \in Target : Visit(t, url)
  \/ Arrive(t) \/ BackFromSSO(t) \/ Leave(t)
  \/ NotRequired(t) \/ Unknown(t) \/ Overtaken(t) \/ SignedIn(t)
  \/ ProfileFromCache(t) \/ AskSSO(t) \/ MeRefused(t) \/ MeAnswered(t) \/ Handle(t)
LoginNext == \/ \E t \in Tab : LoginStep(t)
             \/ MinutePasses \/ \E b \in Browser : SignOut(b)
             \/ \E c \in 1..MaxSessions : SessionExpires(c)
LoginSpec == LoginInit /\ [][LoginNext]_loginVars

(***************************************************************************)
(* Properties.                                                             *)
(***************************************************************************)

(* Types; a session never holds more than one key, and the sessions of two *)
(* persons are never mixed up: the cookie of a browser names a session     *)
(* with the token of its person, or with none.                             *)
LoginTypeOK ==
  /\ jar \in [Browser -> 0..sessionsMade] /\ sessionsMade \in 0..MaxSessions
  /\ \A c \in 0..MaxSessions : session[c].url = "none" \/ session[c].token = NoToken
  /\ \A b \in Browser : GetValue(jar[b]).token \in {NoToken, b}

(* A request is handed over with the profile of the person at the browser, *)
(* whatever other tabs and other persons do meanwhile.                     *)
ServedAsOneself == \A t \in Tab : 
  tab[t].at \in {"handle", "me"} /\ tab[t].url \notin WithoutSSO => tab[t].as = Me(t)

(* SSO knew the person when the profile a request is served with was       *)
(* cached, at most a minute ago: whoever signs out is let in no longer     *)
(* than that.                                                              *)
ProfileIsFresh == \A b \in Browser : ProfileCached(b) => lastIn[b] + 1 > minute

(* After signing in a tab goes on to the page it had asked for, however    *)
(* many tabs signed in at the same time.                                   *)
ReturnsToPage ==
  [][\A t \in Tab : TabIsAt(t, "callback") /\ tab'[t].at = "response" =>
       tab'[t].url = tab[t].url]_loginVars

(***************************************************************************)
(* Why they hold: a session that was signed in is known to one browser.    *)
(***************************************************************************)
LoginTab ==
  {Blank} \cup [at : {"request"}, url : Target, cookie : Nat]
  \cup [at : {"response"}, to : {"sso"}, key : Nat, url : Target, cookie : Nat]
  \cup [at : {"response"}, to : {"page"}, url : Target, cookie : Nat]
  \cup [at : {"sso"}, key : Nat, url : Target]
  \cup [at : {"callback"}, key : Nat, url : Target, cookie : Nat]
  \cup [at : {"me"}, url : Target, as : Browser]
  \cup [at : {"handle", "served"}, url : Target \cup {"error_403"}, as : Browser \cup {NoToken}]
LoginTypes ==
  /\ LoginTypeOK
  /\ session \in [0..MaxSessions -> [url : Target \cup {"none"}, token : Browser \cup {NoToken}]]
  /\ signedOut \in SUBSET Browser /\ lastIn \in [Browser -> Nat] /\ minute \in Nat
  /\ profile \in [Browser -> Nat] /\ tab \in [Tab -> LoginTab]
CookiesHeld ==
  \A t \in Tab : tab[t].at \in {"request", "response", "callback"} =>
    tab[t].cookie \in 0..sessionsMade /\ session[tab[t].cookie].token \in {NoToken, Me(t)}
ServedByProfile ==
  \A t \in Tab : /\ TabIsAt(t, "me") => tab[t].as = Me(t)
                 /\ TabIsAt(t, "handle") /\ tab[t].url \notin WithoutSSO => tab[t].as = Me(t)
ProfilesNoted ==
  \A b \in Browser : /\ profile[b] <= lastIn[b] + CachedFor
                     /\ lastIn[b] <= minute
                     /\ b \notin signedOut => lastIn[b] = minute
LoginInv == LoginTypes /\ CookiesHeld /\ ServedByProfile /\ ProfilesNoted

\* What signing in promises: a request is served with the profile of the person at the
\* browser, not older than a minute, and a tab that signed in goes on to the page it
\* had asked for (authenticate_by_staff_sso).
LoginPromise ==
  /\ [](LoginTypeOK /\ ServedAsOneself /\ ProfileIsFresh)
  /\ ReturnsToPage
=============================================================================

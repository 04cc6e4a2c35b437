------------------------------- MODULE AccountsProofs -------------------------------
(***************************************************************************)
(* Signing in, the tabs of a user, the network of the tools, the pages of  *)
(* the API, who may use a dataset, and how accounts follow SSO. For any    *)
(* number of people, browsers, tabs, containers, requests and forms.       *)
(***************************************************************************)
EXTENDS ProxyLogin, QueryEditor, DhcpOptions, DataApi, PermissionSync,
        SsoUsers, FiniteSetTheorems, SequenceTheorems, WellFoundedInduction,
        TLAPS

(***************************************************************************)
(* Signing in through the proxy.                                           *)
(***************************************************************************)
LEMMA LoginInitInv == LoginInit => LoginInv
<1> SUFFICES ASSUME LoginInit PROVE LoginInv
  OBVIOUS
<1>1. /\ sessionsMade \in 0..MaxSessions /\ jar \in [Browser -> 0..sessionsMade]
      /\ \A b \in Browser : jar[b] = 0
  BY LoginAssumption DEF LoginInit, NoCookie
<1>2. \A c \in 0..MaxSessions : session[c] = EmptySession
  BY DEF LoginInit
<1>3. 0 \in 0..MaxSessions /\ EmptySession.url = "none" /\ EmptySession.token = NoToken
  BY LoginAssumption DEF EmptySession
<1>4. LoginTypeOK
  BY <1>1, <1>2, <1>3 DEF LoginTypeOK, GetValue
<1>5. session \in [0..MaxSessions -> [url : Target \cup {"none"}, token : Browser \cup {NoToken}]]
  BY DEF LoginInit, EmptySession
<1>6. /\ signedOut \in SUBSET Browser /\ lastIn \in [Browser -> Nat] /\ minute \in Nat
      /\ profile \in [Browser -> Nat] /\ tab \in [Tab -> LoginTab]
      /\ \A t \in Tab : tab[t].at = "blank"
  BY DEF LoginInit, LoginTab, Blank
<1>7. ProfilesNoted
  BY DEF LoginInit, ProfilesNoted, CachedFor
<1> QED BY <1>4, <1>5, <1>6, <1>7 DEF LoginInv, LoginTypes, CookiesHeld, ServedByProfile, TabIsAt

\* What a tab is doing, and whose it is.
LEMMA TabRun ==
  ASSUME LoginInv, NEW t \in Tab
  PROVE  /\ tab[t] \in LoginTab /\ Me(t) \in Browser
         /\ TabIsAt(t, "request") => tab[t] \in [at : {"request"}, url : Target, cookie : Nat]
         /\ TabIsAt(t, "callback") =>
              tab[t] \in [at : {"callback"}, key : Nat, url : Target, cookie : Nat]
         /\ TabIsAt(t, "sso") => tab[t] \in [at : {"sso"}, key : Nat, url : Target]
         /\ TabIsAt(t, "me") => tab[t] \in [at : {"me"}, url : Target, as : Browser]
         /\ TabIsAt(t, "handle") =>
              tab[t] \in [at : {"handle"}, url : Target \cup {"error_403"}, as : Browser \cup {NoToken}]
         /\ TabIsAt(t, "response") =>
              tab[t] \in [at : {"response"}, to : {"sso"}, key : Nat, url : Target, cookie : Nat]
                         \cup [at : {"response"}, to : {"page"}, url : Target, cookie : Nat]
         /\ tab[t].at \in {"request", "response", "callback"} =>
              /\ tab[t].cookie \in 0..sessionsMade
              /\ session[tab[t].cookie].token \in {NoToken, Me(t)}
<1>1. tab[t] \in LoginTab
  BY DEF LoginInv, LoginTypes
<1>2. Me(t) \in Browser
  BY DEF Me, Browser
<1> QED BY <1>1, <1>2 DEF LoginInv, CookiesHeld, LoginTab, TabIsAt, Blank

\* What the browser's cookie names.
LEMMA JarIs ==
  ASSUME LoginInv, NEW b \in Browser
  PROVE  jar[b] \in 0..sessionsMade /\ session[jar[b]].token \in {NoToken, b}
BY DEF LoginInv, LoginTypes, LoginTypeOK, GetValue

\* A tab goes on and nothing else changes but, perhaps, the cookie of its browser.
LEMMA TabGoesInv ==
  ASSUME LoginInv, NEW t \in Tab, NEW s \in LoginTab, Go(t, s),
         UNCHANGED <<session, sessionsMade, signedOut, lastIn, profile, minute>>,
         \/ jar' = jar
         \/ \E c \in 0..sessionsMade : /\ session[c].token \in {NoToken, Me(t)}
                                       /\ jar' = [jar EXCEPT ![Me(t)] = c],
         s.at \in {"request", "response", "callback"} =>
           s.cookie \in 0..sessionsMade /\ session[s.cookie].token \in {NoToken, Me(t)},
         s.at = "me" => s.as = Me(t),
         s.at = "handle" /\ s.url \notin WithoutSSO => s.as = Me(t)
  PROVE  LoginInv'
<1>1. /\ tab \in [Tab -> LoginTab] /\ tab' \in [Tab -> LoginTab]
      /\ \A u \in Tab : tab'[u] = IF u = t THEN s ELSE tab[u]
  BY DEF LoginInv, LoginTypes, Go
<1>2. /\ jar' \in [Browser -> 0..sessionsMade]
      /\ \A b \in Browser : session[jar'[b]].token \in {NoToken, b}
  <2>1. jar \in [Browser -> 0..sessionsMade] /\ \A b \in Browser : session[jar[b]].token \in {NoToken, b}
    BY DEF LoginInv, LoginTypes, LoginTypeOK, GetValue
  <2> QED BY <2>1
<1>3. LoginTypes'
  BY <1>1, <1>2 DEF LoginInv, LoginTypes, LoginTypeOK, GetValue
<1>4. CookiesHeld'
  BY <1>1 DEF LoginInv, CookiesHeld, Me
<1>5. ServedByProfile'
  BY <1>1 DEF LoginInv, ServedByProfile, TabIsAt, Me
<1>6. ProfilesNoted'
  BY DEF LoginInv, ProfilesNoted
<1> QED BY <1>3, <1>4, <1>5, <1>6 DEF LoginInv

\* A session is new: nobody has its cookie but the tab it answers.
LEMMA NewSessionInv ==
  ASSUME LoginInv, NEW t \in Tab, NEW url \in Target \cup {"none"}, NEW token \in {NoToken, Me(t)},
         NEW s \in LoginTab, url = "none" \/ token = NoToken,
         NewSession(t, [url |-> url, token |-> token], s),
         s.at = "response", s.cookie = sessionsMade + 1
  PROVE  LoginInv'
<1> DEFINE n == sessionsMade + 1
           v == [url |-> url, token |-> token]
<1>1. /\ tab \in [Tab -> LoginTab] /\ tab' \in [Tab -> LoginTab]
      /\ \A u \in Tab : tab'[u] = IF u = t THEN s ELSE tab[u]
  BY DEF LoginInv, LoginTypes, NewSession, Go
<1>2. PICK m \in Nat : m = sessionsMade /\ m < MaxSessions /\ sessionsMade' = m + 1
  BY LoginAssumption DEF LoginInv, LoginTypes, LoginTypeOK, NewSession
<1>3. /\ m + 1 \in 0..MaxSessions /\ m + 1 \notin 0..m
      /\ \A c \in 0..m : c \in 0..(m + 1) /\ c \in 0..MaxSessions
  BY <1>2, LoginAssumption
<1>4. v \in [url : Target \cup {"none"}, token : Browser \cup {NoToken}]
  BY TabRun
<1>5. /\ session' \in [0..MaxSessions -> [url : Target \cup {"none"}, token : Browser \cup {NoToken}]]
      /\ \A c \in 0..MaxSessions : session'[c] = IF c = m + 1 THEN v ELSE session[c]
  <2>1. session \in [0..MaxSessions -> [url : Target \cup {"none"}, token : Browser \cup {NoToken}]]
    BY DEF LoginInv, LoginTypes
  <2>2. session' = [session EXCEPT ![m + 1] = v]
    BY <1>2 DEF NewSession
  <2> HIDE DEF v
  <2> QED BY <1>3, <1>4, <2>1, <2>2
<1>6. UNCHANGED <<jar, signedOut, lastIn, profile, minute>>
  BY DEF NewSession
<1>7. /\ jar \in [Browser -> 0..m] /\ \A b \in Browser : session[jar[b]].token \in {NoToken, b}
  BY <1>2 DEF LoginInv, LoginTypes, LoginTypeOK, GetValue
<1>8. jar' \in [Browser -> 0..sessionsMade']
  BY <1>2, <1>3, <1>6, <1>7
<1>9. \A b \in Browser : GetValue(jar[b])'.token \in {NoToken, b}
  BY <1>3, <1>5, <1>6, <1>7 DEF GetValue
<1>10. \A c \in 0..MaxSessions : session'[c].url = "none" \/ session'[c].token = NoToken
  <2>1. \A c \in 0..MaxSessions : session[c].url = "none" \/ session[c].token = NoToken
    BY DEF LoginInv, LoginTypes, LoginTypeOK
  <2>2. v.url = "none" \/ v.token = NoToken
    OBVIOUS
  <2> HIDE DEF v
  <2> QED BY <1>5, <2>1, <2>2
<1>11. LoginTypes'
  BY <1>1, <1>2, <1>3, <1>5, <1>6, <1>8, <1>9, <1>10 DEF LoginInv, LoginTypes, LoginTypeOK
<1>12. CookiesHeld'
  <2> SUFFICES ASSUME NEW u \in Tab, tab'[u].at \in {"request", "response", "callback"}
      PROVE tab'[u].cookie \in 0..sessionsMade' /\ session'[tab'[u].cookie].token \in {NoToken, Me(u)}
    BY DEF CookiesHeld, Me
  <2>1. CASE u = t
    <3>1. tab'[u].cookie = m + 1
      BY <1>1, <1>2, <2>1
    <3>2. session'[m + 1].token = token
      BY <1>3, <1>5
    <3> QED BY <1>2, <1>3, <2>1, <3>1, <3>2
  <2>2. CASE u # t
    <3>1. tab'[u] = tab[u]
      BY <1>1, <2>2
    <3>2. tab[u].cookie \in 0..m /\ session[tab[u].cookie].token \in {NoToken, Me(u)}
      BY <1>2, <3>1, TabRun
    <3>3. session'[tab[u].cookie] = session[tab[u].cookie]
      BY <1>3, <1>5, <3>2
    <3> QED BY <1>2, <1>3, <3>1, <3>2, <3>3
  <2> QED BY <2>1, <2>2
<1>13. ServedByProfile'
  BY <1>1 DEF LoginInv, ServedByProfile, TabIsAt, Me
<1>14. ProfilesNoted'
  BY <1>6 DEF LoginInv, ProfilesNoted
<1> QED BY <1>11, <1>12, <1>13, <1>14 DEF LoginInv

LEMMA BrowserStepsInv ==
  ASSUME LoginInv, NEW t \in Tab,
         \/ \E url \in Target : Visit(t, url)
         \/ Arrive(t) \/ BackFromSSO(t) \/ Leave(t)
  PROVE  LoginInv'
<1>1. ASSUME NEW url \in Target, Visit(t, url) PROVE LoginInv'
  <2> DEFINE s == [at |-> "request", url |-> url, cookie |-> jar[Me(t)]]
  <2>1. jar[Me(t)] \in 0..sessionsMade /\ session[jar[Me(t)]].token \in {NoToken, Me(t)}
    BY TabRun, JarIs
  <2>2. jar[Me(t)] \in Nat
    BY <2>1
  <2>3. s \in LoginTab /\ s.at = "request" /\ s.cookie = jar[Me(t)]
    BY <2>2 DEF LoginTab
  <2>4. Go(t, s) /\ UNCHANGED <<jar, session, sessionsMade, signedOut, lastIn, profile, minute>>
    BY <1>1 DEF Visit
  <2> HIDE DEF s
  <2> QED BY <2>1, <2>3, <2>4, TabGoesInv
<1>2. CASE Arrive(t)
  <2>1. /\ TabIsAt(t, "response") /\ tab[t].at = "response"
        /\ jar' = [jar EXCEPT ![Me(t)] = tab[t].cookie]
        /\ UNCHANGED <<session, sessionsMade, signedOut, lastIn, profile, minute>>
    BY <1>2 DEF Arrive, TabIsAt
  <2>2. /\ tab[t].cookie \in 0..sessionsMade /\ session[tab[t].cookie].token \in {NoToken, Me(t)}
        /\ tab[t] \in [at : {"response"}, to : {"sso"}, key : Nat, url : Target, cookie : Nat]
                      \cup [at : {"response"}, to : {"page"}, url : Target, cookie : Nat]
    BY <2>1, TabRun
  <2>3. CASE tab[t].to = "sso"
    <3> DEFINE s == [at |-> "sso", key |-> tab[t].key, url |-> tab[t].url]
    <3>1. Go(t, s)
      BY <1>2, <2>3 DEF Arrive
    <3>2. s \in LoginTab /\ s.at = "sso"
      BY <2>2, <2>3 DEF LoginTab
    <3> HIDE DEF s
    <3> QED BY <2>1, <2>2, <3>1, <3>2, TabGoesInv
  <2>4. CASE tab[t].to # "sso"
    <3> DEFINE s == [at |-> "request", url |-> tab[t].url, cookie |-> tab[t].cookie]
    <3>1. Go(t, s)
      BY <1>2, <2>4 DEF Arrive
    <3>2. s \in LoginTab /\ s.at = "request" /\ s.cookie = tab[t].cookie
      BY <2>2, <2>4 DEF LoginTab
    <3> HIDE DEF s
    <3> QED BY <2>1, <2>2, <3>1, <3>2, TabGoesInv
  <2> QED BY <2>3, <2>4
<1>3. CASE BackFromSSO(t)
  <2> DEFINE s == [at |-> "callback", key |-> tab[t].key, url |-> tab[t].url, cookie |-> jar[Me(t)]]
  <2>1. jar[Me(t)] \in 0..sessionsMade /\ session[jar[Me(t)]].token \in {NoToken, Me(t)}
    BY TabRun, JarIs
  <2>2. jar[Me(t)] \in Nat /\ tab[t] \in [at : {"sso"}, key : Nat, url : Target]
    BY <1>3, <2>1, TabRun DEF BackFromSSO
  <2>3. s \in LoginTab /\ s.at = "callback" /\ s.cookie = jar[Me(t)]
    BY <2>2 DEF LoginTab
  <2>4. Go(t, s) /\ UNCHANGED <<jar, session, sessionsMade, signedOut, lastIn, profile, minute>>
    BY <1>3 DEF BackFromSSO
  <2> HIDE DEF s
  <2> QED BY <2>1, <2>3, <2>4, TabGoesInv
<1>4. CASE Leave(t)
  <2>1. Blank \in LoginTab /\ Blank.at = "blank"
    BY DEF LoginTab, Blank
  <2>2. Go(t, Blank) /\ UNCHANGED <<jar, session, sessionsMade, signedOut, lastIn, profile, minute>>
    BY <1>4 DEF Leave
  <2> QED BY <2>1, <2>2, TabGoesInv
<1> QED BY <1>1, <1>2, <1>3, <1>4

LEMMA RedirectionInv ==
  ASSUME LoginInv, NEW t \in Tab, NEW url \in Target, RedirectionToSSO(t, url)
  PROVE  LoginInv'
<1> DEFINE s == [at |-> "response", to |-> "sso", key |-> sessionsMade + 1, url |-> url,
                 cookie |-> sessionsMade + 1]
<1>1. sessionsMade + 1 \in Nat
  BY LoginAssumption DEF LoginInv, LoginTypes, LoginTypeOK
<1>2. s \in LoginTab /\ s.at = "response" /\ s.cookie = sessionsMade + 1
  BY <1>1 DEF LoginTab
<1>3. NewSession(t, [url |-> url, token |-> NoToken], s)
  <2>1. [EmptySession EXCEPT !.url = url] = [url |-> url, token |-> NoToken]
    BY DEF EmptySession
  <2> QED BY <2>1 DEF RedirectionToSSO
<1> HIDE DEF s
<1> QED BY <1>2, <1>3, NewSessionInv

LEMMA ProxyStepsInv ==
  ASSUME LoginInv, NEW t \in Tab,
         \/ NotRequired(t) \/ Unknown(t) \/ Overtaken(t) \/ SignedIn(t)
         \/ ProfileFromCache(t) \/ AskSSO(t) \/ MeRefused(t) \/ MeAnswered(t) \/ Handle(t)
  PROVE  LoginInv'
<1>1. CASE NotRequired(t)
  <2> DEFINE s == [at |-> "handle", url |-> tab[t].url, as |-> NoToken]
  <2>1. tab[t] \in [at : {"request"}, url : Target, cookie : Nat] /\ tab[t].url \in WithoutSSO
    BY <1>1, TabRun DEF NotRequired
  <2>2. s \in LoginTab /\ s.at = "handle" /\ s.url \in WithoutSSO
    BY <2>1 DEF LoginTab
  <2>3. Go(t, s) /\ UNCHANGED <<jar, session, sessionsMade, signedOut, lastIn, profile, minute>>
    BY <1>1 DEF NotRequired
  <2> HIDE DEF s
  <2> QED BY <2>2, <2>3, TabGoesInv
<1>2. CASE Unknown(t) \/ Overtaken(t) \/ MeRefused(t)
  <2>1. tab[t].url \in Target /\ RedirectionToSSO(t, tab[t].url)
    BY <1>2, TabRun DEF Unknown, Overtaken, MeRefused
  <2> QED BY <2>1, RedirectionInv
<1>3. CASE SignedIn(t)
  <2> DEFINE s == [at |-> "response", to |-> "page", url |-> FromSession(t), cookie |-> sessionsMade + 1]
  <2>1. sessionsMade + 1 \in Nat
    BY LoginAssumption DEF LoginInv, LoginTypes, LoginTypeOK
  <2>2. FromSession(t) \in Target
    BY <1>3, TabRun DEF SignedIn
  <2>3. s \in LoginTab /\ s.at = "response" /\ s.cookie = sessionsMade + 1
    BY <2>1, <2>2 DEF LoginTab
  <2>4. NewSession(t, [url |-> "none", token |-> Me(t)], s)
    <3>1. [EmptySession EXCEPT !.token = Me(t)] = [url |-> "none", token |-> Me(t)]
      BY DEF EmptySession
    <3> QED BY <1>3, <3>1 DEF SignedIn
  <2> HIDE DEF s
  <2> QED BY <2>3, <2>4, NewSessionInv
<1>4. CASE ProfileFromCache(t) \/ AskSSO(t)
  <2> DEFINE s == [at |-> IF ProfileFromCache(t) THEN "handle" ELSE "me",
                   url |-> tab[t].url, as |-> Token(t)]
  <2>1. TabIsAt(t, "request") /\ Token(t) # NoToken
    BY <1>4 DEF ProfileFromCache, AskSSO, Authenticated
  <2>2. /\ tab[t] \in [at : {"request"}, url : Target, cookie : Nat] /\ Token(t) = Me(t)
        /\ Me(t) \in Browser
    BY <2>1, TabRun DEF Token, GetValue, TabIsAt
  <2>3. CASE ProfileFromCache(t)
    <3> DEFINE h == [at |-> "handle", url |-> tab[t].url, as |-> Token(t)]
    <3>1. h \in LoginTab /\ h.at = "handle" /\ h.as = Me(t)
      BY <2>2 DEF LoginTab
    <3>2. Go(t, h) /\ UNCHANGED <<jar, session, sessionsMade, signedOut, lastIn, profile, minute>>
      BY <2>3 DEF ProfileFromCache
    <3> HIDE DEF h
    <3> QED BY <3>1, <3>2, TabGoesInv
  <2>4. CASE AskSSO(t)
    <3> DEFINE h == [at |-> "me", url |-> tab[t].url, as |-> Token(t)]
    <3>1. h \in LoginTab /\ h.at = "me" /\ h.as = Me(t)
      BY <2>2 DEF LoginTab
    <3>2. Go(t, h) /\ UNCHANGED <<jar, session, sessionsMade, signedOut, lastIn, profile, minute>>
      BY <2>4 DEF AskSSO
    <3> HIDE DEF h
    <3> QED BY <3>1, <3>2, TabGoesInv
  <2> QED BY <1>4, <2>3, <2>4
<1>5. CASE MeAnswered(t)
  <2> DEFINE s == [tab[t] EXCEPT !.at = "handle"]
             b == tab[t].as
  <2>1. /\ tab[t] \in [at : {"me"}, url : Target, as : Browser] /\ b = Me(t) /\ b \notin signedOut
        /\ UNCHANGED <<jar, session, sessionsMade, signedOut, lastIn, minute>>
    BY <1>5, TabRun DEF MeAnswered, LoginInv, ServedByProfile
  <2>2. PICK q : q = [profile EXCEPT ![b] = minute + CachedFor]
    OBVIOUS
  <2>3. profile' = q /\ Go(t, s)
    BY <1>5, <2>2 DEF MeAnswered
  <2>4. s \in LoginTab /\ s.at = "handle" /\ s.as = Me(t)
    BY <2>1 DEF LoginTab
  <2>5. /\ profile \in [Browser -> Nat] /\ minute \in Nat /\ lastIn \in [Browser -> Nat]
        /\ minute + CachedFor \in Nat
    BY DEF LoginInv, LoginTypes, CachedFor
  <2>6. q \in [Browser -> Nat] /\ \A d \in Browser : q[d] = IF d = b THEN minute + CachedFor ELSE profile[d]
    BY <2>1, <2>2, <2>5
  <2> HIDE DEF s
  <2>7. /\ tab \in [Tab -> LoginTab] /\ tab' \in [Tab -> LoginTab]
        /\ \A u \in Tab : tab'[u] = IF u = t THEN s ELSE tab[u]
    BY <2>3, <2>4 DEF LoginInv, LoginTypes, Go
  <2>8. LoginTypes'
    BY <2>1, <2>3, <2>6, <2>7 DEF LoginInv, LoginTypes, LoginTypeOK, GetValue
  <2>9. CookiesHeld'
    BY <2>1, <2>4, <2>7 DEF LoginInv, CookiesHeld, Me
  <2>10. ServedByProfile'
    BY <2>4, <2>7 DEF LoginInv, ServedByProfile, TabIsAt, Me
  <2>11. ProfilesNoted'
    <3>1. \A d \in Browser : /\ profile[d] <= lastIn[d] + CachedFor /\ lastIn[d] <= minute
                             /\ d \notin signedOut => lastIn[d] = minute
      BY DEF LoginInv, ProfilesNoted
    <3>2. \A d \in Browser : q[d] <= lastIn[d] + CachedFor
      BY <2>1, <2>6, <3>1
    <3> QED BY <2>1, <2>3, <3>1, <3>2 DEF ProfilesNoted
  <2> QED BY <2>8, <2>9, <2>10, <2>11 DEF LoginInv
<1>6. CASE Handle(t)
  <2>1. /\ tab[t] \in [at : {"handle"}, url : Target \cup {"error_403"}, as : Browser \cup {NoToken}]
        /\ UNCHANGED <<jar, session, sessionsMade, signedOut, lastIn, profile, minute>>
    BY <1>6, TabRun DEF Handle
  <2>2. PICK s : /\ Go(t, s)
                 /\ \/ s = [tab[t] EXCEPT !.at = "served"]
                    \/ s = [at |-> "served", url |-> "error_403", as |-> tab[t].as]
    BY <1>6 DEF Handle
  <2>3. s \in LoginTab /\ s.at = "served"
    BY <2>1, <2>2 DEF LoginTab
  <2> QED BY <2>1, <2>2, <2>3, TabGoesInv
<1> QED BY <1>1, <1>2, <1>3, <1>4, <1>5, <1>6

LEMMA SurroundingsInv ==
  ASSUME LoginInv,
         \/ MinutePasses \/ \E b \in Browser : SignOut(b)
         \/ \E c \in 1..MaxSessions : SessionExpires(c)
  PROVE  LoginInv'
<1>0. /\ LoginTypes /\ minute \in Nat /\ lastIn \in [Browser -> Nat] /\ profile \in [Browser -> Nat]
      /\ \A d \in Browser : /\ profile[d] <= lastIn[d] + CachedFor /\ lastIn[d] <= minute
                            /\ d \notin signedOut => lastIn[d] = minute
      /\ CachedFor \in Nat
  BY DEF LoginInv, LoginTypes, ProfilesNoted, CachedFor
<1>1. CASE MinutePasses
  <2>1. /\ minute' = minute + 1 /\ UNCHANGED <<jar, session, sessionsMade, signedOut, profile, tab>>
        /\ lastIn' = [b \in Browser |-> IF b \in signedOut THEN lastIn[b] ELSE minute + 1]
    BY <1>1 DEF MinutePasses
  <2>2. lastIn' \in [Browser -> Nat] /\ minute' \in Nat
    BY <1>0, <2>1
  <2>3. ProfilesNoted'
    <3> SUFFICES ASSUME NEW d \in Browser
        PROVE /\ profile[d] <= lastIn'[d] + CachedFor /\ lastIn'[d] <= minute'
              /\ d \notin signedOut => lastIn'[d] = minute'
      BY <2>1 DEF ProfilesNoted, CachedFor
    <3>1. /\ lastIn'[d] = IF d \in signedOut THEN lastIn[d] ELSE minute + 1
          /\ profile[d] \in Nat /\ lastIn[d] \in Nat
      BY <1>0, <2>1
    <3> QED BY <1>0, <2>1, <3>1
  <2>4. LoginTypes'
    BY <1>0, <2>1, <2>2 DEF LoginTypes, LoginTypeOK, GetValue
  <2> QED BY <2>1, <2>3, <2>4 DEF LoginInv, CookiesHeld, ServedByProfile, TabIsAt, Me
<1>2. ASSUME NEW b \in Browser, SignOut(b) PROVE LoginInv'
  <2>1. /\ signedOut' = signedOut \cup {b}
        /\ UNCHANGED <<jar, session, sessionsMade, lastIn, profile, minute, tab>>
    BY <1>2 DEF SignOut
  <2>2. LoginTypes'
    BY <1>0, <1>2, <2>1 DEF LoginTypes, LoginTypeOK, GetValue
  <2>3. ProfilesNoted'
    BY <1>0, <2>1 DEF ProfilesNoted
  <2> QED BY <2>1, <2>2, <2>3 DEF LoginInv, CookiesHeld, ServedByProfile, TabIsAt, Me
<1>3. ASSUME NEW c \in 1..MaxSessions, SessionExpires(c) PROVE LoginInv'
  <2> DEFINE S == [0..MaxSessions -> [url : Target \cup {"none"}, token : Browser \cup {NoToken}]]
  <2>1. /\ session' = [session EXCEPT ![c] = EmptySession]
        /\ UNCHANGED <<jar, sessionsMade, signedOut, lastIn, profile, minute, tab>>
    BY <1>3 DEF SessionExpires
  <2>2. session \in S /\ EmptySession \in [url : Target \cup {"none"}, token : Browser \cup {NoToken}]
    BY <1>0 DEF LoginTypes, EmptySession
  <2>3. session' \in S /\ \A d \in 0..MaxSessions : session'[d] = IF d = c THEN EmptySession ELSE session[d]
    BY <2>1, <2>2
  <2>4. EmptySession.url = "none" /\ EmptySession.token = NoToken
    BY DEF EmptySession
  <2>5. \A d \in 0..sessionsMade : d \in 0..MaxSessions
    BY <1>0, LoginAssumption DEF LoginTypes, LoginTypeOK
  <2>6. LoginTypeOK'
    BY <1>0, <2>1, <2>3, <2>4, <2>5 DEF LoginTypes, LoginTypeOK, GetValue
  <2>7. LoginTypes'
    BY <1>0, <2>1, <2>3, <2>6 DEF LoginTypes
  <2>8. CookiesHeld'
    BY <2>1, <2>3, <2>4, <2>5 DEF LoginInv, CookiesHeld, Me
  <2> QED BY <2>1, <2>7, <2>8 DEF LoginInv, ServedByProfile, ProfilesNoted, TabIsAt, Me
<1> QED BY <1>1, <1>2, <1>3

LEMMA LoginStepsInv == LoginInv /\ [LoginNext]_loginVars => LoginInv'
<1> SUFFICES ASSUME LoginInv, [LoginNext]_loginVars PROVE LoginInv'
  OBVIOUS
<1>1. ASSUME NEW t \in Tab, LoginStep(t) PROVE LoginInv'
  BY <1>1, BrowserStepsInv, ProxyStepsInv DEF LoginStep
<1>2. CASE UNCHANGED loginVars
  BY <1>2 DEF loginVars, LoginInv, LoginTypes, LoginTypeOK, GetValue, CookiesHeld, ServedByProfile,
              ProfilesNoted, TabIsAt, Me
<1> QED BY <1>1, <1>2, SurroundingsInv DEF LoginNext

\* In every state, the cookie of a browser names a session with the token of its person or
\* none, and what a tab carries is its browser's own (authenticate_by_staff_sso, proxy.py).
THEOREM LoginInvariance == LoginSpec => []LoginInv
<1>1. LoginInit => LoginInv
  BY LoginInitInv
<1> QED BY <1>1, LoginStepsInv, PTL DEF LoginSpec

LEMMA CallbackReturns ==
  ASSUME LoginInv, [LoginNext]_loginVars, NEW t \in Tab, TabIsAt(t, "callback"), tab'[t].at = "response"
  PROVE  tab'[t].url = tab[t].url
<1>0. tab \in [Tab -> LoginTab] /\ tab[t].at = "callback"
  BY DEF LoginInv, LoginTypes, TabIsAt
<1>1. ASSUME NEW u \in Tab, LoginStep(u) PROVE tab'[t].url = tab[t].url
  <2>1. CASE u # t
    <3>1. \E s : Go(u, s)
      BY <1>1 DEF LoginStep, Visit, Arrive, BackFromSSO, Leave, NotRequired, Unknown, Overtaken, SignedIn,
                  ProfileFromCache, AskSSO, MeRefused, MeAnswered, Handle, RedirectionToSSO, NewSession
    <3>2. tab'[t] = tab[t]
      BY <1>0, <2>1, <3>1 DEF Go
    <3> QED BY <3>2
  <2>2. CASE u = t
    <3>1. Overtaken(t) \/ SignedIn(t)
      BY <1>0, <1>1, <2>2 DEF LoginStep, Visit, Arrive, BackFromSSO, Leave, NotRequired, Unknown, TabIsAt,
                  ProfileFromCache, AskSSO, MeRefused, MeAnswered, Handle, Authenticated
    <3>2. CASE Overtaken(t)
      BY <1>0, <3>2 DEF Overtaken, RedirectionToSSO, NewSession, Go
    <3>3. CASE SignedIn(t)
      BY <1>0, <3>3 DEF SignedIn, NewSession, Go
    <3> QED BY <3>1, <3>2, <3>3
  <2> QED BY <2>1, <2>2
<1>2. CASE UNCHANGED tab
  BY <1>0, <1>2
<1>3. \/ \E u \in Tab : LoginStep(u)
      \/ UNCHANGED tab
  BY DEF LoginNext, loginVars, MinutePasses, SignOut, SessionExpires
<1> QED BY <1>1, <1>2, <1>3

\* A request is served with a fresh profile of the person at the browser, and a tab that
\* signed in goes on to the page it had asked for, for any browsers, tabs and sessions
\* (authenticate_by_staff_sso).
THEOREM LoginIsKept == LoginSpec => LoginPromise
<1>1. LoginInv => LoginTypeOK /\ ServedAsOneself /\ ProfileIsFresh
  <2> SUFFICES ASSUME LoginInv PROVE LoginTypeOK /\ ServedAsOneself /\ ProfileIsFresh
    OBVIOUS
  <2>1. LoginTypeOK /\ ServedAsOneself
    BY DEF LoginInv, LoginTypes, ServedByProfile, ServedAsOneself, TabIsAt
  <2>2. ProfileIsFresh
    <3> SUFFICES ASSUME NEW b \in Browser, minute < profile[b] PROVE lastIn[b] + 1 > minute
      BY DEF ProfileIsFresh, ProfileCached
    <3>1. profile[b] \in Nat /\ lastIn[b] \in Nat /\ minute \in Nat /\ profile[b] <= lastIn[b] + 1
      BY DEF LoginInv, LoginTypes, ProfilesNoted, CachedFor
    <3> QED BY <3>1
  <2> QED BY <2>1, <2>2
<1>2. LoginInv /\ [LoginNext]_loginVars =>
        [\A t \in Tab : TabIsAt(t, "callback") /\ tab'[t].at = "response" =>
           tab'[t].url = tab[t].url]_loginVars
  BY CallbackReturns
<1> QED BY <1>1, <1>2, LoginInvariance, PTL DEF LoginSpec, LoginPromise, ReturnsToPage

(***************************************************************************)
(* Writing, saving and sharing queries in Data Explorer.                   *)
(***************************************************************************)
LEMMA EditorInitInv == EditorInit => EditorInv
<1> SUFFICES ASSUME EditorInit PROVE EditorInv
  OBVIOUS
<1>1. /\ queries \in Seq(QueryRow) /\ plays \in Seq(Sql) /\ Len(queries) = 0
  BY EmptySeq DEF EditorInit
<1>2. \A t \in EditorTab : editor[t] = [at |-> "play", sql |-> NoSql, query |-> 0]
  BY DEF EditorInit, Playground
<1>3. editor \in [EditorTab -> EditorPage]
  BY <1>2 DEF EditorInit, EditorPage
<1>4. /\ grants = [version |-> 1, since |-> 0] /\ listCache = [version |-> 0, stored |-> 0]
      /\ listCall = [t \in EditorTab |-> 0] /\ editorClock = 0 /\ shared = {}
  BY DEF EditorInit
<1>5. EditorTypes
  BY <1>1, <1>3, <1>4 DEF EditorTypes
<1>6. EditorTypeOK /\ SavedSqlStays
  BY <1>1, <1>4 DEF EditorTypeOK, SavedSqlStays
<1>7. ListsRead
  BY <1>4 DEF ListsRead
<1>8. \A t \in EditorTab : PageHolds(editor[t])
  BY <1>1, <1>2 DEF PageHolds
<1> QED BY <1>5, <1>6, <1>7, <1>8 DEF EditorInv

\* What a tab shows, and the row of PlaygroundSQL it names.
LEMMA PageIs ==
  ASSUME EditorInv, NEW t \in EditorTab
  PROVE  /\ editor[t] \in EditorPage /\ editor[t].query \in Nat
         /\ editor[t].query \in 0..Len(queries)
         /\ Len(queries) \in Nat /\ Len(plays) \in Nat
         /\ InTab(t, "play") => editor[t].sql \in Sql \cup {NoSql}
         /\ InTab(t, "make") => editor[t].sql \in Sql /\ editor[t].then \in {"save", "share"}
         /\ editor[t].at \in {"save", "share"} => /\ editor[t].sql \in Sql /\ PlayIs(editor[t])
                                                  /\ editor[t].play \in Nat
         /\ InTab(t, "detail") => editor[t].play = 0 /\ editor[t].query # 0
         /\ editor[t].at \in {"viewing", "page"} =>
              /\ editor[t].query # 0 /\ editor[t].play \in Nat /\ editor[t].sql \in Sql \cup {NoSql}
              /\ editor[t].play = 0 \/ PlayIs(editor[t])
         /\ InTab(t, "viewing") => editor[t].row \in QueryRow
<1>1. editor[t] \in EditorPage /\ PageHolds(editor[t])
  BY DEF EditorInv, EditorTypes
<1>2. Len(queries) \in Nat /\ Len(plays) \in Nat
  BY LenProperties DEF EditorInv, EditorTypes
<1>3. editor[t].query \in Nat
  BY <1>1 DEF EditorPage
<1> QED BY <1>1, <1>2, <1>3 DEF EditorPage, PageHolds, InTab

\* A tab goes from page to page, and what is saved stays as it is.
LEMMA TurnsInv ==
  ASSUME EditorInv, NEW t \in EditorTab, NEW s \in EditorPage, Turns(t, s), PageHolds(s),
         UNCHANGED <<queries, plays, reverted, grants, listCache, listCall, editorClock>>,
         \A mail \in shared' : mail[1] = mail[2]
  PROVE  EditorInv'
<1>1. /\ editor \in [EditorTab -> EditorPage] /\ editor' \in [EditorTab -> EditorPage]
      /\ \A u \in EditorTab : editor'[u] = IF u = t THEN s ELSE editor[u]
  BY DEF EditorInv, EditorTypes, Turns
<1>2. EditorTypes' /\ EditorTypeOK'
  BY <1>1 DEF EditorInv, EditorTypes, EditorTypeOK
<1>3. ListsRead' /\ SavedSqlStays'
  BY DEF EditorInv, ListsRead, SavedSqlStays
<1>4. \A u \in EditorTab : PageHolds(editor[u])'
  BY <1>1 DEF EditorInv, PageHolds, PlayIs
<1> QED BY <1>2, <1>3, <1>4 DEF EditorInv

\* A tab saves something: rows are added, or one is written.
LEMMA WritesInv ==
  ASSUME EditorInv, NEW t \in EditorTab, NEW s \in EditorPage, Turns(t, s), PageHolds(s)',
         queries' \in Seq(QueryRow), plays' \in Seq(Sql),
         Len(queries) <= Len(queries'), Len(plays) <= Len(plays'),
         \A i \in 1..Len(plays) : plays'[i] = plays[i],
         \A q \in 1..Len(queries') : q \in reverted' \/ queries'[q].sql = queries'[q].saved,
         UNCHANGED <<shared, grants, listCache, listCall, editorClock>>
  PROVE  EditorInv'
<1>1. /\ editor \in [EditorTab -> EditorPage] /\ editor' \in [EditorTab -> EditorPage]
      /\ \A u \in EditorTab : editor'[u] = IF u = t THEN s ELSE editor[u]
  BY DEF EditorInv, EditorTypes, Turns
<1>2. EditorTypes'
  BY <1>1 DEF EditorInv, EditorTypes
<1>3. \A q \in 1..Len(queries') : queries'[q] \in QueryRow
  BY ElementOfSeq, LenProperties
<1>4. EditorTypeOK'
  <2>1. \A q \in 1..Len(queries') : queries'[q].sql \in Text \cup {"deleted"}
    BY <1>3 DEF QueryRow, Sql
  <2> QED BY <2>1 DEF EditorInv, EditorTypeOK
<1>5. ListsRead' /\ SavedSqlStays'
  BY DEF EditorInv, ListsRead, SavedSqlStays
<1>6. ASSUME NEW u \in EditorTab PROVE PageHolds(editor[u])'
  <2>1. CASE u = t
    <3>1. editor'[u] = s
      BY <1>1, <2>1
    <3> QED BY <3>1 DEF PageHolds, PlayIs
  <2>2. CASE u # t
    <3>1. editor'[u] = editor[u] /\ PageHolds(editor[u])
      BY <1>1, <2>2 DEF EditorInv
    <3>2. /\ Len(queries) \in Nat /\ Len(plays) \in Nat /\ Len(queries') \in Nat /\ Len(plays') \in Nat
      BY PageIs, LenProperties
    <3>3. \A i : i \in 1..Len(plays) => i \in 1..Len(plays')
      BY <3>2
    <3>4. \A i : i \in 0..Len(queries) => i \in 0..Len(queries')
      BY <3>2
    <3> QED BY <3>1, <3>3, <3>4 DEF PageHolds, PlayIs
  <2> QED BY <2>1, <2>2
<1> QED BY <1>2, <1>4, <1>5, <1>6 DEF EditorInv

\* The SQL of the form is that of a row.
LEMMA FormSqlIs ==
  ASSUME EditorInv, NEW t \in EditorTab, InTab(t, "page")
  PROVE  /\ FormSql(t) \in Sql
         /\ editor[t].play # 0 => FormSql(t) = editor[t].sql
<1>1. /\ editor[t].query \in 1..Len(queries)
      /\ editor[t].play = 0 \/ PlayIs(editor[t])
  BY PageIs DEF InTab
<1>2. \A q \in 1..Len(queries) : queries[q] \in QueryRow
  BY ElementOfSeq, PageIs DEF EditorInv, EditorTypes
<1>3. \A i \in 1..Len(plays) : plays[i] \in Sql
  BY ElementOfSeq, PageIs DEF EditorInv, EditorTypes
<1> QED BY <1>1, <1>2, <1>3 DEF FormSql, PlayIs, QueryRow

LEMMA PlaygroundInv ==
  ASSUME EditorInv, NEW t \in EditorTab,
         \/ \E sql \in Text : TypeSql(t, sql)
         \/ \E then \in {"save", "share"} : FindPlay(t, then)
         \/ MakePlay(t) \/ Share(t) \/ EditAgain(t)
         \/ \E q \in 1..Len(queries) : OpenQuery(t, q)
         \/ NotFound(t)
  PROVE  EditorInv'
<1> DEFINE S == <<queries, plays, reverted, grants, listCache, listCall, editorClock>>
<1>0. /\ \A mail \in shared : mail[1] = mail[2]
      /\ Text \subseteq Sql /\ editor \in [EditorTab -> EditorPage]
      /\ queries \in Seq(QueryRow) /\ plays \in Seq(Sql)
      /\ 0 \in 0..Len(queries) /\ Len(queries) \in Nat /\ Len(plays) \in Nat
      /\ editor[t].query \in 0..Len(queries) /\ editor[t].query \in Nat
  BY PageIs DEF EditorInv, EditorTypeOK, EditorTypes, Sql
<1>1. \A sql \in Sql \cup {NoSql}, q \in 0..Len(queries) :
        Playground(sql, q) \in EditorPage /\ PageHolds(Playground(sql, q))
  BY <1>0 DEF Playground, EditorPage, PageHolds
<1>2. ASSUME NEW sql \in Text, TypeSql(t, sql) PROVE EditorInv'
  <2>1. editor[t] \in [at : {"play"}, sql : Sql \cup {NoSql}, query : Nat]
    BY <1>0, <1>2 DEF TypeSql, InTab, EditorPage
  <2>2. [editor[t] EXCEPT !.sql = sql] = Playground(sql, editor[t].query)
    <3>1. PICK x \in Sql \cup {NoSql}, q \in Nat : editor[t] = [at |-> "play", sql |-> x, query |-> q]
      BY <2>1
    <3> QED BY <3>1 DEF Playground
  <2>3. Turns(t, Playground(sql, editor[t].query)) /\ UNCHANGED S /\ UNCHANGED shared
    BY <1>0, <1>2, <2>2 DEF TypeSql, Turns, lists
  <2> QED BY <1>0, <1>1, <2>3, TurnsInv
<1>3. ASSUME NEW then \in {"save", "share"}, FindPlay(t, then) PROVE EditorInv'
  <2>1. /\ editor[t].sql \in Sql /\ UNCHANGED S /\ UNCHANGED shared
    BY <1>3, PageIs DEF FindPlay, lists
  <2>2. CASE PlaysOf(editor[t].sql) = {}
    <3> DEFINE s == [at |-> "make", sql |-> editor[t].sql, query |-> editor[t].query, then |-> then]
    <3>1. Turns(t, s)
      BY <1>3, <2>2 DEF FindPlay
    <3>2. s \in EditorPage /\ PageHolds(s)
      BY <1>0, <2>1 DEF EditorPage, PageHolds
    <3> HIDE DEF s
    <3> QED BY <1>0, <2>1, <3>1, <3>2, TurnsInv
  <2>3. CASE PlaysOf(editor[t].sql) # {}
    <3>1. PICK i \in PlaysOf(editor[t].sql) : i = CHOOSE j \in PlaysOf(editor[t].sql) : TRUE
      BY <2>3
    <3> DEFINE s == [at |-> then, sql |-> editor[t].sql, query |-> editor[t].query, play |-> i]
    <3>2. Turns(t, s)
      BY <1>3, <2>3, <3>1 DEF FindPlay
    <3>3. i \in 1..Len(plays) /\ plays[i] = editor[t].sql /\ i \in Nat
      BY <1>0 DEF PlaysOf
    <3>4. s \in EditorPage
      BY <1>0, <2>1, <3>3 DEF EditorPage
    <3>5. PageHolds(s)
      BY <1>0, <3>3 DEF PageHolds, PlayIs
    <3> HIDE DEF s
    <3> QED BY <1>0, <2>1, <3>2, <3>4, <3>5, TurnsInv
  <2> QED BY <2>2, <2>3
<1>4. CASE MakePlay(t)
  <2> DEFINE x == editor[t].sql
             n == Len(plays) + 1
  <2>1. /\ x \in Sql /\ editor[t].then \in {"save", "share"} /\ plays' = Append(plays, x)
        /\ UNCHANGED <<queries, shared, reverted, grants, listCache, listCall, editorClock>>
    BY <1>4, PageIs DEF MakePlay, lists
  <2>2. /\ plays' \in Seq(Sql) /\ Len(plays') = n /\ plays'[n] = x
        /\ \A i \in 1..Len(plays) : plays'[i] = plays[i]
    BY <1>0, <2>1, AppendProperties
  <2>3. PICK s : s = [at |-> editor[t].then, sql |-> x, query |-> editor[t].query, play |-> n]
    OBVIOUS
  <2>4. Turns(t, s)
    BY <1>4, <2>3 DEF MakePlay
  <2>5. n \in Nat /\ n \in 1..n /\ Len(plays) <= n
    BY <1>0
  <2>6. s \in EditorPage
    BY <1>0, <2>1, <2>3, <2>5 DEF EditorPage
  <2>7. /\ s.at \in {"save", "share"} /\ s.query \in 0..Len(queries) /\ s.play = n /\ s.sql = x
    BY <1>0, <2>1, <2>3
  <2>8. PageHolds(s)'
    BY <2>1, <2>2, <2>5, <2>7 DEF PageHolds, PlayIs
  <2>9. \A q \in 1..Len(queries') : q \in reverted' \/ queries'[q].sql = queries'[q].saved
    BY <2>1 DEF EditorInv, SavedSqlStays
  <2>10. queries' \in Seq(QueryRow) /\ Len(queries) <= Len(queries')
    BY <1>0, <2>1
  <2>11. Len(plays) <= Len(plays')
    BY <2>2, <2>5
  <2> QED BY <2>1, <2>2, <2>4, <2>6, <2>8, <2>9, <2>10, <2>11, WritesInv
<1>5. CASE Share(t)
  <2>1. /\ editor[t].sql \in Sql /\ plays[editor[t].play] = editor[t].sql /\ UNCHANGED S
        /\ shared' = shared \cup {<<editor[t].sql, plays[editor[t].play]>>}
        /\ Turns(t, Playground(plays[editor[t].play], editor[t].query))
    BY <1>5, PageIs DEF Share, InTab, PlayIs, lists
  <2> QED BY <1>0, <1>1, <2>1, TurnsInv
<1>6. CASE EditAgain(t)
  <2>1. FormSql(t) \in Sql /\ Turns(t, Playground(FormSql(t), editor[t].query)) /\ UNCHANGED S
        /\ UNCHANGED shared
    BY <1>6, FormSqlIs DEF EditAgain, lists
  <2> QED BY <1>0, <1>1, <2>1, TurnsInv
<1>7. ASSUME NEW q \in 1..Len(queries), OpenQuery(t, q) PROVE EditorInv'
  <2> DEFINE s == [at |-> "detail", query |-> q, play |-> 0]
  <2>1. Turns(t, s) /\ UNCHANGED S /\ UNCHANGED shared
    BY <1>7 DEF OpenQuery, lists
  <2>2. q \in Nat /\ q # 0 /\ q \in 0..Len(queries)
    BY <1>0
  <2>3. s \in EditorPage /\ PageHolds(s)
    BY <2>2 DEF EditorPage, PageHolds
  <2> HIDE DEF s
  <2> QED BY <1>0, <2>1, <2>3, TurnsInv
<1>8. CASE NotFound(t)
  <2>1. Turns(t, Playground(NoSql, 0)) /\ UNCHANGED S /\ UNCHANGED shared
    BY <1>8 DEF NotFound, lists
  <2> QED BY <1>0, <1>1, <2>1, TurnsInv
<1> QED BY <1>2, <1>3, <1>4, <1>5, <1>6, <1>7, <1>8

\* One row of Query is written, and no text of a playground.
LEMMA WriteQueryInv ==
  ASSUME EditorInv, NEW t \in EditorTab, NEW s \in EditorPage, Turns(t, s), PageHolds(s),
         NEW q \in 1..Len(queries), NEW row \in QueryRow,
         queries' = [queries EXCEPT ![q] = row],
         \A p \in 1..Len(queries) : p # q /\ p \in reverted => p \in reverted',
         q \in reverted' \/ row.sql = row.saved,
         UNCHANGED <<plays, shared, grants, listCache, listCall, editorClock>>
  PROVE  EditorInv'
<1>1. queries \in Seq(QueryRow) /\ plays \in Seq(Sql) /\ Len(queries) \in Nat /\ Len(plays) \in Nat
  BY PageIs DEF EditorInv, EditorTypes
<1>2. /\ queries' \in Seq(QueryRow) /\ Len(queries') = Len(queries)
      /\ \A p \in 1..Len(queries) : queries'[p] = IF p = q THEN row ELSE queries[p]
  BY <1>1, ExceptSeq
<1>3. \A p \in 1..Len(queries') : p \in reverted' \/ queries'[p].sql = queries'[p].saved
  BY <1>2 DEF EditorInv, SavedSqlStays
<1>4. PageHolds(s)'
  BY <1>2 DEF PageHolds, PlayIs
<1>5. /\ Len(queries) <= Len(queries') /\ Len(plays) <= Len(plays') /\ plays' \in Seq(Sql)
      /\ \A i \in 1..Len(plays) : plays'[i] = plays[i]
  BY <1>1, <1>2
<1> QED BY <1>2, <1>3, <1>4, <1>5, WritesInv

LEMMA SavingInv ==
  ASSUME EditorInv, NEW t \in EditorTab,
         CreateQuery(t) \/ ViewQuery(t) \/ SaveViewed(t) \/ SaveQuery(t) \/ DeleteQuery(t)
  PROVE  EditorInv'
<1>0. /\ queries \in Seq(QueryRow) /\ plays \in Seq(Sql) /\ editor[t] \in EditorPage
      /\ Len(queries) \in Nat /\ Len(plays) \in Nat
      /\ editor[t].query \in 0..Len(queries) /\ editor[t].query \in Nat
      /\ \A mail \in shared : mail[1] = mail[2]
  BY PageIs DEF EditorInv, EditorTypes, EditorTypeOK
<1>1. \A q \in 1..Len(queries) : queries[q] \in QueryRow
  BY <1>0, ElementOfSeq
<1>2. CASE CreateQuery(t)
  <2>1. PICK x \in Sql : x = editor[t].sql /\ plays[editor[t].play] = x
    BY <1>2, PageIs DEF CreateQuery, InTab, PlayIs
  <2>2. UNCHANGED <<plays, shared, reverted, grants, listCache, listCall, editorClock>>
    BY <1>2 DEF CreateQuery, lists
  <2>3. PICK row \in QueryRow : row = [sql |-> x, saved |-> x] /\ row.sql = row.saved
    <3>1. [sql |-> x, saved |-> x] \in QueryRow
      BY <2>1 DEF QueryRow
    <3> QED BY <3>1
  <2>4. PICK n \in Nat : n = Len(queries) + 1 /\ n # 0 /\ n \in 0..n /\ Len(queries) <= n
    BY <1>0
  <2>5. PICK s \in EditorPage : s = [at |-> "detail", query |-> n, play |-> 0]
    BY DEF EditorPage
  <2>6. queries' = Append(queries, row) /\ Turns(t, s)
    BY <1>2, <2>1, <2>3, <2>4, <2>5 DEF CreateQuery
  <2>7. /\ queries' \in Seq(QueryRow) /\ Len(queries') = n /\ queries'[n] = row
        /\ \A p \in 1..Len(queries) : queries'[p] = queries[p]
    BY <1>0, <2>4, <2>6, AppendProperties
  <2>8. \A p \in 1..Len(queries') : p \in 1..Len(queries) \/ p = n
    BY <1>0, <2>4, <2>7
  <2>9. \A p \in 1..Len(queries') : p \in reverted' \/ queries'[p].sql = queries'[p].saved
    BY <2>2, <2>3, <2>7, <2>8 DEF EditorInv, SavedSqlStays
  <2>10. PageHolds(s)'
    BY <2>4, <2>5, <2>7 DEF PageHolds
  <2>11. Len(plays) <= Len(plays') /\ plays' \in Seq(Sql) /\ \A i \in 1..Len(plays) : plays'[i] = plays[i]
    BY <1>0, <2>2
  <2>12. Len(queries) <= Len(queries')
    BY <2>4, <2>7
  <2> QED BY <2>2, <2>6, <2>7, <2>9, <2>10, <2>11, <2>12, WritesInv
<1>3. CASE ViewQuery(t)
  <2> DEFINE x == IF editor[t].at = "save" THEN editor[t].sql ELSE NoSql
  <2>1. /\ editor[t].at \in {"detail", "save"} /\ editor[t].query # 0
        /\ Turns(t, [at |-> "viewing", query |-> editor[t].query, play |-> editor[t].play,
                     row |-> queries[editor[t].query], sql |-> x])
        /\ UNCHANGED <<queries, plays, shared, reverted, grants, listCache, listCall, editorClock>>
    BY <1>3 DEF ViewQuery, lists
  <2>2. /\ editor[t].play \in Nat /\ x \in Sql \cup {NoSql}
        /\ editor[t].play = 0 \/ (editor[t].play \in 1..Len(plays) /\ plays[editor[t].play] = x)
    BY <2>1, PageIs DEF InTab, PlayIs
  <2>3. queries[editor[t].query] \in QueryRow
    BY <1>0, <1>1, <2>1
  <2> HIDE DEF x
  <2> DEFINE s == [at |-> "viewing", query |-> editor[t].query, play |-> editor[t].play,
                   row |-> queries[editor[t].query], sql |-> x]
  <2>4. s \in EditorPage
    BY <1>0, <2>2, <2>3 DEF EditorPage
  <2>5. PageHolds(s)
    BY <1>0, <2>1, <2>2 DEF PageHolds, PlayIs
  <2>6. Turns(t, s)
    BY <2>1
  <2> HIDE DEF s
  <2> QED BY <1>0, <2>1, <2>4, <2>5, <2>6, TurnsInv
<1>4. CASE SaveViewed(t)
  <2> DEFINE q == editor[t].query
             s == [at |-> "page", query |-> q, play |-> editor[t].play, sql |-> editor[t].sql]
             row == [sql |-> editor[t].row.sql, saved |-> queries[q].saved]
  <2>1. /\ q # 0 /\ editor[t].play \in Nat /\ editor[t].sql \in Sql \cup {NoSql}
        /\ editor[t].play = 0 \/ PlayIs(editor[t])
        /\ editor[t].row \in QueryRow
    BY <1>4, PageIs DEF SaveViewed, InTab
  <2>2. q \in 1..Len(queries)
    BY <1>0, <2>1
  <2>3. [queries[q] EXCEPT !.sql = editor[t].row.sql] = row /\ row \in QueryRow
    <3>1. PICK x \in Sql, y \in Sql : queries[q] = [sql |-> x, saved |-> y]
      BY <1>1, <2>2 DEF QueryRow
    <3> QED BY <2>1, <3>1 DEF QueryRow
  <2>4. queries' = [queries EXCEPT ![q] = row]
    BY <1>0, <1>4, <2>2, <2>3 DEF SaveViewed
  <2>5. /\ reverted' = IF queries[q] = editor[t].row THEN reverted ELSE reverted \cup {q}
        /\ UNCHANGED <<plays, shared, grants, listCache, listCall, editorClock>> /\ Turns(t, s)
    BY <1>4 DEF SaveViewed, lists
  <2>6. q \in reverted' \/ row.sql = row.saved
    <3>1. q \in reverted \/ queries[q].sql = queries[q].saved
      BY <2>2 DEF EditorInv, SavedSqlStays
    <3> QED BY <2>5, <3>1
  <2>7. s \in EditorPage /\ PageHolds(s)
    BY <1>0, <2>1 DEF EditorPage, PageHolds, PlayIs
  <2>8. \A p \in 1..Len(queries) : p # q /\ p \in reverted => p \in reverted'
    BY <2>5
  <2> HIDE DEF s, row, q
  <2> QED BY <2>2, <2>3, <2>4, <2>5, <2>6, <2>7, <2>8, WriteQueryInv
<1>5. CASE SaveQuery(t)
  <2> DEFINE q == editor[t].query
             s == [at |-> "detail", query |-> q, play |-> 0]
             row == [sql |-> FormSql(t), saved |-> editor[t].sql]
  <2>1. InTab(t, "page") /\ q # 0 /\ FormSql(t) \in Sql /\ FormSql(t) = editor[t].sql
    BY <1>5, PageIs, FormSqlIs DEF SaveQuery, InTab
  <2>2. q \in 1..Len(queries) /\ row \in QueryRow /\ row.sql = row.saved
    BY <1>0, <2>1 DEF QueryRow
  <2>3. /\ queries' = [queries EXCEPT ![q] = row] /\ reverted' = reverted \ {q} /\ Turns(t, s)
        /\ UNCHANGED <<plays, shared, grants, listCache, listCall, editorClock>>
    BY <1>5 DEF SaveQuery, lists
  <2>4. s \in EditorPage /\ PageHolds(s)
    BY <1>0, <2>1 DEF EditorPage, PageHolds
  <2> HIDE DEF s, row, q
  <2> QED BY <2>2, <2>3, <2>4, WriteQueryInv
<1>6. CASE DeleteQuery(t)
  <2> DEFINE q == editor[t].query
             s == Playground(NoSql, 0)
             row == [sql |-> "deleted", saved |-> "deleted"]
  <2>1. InTab(t, "page") /\ q # 0
    BY <1>6, PageIs DEF DeleteQuery, InTab
  <2>2. q \in 1..Len(queries) /\ row \in QueryRow /\ row.sql = row.saved
    BY <1>0, <2>1 DEF QueryRow, Sql
  <2>3. /\ queries' = [queries EXCEPT ![q] = row] /\ Turns(t, s)
        /\ UNCHANGED <<plays, shared, reverted, grants, listCache, listCall, editorClock>>
    BY <1>6 DEF DeleteQuery, lists
  <2>4. s \in EditorPage /\ PageHolds(s)
    BY <1>0 DEF EditorPage, PageHolds, Playground
  <2> HIDE DEF s, row, q
  <2> QED BY <2>2, <2>3, <2>4, WriteQueryInv
<1> QED BY <1>2, <1>3, <1>4, <1>5, <1>6

\* The list of tables: what is read, stored and cleared.
LEMMA TableListsInv ==
  ASSUME EditorInv, EditorLists
  PROVE  EditorInv'
<1>1. UNCHANGED texts
  BY DEF EditorLists, ReadSchema, StoreTables, ChangeGrants, ClearTables, MinuteGoesBy
<1>2. /\ grants.version \in Nat \ {0} /\ grants.since \in Nat /\ editorClock \in Nat
      /\ listCache.version \in Nat /\ listCache.stored \in Nat
      /\ grants \in [version : Nat \ {0}, since : Nat] /\ listCache \in [version : Nat, stored : Nat]
      /\ listCall \in [EditorTab -> Nat] /\ listCache.version <= grants.version
      /\ ListsRead
  BY DEF EditorInv, EditorTypes, EditorTypeOK
<1> DEFINE Kept == /\ grants' \in [version : Nat \ {0}, since : Nat]
                   /\ listCache' \in [version : Nat, stored : Nat]
                   /\ listCall' \in [EditorTab -> Nat] /\ editorClock' \in Nat
                   /\ listCache'.version <= grants'.version
                   /\ ListsRead'
<1>3. ASSUME NEW t \in EditorTab, ReadSchema(t) PROVE Kept
  <2>1. /\ UNCHANGED <<grants, listCache, editorClock>>
        /\ listCall' \in [EditorTab -> Nat]
        /\ \A u \in EditorTab : listCall'[u] = IF u = t THEN grants.version ELSE listCall[u]
    BY <1>2, <1>3 DEF ReadSchema
  <2>2. ListsRead'
    BY <1>2, <2>1 DEF ListsRead
  <2> QED BY <1>2, <2>1, <2>2
<1>4. ASSUME NEW t \in EditorTab, StoreTables(t) PROVE Kept
  <2>1. /\ UNCHANGED <<grants, editorClock>> /\ listCall[t] # 0
        /\ listCall' \in [EditorTab -> Nat]
        /\ \A u \in EditorTab : listCall'[u] = IF u = t THEN 0 ELSE listCall[u]
        /\ listCache' = [version |-> listCall[t], stored |-> editorClock]
    BY <1>2, <1>4 DEF StoreTables
  <2>2. listCall[t] \in Nat /\ listCall[t] <= grants.version
        /\ (listCall[t] # grants.version => grants.since = editorClock)
    BY <1>2, <2>1 DEF ListsRead
  <2>3. ListsRead'
    BY <1>2, <2>1, <2>2 DEF ListsRead
  <2> QED BY <1>2, <2>1, <2>2, <2>3
<1>5. ASSUME ChangeGrants PROVE Kept
  <2>1. /\ UNCHANGED <<listCache, listCall, editorClock>>
        /\ grants' = [version |-> grants.version + 1, since |-> editorClock]
    BY <1>5 DEF ChangeGrants
  <2>2. \A t \in EditorTab : listCall[t] \in Nat /\ listCall[t] <= grants.version
    BY <1>2 DEF ListsRead
  <2>3. \A t \in EditorTab : listCall[t] <= grants.version + 1
    BY <1>2, <2>2
  <2>4. ListsRead'
    BY <1>2, <2>1, <2>3 DEF ListsRead
  <2> QED BY <1>2, <2>1, <2>4
<1>6. ASSUME ClearTables PROVE Kept
  <2>1. UNCHANGED <<grants, listCall, editorClock>> /\ listCache' = [version |-> 0, stored |-> 0]
    BY <1>6 DEF ClearTables
  <2>2. ListsRead'
    BY <1>2, <2>1 DEF ListsRead
  <2> QED BY <1>2, <2>1, <2>2
<1>7. ASSUME MinuteGoesBy PROVE Kept
  <2>1. /\ editorClock' = editorClock + 1 /\ \A t \in EditorTab : listCall[t] = 0
        /\ UNCHANGED <<grants, listCall, listCache>>
    BY <1>7 DEF MinuteGoesBy
  <2>2. ListsRead'
    BY <1>2, <2>1 DEF ListsRead
  <2> QED BY <1>2, <2>1, <2>2
<1>8. Kept
  BY <1>3, <1>4, <1>5, <1>6, <1>7 DEF EditorLists
<1>9. UNCHANGED <<queries, plays, editor, shared, reverted>>
  BY <1>1 DEF texts
<1> QED BY <1>8, <1>9 DEF EditorInv, EditorTypes, EditorTypeOK, SavedSqlStays, PageHolds, PlayIs

\* What is typed, saved and shared keeps its meaning (the wizard of Data Explorer), and the
\* tables that are listed were read while they were (explorer/schema.py).
THEOREM EditorInvariance == EditorSpec => []EditorInv
<1>1. EditorInit => EditorInv
  BY EditorInitInv
<1>2. EditorInv /\ [EditorNext]_editorVars => EditorInv'
  <2> SUFFICES ASSUME EditorInv, [EditorNext]_editorVars PROVE EditorInv'
    OBVIOUS
  <2>1. ASSUME NEW t \in EditorTab, EditorTexts(t) PROVE EditorInv'
    BY <2>1, PlaygroundInv, SavingInv DEF EditorTexts
  <2>2. CASE UNCHANGED editorVars
    BY <2>2 DEF editorVars, EditorInv, EditorTypes, EditorTypeOK, SavedSqlStays, ListsRead, PageHolds, PlayIs
  <2> QED BY <2>1, <2>2, TableListsInv DEF EditorNext
<1> QED BY <1>1, <1>2, PTL DEF EditorSpec

\* Opening pages changes nothing that was saved, a share sends the SQL that was typed in its
\* tab, and lists are not older than their cache, for any tabs and texts (QueryView.get,
\* ShareQueryView, explorer/schema.py).
THEOREM EditorIsSafe == EditorSpec => []EditorSafety
<1>1. EditorInv => EditorSafety
  <2> SUFFICES ASSUME EditorInv PROVE EditorSafety
    OBVIOUS
  <2>1. ListIsFresh
    BY DEF EditorInv, EditorTypes, ListsRead, ListIsFresh, TablesCached
  <2> QED BY <2>1 DEF EditorInv, EditorSafety
<1> QED BY <1>1, EditorInvariance, PTL

(***************************************************************************)
(* The name servers' sets of DHCP options.                                 *)
(***************************************************************************)
\* One container that moves changes the number of those by one at most.
LEMMA MakersMove ==
  ASSUME starting \in [Container -> Place],
         NEW c \in Container, NEW there \in Place, Moves(c, there)
  PROVE  /\ Cardinality(Makers) \in Nat /\ Cardinality(Makers') \in Nat
         /\ Cardinality(Makers') <= Cardinality(Makers) + 1
         /\ there \notin {"finding", "creating"} \/ c \in Makers =>
               Cardinality(Makers') <= Cardinality(Makers)
         /\ there \notin {"finding", "creating"} /\ c \in Makers =>
               Cardinality(Makers) = Cardinality(Makers') + 1
<1>1. starting' = [starting EXCEPT ![c] = there]
  BY DEF Moves
<1>2. IsFiniteSet(Makers) /\ IsFiniteSet(Makers')
  BY DhcpAssumption, FS_Subset DEF Makers
<1>3. Makers' = IF there \in {"finding", "creating"} THEN Makers \cup {c} ELSE Makers \ {c}
  BY <1>1 DEF Makers
<1>4. /\ Cardinality(Makers) \in Nat /\ Cardinality(Makers') \in Nat
      /\ Cardinality(Makers \cup {c}) = IF c \in Makers THEN Cardinality(Makers)
                                        ELSE Cardinality(Makers) + 1
      /\ Cardinality(Makers \ {c}) = IF c \in Makers THEN Cardinality(Makers) - 1
                                     ELSE Cardinality(Makers)
  BY <1>2, FS_CardinalityType, FS_AddElement, FS_RemoveElement
<1> QED BY <1>3, <1>4

LEMMA DhcpInitInv == DhcpInit => DhcpInv
<1> SUFFICES ASSUME DhcpInit PROVE DhcpInv
  OBVIOUS
<1>1. Makers = {}
  BY DEF DhcpInit, Makers
<1>2. StartsInv
  BY <1>1, FS_EmptySet, DhcpAssumption DEF DhcpInit, StartsInv
<1>3. DhcpTypeOK
  <2>1. 0 \in 0 .. MaxStarts /\ 1 \in 1 .. MaxStarts + 1
    BY DhcpAssumption
  <2> QED BY <2>1 DEF DhcpInit, DhcpTypeOK, Place
<1>4. UnusedSetInv
  BY DEF DhcpInit, UnusedSetInv, Unused
<1>5. UntroubledInv
  BY DEF DhcpInit, UntroubledInv, InScript, ScriptAlone, OneSetIsLeft, Unused
<1> QED BY <1>2, <1>3, <1>4, <1>5 DEF DhcpInv

LEMMA DhcpStepInv ==
  ASSUME DhcpInv, NEW c \in Container,
         \/ ContainerStarts(c) \/ FindExisting(c) \/ CreateOptions(c)
         \/ TagOptions(c) \/ AssociateOptions(c) \/ DeleteExisting(c)
         \/ DeleteRefused(c) \/ ScriptFails(c) \/ ServerStops(c)
  PROVE  DhcpInv'
<1>1. /\ DhcpTypeOK /\ StartsInv /\ UnusedSetInv /\ UntroubledInv
      /\ starting \in [Container -> Place]
  BY DEF DhcpInv, DhcpTypeOK
<1>n. MaxStarts \in Nat
  BY DhcpAssumption
<1> USE DEF InScript, Unused, Place
<1>2. /\ StartsInv' /\ nextSet' \in Nat /\ nextSet' <= MaxStarts + 1
      /\ \A o \in optionSets' : o \in Nat /\ o < nextSet'
  <2>1. nextSet \in Nat /\ starts \in Nat /\ starts <= MaxStarts /\ nextSet + Cardinality(Makers) <= starts + 1
    BY <1>1, <1>n DEF DhcpTypeOK, StartsInv
  <2>2. PICK there \in Place : Moves(c, there)
    BY DEF Place, ContainerStarts, FindExisting, CreateOptions, TagOptions, AssociateOptions,
           DeleteExisting, DeleteRefused, ScriptFails, ServerStops
  <2>3. nextSet' + Cardinality(Makers') <= starts' + 1 /\ Cardinality(Makers') \in Nat
        /\ starts' \in Nat /\ starts' <= MaxStarts
    <3>1. CASE ContainerStarts(c)
      BY <1>1, <1>n, <2>1, <3>1, MakersMove DEF Place, ContainerStarts
    <3>2. CASE FindExisting(c)
      <4>1. c \in Makers
        BY <3>2 DEF FindExisting, Makers
      <4> QED BY <1>1, <2>1, <3>2, <4>1, MakersMove DEF Place, FindExisting
    <3>3. CASE CreateOptions(c)
      <4>1. c \in Makers
        BY <3>3 DEF CreateOptions, Makers
      <4>2. Moves(c, "tagging") /\ nextSet' = nextSet + 1 /\ starts' = starts
        BY <3>3 DEF CreateOptions
      <4>3. Cardinality(Makers) = Cardinality(Makers') + 1 /\ Cardinality(Makers') \in Nat
            /\ Cardinality(Makers) \in Nat
        BY <1>1, <4>1, <4>2, MakersMove DEF Place
      <4> QED BY <2>1, <4>2, <4>3
    <3>4. CASE \/ TagOptions(c) \/ AssociateOptions(c) \/ DeleteExisting(c)
               \/ DeleteRefused(c) \/ ScriptFails(c) \/ ServerStops(c)
      <4>1. PICK away \in Place : Moves(c, away) /\ away \notin {"finding", "creating"}
        BY <3>4 DEF Place, TagOptions, AssociateOptions, DeleteExisting, DeleteRefused,
                    ScriptFails, ServerStops
      <4>2. UNCHANGED <<nextSet, starts>>
        BY <3>4 DEF TagOptions, AssociateOptions, DeleteExisting, DeleteRefused,
                    ScriptFails, ServerStops
      <4>3. Cardinality(Makers') <= Cardinality(Makers) /\ Cardinality(Makers') \in Nat
            /\ Cardinality(Makers) \in Nat
        BY <1>1, <4>1, MakersMove
      <4> QED BY <2>1, <4>2, <4>3
    <3> QED BY <3>1, <3>2, <3>3, <3>4
  <2>4. /\ \A o \in optionSets' : o \in Nat /\ o < nextSet'
        /\ \A d \in Container : existing'[d] < nextSet' /\ created'[d] < nextSet'
    <3>0. /\ associated \in optionSets
          /\ \A o \in optionSets : o \in Nat /\ o < nextSet
          /\ existing \in [Container -> Nat] /\ created \in [Container -> Nat]
          /\ \A d \in Container : existing[d] < nextSet /\ created[d] < nextSet
      BY <1>1, <1>n DEF DhcpTypeOK, StartsInv
    <3>1. CASE FindExisting(c)
      <4>1. associated \in Nat /\ associated < nextSet
        BY <3>0
      <4>2. /\ UNCHANGED <<optionSets, nextSet, created>>
            /\ existing' = [existing EXCEPT ![c] = associated]
        BY <3>1 DEF FindExisting
      <4> QED BY <3>0, <4>1, <4>2
    <3>2. CASE CreateOptions(c)
      BY <2>1, <3>0, <3>2 DEF CreateOptions
    <3>3. CASE ~FindExisting(c) /\ ~CreateOptions(c)
      <4>1. /\ UNCHANGED <<existing, created, nextSet>>
            /\ optionSets' \subseteq optionSets
        BY <3>3 DEF ContainerStarts, TagOptions, AssociateOptions, DeleteExisting,
                    DeleteRefused, ScriptFails, ServerStops
      <4> QED BY <3>0, <4>1
    <3> QED BY <3>1, <3>2, <3>3
  <2>5. nextSet' \in Nat
    BY <2>1 DEF ContainerStarts, FindExisting, CreateOptions, TagOptions,
         AssociateOptions, DeleteExisting, DeleteRefused, ScriptFails, ServerStops
  <2>6. nextSet' <= MaxStarts + 1
    BY <1>n, <2>3, <2>5
  <2>7. StartsInv'
    BY <2>3, <2>4 DEF StartsInv
  <2> QED BY <2>4, <2>5, <2>6, <2>7
<1>3. associated' \in optionSets'
  BY <1>1 DEF DhcpTypeOK, UnusedSetInv, StartsInv, ContainerStarts, FindExisting,
       CreateOptions, TagOptions, AssociateOptions, DeleteExisting, DeleteRefused,
       ScriptFails, ServerStops, Moves, MayDelete
<1>4. DhcpTypeOK'
  <2>1. /\ starting' \in [Container -> Place]
        /\ existing' \in [Container -> 0 .. MaxStarts]
        /\ created' \in [Container -> 0 .. MaxStarts]
        /\ starts' \in 0 .. MaxStarts /\ troubled' \in BOOLEAN
    <3>1. nextSet \in 0 .. MaxStarts \/ ~CreateOptions(c)
      BY <1>2, <1>1, <1>n DEF CreateOptions, DhcpTypeOK
    <3>2. associated \in 0 .. MaxStarts
      BY <1>1 DEF DhcpTypeOK
    <3>5. troubled' \in BOOLEAN
      BY <1>1 DEF DhcpTypeOK, ContainerStarts, FindExisting, CreateOptions, TagOptions,
         AssociateOptions, DeleteExisting, DeleteRefused, ScriptFails, ServerStops
    <3>3. starting' \in [Container -> Place] /\ starts' \in 0 .. MaxStarts
      BY <1>1, <1>n DEF DhcpTypeOK, ContainerStarts, FindExisting, CreateOptions, TagOptions,
         AssociateOptions, DeleteExisting, DeleteRefused, ScriptFails, ServerStops, Moves
    <3>4. existing' \in [Container -> 0 .. MaxStarts] /\ created' \in [Container -> 0 .. MaxStarts]
      BY <1>1, <3>1, <3>2 DEF DhcpTypeOK, ContainerStarts, FindExisting, CreateOptions,
         TagOptions, AssociateOptions, DeleteExisting, DeleteRefused, ScriptFails, ServerStops
    <3> QED BY <3>3, <3>4, <3>5
  <2>4. nextSet' \in 1 .. MaxStarts + 1
    BY <1>1, <1>2, <1>n DEF DhcpTypeOK, ContainerStarts, FindExisting,
         CreateOptions, TagOptions, AssociateOptions, DeleteExisting, DeleteRefused,
         ScriptFails, ServerStops
  <2>2. optionSets' \subseteq 0 .. MaxStarts
    <3> SUFFICES ASSUME NEW o \in optionSets' PROVE o \in 0 .. MaxStarts
      OBVIOUS
    <3>1. o \in Nat /\ o < nextSet'
      BY <1>2
    <3>2. nextSet' \in Nat /\ nextSet' <= MaxStarts + 1
      BY <1>2
    <3> QED BY <1>n, <3>1, <3>2
  <2>3. \A d \in Container : starting'[d] = "serving" => existing'[d] \notin optionSets'
    BY <1>1 DEF DhcpTypeOK, StartsInv, ContainerStarts, FindExisting,
       CreateOptions, TagOptions, AssociateOptions, DeleteExisting, DeleteRefused,
       ScriptFails, ServerStops, Moves
  <2> QED BY <1>3, <2>1, <2>2, <2>3, <2>4 DEF DhcpTypeOK
<1>5. UnusedSetInv'
  <2>1. CASE CreateOptions(c)
    BY <1>1, <2>1 DEF DhcpTypeOK, StartsInv, UnusedSetInv, CreateOptions, Moves
  <2>2. CASE ~CreateOptions(c)
    BY <1>1, <2>2 DEF DhcpTypeOK, StartsInv, UnusedSetInv, ContainerStarts, FindExisting,
       TagOptions, AssociateOptions, DeleteExisting, DeleteRefused,
       ScriptFails, ServerStops, Moves, MayDelete
  <2> QED BY <2>1, <2>2
<1>6. UntroubledInv'
  <2> SUFFICES ASSUME ~troubled' PROVE UntroubledInv'
    BY DEF UntroubledInv
  <2>1. ~troubled /\ ~ScriptFails(c)
    BY <1>1 DEF DhcpTypeOK, ContainerStarts, FindExisting,
       CreateOptions, TagOptions, AssociateOptions, DeleteExisting, DeleteRefused,
       ScriptFails, ServerStops
  <2>2. /\ \A d, e \in Container : InScript(d) /\ InScript(e) => d = e
        /\ \A d \in Container : ScriptAlone(d)
        /\ OneSetIsLeft
    BY <1>1, <2>1 DEF UntroubledInv
  <2>3. \A d, e \in Container : InScript(d)' /\ InScript(e)' => d = e
    BY <1>1, <2>1, <2>2 DEF DhcpTypeOK, ContainerStarts, FindExisting,
       CreateOptions, TagOptions, AssociateOptions, DeleteExisting, DeleteRefused,
       ScriptFails, ServerStops, Moves
  <2>4. ScriptAlone(c)'
    <3>0. /\ starting \in [Container -> Place] /\ existing \in [Container -> 0 .. MaxStarts]
          /\ created \in [Container -> 0 .. MaxStarts]
          /\ ScriptAlone(c) /\ OneSetIsLeft
      BY <1>1, <2>2 DEF DhcpTypeOK
    <3>1. CASE ContainerStarts(c)
      BY <2>1, <3>0, <3>1 DEF ContainerStarts, DhcpTypeOK, OneSetIsLeft, ScriptAlone, Moves
    <3>2. CASE FindExisting(c)
      BY <3>0, <3>2 DEF FindExisting, ScriptAlone, Moves
    <3>3. CASE CreateOptions(c)
      BY <3>0, <3>3 DEF CreateOptions, ScriptAlone, Moves
    <3>4. CASE TagOptions(c)
      BY <3>0, <3>4 DEF TagOptions, ScriptAlone, Moves
    <3>5. CASE AssociateOptions(c)
      <4>1. created[c] # associated
        BY <1>1, <3>5 DEF AssociateOptions, UnusedSetInv
      <4> QED BY <3>0, <3>5, <4>1 DEF AssociateOptions, ScriptAlone, Moves
    <3>6. CASE DeleteExisting(c) \/ DeleteRefused(c) \/ ServerStops(c)
      BY <3>0, <3>6 DEF DeleteExisting, DeleteRefused, ServerStops, ScriptAlone, Moves
    <3> QED BY <2>1, <3>1, <3>2, <3>3, <3>4, <3>5, <3>6
  <2>5. ASSUME \A d \in Container : ~InScript(d)' PROVE optionSets' = {associated'}
    BY <1>1, <2>5, <2>1, <2>2, <2>4 DEF DhcpTypeOK, StartsInv, OneSetIsLeft, ScriptAlone, ContainerStarts, FindExisting,
       CreateOptions, TagOptions, AssociateOptions, DeleteExisting, DeleteRefused,
       ScriptFails, ServerStops, Moves, MayDelete
  <2>6. ASSUME NEW d \in Container, d # c PROVE ScriptAlone(d)'
    <3>1. starting'[d] = starting[d]
      BY <2>6, <1>1 DEF DhcpTypeOK, ContainerStarts, FindExisting,
       CreateOptions, TagOptions, AssociateOptions, DeleteExisting, DeleteRefused,
       ScriptFails, ServerStops, Moves
    <3>2. CASE InScript(d)
      <4>0. CASE ServerStops(c)
        <5>1. UNCHANGED <<associated, optionSets, existing, created>>
          BY <4>0 DEF ServerStops
        <5> QED BY <2>2, <3>1, <5>1 DEF ScriptAlone
      <4>1. InScript(c) \/ InScript(c)' \/ ServerStops(c)
        BY <1>1 DEF DhcpTypeOK, ContainerStarts, FindExisting,
       CreateOptions, TagOptions, AssociateOptions, DeleteExisting, DeleteRefused,
       ScriptFails, ServerStops, Moves
      <4> QED BY <2>2, <2>3, <2>6, <3>1, <3>2, <4>0, <4>1
    <3>3. CASE ~InScript(d)
      BY <3>1, <3>3 DEF ScriptAlone
    <3> QED BY <3>2, <3>3
  <2> QED BY <2>3, <2>4, <2>5, <2>6 DEF UntroubledInv, OneSetIsLeft
<1> QED BY <1>2, <1>4, <1>5, <1>6 DEF DhcpInv

\* In every state, a set that a script made and has not associated is its own, and the
\* scripts of starts that neither failed nor overlapped know all sets there are (set-dhcp.py).
THEOREM DhcpInvariance == DhcpSpec => []DhcpInv
<1>1. DhcpInv /\ [DhcpNext]_dhcpVars => DhcpInv'
  <2> SUFFICES ASSUME DhcpInv, [DhcpNext]_dhcpVars PROVE DhcpInv'
    OBVIOUS
  <2>1. CASE UNCHANGED dhcpVars
    BY <2>1 DEF dhcpVars, DhcpInv, DhcpTypeOK, StartsInv, UnusedSetInv, UntroubledInv,
         Unused, InScript, ScriptAlone, OneSetIsLeft, Makers
  <2>2. CASE DhcpNext
    BY <2>2, DhcpStepInv DEF DhcpNext
  <2> QED BY <2>1, <2>2
<1> QED BY DhcpInitInv, <1>1, PTL DEF DhcpSpec

\* Starts that neither fail nor overlap leave one set of options, for any number of
\* containers and starts (set-dhcp.py, entrypoint.sh).
THEOREM DhcpIsSafe == DhcpSpec => []DhcpSafety
<1>1. DhcpInv => DhcpSafety
  <2> SUFFICES ASSUME DhcpInv PROVE OneSetIsLeft
    BY DEF DhcpInv, DhcpSafety
  <2>1. CASE troubled
    BY <2>1 DEF OneSetIsLeft
  <2>2. CASE ~troubled
    BY <2>2 DEF DhcpInv, UntroubledInv
  <2> QED BY <2>1, <2>2
<1> QED BY <1>1, DhcpInvariance, PTL

(***************************************************************************)
(* The pages of the API.                                                   *)
(***************************************************************************)
\* Every set of keys is finite, and its members are natural numbers above 0.
LEMMA KeysAre ==
  ASSUME NEW S \in SUBSET ApiKey
  PROVE  /\ IsFiniteSet(S) /\ Cardinality(S) \in Nat
         /\ \A k \in S : k \in Nat /\ k > 0 /\ k <= LastKey
         /\ Cardinality(S) = 0 <=> S = {}
<1>1. IsFiniteSet(ApiKey) /\ \A k \in ApiKey : k \in Nat /\ k > 0 /\ k <= LastKey
  BY FS_Interval, ApiAssumption DEF ApiKey
<1>2. IsFiniteSet(S)
  BY <1>1, FS_Subset
<1> QED BY <1>1, <1>2, FS_CardinalityType, FS_EmptySet

\* The highest of a set of keys; 0 when there is none.
LEMMA HighestIs ==
  ASSUME NEW S \in SUBSET ApiKey
  PROVE  /\ Highest(S) \in S \cup {0} /\ \A k \in S : k <= Highest(S)
         /\ Highest(S) \in 0..LastKey
         /\ S # {} => Highest(S) \in S
<1> DEFINE U == {b \in Nat : \A k \in S : k <= b}
<1> DEFINE R == {p \in Nat \X Nat : p[1] < p[2]}
<1>1. LastKey \in U
  BY KeysAre, ApiAssumption
<1>2. IsWellFoundedOn(R, Nat)
  BY NatLessThanWellFounded DEF OpToRel
<1>3. PICK b \in U : \A c \in U : <<c, b>> \notin R
  <2>1. U \in SUBSET Nat /\ U # {}
    BY <1>1
  <2> HIDE DEF U, R
  <2> QED BY <1>2, <2>1, WFMin
<1>4. b \in S \cup {0}
  <2> SUFFICES ASSUME b # 0, b \notin S PROVE FALSE
    OBVIOUS
  <2>1. b - 1 \in U
    <3>1. \A k \in S : k \in Nat /\ k <= b /\ k # b
      BY <1>3, KeysAre
    <3>2. b \in Nat /\ b - 1 \in Nat /\ \A k \in S : k <= b - 1
      BY <1>3, <3>1
    <3> QED BY <3>2
  <2>2. <<b - 1, b>> \in R
    BY <1>3, <2>1
  <2> QED BY <1>3, <2>1, <2>2
<1>5. b \in S \cup {0} /\ \A k \in S : k <= b
  BY <1>3, <1>4
<1> HIDE DEF U, R
<1>6. Highest(S) \in S \cup {0} /\ \A k \in S : k <= Highest(S)
  BY <1>5 DEF Highest
<1>7. 0 <= LastKey
  BY ApiAssumption
<1> QED BY <1>6, <1>7, KeysAre, ApiAssumption

\* The first keys of a set are below the others, and there are some, and all when there are
\* no more than so many.
LEMMA FirstIs ==
  ASSUME NEW S \in SUBSET ApiKey, NEW n \in Nat
  PROVE  /\ FirstOf(S, n) \subseteq S
         /\ \A k \in FirstOf(S, n), l \in S : l < k => l \in FirstOf(S, n)
         /\ S # {} /\ n # 0 => FirstOf(S, n) # {}
         /\ Cardinality(S) <= n => FirstOf(S, n) = S
         /\ n = 0 => FirstOf(S, n) = {}
<1> DEFINE Below(k) == {l \in S : l < k}
<1>1. \A k \in S : Below(k) \in SUBSET S /\ Below(k) \in SUBSET ApiKey /\ k \notin Below(k)
  BY KeysAre
<1>2. FirstOf(S, n) = {k \in S : Cardinality(Below(k)) < n}
  BY DEF FirstOf
<1>3. ASSUME NEW k \in S, NEW l \in S, l < k PROVE Below(l) \in SUBSET Below(k)
  BY <1>3, KeysAre
<1>4. ASSUME S # {} PROVE \E k \in S : Below(k) = {}
  <2> DEFINE R == {p \in Nat \X Nat : p[1] < p[2]}
  <2>1. IsWellFoundedOn(R, Nat) /\ S \in SUBSET Nat
    BY NatLessThanWellFounded, KeysAre DEF OpToRel
  <2>2. PICK k \in S : \A l \in S : <<l, k>> \notin R
    <3> HIDE DEF R
    <3> QED BY <1>4, <2>1, WFMin
  <2>3. \A l \in S : ~(l < k)
    BY <2>1, <2>2
  <2> QED BY <2>3
<1> HIDE DEF Below
<1>5. \A k \in S : IsFiniteSet(Below(k)) /\ Cardinality(Below(k)) \in Nat
  BY <1>1, KeysAre
<1>6. \A k \in S, l \in S : l < k => Cardinality(Below(l)) <= Cardinality(Below(k))
  BY <1>3, <1>5, FS_Subset
<1>7. \A k \in S : Cardinality(Below(k)) < Cardinality(S)
  BY <1>1, KeysAre, FS_Subset
<1>8. \A k \in FirstOf(S, n), l \in S : l < k => l \in FirstOf(S, n)
  BY <1>2, <1>5, <1>6
<1>9. ASSUME S # {}, n # 0 PROVE FirstOf(S, n) # {}
  <2>1. PICK k \in S : Below(k) = {}
    BY <1>4, <1>9
  <2>2. Cardinality(Below(k)) = 0
    BY <2>1, FS_EmptySet
  <2> QED BY <1>2, <1>9, <2>2
<1>10. ASSUME Cardinality(S) <= n PROVE FirstOf(S, n) = S
  BY <1>2, <1>5, <1>7, <1>10, KeysAre
<1>11. n = 0 => FirstOf(S, n) = {}
  BY <1>2, <1>5
<1> QED BY <1>2, <1>8, <1>9, <1>10, <1>11

\* More of them are at least those.
LEMMA FirstGrows ==
  ASSUME NEW S \in SUBSET ApiKey, NEW m \in Nat, NEW n \in Nat, m <= n
  PROVE  FirstOf(S, m) \subseteq FirstOf(S, n)
<1> SUFFICES ASSUME NEW k \in FirstOf(S, m) PROVE k \in FirstOf(S, n)
  OBVIOUS
<1>1. k \in S /\ Cardinality({l \in S : l < k}) < m
  BY DEF FirstOf
<1>2. PICK c : c = Cardinality({l \in S : l < k})
  OBVIOUS
<1>3. c \in Nat
  <2>1. {l \in S : l < k} \in SUBSET ApiKey
    OBVIOUS
  <2> QED BY <1>2, <2>1, KeysAre
<1> QED BY <1>1, <1>2, <1>3 DEF FirstOf

\* A key above all others changes nothing of the first, if they are as many.
LEMMA FirstStay ==
  ASSUME NEW S \in SUBSET ApiKey, NEW k \in ApiKey, \A l \in S : l < k,
         NEW n \in Nat, n <= Cardinality(S)
  PROVE  FirstOf(S \cup {k}, n) = FirstOf(S, n)
<1>0. k \in Nat /\ \A l \in S : l \in Nat
  BY KeysAre
<1>1. \A l \in S \cup {k} : {j \in S \cup {k} : j < l} = {j \in S : j < l}
  BY <1>0
<1>2. {j \in S : j < k} = S
  OBVIOUS
<1>3. ~(Cardinality(S) < n) /\ k \notin S
  BY KeysAre
<1>4. Cardinality({j \in S \cup {k} : j < k}) = Cardinality(S)
  BY <1>1, <1>2
<1>5. \A l \in S : Cardinality({j \in S \cup {k} : j < l}) = Cardinality({j \in S : j < l})
  BY <1>1
<1> QED BY <1>3, <1>4, <1>5 DEF FirstOf

\* The number of items before a page, and up to its end.
LEMMA PageNumbers ==
  ASSUME NEW n \in Nat \ {0}
  PROVE  /\ (n - 1) * ApiPage \in Nat /\ n * ApiPage \in Nat
         /\ (n - 1) * ApiPage <= n * ApiPage /\ ((n + 1) - 1) * ApiPage = n * ApiPage
         /\ n = 1 => (n - 1) * ApiPage = 0
<1>1. n - 1 \in Nat /\ n = (n - 1) + 1 /\ (n + 1) - 1 = n /\ ApiPage \in Nat
  BY ApiAssumption
<1>2. PICK m \in Nat : m = n - 1
  BY <1>1
<1>3. m * ApiPage \in Nat /\ (m + 1) * ApiPage = m * ApiPage + ApiPage
  BY <1>1, <1>2
<1> QED BY <1>1, <1>2, <1>3

LEMMA ApiInitInv == ApiInit => ApiInv
<1> SUFFICES ASSUME ApiInit PROVE ApiInv
  OBVIOUS
<1>1. /\ NoPull \in [api : Api \cup {"none"}, at : {"none", "ask", "open", "page", "ended", "broken"},
               after : 0..LastKey, number : Nat \ {0}, page : SUBSET ApiKey, more : BOOLEAN]
      /\ NoPull.at = "none" /\ NoPull.api = "none" /\ NoPull.page = {} /\ NoPull.after = 0
  BY ApiAssumption DEF NoPull
<1>2. ApiTypes
  <2>1. got \in [ApiKey -> Nat] /\ apiPages \in 0..MaxApiPages
    BY ApiAssumption DEF ApiInit
  <2> QED BY <1>1, <2>1 DEF ApiInit, ApiTypes
<1>5. PullByNumber
  BY <1>1 DEF ApiInit, PullByNumber
<1>3. PullByKey
  BY <1>1, KeysAre DEF ApiInit, PullByKey
<1>4. HawkNoted
  BY DEF ApiInit, HawkNoted
<1> QED BY <1>2, <1>3, <1>4, <1>5 DEF ApiInv

\* What a pull is.
LEMMA PullIs ==
  ASSUME ApiInv
  PROVE  /\ pull.api \in Api \cup {"none"} /\ pull.at \in {"none", "ask", "open", "page", "ended", "broken"}
         /\ pull.after \in 0..LastKey /\ pull.number \in Nat \ {0} /\ pull.page \in SUBSET ApiKey
         /\ pull.more \in BOOLEAN
         /\ listed \in SUBSET ApiKey /\ steady \in SUBSET listed /\ stamped \in SUBSET ApiKey
         /\ got \in [ApiKey -> Nat]
         /\ \A at, after, page, more : \A number \in Nat \ {0} :
              /\ at \in {"ask", "open", "page", "ended", "broken"} /\ after \in 0..LastKey
              /\ page \in SUBSET ApiKey /\ more \in BOOLEAN
              => [api |-> pull.api, at |-> at, after |-> after, number |-> number, page |-> page, more |-> more]
                   \in [api : Api \cup {"none"}, at : {"none", "ask", "open", "page", "ended", "broken"},
                        after : 0..LastKey, number : Nat \ {0}, page : SUBSET ApiKey, more : BOOLEAN]
BY DEF ApiInv, ApiTypes

\* Rows come, at the end of the list or not, and go.
LEMMA ListsInv ==
  ASSUME ApiInv, Stamp \/ AddRow \/ RemoveRow, UNCHANGED hawk
  PROVE  ApiInv'
<1>1. UNCHANGED <<pull, got, bent, apiPages, hawk>>
  BY DEF Stamp, AddRow, RemoveRow
<1>2. listed \in SUBSET ApiKey /\ stamped \in SUBSET ApiKey /\ listed \cap stamped = {} /\ steady \in SUBSET listed
  BY DEF ApiInv, ApiTypes
<1>3. HawkNoted'
  BY <1>1 DEF ApiInv, HawkNoted
<1>4. CASE Stamp
  <2>1. Highest(listed \cup stamped \cup steady) + 1 \in ApiKey \ (listed \cup stamped)
    <3>1. PICK S \in SUBSET ApiKey : S = listed \cup stamped \cup steady
      BY <1>2
    <3>2. Highest(S) < LastKey /\ Highest(S) \in 0..LastKey /\ \A k \in S : k <= Highest(S)
      BY <1>4, <3>1, HighestIs DEF Stamp
    <3>3. PICK h \in 0..LastKey : h = Highest(S)
      BY <3>2
    <3>4. h + 1 \in ApiKey /\ h + 1 \notin S
      BY <3>2, <3>3, ApiAssumption, KeysAre DEF ApiKey
    <3> QED BY <3>1, <3>3, <3>4
  <2>2. PICK k \in ApiKey \ (listed \cup stamped) : stamped' = stamped \cup {k}
    BY <1>4, <2>1 DEF Stamp
  <2>3. UNCHANGED <<listed, steady, shifted>>
    BY <1>4 DEF Stamp
  <2>4. ApiTypes'
    BY <1>1, <1>2, <2>2, <2>3 DEF ApiInv, ApiTypes
  <2>5. PullByKey' /\ PullByNumber'
    BY <1>1, <2>3 DEF ApiInv, PullByKey, PullByNumber, Before, Numbered, FirstOf
  <2> QED BY <1>3, <2>4, <2>5 DEF ApiInv
<1>5. CASE RemoveRow
  <2>1. PICK k \in listed : listed' = listed \ {k} /\ steady' = steady \ {k}
    BY <1>5 DEF RemoveRow
  <2>2. shifted' = TRUE /\ UNCHANGED stamped
    BY <1>5 DEF RemoveRow
  <2>3. ApiTypes'
    BY <1>1, <1>2, <2>1, <2>2 DEF ApiInv, ApiTypes
  <2>4. PullByKey'
    BY <1>1, <2>1 DEF ApiInv, PullByKey
  <2>5. PullByNumber'
    BY <2>2 DEF PullByNumber
  <2> QED BY <1>3, <2>3, <2>4, <2>5 DEF ApiInv
<1>6. CASE AddRow
  <2>1. PICK k \in IF pull.api = "table" THEN ApiKey \ listed ELSE stamped :
          /\ listed' = listed \cup {k} /\ stamped' = stamped \ {k}
          /\ shifted' = (shifted \/ k < Highest(listed))
    BY <1>6 DEF AddRow
  <2>2. k \in ApiKey \ listed /\ UNCHANGED steady
    BY <1>2, <1>6, <2>1 DEF AddRow
  <2>3. ApiTypes'
    BY <1>1, <1>2, <2>1, <2>2 DEF ApiInv, ApiTypes
  <2>4. PullByKey'
    BY <1>1, <2>1, <2>2 DEF ApiInv, PullByKey
  <2>5. PullByNumber'
    <3> SUFFICES ASSUME pull.api = "catalogue", ~shifted' PROVE PullByNumber'
      BY <1>1 DEF PullByNumber
    <3>1. ~shifted /\ \A l \in listed : l < k
      <4>1. ~shifted /\ ~(k < Highest(listed))
        BY <2>1
      <4>2. /\ \A l \in listed : l <= Highest(listed) /\ l \in Nat /\ l # k
            /\ k \in Nat /\ Highest(listed) \in Nat
        BY <1>2, <2>2, HighestIs, KeysAre
      <4> QED BY <4>1, <4>2
    <3>2. \A n \in Nat : n <= Cardinality(listed) => FirstOf(listed', n) = FirstOf(listed, n)
      BY <1>2, <2>1, <2>2, <3>1, FirstStay
    <3>3. Cardinality(listed') \in Nat /\ Cardinality(listed) \in Nat /\ Cardinality(listed) <= Cardinality(listed')
      <4>1. listed' \in SUBSET ApiKey /\ listed \in SUBSET listed'
        BY <1>2, <2>1, <2>2
      <4> QED BY <4>1, KeysAre, FS_Subset
    <3>4. /\ pull.number \in Nat \ {0}
          /\ (pull.number - 1) * ApiPage \in Nat /\ pull.number * ApiPage \in Nat
      BY PullIs, PageNumbers
    <3>5. CASE pull.at # "ended"
      <4>1. (pull.number - 1) * ApiPage <= Cardinality(listed)
        BY <3>1, <3>5 DEF ApiInv, PullByNumber
      <4>2. FirstOf(listed', (pull.number - 1) * ApiPage) = FirstOf(listed, (pull.number - 1) * ApiPage)
        BY <3>2, <3>4, <4>1
      <4>3. (Before(pull.number))' = Before(pull.number)
        BY <1>1, <4>2 DEF Before
      <4>4. (pull.number - 1) * ApiPage <= Cardinality(listed')
        BY <3>3, <3>4, <4>1
      <4>5. ASSUME pull.at = "page", pull.more
            PROVE  /\ pull.number * ApiPage <= Cardinality(listed')
                   /\ pull.page = (Numbered(pull.number))'
        <5>1. pull.number * ApiPage <= Cardinality(listed) /\ pull.page = Numbered(pull.number)
          BY <3>1, <4>5 DEF ApiInv, PullByNumber
        <5>2. FirstOf(listed', pull.number * ApiPage) = FirstOf(listed, pull.number * ApiPage)
          BY <3>2, <3>4, <5>1
        <5>3. pull.number * ApiPage <= Cardinality(listed')
          BY <3>3, <3>4, <5>1
        <5> QED BY <1>1, <4>2, <5>1, <5>2, <5>3 DEF Numbered
      <4>6. /\ \A l \in ApiKey : got[l] = IF l \in Before(pull.number) THEN 1 ELSE 0
            /\ pull.at = "page" => /\ pull.page \cap Before(pull.number) = {}
                                   /\ ~pull.more => steady \ Before(pull.number) \subseteq pull.page
        BY <3>1, <3>5 DEF ApiInv, PullByNumber
      <4> HIDE DEF Before, Numbered
      <4> QED BY <1>1, <2>2, <3>5, <4>3, <4>4, <4>5, <4>6 DEF PullByNumber
    <3>6. CASE pull.at = "ended"
      BY <1>1, <2>2, <3>1, <3>6 DEF ApiInv, PullByNumber
    <3> QED BY <3>5, <3>6
  <2> QED BY <1>3, <2>3, <2>4, <2>5 DEF ApiInv
<1> QED BY <1>4, <1>5, <1>6

\* A pull begins, is forgotten, or asks for a page again.
LEMMA BeginPullInv ==
  ASSUME ApiInv, (\E api \in Api : BeginPull(api)) \/ ForgetPull \/ LosePage, UNCHANGED hawk
  PROVE  ApiInv'
<1>1. HawkNoted'
  BY DEF ApiInv, HawkNoted
<1>2. CASE \E api \in Api : BeginPull(api)
  <2>1. PICK api \in Api : BeginPull(api)
    BY <1>2
  <2>2. PICK n : n = [api |-> api, at |-> "ask", after |-> 0, number |-> 1, page |-> {}, more |-> FALSE]
    OBVIOUS
  <2>3. /\ pull' = n /\ got' = [k \in ApiKey |-> 0] /\ steady' = listed /\ shifted' = FALSE /\ bent' = {}
        /\ UNCHANGED <<listed, stamped, apiPages>>
    BY <2>1, <2>2 DEF BeginPull
  <2>4. /\ n \in [api : Api \cup {"none"}, at : {"none", "ask", "open", "page", "ended", "broken"},
                  after : 0..LastKey, number : Nat \ {0}, page : SUBSET ApiKey, more : BOOLEAN]
        /\ n.at = "ask" /\ n.after = 0 /\ n.number = 1 /\ n.page = {}
    BY <2>2, ApiAssumption
  <2>5. ApiTypes'
    BY <2>3, <2>4 DEF ApiInv, ApiTypes
  <2>6. PullByKey'
    <3>1. \A k \in listed : k > 0 /\ k \in Nat
      BY PullIs, KeysAre
    <3> QED BY <2>3, <2>4, <3>1 DEF PullByKey
  <2>7. PullByNumber'
    <3>1. FirstOf(listed, 0) = {} /\ Cardinality(listed) \in Nat
      BY PullIs, FirstIs, KeysAre
    <3>2. (pull'.number - 1) * ApiPage = 0
      BY <2>3, <2>4, PageNumbers
    <3> QED BY <2>3, <2>4, <3>1, <3>2 DEF PullByNumber, Before
  <2> QED BY <1>1, <2>5, <2>6, <2>7 DEF ApiInv
<1>3. CASE ForgetPull
  <2>1. pull' = NoPull /\ got' = [k \in ApiKey |-> 0] /\ UNCHANGED <<listed, stamped, steady, shifted, bent, apiPages>>
    BY <1>3 DEF ForgetPull, listVars
  <2>2. /\ NoPull \in [api : Api \cup {"none"}, at : {"none", "ask", "open", "page", "ended", "broken"},
               after : 0..LastKey, number : Nat \ {0}, page : SUBSET ApiKey, more : BOOLEAN]
        /\ NoPull.at = "none" /\ NoPull.api = "none" /\ NoPull.page = {} /\ NoPull.after = 0
    BY ApiAssumption DEF NoPull
  <2>3. ApiTypes'
    BY <2>1, <2>2 DEF ApiInv, ApiTypes
  <2>4. PullByKey'
    <3>1. \A k \in listed : k > 0 /\ k \in Nat
      BY PullIs, KeysAre
    <3>2. \A k \in steady : k > 0 /\ k \in Nat
      BY <3>1, PullIs
    <3> QED BY <2>1, <2>2, <3>2 DEF PullByKey
  <2>5. PullByNumber'
    BY <2>1, <2>2 DEF PullByNumber
  <2> QED BY <1>1, <2>3, <2>4, <2>5 DEF ApiInv
<1>4. CASE LosePage
  <2>1. PICK n : n = [api |-> pull.api, at |-> "ask", after |-> pull.after, number |-> pull.number,
                      page |-> {}, more |-> pull.more]
    OBVIOUS
  <2>2. /\ pull' = n /\ pull.at \in {"open", "page"}
        /\ UNCHANGED <<listed, stamped, steady, shifted, bent, got, apiPages>>
    BY <1>4, <2>1 DEF LosePage, PullTo, listVars
  <2>3. /\ n \in [api : Api \cup {"none"}, at : {"none", "ask", "open", "page", "ended", "broken"},
                  after : 0..LastKey, number : Nat \ {0}, page : SUBSET ApiKey, more : BOOLEAN]
        /\ n.at = "ask" /\ n.after = pull.after /\ n.number = pull.number /\ n.page = {} /\ n.api = pull.api
    BY <2>1, PullIs
  <2>4. ApiTypes'
    BY <2>2, <2>3 DEF ApiInv, ApiTypes
  <2>5. PullByKey' /\ PullByNumber'
    BY <2>2, <2>3 DEF ApiInv, PullByKey, PullByNumber, Before, FirstOf
  <2> QED BY <1>1, <2>4, <2>5 DEF ApiInv
<1> QED BY <1>2, <1>3, <1>4

\* A page is read: the first rows after the key, or the items with its number.
LEMMA PageIsRead ==
  ASSUME ApiInv, pull.at \in {"ask", "open"}, NEW page \in SUBSET ApiKey, NEW more \in BOOLEAN,
         PullTo("page", pull.after, pull.number, page, more),
         UNCHANGED <<listVars, got, hawk>>, apiPages' \in 0..MaxApiPages,
         pull.api # "catalogue" => \E n \in Nat \ {0} :
           /\ page = FirstOf(AfterKey(pull.after), n)
           /\ more => AfterKey(pull.after) # {}
           /\ ~more => page = AfterKey(pull.after),
         pull.api = "catalogue" => /\ page = Numbered(pull.number)
                                   /\ more <=> Cardinality(listed) > pull.number * ApiPage
  PROVE  ApiInv'
<1>1. PICK row : row = [api |-> pull.api, at |-> "page", after |-> pull.after, number |-> pull.number,
                        page |-> page, more |-> more]
  OBVIOUS
<1>2. /\ pull' = row /\ UNCHANGED <<listed, stamped, steady, shifted, bent, got, hawk>>
  BY <1>1 DEF PullTo, listVars
<1>3. /\ row \in [api : Api \cup {"none"}, at : {"none", "ask", "open", "page", "ended", "broken"},
                after : 0..LastKey, number : Nat \ {0}, page : SUBSET ApiKey, more : BOOLEAN]
      /\ row.at = "page" /\ row.after = pull.after /\ row.number = pull.number /\ row.page = page
      /\ row.api = pull.api
  BY <1>1, PullIs
<1>4. row.more = more
  BY <1>1
<1>5. ApiTypes'
  BY <1>2, <1>3 DEF ApiInv, ApiTypes
<1>6. ASSUME pull.api # "catalogue" PROVE PullByKey'
  <2>1. PICK n \in Nat \ {0} :
          /\ page = FirstOf(AfterKey(pull.after), n)
          /\ more => AfterKey(pull.after) # {}
          /\ ~more => page = AfterKey(pull.after)
    BY <1>6
  <2>2. PICK rest \in SUBSET ApiKey : rest = AfterKey(pull.after)
    BY PullIs DEF AfterKey
  <2>3. \A k \in rest : k \in listed /\ pull.after < k
    BY <2>2 DEF AfterKey
  <2>4. \A k \in listed : pull.after < k => k \in rest
    BY <2>2 DEF AfterKey
  <2>5. /\ page \subseteq rest
        /\ \A k \in page, l \in rest : l < k => l \in page
        /\ rest # {} => page # {}
    BY <2>1, <2>2, FirstIs
  <2>6. more => page # {}
    BY <2>1, <2>2, <2>5
  <2>7. ~more => page = rest
    BY <2>1, <2>2
  <2>8. ASSUME NEW k \in steady, pull.after < k, more => k <= Highest(page) PROVE k \in page
    <3>1. k \in rest
      BY <2>4, <2>8, PullIs
    <3>2. CASE more
      <4>1. Highest(page) \in page /\ k <= Highest(page) /\ Highest(page) \in rest
        BY <2>5, <2>6, <2>8, <3>2, HighestIs
      <4>2. k \in Nat /\ Highest(page) \in Nat
        BY <3>1, <4>1, KeysAre
      <4> QED BY <2>5, <3>1, <4>1, <4>2
    <3> QED BY <2>7, <3>1, <3>2
  <2>9. /\ "back" \notin bent => /\ \A k \in ApiKey : got[k] <= 1
                                 /\ \A k \in ApiKey : pull.after < k => got[k] = 0
        /\ "far" \notin bent => \A k \in steady : k <= pull.after => got[k] > 0
    BY <1>6 DEF ApiInv, PullByKey
  <2>10. \A k \in page : pull.after < k
    BY <2>3, <2>5
  <2> QED BY <1>2, <1>3, <1>4, <2>6, <2>8, <2>9, <2>10 DEF PullByKey
<1>7. ASSUME pull.api = "catalogue", ~shifted PROVE PullByNumber'
  <2>1. /\ pull.number \in Nat \ {0}
        /\ (pull.number - 1) * ApiPage \in Nat /\ pull.number * ApiPage \in Nat
        /\ Cardinality(listed) \in Nat
    BY PullIs, PageNumbers, KeysAre
  <2>2. /\ (pull.number - 1) * ApiPage <= Cardinality(listed)
        /\ \A k \in ApiKey : got[k] = IF k \in Before(pull.number) THEN 1 ELSE 0
    BY <1>7 DEF ApiInv, PullByNumber
  <2>3. page = FirstOf(listed, pull.number * ApiPage) \ Before(pull.number)
    BY <1>7 DEF Numbered, Before
  <2>4. CASE more
    <3>1. pull.number * ApiPage <= Cardinality(listed)
      BY <1>7, <2>1, <2>4
    <3> QED BY <1>2, <1>3, <1>4, <1>7, <2>2, <2>3, <2>4, <3>1 DEF PullByNumber, Before, Numbered, FirstOf
  <2>5. CASE ~more
    <3>1. Cardinality(listed) <= pull.number * ApiPage
      BY <1>7, <2>1, <2>5
    <3>2. FirstOf(listed, pull.number * ApiPage) = listed
      BY <2>1, <3>1, FirstIs, PullIs
    <3>3. steady \ Before(pull.number) \subseteq page
      BY <2>3, <3>2, PullIs
    <3> QED BY <1>2, <1>3, <1>4, <2>2, <2>3, <2>5, <3>3 DEF PullByNumber, Before, FirstOf
  <2> QED BY <2>4, <2>5
<1>8. PullByKey' /\ PullByNumber'
  BY <1>2, <1>3, <1>6, <1>7 DEF PullByKey, PullByNumber
<1>9. HawkNoted'
  BY <1>2 DEF ApiInv, HawkNoted
<1> QED BY <1>5, <1>8, <1>9 DEF ApiInv

\* A page is asked for, and its rows are read.
LEMMA AskPageInv ==
  ASSUME ApiInv, AskPage \/ ReadRows, UNCHANGED hawk
  PROVE  ApiInv'
<1>1. PICK rest \in SUBSET ApiKey : rest = AfterKey(pull.after)
  BY PullIs DEF AfterKey
<1>2. ApiPage \in Nat \ {0} /\ apiPages \in 0..MaxApiPages /\ MaxApiPages \in Nat
  BY ApiAssumption DEF ApiInv, ApiTypes
<1>3. CASE ReadRows
  <2>1. PICK n \in 1..LastKey, cut \in BOOLEAN :
          /\ (~cut => n >= Cardinality(rest)) /\ (cut => rest # {})
          /\ PullTo("page", pull.after, pull.number, FirstOf(rest, n), cut)
    BY <1>1, <1>3 DEF ReadRows
  <2>2. n \in Nat \ {0} /\ pull.api # "catalogue" /\ pull.at = "open"
        /\ UNCHANGED <<listVars, got, apiPages>>
    BY <1>3, <2>1, ApiAssumption DEF ReadRows, ApiInv, ApiTypes
  <2>3. PICK page \in SUBSET ApiKey : page = FirstOf(rest, n)
    BY <2>2, FirstIs
  <2>4. ~cut => page = rest
    BY <2>1, <2>2, <2>3, FirstIs, KeysAre
  <2> QED BY <1>1, <1>2, <2>1, <2>2, <2>3, <2>4, PageIsRead
<1>4. CASE AskPage
  <2>0. pull.at = "ask" /\ apiPages' \in 0..MaxApiPages /\ UNCHANGED <<listVars, got>>
    BY <1>2, <1>4 DEF AskPage
  <2>1. CASE pull.api \in {"table", "reference"}
    <3>1. PICK row : row = [api |-> pull.api, at |-> "open", after |-> pull.after, number |-> pull.number,
                            page |-> {}, more |-> pull.more]
      OBVIOUS
    <3>2. /\ pull' = row /\ UNCHANGED <<listed, stamped, steady, shifted, bent, got, hawk>>
      BY <1>4, <2>1, <3>1 DEF AskPage, PullTo, listVars
    <3>3. /\ row \in [api : Api \cup {"none"}, at : {"none", "ask", "open", "page", "ended", "broken"},
                    after : 0..LastKey, number : Nat \ {0}, page : SUBSET ApiKey, more : BOOLEAN]
          /\ row.at = "open" /\ row.after = pull.after /\ row.number = pull.number /\ row.page = {}
          /\ row.api = pull.api /\ row.api # "catalogue"
      BY <2>1, <3>1, PullIs
    <3>4. ApiTypes'
      BY <2>0, <3>2, <3>3 DEF ApiInv, ApiTypes
    <3>5. PullByKey' /\ PullByNumber' /\ HawkNoted'
      BY <2>0, <2>1, <3>2, <3>3 DEF ApiInv, PullByKey, PullByNumber, HawkNoted
    <3> QED BY <3>4, <3>5 DEF ApiInv
  <2>2. CASE pull.api = "catalogue"
    <3>1. PICK page \in SUBSET ApiKey : page = Numbered(pull.number)
      BY PullIs DEF Numbered, FirstOf
    <3>2. PICK more \in BOOLEAN : more <=> Cardinality(listed) > pull.number * ApiPage
      OBVIOUS
    <3>3. PullTo("page", pull.after, pull.number, page, more)
      BY <1>4, <2>2, <3>1, <3>2 DEF AskPage, PullTo
    <3> QED BY <2>0, <2>2, <3>1, <3>2, <3>3, PageIsRead
  <2>3. CASE pull.api \notin {"table", "reference", "catalogue"}
    <3>1. PICK page \in SUBSET ApiKey : page = FirstOf(rest, ApiPage)
      BY <1>2, FirstIs
    <3>2. PICK more \in BOOLEAN : more <=> page # rest
      OBVIOUS
    <3>3. PullTo("page", pull.after, pull.number, page, more)
      BY <1>1, <1>4, <2>3, <3>1, <3>2 DEF AskPage, PullTo
    <3>4. more => rest # {}
      BY <1>2, <3>1, <3>2, FirstIs
    <3> QED BY <1>1, <1>2, <2>0, <2>3, <3>1, <3>2, <3>3, <3>4, PageIsRead
  <2> QED BY <2>1, <2>2, <2>3
<1> QED BY <1>3, <1>4

\* A page is taken: its keys are counted, and the pull goes on, where the link is read, or has ended.
LEMMA GotPageInv ==
  ASSUME ApiInv, GotPage, UNCHANGED hawk
  PROVE  ApiInv'
<1>0. /\ pull.at = "page" /\ UNCHANGED <<listed, stamped, steady, shifted, apiPages, hawk>>
      /\ got' = [k \in ApiKey |-> IF k \in pull.page THEN got[k] + 1 ELSE got[k]]
  BY DEF GotPage
<1>1. /\ got' \in [ApiKey -> Nat]
      /\ \A k \in ApiKey : k \in pull.page => got'[k] = got[k] + 1
      /\ \A k \in ApiKey : k \notin pull.page => got'[k] = got[k]
  BY <1>0, PullIs
<1>2. PICK high \in 0..LastKey : high = Highest(pull.page)
  BY PullIs, HighestIs
<1>3. PICK next \in -1..LastKey :
        /\ pull.api # "table" => next = high
        /\ pull.more =>
             /\ IF next = -1 THEN PullTo("broken", pull.after, pull.number, {}, TRUE)
                ELSE PullTo("ask", next, pull.number + 1, {}, TRUE)
             /\ bent' = bent \cup {w \in {"back"} : next < high} \cup {w \in {"far"} : next > high}
        /\ ~pull.more => PullTo("ended", pull.after, pull.number, {}, FALSE) /\ bent' = bent
  <2>1. high \in -1..LastKey
    BY <1>2, ApiAssumption
  <2>2. CASE ~pull.more
    BY <2>1, <2>2 DEF GotPage
  <2>3. CASE pull.more
    <3>1. PICK next \in ReadBack(high) :
            /\ IF next = -1 THEN PullTo("broken", pull.after, pull.number, {}, TRUE)
               ELSE PullTo("ask", next, pull.number + 1, {}, TRUE)
            /\ bent' = bent \cup {w \in {"back"} : next < high} \cup {w \in {"far"} : next > high}
      BY <1>2, <2>3 DEF GotPage
    <3>2. next \in -1..LastKey /\ (pull.api # "table" => next = high)
      BY <2>1, <3>1 DEF ReadBack
    <3> QED BY <2>3, <3>1, <3>2
  <2> QED BY <2>2, <2>3
<1>4. PICK row : row = IF ~pull.more
                       THEN [api |-> pull.api, at |-> "ended", after |-> pull.after, number |-> pull.number,
                             page |-> {}, more |-> FALSE]
                       ELSE IF next = -1
                       THEN [api |-> pull.api, at |-> "broken", after |-> pull.after, number |-> pull.number,
                             page |-> {}, more |-> TRUE]
                       ELSE [api |-> pull.api, at |-> "ask", after |-> next, number |-> pull.number + 1,
                             page |-> {}, more |-> TRUE]
  OBVIOUS
<1>5. pull' = row
  BY <1>3, <1>4 DEF PullTo
<1>6. next # -1 => next \in 0..LastKey
  BY <1>3, ApiAssumption
<1>7. /\ row \in [api : Api \cup {"none"}, at : {"none", "ask", "open", "page", "ended", "broken"},
                after : 0..LastKey, number : Nat \ {0}, page : SUBSET ApiKey, more : BOOLEAN]
      /\ row.api = pull.api /\ row.page = {} /\ row.at \in {"ask", "ended", "broken"}
  BY <1>4, <1>6, PullIs
<1>8. /\ pull.more /\ next # -1 => row.at = "ask" /\ row.after = next /\ row.number = pull.number + 1
      /\ pull.more /\ next = -1 => row.at = "broken"
      /\ ~pull.more => row.at = "ended"
  BY <1>4
<1>13. bent' \in SUBSET {"back", "far"} /\ bent \in SUBSET bent'
  BY <1>3 DEF ApiInv, ApiTypes
<1>14. ApiTypes'
  BY <1>0, <1>1, <1>5, <1>7, <1>13 DEF ApiInv, ApiTypes
<1>9. ASSUME pull.api # "catalogue" PROVE PullByKey'
  <2>1. /\ "back" \notin bent => /\ \A k \in ApiKey : got[k] <= 1
                                 /\ \A k \in ApiKey : pull.after < k => got[k] = 0
        /\ "far" \notin bent => \A k \in steady : k <= pull.after => got[k] > 0
        /\ pull.more => pull.page # {}
        /\ \A k \in pull.page : pull.after < k
        /\ \A k \in steady : pull.after < k /\ (pull.more => k <= high) => k \in pull.page
    BY <1>0, <1>2, <1>9 DEF ApiInv, PullByKey
  <2>2. \A k \in ApiKey : k \in Nat /\ got[k] \in Nat
    BY PullIs, KeysAre
  <2>3. "back" \notin bent => \A k \in ApiKey : got'[k] <= 1
    BY <1>1, <2>1, <2>2
  <2>4. steady \in SUBSET ApiKey /\ pull.page \in SUBSET ApiKey /\ pull.after \in Nat /\ high \in Nat
    BY PullIs, <1>2
  <2>5. CASE pull.more /\ next # -1
    <3>1. high \in pull.page /\ \A k \in pull.page : k <= high
      BY <1>2, <2>1, <2>4, <2>5, HighestIs
    <3>2. /\ "back" \notin bent' => ~(next < high) /\ "back" \notin bent
          /\ "far" \notin bent' => ~(next > high) /\ "far" \notin bent
          /\ next \in Nat
      BY <1>3, <1>6, <1>13, <2>5
    <3>3. ASSUME "back" \notin bent', NEW k \in ApiKey, next < k PROVE got'[k] = 0
      <4>1. k \in Nat /\ high < k /\ pull.after < k
        BY <2>1, <2>2, <2>4, <3>1, <3>2, <3>3
      <4>2. k \notin pull.page
        BY <2>4, <3>1, <4>1
      <4> QED BY <1>1, <2>1, <3>2, <3>3, <4>1, <4>2
    <3>4. ASSUME "far" \notin bent', NEW k \in steady, k <= next PROVE got'[k] > 0
      <4>1. k \in ApiKey /\ k \in Nat /\ k <= high
        BY <2>2, <2>4, <3>2, <3>4
      <4> QED BY <1>1, <2>1, <2>2, <2>4, <3>2, <3>4, <4>1
    <3> QED BY <1>0, <1>5, <1>7, <1>8, <2>3, <2>5, <3>2, <3>3, <3>4 DEF PullByKey
  <2>6. CASE pull.more /\ next = -1
    <3>1. "back" \notin bent' => "back" \notin bent
      BY <1>13
    <3> QED BY <1>0, <1>5, <1>7, <1>8, <2>3, <2>6, <3>1 DEF PullByKey
  <2>7. CASE ~pull.more
    <3>1. "far" \notin bent => \A k \in steady : got'[k] > 0
      BY <1>1, <2>1, <2>2, <2>4, <2>7
    <3>2. bent' = bent
      BY <1>3, <2>7
    <3> QED BY <1>0, <1>5, <1>7, <1>8, <2>3, <2>7, <3>1, <3>2 DEF PullByKey
  <2> QED BY <2>5, <2>6, <2>7
<1>10. ASSUME pull.api = "catalogue", ~shifted PROVE PullByNumber'
  <2>0. next # -1
    BY <1>2, <1>3, <1>10, ApiAssumption
  <2>1. PICK before \in SUBSET ApiKey : before = Before(pull.number)
    BY PullIs DEF Before, FirstOf
  <2>2. /\ \A k \in ApiKey : got[k] = IF k \in before THEN 1 ELSE 0
        /\ pull.page \cap before = {}
        /\ pull.more => /\ pull.number * ApiPage <= Cardinality(listed)
                        /\ pull.page = Numbered(pull.number)
        /\ ~pull.more => steady \ before \subseteq pull.page
    BY <1>0, <1>10, <2>1 DEF ApiInv, PullByNumber
  <2>3. \A k \in ApiKey : got'[k] = IF k \in before \cup pull.page THEN 1 ELSE 0
    BY <1>1, <2>2
  <2>4. CASE pull.more
    <3>1. /\ (pull.number - 1) * ApiPage \in Nat /\ pull.number * ApiPage \in Nat
          /\ (pull.number - 1) * ApiPage <= pull.number * ApiPage
          /\ ((pull.number + 1) - 1) * ApiPage = pull.number * ApiPage
      BY PullIs, PageNumbers
    <3>2. before \subseteq FirstOf(listed, pull.number * ApiPage)
      BY <2>1, <3>1, FirstGrows, PullIs DEF Before
    <3>3. before \cup pull.page = FirstOf(listed, pull.number * ApiPage)
      BY <2>1, <2>2, <2>4, <3>2 DEF Numbered, Before
    <3>4. Before(pull.number + 1) = FirstOf(listed, pull.number * ApiPage)
      BY <3>1 DEF Before
    <3>5. (Before(row.number))' = Before(pull.number + 1)
      BY <1>0, <1>5, <1>8, <2>0, <2>4 DEF Before, FirstOf
    <3> QED BY <1>0, <1>5, <1>7, <1>8, <2>0, <2>2, <2>3, <2>4, <3>1, <3>3, <3>4 DEF PullByNumber, Before, FirstOf
  <2>5. CASE ~pull.more
    <3>1. (\A k \in ApiKey : got'[k] <= 1) /\ \A k \in steady : got'[k] = 1
      BY <2>2, <2>3, <2>5, PullIs
    <3> QED BY <1>0, <1>5, <1>7, <1>8, <2>5, <3>1 DEF PullByNumber
  <2> QED BY <2>4, <2>5
<1>11. PullByKey' /\ PullByNumber'
  BY <1>0, <1>5, <1>7, <1>9, <1>10 DEF PullByKey, PullByNumber
<1>12. HawkNoted'
  BY <1>0 DEF ApiInv, HawkNoted
<1> QED BY <1>11, <1>12, <1>14 DEF ApiInv

\* A request is signed, delivered, or the clock goes on: a nonce that was accepted is noted for
\* longer than its header is of this time.
LEMMA HawkInv ==
  ASSUME ApiInv, ApiHawk, UNCHANGED <<listVars, pull, got, apiPages>>
  PROVE  ApiInv'
<1>1. ApiTypes' /\ PullByKey' /\ PullByNumber'
  BY DEF ApiInv, ApiTypes, PullByKey, PullByNumber, Before, Numbered, FirstOf, Highest, listVars
<1>2. /\ hawk \in [tick : Nat \ {0}, sent : [Nonce -> Nat], seen : [Nonce -> Nat], ok : [Nonce -> Nat]]
      /\ \A n \in Nonce :
           /\ hawk.ok[n] <= 1 /\ (hawk.ok[n] = 0 <=> hawk.seen[n] = 0) /\ hawk.seen[n] <= hawk.tick
           /\ hawk.seen[n] # 0 => /\ hawk.sent[n] # 0 /\ hawk.sent[n] <= hawk.seen[n] + 1
                                  /\ hawk.seen[n] <= hawk.sent[n] + 1
  BY DEF ApiInv, HawkNoted
<1>3. CASE SignRequest
  <2>1. PICK n \in Nonce, t \in {hawk.tick - 1, hawk.tick, hawk.tick + 1} \ {0} :
          hawk.sent[n] = 0 /\ hawk' = [hawk EXCEPT !.sent[n] = t]
    BY <1>3 DEF SignRequest
  <2>2. t \in Nat /\ t # 0 /\ hawk.seen[n] = 0
    BY <1>2, <2>1
  <2>3. PICK s : s = [hawk.sent EXCEPT ![n] = t]
    OBVIOUS
  <2>4. /\ s \in [Nonce -> Nat] /\ s[n] = t
        /\ \A m \in Nonce : m # n => s[m] = hawk.sent[m]
    BY <1>2, <2>2, <2>3
  <2>5. hawk' = [hawk EXCEPT !.sent = s]
    BY <2>1, <2>3
  <2>6. /\ hawk' \in [tick : Nat \ {0}, sent : [Nonce -> Nat], seen : [Nonce -> Nat], ok : [Nonce -> Nat]]
        /\ hawk'.sent = s /\ hawk'.seen = hawk.seen /\ hawk'.ok = hawk.ok /\ hawk'.tick = hawk.tick
    BY <1>2, <2>4, <2>5
  <2> QED BY <1>1, <1>2, <2>2, <2>4, <2>6 DEF ApiInv, HawkNoted
<1>4. CASE DeliverRequest
  <2>1. PICK n \in Nonce : Accepts(n) /\ Note(n)
    BY <1>4 DEF DeliverRequest
  <2>2. /\ hawk.sent[n] # 0 /\ hawk.sent[n] - hawk.tick \in -1..1
        /\ ~(hawk.seen[n] # 0 /\ hawk.tick < hawk.seen[n] + NonceTicks)
    BY <2>1 DEF Accepts, Remembers
  <2>3. hawk.sent[n] \in Nat /\ hawk.seen[n] \in Nat /\ hawk.tick \in Nat /\ hawk.ok[n] \in Nat
        /\ NonceTicks \in Nat /\ NonceTicks > 2 /\ hawk.tick # 0
    BY <1>2, ApiAssumption
  <2>4. /\ hawk.sent[n] <= hawk.tick + 1 /\ hawk.tick <= hawk.sent[n] + 1
    BY <2>2, <2>3
  <2>5. hawk.seen[n] = 0
    BY <1>2, <2>2, <2>3, <2>4
  <2>6. hawk.ok[n] = 0
    BY <1>2, <2>5
  <2>7. /\ hawk'.tick = hawk.tick /\ hawk'.sent = hawk.sent
        /\ hawk'.seen = [hawk.seen EXCEPT ![n] = hawk.tick]
        /\ hawk'.ok = [hawk.ok EXCEPT ![n] = @ + 1]
        /\ hawk' \in [tick : Nat \ {0}, sent : [Nonce -> Nat], seen : [Nonce -> Nat], ok : [Nonce -> Nat]]
    BY <1>2, <2>1, <2>3 DEF Note
  <2>8. /\ hawk'.seen[n] = hawk.tick /\ hawk'.ok[n] = 1
        /\ \A m \in Nonce : m # n => hawk'.seen[m] = hawk.seen[m] /\ hawk'.ok[m] = hawk.ok[m]
    BY <1>2, <2>6, <2>7
  <2> QED BY <1>1, <1>2, <2>2, <2>3, <2>4, <2>7, <2>8 DEF ApiInv, HawkNoted
<1>5. CASE ApiTick
  <2>1. /\ hawk'.tick = hawk.tick + 1 /\ hawk'.sent = hawk.sent
        /\ hawk'.seen = hawk.seen /\ hawk'.ok = hawk.ok
        /\ hawk' \in [tick : Nat \ {0}, sent : [Nonce -> Nat], seen : [Nonce -> Nat], ok : [Nonce -> Nat]]
    BY <1>2, <1>5 DEF ApiTick
  <2> QED BY <1>1, <1>2, <2>1 DEF ApiInv, HawkNoted
<1> QED BY <1>3, <1>4, <1>5 DEF ApiHawk

\* In every state, a pull by keys has got the steady rows up to the key it goes on after, one by
\* numbers the items of the pages before, and a nonce that was accepted was noted within a tick
\* of when its request was signed (_get_streaming_http_response, authenticate_by_hawk_auth).
THEOREM ApiInvariance == ApiSpec => []ApiInv
<1>1. ApiInv /\ [ApiNext]_apiVars => ApiInv'
  <2> SUFFICES ASSUME ApiInv, [ApiNext]_apiVars PROVE ApiInv'
    OBVIOUS
  <2>1. CASE UNCHANGED apiVars
    <3>1. ApiTypes' /\ HawkNoted'
      BY <2>1 DEF apiVars, ApiInv, ApiTypes, HawkNoted
    <3>2. PullByKey'
      BY <2>1 DEF apiVars, ApiInv, PullByKey, Highest
    <3>3. PullByNumber'
      BY <2>1 DEF apiVars, ApiInv, PullByNumber, Before, Numbered, FirstOf
    <3> QED BY <3>1, <3>2, <3>3 DEF ApiInv
  <2>2. CASE ApiLists /\ UNCHANGED hawk
    BY <2>2, ListsInv, BeginPullInv, AskPageInv, GotPageInv DEF ApiLists
  <2>3. CASE ApiHawk /\ UNCHANGED <<listVars, pull, got, apiPages>>
    BY <2>3, HawkInv
  <2> QED BY <2>1, <2>2, <2>3 DEF ApiNext
<1> QED BY <1>1, ApiInitInv, PTL DEF ApiSpec

\* A pull gets no row twice unless a link read back an earlier key than it was made of, and
\* misses none unless one read back a later key, while the list grows and answers are lost;
\* a signed request is served once.  For any lists, pages and nonces that are remembered for
\* longer than a header is of this time (_get_streaming_http_response, authenticate_by_hawk_auth).
THEOREM ApiIsSafe == ApiSpec => []ApiSafety
<1>1. ApiInv => ApiSafety
  <2> SUFFICES ASSUME ApiInv PROVE ApiSafety
    OBVIOUS
  <2>1. ApiTypeOK
    <3>1. pull.more => pull.at # "none"
      BY DEF ApiInv, ApiTypes, NoPull
    <3> QED BY <3>1, PullIs DEF ApiInv, ApiTypes, ApiTypeOK
  <2>2. PullIsWhole
    <3>1. CASE pull.api # "catalogue"
      BY <3>1 DEF ApiInv, PullByKey, PullIsWhole
    <3>2. CASE pull.api = "catalogue" /\ ~shifted
      BY <3>2 DEF ApiInv, PullByNumber, PullIsWhole
    <3> QED BY <3>1, <3>2 DEF PullIsWhole
  <2>3. HawkOnce
    BY DEF ApiInv, HawkNoted, HawkOnce
  <2> QED BY <2>1, <2>2, <2>3 DEF ApiSafety
<1> QED BY <1>1, ApiInvariance, PTL

(***************************************************************************)
(* Who may use a dataset: the row, the log and QuickSight.                 *)
(***************************************************************************)
LEMMA PermInitInv == PermInit => PermInv
<1> SUFFICES ASSUME PermInit PROVE PermInv
  OBVIOUS
<1>1. /\ NoForm \in FormRow /\ NoTask \in TaskRow
      /\ NoForm.pc = "idle" /\ NoForm.grants = {} /\ NoForm.revokes = {} /\ NoForm.item = TRUE
      /\ NoTask.pc = "none" /\ NoTask.users = {} /\ NoTask.todo = {} /\ NoTask.user = NoOne
  BY DEF NoForm, NoTask, FormRow, TaskRow
<1>2. \A u \in Member : log[u].granted = FALSE /\ log[u].order = {}
  BY DEF PermInit
<1>3. /\ \A f \in AdminForm : form[f] = NoForm
      /\ \A t \in Task : sourceSync[t] = NoTask
      /\ permittedUsers = {} /\ domainUsers = {} /\ isPublished = TRUE /\ source = {} /\ accessType = "some"
      /\ \A u \in Member : userLock[u] = NoOne
  BY DEF PermInit
<1>4. PermTypes
  BY <1>1, PermissionAssumption DEF PermInit, PermTypes
<1>5. FormsAre
  BY <1>1, <1>3 DEF FormsAre, ChangedUsers
<1>6. EventsAre
  BY <1>1, <1>2, <1>3 DEF EventsAre, ChangedUsers, Pending
<1>7. TasksAre
  <2>1. NoOne \notin Task
    BY PermissionAssumption DEF Task
  <2> QED BY <1>1, <1>3, <2>1 DEF TasksAre
<1>8. SourcesAre
  <2>1. NoOne \notin Member
    BY PermissionAssumption
  <2>2. \A u \in Member : ~HasAccess(u) /\ ~InHand(u) /\ u \notin source
    BY <1>1, <1>3, <2>1 DEF HasAccess, InHand
  <2> QED BY <2>2 DEF SourcesAre
<1> QED BY <1>4, <1>5, <1>6, <1>7, <1>8 DEF PermInv

\* What a form and a task are.
LEMMA FormIs ==
  ASSUME PermInv, NEW f \in AdminForm
  PROVE  /\ form[f] \in FormRow
         /\ form[f].pc \in {"idle", "save", "edit", "commit"} /\ form[f].item \in BOOLEAN
         /\ form[f].was \in {"all", "some"} /\ form[f].access \in {"all", "some"}
         /\ form[f].domain \in SUBSET Member /\ form[f].shown \in BOOLEAN
         /\ form[f].seen \in SUBSET Member /\ form[f].wanted \in SUBSET Member
         /\ form[f].grants \in SUBSET Member /\ form[f].revokes \in SUBSET Member
         /\ ChangedUsers(f) \in SUBSET Member /\ SyncOf(f) \in SUBSET Member
         /\ f \in Task /\ f # NoOne
BY PermissionAssumption DEF PermInv, PermTypes, FormRow, ChangedUsers, SyncOf, Task

LEMMA TaskIs ==
  ASSUME PermInv, NEW t \in Task
  PROVE  /\ sourceSync[t] \in TaskRow
         /\ sourceSync[t].pc \in {"none", "queued", "locked", "write"}
         /\ sourceSync[t].users \in SUBSET Member /\ sourceSync[t].todo \in SUBSET Member
         /\ sourceSync[t].user \in Member \cup {NoOne} /\ sourceSync[t].reads \in BOOLEAN
         /\ NoOne \notin Member /\ NoOne \notin Task /\ t # NoOne
BY PermissionAssumption DEF PermInv, PermTypes, TaskRow, Task

\* The row that a step of a form writes, and the events it leaves.
FormStep(f, row) ==
  /\ row.pc \notin {"edit", "commit"} => row.grants = {} /\ row.revokes = {}
  /\ row.pc \in {"save", "edit"} => sourceSync[f].pc = "none"
  /\ row.pc # "commit"
  /\ ~row.item => row.access = row.was
  /\ row.grants \cap row.revokes = {} /\ row.grants \cap permittedUsers = {}
  /\ \A g \in AdminForm : g # f => row.grants \cap form[g].grants = {}
  /\ \A u \in Member \ missed' :
       /\ log'[u].granted = log[u].granted
       /\ \A g \in AdminForm : g # f => (<<g, g>> \in log'[u].order <=> <<g, g>> \in log[u].order)
       /\ <<f, f>> \in log'[u].order <=> u \in row.grants \cup row.revokes
       /\ u \in row.grants \cup row.revokes => \A g \in AdminForm : g # f => u \notin ChangedUsers(g)

\* A step of a form that changes neither the permissions nor a task.
LEMMA FormStepInv ==
  ASSUME PermInv, NEW f \in AdminForm, NEW row \in FormRow,
         form' = [form EXCEPT ![f] = row],
         UNCHANGED <<accessType, permittedUsers, domainUsers, isPublished, logExcused, quickVars>>,
         forms' \in 0 .. MaxForms, missed' \in SUBSET Member, missed \subseteq missed',
         log' \in [Member -> [granted : BOOLEAN, order : SUBSET (AdminForm \X AdminForm)]],
         FormStep(f, row)
  PROVE  PermInv'
<1> USE DEF FormStep
<1>1. /\ form' \in [AdminForm -> FormRow] /\ form'[f] = row
      /\ \A g \in AdminForm : g # f => form'[g] = form[g]
  BY DEF PermInv, PermTypes
<1>2. UNCHANGED <<sourceSync, source, userLock, syncs, trouble>>
  BY DEF quickVars
<1>3. PermTypes'
  BY <1>1, <1>2 DEF PermInv, PermTypes
<1>4. FormsAre'
  <2>1. \A g \in AdminForm : (ChangedUsers(g))' = form'[g].grants \cup form'[g].revokes
    BY DEF ChangedUsers
  <2>2. \A g \in AdminForm : /\ form[g].pc \notin {"edit", "commit"} => ChangedUsers(g) = {}
                             /\ form[g].grants \cap form[g].revokes = {}
                             /\ form[g].grants \cap permittedUsers = {}
                             /\ ~form[g].item => form[g].access = form[g].was
                             /\ \A h \in AdminForm : g # h => form[g].grants \cap form[h].grants = {}
    BY DEF PermInv, FormsAre
  <2>3. \A g \in AdminForm : g # f => (ChangedUsers(g))' = ChangedUsers(g)
    BY <1>1 DEF ChangedUsers
  <2>4. (ChangedUsers(f))' = row.grants \cup row.revokes
    BY <1>1 DEF ChangedUsers
  <2>5. \A g, h \in AdminForm : g # h => form'[g].grants \cap form'[h].grants = {}
    BY <1>1, <2>2
  <2> QED BY <1>1, <2>2, <2>3, <2>4, <2>5 DEF FormsAre
<1>5. EventsAre'
  <2> SUFFICES ASSUME NEW u \in Member \ missed'
               PROVE  /\ (log'[u].granted <=> u \in permittedUsers')
                      /\ \A g \in AdminForm : g \in (Pending(u))' <=> u \in (ChangedUsers(g))'
                      /\ \A g, h \in AdminForm : u \in (ChangedUsers(g))' /\ u \in (ChangedUsers(h))' => g = h
    BY DEF EventsAre
  <2>1. /\ (log[u].granted <=> u \in permittedUsers)
        /\ \A g \in AdminForm : <<g, g>> \in log[u].order <=> u \in ChangedUsers(g)
        /\ \A g, h \in AdminForm : u \in ChangedUsers(g) /\ u \in ChangedUsers(h) => g = h
    BY DEF PermInv, EventsAre, Pending
  <2>2. \A g \in AdminForm : g # f => (ChangedUsers(g))' = ChangedUsers(g)
    BY <1>1 DEF ChangedUsers
  <2>3. (ChangedUsers(f))' = row.grants \cup row.revokes
    BY <1>1 DEF ChangedUsers
  <2>4. \A g \in AdminForm : g \in (Pending(u))' <=> <<g, g>> \in log'[u].order
    BY DEF Pending
  <2>5. (log'[u].granted <=> u \in permittedUsers')
    BY <2>1
  <2>6. \A g \in AdminForm : g \in (Pending(u))' <=> u \in (ChangedUsers(g))'
    <3> TAKE g \in AdminForm
    <3>1. CASE g = f
      <4>1. u \in (ChangedUsers(g))' <=> u \in row.grants \cup row.revokes
        BY <1>1, <3>1 DEF ChangedUsers
      <4>2. <<g, g>> \in log'[u].order <=> u \in row.grants \cup row.revokes
        BY <3>1
      <4> QED BY <2>4, <4>1, <4>2
    <3>2. CASE g # f
      <4>1. <<g, g>> \in log'[u].order <=> u \in ChangedUsers(g)
        BY <2>1, <3>2
      <4> QED BY <2>2, <2>4, <3>2, <4>1
    <3> QED BY <3>1, <3>2
  <2>7. \A g, h \in AdminForm : u \in (ChangedUsers(g))' /\ u \in (ChangedUsers(h))' => g = h
    BY <2>1, <2>2, <2>3
  <2> QED BY <2>5, <2>6, <2>7
<1>6. TasksAre'
  <2>1. \A g \in AdminForm : g # f => (SyncOf(g))' = SyncOf(g)
    BY <1>1 DEF SyncOf, ChangedUsers
  <2> QED BY <1>1, <1>2, <2>1 DEF PermInv, TasksAre
<1>7. SourcesAre'
  BY <1>2 DEF PermInv, SourcesAre, Settling, WillRead, InHand, HasAccess
<1> QED BY <1>3, <1>4, <1>5, <1>6, <1>7 DEF PermInv

\* A form is sent, and its row is locked.
LEMMA BeginFormInv ==
  ASSUME PermInv, NEW f \in AdminForm, BeginDataset(f) \/ BeginUser(f)
  PROVE  PermInv'
<1>1. /\ form[f].pc = "idle" /\ sourceSync[f].pc = "none"
      /\ forms < MaxForms /\ forms' = forms + 1
      /\ UNCHANGED <<accessType, permittedUsers, domainUsers, isPublished, log, missed, logExcused, quickVars>>
  BY DEF BeginDataset, BeginUser, BeginForm, rowVars
<1>2. PICK row \in FormRow : /\ form' = [form EXCEPT ![f] = row]
                             /\ row.pc \in {"save", "edit"} /\ row.grants = {} /\ row.revokes = {}
                             /\ ~row.item => row.access = row.was
  <2>1. permittedUsers \in SUBSET Member /\ accessType \in {"all", "some"}
    BY DEF PermInv, PermTypes
  <2>2. CASE BeginDataset(f)
    <3>1. PICK wanted \in SUBSET Member, domain \in SUBSET Member, type \in {"all", "some"}, shown \in BOOLEAN :
            form' = [form EXCEPT ![f] =
              [pc |-> "save", item |-> TRUE, was |-> accessType, access |-> type,
               domain |-> domain, shown |-> shown, seen |-> permittedUsers, wanted |-> wanted, grants |-> {}, revokes |-> {}]]
      BY <2>2 DEF BeginDataset
    <3>2. PICK row : row = [pc |-> "save", item |-> TRUE, was |-> accessType, access |-> type,
               domain |-> domain, shown |-> shown, seen |-> permittedUsers, wanted |-> wanted, grants |-> {}, revokes |-> {}]
      OBVIOUS
    <3>3. row \in FormRow /\ row.pc = "save" /\ row.grants = {} /\ row.revokes = {} /\ row.item = TRUE
      BY <2>1, <3>2 DEF FormRow
    <3>4. form' = [form EXCEPT ![f] = row]
      BY <3>1, <3>2
    <3> QED BY <3>3, <3>4
  <2>3. CASE BeginUser(f)
    <3>1. PICK u \in Member : \E wanted \in SUBSET {u} :
            form' = [form EXCEPT ![f] =
              [pc |-> "edit", item |-> FALSE, was |-> "some", access |-> "some",
               domain |-> {}, shown |-> TRUE, seen |-> permittedUsers \cap {u}, wanted |-> wanted, grants |-> {}, revokes |-> {}]]
      BY <2>3 DEF BeginUser
    <3>2. PICK wanted \in SUBSET {u} :
            form' = [form EXCEPT ![f] =
              [pc |-> "edit", item |-> FALSE, was |-> "some", access |-> "some",
               domain |-> {}, shown |-> TRUE, seen |-> permittedUsers \cap {u}, wanted |-> wanted, grants |-> {}, revokes |-> {}]]
      BY <3>1
    <3>3. PICK row : row = [pc |-> "edit", item |-> FALSE, was |-> "some", access |-> "some",
               domain |-> {}, shown |-> TRUE, seen |-> permittedUsers \cap {u}, wanted |-> wanted, grants |-> {}, revokes |-> {}]
      OBVIOUS
    <3>4. row \in FormRow /\ row.pc = "edit" /\ row.grants = {} /\ row.revokes = {}
          /\ row.access = "some" /\ row.was = "some"
      BY <2>1, <3>3 DEF FormRow
    <3>5. form' = [form EXCEPT ![f] = row]
      BY <3>2, <3>3
    <3> QED BY <3>4, <3>5
  <2> QED BY <2>2, <2>3
<1>3. /\ log' = log /\ missed' = missed
      /\ missed \in SUBSET Member
      /\ log \in [Member -> [granted : BOOLEAN, order : SUBSET (AdminForm \X AdminForm)]]
      /\ forms' \in 0 .. MaxForms
  BY <1>1, PermissionAssumption DEF PermInv, PermTypes
<1>4. ChangedUsers(f) = {}
  BY <1>1 DEF PermInv, FormsAre
<1>5. \A u \in Member \ missed : <<f, f>> \notin log[u].order
  BY <1>4 DEF PermInv, EventsAre, Pending
<1>6. FormStep(f, row)
  BY <1>1, <1>2, <1>3, <1>5 DEF FormStep
<1> QED BY <1>1, <1>2, <1>3, <1>6, FormStepInv

LEMMA SaveInv ==
  ASSUME PermInv, NEW f \in AdminForm, SaveDataset(f)
  PROVE  PermInv'
<1>1. PICK row : row = [form[f] EXCEPT !.pc = "edit"]
  OBVIOUS
<1>2. /\ row \in FormRow /\ row.pc = "edit" /\ row.grants = form[f].grants /\ row.revokes = form[f].revokes
      /\ row.access = form[f].access /\ row.was = form[f].was
  BY <1>1, FormIs DEF FormRow
<1>3. row.item = form[f].item
  BY <1>1, FormIs DEF FormRow
<1>4. /\ form' = [form EXCEPT ![f] = row] /\ form[f].pc = "save"
      /\ UNCHANGED <<accessType, permittedUsers, domainUsers, isPublished, log, missed, forms, logExcused, quickVars>>
  BY <1>1 DEF SaveDataset, rowVars
<1>5. /\ missed \in SUBSET Member /\ forms \in 0 .. MaxForms
      /\ log \in [Member -> [granted : BOOLEAN, order : SUBSET (AdminForm \X AdminForm)]]
  BY DEF PermInv, PermTypes
<1>6. /\ form[f].grants = {} /\ form[f].revokes = {} /\ ChangedUsers(f) = {}
      /\ ~form[f].item => form[f].access = form[f].was
  BY <1>4 DEF PermInv, FormsAre, ChangedUsers
<1>7. \A u \in Member \ missed : <<f, f>> \notin log[u].order
  BY <1>6 DEF PermInv, EventsAre, Pending
<1>8. sourceSync[f].pc = "none"
  BY <1>4 DEF PermInv, TasksAre
<1>9. FormStep(f, row)
  BY <1>2, <1>3, <1>4, <1>6, <1>7, <1>8 DEF FormStep
<1> QED BY <1>2, <1>4, <1>5, <1>9, FormStepInv

\* The request fails.
LEMMA AbortInv ==
  ASSUME PermInv, NEW f \in AdminForm, Abort(f)
  PROVE  PermInv'
<1>1. /\ form' = [form EXCEPT ![f] = NoForm] /\ log' = Unlogged(f)
      /\ UNCHANGED <<accessType, permittedUsers, domainUsers, isPublished, missed, forms, logExcused, quickVars>>
  BY DEF Abort, rowVars
<1>2. NoForm \in FormRow /\ NoForm.pc = "idle" /\ NoForm.grants = {} /\ NoForm.revokes = {} /\ NoForm.item = TRUE
  BY DEF NoForm, FormRow
<1>3. log' \in [Member -> [granted : BOOLEAN, order : SUBSET (AdminForm \X AdminForm)]]
  BY <1>1 DEF PermInv, PermTypes, Unlogged
<1>4. \A u \in Member : /\ log'[u].granted = log[u].granted
                        /\ log'[u].order = {p \in log[u].order : p[1] # f /\ p[2] # f}
  BY <1>1 DEF Unlogged
<1>5. missed \in SUBSET Member /\ forms \in 0 .. MaxForms
  BY DEF PermInv, PermTypes
<1>6. \A u \in Member : /\ <<f, f>> \notin log'[u].order
                        /\ \A g \in AdminForm : g # f => (<<g, g>> \in log'[u].order <=> <<g, g>> \in log[u].order)
  BY <1>4
<1>7. PICK row \in FormRow : row = NoForm
  BY <1>2
<1>8. row.pc = "idle" /\ row.grants = {} /\ row.revokes = {} /\ row.item
  BY <1>2, <1>7
<1>9. form' = [form EXCEPT ![f] = row]
  BY <1>1, <1>7
<1>10. /\ forms' \in 0 .. MaxForms /\ missed' \in SUBSET Member /\ missed \subseteq missed'
  BY <1>1, <1>5
<1>11. UNCHANGED <<accessType, permittedUsers, domainUsers, isPublished, logExcused, quickVars>>
  BY <1>1
<1>12. /\ row.grants \cap row.revokes = {} /\ row.grants \cap permittedUsers = {}
       /\ \A g \in AdminForm : g # f => row.grants \cap form[g].grants = {}
  BY <1>8
<1>13. \A u \in Member \ missed' :
         /\ log'[u].granted = log[u].granted
         /\ \A g \in AdminForm : g # f => (<<g, g>> \in log'[u].order <=> <<g, g>> \in log[u].order)
         /\ <<f, f>> \in log'[u].order <=> u \in row.grants \cup row.revokes
         /\ u \in row.grants \cup row.revokes => \A g \in AdminForm : g # f => u \notin ChangedUsers(g)
  BY <1>4, <1>6, <1>8
<1>14. /\ row.pc \notin {"edit", "commit"} => row.grants = {} /\ row.revokes = {}
       /\ row.pc \in {"save", "edit"} => sourceSync[f].pc = "none"
       /\ row.pc # "commit"
       /\ ~row.item => row.access = row.was
  BY <1>8
<1> HIDE DEF PermInv, Abort
<1>15. FormStep(f, row)
  BY <1>12, <1>13, <1>14 DEF FormStep
<1> QED BY <1>3, <1>9, <1>10, <1>11, <1>15, FormStepInv

\* What an event adds to the log.
LEMMA EventIs ==
  ASSUME PermInv, NEW f \in AdminForm, NEW u \in Member, Event(f, u)
  PROVE  /\ log' \in [Member -> [granted : BOOLEAN, order : SUBSET (AdminForm \X AdminForm)]]
         /\ \A v \in Member : v # u => log'[v] = log[v]
         /\ log'[u].granted = log[u].granted /\ <<f, f>> \in log'[u].order
         /\ \A g \in AdminForm : g # f => (<<g, g>> \in log'[u].order <=> <<g, g>> \in log[u].order)
<1>1. log \in [Member -> [granted : BOOLEAN, order : SUBSET (AdminForm \X AdminForm)]]
  BY DEF PermInv, PermTypes
<1>2. PICK order \in SUBSET (AdminForm \X AdminForm) :
        order = log[u].order \cup {<<g, f>> : g \in Pending(u) \cup {f}}
  <2>1. Pending(u) \cup {f} \in SUBSET AdminForm
    BY DEF Pending
  <2>2. {<<g, f>> : g \in Pending(u) \cup {f}} \in SUBSET (AdminForm \X AdminForm)
    BY <2>1
  <2>3. log[u].order \in SUBSET (AdminForm \X AdminForm)
    BY <1>1
  <2> QED BY <2>2, <2>3
<1>3. PICK granted \in BOOLEAN : granted = log[u].granted
  BY <1>1
<1>4. PICK row : row = [granted |-> granted, order |-> order]
  OBVIOUS
<1>5. /\ row \in [granted : BOOLEAN, order : SUBSET (AdminForm \X AdminForm)]
      /\ row.order = order
  BY <1>4
<1>6. row.granted = log[u].granted
  BY <1>3, <1>4
<1>7. log' = [log EXCEPT ![u] = row]
  BY <1>2, <1>3, <1>4 DEF Event
<1>8. <<f, f>> \in order /\ \A g \in AdminForm : g # f => (<<g, g>> \in order <=> <<g, g>> \in log[u].order)
  BY <1>2
<1> QED BY <1>1, <1>5, <1>6, <1>7, <1>8

\* A permission is created or deleted, with its event.
LEMMA GrantInv ==
  ASSUME PermInv, NEW f \in AdminForm, NEW u \in Member, Grant(f, u) \/ Revoke(f, u)
  PROVE  PermInv'
<1>1. /\ form[f].pc = "edit" /\ u \notin ChangedUsers(f)
      /\ UNCHANGED <<accessType, permittedUsers, domainUsers, isPublished, forms, logExcused, quickVars>>
      /\ Event(f, u)
  BY DEF Grant, Revoke, Edit, rowVars
<1>2. PICK row : row = IF Grant(f, u) THEN [form[f] EXCEPT !.grants = @ \cup {u}]
                       ELSE [form[f] EXCEPT !.revokes = @ \cup {u}]
  OBVIOUS
<1>3. form' = [form EXCEPT ![f] = row]
  BY <1>2 DEF Grant, Revoke
<1>4. row \in FormRow /\ row.pc = "edit" /\ row.access = form[f].access /\ row.was = form[f].was
  BY <1>1, <1>2, FormIs DEF FormRow
<1>5. row.item = form[f].item
  BY <1>2, FormIs DEF FormRow
<1>6. Grant(f, u) => row.grants = form[f].grants \cup {u} /\ row.revokes = form[f].revokes
  BY <1>2, FormIs DEF FormRow
<1>7. ~Grant(f, u) => row.revokes = form[f].revokes \cup {u} /\ row.grants = form[f].grants
  BY <1>2, FormIs DEF FormRow
<1>8. Grant(f, u) => RowIsFree(f, u) /\ u \notin permittedUsers /\ missed' = missed
  BY DEF Grant
<1>9. ~Grant(f, u) => /\ u \in permittedUsers => RowIsFree(f, u) /\ missed' = missed
                      /\ u \notin permittedUsers => missed' = missed \cup {u}
  BY DEF Revoke
<1>10. /\ missed' \in SUBSET Member /\ missed \subseteq missed' /\ forms' \in 0 .. MaxForms
       /\ u \notin missed' => RowIsFree(f, u)
  BY <1>1, <1>8, <1>9 DEF PermInv, PermTypes
<1>11. RowIsFree(f, u) => \A g \in AdminForm : g # f => u \notin ChangedUsers(g) /\ u \notin form[g].grants
  BY DEF RowIsFree, ChangedUsers
<1>12. /\ form[f].grants \cap form[f].revokes = {} /\ form[f].grants \cap permittedUsers = {}
       /\ ~form[f].item => form[f].access = form[f].was
       /\ \A g \in AdminForm : g # f => form[f].grants \cap form[g].grants = {}
  BY DEF PermInv, FormsAre
<1>13. u \notin form[f].grants /\ u \notin form[f].revokes
  BY <1>1 DEF ChangedUsers
<1>14. /\ row.grants \cap row.revokes = {} /\ row.grants \cap permittedUsers = {}
       /\ \A g \in AdminForm : g # f => row.grants \cap form[g].grants = {}
  <2>1. CASE Grant(f, u)
    BY <1>6, <1>8, <1>11, <1>12, <1>13, <2>1
  <2>2. CASE ~Grant(f, u)
    BY <1>7, <1>12, <1>13, <2>2
  <2> QED BY <2>1, <2>2
<1>15. row.grants \cup row.revokes = ChangedUsers(f) \cup {u}
  BY <1>6, <1>7 DEF ChangedUsers
<1>16. /\ log' \in [Member -> [granted : BOOLEAN, order : SUBSET (AdminForm \X AdminForm)]]
       /\ \A v \in Member : v # u => log'[v] = log[v]
       /\ log'[u].granted = log[u].granted /\ <<f, f>> \in log'[u].order
       /\ \A g \in AdminForm : g # f => (<<g, g>> \in log'[u].order <=> <<g, g>> \in log[u].order)
  BY <1>1, EventIs
<1>17. ASSUME NEW v \in Member \ missed'
       PROVE  /\ log'[v].granted = log[v].granted
              /\ \A g \in AdminForm : g # f => (<<g, g>> \in log'[v].order <=> <<g, g>> \in log[v].order)
              /\ <<f, f>> \in log'[v].order <=> v \in row.grants \cup row.revokes
              /\ v \in row.grants \cup row.revokes => \A g \in AdminForm : g # f => v \notin ChangedUsers(g)
  <2>1. /\ <<f, f>> \in log[v].order <=> v \in ChangedUsers(f)
        /\ \A g \in AdminForm : v \in ChangedUsers(f) /\ v \in ChangedUsers(g) => f = g
    BY <1>10 DEF PermInv, EventsAre, Pending
  <2>2. CASE v = u
    BY <1>10, <1>11, <1>15, <1>16, <2>2
  <2>3. CASE v # u
    BY <1>15, <1>16, <2>1, <2>3
  <2> QED BY <2>2, <2>3
<1>18. /\ row.pc \notin {"edit", "commit"} => row.grants = {} /\ row.revokes = {}
       /\ row.pc \in {"save", "edit"} => sourceSync[f].pc = "none"
       /\ row.pc # "commit"
       /\ ~row.item => row.access = row.was
  <2>1. sourceSync[f].pc = "none"
    BY <1>1 DEF PermInv, TasksAre
  <2> QED BY <1>4, <1>5, <1>12, <2>1
<1>19. UNCHANGED <<accessType, permittedUsers, domainUsers, isPublished, logExcused, quickVars>>
  BY <1>1
<1> HIDE DEF PermInv
<1>20. FormStep(f, row)
  BY <1>14, <1>17, <1>18 DEF FormStep
<1> QED BY <1>3, <1>4, <1>10, <1>16, <1>19, <1>20, FormStepInv

\* The task of the form is queued.
LEMMA QueueInv ==
  ASSUME PermInv, NEW f \in AdminForm, QueueSync(f)
  PROVE  PermInv'
<1>1. /\ form[f].pc = "edit"
      /\ form' = [form EXCEPT ![f].pc = "commit"]
      /\ sourceSync' = IF SyncOf(f) = {} THEN sourceSync ELSE [sourceSync EXCEPT ![f] = Queued(SyncOf(f))]
      /\ UNCHANGED <<accessType, permittedUsers, domainUsers, isPublished, log, missed, forms, logExcused, source, userLock, syncs, trouble>>
  BY DEF QueueSync, rowVars
<1>2. PICK row : row = [form[f] EXCEPT !.pc = "commit"]
  OBVIOUS
<1>3. /\ row \in FormRow /\ row.pc = "commit" /\ row.grants = form[f].grants /\ row.revokes = form[f].revokes
      /\ row.access = form[f].access /\ row.was = form[f].was
  BY <1>2, FormIs DEF FormRow
<1>4. row.item = form[f].item
  BY <1>2, FormIs DEF FormRow
<1>5. /\ form' \in [AdminForm -> FormRow] /\ form'[f] = row
      /\ \A g \in AdminForm : g # f => form'[g] = form[g]
  BY <1>1, <1>2, <1>3 DEF PermInv, PermTypes
<1>6. \A g \in AdminForm : (ChangedUsers(g))' = ChangedUsers(g) /\ (SyncOf(g))' = SyncOf(g)
  <2> TAKE g \in AdminForm
  <2>1. /\ form'[g].grants = form[g].grants /\ form'[g].revokes = form[g].revokes
        /\ form'[g].access = form[g].access /\ form'[g].was = form[g].was
    BY <1>3, <1>5
  <2> QED BY <2>1 DEF ChangedUsers, SyncOf
<1>7. sourceSync[f].pc = "none" /\ sourceSync[f].users = {} /\ sourceSync[f].todo = {} /\ sourceSync[f].user = NoOne
  <2>1. f \in Task
    BY FormIs
  <2>2. sourceSync[f].pc = "none"
    BY <1>1 DEF PermInv, TasksAre
  <2> QED BY <2>1, <2>2 DEF PermInv, TasksAre
<1>8. PICK task : task = IF SyncOf(f) = {} THEN sourceSync[f] ELSE Queued(SyncOf(f))
  OBVIOUS
<1>9. /\ task \in TaskRow /\ task.users = SyncOf(f) /\ task.todo = SyncOf(f) /\ task.user = NoOne
      /\ task.pc \in {"none", "queued"} /\ (task.pc = "none" => SyncOf(f) = {})
  BY <1>7, <1>8, FormIs, TaskIs DEF Queued, TaskRow
<1>10. /\ sourceSync' \in [Task -> TaskRow] /\ sourceSync'[f] = task
       /\ \A t \in Task : t # f => sourceSync'[t] = sourceSync[t]
  <2>1. sourceSync \in [Task -> TaskRow] /\ f \in Task
    BY FormIs DEF PermInv, PermTypes
  <2>2. sourceSync' = [sourceSync EXCEPT ![f] = task]
    BY <1>1, <1>8, <2>1
  <2> QED BY <1>9, <2>1, <2>2
<1>11. PermTypes'
  BY <1>1, <1>5, <1>10 DEF PermInv, PermTypes
<1>12. FormsAre'
  <2>1. \A g \in AdminForm : /\ form'[g].grants = form[g].grants /\ form'[g].revokes = form[g].revokes
                             /\ form'[g].access = form[g].access /\ form'[g].was = form[g].was
                             /\ form'[g].pc \notin {"edit", "commit"} => form[g].pc \notin {"edit", "commit"}
    BY <1>3, <1>5
  <2>2. \A g \in AdminForm : ~form'[g].item => ~form[g].item
    BY <1>4, <1>5
  <2> QED BY <1>1, <1>6, <2>1, <2>2 DEF PermInv, FormsAre
<1>13. EventsAre'
  <2>1. \A u \in Member : (Pending(u))' = Pending(u)
    BY <1>1 DEF Pending
  <2> QED BY <1>1, <1>6, <2>1 DEF PermInv, EventsAre
<1>14. TasksAre'
  <2>1. NoOne \notin Task /\ NoOne \notin Member
    BY PermissionAssumption DEF Task
  <2>2. \A u \in Member : userLock[u] # f
    BY <1>7, <2>1, FormIs DEF PermInv, TasksAre
  <2> QED BY <1>1, <1>3, <1>5, <1>6, <1>9, <1>10, <2>1, <2>2 DEF PermInv, TasksAre
<1>15. SourcesAre'
  <2> SUFFICES ASSUME NEW u \in Member \ logExcused'
               PROVE  \/ (Settling(u))'
                      \/ \E t \in Task : sourceSync'[t].user = u /\ sourceSync'[t].reads = (HasAccess(u))'
                      \/ (~InHand(u))' /\ (u \in source' <=> (HasAccess(u))')
    BY DEF SourcesAre
  <2>1. NoOne \notin Member /\ (HasAccess(u))' = HasAccess(u)
    BY <1>1, PermissionAssumption DEF HasAccess
  <2>2. CASE u \in SyncOf(f)
    BY <1>9, <1>10, <2>2, FormIs DEF Settling, WillRead
  <2>3. CASE u \notin SyncOf(f)
    <3>1. \A t \in Task : sourceSync'[t].user = u <=> sourceSync[t].user = u
      BY <1>7, <1>9, <1>10, <2>1
    <3>2. \A t \in Task : u \in sourceSync'[t].todo <=> u \in sourceSync[t].todo
      BY <1>7, <1>9, <1>10, <2>3
    <3>3. \A t \in Task : sourceSync[t].user = u => sourceSync'[t] = sourceSync[t]
      BY <1>7, <1>10, <2>1
    <3>4. CASE Settling(u)
      <4>1. PICK t \in Task : WillRead(t, u) \/ (sourceSync[t].user = u /\ userLock[u] # t)
        BY <3>4 DEF Settling
      <4> QED BY <1>1, <3>1, <3>2, <3>3, <4>1 DEF Settling, WillRead
    <3>5. ASSUME NEW t \in Task, sourceSync[t].user = u, sourceSync[t].reads = HasAccess(u)
          PROVE  sourceSync'[t].user = u /\ sourceSync'[t].reads = (HasAccess(u))'
      BY <2>1, <3>3, <3>5
    <3>6. CASE ~InHand(u) /\ (u \in source <=> HasAccess(u))
      <4>1. (~InHand(u))'
        BY <2>1, <3>1, <3>2, <3>6 DEF InHand
      <4> QED BY <1>1, <2>1, <3>6, <4>1
    <3> QED BY <1>1, <3>4, <3>5, <3>6 DEF PermInv, SourcesAre
  <2> QED BY <2>2, <2>3
<1> QED BY <1>11, <1>12, <1>13, <1>14, <1>15 DEF PermInv

\* A form commits: its events, its permissions and the type of access.
LEMMA CommitFormInv ==
  ASSUME PermInv, NEW f \in AdminForm, CommitForm(f)
  PROVE  PermInv'
<1>1. /\ form[f].pc = "commit"
      /\ accessType' = IF form[f].item THEN form[f].access ELSE accessType
      /\ permittedUsers' = (permittedUsers \cup form[f].grants) \ form[f].revokes
      /\ log' = Logged(f)
      /\ domainUsers' = IF form[f].item THEN form[f].domain ELSE domainUsers
      /\ isPublished' = IF form[f].item THEN form[f].shown ELSE isPublished
      /\ logExcused' = logExcused \cup LeftToNight(f)
      /\ form' = [form EXCEPT ![f] = NoForm]
      /\ UNCHANGED <<missed, forms, sourceSync, source, userLock, syncs, trouble>>
  BY DEF CommitForm, quickVars
<1>2. NoForm \in FormRow /\ NoForm.pc = "idle" /\ NoForm.grants = {} /\ NoForm.revokes = {} /\ NoForm.item
  BY DEF NoForm, FormRow
<1>3. /\ form' \in [AdminForm -> FormRow] /\ form'[f] = NoForm
      /\ \A g \in AdminForm : g # f => form'[g] = form[g]
  BY <1>1, <1>2 DEF PermInv, PermTypes
<1>4. (ChangedUsers(f))' = {} /\ \A g \in AdminForm : g # f => (ChangedUsers(g))' = ChangedUsers(g)
  BY <1>2, <1>3 DEF ChangedUsers
<1>5. LeftToNight(f) \in SUBSET Member
  <2>1. ReadBefore(f) \in SUBSET Member
    BY FormIs, TaskIs DEF ReadBefore
  <2> QED BY <2>1 DEF LeftToNight
<1>6. PermTypes'
  <2>1. log \in [Member -> [granted : BOOLEAN, order : SUBSET (AdminForm \X AdminForm)]]
    BY DEF PermInv, PermTypes
  <2>2. log' \in [Member -> [granted : BOOLEAN, order : SUBSET (AdminForm \X AdminForm)]]
    <3> SUFFICES ASSUME NEW u \in Member
                 PROVE  (IF f \notin Pending(u) THEN log[u]
                         ELSE [granted |-> u \in form[f].grants,
                               order |-> {p \in log[u].order : p[1] # f /\ <<f, p[1]>> \in log[u].order}])
                        \in [granted : BOOLEAN, order : SUBSET (AdminForm \X AdminForm)]
      BY <1>1 DEF Logged
    <3>1. {p \in log[u].order : p[1] # f /\ <<f, p[1]>> \in log[u].order} \in SUBSET (AdminForm \X AdminForm)
      BY <2>1
    <3> QED BY <2>1, <3>1
  <2>3. accessType' \in {"all", "some"} /\ permittedUsers' \in SUBSET Member /\ logExcused' \in SUBSET Member
    BY <1>1, <1>5, FormIs DEF PermInv, PermTypes
  <2>4. domainUsers' \in SUBSET Member /\ isPublished' \in BOOLEAN
    BY <1>1, FormIs DEF PermInv, PermTypes
  <2> QED BY <1>1, <1>3, <2>2, <2>3, <2>4 DEF PermInv, PermTypes
<1>7. \A g \in AdminForm : /\ form[g].pc \notin {"edit", "commit"} => ChangedUsers(g) = {}
                           /\ form[g].grants \cap form[g].revokes = {}
                           /\ form[g].grants \cap permittedUsers = {}
                           /\ ~form[g].item => form[g].access = form[g].was
                           /\ \A h \in AdminForm : g # h => form[g].grants \cap form[h].grants = {}
  BY DEF PermInv, FormsAre
<1>8. FormsAre'
  <2> SUFFICES ASSUME NEW g \in AdminForm
               PROVE  /\ form'[g].pc \notin {"edit", "commit"} => (ChangedUsers(g))' = {}
                      /\ form'[g].grants \cap form'[g].revokes = {}
                      /\ form'[g].grants \cap permittedUsers' = {}
                      /\ ~form'[g].item => form'[g].access = form'[g].was
                      /\ \A h \in AdminForm : g # h => form'[g].grants \cap form'[h].grants = {}
    BY DEF FormsAre
  <2>1. CASE g = f
    BY <1>2, <1>3, <1>4, <2>1
  <2>2. CASE g # f
    BY <1>1, <1>2, <1>3, <1>4, <1>7, <2>2
  <2> QED BY <2>1, <2>2
<1>9. EventsAre'
  <2> SUFFICES ASSUME NEW u \in Member \ missed
               PROVE  /\ (log'[u].granted <=> u \in permittedUsers')
                      /\ \A g \in AdminForm : g \in (Pending(u))' <=> u \in (ChangedUsers(g))'
                      /\ \A g, h \in AdminForm : u \in (ChangedUsers(g))' /\ u \in (ChangedUsers(h))' => g = h
    BY <1>1 DEF EventsAre
  <2>1. /\ (log[u].granted <=> u \in permittedUsers)
        /\ \A g \in AdminForm : <<g, g>> \in log[u].order <=> u \in ChangedUsers(g)
        /\ \A g, h \in AdminForm : u \in ChangedUsers(g) /\ u \in ChangedUsers(h) => g = h
    BY DEF PermInv, EventsAre, Pending
  <2>2. \A g \in AdminForm : g \in (Pending(u))' <=> <<g, g>> \in log'[u].order
    BY DEF Pending
  <2>3. \A g, h \in AdminForm : u \in (ChangedUsers(g))' /\ u \in (ChangedUsers(h))' => g = h
    BY <1>4, <2>1
  <2>4. CASE u \in ChangedUsers(f)
    <3>1. f \in Pending(u)
      BY <2>1, <2>4 DEF Pending
    <3>2. PICK granted \in BOOLEAN : granted <=> u \in form[f].grants
      OBVIOUS
    <3>3. log'[u] = [granted |-> granted,
                     order |-> {p \in log[u].order : p[1] # f /\ <<f, p[1]>> \in log[u].order}]
      <4>1. granted = (u \in form[f].grants)
        BY <3>2
      <4> QED BY <1>1, <3>1, <4>1, Zenon DEF Logged
    <3>4. log'[u].granted <=> u \in form[f].grants
      BY <3>2, <3>3
    <3>5. \A g \in AdminForm : <<g, g>> \in log'[u].order => g # f /\ <<g, g>> \in log[u].order
      BY <3>3
    <3>6. \A g \in AdminForm : <<g, g>> \notin log'[u].order
      BY <2>1, <2>4, <3>5
    <3>7. \A g \in AdminForm : u \notin (ChangedUsers(g))'
      BY <1>4, <2>1, <2>4
    <3>8. u \in permittedUsers' <=> u \in form[f].grants
      BY <1>1, <1>7, <2>4 DEF ChangedUsers
    <3> QED BY <2>2, <2>3, <3>4, <3>6, <3>7, <3>8
  <2>5. CASE u \notin ChangedUsers(f)
    <3>1. f \notin Pending(u)
      BY <2>1, <2>5 DEF Pending
    <3>2. log'[u] = log[u]
      BY <1>1, <3>1 DEF Logged
    <3>3. u \in permittedUsers' <=> u \in permittedUsers
      BY <1>1, <2>5 DEF ChangedUsers
    <3>4. \A g \in AdminForm : <<g, g>> \in log'[u].order <=> u \in (ChangedUsers(g))'
      <4> TAKE g \in AdminForm
      <4>1. CASE g = f
        BY <1>4, <2>1, <2>5, <3>2, <4>1
      <4>2. CASE g # f
        BY <1>4, <2>1, <3>2, <4>2
      <4> QED BY <4>1, <4>2
    <3> QED BY <2>1, <2>2, <2>3, <3>2, <3>3, <3>4
  <2> QED BY <2>4, <2>5
<1>10. TasksAre'
  <2>1. \A g \in AdminForm : g # f => (SyncOf(g))' = SyncOf(g)
    BY <1>3 DEF SyncOf, ChangedUsers
  <2> QED BY <1>1, <1>2, <1>3, <2>1 DEF PermInv, TasksAre
<1>11. SourcesAre'
  <2> SUFFICES ASSUME NEW u \in Member \ logExcused'
               PROVE  \/ (Settling(u))'
                      \/ \E t \in Task : sourceSync'[t].user = u /\ sourceSync'[t].reads = (HasAccess(u))'
                      \/ (~InHand(u))' /\ (u \in source' <=> (HasAccess(u))')
    BY DEF SourcesAre
  <2>1. /\ u \notin logExcused /\ u \notin ReadBefore(f) \cap ChangedUsers(f)
        /\ isPublished' = isPublished /\ (u \in domainUsers' <=> u \in domainUsers)
    BY <1>1 DEF LeftToNight
  <2>2. /\ (Settling(u))' <=> Settling(u)
        /\ (InHand(u))' <=> InHand(u)
    BY <1>1 DEF Settling, InHand, WillRead
  <2>3. sourceSync[f].users = SyncOf(f) /\ f \in Task
    BY <1>1, FormIs DEF PermInv, TasksAre
  <2>4. ASSUME u \in SyncOf(f), u \notin ReadBefore(f) PROVE Settling(u)
    BY <2>3, <2>4 DEF ReadBefore, Settling, WillRead
  <2>5. CASE (HasAccess(u))' <=> HasAccess(u)
    <3>1. (HasAccess(u))' = HasAccess(u)
      BY <2>5 DEF HasAccess
    <3> QED BY <1>1, <2>1, <2>2, <3>1 DEF PermInv, SourcesAre
  <2>6. CASE accessType' # accessType
    <3>1. ChangedUsers(f) = {} /\ form[f].access # form[f].was /\ u \notin ReadBefore(f)
      BY <1>1, <2>6 DEF LeftToNight
    <3>2. u \in SyncOf(f)
      BY <3>1 DEF SyncOf
    <3> QED BY <2>2, <2>4, <3>1, <3>2
  <2>7. CASE accessType' = accessType /\ ~((HasAccess(u))' <=> HasAccess(u))
    <3>1. ~(u \in permittedUsers' <=> u \in permittedUsers)
      BY <2>1, <2>7 DEF HasAccess
    <3>2. u \in ChangedUsers(f)
      BY <1>1, <3>1 DEF ChangedUsers
    <3>3. u \in SyncOf(f) /\ u \notin ReadBefore(f)
      BY <2>1, <3>2 DEF SyncOf
    <3> QED BY <2>2, <2>4, <3>3
  <2> QED BY <2>5, <2>6, <2>7
<1> QED BY <1>6, <1>8, <1>9, <1>10, <1>11 DEF PermInv

\* The row that a step of a task writes, where each user is read, will be read, is written by the one
\* that holds the lock, or is not touched.
UserStep(t, row, u) ==
  \/ row.user = u /\ row.reads = HasAccess(u)
  \/ u \in row.todo \/ (row.user = u /\ row.pc = "locked")
  \/ /\ u \notin logExcused /\ (u \in source' <=> u \in source) /\ userLock'[u] \in {userLock[u], NoOne}
     /\ (u \in row.todo <=> u \in sourceSync[t].todo) /\ (row.user = u <=> sourceSync[t].user = u)
     /\ sourceSync[t].user = u => row.pc = sourceSync[t].pc /\ row.reads = sourceSync[t].reads
  \/ /\ u \notin logExcused /\ sourceSync[t].user = u /\ sourceSync[t].pc = "write"
     /\ userLock[u] = t /\ userLock'[u] = NoOne
     /\ row.user = NoOne /\ row.todo = sourceSync[t].todo
     /\ u \in source' <=> sourceSync[t].reads
TaskStep(t, row) ==
  /\ row.pc = "none" => row.users = {} /\ row.todo = {}
  /\ row.pc \in {"none", "queued"} <=> row.user = NoOne
  /\ \A u \in Member : /\ userLock'[u] = t => row.user = u
                       /\ userLock'[u] \in {userLock[u], NoOne, t}
  /\ t \in AdminForm => /\ form[t].pc \in {"save", "edit"} => row.pc = "none"
                        /\ form[t].pc = "commit" => row.users = sourceSync[t].users
  /\ \A u \in Member \ logExcused' : UserStep(t, row, u)

LEMMA TaskStepInv ==
  ASSUME PermInv, NEW t \in Task, NEW row \in TaskRow, UNCHANGED adminFormVars,
         sourceSync' = [sourceSync EXCEPT ![t] = row],
         source' \in SUBSET Member, logExcused' \in SUBSET Member,
         userLock' \in [Member -> Task \cup {NoOne}],
         syncs' \in 0 .. MaxSyncs, trouble' \in 0 .. SyncTrouble,
         TaskStep(t, row)
  PROVE  PermInv'
<1>0. /\ row.pc = "none" => row.users = {} /\ row.todo = {}
      /\ row.pc \in {"none", "queued"} <=> row.user = NoOne
      /\ t \in AdminForm => /\ form[t].pc \in {"save", "edit"} => row.pc = "none"
                            /\ form[t].pc = "commit" => row.users = sourceSync[t].users
  BY DEF TaskStep
<1>00. \A u \in Member : /\ userLock'[u] = t => row.user = u
                         /\ userLock'[u] \in {userLock[u], NoOne, t}
  BY DEF TaskStep
<1>1. UNCHANGED <<accessType, permittedUsers, domainUsers, isPublished, log, form, missed, forms>>
  BY DEF adminFormVars, rowVars
<1>2. /\ sourceSync' \in [Task -> TaskRow] /\ sourceSync'[t] = row
      /\ \A s \in Task : s # t => sourceSync'[s] = sourceSync[s]
  BY DEF PermInv, PermTypes
<1>3. PermTypes'
  BY <1>1, <1>2 DEF PermInv, PermTypes
<1>4. FormsAre' /\ EventsAre'
  BY <1>1 DEF PermInv, FormsAre, EventsAre, ChangedUsers, Pending
<1>5. TasksAre'
  <2>1. \A f \in AdminForm : (SyncOf(f))' = SyncOf(f)
    BY <1>1 DEF SyncOf, ChangedUsers
  <2>2. \A s \in Task :
          /\ sourceSync'[s].pc = "none" => sourceSync'[s].users = {} /\ sourceSync'[s].todo = {}
          /\ sourceSync'[s].pc \in {"none", "queued"} <=> sourceSync'[s].user = NoOne
    BY <1>0, <1>2 DEF PermInv, TasksAre
  <2>3. ASSUME NEW s \in Task, NEW u \in Member, userLock'[u] = s PROVE sourceSync'[s].user = u
    <3>1. CASE s = t
      BY <1>00, <1>2, <2>3, <3>1
    <3>2. CASE s # t
      <4>1. s # NoOne
        BY TaskIs
      <4>2. userLock[u] = s
        BY <1>00, <2>3, <3>2, <4>1
      <4> QED BY <1>2, <3>2, <4>2 DEF PermInv, TasksAre
    <3> QED BY <3>1, <3>2
  <2>4. ASSUME NEW f \in AdminForm
        PROVE  /\ form'[f].pc \in {"save", "edit"} => sourceSync'[f].pc = "none"
               /\ form'[f].pc = "commit" => sourceSync'[f].users = (SyncOf(f))'
    <3>1. /\ form[f].pc \in {"save", "edit"} => sourceSync[f].pc = "none"
          /\ form[f].pc = "commit" => sourceSync[f].users = SyncOf(f)
          /\ f \in Task
      BY FormIs DEF PermInv, TasksAre
    <3>2. CASE f = t
      BY <1>0, <1>1, <1>2, <2>1, <3>1, <3>2
    <3>3. CASE f # t
      BY <1>1, <1>2, <2>1, <3>1, <3>3
    <3> QED BY <3>2, <3>3
  <2> QED BY <2>2, <2>3, <2>4 DEF TasksAre
<1>6. SourcesAre'
  <2> SUFFICES ASSUME NEW u \in Member \ logExcused'
               PROVE  \/ (Settling(u))'
                      \/ \E s \in Task : sourceSync'[s].user = u /\ sourceSync'[s].reads = (HasAccess(u))'
                      \/ (~InHand(u))' /\ (u \in source' <=> (HasAccess(u))')
    BY DEF SourcesAre
  <2>0. NoOne \notin Member /\ NoOne \notin Task /\ (HasAccess(u))' = HasAccess(u)
    BY <1>1, TaskIs DEF HasAccess
  <2>01. UserStep(t, row, u)
    BY DEF TaskStep
  <2>1. CASE row.user = u /\ row.reads = HasAccess(u)
    BY <1>2, <2>0, <2>1
  <2>2. CASE u \in row.todo \/ (row.user = u /\ row.pc = "locked")
    BY <1>2, <2>2 DEF Settling, WillRead
  <2>3. CASE /\ u \notin logExcused /\ (u \in source' <=> u \in source) /\ userLock'[u] \in {userLock[u], NoOne}
             /\ (u \in row.todo <=> u \in sourceSync[t].todo) /\ (row.user = u <=> sourceSync[t].user = u)
             /\ sourceSync[t].user = u => row.pc = sourceSync[t].pc /\ row.reads = sourceSync[t].reads
    <3>1. \A s \in Task : /\ u \in sourceSync'[s].todo <=> u \in sourceSync[s].todo
                          /\ sourceSync'[s].user = u <=> sourceSync[s].user = u
                          /\ sourceSync[s].user = u => sourceSync'[s].pc = sourceSync[s].pc
      BY <1>2, <2>3
    <3>2. \A s \in Task : sourceSync[s].user = u => sourceSync'[s].reads = sourceSync[s].reads
      BY <1>2, <2>3
    <3>3. CASE Settling(u)
      <4>1. PICK s \in Task : WillRead(s, u) \/ (sourceSync[s].user = u /\ userLock[u] # s)
        BY <3>3 DEF Settling
      <4>2. userLock[u] # s => userLock'[u] # s
        BY <2>0, <2>3
      <4> QED BY <3>1, <4>1, <4>2 DEF Settling, WillRead
    <3>4. ASSUME NEW s \in Task, sourceSync[s].user = u, sourceSync[s].reads = HasAccess(u)
          PROVE  sourceSync'[s].user = u /\ sourceSync'[s].reads = (HasAccess(u))'
      <4>1. sourceSync'[s].user = u
        BY <3>1, <3>4
      <4>2. sourceSync'[s].reads = sourceSync[s].reads
        BY <3>2, <3>4
      <4> QED BY <2>0, <3>4, <4>1, <4>2
    <3>5. CASE ~InHand(u) /\ (u \in source <=> HasAccess(u))
      <4>1. (~InHand(u))'
        BY <3>1, <3>5 DEF InHand
      <4> QED BY <2>0, <2>3, <3>5, <4>1
    <3>6. Settling(u) \/ (\E s \in Task : sourceSync[s].user = u /\ sourceSync[s].reads = HasAccess(u))
                      \/ (~InHand(u) /\ (u \in source <=> HasAccess(u)))
      BY <2>3 DEF PermInv, SourcesAre
    <3> QED BY <3>3, <3>4, <3>5, <3>6
  <2>4. CASE /\ u \notin logExcused /\ sourceSync[t].user = u /\ sourceSync[t].pc = "write"
             /\ userLock[u] = t /\ userLock'[u] = NoOne
             /\ row.user = NoOne /\ row.todo = sourceSync[t].todo
             /\ u \in source' <=> sourceSync[t].reads
    <3>1. CASE Settling(u)
      <4>1. PICK s \in Task : WillRead(s, u) \/ (sourceSync[s].user = u /\ userLock[u] # s)
        BY <3>1 DEF Settling
      <4>2. CASE s = t
        <5>1. u \in sourceSync[t].todo
          BY <2>4, <4>1, <4>2 DEF WillRead
        <5> QED BY <1>2, <2>4, <5>1 DEF Settling, WillRead
      <4>3. CASE s # t
        BY <1>2, <2>0, <2>4, <4>1, <4>3 DEF Settling, WillRead
      <4> QED BY <4>2, <4>3
    <3>2. CASE ~Settling(u)
      <4>1. \A s \in Task : /\ u \notin sourceSync[s].todo
                            /\ s # t => sourceSync[s].user # u
        BY <2>4, <3>2 DEF Settling, WillRead
      <4>2. InHand(u)
        BY <2>4 DEF InHand
      <4>3. \E s \in Task : sourceSync[s].user = u /\ sourceSync[s].reads = HasAccess(u)
        BY <2>4, <3>2, <4>2 DEF PermInv, SourcesAre
      <4>4. sourceSync[t].reads = HasAccess(u)
        BY <4>1, <4>3
      <4>5. \A s \in Task : u \notin sourceSync'[s].todo /\ sourceSync'[s].user # u
        BY <1>2, <2>0, <2>4, <4>1
      <4>6. (~InHand(u))'
        BY <4>5 DEF InHand
      <4> QED BY <2>0, <2>4, <4>4, <4>6
    <3> QED BY <3>1, <3>2
  <2> QED BY <2>01, <2>1, <2>2, <2>3, <2>4 DEF UserStep
<1> QED BY <1>3, <1>4, <1>5, <1>6 DEF PermInv

\* What is known of a task that is under way.
LEMMA BusyIs ==
  ASSUME PermInv, NEW t \in Task
  PROVE  /\ sourceSync[t].pc \in {"none", "queued"} <=> sourceSync[t].user = NoOne
         /\ \A u \in Member : userLock[u] = t => sourceSync[t].user = u
         /\ sourceSync[t].pc # "none" /\ t \in AdminForm => form[t].pc \notin {"save", "edit"}
         /\ source \in SUBSET Member /\ logExcused \in SUBSET Member
         /\ userLock \in [Member -> Task \cup {NoOne}]
         /\ syncs \in 0 .. MaxSyncs /\ trouble \in 0 .. SyncTrouble
         /\ MaxSyncs \in Nat /\ SyncTrouble \in Nat
BY PermissionAssumption DEF PermInv, PermTypes, TasksAre

LEMMA LockInv ==
  ASSUME PermInv, NEW t \in Task, NEW u \in Member, LockUser(t, u) \/ LockTimesOut(t, u)
  PROVE  PermInv'
<1>1. /\ sourceSync[t].pc = "queued" /\ u \in sourceSync[t].todo /\ sourceSync[t].user = NoOne
      /\ NoOne \notin Member /\ t # NoOne
  BY BusyIs, TaskIs DEF LockUser, LockTimesOut
<1>2. \A v \in Member : userLock[v] # t /\ sourceSync[t].user # v
  BY <1>1, BusyIs
<1>3. sourceSync[t].todo \ {u} \in SUBSET Member
  BY TaskIs
<1>4. t \in AdminForm => form[t].pc \notin {"save", "edit"}
  BY <1>1, BusyIs
<1>5. CASE LockUser(t, u)
  <2>1. /\ userLock' = [userLock EXCEPT ![u] = t]
        /\ SyncWaits(t, "locked", sourceSync[t].todo \ {u}, u)
        /\ UNCHANGED <<source, syncs, trouble, logExcused, adminFormVars>>
    BY <1>5 DEF LockUser
  <2>20. PICK row \in TaskRow : row = [pc |-> "locked", users |-> sourceSync[t].users, todo |-> sourceSync[t].todo \ {u},
                                     user |-> u, reads |-> FALSE]
    BY <1>3, TaskIs DEF TaskRow
  <2>21. sourceSync' = [sourceSync EXCEPT ![t] = row]
    BY <2>1, <2>20 DEF SyncWaits, SyncGoes
  <2>2. /\ row \in TaskRow /\ sourceSync' = [sourceSync EXCEPT ![t] = row]
        /\ row.pc = "locked" /\ row.users = sourceSync[t].users
        /\ row.todo = sourceSync[t].todo \ {u} /\ row.user = u
    BY <2>20, <2>21
  <2>3. /\ userLock' \in [Member -> Task \cup {NoOne}] /\ userLock'[u] = t
        /\ \A v \in Member : v # u => userLock'[v] = userLock[v]
    BY <2>1, BusyIs
  <2>4. /\ source' \in SUBSET Member /\ logExcused' \in SUBSET Member
        /\ syncs' \in 0 .. MaxSyncs /\ trouble' \in 0 .. SyncTrouble
    BY <2>1, BusyIs
  <2>5. ASSUME NEW v \in Member \ logExcused'
        PROVE  \/ v \in row.todo \/ (row.user = v /\ row.pc = "locked")
               \/ /\ v \notin logExcused /\ (v \in source' <=> v \in source) /\ userLock'[v] \in {userLock[v], NoOne}
                  /\ (v \in row.todo <=> v \in sourceSync[t].todo) /\ (row.user = v <=> sourceSync[t].user = v)
                  /\ sourceSync[t].user = v => row.pc = sourceSync[t].pc /\ row.reads = sourceSync[t].reads
    BY <1>2, <2>1, <2>2, <2>3
  <2>6. \A v \in Member : /\ userLock'[v] = t => row.user = v
                          /\ userLock'[v] \in {userLock[v], NoOne, t}
    BY <1>2, <2>2, <2>3
  <2>7. UNCHANGED adminFormVars
    BY <2>1
  <2>8. /\ row.pc = "none" => row.users = {} /\ row.todo = {}
        /\ row.pc \in {"none", "queued"} <=> row.user = NoOne
    BY <1>1, <2>2
  <2>90. t \in AdminForm => /\ form[t].pc \in {"save", "edit"} => row.pc = "none"
                            /\ form[t].pc = "commit" => row.users = sourceSync[t].users
    BY <1>4, <2>2, <2>3, <2>4, <2>5, <2>6, <2>7, <2>8
  <2>91. \A v \in Member \ logExcused' : UserStep(t, row, v)
    BY <1>4, <2>2, <2>3, <2>4, <2>5, <2>6, <2>7, <2>8 DEF UserStep
  <2> HIDE DEF PermInv
  <2>92. sourceSync' = [sourceSync EXCEPT ![t] = row] /\ userLock' \in [Member -> Task \cup {NoOne}]
    BY <2>2, <2>3
  <2>93. TaskStep(t, row)
    BY <2>6, <2>8, <2>90, <2>91 DEF TaskStep
  <2> QED BY <2>4, <2>7, <2>92, <2>93, TaskStepInv
<1>6. CASE LockTimesOut(t, u)
  <2>1. /\ trouble < SyncTrouble /\ trouble' = trouble + 1
        /\ SyncWaits(t, "queued", sourceSync[t].todo \ {u}, NoOne)
        /\ logExcused' = logExcused \cup {u}
        /\ UNCHANGED <<source, userLock, syncs, adminFormVars>>
    BY <1>6 DEF LockTimesOut
  <2>20. PICK row \in TaskRow : row = [pc |-> "queued", users |-> sourceSync[t].users, todo |-> sourceSync[t].todo \ {u},
                                     user |-> NoOne, reads |-> FALSE]
    BY <1>3, TaskIs DEF TaskRow
  <2>21. sourceSync' = [sourceSync EXCEPT ![t] = row]
    BY <2>1, <2>20 DEF SyncWaits, SyncGoes
  <2>2. /\ row \in TaskRow /\ sourceSync' = [sourceSync EXCEPT ![t] = row]
        /\ row.pc = "queued" /\ row.users = sourceSync[t].users
        /\ row.todo = sourceSync[t].todo \ {u} /\ row.user = NoOne
    BY <2>20, <2>21
  <2>3. /\ source' \in SUBSET Member /\ logExcused' \in SUBSET Member
        /\ syncs' \in 0 .. MaxSyncs /\ trouble' \in 0 .. SyncTrouble
        /\ userLock' \in [Member -> Task \cup {NoOne}]
    BY <2>1, BusyIs
  <2>4. ASSUME NEW v \in Member \ logExcused'
        PROVE  /\ v \notin logExcused /\ (v \in source' <=> v \in source) /\ userLock'[v] \in {userLock[v], NoOne}
               /\ (v \in row.todo <=> v \in sourceSync[t].todo) /\ (row.user = v <=> sourceSync[t].user = v)
               /\ sourceSync[t].user # v
    BY <1>1, <1>2, <2>1, <2>2
  <2>5. \A v \in Member : /\ userLock'[v] = t => row.user = v
                          /\ userLock'[v] \in {userLock[v], NoOne, t}
    BY <1>2, <2>1
  <2>6. UNCHANGED adminFormVars
    BY <2>1
  <2>7. /\ row.pc = "none" => row.users = {} /\ row.todo = {}
        /\ row.pc \in {"none", "queued"} <=> row.user = NoOne
    BY <2>2
  <2>90. t \in AdminForm => /\ form[t].pc \in {"save", "edit"} => row.pc = "none"
                            /\ form[t].pc = "commit" => row.users = sourceSync[t].users
    BY <1>4, <2>2, <2>3, <2>4, <2>5, <2>6, <2>7
  <2>91. \A v \in Member \ logExcused' : UserStep(t, row, v)
    BY <1>4, <2>2, <2>3, <2>4, <2>5, <2>6, <2>7 DEF UserStep
  <2> HIDE DEF PermInv
  <2>92. TaskStep(t, row)
    BY <2>5, <2>7, <2>90, <2>91 DEF TaskStep
  <2> QED BY <2>2, <2>3, <2>6, <2>92, TaskStepInv
<1> QED BY <1>5, <1>6

\* A task reads whether the user at hand may use the dataset.
LEMMA ReadTablesInv ==
  ASSUME PermInv, NEW t \in Task, ReadUserTables(t)
  PROVE  PermInv'
<1>1. PICK u : u = sourceSync[t].user
  OBVIOUS
<1>2. /\ sourceSync[t].pc = "locked" /\ u \in Member /\ NoOne \notin Member
      /\ SyncGoes(t, "write", sourceSync[t].todo, u, HasAccess(u))
      /\ logExcused' = logExcused \ {u}
      /\ UNCHANGED <<source, userLock, syncs, trouble, adminFormVars>>
  BY <1>1, BusyIs, TaskIs DEF ReadUserTables
<1>3. PICK reads \in BOOLEAN : reads = HasAccess(u)
  BY DEF HasAccess
<1>4. SyncGoes(t, "write", sourceSync[t].todo, u, reads)
  BY <1>2, <1>3
<1>50. PICK row \in TaskRow : row = [pc |-> "write", users |-> sourceSync[t].users, todo |-> sourceSync[t].todo,
                                   user |-> u, reads |-> reads]
  BY <1>2, TaskIs DEF TaskRow
<1>51. sourceSync' = [sourceSync EXCEPT ![t] = row]
  BY <1>4, <1>50 DEF SyncGoes
<1>52. row.reads = reads
  BY <1>50
<1>5. /\ row \in TaskRow /\ sourceSync' = [sourceSync EXCEPT ![t] = row]
      /\ row.pc = "write" /\ row.users = sourceSync[t].users
      /\ row.todo = sourceSync[t].todo /\ row.user = u
  BY <1>50, <1>51
<1>6. /\ source' \in SUBSET Member /\ logExcused' \in SUBSET Member
      /\ syncs' \in 0 .. MaxSyncs /\ trouble' \in 0 .. SyncTrouble
      /\ userLock' \in [Member -> Task \cup {NoOne}]
  BY <1>2, BusyIs
<1>7. row.reads = HasAccess(u)
  BY <1>3, <1>52
<1>8. ASSUME NEW v \in Member \ logExcused', v # u
      PROVE  /\ v \notin logExcused /\ (v \in source' <=> v \in source) /\ userLock'[v] \in {userLock[v], NoOne}
             /\ (v \in row.todo <=> v \in sourceSync[t].todo) /\ (row.user = v <=> sourceSync[t].user = v)
             /\ sourceSync[t].user # v
  BY <1>1, <1>2, <1>5, <1>8
<1>9. \A v \in Member : /\ userLock'[v] = t => row.user = v
                        /\ userLock'[v] \in {userLock[v], NoOne, t}
  BY <1>1, <1>2, <1>5, BusyIs
<1>10. UNCHANGED adminFormVars
  BY <1>2
<1>11. /\ row.pc = "none" => row.users = {} /\ row.todo = {}
       /\ row.pc \in {"none", "queued"} <=> row.user = NoOne
  BY <1>2, <1>5
<1>12. t \in AdminForm => form[t].pc \notin {"save", "edit"}
  BY <1>2, BusyIs
<1>13. \A v \in Member \ logExcused' :
         \/ row.user = v /\ row.reads = HasAccess(v)
         \/ /\ v \notin logExcused /\ (v \in source' <=> v \in source) /\ userLock'[v] \in {userLock[v], NoOne}
            /\ (v \in row.todo <=> v \in sourceSync[t].todo) /\ (row.user = v <=> sourceSync[t].user = v)
            /\ sourceSync[t].user # v
  BY <1>5, <1>7, <1>8
<1>90. t \in AdminForm => /\ form[t].pc \in {"save", "edit"} => row.pc = "none"
                          /\ form[t].pc = "commit" => row.users = sourceSync[t].users
  BY <1>5, <1>6, <1>9, <1>10, <1>11, <1>12, <1>13
<1>91. \A v \in Member \ logExcused' : UserStep(t, row, v)
  BY <1>5, <1>6, <1>9, <1>10, <1>11, <1>12, <1>13 DEF UserStep
<1> HIDE DEF PermInv
<1>92. TaskStep(t, row)
  BY <1>9, <1>11, <1>90, <1>91 DEF TaskStep
<1> QED BY <1>5, <1>6, <1>10, <1>92, TaskStepInv

\* It writes the data source, and lets the lock go.
LEMMA WriteSourcesInv ==
  ASSUME PermInv, NEW t \in Task, WriteSources(t)
  PROVE  PermInv'
<1>1. PICK u : u = sourceSync[t].user
  OBVIOUS
<1>2. /\ sourceSync[t].pc = "write" /\ u \in Member /\ NoOne \notin Member /\ t # NoOne
      /\ source' = IF sourceSync[t].reads THEN source \cup {u} ELSE source \ {u}
      /\ logExcused' = IF userLock[u] = t THEN logExcused ELSE logExcused \cup {u}
      /\ userLock' = Unlocked(t)
      /\ SyncWaits(t, "queued", sourceSync[t].todo, NoOne)
      /\ UNCHANGED <<syncs, trouble, adminFormVars>>
  BY <1>1, BusyIs, TaskIs DEF WriteSources
<1>30. PICK row \in TaskRow : row = [pc |-> "queued", users |-> sourceSync[t].users, todo |-> sourceSync[t].todo,
                                   user |-> NoOne, reads |-> FALSE]
  BY TaskIs DEF TaskRow
<1>31. sourceSync' = [sourceSync EXCEPT ![t] = row]
  BY <1>2, <1>30 DEF SyncWaits, SyncGoes
<1>3. /\ row \in TaskRow /\ sourceSync' = [sourceSync EXCEPT ![t] = row]
      /\ row.pc = "queued" /\ row.users = sourceSync[t].users
      /\ row.todo = sourceSync[t].todo /\ row.user = NoOne
  BY <1>30, <1>31
<1>4. /\ userLock' \in [Member -> Task \cup {NoOne}]
      /\ \A v \in Member : userLock'[v] = IF userLock[v] = t THEN NoOne ELSE userLock[v]
  BY <1>2, BusyIs DEF Unlocked
<1>5. /\ source' \in SUBSET Member /\ logExcused' \in SUBSET Member
      /\ syncs' \in 0 .. MaxSyncs /\ trouble' \in 0 .. SyncTrouble
  BY <1>2, BusyIs
<1>6. ASSUME NEW v \in Member \ logExcused', v # u
      PROVE  /\ v \notin logExcused /\ (v \in source' <=> v \in source) /\ userLock'[v] \in {userLock[v], NoOne}
             /\ (v \in row.todo <=> v \in sourceSync[t].todo) /\ (row.user = v <=> sourceSync[t].user = v)
             /\ sourceSync[t].user # v
  BY <1>1, <1>2, <1>3, <1>4, <1>6
<1>7. ASSUME u \notin logExcused'
      PROVE  /\ u \notin logExcused /\ sourceSync[t].user = u /\ sourceSync[t].pc = "write"
             /\ userLock[u] = t /\ userLock'[u] = NoOne
             /\ row.user = NoOne /\ row.todo = sourceSync[t].todo
             /\ u \in source' <=> sourceSync[t].reads
  BY <1>1, <1>2, <1>3, <1>4, <1>7
<1>8. \A v \in Member : /\ userLock'[v] = t => row.user = v
                        /\ userLock'[v] \in {userLock[v], NoOne, t}
  BY <1>2, <1>4
<1>9. UNCHANGED adminFormVars
  BY <1>2
<1>10. /\ row.pc = "none" => row.users = {} /\ row.todo = {}
       /\ row.pc \in {"none", "queued"} <=> row.user = NoOne
  BY <1>3
<1>11. t \in AdminForm => form[t].pc \notin {"save", "edit"}
  BY <1>2, BusyIs
<1>12. \A v \in Member \ logExcused' :
         \/ /\ v \notin logExcused /\ (v \in source' <=> v \in source) /\ userLock'[v] \in {userLock[v], NoOne}
            /\ (v \in row.todo <=> v \in sourceSync[t].todo) /\ (row.user = v <=> sourceSync[t].user = v)
            /\ sourceSync[t].user # v
         \/ /\ v \notin logExcused /\ sourceSync[t].user = v /\ sourceSync[t].pc = "write"
            /\ userLock[v] = t /\ userLock'[v] = NoOne
            /\ row.user = NoOne /\ row.todo = sourceSync[t].todo
            /\ v \in source' <=> sourceSync[t].reads
  BY <1>6, <1>7
<1>90. t \in AdminForm => /\ form[t].pc \in {"save", "edit"} => row.pc = "none"
                          /\ form[t].pc = "commit" => row.users = sourceSync[t].users
  BY <1>3, <1>4, <1>5, <1>8, <1>9, <1>10, <1>11, <1>12
<1>91. \A v \in Member \ logExcused' : UserStep(t, row, v)
  BY <1>3, <1>4, <1>5, <1>8, <1>9, <1>10, <1>11, <1>12 DEF UserStep
<1> HIDE DEF PermInv
<1>92. TaskStep(t, row)
  BY <1>8, <1>10, <1>90, <1>91 DEF TaskStep
<1> QED BY <1>3, <1>4, <1>5, <1>9, <1>92, TaskStepInv

\* It fails: its users are left to the night.
LEMMA SyncFailsInv ==
  ASSUME PermInv, NEW t \in Task, SourceSyncFails(t)
  PROVE  PermInv'
<1>1. /\ sourceSync[t].pc \in {"queued", "locked", "write"} /\ NoOne \notin Member /\ t # NoOne
      /\ trouble < SyncTrouble /\ trouble' = trouble + 1
      /\ logExcused' = logExcused \cup sourceSync[t].todo \cup ({sourceSync[t].user} \cap Member)
      /\ userLock' = Unlocked(t)
      /\ SyncWaits(t, "queued", {}, NoOne)
      /\ UNCHANGED <<source, syncs, adminFormVars>>
  BY TaskIs DEF SourceSyncFails
<1>20. PICK row \in TaskRow : row = [pc |-> "queued", users |-> sourceSync[t].users, todo |-> {},
                                   user |-> NoOne, reads |-> FALSE]
  BY TaskIs DEF TaskRow
<1>21. sourceSync' = [sourceSync EXCEPT ![t] = row]
  BY <1>1, <1>20 DEF SyncWaits, SyncGoes
<1>2. /\ row \in TaskRow /\ sourceSync' = [sourceSync EXCEPT ![t] = row]
      /\ row.pc = "queued" /\ row.users = sourceSync[t].users
      /\ row.todo = {} /\ row.user = NoOne
  BY <1>20, <1>21
<1>3. /\ userLock' \in [Member -> Task \cup {NoOne}]
      /\ \A v \in Member : userLock'[v] = IF userLock[v] = t THEN NoOne ELSE userLock[v]
  BY <1>1, BusyIs DEF Unlocked
<1>4. /\ source' \in SUBSET Member /\ logExcused' \in SUBSET Member
      /\ syncs' \in 0 .. MaxSyncs /\ trouble' \in 0 .. SyncTrouble
  BY <1>1, BusyIs, TaskIs
<1>5. ASSUME NEW v \in Member \ logExcused'
      PROVE  /\ v \notin logExcused /\ (v \in source' <=> v \in source) /\ userLock'[v] \in {userLock[v], NoOne}
             /\ (v \in row.todo <=> v \in sourceSync[t].todo) /\ (row.user = v <=> sourceSync[t].user = v)
             /\ sourceSync[t].user # v
  BY <1>1, <1>2, <1>3
<1>6. \A v \in Member : /\ userLock'[v] = t => row.user = v
                        /\ userLock'[v] \in {userLock[v], NoOne, t}
  BY <1>1, <1>3
<1>7. UNCHANGED adminFormVars
  BY <1>1
<1>8. /\ row.pc = "none" => row.users = {} /\ row.todo = {}
      /\ row.pc \in {"none", "queued"} <=> row.user = NoOne
  BY <1>2
<1>9. t \in AdminForm => form[t].pc \notin {"save", "edit"}
  BY <1>1, BusyIs
<1>90. t \in AdminForm => /\ form[t].pc \in {"save", "edit"} => row.pc = "none"
                          /\ form[t].pc = "commit" => row.users = sourceSync[t].users
  BY <1>2, <1>3, <1>4, <1>5, <1>6, <1>7, <1>8, <1>9
<1>91. \A v \in Member \ logExcused' : UserStep(t, row, v)
  BY <1>2, <1>3, <1>4, <1>5, <1>6, <1>7, <1>8, <1>9 DEF UserStep
<1> HIDE DEF PermInv
<1>92. TaskStep(t, row)
  BY <1>6, <1>8, <1>90, <1>91 DEF TaskStep
<1> QED BY <1>2, <1>3, <1>4, <1>7, <1>92, TaskStepInv

\* It ends; the one of the night starts; a lock expires.
LEMMA EndSyncInv ==
  ASSUME PermInv, NEW t \in Task, EndSync(t) \/ (StartNightly /\ t = Nightly)
  PROVE  PermInv'
<1>1. PICK row \in TaskRow : /\ sourceSync' = [sourceSync EXCEPT ![t] = row] /\ row.user = NoOne
                             /\ EndSync(t) => row.pc = "none" /\ row.users = {} /\ row.todo = {}
                             /\ ~EndSync(t) => row.pc = "queued" /\ row.todo = Member
  <2>1. CASE EndSync(t)
    <3>1. NoTask \in TaskRow /\ NoTask.user = NoOne /\ NoTask.pc = "none" /\ NoTask.users = {} /\ NoTask.todo = {}
      BY DEF NoTask, TaskRow
    <3> QED BY <2>1, <3>1 DEF EndSync
  <2>2. CASE ~EndSync(t)
    <3>1. /\ Queued(Member) \in TaskRow /\ Queued(Member).user = NoOne /\ Queued(Member).pc = "queued"
          /\ Queued(Member).todo = Member
      BY DEF Queued, TaskRow
    <3> QED BY <2>2, <3>1 DEF StartNightly
  <2> QED BY <2>1, <2>2
<1>2. /\ sourceSync[t].user = NoOne /\ NoOne \notin Member /\ t # NoOne
      /\ EndSync(t) => sourceSync[t].todo = {}
      /\ UNCHANGED <<source, userLock, trouble, logExcused, adminFormVars>>
      /\ syncs' \in 0 .. MaxSyncs
      /\ t \in AdminForm => form[t].pc \notin {"save", "edit", "commit"}
  BY BusyIs, TaskIs, PermissionAssumption DEF EndSync, StartNightly
<1>3. /\ source' \in SUBSET Member /\ logExcused' \in SUBSET Member
      /\ userLock' \in [Member -> Task \cup {NoOne}] /\ trouble' \in 0 .. SyncTrouble
  BY <1>2, BusyIs
<1>4. \A v \in Member \ logExcused' :
        \/ v \in row.todo
        \/ /\ v \notin logExcused /\ (v \in source' <=> v \in source) /\ userLock'[v] \in {userLock[v], NoOne}
           /\ (v \in row.todo <=> v \in sourceSync[t].todo) /\ (row.user = v <=> sourceSync[t].user = v)
           /\ sourceSync[t].user # v
  BY <1>1, <1>2
<1>5. \A v \in Member : /\ userLock'[v] = t => row.user = v
                        /\ userLock'[v] \in {userLock[v], NoOne, t}
  BY <1>2, BusyIs
<1>6. UNCHANGED adminFormVars
  BY <1>2
<1>7. /\ row.pc = "none" => row.users = {} /\ row.todo = {}
      /\ row.pc \in {"none", "queued"} <=> row.user = NoOne
  BY <1>1
<1>90. t \in AdminForm => /\ form[t].pc \in {"save", "edit"} => row.pc = "none"
                          /\ form[t].pc = "commit" => row.users = sourceSync[t].users
  BY <1>1, <1>2, <1>3, <1>4, <1>5, <1>6, <1>7
<1>91. \A v \in Member \ logExcused' : UserStep(t, row, v)
  BY <1>1, <1>2, <1>3, <1>4, <1>5, <1>6, <1>7 DEF UserStep
<1> HIDE DEF PermInv
<1>92. TaskStep(t, row)
  BY <1>5, <1>7, <1>90, <1>91 DEF TaskStep
<1> QED BY <1>1, <1>2, <1>3, <1>6, <1>92, TaskStepInv

LEMMA LockExpiresInv ==
  ASSUME PermInv, NEW u \in Member, UserLockExpires(u)
  PROVE  PermInv'
<1>1. PICK t : t = Nightly
  OBVIOUS
<1>2. t \in Task /\ sourceSync[t] \in TaskRow /\ t \notin AdminForm /\ t # NoOne
  BY <1>1, TaskIs, PermissionAssumption DEF Task
<1>3. PICK row \in TaskRow : row = sourceSync[t]
  BY <1>2
<1>4. /\ trouble < SyncTrouble /\ trouble' = trouble + 1
      /\ userLock' = [userLock EXCEPT ![u] = NoOne]
      /\ UNCHANGED <<sourceSync, source, syncs, logExcused, adminFormVars>>
  BY DEF UserLockExpires
<1>5. sourceSync' = [sourceSync EXCEPT ![t] = row]
  BY <1>2, <1>3, <1>4 DEF PermInv, PermTypes
<1>6. /\ source' \in SUBSET Member /\ logExcused' \in SUBSET Member
      /\ syncs' \in 0 .. MaxSyncs /\ trouble' \in 0 .. SyncTrouble
      /\ userLock' \in [Member -> Task \cup {NoOne}]
      /\ \A v \in Member : userLock'[v] \in {userLock[v], NoOne}
  BY <1>2, <1>4, BusyIs
<1>7. ASSUME NEW v \in Member \ logExcused'
      PROVE  /\ v \notin logExcused /\ (v \in source' <=> v \in source) /\ userLock'[v] \in {userLock[v], NoOne}
             /\ (v \in row.todo <=> v \in sourceSync[t].todo) /\ (row.user = v <=> sourceSync[t].user = v)
             /\ sourceSync[t].user = v => row.pc = sourceSync[t].pc /\ row.reads = sourceSync[t].reads
  BY <1>3, <1>4, <1>6
<1>8. \A v \in Member : /\ userLock'[v] = t => row.user = v
                        /\ userLock'[v] \in {userLock[v], NoOne, t}
  BY <1>2, <1>3, <1>6, BusyIs
<1>9. UNCHANGED adminFormVars
  BY <1>4
<1>10. /\ row.pc = "none" => row.users = {} /\ row.todo = {}
       /\ row.pc \in {"none", "queued"} <=> row.user = NoOne
  BY <1>2, <1>3 DEF PermInv, TasksAre
<1> HIDE DEF PermInv
<1>92. TaskStep(t, row)
  BY <1>2, <1>7, <1>8, <1>10 DEF TaskStep, UserStep
<1> QED BY <1>2, <1>5, <1>6, <1>9, <1>92, TaskStepInv

\* In every state, one form at a time changes a user while no deletion missed its row, and a user
\* whom no task will read is right at the task that holds the lock, or in QuickSight
\* (BaseDatasetAdmin.save_model, sync_quicksight_permissions).
THEOREM PermInvariance == PermSpec => []PermInv
<1>1. PermInv /\ [PermNext]_permVars => PermInv'
  <2> SUFFICES ASSUME PermInv, [PermNext]_permVars PROVE PermInv'
    OBVIOUS
  <2>1. CASE UNCHANGED permVars
    <3>1. PermTypes'
      BY <2>1 DEF permVars, rowVars, PermInv, PermTypes, quickVars
    <3>2. FormsAre' /\ EventsAre'
      BY <2>1 DEF permVars, rowVars, PermInv, FormsAre, EventsAre, ChangedUsers, Pending
    <3>3. TasksAre'
      <4>1. \A f \in AdminForm : (SyncOf(f))' = SyncOf(f)
        BY <2>1 DEF permVars, rowVars, SyncOf, ChangedUsers
      <4> QED BY <2>1, <4>1 DEF permVars, rowVars, PermInv, TasksAre
    <3>4. SourcesAre'
      BY <2>1 DEF permVars, rowVars, PermInv, SourcesAre, Settling, WillRead, InHand, HasAccess
    <3> QED BY <3>1, <3>2, <3>3, <3>4 DEF PermInv
  <2>2. ASSUME NEW f \in AdminForm, AdminFormStep(f) PROVE PermInv'
    BY <2>2, BeginFormInv, SaveInv, QueueInv, CommitFormInv, AbortInv, GrantInv DEF AdminFormStep
  <2>3. ASSUME NEW t \in Task, SourceSyncStep(t) PROVE PermInv'
    BY <2>3, ReadTablesInv, WriteSourcesInv, SyncFailsInv, EndSyncInv, LockInv DEF SourceSyncStep
  <2>4. CASE StartNightly
    BY <2>4, EndSyncInv DEF Task
  <2>5. ASSUME NEW u \in Member, UserLockExpires(u) PROVE PermInv'
    BY <2>5, LockExpiresInv
  <2> QED BY <2>1, <2>2, <2>3, <2>4, <2>5 DEF PermNext
<1> QED BY <1>1, PermInitInv, PTL DEF PermSpec

\* The row, the event log and QuickSight tell permissions alike, for any users, forms that
\* cross, runs of the sync and faults (BaseDatasetAdmin.save_model, sync_quicksight_permissions).
THEOREM PermissionsAreTold == PermSpec => []PermissionSafety
<1>1. PermInv => PermissionSafety
  <2> SUFFICES ASSUME PermInv PROVE PermissionSafety
    OBVIOUS
  <2>1. PermTypeOK
    BY DEF PermInv, PermTypes, FormsAre, PermTypeOK
  <2>2. LogExplainsPermissions
    BY DEF PermInv, EventsAre, LogExplainsPermissions
  <2>3. SourcesFollow
    <3> SUFFICES ASSUME NEW u \in Member \ logExcused, ~InHand(u) PROVE u \in source <=> HasAccess(u)
      BY DEF SourcesFollow
    <3>1. ~Settling(u) /\ \A t \in Task : sourceSync[t].user # u
      BY DEF InHand, Settling, WillRead
    <3> QED BY <3>1 DEF PermInv, SourcesAre
  <2> QED BY <2>1, <2>2, <2>3 DEF PermissionSafety
<1> QED BY <1>1, PermInvariance, PTL

(***************************************************************************)
(* An account is of one person for ever: each person has one, unless the   *)
(* address changed under a request, and its role has the policy of the     *)
(* person.                                                                 *)
(***************************************************************************)

\* An address is of one person.
LEMMA UsedIs ==
  ASSUME SsoTypes, NEW p \in Person
  PROVE  /\ Used(p) \subseteq Addresses(p) /\ Used(p) \subseteq EveryEmail
         /\ EmailsOf[p][primary[p]] \in Used(p)
         /\ \A q \in Person : q # p => Used(p) \cap Used(q) = {}
<1>1. \A q \in Person : Used(q) \subseteq Addresses(q) /\ EmailsOf[q][primary[q]] \in Used(q)
  BY EmailsAssumption DEF SsoTypes, Used, Addresses, FirstEmails
<1>2. Addresses(p) \subseteq EveryEmail
  BY DEF EveryEmail
<1>3. \A q \in Person : q # p => Addresses(p) \cap Addresses(q) = {}
  BY EmailsAssumption
<1> QED BY <1>1, <1>2, <1>3

\* The owners of the accounts there were are the same after the step.
OwnersStay ==
  \A b \in 1..accounts, q \in Person :
     account'[b].email \in FirstEmails(q, primary[q]) <=> account[b].email \in FirstEmails(q, primary[q])

\* Saving a user object whose fields are of the person who owns the row.
LEMMA SavedUserHolds ==
  ASSUME SsoTypes, AccountsHold, NEW a \in 1..accounts, NEW p \in Person, a \in AccountsOf(p),
         NEW email \in Used(p), NEW sso \in {p, UnusedId}, NEW role, RoleIs(a, p, role),
         tooled[a] = p => sso = p, account' = SavedUser(a, email, sso, role),
         UNCHANGED <<primary, outrun, accounts, tooled, policy>>
  PROVE  AccountsHold' /\ OwnersStay /\ DOMAIN account' = Account
<1>1. accounts \in Nat /\ 1..accounts \subseteq Account /\ DOMAIN account = Account
  BY SsoAssumption DEF SsoTypes, Account
<1>2. PICK new : /\ DOMAIN account' = Account /\ account'[a] = new
                 /\ \A b \in 1..accounts : b # a => account'[b] = account[b]
                 /\ new.email \in Used(p) /\ new.sso \in {p, UnusedId}
                 /\ tooled[a] = p => new.sso = p
                 /\ RoleIs(a, p, new.role)
                 /\ \A b \in 1..accounts : b # a => /\ account[b].email # new.email
                                                    /\ account[b].sso # new.sso \/ new.sso = UnusedId
  <2>1. account[a].email \in Used(p)
    BY DEF AccountsOf
  <2>2. /\ account[a].sso \in {p, UnusedId} /\ (tooled[a] = p => account[a].sso = p)
        /\ RoleIs(a, p, account[a].role)
    BY <2>1, UsedIs DEF AccountsHold, AccountHolds, RoleIs
  <2>3. \A b \in 1..accounts : b # a => /\ account[b].email # account[a].email
                                        /\ account[b].sso # account[a].sso \/ account[a].sso = UnusedId
    BY DEF AccountsHold
  <2>4. CASE EmailTaken(a, email)
    <3>1. account' = account
      BY <1>1, <2>4 DEF SavedUser
    <3> QED BY <1>1, <2>1, <2>2, <2>3, <3>1
  <2>5. CASE ~EmailTaken(a, email) /\ SsoTaken(a, sso)
    <3>1. PICK new : new = [email |-> email, sso |-> account[a].sso, role |-> account[a].role]
      OBVIOUS
    <3>2. new.email = email /\ new.sso = account[a].sso /\ new.role = account[a].role
      BY <3>1
    <3>3. account' = [account EXCEPT ![a] = new]
      BY <2>5, <3>1 DEF SavedUser
    <3>4. \A b \in 1..accounts : b # a => account[b].email # email
      BY <2>5 DEF EmailTaken
    <3>5. /\ DOMAIN account' = Account /\ account'[a] = new
          /\ \A b \in 1..accounts : b # a => account'[b] = account[b]
      BY <1>1, <3>3
    <3> QED BY <2>2, <2>3, <3>2, <3>4, <3>5
  <2>6. CASE ~EmailTaken(a, email) /\ ~SsoTaken(a, sso)
    <3>1. PICK new : new = [email |-> email, sso |-> sso, role |-> role]
      OBVIOUS
    <3>2. new.email = email /\ new.sso = sso /\ new.role = role
      BY <3>1
    <3>3. account' = [account EXCEPT ![a] = new]
      BY <2>6, <3>1 DEF SavedUser
    <3>4. \A b \in 1..accounts : b # a => /\ account[b].email # email
                                          /\ account[b].sso # sso \/ sso = UnusedId
      BY <2>6 DEF EmailTaken, SsoTaken, BySso
    <3>5. /\ DOMAIN account' = Account /\ account'[a] = new
          /\ \A b \in 1..accounts : b # a => account'[b] = account[b]
      BY <1>1, <3>3
    <3> QED BY <3>2, <3>4, <3>5
  <2> QED BY <2>4, <2>5, <2>6
<1>3. account'[a] = new /\ \A b \in 1..accounts : b # a => account'[b] = account[b]
  BY <1>2
<1>4. DOMAIN account' = Account
  BY <1>2
<1>5. OwnersStay
  <2> SUFFICES ASSUME NEW b \in 1..accounts, NEW q \in Person
               PROVE  account'[b].email \in Used(q) <=> account[b].email \in Used(q)
    BY DEF OwnersStay, Used
  <2>1. account[a].email \in Used(p)
    BY DEF AccountsOf
  <2>2. CASE b = a
    <3>1. q # p => Used(p) \cap Used(q) = {}
      BY UsedIs
    <3> QED BY <1>2, <1>3, <2>1, <2>2, <3>1
  <2>3. CASE b # a
    BY <1>3, <2>3
  <2> QED BY <2>2, <2>3
<1>6. ASSUME NEW b \in 1..accounts'
      PROVE  AccountHolds(b)'
  <2>1. CASE b = a
    <3>1. account'[a].email \in Used(p)' /\ account'[a].sso \in {p, UnusedId}
      BY <1>2, <1>3 DEF Used
    <3>2. tooled'[a] \in {p, UnusedId, NoTools} /\ (tooled'[a] = p => account'[a].sso = p)
      <4>1. account[a].email \in Used(p)
        BY DEF AccountsOf
      <4>2. tooled[a] \in {p, UnusedId, NoTools}
        BY <4>1, UsedIs DEF AccountsHold, AccountHolds
      <4> QED BY <1>2, <1>3, <4>2
    <3>3. \/ account'[a].role = NoRole
          \/ /\ account'[a].role \in Used(p)' /\ policy'[account'[a].role] # NoRole
             /\ tooled'[a] # NoTools
      BY <1>2, <1>3 DEF RoleIs, Used
    <3> QED BY <2>1, <3>1, <3>2, <3>3 DEF AccountHolds, RoleIs, Used
  <2>2. CASE b # a
    <3>1. account'[b] = account[b] /\ AccountHolds(b)
      BY <1>3, <1>6, <2>2 DEF AccountsHold
    <3> QED BY <3>1 DEF AccountHolds, RoleIs, Used
  <2> QED BY <2>1, <2>2
<1>7. \A b, d \in 1..accounts : b # d =>
        /\ account'[b].email # account'[d].email
        /\ account'[b].sso # account'[d].sso \/ account'[b].sso = UnusedId
  BY <1>2, <1>3 DEF AccountsHold
<1>8. ASSUME NEW q \in Person \ outrun, NEW b \in 1..accounts, NEW d \in 1..accounts,
             account'[b].email \in Used(q), account'[d].email \in Used(q)
      PROVE  b = d
  <2>1. account[b].email \in Used(q) /\ account[d].email \in Used(q)
    BY <1>5, <1>8 DEF OwnersStay, Used
  <2> QED BY <2>1 DEF AccountsHold, AccountsOf
<1>9. \A q \in Person \ outrun' : \A b, d \in AccountsOf(q)' : b = d
  BY <1>8 DEF AccountsOf, Used
<1>10. \A b \in Account : b > accounts' => tooled'[b] = NoTools
  BY DEF AccountsHold
<1>11. AccountsHold'
  BY <1>6, <1>7, <1>9, <1>10 DEF AccountsHold
<1> QED BY <1>4, <1>5, <1>11

\* The new row of an account that a person without one is given.
LEMMA NewAccountHolds ==
  ASSUME SsoTypes, AccountsHold, NEW p \in Person, NEW email \in Used(p), p \notin outrun => AccountsOf(p) = {},
         \A b \in 1..accounts : account[b].email # email,
         accounts < MaxAccounts, accounts' = accounts + 1,
         account' = [account EXCEPT ![accounts + 1] = NewAccount(email)],
         UNCHANGED <<primary, outrun, tooled, policy>>
  PROVE  AccountsHold' /\ OwnersStay /\ DOMAIN account' = Account /\ accounts' \in 0..MaxAccounts
         /\ accounts' \in AccountsOf(p)'
<1>1. /\ accounts \in Nat /\ MaxAccounts \in Nat /\ accounts + 1 \in Account
      /\ DOMAIN account = Account /\ 1..accounts \subseteq Account
      /\ 1..accounts' = 1..accounts \cup {accounts + 1} /\ accounts + 1 \notin 1..accounts
  BY SsoAssumption DEF SsoTypes, Account
<1>2. PICK new : /\ new = NewAccount(email) /\ new.email = email /\ new.sso = UnusedId
                 /\ new.role = NoRole
  BY DEF NewAccount
<1>3. /\ account'[accounts + 1] = new /\ DOMAIN account' = Account
      /\ \A b \in 1..accounts : account'[b] = account[b]
  BY <1>1, <1>2
<1>4. tooled'[accounts + 1] = NoTools
  BY <1>1 DEF AccountsHold
<1>5. OwnersStay
  BY <1>3 DEF OwnersStay
<1>6. ASSUME NEW b \in 1..accounts'
      PROVE  AccountHolds(b)'
  <2>1. CASE b = accounts + 1
    <3>1. account'[b].email \in Used(p)' /\ account'[b].sso = UnusedId /\ account'[b].role = NoRole
      BY <1>2, <1>3, <2>1 DEF Used
    <3>2. UnusedId # p /\ NoTools # p
      BY SsoAssumption
    <3> QED BY <1>4, <2>1, <3>1, <3>2 DEF AccountHolds, RoleIs
  <2>2. CASE b \in 1..accounts
    <3>1. account'[b] = account[b] /\ AccountHolds(b)
      BY <1>3, <2>2 DEF AccountsHold
    <3> QED BY <3>1 DEF AccountHolds, RoleIs, Used
  <2> QED BY <1>1, <1>6, <2>1, <2>2
<1>7. p \notin outrun => \A b \in 1..accounts : account[b].email \notin Used(p)
  BY DEF AccountsOf
<1>8. \A b, d \in 1..accounts' : b # d =>
        /\ account'[b].email # account'[d].email
        /\ account'[b].sso # account'[d].sso \/ account'[b].sso = UnusedId
  BY <1>1, <1>2, <1>3 DEF AccountsHold
<1>9. ASSUME NEW q \in Person \ outrun, NEW b \in 1..accounts', NEW d \in 1..accounts',
             account'[b].email \in Used(q), account'[d].email \in Used(q)
      PROVE  b = d
  <2>1. CASE q = p
    BY <1>1, <1>3, <1>7, <1>9, <2>1
  <2>2. CASE q # p
    <3>1. Used(p) \cap Used(q) = {}
      BY <2>2, UsedIs
    <3>2. b \in 1..accounts /\ d \in 1..accounts
      BY <1>1, <1>2, <1>3, <1>9, <3>1
    <3> QED BY <1>3, <1>9, <3>2 DEF AccountsHold, AccountsOf
  <2> QED BY <2>1, <2>2
<1>10. \A q \in Person \ outrun' : \A b, d \in AccountsOf(q)' : b = d
  BY <1>9 DEF AccountsOf, Used
<1>11. \A b \in Account : b > accounts' => tooled'[b] = NoTools
  BY <1>1 DEF AccountsHold, Account
<1>12. AccountsHold'
  BY <1>6, <1>8, <1>10, <1>11 DEF AccountsHold
<1>13. accounts' \in 0..MaxAccounts
  BY <1>1
<1>14. accounts' \in AccountsOf(p)'
  BY <1>1, <1>2, <1>3 DEF AccountsOf, Used
<1> QED BY <1>3, <1>5, <1>12, <1>13, <1>14

\* What a call, a role task, the policies and the records of the activity stream say of the
\* accounts stays true when accounts keep their owners.
LEMMA CallStays ==
  ASSUME SsoTypes, NEW c \in Caller, CallHolds(c), call'[c] = call[c],
         OwnersStay, accounts' \in Nat, accounts <= accounts', UNCHANGED <<primary, outrun>>,
         \A a \in 1..accounts : tooled[a] # NoTools => tooled'[a] = tooled[a],
         \A e \in EveryEmail : policy[e] # NoRole => policy'[e] # NoRole,
         c \in SyncTask => /\ ssoSync' = ssoSync /\ Len(stream') \in Nat /\ Len(stream) <= Len(stream')
                           /\ \A i \in 1..Len(stream) : stream'[i] = stream[i]
  PROVE  CallHolds(c)'
<1> SUFFICES ASSUME call[c].at # "idle"
             PROVE  CallHolds(c)'
  BY DEF CallHolds
<1>1. /\ call[c].at \in {"look", "create", "claim", "update"} /\ KnownProfile(call[c].who)
      /\ call[c].who.person \in Person
  BY DEF CallHolds, KnownProfile
<1>2. KnownProfile(call[c].who)'
  BY <1>1 DEF KnownProfile, Used
<1>3. c \in SyncTask => ssoSync' \in 1..Len(stream') /\ call'[c].who = stream'[ssoSync']
  BY DEF CallHolds, SsoTypes
<1>4. ASSUME call[c].at \in {"claim", "update"}
      PROVE  /\ call[c].row \in AccountsOf(call[c].who.person)'
             /\ call[c].email \in Used(call[c].who.person)'
             /\ call[c].sso \in {call[c].who.person, IF call[c].at = "claim" THEN UnusedId ELSE Unread}
             /\ call[c].sso # Unread => RoleIs(call[c].row, call[c].who.person, call[c].role)'
  <2>1. /\ call[c].row \in AccountsOf(call[c].who.person) /\ call[c].email \in Used(call[c].who.person)
        /\ call[c].sso \in {call[c].who.person, IF call[c].at = "claim" THEN UnusedId ELSE Unread}
        /\ call[c].sso # Unread => RoleIs(call[c].row, call[c].who.person, call[c].role)
    BY <1>4 DEF CallHolds
  <2>2. call[c].row \in 1..accounts /\ call[c].row \in 1..accounts'
    BY <2>1 DEF AccountsOf, SsoTypes
  <2>3. call[c].row \in AccountsOf(call[c].who.person)'
    BY <1>1, <2>1, <2>2 DEF AccountsOf, OwnersStay, Used
  <2>4. Used(call[c].who.person) \subseteq EveryEmail
    BY <1>1, UsedIs
  <2>5. call[c].sso # Unread => RoleIs(call[c].row, call[c].who.person, call[c].role)'
    BY <2>1, <2>2, <2>4 DEF RoleIs, Used
  <2> QED BY <2>1, <2>3, <2>5 DEF Used
<1> QED BY <1>1, <1>2, <1>3, <1>4 DEF CallHolds

LEMMA RoleTaskStays ==
  ASSUME SsoTypes, RoleTaskHolds, roleTask' = roleTask,
         OwnersStay, accounts' \in Nat, accounts <= accounts', UNCHANGED primary,
         \A a \in 1..accounts : tooled[a] # NoTools => tooled'[a] = tooled[a],
         \A e \in EveryEmail : policy[e] # NoRole => policy'[e] # NoRole
  PROVE  RoleTaskHolds'
<1> SUFFICES ASSUME roleTask.at # "idle"
             PROVE  RoleTaskHolds'
  BY DEF RoleTaskHolds
<1>1. PICK p \in Person :
         /\ roleTask.row \in AccountsOf(p) /\ roleTask.email \in Used(p)
         /\ roleTask.sso \in {p, UnusedId} /\ (tooled[roleTask.row] = p => roleTask.sso = p)
  BY DEF RoleTaskHolds
<1>2. /\ roleTask.at \in {"aws", "save"} /\ tooled[roleTask.row] # NoTools
      /\ roleTask.at = "save" => policy[roleTask.email] # NoRole
  BY DEF RoleTaskHolds
<1>3. roleTask.row \in 1..accounts /\ roleTask.row \in 1..accounts'
  BY <1>1 DEF AccountsOf, SsoTypes
<1>4. roleTask.email \in EveryEmail
  BY <1>1, UsedIs
<1>5. roleTask.row \in AccountsOf(p)' /\ roleTask.email \in Used(p)'
  BY <1>1, <1>3 DEF AccountsOf, OwnersStay, Used
<1>6. tooled'[roleTask.row] = tooled[roleTask.row]
  BY <1>2, <1>3
<1>7. roleTask.at = "save" => policy'[roleTask.email] # NoRole
  BY <1>2, <1>4
<1> QED BY <1>1, <1>2, <1>5, <1>6, <1>7 DEF RoleTaskHolds

LEMMA PoliciesStay ==
  ASSUME SsoTypes, AccountsHold, PoliciesHold, OwnersStay,
         accounts' \in 0..MaxAccounts, accounts <= accounts', UNCHANGED <<primary, outrun, tooled, policy>>
  PROVE  PoliciesHold'
<1>1. ASSUME NEW p \in Person, NEW e \in Addresses(p), policy[e] # NoRole
      PROVE  /\ \E a \in AccountsOf(p)' : tooled[a] # NoTools
             /\ p \notin outrun => \A a \in AccountsOf(p)' : tooled[a] = p => policy[e] = p
  <2>1. /\ \E a \in AccountsOf(p) : tooled[a] # NoTools
        /\ p \notin outrun => \A a \in AccountsOf(p) : tooled[a] = p => policy[e] = p
    BY <1>1 DEF PoliciesHold
  <2>2. \A a \in 1..accounts : a \in 1..accounts' /\ (a \in AccountsOf(p)' <=> a \in AccountsOf(p))
    BY DEF AccountsOf, OwnersStay, Used, SsoTypes
  <2>3. \A a \in AccountsOf(p)' : a \in AccountsOf(p) \/ tooled[a] = NoTools
    BY <2>2, SsoAssumption DEF AccountsOf, AccountsHold, SsoTypes, Account
  <2>4. NoTools # p
    BY SsoAssumption
  <2>5. \A a \in AccountsOf(p) : a \in 1..accounts
    BY DEF AccountsOf
  <2> QED BY <2>1, <2>2, <2>3, <2>4, <2>5
<1> QED BY <1>1 DEF PoliciesHold

LEMMA ToldStay ==
  ASSUME SsoTypes, ToldHaveAccounts, OwnersStay, accounts' \in Nat, accounts <= accounts',
         UNCHANGED <<primary, stream, lastPublished>>, ssoSync' \in Nat,
         ssoSync' <= ssoSync \/ (/\ ssoSync' = ssoSync + 1 /\ ssoSync \in 1..Len(stream)
                                 /\ AccountsOf(stream[ssoSync].person) # {})
  PROVE  ToldHaveAccounts'
<1>1. ASSUME NEW p \in Person, AccountsOf(p) # {}
      PROVE  AccountsOf(p)' # {}
  <2>1. PICK a \in 1..accounts : account[a].email \in Used(p)
    BY <1>1 DEF AccountsOf
  <2>2. a \in 1..accounts' /\ account'[a].email \in Used(p)'
    BY <2>1 DEF OwnersStay, Used, SsoTypes
  <2> QED BY <2>2 DEF AccountsOf
<1>2. ASSUME NEW i \in 1..Len(stream), i <= lastPublished \/ i < ssoSync'
      PROVE  AccountsOf(stream[i].person)' # {}
  <2>1. AccountsOf(stream[i].person) # {}
    BY <1>2 DEF ToldHaveAccounts, SsoTypes
  <2>2. stream[i].person \in Person
    BY DEF SsoTypes, KnownProfile
  <2> QED BY <1>1, <2>1, <2>2
<1> QED BY <1>2 DEF ToldHaveAccounts

\* A step of one call, which may save a row.
LEMMA CallStepInv ==
  ASSUME AccountInv, NEW d \in Caller,
         DOMAIN call' = Caller, \A c \in Caller : c # d => call'[c] = call[c],
         UNCHANGED <<primary, outrun, tooled, policy, roleTask, stream, lastPublished>>,
         OwnersStay, AccountsHold', DOMAIN account' = Account,
         accounts' \in 0..MaxAccounts, accounts <= accounts',
         \A a \in roleTasks' : a \in 1..accounts /\ tooled[a] # NoTools,
         ssoSync' \in 0..(Len(stream) + 1), d \notin SyncTask => ssoSync' = ssoSync,
         ssoSync' <= ssoSync \/ (/\ ssoSync' = ssoSync + 1 /\ ssoSync \in 1..Len(stream)
                                 /\ AccountsOf(stream[ssoSync].person) # {}),
         CallHolds(d)'
  PROVE  AccountInv'
<1>1. SsoTypes /\ AccountsHold /\ CallsHold /\ RolesHold /\ ToldHaveAccounts
  BY DEF AccountInv
<1>2. accounts' \in Nat /\ ssoSync' \in Nat /\ Len(stream) \in Nat
  BY <1>1, SsoAssumption DEF SsoTypes
<1>3. SsoTypes'
  BY <1>1 DEF SsoTypes, KnownProfile, Used
<1>4. CallsHold'
  <2> SUFFICES ASSUME NEW c \in Caller, c # d
               PROVE  CallHolds(c)'
    BY DEF CallsHold
  <2>1. CallHolds(c) /\ call'[c] = call[c]
    BY <1>1 DEF CallsHold, SsoTypes
  <2>2. c \in SyncTask => /\ ssoSync' = ssoSync /\ Len(stream') \in Nat /\ Len(stream) <= Len(stream')
                          /\ \A i \in 1..Len(stream) : stream'[i] = stream[i]
    BY <1>2, SsoAssumption
  <2>3. /\ \A a \in 1..accounts : tooled[a] # NoTools => tooled'[a] = tooled[a]
        /\ \A e \in EveryEmail : policy[e] # NoRole => policy'[e] # NoRole
    OBVIOUS
  <2> QED BY <1>1, <1>2, <2>1, <2>2, <2>3, CallStays
<1>5. RolesHold'
  <2>1. RoleTaskHolds /\ PoliciesHold
    BY <1>1 DEF RolesHold
  <2>2. RoleTaskHolds'
    <3>1. /\ \A a \in 1..accounts : tooled[a] # NoTools => tooled'[a] = tooled[a]
          /\ \A e \in EveryEmail : policy[e] # NoRole => policy'[e] # NoRole
      OBVIOUS
    <3> QED BY <1>1, <1>2, <2>1, <3>1, RoleTaskStays
  <2>3. PoliciesHold'
    BY <1>1, <2>1, PoliciesStay
  <2>4. \A a \in roleTasks' : a \in 1..accounts' /\ tooled'[a] # NoTools
    BY <1>1, <1>2 DEF SsoTypes
  <2> QED BY <2>2, <2>3, <2>4 DEF RolesHold
<1>6. ToldHaveAccounts'
  BY <1>1, <1>2, ToldStay
<1> QED BY <1>3, <1>4, <1>5, <1>6 DEF AccountInv

\* Steps that leave the accounts alone.
LEMMA SameAccounts ==
  ASSUME AccountInv, UNCHANGED <<primary, outrun, account, accounts, tooled, policy>>
  PROVE  /\ AccountsHold' /\ OwnersStay /\ DOMAIN account' = Account
         /\ accounts' \in 0..MaxAccounts /\ accounts <= accounts'
         /\ accounts \in Nat /\ Len(stream) \in Nat /\ ssoSync \in 0..(Len(stream) + 1)
         /\ \A a \in roleTasks : a \in 1..accounts /\ tooled[a] # NoTools
<1>1. AccountsHold'
  BY DEF AccountInv, AccountsHold, AccountHolds, RoleIs, AccountsOf, Used
<1>2. /\ OwnersStay /\ DOMAIN account' = Account
      /\ accounts' \in 0..MaxAccounts /\ accounts <= accounts'
      /\ accounts \in Nat /\ Len(stream) \in Nat /\ ssoSync \in 0..(Len(stream) + 1)
  BY SsoAssumption DEF AccountInv, SsoTypes, OwnersStay
<1>3. \A a \in roleTasks : a \in 1..accounts /\ tooled[a] # NoTools
  BY DEF AccountInv, RolesHold
<1> QED BY <1>1, <1>2, <1>3

LEMMA CallIs ==
  ASSUME AccountInv, NEW c \in Caller, call[c].at # "idle"
  PROVE  /\ KnownProfile(call[c].who) /\ call[c].who.person \in Person
         /\ call[c].who.email \in Used(call[c].who.person)
         /\ c \in SyncTask => ssoSync \in 1..Len(stream) /\ call[c].who = stream[ssoSync]
         /\ call[c].at \in {"claim", "update"} =>
               /\ call[c].row \in AccountsOf(call[c].who.person) /\ call[c].row \in 1..accounts
               /\ call[c].email \in Used(call[c].who.person)
               /\ call[c].sso \in {call[c].who.person, IF call[c].at = "claim" THEN UnusedId ELSE Unread}
               /\ call[c].sso # Unread => RoleIs(call[c].row, call[c].who.person, call[c].role)
         /\ c \in WebWorker <=> c \notin SyncTask
<1>1. CallHolds(c)
  BY DEF AccountInv, CallsHold
<1>2. c \in WebWorker <=> c \notin SyncTask
  BY SsoAssumption DEF Caller
<1>3. KnownProfile(call[c].who)
  BY <1>1 DEF CallHolds
<1> QED BY <1>1, <1>2, <1>3 DEF CallHolds, KnownProfile, AccountsOf

LEMMA ViewPageInv ==
  ASSUME AccountInv, NEW c \in Caller, NEW p \in Person, ViewPage(c, p)
  PROVE  AccountInv'
<1>1. PICK next : next = [at |-> "look", who |-> Profile(p)]
  OBVIOUS
<1>2. next.at = "look" /\ next.who = Profile(p)
  BY <1>1
<1>3. /\ call' = [call EXCEPT ![c] = next] /\ c \in WebWorker
      /\ UNCHANGED <<primary, outrun, tooled, policy, roleTask, stream, lastPublished>>
      /\ UNCHANGED <<account, accounts, roleTasks, ssoSync>>
  BY <1>1 DEF ViewPage, GoOn, outside
<1>4. c \notin SyncTask
  BY <1>3, SsoAssumption
<1>5. KnownProfile(next.who)
  <2>1. SsoTypes
    BY DEF AccountInv
  <2>2. /\ next.who.person = p /\ next.who.email = EmailsOf[p][primary[p]]
        /\ next.who.emails = Used(p)
    BY <1>2 DEF Profile, ProfileOf, Used
  <2> QED BY <2>1, <2>2, UsedIs DEF KnownProfile
<1>6. CallHolds(c)'
  <2>1. call'[c] = next
    BY <1>3 DEF AccountInv, SsoTypes
  <2>2. KnownProfile(next.who)'
    BY <1>3, <1>5 DEF KnownProfile, Used
  <2> QED BY <1>2, <1>4, <2>1, <2>2 DEF CallHolds
<1>7. ssoSync' \in 0..(Len(stream) + 1) /\ ssoSync' <= ssoSync
  BY <1>3, SameAccounts
<1>9. DOMAIN call' = Caller /\ \A d \in Caller : d # c => call'[d] = call[d]
  BY <1>3 DEF AccountInv, SsoTypes
<1>8. \A a \in roleTasks' : a \in 1..accounts /\ tooled[a] # NoTools
  BY <1>3, SameAccounts
<1> HIDE DEF AccountInv
<1> QED BY <1>3, <1>4, <1>6, <1>7, <1>8, <1>9, SameAccounts, CallStepInv

\* What the account of a person has is of that person.
LEMMA OwnerIs ==
  ASSUME AccountInv, NEW p \in Person
  PROVE  /\ \A a \in AccountsOf(p) : /\ account[a].sso \in {p, UnusedId} /\ RoleIs(a, p, account[a].role)
                                     /\ account[a].email \in Used(p)
                                     /\ tooled[a] \in {p, UnusedId, NoTools}
                                     /\ tooled[a] = p => account[a].sso = p
         /\ \A a \in BySso(p) : a \in AccountsOf(p) /\ account[a].sso = p
<1>1. SsoTypes /\ AccountsHold
  BY DEF AccountInv
<1>2. ASSUME NEW a \in AccountsOf(p)
      PROVE  /\ account[a].sso \in {p, UnusedId} /\ RoleIs(a, p, account[a].role)
             /\ account[a].email \in Used(p) /\ tooled[a] \in {p, UnusedId, NoTools}
             /\ tooled[a] = p => account[a].sso = p
  <2>1. a \in 1..accounts /\ account[a].email \in Used(p)
    BY DEF AccountsOf
  <2>2. PICK q \in Person :
          /\ account[a].email \in Used(q) /\ account[a].sso \in {q, UnusedId}
          /\ tooled[a] \in {q, UnusedId, NoTools} /\ (tooled[a] = q => account[a].sso = q)
          /\ RoleIs(a, q, account[a].role)
    BY <1>1, <2>1 DEF AccountsHold, AccountHolds
  <2>3. q = p
    BY <1>1, <2>1, <2>2, UsedIs
  <2> QED BY <2>1, <2>2, <2>3
<1>3. ASSUME NEW a \in BySso(p)
      PROVE  a \in AccountsOf(p) /\ account[a].sso = p
  <2>1. a \in 1..accounts /\ account[a].sso = p
    BY DEF BySso
  <2>2. PICK q \in Person : account[a].email \in Used(q) /\ account[a].sso \in {q, UnusedId}
    BY <1>1, <2>1 DEF AccountsHold, AccountHolds
  <2>3. q = p
    BY <2>1, <2>2, SsoAssumption
  <2> QED BY <2>1, <2>2, <2>3 DEF AccountsOf
<1> QED BY <1>2, <1>3

\* An account whose object a call goes on with.
LEMMA ObjectHolds ==
  ASSUME AccountInv, NEW c \in Caller, call[c].at # "idle", NEW a \in AccountsOf(call[c].who.person),
         NEW at \in {"claim", "update"}, NEW sso, NEW role,
         sso \in {call[c].who.person, IF at = "claim" THEN UnusedId ELSE Unread},
         sso # Unread => RoleIs(a, call[c].who.person, role),
         GoOn(c, ObjectOf(c, a, at, sso, role)),
         OwnersStay, accounts' = accounts, UNCHANGED <<primary, outrun, tooled, policy, stream, ssoSync>>
  PROVE  /\ CallHolds(c)' /\ DOMAIN call' = Caller
         /\ \A d \in Caller : d # c => call'[d] = call[d]
<1>1. PICK next : next = ObjectOf(c, a, at, sso, role)
  OBVIOUS
<1>2. /\ next.at = at /\ next.who = call[c].who /\ next.row = a /\ next.email = account[a].email
      /\ next.sso = sso /\ next.role = role
  BY <1>1 DEF ObjectOf
<1>3. /\ call'[c] = next /\ DOMAIN call' = Caller /\ \A d \in Caller : d # c => call'[d] = call[d]
  BY <1>1 DEF GoOn, AccountInv, SsoTypes
<1>4. /\ KnownProfile(call[c].who) /\ call[c].who.person \in Person
      /\ c \in SyncTask => ssoSync \in 1..Len(stream) /\ call[c].who = stream[ssoSync]
  BY CallIs
<1>5. KnownProfile(call[c].who)'
  <2>1. KnownProfile(next.who)'
    BY <1>2, <1>4 DEF KnownProfile, Used
  <2>2. call'[c].who = call[c].who
    BY <1>2, <1>3
  <2> QED BY <1>2, <1>3, <1>4, <2>1, <2>2 DEF KnownProfile, Used
<1>6. a \in AccountsOf(call[c].who.person) /\ account[a].email \in Used(call[c].who.person)
  BY DEF AccountsOf
<1>7. /\ a \in 1..accounts'
      /\ account'[a].email \in FirstEmails(call[c].who.person, primary'[call[c].who.person])
      /\ account[a].email \in FirstEmails(call[c].who.person, primary'[call[c].who.person])
  BY <1>4, <1>6 DEF AccountsOf, OwnersStay, Used
<1>8. sso # Unread => \/ role = NoRole
                      \/ /\ role \in FirstEmails(call[c].who.person, primary'[call[c].who.person])
                         /\ policy'[role] # NoRole /\ tooled'[a] # NoTools
  BY DEF RoleIs, Used
<1> QED BY <1>2, <1>3, <1>4, <1>5, <1>7, <1>8 DEF CallHolds, AccountsOf, Used, RoleIs, KnownProfile

LEMMA CheckedToolsHolds ==
  ASSUME AccountInv, NEW c \in Caller, call[c].at # "idle", NEW a \in BySso(call[c].who.person),
         CheckedTools(c, a),
         OwnersStay, accounts' = accounts, UNCHANGED <<primary, outrun, tooled, policy, stream, ssoSync>>
  PROVE  /\ CallHolds(c)' /\ DOMAIN call' = Caller
         /\ \A d \in Caller : d # c => call'[d] = call[d]
         /\ \A b \in roleTasks' : b \in 1..accounts /\ tooled[b] # NoTools
<1>1. call[c].who.person \in Person
  BY CallIs
<1>2. /\ a \in AccountsOf(call[c].who.person) /\ a \in 1..accounts
      /\ account[a].sso = call[c].who.person /\ RoleIs(a, call[c].who.person, account[a].role)
  BY <1>1, OwnerIs DEF AccountsOf
<1>3. \A b \in roleTasks : b \in 1..accounts /\ tooled[b] # NoTools
  BY DEF AccountInv, RolesHold
<1>4. CASE tooled[a] # NoTools
  <2>1. /\ GoOn(c, ObjectOf(c, a, "update", account[a].sso, account[a].role))
        /\ roleTasks' \subseteq roleTasks \cup {a}
    BY <1>4 DEF CheckedTools
  <2>2. PICK at \in {"claim", "update"} : at = "update"
    OBVIOUS
  <2>3. PICK sso, role : sso = account[a].sso /\ role = account[a].role
    OBVIOUS
  <2>4. /\ GoOn(c, ObjectOf(c, a, at, sso, role))
        /\ sso \in {call[c].who.person, IF at = "claim" THEN UnusedId ELSE Unread}
        /\ sso # Unread => RoleIs(a, call[c].who.person, role)
    BY <1>2, <2>1, <2>2, <2>3
  <2>5. CallHolds(c)' /\ DOMAIN call' = Caller /\ \A d \in Caller : d # c => call'[d] = call[d]
    BY <1>2, <2>4, ObjectHolds
  <2> QED BY <1>2, <1>3, <1>4, <2>1, <2>5
<1>5. CASE tooled[a] = NoTools
  <2>1. GoOn(c, ObjectOf(c, a, "update", Unread, Unread)) /\ roleTasks' = roleTasks
    BY <1>5 DEF CheckedTools
  <2>2. PICK at \in {"claim", "update"} : at = "update"
    OBVIOUS
  <2>3. PICK sso, role : sso = Unread /\ role = Unread
    OBVIOUS
  <2>4. /\ GoOn(c, ObjectOf(c, a, at, sso, role))
        /\ sso \in {call[c].who.person, IF at = "claim" THEN UnusedId ELSE Unread}
        /\ sso # Unread => RoleIs(a, call[c].who.person, role)
    BY <2>1, <2>2, <2>3
  <2>5. CallHolds(c)' /\ DOMAIN call' = Caller /\ \A d \in Caller : d # c => call'[d] = call[d]
    BY <1>2, <2>4, ObjectHolds
  <2> QED BY <1>3, <2>1, <2>5
<1> QED BY <1>4, <1>5

LEMMA LookUpInv ==
  ASSUME AccountInv, NEW c \in Caller, LookUp(c)
  PROVE  AccountInv'
<1>1. /\ call[c].at = "look"
      /\ UNCHANGED <<primary, outrun, tooled, policy, roleTask, stream, lastPublished>>
      /\ UNCHANGED <<account, accounts, ssoSync>>
  BY DEF LookUp, CallAt, outside
<1>2. call[c].at # "idle" /\ accounts' = accounts /\ OwnersStay
  BY <1>1, SameAccounts
<1>3. /\ CallHolds(c)' /\ DOMAIN call' = Caller
      /\ \A d \in Caller : d # c => call'[d] = call[d]
      /\ \A b \in roleTasks' : b \in 1..accounts /\ tooled[b] # NoTools
  <2>1. CASE GoOn(c, [at |-> "create", who |-> call[c].who]) /\ UNCHANGED roleTasks
    <3>1. PICK next : next = [at |-> "create", who |-> call[c].who]
      OBVIOUS
    <3>2. next.at = "create" /\ next.who = call[c].who
      BY <3>1
    <3>3. /\ call'[c] = next /\ DOMAIN call' = Caller
          /\ \A d \in Caller : d # c => call'[d] = call[d]
      BY <2>1, <3>1 DEF GoOn, AccountInv, SsoTypes
    <3>4. KnownProfile(call[c].who) /\ (c \in SyncTask => ssoSync \in 1..Len(stream) /\ call[c].who = stream[ssoSync])
      BY <1>2, CallIs
    <3>5. KnownProfile(next.who)'
      BY <1>1, <3>2, <3>4 DEF KnownProfile, Used
    <3>6. CallHolds(c)'
      BY <1>1, <3>2, <3>3, <3>4, <3>5 DEF CallHolds
    <3> QED BY <1>1, <2>1, <3>3, <3>6, SameAccounts
  <2>2. ASSUME NEW a \in BySso(call[c].who.person), CheckedTools(c, a)
        PROVE  CallHolds(c)' /\ DOMAIN call' = Caller
               /\ (\A d \in Caller : d # c => call'[d] = call[d])
               /\ (\A b \in roleTasks' : b \in 1..accounts /\ tooled[b] # NoTools)
    BY <1>1, <1>2, <2>2, CheckedToolsHolds
  <2>3. ASSUME NEW a \in BySso(call[c].who.person),
               GoOn(c, ObjectOf(c, a, "update", Unread, Unread)), UNCHANGED roleTasks
        PROVE  CallHolds(c)' /\ DOMAIN call' = Caller
               /\ (\A d \in Caller : d # c => call'[d] = call[d])
               /\ (\A b \in roleTasks' : b \in 1..accounts /\ tooled[b] # NoTools)
    <3>1. call[c].who.person \in Person
      BY <1>2, CallIs
    <3>2. a \in AccountsOf(call[c].who.person)
      BY <3>1, OwnerIs
    <3>3. PICK at \in {"claim", "update"} : at = "update"
      OBVIOUS
    <3>4. PICK sso, role : sso = Unread /\ role = Unread
      OBVIOUS
    <3> HIDE DEF AccountInv
    <3>5. PICK b \in AccountsOf(call[c].who.person) : b = a
      BY <3>2
    <3>8. GoOn(c, ObjectOf(c, b, at, sso, role))
      BY <2>3, <3>3, <3>4, <3>5
    <3>9. sso \in {call[c].who.person, IF at = "claim" THEN UnusedId ELSE Unread}
      BY <3>3, <3>4
    <3>10. sso # Unread => RoleIs(b, call[c].who.person, role)
      BY <3>4
    <3>7. UNCHANGED <<primary, outrun, tooled, policy, stream, ssoSync>>
      BY <1>1
    <3>11. call[c].at # "idle" /\ OwnersStay /\ accounts' = accounts
      BY <1>2
    <3>6. CallHolds(c)' /\ DOMAIN call' = Caller /\ \A d \in Caller : d # c => call'[d] = call[d]
      BY <3>7, <3>8, <3>9, <3>10, <3>11, ObjectHolds
    <3> QED BY <1>1, <2>3, <3>6, SameAccounts
  <2> QED BY <2>1, <2>2, <2>3 DEF LookUp
<1>4. ssoSync' \in 0..(Len(stream) + 1) /\ ssoSync' <= ssoSync
  BY <1>1, SameAccounts
<1> HIDE DEF AccountInv
<1> QED BY <1>1, <1>3, <1>4, SameAccounts, CallStepInv

\* A call comes to its end, or to an exception.
LEMMA IdleHolds ==
  ASSUME AccountInv, NEW c \in Caller, GoOn(c, NotCalled)
  PROVE  /\ CallHolds(c)' /\ DOMAIN call' = Caller
         /\ \A d \in Caller : d # c => call'[d] = call[d]
<1>1. PICK next : next = NotCalled /\ next.at = "idle"
  BY DEF NotCalled
<1>2. /\ call'[c] = next /\ DOMAIN call' = Caller /\ \A d \in Caller : d # c => call'[d] = call[d]
  BY <1>1 DEF GoOn, AccountInv, SsoTypes
<1> QED BY <1>1, <1>2 DEF CallHolds

LEMMA RaisesInv ==
  ASSUME AccountInv, NEW c \in Caller, Raises(c),
         UNCHANGED <<primary, outrun, tooled, policy, roleTask, stream, lastPublished>>,
         OwnersStay, AccountsHold', DOMAIN account' = Account, accounts' = accounts, roleTasks' = roleTasks
  PROVE  AccountInv'
<1>1. CallHolds(c)' /\ DOMAIN call' = Caller /\ \A d \in Caller : d # c => call'[d] = call[d]
  BY IdleHolds DEF Raises
<1>2. /\ ssoSync' \in 0..(Len(stream) + 1) /\ ssoSync' <= ssoSync /\ (c \notin SyncTask => ssoSync' = ssoSync)
      /\ accounts' \in 0..MaxAccounts /\ accounts <= accounts'
  BY SsoAssumption DEF Raises, AccountInv, SsoTypes
<1>3. \A b \in roleTasks' : b \in 1..accounts /\ tooled[b] # NoTools
  BY DEF AccountInv, RolesHold
<1> HIDE DEF AccountInv
<1> QED BY <1>1, <1>2, <1>3, CallStepInv

\* A call that ends has an account of its person, the one it was told of in a synchronisation.
LEMMA ReturnsInv ==
  ASSUME AccountInv, NEW c \in Caller, call[c].at # "idle", Returns(c), AccountsOf(call[c].who.person) # {},
         UNCHANGED <<primary, outrun, tooled, policy, roleTask, stream, lastPublished>>,
         OwnersStay, AccountsHold', DOMAIN account' = Account, accounts' = accounts, roleTasks' = roleTasks
  PROVE  AccountInv'
<1>1. CallHolds(c)' /\ DOMAIN call' = Caller /\ \A d \in Caller : d # c => call'[d] = call[d]
  BY IdleHolds DEF Returns
<1>2. c \in SyncTask => ssoSync \in 1..Len(stream) /\ call[c].who = stream[ssoSync]
  BY CallIs
<1>3. /\ accounts' \in 0..MaxAccounts /\ accounts <= accounts' /\ Len(stream) \in Nat
      /\ ssoSync \in 0..(Len(stream) + 1)
  BY SsoAssumption DEF AccountInv, SsoTypes
<1>4. /\ ssoSync' \in 0..(Len(stream) + 1) /\ (c \notin SyncTask => ssoSync' = ssoSync)
      /\ \/ ssoSync' <= ssoSync
         \/ /\ ssoSync' = ssoSync + 1 /\ ssoSync \in 1..Len(stream)
            /\ AccountsOf(stream[ssoSync].person) # {}
  BY <1>2, <1>3 DEF Returns
<1>5. \A b \in roleTasks' : b \in 1..accounts /\ tooled[b] # NoTools
  BY DEF AccountInv, RolesHold
<1> HIDE DEF AccountInv
<1> QED BY <1>1, <1>3, <1>4, <1>5, CallStepInv

\* Addresses that a call knows of find the accounts of its person only, and all of them
\* unless the address has changed meanwhile.
LEMMA MatchesAre ==
  ASSUME AccountInv, NEW c \in Caller, call[c].at # "idle"
  PROVE  /\ Matches(c) \subseteq AccountsOf(call[c].who.person)
         /\ call[c].who.person \notin outrun => Matches(c) = AccountsOf(call[c].who.person)
<1>1. KnownProfile(call[c].who)
  BY CallIs
<1> QED BY <1>1 DEF KnownProfile, Matches, ByEmail, AccountsOf

LEMMA GetOrCreateInv ==
  ASSUME AccountInv, NEW c \in Caller, GetOrCreate(c)
  PROVE  AccountInv'
<1>1. /\ call[c].at = "create" /\ call[c].at # "idle" /\ roleTasks' = roleTasks
      /\ UNCHANGED <<primary, outrun, tooled, policy, roleTask, stream, lastPublished>>
  BY DEF GetOrCreate, CallAt, outside
<1>2. PICK p \in Person : p = call[c].who.person
  BY <1>1, CallIs
<1>3. /\ KnownProfile(call[c].who) /\ call[c].who.email \in Used(p)
      /\ c \in SyncTask => ssoSync \in 1..Len(stream) /\ call[c].who = stream[ssoSync]
  BY <1>1, <1>2, CallIs
<1>4. SsoTypes /\ AccountsHold
  BY DEF AccountInv
<1>5. CASE /\ Matches(c) = {} /\ accounts < MaxAccounts /\ accounts' = accounts + 1
           /\ account' = [account EXCEPT ![accounts + 1] = NewAccount(call[c].who.email)]
           /\ GoOn(c, [at |-> "claim", who |-> call[c].who, row |-> accounts + 1,
                       email |-> call[c].who.email, sso |-> UnusedId, role |-> NoRole])
           /\ UNCHANGED ssoSync
  <2>1. PICK email : email = call[c].who.email
    OBVIOUS
  <2>2. PICK next : next = [at |-> "claim", who |-> call[c].who, row |-> accounts + 1,
                            email |-> call[c].who.email, sso |-> UnusedId, role |-> NoRole]
    OBVIOUS
  <2>3. /\ next.at = "claim" /\ next.who = call[c].who /\ next.row = accounts + 1
        /\ next.email = call[c].who.email /\ next.sso = UnusedId /\ next.role = NoRole
    BY <2>2
  <2>4. /\ call'[c] = next /\ DOMAIN call' = Caller /\ \A d \in Caller : d # c => call'[d] = call[d]
    BY <1>5, <2>2 DEF GoOn, AccountInv, SsoTypes
  <2>5. email \in Used(p) /\ account' = [account EXCEPT ![accounts + 1] = NewAccount(email)]
    BY <1>3, <1>5, <2>1
  <2>6. \A b \in 1..accounts : account[b].email # email
    BY <1>5, <2>1 DEF Matches, ByEmail
  <2>7. p \notin outrun => AccountsOf(p) = {}
    BY <1>1, <1>2, <1>5, MatchesAre
  <2>8. UNCHANGED <<primary, outrun, tooled, policy>> /\ accounts < MaxAccounts /\ accounts' = accounts + 1
    BY <1>1, <1>5
  <2>9. /\ AccountsHold' /\ OwnersStay /\ DOMAIN account' = Account /\ accounts' \in 0..MaxAccounts
        /\ accounts' \in AccountsOf(p)'
    BY <1>4, <2>5, <2>6, <2>7, <2>8, NewAccountHolds
  <2>10. KnownProfile(next.who)'
    BY <1>1, <1>3, <2>3 DEF KnownProfile, Used
  <2>11. CallHolds(c)'
    <3>1. next.row \in AccountsOf(next.who.person)'
      BY <1>2, <2>3, <2>8, <2>9 DEF AccountsOf, Used
    <3>2. next.email \in Used(next.who.person)'
      BY <1>1, <1>2, <1>3, <2>3, <2>8 DEF Used
    <3>3. c \in SyncTask => ssoSync' \in 1..Len(stream') /\ next.who = stream'[ssoSync']
      BY <1>1, <1>3, <1>5, <2>3
    <3> QED BY <2>3, <2>4, <2>10, <3>1, <3>2, <3>3 DEF CallHolds, RoleIs
  <2>12. /\ accounts \in Nat /\ accounts <= accounts'
         /\ ssoSync' \in 0..(Len(stream) + 1) /\ ssoSync' <= ssoSync /\ ssoSync' = ssoSync
    BY <1>4, <1>5, SsoAssumption DEF SsoTypes
  <2>13. \A b \in roleTasks' : b \in 1..accounts /\ tooled[b] # NoTools
    BY <1>1 DEF AccountInv, RolesHold
  <2> HIDE DEF AccountInv
  <2> QED BY <1>1, <2>4, <2>8, <2>9, <2>11, <2>12, <2>13, CallStepInv
<1>6. ASSUME NEW a \in Matches(c), GoOn(c, ObjectOf(c, a, "claim", account[a].sso, account[a].role)),
             UNCHANGED <<account, accounts, ssoSync>>
      PROVE  AccountInv'
  <2>1. a \in AccountsOf(p) /\ a \in AccountsOf(call[c].who.person)
    BY <1>1, <1>2, MatchesAre
  <2>2. account[a].sso \in {p, UnusedId} /\ RoleIs(a, p, account[a].role)
    BY <2>1, OwnerIs
  <2>3. PICK at \in {"claim", "update"} : at = "claim"
    OBVIOUS
  <2>4. PICK sso, role : sso = account[a].sso /\ role = account[a].role
    OBVIOUS
  <2>5. /\ GoOn(c, ObjectOf(c, a, at, sso, role))
        /\ sso \in {call[c].who.person, IF at = "claim" THEN UnusedId ELSE Unread}
        /\ sso # Unread => RoleIs(a, call[c].who.person, role)
    BY <1>2, <1>6, <2>2, <2>3, <2>4
  <2>6. OwnersStay /\ accounts' = accounts
    BY <1>1, <1>6, SameAccounts
  <2>7. UNCHANGED <<primary, outrun, tooled, policy, stream, ssoSync>>
    BY <1>1, <1>6
  <2>11. PICK b \in AccountsOf(call[c].who.person) : b = a
    BY <2>1
  <2>12. /\ GoOn(c, ObjectOf(c, b, at, sso, role)) /\ call[c].at # "idle"
         /\ sso # Unread => RoleIs(b, call[c].who.person, role)
    BY <1>1, <2>5, <2>11
  <2>8. CallHolds(c)' /\ DOMAIN call' = Caller /\ \A d \in Caller : d # c => call'[d] = call[d]
    <3>1. sso \in {call[c].who.person, IF at = "claim" THEN UnusedId ELSE Unread}
      BY <2>5
    <3>2. sso # Unread => RoleIs(b, call[c].who.person, role)
      BY <2>12
    <3>3. GoOn(c, ObjectOf(c, b, at, sso, role)) /\ call[c].at # "idle"
      BY <2>12
    <3> HIDE DEF AccountInv
    <3> QED BY <2>6, <2>7, <3>1, <3>2, <3>3, ObjectHolds
  <2>9. ssoSync' \in 0..(Len(stream) + 1) /\ ssoSync' <= ssoSync /\ ssoSync' = ssoSync
    BY <1>1, <1>6, SameAccounts
  <2>10. \A d \in roleTasks' : d \in 1..accounts /\ tooled[d] # NoTools
    BY <1>1, <1>6, SameAccounts
  <2> HIDE DEF AccountInv
  <2> QED BY <1>1, <1>6, <2>8, <2>9, <2>10, SameAccounts, CallStepInv
<1>7. CASE Raises(c) /\ UNCHANGED <<account, accounts>>
  <2>1. OwnersStay /\ AccountsHold' /\ DOMAIN account' = Account /\ accounts' = accounts
    BY <1>1, <1>7, SameAccounts
  <2> HIDE DEF AccountInv
  <2> QED BY <1>1, <1>7, <2>1, RaisesInv
<1> QED BY <1>5, <1>6, <1>7 DEF GetOrCreate
LEMMA ClaimInv ==
  ASSUME AccountInv, NEW c \in Caller, Claim(c)
  PROVE  AccountInv'
<1>1. /\ call[c].at = "claim" /\ call[c].at # "idle" /\ accounts' = accounts
      /\ UNCHANGED <<primary, outrun, tooled, policy, roleTask, stream, lastPublished>>
      /\ account' = SavedUser(call[c].row, call[c].email, call[c].who.person, call[c].role)
  BY DEF Claim, CallAt, outside
<1>2. PICK p \in Person : p = call[c].who.person
  BY <1>1, CallIs
<1>3. PICK a \in 1..accounts : a = call[c].row
  BY <1>1, CallIs
<1>4. PICK email, role : email = call[c].email /\ role = call[c].role
  OBVIOUS
<1>5. /\ SsoTypes /\ AccountsHold /\ a \in AccountsOf(p) /\ email \in Used(p)
      /\ RoleIs(a, p, role) /\ account' = SavedUser(a, email, p, role)
  <2>1. call[c].sso \in {p, UnusedId}
    BY <1>1, <1>2, CallIs
  <2>2. call[c].sso # Unread
    BY <2>1, SsoAssumption DEF Unread, UnusedId
  <2>3. RoleIs(call[c].row, p, call[c].role)
    BY <1>1, <1>2, <2>2, CallIs
  <2> QED BY <1>1, <1>2, <1>3, <1>4, <2>3, CallIs DEF AccountInv
<1>6. AccountsHold' /\ OwnersStay /\ DOMAIN account' = Account
  <2>1. PICK sso \in {p, UnusedId} : sso = p
    OBVIOUS
  <2>2. account' = SavedUser(a, email, sso, role) /\ (tooled[a] = p => sso = p)
    BY <1>5, <2>1
  <2>3. UNCHANGED <<primary, outrun, accounts, tooled, policy>>
    BY <1>1
  <2> QED BY <1>5, <2>2, <2>3, SavedUserHolds
<1>7. /\ \A b \in roleTasks : b \in 1..accounts /\ tooled[b] # NoTools
      /\ ssoSync \in 0..(Len(stream) + 1) /\ accounts \in 0..MaxAccounts /\ accounts \in Nat
  BY <1>5, SsoAssumption DEF AccountInv, RolesHold, SsoTypes
<1>8. ASSUME ssoSync' = ssoSync, CallHolds(c)', DOMAIN call' = Caller,
             \A d \in Caller : d # c => call'[d] = call[d],
             \A b \in roleTasks' : b \in 1..accounts /\ tooled[b] # NoTools
      PROVE  AccountInv'
  <2>1. /\ accounts' \in 0..MaxAccounts /\ accounts <= accounts'
        /\ ssoSync' \in 0..(Len(stream) + 1) /\ ssoSync' <= ssoSync
    BY <1>1, <1>7, <1>8
  <2> HIDE DEF AccountInv
  <2> QED BY <1>1, <1>6, <1>8, <2>1, CallStepInv
<1>9. CASE /\ GoOn(c, [at |-> "update", who |-> call[c].who, row |-> call[c].row,
                       email |-> call[c].email, sso |-> call[c].who.person, role |-> call[c].role])
           /\ roleTasks' = IF tooled[call[c].row] # NoTools /\ call[c].role = NoRole
                           THEN roleTasks \cup {call[c].row} ELSE roleTasks
           /\ UNCHANGED ssoSync
  <2>1. PICK next : next = [at |-> "update", who |-> call[c].who, row |-> call[c].row,
                            email |-> call[c].email, sso |-> call[c].who.person, role |-> call[c].role]
    OBVIOUS
  <2>2. /\ next.at = "update" /\ next.who = call[c].who /\ next.row = a
        /\ next.email = email /\ next.sso = p /\ next.role = role
    BY <1>2, <1>3, <1>4, <2>1
  <2>3. /\ call'[c] = next /\ DOMAIN call' = Caller /\ \A d \in Caller : d # c => call'[d] = call[d]
    BY <1>9, <2>1 DEF GoOn, AccountInv, SsoTypes
  <2>4. /\ KnownProfile(call[c].who) /\ call[c].who.person = p
        /\ c \in SyncTask => ssoSync \in 1..Len(stream) /\ call[c].who = stream[ssoSync]
    BY <1>1, <1>2, CallIs
  <2>5. KnownProfile(next.who)'
    BY <1>1, <2>2, <2>4 DEF KnownProfile, Used
  <2>6. /\ next.row \in AccountsOf(next.who.person)' /\ next.email \in Used(next.who.person)'
        /\ next.sso \in {next.who.person, IF next.at = "claim" THEN UnusedId ELSE Unread}
        /\ next.sso # Unread => RoleIs(next.row, next.who.person, next.role)'
    <3>1. a \in AccountsOf(p)'
      BY <1>1, <1>5, <1>6 DEF AccountsOf, OwnersStay, Used
    <3>2. RoleIs(a, p, role)' /\ email \in Used(p)'
      BY <1>1, <1>5 DEF RoleIs, Used
    <3> QED BY <2>2, <2>4, <3>1, <3>2
  <2>7. c \in SyncTask => ssoSync' \in 1..Len(stream') /\ next.who = stream'[ssoSync']
    BY <1>1, <1>9, <2>2, <2>4
  <2>8. CallHolds(c)'
    BY <2>2, <2>3, <2>5, <2>6, <2>7 DEF CallHolds
  <2>9. \A b \in roleTasks' : b \in 1..accounts /\ tooled[b] # NoTools
    BY <1>3, <1>7, <1>9
  <2> QED BY <1>8, <1>9, <2>3, <2>8, <2>9
<1>10. CASE Raises(c) /\ UNCHANGED roleTasks
  <2> HIDE DEF AccountInv
  <2> QED BY <1>1, <1>6, <1>10, RaisesInv
<1>11. ASSUME NEW b \in BySso(call[c].who.person), CheckedTools(c, b), UNCHANGED ssoSync
       PROVE  AccountInv'
  <2>1. UNCHANGED <<primary, outrun, tooled, policy, stream, ssoSync>>
    BY <1>1, <1>11
  <2>2. /\ CallHolds(c)' /\ DOMAIN call' = Caller
        /\ \A d \in Caller : d # c => call'[d] = call[d]
        /\ \A d \in roleTasks' : d \in 1..accounts /\ tooled[d] # NoTools
    BY <1>1, <1>6, <1>11, <2>1, CheckedToolsHolds
  <2> QED BY <1>8, <1>11, <2>2
<1> QED BY <1>9, <1>10, <1>11 DEF Claim

LEMMA UpdateInv ==
  ASSUME AccountInv, NEW c \in Caller, Update(c)
  PROVE  AccountInv'
<1>1. /\ call[c].at = "update" /\ call[c].at # "idle" /\ accounts' = accounts /\ roleTasks' = roleTasks
      /\ UNCHANGED <<primary, outrun, tooled, policy, roleTask, stream, lastPublished>>
      /\ Returns(c)
  BY DEF Update, CallAt, outside
<1>2. PICK p \in Person : p = call[c].who.person
  BY <1>1, CallIs
<1>3. PICK a \in 1..accounts : a = call[c].row
  BY <1>1, CallIs
<1>4. PICK email : email = call[c].who.email
  OBVIOUS
<1>5. /\ SsoTypes /\ AccountsHold /\ a \in AccountsOf(p) /\ email \in Used(p)
      /\ call[c].sso \in {p, Unread} /\ (call[c].sso # Unread => RoleIs(a, p, call[c].role))
      /\ account[a].sso \in {p, UnusedId} /\ RoleIs(a, p, account[a].role)
      /\ tooled[a] = p => account[a].sso = p
  <2>1. /\ a \in AccountsOf(p) /\ email \in Used(p)
        /\ call[c].sso \in {p, Unread} /\ (call[c].sso # Unread => RoleIs(a, p, call[c].role))
    BY <1>1, <1>2, <1>3, <1>4, CallIs
  <2> QED BY <2>1, OwnerIs DEF AccountInv
<1>6. AccountsHold' /\ OwnersStay /\ DOMAIN account' = Account
  <2>1. UNCHANGED <<primary, outrun, accounts, tooled, policy>>
    BY <1>1
  <2>2. ASSUME NEW sso \in {p, UnusedId}, NEW role, RoleIs(a, p, role), tooled[a] = p => sso = p,
               account' = SavedUser(a, email, sso, role)
        PROVE  AccountsHold' /\ OwnersStay /\ DOMAIN account' = Account
    BY <1>5, <2>1, <2>2, SavedUserHolds
  <2>3. CASE account' = account
    <3>1. UNCHANGED <<primary, outrun, account, accounts, tooled, policy>>
      BY <1>1, <2>3
    <3> QED BY <3>1, SameAccounts
  <2>4. CASE call[c].sso = Unread /\ account' = SavedUser(a, email, account[a].sso, account[a].role)
    BY <1>5, <2>2, <2>4
  <2>5. CASE call[c].sso # Unread /\ account' = SavedUser(a, email, call[c].sso, call[c].role)
    BY <1>5, <2>2, <2>5
  <2> QED BY <1>3, <1>4, <2>3, <2>4, <2>5 DEF Update
<1>7. AccountsOf(call[c].who.person) # {}
  BY <1>2, <1>5
<1> HIDE DEF AccountInv
<1> QED BY <1>1, <1>6, <1>7, ReturnsInv
\* A step of the synchronisation, which leaves the accounts alone.
LEMMA SyncStepInv ==
  ASSUME AccountInv, NEW c \in SyncTask,
         DOMAIN call' = Caller, \A d \in Caller : d # c => call'[d] = call[d], CallHolds(c)',
         UNCHANGED <<primary, outrun, account, accounts, tooled, policy>>,
         UNCHANGED <<stream, roleTasks, roleTask>>,
         ssoSync' \in 0..(Len(stream) + 1), lastPublished' \in 0..Len(stream),
         \A i \in 1..Len(stream) : i <= lastPublished' \/ i < ssoSync' => i <= lastPublished \/ i < ssoSync
  PROVE  AccountInv'
<1>1. SsoTypes /\ AccountsHold /\ CallsHold /\ RolesHold /\ ToldHaveAccounts
  BY DEF AccountInv
<1>2. SsoTypes'
  BY <1>1 DEF SsoTypes, KnownProfile, Used
<1>3. AccountsHold' /\ OwnersStay /\ accounts' \in Nat /\ accounts <= accounts'
  BY SameAccounts
<1>4. CallsHold'
  <2> SUFFICES ASSUME NEW d \in Caller, d # c
               PROVE  CallHolds(d)'
    BY DEF CallsHold
  <2>1. CallHolds(d) /\ call'[d] = call[d] /\ d \notin SyncTask
    BY <1>1, SsoAssumption DEF CallsHold
  <2>2. /\ \A a \in 1..accounts : tooled[a] # NoTools => tooled'[a] = tooled[a]
        /\ \A e \in EveryEmail : policy[e] # NoRole => policy'[e] # NoRole
    OBVIOUS
  <2>3. UNCHANGED <<primary, outrun>>
    OBVIOUS
  <2> QED BY <1>1, <1>3, <2>1, <2>2, <2>3, CallStays
<1>5. RolesHold'
  BY <1>1 DEF RolesHold, RoleTaskHolds, PoliciesHold, AccountsOf, Used
<1>6. ToldHaveAccounts'
  BY <1>1 DEF ToldHaveAccounts, AccountsOf, Used
<1> QED BY <1>1, <1>2, <1>3, <1>4, <1>5, <1>6 DEF AccountInv

LEMMA SyncStartsInv ==
  ASSUME AccountInv, NEW c \in Caller, SyncStarts(c)
  PROVE  AccountInv'
<1>1. /\ c \in SyncTask /\ call[c].at = "idle" /\ call' = call /\ ssoSync = 0
      /\ ssoSync' = (IF lastPublished = 0 THEN 1 ELSE lastPublished) /\ lastPublished' = lastPublished
      /\ UNCHANGED <<primary, outrun, account, accounts, tooled, policy>>
      /\ UNCHANGED <<stream, roleTasks, roleTask>>
  BY DEF SyncStarts, NoCallOf
<1>2. lastPublished \in 0..Len(stream) /\ Len(stream) \in Nat /\ DOMAIN call' = Caller
  BY <1>1 DEF AccountInv, SsoTypes
<1>3. CallHolds(c)' /\ \A d \in Caller : d # c => call'[d] = call[d]
  BY <1>1 DEF CallHolds
<1>4. /\ ssoSync' \in 0..(Len(stream) + 1) /\ lastPublished' \in 0..Len(stream)
      /\ \A i \in 1..Len(stream) : i <= lastPublished' \/ i < ssoSync' => i <= lastPublished \/ i < ssoSync
  BY <1>1, <1>2
<1> HIDE DEF AccountInv
<1> QED BY <1>1, <1>2, <1>3, <1>4, SyncStepInv

LEMMA SyncRecordInv ==
  ASSUME AccountInv, NEW c \in Caller, SyncRecord(c)
  PROVE  AccountInv'
<1>1. PICK next : next = [at |-> "look", who |-> stream[ssoSync]]
  OBVIOUS
<1>2. next.at = "look" /\ next.who = stream[ssoSync]
  BY <1>1
<1>3. /\ c \in SyncTask /\ ssoSync \in 1..Len(stream) /\ ssoSync' = ssoSync
      /\ lastPublished' = lastPublished /\ call' = [call EXCEPT ![c] = next]
      /\ UNCHANGED <<primary, outrun, account, accounts, tooled, policy>>
      /\ UNCHANGED <<stream, roleTasks, roleTask>>
  BY <1>1 DEF SyncRecord, GoOn, outside
<1>4. lastPublished \in 0..Len(stream) /\ Len(stream) \in Nat /\ KnownProfile(next.who)
  BY <1>2, <1>3 DEF AccountInv, SsoTypes
<1>5. /\ call'[c] = next /\ DOMAIN call' = Caller /\ \A d \in Caller : d # c => call'[d] = call[d]
  BY <1>3 DEF AccountInv, SsoTypes
<1>6. CallHolds(c)'
  <2>1. KnownProfile(next.who)'
    BY <1>3, <1>4 DEF KnownProfile, Used
  <2> QED BY <1>2, <1>3, <1>5, <2>1 DEF CallHolds
<1>7. /\ ssoSync' \in 0..(Len(stream) + 1) /\ lastPublished' \in 0..Len(stream)
      /\ \A i \in 1..Len(stream) : i <= lastPublished' \/ i < ssoSync' => i <= lastPublished \/ i < ssoSync
  BY <1>3, <1>4
<1> HIDE DEF AccountInv
<1> QED BY <1>3, <1>5, <1>6, <1>7, SyncStepInv

LEMMA SyncEndsInv ==
  ASSUME AccountInv, NEW c \in Caller, SyncEnds(c)
  PROVE  AccountInv'
<1>1. /\ c \in SyncTask /\ call[c].at = "idle" /\ call' = call /\ ssoSync > Len(stream)
      /\ ssoSync' = 0 /\ lastPublished' = ssoSync - 1
      /\ UNCHANGED <<primary, outrun, account, accounts, tooled, policy>>
      /\ UNCHANGED <<stream, roleTasks, roleTask>>
  BY DEF SyncEnds, NoCallOf
<1>2. ssoSync \in 0..(Len(stream) + 1) /\ Len(stream) \in Nat /\ DOMAIN call' = Caller
  BY <1>1 DEF AccountInv, SsoTypes
<1>3. CallHolds(c)' /\ \A d \in Caller : d # c => call'[d] = call[d]
  BY <1>1 DEF CallHolds
<1>4. /\ ssoSync' \in 0..(Len(stream) + 1) /\ lastPublished' \in 0..Len(stream)
      /\ \A i \in 1..Len(stream) : i <= lastPublished' \/ i < ssoSync' => i <= lastPublished \/ i < ssoSync
  BY <1>1, <1>2
<1> HIDE DEF AccountInv
<1> QED BY <1>1, <1>2, <1>3, <1>4, SyncStepInv

LEMMA SyncDiesInv ==
  ASSUME AccountInv, NEW c \in Caller, SyncDies(c)
  PROVE  AccountInv'
<1>1. /\ c \in SyncTask /\ GoOn(c, NotCalled) /\ ssoSync' = 0 /\ lastPublished' = lastPublished
      /\ UNCHANGED <<primary, outrun, account, accounts, tooled, policy>>
      /\ UNCHANGED <<stream, roleTasks, roleTask>>
  BY DEF SyncDies, outside
<1>2. lastPublished \in 0..Len(stream) /\ Len(stream) \in Nat
  BY DEF AccountInv, SsoTypes
<1>3. CallHolds(c)' /\ DOMAIN call' = Caller /\ \A d \in Caller : d # c => call'[d] = call[d]
  BY <1>1, IdleHolds
<1>4. /\ ssoSync' \in 0..(Len(stream) + 1) /\ lastPublished' \in 0..Len(stream)
      /\ \A i \in 1..Len(stream) : i <= lastPublished' \/ i < ssoSync' => i <= lastPublished \/ i < ssoSync
  BY <1>1, <1>2
<1> HIDE DEF AccountInv
<1> QED BY <1>1, <1>3, <1>4, SyncStepInv
\* A step of an administrator or of a role task, which may make an account or save a row.
LEMMA RowStepInv ==
  ASSUME AccountInv,
         UNCHANGED <<primary, outrun, tooled, policy>>, UNCHANGED <<call, stream, lastPublished, ssoSync>>,
         OwnersStay, AccountsHold', DOMAIN account' = Account,
         accounts' \in 0..MaxAccounts, accounts <= accounts', RoleTaskHolds',
         \A a \in roleTasks' : a \in 1..accounts /\ tooled[a] # NoTools
  PROVE  AccountInv'
<1>1. SsoTypes /\ AccountsHold /\ CallsHold /\ RolesHold /\ ToldHaveAccounts
  BY DEF AccountInv
<1>2. accounts' \in Nat /\ accounts \in Nat /\ Len(stream) \in Nat /\ ssoSync' \in Nat
  BY <1>1, SsoAssumption DEF SsoTypes
<1>3. SsoTypes'
  BY <1>1 DEF SsoTypes, KnownProfile, Used
<1>4. CallsHold'
  <2> SUFFICES ASSUME NEW d \in Caller
               PROVE  CallHolds(d)'
    BY DEF CallsHold
  <2>1. CallHolds(d) /\ call'[d] = call[d]
    BY <1>1 DEF CallsHold
  <2>2. /\ \A a \in 1..accounts : tooled[a] # NoTools => tooled'[a] = tooled[a]
        /\ \A e \in EveryEmail : policy[e] # NoRole => policy'[e] # NoRole
    OBVIOUS
  <2>3. UNCHANGED <<primary, outrun>> /\ ssoSync' = ssoSync /\ stream' = stream
    OBVIOUS
  <2> QED BY <1>1, <1>2, <2>1, <2>2, <2>3, CallStays
<1>5. RolesHold'
  <2>1. PoliciesHold'
    BY <1>1, PoliciesStay DEF RolesHold
  <2>2. \A a \in roleTasks' : a \in 1..accounts' /\ tooled'[a] # NoTools
    BY <1>2
  <2> QED BY <2>1, <2>2 DEF RolesHold
<1>6. ToldHaveAccounts'
  <2>1. ssoSync' <= ssoSync
    BY <1>2
  <2> QED BY <1>1, <1>2, <2>1, ToldStay
<1> QED BY <1>3, <1>4, <1>5, <1>6 DEF AccountInv

LEMMA CreateUserInv ==
  ASSUME AccountInv, NEW p \in Person, CreateUser(p)
  PROVE  AccountInv'
<1>1. /\ ByEmail(Profile(p).emails) = {} /\ accounts < MaxAccounts /\ accounts' = accounts + 1
      /\ account' = [account EXCEPT ![accounts + 1] = NewAccount(Profile(p).email)]
      /\ UNCHANGED <<primary, outrun, tooled, policy>>
      /\ UNCHANGED <<call, stream, lastPublished, ssoSync>> /\ UNCHANGED <<roleTasks, roleTask>>
  BY DEF CreateUser
<1>2. /\ SsoTypes /\ AccountsHold /\ RoleTaskHolds /\ accounts \in Nat
      /\ \A a \in roleTasks' : a \in 1..accounts /\ tooled[a] # NoTools
  BY <1>1, SsoAssumption DEF AccountInv, RolesHold, SsoTypes
<1>3. PICK email : email = Profile(p).email
  OBVIOUS
<1>4. email \in Used(p) /\ Profile(p).emails = Used(p)
  BY <1>2, <1>3, UsedIs DEF Profile, ProfileOf, Used
<1>5. AccountsOf(p) = {} /\ \A b \in 1..accounts : account[b].email # email
  BY <1>1, <1>4 DEF ByEmail, AccountsOf
<1>6. account' = [account EXCEPT ![accounts + 1] = NewAccount(email)]
  BY <1>1, <1>3
<1>7. AccountsHold' /\ OwnersStay /\ DOMAIN account' = Account /\ accounts' \in 0..MaxAccounts
  BY <1>1, <1>2, <1>4, <1>5, <1>6, NewAccountHolds
<1>8. accounts' \in Nat /\ accounts <= accounts'
  BY <1>1, <1>2
<1>9. RoleTaskHolds'
  <2>1. roleTask' = roleTask /\ UNCHANGED primary
    BY <1>1
  <2>2. /\ \A a \in 1..accounts : tooled[a] # NoTools => tooled'[a] = tooled[a]
        /\ \A e \in EveryEmail : policy[e] # NoRole => policy'[e] # NoRole
    BY <1>1
  <2> QED BY <1>2, <1>7, <1>8, <2>1, <2>2, RoleTaskStays
<1> HIDE DEF AccountInv
<1> QED BY <1>1, <1>2, <1>7, <1>8, <1>9, RowStepInv

LEMMA SaveRoleInv ==
  ASSUME AccountInv, SaveRole
  PROVE  AccountInv'
<1>1. /\ roleTask.at = "save" /\ roleTask' = NoRoleTask
      /\ account' = SavedUser(roleTask.row, roleTask.email, roleTask.sso, roleTask.email)
      /\ UNCHANGED <<primary, outrun, accounts, tooled, policy>>
      /\ UNCHANGED <<primary, outrun, tooled, policy>>
      /\ UNCHANGED <<call, stream, lastPublished, ssoSync>> /\ UNCHANGED roleTasks
  BY DEF SaveRole
<1>2. /\ SsoTypes /\ AccountsHold /\ RoleTaskHolds /\ accounts \in 0..MaxAccounts /\ accounts \in Nat
      /\ \A a \in roleTasks' : a \in 1..accounts /\ tooled[a] # NoTools
  BY <1>1, SsoAssumption DEF AccountInv, RolesHold, SsoTypes
<1>3. PICK p \in Person :
         /\ roleTask.row \in AccountsOf(p) /\ roleTask.email \in Used(p)
         /\ roleTask.sso \in {p, UnusedId} /\ (tooled[roleTask.row] = p => roleTask.sso = p)
  BY <1>1, <1>2 DEF RoleTaskHolds
<1>4. PICK a \in 1..accounts, email \in Used(p), sso \in {p, UnusedId} :
         a = roleTask.row /\ email = roleTask.email /\ sso = roleTask.sso
  BY <1>3 DEF AccountsOf
<1>5. PICK role : role = email
  OBVIOUS
<1>6. /\ a \in AccountsOf(p) /\ RoleIs(a, p, role) /\ (tooled[a] = p => sso = p)
      /\ account' = SavedUser(a, email, sso, role)
  BY <1>1, <1>2, <1>3, <1>4, <1>5 DEF RoleTaskHolds, RoleIs
<1>7. AccountsHold' /\ OwnersStay /\ DOMAIN account' = Account
  BY <1>1, <1>2, <1>6, SavedUserHolds
<1>8. RoleTaskHolds'
  <2>1. NoRoleTask.at = "idle"
    BY DEF NoRoleTask
  <2> QED BY <1>1, <2>1 DEF RoleTaskHolds
<1>9. accounts' \in 0..MaxAccounts /\ accounts <= accounts'
  BY <1>1, <1>2
<1> HIDE DEF AccountInv
<1> QED BY <1>1, <1>2, <1>7, <1>8, <1>9, RowStepInv

LEMMA RoleTaskStartsInv ==
  ASSUME AccountInv, NEW a \in 1..accounts, RoleTaskStarts(a)
  PROVE  AccountInv'
<1>1. /\ a \in roleTasks /\ roleTasks' = roleTasks \ {a}
      /\ roleTask' = (IF account[a].role # NoRole THEN NoRoleTask
                      ELSE [at |-> "aws", row |-> a, email |-> account[a].email, sso |-> account[a].sso])
      /\ UNCHANGED <<primary, outrun, account, accounts, tooled, policy>>
      /\ UNCHANGED <<primary, outrun, tooled, policy>>
      /\ UNCHANGED <<call, stream, lastPublished, ssoSync>>
  BY DEF RoleTaskStarts
<1>2. AccountsHold /\ \A b \in roleTasks : b \in 1..accounts /\ tooled[b] # NoTools
  BY DEF AccountInv, RolesHold
<1>3. AccountsHold' /\ OwnersStay /\ DOMAIN account' = Account /\ accounts' \in 0..MaxAccounts /\ accounts <= accounts'
  BY <1>1, SameAccounts
<1>4. PICK p \in Person :
         /\ account[a].email \in Used(p) /\ account[a].sso \in {p, UnusedId}
         /\ tooled[a] = p => account[a].sso = p
  BY <1>2 DEF AccountsHold, AccountHolds
<1>5. RoleTaskHolds'
  <2>1. CASE account[a].role # NoRole
    <3>1. NoRoleTask.at = "idle"
      BY DEF NoRoleTask
    <3> QED BY <1>1, <2>1, <3>1 DEF RoleTaskHolds
  <2>2. CASE account[a].role = NoRole
    <3>1. PICK next : next = [at |-> "aws", row |-> a, email |-> account[a].email, sso |-> account[a].sso]
      OBVIOUS
    <3>2. next.at = "aws" /\ next.row = a /\ next.email = account[a].email /\ next.sso = account[a].sso
      BY <3>1
    <3>3. roleTask' = next
      BY <1>1, <2>2, <3>1
    <3>4. a \in AccountsOf(p)' /\ account[a].email \in Used(p)' /\ tooled'[a] = tooled[a] /\ tooled[a] # NoTools
      BY <1>1, <1>2, <1>4 DEF AccountsOf, Used
    <3> QED BY <1>4, <3>2, <3>3, <3>4 DEF RoleTaskHolds
  <2> QED BY <2>1, <2>2
<1>6. \A b \in roleTasks' : b \in 1..accounts /\ tooled[b] # NoTools
  BY <1>1, <1>2
<1> HIDE DEF AccountInv
<1> QED BY <1>1, <1>3, <1>5, <1>6, RowStepInv

LEMMA RoleTaskDiesInv ==
  ASSUME AccountInv, RoleTaskDies
  PROVE  AccountInv'
<1>1. /\ roleTask' = NoRoleTask /\ roleTasks' = roleTasks
      /\ UNCHANGED <<primary, outrun, account, accounts, tooled, policy>>
      /\ UNCHANGED <<primary, outrun, tooled, policy>>
      /\ UNCHANGED <<call, stream, lastPublished, ssoSync>>
  BY DEF RoleTaskDies
<1>2. \A b \in roleTasks' : b \in 1..accounts /\ tooled[b] # NoTools
  BY <1>1 DEF AccountInv, RolesHold
<1>3. AccountsHold' /\ OwnersStay /\ DOMAIN account' = Account /\ accounts' \in 0..MaxAccounts /\ accounts <= accounts'
  BY <1>1, SameAccounts
<1>4. RoleTaskHolds'
  <2>1. NoRoleTask.at = "idle"
    BY DEF NoRoleTask
  <2> QED BY <1>1, <2>1 DEF RoleTaskHolds
<1> HIDE DEF AccountInv
<1> QED BY <1>1, <1>2, <1>3, <1>4, RowStepInv
\* SSO publishes the address a person uses now.
LEMMA PublishedIs ==
  ASSUME SsoTypes, NEW p \in Person, NEW n \in 1..Len(EmailsOf[p]), Publish(p, n),
         primary' \in [Person -> Nat], FirstEmails(p, primary'[p]) = FirstEmails(p, n)
  PROVE  /\ stream' \in Seq(ProfileRow) /\ Len(stream') = Len(stream) + 1 /\ Len(stream) \in Nat
         /\ \A i \in 1..Len(stream) : stream'[i] = stream[i]
         /\ stream'[Len(stream) + 1] = ProfileOf(p, n)
         /\ KnownProfile(ProfileOf(p, n))'
<1>1. PICK rec : rec = ProfileOf(p, n)
  OBVIOUS
<1>2. rec = [person |-> p, email |-> EmailsOf[p][n], emails |-> FirstEmails(p, n)]
  BY <1>1 DEF ProfileOf
<1>3. EmailsOf[p][n] \in FirstEmails(p, n) /\ FirstEmails(p, n) \subseteq EveryEmail
  <2>1. Len(EmailsOf[p]) \in Nat
    BY EmailsAssumption
  <2>2. EmailsOf[p][n] \in FirstEmails(p, n) /\ FirstEmails(p, n) \subseteq Addresses(p)
    BY <2>1 DEF FirstEmails, Addresses
  <2>3. Addresses(p) \subseteq EveryEmail
    BY DEF EveryEmail
  <2> QED BY <2>2, <2>3
<1>4. rec \in ProfileRow
  BY <1>2, <1>3 DEF ProfileRow
<1>5. rec.person = p /\ rec.email = EmailsOf[p][n] /\ rec.emails = FirstEmails(p, n)
  BY <1>2
<1>6. stream \in Seq(ProfileRow) /\ stream' = Append(stream, rec)
  BY <1>1 DEF SsoTypes, Publish
<1>7. /\ stream' \in Seq(ProfileRow) /\ Len(stream') = Len(stream) + 1 /\ Len(stream) \in Nat
      /\ \A i \in 1..Len(stream) : stream'[i] = stream[i]
      /\ stream'[Len(stream) + 1] = rec
  BY <1>4, <1>6
<1>8. rec.email \in FirstEmails(p, primary'[p]) /\ rec.emails = FirstEmails(p, primary'[p])
  BY <1>3, <1>5
<1>9. KnownProfile(rec)'
  BY <1>5, <1>8 DEF KnownProfile, Used
<1>10. stream'[Len(stream) + 1] = ProfileOf(p, n) /\ KnownProfile(ProfileOf(p, n))'
  BY <1>1, <1>7, <1>9
<1> QED BY <1>7, <1>10

LEMMA FirstPublishInv ==
  ASSUME AccountInv, NEW p \in Person, FirstPublish(p)
  PROVE  AccountInv'
<1>1. /\ UNCHANGED <<primary, outrun, account, accounts, tooled, policy>>
      /\ UNCHANGED <<call, lastPublished, ssoSync, roleTasks, roleTask>> /\ Publish(p, primary[p])
  BY DEF FirstPublish
<1>2. SsoTypes /\ AccountsHold /\ CallsHold /\ RolesHold /\ ToldHaveAccounts
  BY DEF AccountInv
<1>3. PICK n \in 1..Len(EmailsOf[p]) : n = primary[p]
  BY <1>2 DEF SsoTypes
<1>4. /\ stream' \in Seq(ProfileRow) /\ Len(stream') = Len(stream) + 1 /\ Len(stream) \in Nat
      /\ \A i \in 1..Len(stream) : stream'[i] = stream[i]
      /\ stream'[Len(stream) + 1] = ProfileOf(p, n) /\ KnownProfile(ProfileOf(p, n))'
  <2>1. primary' \in [Person -> Nat] /\ FirstEmails(p, primary'[p]) = FirstEmails(p, n) /\ Publish(p, n)
    BY <1>1, <1>2, <1>3 DEF SsoTypes
  <2> QED BY <1>2, <2>1, PublishedIs
<1>5. SsoTypes'
  <2>1. ASSUME NEW i \in 1..Len(stream')
        PROVE  KnownProfile(stream[i])'
    <3>1. PICK rec : rec = ProfileOf(p, n)
      OBVIOUS
    <3>2. CASE i = Len(stream) + 1
      BY <1>4, <3>1, <3>2 DEF KnownProfile
    <3>3. CASE i \in 1..Len(stream)
      <4>1. KnownProfile(stream[i]) /\ stream'[i] = stream[i]
        BY <1>2, <1>4, <3>3 DEF SsoTypes
      <4> QED BY <1>1, <4>1 DEF KnownProfile, Used
    <3> QED BY <1>4, <3>2, <3>3
  <2>2. lastPublished' \in 0..Len(stream') /\ ssoSync' \in 0..(Len(stream') + 1)
    BY <1>1, <1>2, <1>4 DEF SsoTypes
  <2> QED BY <1>1, <1>2, <1>4, <2>1, <2>2 DEF SsoTypes
<1>6. AccountsHold' /\ OwnersStay /\ accounts' \in Nat /\ accounts <= accounts'
  BY <1>1, SameAccounts
<1>7. CallsHold'
  <2> SUFFICES ASSUME NEW d \in Caller
               PROVE  CallHolds(d)'
    BY DEF CallsHold
  <2>1. CallHolds(d) /\ call'[d] = call[d]
    BY <1>1, <1>2 DEF CallsHold
  <2>2. /\ \A a \in 1..accounts : tooled[a] # NoTools => tooled'[a] = tooled[a]
        /\ \A e \in EveryEmail : policy[e] # NoRole => policy'[e] # NoRole
    BY <1>1
  <2>3. UNCHANGED <<primary, outrun>> /\ ssoSync' = ssoSync
    BY <1>1
  <2>4. Len(stream') \in Nat /\ Len(stream) <= Len(stream') /\ \A i \in 1..Len(stream) : stream'[i] = stream[i]
    BY <1>4
  <2> QED BY <1>2, <1>6, <2>1, <2>2, <2>3, <2>4, CallStays
<1>8. RolesHold'
  BY <1>1, <1>2 DEF RolesHold, RoleTaskHolds, PoliciesHold, AccountsOf, Used
<1>9. ToldHaveAccounts'
  <2>1. ASSUME NEW i \in 1..Len(stream'), i <= lastPublished' \/ i < ssoSync'
        PROVE  AccountsOf(stream[i].person)' # {}
    <3>1. i \in 1..Len(stream) /\ (i <= lastPublished \/ i < ssoSync)
      BY <1>1, <1>2, <1>4, <2>1 DEF SsoTypes
    <3>2. AccountsOf(stream[i].person) # {} /\ stream'[i] = stream[i]
      BY <1>2, <1>4, <3>1 DEF ToldHaveAccounts
    <3> QED BY <1>1, <3>2 DEF AccountsOf, Used
  <2> QED BY <2>1 DEF ToldHaveAccounts
<1> QED BY <1>5, <1>6, <1>7, <1>8, <1>9 DEF AccountInv

LEMMA GiveToolsInv ==
  ASSUME AccountInv, NEW a \in 1..accounts, GiveTools(a)
  PROVE  AccountInv'
<1>1. /\ tooled[a] = NoTools /\ tooled' = [tooled EXCEPT ![a] = account[a].sso]
      /\ roleTasks' \subseteq roleTasks \cup {a}
      /\ UNCHANGED <<primary, outrun, account, accounts, policy>>
      /\ UNCHANGED <<call, stream, lastPublished, ssoSync, roleTask>>
  BY DEF GiveTools
<1>2. SsoTypes /\ AccountsHold /\ CallsHold /\ RolesHold /\ ToldHaveAccounts
  BY DEF AccountInv
<1>3. /\ accounts \in Nat /\ 1..accounts \subseteq Account
  BY <1>2, SsoAssumption DEF SsoTypes, Account
<1>4. PICK p \in Person :
         /\ account[a].email \in Used(p) /\ account[a].sso \in {p, UnusedId} /\ RoleIs(a, p, account[a].role)
  BY <1>2 DEF AccountsHold, AccountHolds
<1>5. /\ tooled'[a] = account[a].sso /\ tooled'[a] # NoTools /\ tooled'[a] \in {p, UnusedId}
      /\ \A b \in Account : b # a => tooled'[b] = tooled[b]
      /\ tooled' \in [Account -> Person \cup {UnusedId, NoTools}]
  <2>1. NoTools # p /\ NoTools # UnusedId
    BY SsoAssumption DEF NoTools, UnusedId
  <2> QED BY <1>1, <1>2, <1>3, <1>4, <2>1 DEF SsoTypes
<1>6. OwnersStay
  BY <1>1 DEF OwnersStay
<1>7. SsoTypes'
  BY <1>1, <1>2, <1>5 DEF SsoTypes, KnownProfile, Used
<1>8. AccountsHold'
  <2>1. ASSUME NEW b \in 1..accounts
        PROVE  AccountHolds(b)'
    <3>1. CASE b = a
      <4>1. account[a].role = NoRole
        BY <1>1, <1>4 DEF RoleIs
      <4> QED BY <1>1, <1>4, <1>5, <3>1, <4>1 DEF AccountHolds, RoleIs, Used
    <3>2. CASE b # a
      <4>1. AccountHolds(b) /\ tooled'[b] = tooled[b]
        BY <1>2, <1>3, <1>5, <3>2 DEF AccountsHold
      <4> QED BY <1>1, <4>1 DEF AccountHolds, RoleIs, Used
    <3> QED BY <3>1, <3>2
  <2>2. /\ \A b, d \in 1..accounts' : b # d => /\ account'[b].email # account'[d].email
                                               /\ account'[b].sso # account'[d].sso \/ account'[b].sso = UnusedId
        /\ \A b \in Account : b > accounts' => tooled'[b] = NoTools
    BY <1>1, <1>2, <1>3, <1>5 DEF AccountsHold
  <2>3. \A q \in Person \ outrun' : \A b, d \in AccountsOf(q)' : b = d
    BY <1>1, <1>2 DEF AccountsHold, AccountsOf, Used
  <2> QED BY <1>1, <2>1, <2>2, <2>3 DEF AccountsHold
<1>9. /\ \A b \in 1..accounts : tooled[b] # NoTools => tooled'[b] = tooled[b]
      /\ \A e \in EveryEmail : policy[e] # NoRole => policy'[e] # NoRole
  BY <1>1, <1>3, <1>5
<1>10. CallsHold'
  <2> SUFFICES ASSUME NEW d \in Caller
               PROVE  CallHolds(d)'
    BY DEF CallsHold
  <2>1. CallHolds(d) /\ call'[d] = call[d]
    BY <1>1, <1>2 DEF CallsHold
  <2>2. UNCHANGED <<primary, outrun>> /\ ssoSync' = ssoSync /\ stream' = stream
        /\ accounts' \in Nat /\ accounts <= accounts' /\ Len(stream) \in Nat
    BY <1>1, <1>2, <1>3 DEF SsoTypes
  <2> QED BY <1>2, <1>6, <1>9, <2>1, <2>2, CallStays
<1>11. RoleTaskHolds'
  <2>1. accounts' \in Nat /\ accounts <= accounts' /\ roleTask' = roleTask /\ UNCHANGED primary /\ RoleTaskHolds
    BY <1>1, <1>2, <1>3 DEF RolesHold
  <2> QED BY <1>2, <1>6, <1>9, <2>1, RoleTaskStays
<1>12. PoliciesHold'
  <2>1. ASSUME NEW q \in Person, NEW e \in Addresses(q), policy[e] # NoRole
        PROVE  /\ \E b \in AccountsOf(q) : tooled'[b] # NoTools
               /\ q \notin outrun => \A b \in AccountsOf(q) : tooled'[b] = q => policy[e] = q
    <3>1. PICK b \in AccountsOf(q) : tooled[b] # NoTools
      BY <1>2, <2>1 DEF RolesHold, PoliciesHold
    <3>2. b \in 1..accounts /\ b # a /\ tooled'[b] # NoTools
      BY <1>1, <1>9, <3>1 DEF AccountsOf
    <3>3. q \notin outrun => a \notin AccountsOf(q)
      BY <1>2, <3>1, <3>2 DEF AccountsHold
    <3>4. \A d \in AccountsOf(q) : d \in Account
      BY <1>3 DEF AccountsOf
    <3>5. q \notin outrun => \A d \in AccountsOf(q) : tooled'[d] = tooled[d]
      BY <1>5, <3>3, <3>4
    <3> QED BY <1>2, <2>1, <3>2, <3>5 DEF RolesHold, PoliciesHold
  <2> QED BY <1>1, <2>1 DEF PoliciesHold, AccountsOf, Used
<1>13. RolesHold'
  <2>1. \A b \in roleTasks' : b \in 1..accounts' /\ tooled'[b] # NoTools
    BY <1>1, <1>2, <1>5, <1>9 DEF RolesHold
  <2> QED BY <1>11, <1>12, <2>1 DEF RolesHold
<1>14. ToldHaveAccounts'
  BY <1>1, <1>2 DEF ToldHaveAccounts, AccountsOf, Used
<1> QED BY <1>7, <1>8, <1>10, <1>13, <1>14 DEF AccountInv

LEMMA PutRoleInv ==
  ASSUME AccountInv, PutRole
  PROVE  AccountInv'
<1>1. PICK next : next = [at |-> "save", row |-> roleTask.row, email |-> roleTask.email,
                          sso |-> roleTask.sso]
  OBVIOUS
<1>2. next.at = "save" /\ next.row = roleTask.row /\ next.email = roleTask.email /\ next.sso = roleTask.sso
  BY <1>1
<1>3. /\ roleTask.at # "idle" /\ roleTask' = next
      /\ policy' = [policy EXCEPT ![roleTask.email] = roleTask.sso]
      /\ UNCHANGED <<primary, outrun, account, accounts, tooled>>
      /\ UNCHANGED <<call, stream, lastPublished, ssoSync, roleTasks>>
  BY <1>1 DEF PutRole
<1>4. SsoTypes /\ AccountsHold /\ CallsHold /\ RolesHold /\ ToldHaveAccounts /\ accounts \in Nat
  BY SsoAssumption DEF AccountInv, SsoTypes
<1>5. PICK p \in Person :
         /\ roleTask.row \in AccountsOf(p) /\ roleTask.email \in Used(p)
         /\ roleTask.sso \in {p, UnusedId} /\ (tooled[roleTask.row] = p => roleTask.sso = p)
  BY <1>3, <1>4 DEF RolesHold, RoleTaskHolds
<1>6. tooled[roleTask.row] # NoTools
  BY <1>3, <1>4 DEF RolesHold, RoleTaskHolds
<1>7. roleTask.email \in Addresses(p) /\ roleTask.email \in EveryEmail
  BY <1>4, <1>5, UsedIs
<1>8. /\ policy'[roleTask.email] = roleTask.sso /\ roleTask.sso # NoRole
      /\ \A e \in EveryEmail : e # roleTask.email => policy'[e] = policy[e]
      /\ policy' \in [EveryEmail -> Person \cup {UnusedId, NoRole}]
  <2>1. NoRole # p /\ NoRole # UnusedId
    BY SsoAssumption DEF NoRole, UnusedId
  <2> QED BY <1>3, <1>4, <1>5, <1>7, <2>1 DEF SsoTypes
<1>9. OwnersStay /\ accounts' \in Nat /\ accounts <= accounts'
  BY <1>3, <1>4 DEF OwnersStay
<1>10. /\ \A b \in 1..accounts : tooled[b] # NoTools => tooled'[b] = tooled[b]
       /\ \A e \in EveryEmail : policy[e] # NoRole => policy'[e] # NoRole
  BY <1>3, <1>8
<1>11. SsoTypes'
  BY <1>3, <1>4, <1>8 DEF SsoTypes, KnownProfile, Used
<1>12. AccountsHold'
  <2>1. ASSUME NEW b \in 1..accounts
        PROVE  AccountHolds(b)'
    <3>1. PICK q \in Person :
            /\ account[b].email \in Used(q) /\ account[b].sso \in {q, UnusedId}
            /\ tooled[b] \in {q, UnusedId, NoTools} /\ (tooled[b] = q => account[b].sso = q)
            /\ RoleIs(b, q, account[b].role)
      BY <1>4 DEF AccountsHold, AccountHolds
    <3>2. Used(q) \subseteq EveryEmail
      BY <1>4, UsedIs
    <3>3. RoleIs(b, q, account[b].role)'
      BY <1>3, <1>10, <3>1, <3>2 DEF RoleIs, Used
    <3> QED BY <1>3, <3>1, <3>3 DEF AccountHolds, RoleIs, Used
  <2> QED BY <1>3, <1>4, <2>1 DEF AccountsHold, AccountsOf, Used
<1>13. CallsHold'
  <2> SUFFICES ASSUME NEW d \in Caller
               PROVE  CallHolds(d)'
    BY DEF CallsHold
  <2>1. CallHolds(d) /\ call'[d] = call[d]
    BY <1>3, <1>4 DEF CallsHold
  <2>2. UNCHANGED <<primary, outrun>> /\ ssoSync' = ssoSync /\ stream' = stream /\ Len(stream) \in Nat
    BY <1>3, <1>4 DEF SsoTypes
  <2> QED BY <1>4, <1>9, <1>10, <2>1, <2>2, CallStays
<1>14. RoleTaskHolds'
  <2>1. /\ next.row \in AccountsOf(p)' /\ next.email \in Used(p)' /\ next.sso \in {p, UnusedId}
        /\ tooled'[next.row] = p => next.sso = p
        /\ tooled'[next.row] # NoTools /\ policy'[next.email] # NoRole
    BY <1>2, <1>3, <1>5, <1>6, <1>8 DEF AccountsOf, Used
  <2> QED BY <1>2, <1>3, <2>1 DEF RoleTaskHolds
<1>15. PoliciesHold'
  <2>1. ASSUME NEW q \in Person, NEW e \in Addresses(q), policy'[e] # NoRole
        PROVE  /\ \E b \in AccountsOf(q) : tooled[b] # NoTools
               /\ q \notin outrun => \A b \in AccountsOf(q) : tooled[b] = q => policy'[e] = q
    <3>1. CASE e = roleTask.email
      <4>1. q = p
        BY <1>7, <3>1, EmailsAssumption
      <4>2. q \notin outrun => \A b \in AccountsOf(q) : b = roleTask.row
        BY <1>4, <1>5, <4>1 DEF AccountsHold
      <4> QED BY <1>5, <1>6, <1>8, <3>1, <4>1, <4>2
    <3>2. CASE e # roleTask.email
      <4>1. e \in EveryEmail
        BY DEF EveryEmail
      <4>2. policy'[e] = policy[e]
        BY <1>8, <3>2, <4>1
      <4> QED BY <1>4, <2>1, <4>2 DEF RolesHold, PoliciesHold
    <3> QED BY <3>1, <3>2
  <2> QED BY <1>3, <2>1 DEF PoliciesHold, AccountsOf, Used
<1>16. RolesHold'
  BY <1>3, <1>4, <1>14, <1>15 DEF RolesHold
<1>17. ToldHaveAccounts'
  BY <1>3, <1>4 DEF ToldHaveAccounts, AccountsOf, Used
<1> QED BY <1>11, <1>12, <1>13, <1>16, <1>17 DEF AccountInv
LEMMA ChangeEmailInv ==
  ASSUME AccountInv, NEW p \in Person, ChangeEmail(p)
  PROVE  AccountInv'
<1>1. /\ primary[p] < Len(EmailsOf[p]) /\ primary' = [primary EXCEPT ![p] = @ + 1]
      /\ Publish(p, primary[p] + 1)
      /\ outrun' = (IF InUse(p) THEN outrun \cup {p} ELSE outrun)
      /\ UNCHANGED <<account, accounts, tooled, policy>>
      /\ UNCHANGED <<call, lastPublished, ssoSync, roleTasks, roleTask>>
  BY DEF ChangeEmail
<1>2. SsoTypes /\ AccountsHold /\ CallsHold /\ RolesHold /\ ToldHaveAccounts
  BY DEF AccountInv
<1>3. PICK n \in 1..Len(EmailsOf[p]) : n = primary[p] + 1
  BY <1>1, <1>2, EmailsAssumption DEF SsoTypes
<1>4. /\ primary' \in [Person -> Nat] /\ primary'[p] = n /\ \A q \in Person : q # p => primary'[q] = primary[q]
      /\ \A q \in Person : primary'[q] \in 1..Len(EmailsOf[q])
  BY <1>1, <1>2, <1>3, EmailsAssumption DEF SsoTypes
<1>5. /\ stream' \in Seq(ProfileRow) /\ Len(stream') = Len(stream) + 1 /\ Len(stream) \in Nat
      /\ \A i \in 1..Len(stream) : stream'[i] = stream[i]
      /\ stream'[Len(stream) + 1] = ProfileOf(p, n) /\ KnownProfile(ProfileOf(p, n))'
  <2>1. FirstEmails(p, primary'[p]) = FirstEmails(p, n) /\ Publish(p, n)
    BY <1>1, <1>3, <1>4
  <2> QED BY <1>2, <1>4, <2>1, PublishedIs
<1>6. \A q \in Person : /\ Used(q) \subseteq FirstEmails(q, primary'[q])
                        /\ FirstEmails(q, primary'[q]) \subseteq Addresses(q)
                        /\ q # p => FirstEmails(q, primary'[q]) = Used(q)
  <2>1. \A q \in Person : /\ primary[q] \in Nat /\ primary'[q] \in Nat /\ Len(EmailsOf[q]) \in Nat
                          /\ primary[q] <= primary'[q] /\ primary'[q] <= Len(EmailsOf[q])
    <3>1. primary \in [Person -> Nat] /\ \A q \in Person : primary[q] \in 1..Len(EmailsOf[q])
      BY <1>2 DEF SsoTypes
    <3>2. \A q \in Person : Len(EmailsOf[q]) \in Nat
      BY EmailsAssumption
    <3>3. n = primary[p] + 1 /\ primary[p] \in Nat
      BY <1>3, <3>1
    <3> QED BY <1>4, <3>1, <3>2, <3>3
  <2>2. \A q \in Person : /\ Used(q) \subseteq FirstEmails(q, primary'[q])
                          /\ FirstEmails(q, primary'[q]) \subseteq Addresses(q)
    BY <2>1 DEF Used, Addresses, FirstEmails
  <2> QED BY <1>4, <2>2 DEF Used
\* No account has the new address.
<1>7. ASSUME NEW q \in Person, NEW a \in 1..accounts
      PROVE  account[a].email \in FirstEmails(q, primary'[q]) <=> account[a].email \in Used(q)
  <2>1. PICK o \in Person : account[a].email \in Used(o)
    BY <1>2 DEF AccountsHold, AccountHolds
  <2>2. o # q => Addresses(o) \cap Addresses(q) = {}
    BY EmailsAssumption
  <2>3. Used(o) \subseteq Addresses(o)
    BY <1>2, UsedIs
  <2> QED BY <1>6, <2>1, <2>2, <2>3
<1>8. /\ outrun' \subseteq Person /\ outrun \subseteq outrun'
      /\ p \notin outrun' => /\ \A c \in Caller : call[c].at # "idle" => call[c].who.person # p
                             /\ \A i \in 1..Len(stream) : stream[i].person # p
  BY <1>1, <1>2 DEF InUse, SsoTypes
\* What knew of the person before the address changed.
<1>9. ASSUME NEW who, KnownProfile(who), who.person \notin outrun' => who.person # p
      PROVE  KnownProfile(who)'
  BY <1>6, <1>8, <1>9 DEF KnownProfile, Used
<1>10. SsoTypes'
  <2>1. ASSUME NEW i \in 1..Len(stream')
        PROVE  KnownProfile(stream[i])'
    <3>1. PICK rec : rec = ProfileOf(p, n)
      OBVIOUS
    <3>2. CASE i = Len(stream) + 1
      BY <1>5, <3>1, <3>2 DEF KnownProfile
    <3>3. CASE i \in 1..Len(stream)
      <4>1. PICK rec2 : rec2 = stream[i]
        OBVIOUS
      <4>2. KnownProfile(rec2) /\ stream'[i] = rec2 /\ (rec2.person \notin outrun' => rec2.person # p)
        BY <1>2, <1>5, <1>8, <3>3, <4>1 DEF SsoTypes
      <4>3. KnownProfile(rec2)'
        BY <1>9, <4>2
      <4> QED BY <4>2, <4>3 DEF KnownProfile
    <3> QED BY <1>5, <3>2, <3>3
  <2>2. lastPublished' \in 0..Len(stream') /\ ssoSync' \in 0..(Len(stream') + 1)
    BY <1>1, <1>2, <1>5 DEF SsoTypes
  <2>3. \A q \in Person : primary'[q] \in 1..Len(EmailsOf[q])
    BY <1>4
  <2> QED BY <1>1, <1>2, <1>4, <1>5, <1>8, <2>1, <2>2, <2>3 DEF SsoTypes
<1>11. AccountsHold'
  <2>1. ASSUME NEW a \in 1..accounts
        PROVE  AccountHolds(a)'
    <3>1. PICK q \in Person :
            /\ account[a].email \in Used(q) /\ account[a].sso \in {q, UnusedId}
            /\ tooled[a] \in {q, UnusedId, NoTools} /\ (tooled[a] = q => account[a].sso = q)
            /\ RoleIs(a, q, account[a].role)
      BY <1>2 DEF AccountsHold, AccountHolds
    <3>2. RoleIs(a, q, account[a].role)' /\ account[a].email \in Used(q)'
      BY <1>1, <1>6, <3>1 DEF RoleIs, Used
    <3> QED BY <1>1, <3>1, <3>2 DEF AccountHolds, RoleIs, Used
  <2>2. ASSUME NEW q \in Person \ outrun', NEW a \in 1..accounts, NEW b \in 1..accounts,
               account[a].email \in FirstEmails(q, primary'[q]), account[b].email \in FirstEmails(q, primary'[q])
        PROVE  a = b
    BY <1>2, <1>7, <1>8, <2>2 DEF AccountsHold, AccountsOf
  <2>3. \A q \in Person \ outrun' : \A a, b \in AccountsOf(q)' : a = b
    BY <1>1, <2>2 DEF AccountsOf, Used
  <2>4. /\ \A a, b \in 1..accounts' : a # b => /\ account'[a].email # account'[b].email
                                               /\ account'[a].sso # account'[b].sso \/ account'[a].sso = UnusedId
        /\ \A a \in Account : a > accounts' => tooled'[a] = NoTools
    BY <1>1, <1>2 DEF AccountsHold
  <2> QED BY <1>1, <2>1, <2>3, <2>4 DEF AccountsHold
<1>12. CallsHold'
  <2> SUFFICES ASSUME NEW c \in Caller, call[c].at # "idle"
               PROVE  CallHolds(c)'
    BY <1>1 DEF CallsHold, CallHolds
  <2>1. PICK who : who = call[c].who
    OBVIOUS
  <2>2. PICK u : u = call[c]
    OBVIOUS
  <2>3. /\ u.at \in {"look", "create", "claim", "update"} /\ KnownProfile(who) /\ who.person \in Person
        /\ c \in SyncTask => ssoSync \in 1..Len(stream) /\ who = stream[ssoSync]
        /\ u.at \in {"claim", "update"} =>
             /\ u.row \in AccountsOf(who.person) /\ u.email \in Used(who.person)
             /\ u.sso \in {who.person, IF u.at = "claim" THEN UnusedId ELSE Unread}
             /\ u.sso # Unread => RoleIs(u.row, who.person, u.role)
    BY <1>2, <2>1, <2>2 DEF CallsHold, CallHolds, KnownProfile
  <2>4. KnownProfile(who)'
    BY <1>8, <1>9, <2>1, <2>3
  <2>5. c \in SyncTask => ssoSync' \in 1..Len(stream') /\ who = stream'[ssoSync']
    BY <1>1, <1>5, <2>3
  <2>6. u.at \in {"claim", "update"} =>
             /\ u.row \in AccountsOf(who.person)' /\ u.email \in Used(who.person)'
             /\ u.sso # Unread => RoleIs(u.row, who.person, u.role)'
    BY <1>1, <1>6, <1>7, <2>3 DEF AccountsOf, Used, RoleIs
  <2>7. call'[c] = u /\ u.who = who
    BY <1>1, <2>1, <2>2
  <2> QED BY <2>3, <2>4, <2>5, <2>6, <2>7 DEF CallHolds
<1>13. RoleTaskHolds'
  <2> SUFFICES ASSUME roleTask.at # "idle"
               PROVE  RoleTaskHolds'
    BY <1>1 DEF RoleTaskHolds
  <2>1. PICK q \in Person :
           /\ roleTask.row \in AccountsOf(q) /\ roleTask.email \in Used(q)
           /\ roleTask.sso \in {q, UnusedId} /\ (tooled[roleTask.row] = q => roleTask.sso = q)
    BY <1>2 DEF RolesHold, RoleTaskHolds
  <2>2. /\ roleTask.at \in {"aws", "save"} /\ tooled[roleTask.row] # NoTools
        /\ roleTask.at = "save" => policy[roleTask.email] # NoRole
    BY <1>2 DEF RolesHold, RoleTaskHolds
  <2>3. roleTask.row \in AccountsOf(q)' /\ roleTask.email \in Used(q)'
    BY <1>1, <1>6, <1>7, <2>1 DEF AccountsOf, Used
  <2> QED BY <1>1, <2>1, <2>2, <2>3 DEF RoleTaskHolds
<1>14. PoliciesHold'
  <2>1. ASSUME NEW q \in Person, NEW e \in Addresses(q), policy[e] # NoRole
        PROVE  /\ \E a \in AccountsOf(q)' : tooled[a] # NoTools
               /\ q \notin outrun' => \A a \in AccountsOf(q)' : tooled[a] = q => policy[e] = q
    <3>1. AccountsOf(q)' = AccountsOf(q)
      BY <1>1, <1>7 DEF AccountsOf, Used
    <3> QED BY <1>2, <1>8, <2>1, <3>1 DEF RolesHold, PoliciesHold
  <2> QED BY <1>1, <2>1 DEF PoliciesHold
<1>15. RolesHold'
  BY <1>1, <1>2, <1>13, <1>14 DEF RolesHold
<1>16. ToldHaveAccounts'
  <2>1. ASSUME NEW i \in 1..Len(stream'), i <= lastPublished' \/ i < ssoSync'
        PROVE  AccountsOf(stream[i].person)' # {}
    <3>1. i \in 1..Len(stream) /\ (i <= lastPublished \/ i < ssoSync)
      BY <1>1, <1>2, <1>5, <2>1 DEF SsoTypes
    <3>2. PICK q \in Person : q = stream[i].person
      BY <1>2, <3>1 DEF SsoTypes, KnownProfile
    <3>3. AccountsOf(q) # {} /\ stream'[i].person = q
      BY <1>2, <1>5, <3>1, <3>2 DEF ToldHaveAccounts
    <3>4. AccountsOf(q)' # {}
      BY <1>1, <1>7, <3>3 DEF AccountsOf, Used
    <3> QED BY <3>3, <3>4 DEF AccountsOf, Used
  <2> QED BY <2>1 DEF ToldHaveAccounts
<1> QED BY <1>10, <1>11, <1>12, <1>15, <1>16 DEF AccountInv
LEMMA AccountsFromTheStart ==
  ASSUME SsoInit
  PROVE  AccountInv
<1>1. /\ primary = [p \in Person |-> 1] /\ outrun = {} /\ accounts = 0
      /\ DOMAIN account = Account /\ tooled = [a \in Account |-> NoTools]
      /\ call = [c \in Caller |-> NotCalled] /\ stream = <<>> /\ lastPublished = 0
      /\ ssoSync = 0 /\ roleTasks = {} /\ roleTask = NoRoleTask
      /\ policy = [e \in EveryEmail |-> NoRole]
  BY DEF SsoInit
<1>2. NotCalled.at = "idle"
  BY DEF NotCalled
<1>3. NoRoleTask.at = "idle"
  BY DEF NoRoleTask
<1>4. SsoTypes
  <2>1. \A p \in Person : 1 \in 1..Len(EmailsOf[p])
    BY EmailsAssumption
  <2>2. stream \in Seq(ProfileRow) /\ Len(stream) = 0
    BY <1>1
  <2>3. accounts \in 0..MaxAccounts
    BY <1>1, SsoAssumption
  <2> QED BY <1>1, <2>1, <2>2, <2>3 DEF SsoTypes
<1>5. 1..accounts = {} /\ Len(stream) = 0
  BY <1>1
<1>6. AccountsHold
  BY <1>1, <1>5 DEF AccountsHold, AccountsOf
<1>7. CallsHold
  BY <1>1, <1>2 DEF CallsHold, CallHolds
<1>8. RolesHold
  <2>1. \A p \in Person : Addresses(p) \subseteq EveryEmail
    BY DEF EveryEmail
  <2>2. PoliciesHold
    BY <1>1, <2>1 DEF PoliciesHold
  <2> QED BY <1>1, <1>3, <2>2 DEF RolesHold, RoleTaskHolds
<1>9. ToldHaveAccounts
  BY <1>5 DEF ToldHaveAccounts
<1> QED BY <1>4, <1>6, <1>7, <1>8, <1>9 DEF AccountInv

LEMMA AccountsStutter ==
  ASSUME AccountInv, UNCHANGED ssoVars
  PROVE  AccountInv'
<1>1. /\ UNCHANGED <<primary, outrun, account, accounts, tooled, call>>
      /\ UNCHANGED <<stream, lastPublished, ssoSync, roleTasks, roleTask, policy>>
  BY DEF ssoVars
<1>2. SsoTypes'
  BY <1>1 DEF AccountInv, SsoTypes, KnownProfile, Used
<1>3. AccountsHold'
  BY <1>1 DEF AccountInv, AccountsHold, AccountHolds, RoleIs, AccountsOf, Used
<1>4. CallsHold'
  BY <1>1 DEF AccountInv, CallsHold, CallHolds, KnownProfile, RoleIs, AccountsOf, Used
<1>5. RolesHold'
  BY <1>1 DEF AccountInv, RolesHold, RoleTaskHolds, PoliciesHold, AccountsOf, Used
<1>6. ToldHaveAccounts'
  BY <1>1 DEF AccountInv, ToldHaveAccounts, AccountsOf, Used
<1> QED BY <1>2, <1>3, <1>4, <1>5, <1>6 DEF AccountInv

LEMMA AccountStepInv ==
  ASSUME AccountInv, [SsoNext]_ssoVars
  PROVE  AccountInv'
<1> HIDE DEF AccountInv
<1>1. CASE UNCHANGED ssoVars
  BY <1>1, AccountsStutter
<1>2. ASSUME NEW c \in Caller, CallStep(c)
      PROVE  AccountInv'
  <2>1. CASE \E p \in Person : ViewPage(c, p)
    BY <2>1, ViewPageInv
  <2>2. CASE LookUp(c)
    BY <2>2, LookUpInv
  <2>3. CASE GetOrCreate(c)
    BY <2>3, GetOrCreateInv
  <2>4. CASE Claim(c)
    BY <2>4, ClaimInv
  <2>5. CASE Update(c)
    BY <2>5, UpdateInv
  <2>6. CASE SyncStarts(c)
    BY <2>6, SyncStartsInv
  <2>7. CASE SyncRecord(c)
    BY <2>7, SyncRecordInv
  <2>8. CASE SyncEnds(c)
    BY <2>8, SyncEndsInv
  <2>9. CASE SyncDies(c)
    BY <2>9, SyncDiesInv
  <2> QED BY <1>2, <2>1, <2>2, <2>3, <2>4, <2>5, <2>6, <2>7, <2>8, <2>9 DEF CallStep
<1>3. ASSUME NEW p \in Person, FirstPublish(p) \/ ChangeEmail(p) \/ CreateUser(p)
      PROVE  AccountInv'
  BY <1>3, FirstPublishInv, ChangeEmailInv, CreateUserInv
<1>4. ASSUME NEW a \in 1..accounts, GiveTools(a) \/ RoleTaskStarts(a)
      PROVE  AccountInv'
  BY <1>4, GiveToolsInv, RoleTaskStartsInv
<1>5. CASE PutRole \/ SaveRole \/ RoleTaskDies
  BY <1>5, PutRoleInv, SaveRoleInv, RoleTaskDiesInv
<1> QED BY <1>1, <1>2, <1>3, <1>4, <1>5 DEF SsoNext

\* The invariant says what is promised of the accounts.
LEMMA AccountsArePromised ==
  ASSUME AccountInv
  PROVE  AccountSafety
<1>1. SsoTypes /\ AccountsHold /\ RolesHold /\ ToldHaveAccounts
  BY DEF AccountInv
<1>2. SsoTypeOK
  BY <1>1 DEF SsoTypes, AccountsHold, SsoTypeOK
<1>3. ASSUME NEW p \in Person
      PROVE  ByEmail(Addresses(p)) = AccountsOf(p)
  <2>1. Used(p) \subseteq Addresses(p)
    BY <1>1, UsedIs
  <2>2. ASSUME NEW a \in 1..accounts, account[a].email \in Addresses(p)
        PROVE  account[a].email \in Used(p)
    <3>1. PICK q \in Person : account[a].email \in Used(q)
      BY <1>1 DEF AccountsHold, AccountHolds
    <3>2. account[a].email \in Addresses(q)
      BY <1>1, <3>1, UsedIs
    <3>3. q = p
      BY <2>2, <3>2, EmailsAssumption
    <3> QED BY <3>1, <3>3
  <2> QED BY <2>1, <2>2 DEF ByEmail, AccountsOf
<1>4. OneAccountEach
  <2> SUFFICES ASSUME NEW p \in Person \ outrun
               PROVE  Cardinality(ByEmail(Addresses(p)) \cup BySso(p)) <= 1
    BY DEF OneAccountEach
  <2>1. PICK S : S = ByEmail(Addresses(p)) \cup BySso(p)
    OBVIOUS
  <2>2. S \subseteq AccountsOf(p)
    BY <1>3, <2>1, OwnerIs
  <2>3. \A a, b \in S : a = b
    BY <1>1, <2>2 DEF AccountsHold
  <2>4. CASE S = {}
    BY <2>1, <2>4, FS_EmptySet
  <2>5. CASE S # {}
    <3>1. PICK a : S = {a}
      BY <2>3, <2>5
    <3>2. Cardinality({a}) = 1
      BY FS_Singleton
    <3> QED BY <2>1, <3>1, <3>2
  <2> QED BY <2>4, <2>5
<1>5. PublishedUsersHaveAccounts
  <2> SUFFICES ASSUME NEW i \in 1..lastPublished
               PROVE  ByEmail(Addresses(stream[i].person)) # {}
    BY DEF PublishedUsersHaveAccounts
  <2>1. i \in 1..Len(stream) /\ i <= lastPublished
    BY <1>1 DEF SsoTypes
  <2>2. AccountsOf(stream[i].person) # {} /\ stream[i].person \in Person
    BY <1>1, <2>1 DEF ToldHaveAccounts, SsoTypes, KnownProfile
  <2> QED BY <1>3, <2>2
<1>6. RolesHavePolicies
  <2> SUFFICES ASSUME NEW a \in 1..accounts, account[a].role # NoRole
               PROVE  policy[account[a].role] \in IF tooled[a] \in {UnusedId} \cup outrun
                                                  THEN Person \cup {UnusedId} ELSE {tooled[a]}
    BY DEF RolesHavePolicies
  <2>1. PICK p \in Person :
          /\ account[a].email \in Used(p) /\ tooled[a] \in {p, UnusedId, NoTools}
          /\ RoleIs(a, p, account[a].role)
    BY <1>1 DEF AccountsHold, AccountHolds
  <2>2. /\ account[a].role \in Used(p) /\ policy[account[a].role] # NoRole
        /\ tooled[a] \in {p, UnusedId} /\ a \in AccountsOf(p)
    BY <2>1 DEF RoleIs, AccountsOf
  <2>3. account[a].role \in Addresses(p) /\ account[a].role \in EveryEmail
    BY <1>1, <2>2, UsedIs
  <2>4. policy[account[a].role] \in Person \cup {UnusedId}
    BY <1>1, <2>2, <2>3 DEF SsoTypes
  <2>5. tooled[a] = p /\ p \notin outrun => policy[account[a].role] = p
    BY <1>1, <2>2, <2>3 DEF RolesHold, PoliciesHold
  <2> QED BY <2>2, <2>4, <2>5
<1> QED BY <1>2, <1>4, <1>5, <1>6 DEF AccountSafety

\* However pages, the synchronisation with the activity stream, administrators and the
\* tasks that make roles interleave, each person has one account, everybody a finished
\* synchronisation was told of has one, and the role of an account has the policy of its
\* person (create_user_from_sso, create_tools_access_iam_role).
THEOREM AccountsFollowSso == SsoSpec => []AccountSafety
<1>1. SsoInit => AccountInv
  BY AccountsFromTheStart
<1>2. AccountInv /\ [SsoNext]_ssoVars => AccountInv'
  BY AccountStepInv
<1>3. AccountInv => AccountSafety
  BY AccountsArePromised
<1> QED BY <1>1, <1>2, <1>3, PTL DEF SsoSpec
=====================================================================================

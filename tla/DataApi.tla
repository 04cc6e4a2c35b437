-------------------------------- MODULE DataApi --------------------------------
(***************************************************************************)
(* The API Data Flow ingests from (apps/api_v1): a list pulled page by     *)
(* page while it changes.  "table" and "reference" are keyed by their      *)
(* primary key and cut off at a number of bytes, "catalogue" is numbered   *)
(* by page, "events" (the event log, the tool queries, the users, the      *)
(* instances) goes on after a cursor.  Each request carries a Hawk header  *)
(* (proxy.py), that is accepted once.  Data Flow and the REST framework    *)
(* are external: a pull follows "next", and asks again for a page it lost. *)
(***************************************************************************)
EXTENDS Integers, FiniteSets

CONSTANTS LastKey,        \* bound on the keys, dates or ids of a list
          ApiPage,        \* items on a page of the framework
          MaxApiPages,    \* bound on the pages asked for
          Nonce,          \* requests that are signed
          LastTick,       \* bound on the clock, in ticks of 15 seconds
          NonceTicks      \* how long a nonce is remembered

VARIABLES listed,     \* keys of the rows, dates or ids of the items, that can be read
          stamped,    \* dates or ids given to rows that are not committed
          pull,       \* what is pulled: [api, at, after, number, page, more]
          got,        \* key -> how often the pull got it
          steady,     \* keys listed ever since the pull began
          shifted,    \* the list changed other than at its end since the pull began
          bent,       \* the pull went on after an earlier ("back"), a later key ("far") than it got
          apiPages,   \* pages asked for
          hawk        \* [tick, and of each request when it was sent, seen, how often accepted]

ASSUME ApiAssumption ==
  /\ LastKey \in Nat /\ ApiPage \in Nat \ {0} /\ MaxApiPages \in Nat
  /\ NonceTicks \in Nat /\ NonceTicks > 2   \* 60 seconds, and headers of 15 before and after

apiVars == <<listed, stamped, pull, got, steady, shifted, bent, apiPages, hawk>>
listVars == <<listed, stamped, steady, shifted, bent>>
ApiKey == 1..LastKey
Api == {"table", "reference", "catalogue", "events"}
NoPull == [api |-> "none", at |-> "none", after |-> 0, number |-> 1,
           page |-> {}, more |-> FALSE]

ApiInit ==
  /\ listed = {} /\ stamped = {} /\ pull = NoPull
  /\ got = [k \in ApiKey |-> 0] /\ steady = {} /\ shifted = FALSE /\ bent = {}
  /\ apiPages = 0
  /\ hawk = [tick |-> 1, sent |-> [n \in Nonce |-> 0], seen |-> [n \in Nonce |-> 0],
             ok |-> [n \in Nonce |-> 0]]

-----------------------------------------------------------------------------
(* The lists.  Dates and ids grow, and are given before the row can be      *)
(* read; the keys of a table come in any order.                             *)

Highest(s) == CHOOSE k \in s \cup {0} : \A l \in s : l <= k
Stamp ==
  /\ pull.api # "table" /\ Highest(listed \cup stamped \cup steady) < LastKey
  /\ stamped' = stamped \cup {Highest(listed \cup stamped \cup steady) + 1}
  /\ UNCHANGED <<listed, pull, got, steady, shifted, bent, apiPages>>
AddRow ==
  /\ \E k \in IF pull.api = "table" THEN ApiKey \ listed ELSE stamped :
       /\ listed' = listed \cup {k} /\ stamped' = stamped \ {k}
       /\ shifted' = (shifted \/ k < Highest(listed))
  /\ UNCHANGED <<pull, got, steady, bent, apiPages>>
RemoveRow ==
  /\ \E k \in listed : listed' = listed \ {k} /\ steady' = steady \ {k}
  /\ shifted' = TRUE
  /\ UNCHANGED <<stamped, pull, got, bent, apiPages>>

-----------------------------------------------------------------------------
(* A page.  The columns of a table are read in a transaction of their own,  *)
(* then its rows through one cursor, that reads what was there when it was  *)
(* opened: the bytes of the rows say how many fit.                          *)

PullTo(at, after, number, page, more) ==
  pull' = [api |-> pull.api, at |-> at, after |-> after, number |-> number,
           page |-> page, more |-> more]
BeginPull(api) ==
  /\ pull.at = "none"
  /\ pull' = [api |-> api, at |-> "ask", after |-> 0, number |-> 1, page |-> {}, more |-> FALSE]
  /\ got' = [k \in ApiKey |-> 0] /\ steady' = listed /\ shifted' = FALSE /\ bent' = {}
  /\ UNCHANGED <<listed, stamped, apiPages>>

\* Mutant: the rows from the key on that ended the page before.
AfterKeyInclusive(k) == {l \in listed : l >= k}
AfterKey(k) == {l \in listed : l > k}
FirstOf(s, n) == {k \in s : Cardinality({l \in s : l < k}) < n}
\* The items on page n of those in the order of their dates.
Numbered(n) == FirstOf(listed, n * ApiPage) \ FirstOf(listed, (n - 1) * ApiPage)

\* A request: the view looks up the key and the columns, or reads the page of the framework, that is not
\* found when nothing is on a page that is numbered.
AskPage ==
  /\ pull.at = "ask" /\ apiPages < MaxApiPages /\ apiPages' = apiPages + 1
  /\ LET rest == IF pull.api = "catalogue" THEN Numbered(pull.number) ELSE AfterKey(pull.after)
         page == IF pull.api = "catalogue" THEN rest ELSE FirstOf(rest, ApiPage)
         more == IF pull.api = "catalogue"
                 THEN Cardinality(listed) > pull.number * ApiPage ELSE page # rest
     IN /\ (pull.api = "catalogue" /\ pull.number > 1 => rest # {})
        /\ IF pull.api \in {"table", "reference"}
           THEN PullTo("open", pull.after, pull.number, {}, pull.more)
           ELSE PullTo("page", pull.after, pull.number, page, more)
  /\ UNCHANGED <<listVars, got>>
\* A page of rows ends after the row with which there are too many bytes, or
\* when there is no other: then "next" is null.
ReadRows ==
  /\ pull.at = "open"
  /\ LET rest == AfterKey(pull.after) IN
     \E n \in 1..LastKey, cut \in BOOLEAN :
       /\ (~cut => n >= Cardinality(rest)) /\ (cut => rest # {})
       /\ PullTo("page", pull.after, pull.number, FirstOf(rest, n), cut)
  /\ UNCHANGED <<listVars, got, apiPages>>

\* Where the position comes back from the link.  A cursor and a number come back as they
\* are.  The key of a table is put into the link as it is, $searchAfter= and its text, and
\* read as a query string: a +, a # or a % makes it another text, that stands anywhere
\* among the keys, and an & or a quote makes a link (-1) that nothing can be asked with.
ReadBack(k) == IF pull.api = "table" THEN -1..LastKey ELSE {k}
\* The position of the last row goes into the link; a number goes up by one.
GotPage ==
  /\ pull.at = "page" /\ ~(pull.api = "reference" /\ pull.more)
  /\ got' = [k \in ApiKey |-> IF k \in pull.page THEN got[k] + 1 ELSE got[k]]
  /\ \/ /\ ~pull.more
        /\ PullTo("ended", pull.after, pull.number, {}, FALSE)
        /\ bent' = bent
     \/ /\ pull.more
        /\ \E k \in ReadBack(Highest(pull.page)) :
             /\ IF k = -1 THEN PullTo("broken", pull.after, pull.number, {}, TRUE)
                ELSE PullTo("ask", k, pull.number + 1, {}, TRUE)
             /\ bent' = bent \cup {w \in {"back"} : k < Highest(pull.page)}
                             \cup {w \in {"far"} : k > Highest(pull.page)}
  /\ UNCHANGED <<listed, stamped, steady, shifted, apiPages>>
\* The connection breaks, a page that is no longer there is not found, or the page
\* of a reference dataset has too many bytes: the key it would go on after is
\* looked up letter by letter.  The page is asked for again.
LosePage ==
  /\ pull.at \in {"open", "page"}
  /\ PullTo("ask", pull.after, pull.number, {}, pull.more)
  /\ UNCHANGED <<listVars, got, apiPages>>
ForgetPull ==
  /\ pull.at \in {"ask", "ended", "broken"} /\ pull' = NoPull
  /\ got' = [k \in ApiKey |-> 0] /\ UNCHANGED <<listVars, apiPages>>

ApiLists ==
  \/ Stamp \/ AddRow \/ RemoveRow
  \/ \E api \in Api : BeginPull(api)
  \/ AskPage \/ ReadRows \/ GotPage \/ LosePage \/ ForgetPull

-----------------------------------------------------------------------------
(* The Hawk header of a request, noted in Redis.                            *)

\* SET ... EX 60 NX: the nonce was seen, and has not expired.
Remembers(n) == hawk.seen[n] # 0 /\ hawk.tick < hawk.seen[n] + NonceTicks
\* The header is of this window, and its nonce was not seen: it is noted in any case.
Accepts(n) == /\ hawk.sent[n] # 0 /\ hawk.sent[n] - hawk.tick \in -1..1
              /\ ~Remembers(n)
Note(n) == hawk' = [tick |-> hawk.tick, sent |-> hawk.sent,
                    seen |-> [hawk.seen EXCEPT ![n] = hawk.tick],
                    ok |-> [hawk.ok EXCEPT ![n] = @ + 1]]

\* The client signs a request, with a clock that is up to 15 seconds off.
SignRequest ==
  /\ \E n \in Nonce, t \in {hawk.tick - 1, hawk.tick, hawk.tick + 1} \ {0} :
       hawk.sent[n] = 0 /\ hawk' = [hawk EXCEPT !.sent[n] = t]
\* It is delivered once, not at all, or again by whatever is in between.
DeliverRequest == \E n \in Nonce : Accepts(n) /\ Note(n)
ApiTick == hawk.tick < LastTick /\ hawk' = [hawk EXCEPT !.tick = @ + 1]
ApiHawk == SignRequest \/ DeliverRequest \/ ApiTick

ApiNext ==
  \/ ApiLists /\ UNCHANGED hawk
  \/ ApiHawk /\ UNCHANGED <<listVars, pull, got, apiPages>>
ApiSpec == ApiInit /\ [][ApiNext]_apiVars

-----------------------------------------------------------------------------
\* The state is well formed; a page is taken from a pull that is not over.
ApiTypeOK ==
  /\ listed \subseteq ApiKey /\ stamped \subseteq ApiKey /\ steady \subseteq listed
  /\ shifted \in BOOLEAN /\ bent \subseteq {"back", "far"} /\ apiPages \in 0..MaxApiPages
  /\ pull.api \in Api \cup {"none"} /\ (pull.more => pull.at # "none")
  /\ pull.at \in {"none", "ask", "open", "page", "ended", "broken"}
  /\ pull.after \in 0..LastKey /\ pull.page \subseteq ApiKey /\ (pull.page # {} => pull.at = "page")

\* A pull that is complete got every row that was there all the time, and got no
\* row twice, whatever was added, removed, lost and asked for again meanwhile
\* (_get_streaming_http_response, "where (key) > (key) order by key").  Pages that
\* are numbered are promised this only while the list changes at its end only
\* (CatalogueItemsInstanceViewSet orders by created_date: new items are on the last
\* page, unless one made before another is committed after it).  The key of a table
\* is not escaped in the link to the next page: one that is read back as an earlier text
\* makes the pull get rows again, one that is read back as a later text makes it miss
\* rows, and neither does the other.
PullIsWhole ==
  ~(pull.api = "catalogue" /\ shifted) =>
     /\ "back" \notin bent => \A k \in ApiKey : got[k] <= 1
     /\ pull.at = "ended" /\ "far" \notin bent => \A k \in steady : got[k] > 0

\* A signed request is acted upon once, however often it arrives and whatever the
\* clock of the client: a nonce is remembered for longer than its header is of
\* this time (authenticate_by_hawk_auth, seen_nonce).
HawkOnce == \A n \in Nonce : hawk.ok[n] <= 1

(***************************************************************************)
(* The strengthening.  A pull by keys has got the steady rows up to the    *)
(* key it goes on after; one by numbers, while the list changes at its end *)
(* only, the items of the pages before; a nonce that was accepted was      *)
(* noted within a tick of when its request was signed.                     *)
(***************************************************************************)
ApiTypes ==
  /\ listed \subseteq ApiKey /\ stamped \subseteq ApiKey /\ listed \cap stamped = {}
  /\ steady \subseteq listed /\ shifted \in BOOLEAN /\ bent \in SUBSET {"back", "far"}
  /\ apiPages \in 0..MaxApiPages
  /\ got \in [ApiKey -> Nat]
  /\ pull \in [api : Api \cup {"none"}, at : {"none", "ask", "open", "page", "ended", "broken"},
               after : 0..LastKey, number : Nat \ {0}, page : SUBSET ApiKey, more : BOOLEAN]
  /\ pull.at # "page" => pull.page = {}
  /\ pull.at = "none" => pull = NoPull
  /\ pull.api = "catalogue" => pull.at # "open"
PullByKey ==
  pull.api # "catalogue" =>
    /\ "back" \notin bent => /\ \A k \in ApiKey : got[k] <= 1
                             /\ pull.at \notin {"ended", "broken"} =>
                                  \A k \in ApiKey : pull.after < k => got[k] = 0
    /\ "far" \notin bent => /\ pull.at \notin {"ended", "broken"} =>
                                 \A k \in steady : k <= pull.after => got[k] > 0
                            /\ pull.at = "ended" => \A k \in steady : got[k] > 0
    /\ pull.at = "page" =>
         /\ pull.more => pull.page # {}
         /\ \A k \in pull.page : pull.after < k
         /\ \A k \in steady : pull.after < k /\ (pull.more => k <= Highest(pull.page)) => k \in pull.page
Before(n) == FirstOf(listed, (n - 1) * ApiPage)
PullByNumber ==
  pull.api = "catalogue" /\ ~shifted =>
    /\ pull.at # "ended" =>
         /\ (pull.number - 1) * ApiPage <= Cardinality(listed)
         /\ \A k \in ApiKey : got[k] = IF k \in Before(pull.number) THEN 1 ELSE 0
    /\ pull.at = "page" =>
         /\ pull.page \cap Before(pull.number) = {}
         /\ IF pull.more THEN /\ pull.number * ApiPage <= Cardinality(listed)
                              /\ pull.page = Numbered(pull.number)
            ELSE steady \ Before(pull.number) \subseteq pull.page
    /\ pull.at = "ended" => (\A k \in ApiKey : got[k] <= 1) /\ \A k \in steady : got[k] = 1
HawkNoted ==
  /\ hawk \in [tick : Nat \ {0}, sent : [Nonce -> Nat], seen : [Nonce -> Nat], ok : [Nonce -> Nat]]
  /\ \A n \in Nonce :
       /\ hawk.ok[n] <= 1 /\ (hawk.ok[n] = 0 <=> hawk.seen[n] = 0) /\ hawk.seen[n] <= hawk.tick
       /\ hawk.seen[n] # 0 => /\ hawk.sent[n] # 0 /\ hawk.sent[n] <= hawk.seen[n] + 1
                              /\ hawk.seen[n] <= hawk.sent[n] + 1
ApiInv == ApiTypes /\ PullByKey /\ PullByNumber /\ HawkNoted

\* A pull gets every row once while the table grows and answers are lost, as long as the
\* links read back the keys they were made of, and a signed request is served once
\* (_get_streaming_http_response, dataset_api_view_GET, authenticate_by_hawk_auth).
ApiSafety ==
  /\ ApiTypeOK
  /\ PullIsWhole
  /\ HawkOnce
=============================================================================

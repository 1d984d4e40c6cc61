--------------------------- MODULE MarketDataProofs ---------------------------
(***************************************************************************)
(* What the dashboard shows of a market, from its two ends: the page and   *)
(* the API it polls (MarketPage, MarketApi), for any set of requests, any  *)
(* lifetime of the cache, any latency of the RPC node and any number of    *)
(* changes of the market and of failed fetches; and what /api/market       *)
(* answers (MarketRoute), for any markets that anybody creates, any window *)
(* and cap, and any number of fetches that overlap and fail: which market  *)
(* the default answer is about, and that no answer takes back what an      *)
(* earlier one has decoded.                                                *)
(***************************************************************************)
EXTENDS MarketPage, MarketRoute, WellFoundedInduction, TLAPS

-----------------------------------------------------------------------------
(* The page and the API it polls.                                          *)

-----------------------------------------------------------------------------
(* The inductive invariant.                                                *)

AnyRequest ==
  [at : {"free", "sent", "joined", "market", "timeline", "done", "answered"},
   data : Payloads, ok : BOOLEAN, late : 0 .. Latency]

ApiTypeOK ==
  /\ chain \in 0 .. MaxVersion
  /\ entry \in [filled : BOOLEAN, data : Payloads, freshFor : 0 .. Ttl,
                inFlight : Request \cup {NoOne}]
  /\ request \in [Request -> AnyRequest]
  /\ failures \in 0 .. MaxFailures
  /\ sinceFill \in 0 .. Ttl

(* inFlight is a lock: it names the one request that is fetching.          *)
OneFetch == \A r \in Request : Fetching(r) <=> entry.inFlight = r

(* A payload whose market was read before its timeline, and neither from   *)
(* the future.                                                             *)
InOrder(p) == p.market <= p.timeline /\ p.timeline <= chain

(* What a fetch has read is no older than the entry that it will replace:  *)
(* both reads of the entry were made before this fetch began.              *)
ReadsInOrder ==
  \A r \in Request :
    /\ request[r].at \in {"timeline", "done"} =>
         /\ entry.data.market <= request[r].data.market
         /\ entry.data.timeline <= request[r].data.market
         /\ request[r].data.market <= chain
    /\ request[r].at = "done" => InOrder(request[r].data)
    /\ request[r].ok => InOrder(request[r].data)

(* The entry loses its freshness with the ticks since it was filled.       *)
AgesWithClock == entry.freshFor + sinceFill = Ttl

(* Only an answer is a success.                                            *)
OkIsAnswered == \A r \in Request : request[r].ok => request[r].at = "answered"

ApiInv ==
  /\ ApiTypeOK
  /\ OneFetch
  /\ InOrder(entry.data)
  /\ ReadsInOrder
  /\ AgesWithClock
  /\ OkIsAnswered

PageTypeOK ==
  /\ page \in [loaded : BOOLEAN, data : Payloads]
  /\ error \in BOOLEAN
  /\ untilTick \in 0 .. Period
  /\ awaited \in 0 .. MaxVersion

PageInv == ApiInv /\ PageTypeOK /\ InOrder(page.data)
-----------------------------------------------------------------------------
(* The API.                                                                *)

(* The constants, as the provers need them.                                *)
LEMMA ApiConstants ==
  /\ Ttl \in Nat /\ Ttl > 0 /\ MaxVersion \in Nat /\ MaxFailures \in Nat
  /\ Latency \in Nat /\ NoOne \notin Request
  BY ApiAssumption, NoOneAssumption

(* The answers that a request may get.                                     *)
LEMMA AnswerType ==
  ASSUME NEW p \in Payloads
  PROVE  /\ At("market", p) \in AnyRequest /\ At("joined", p) \in AnyRequest
         /\ Answer(p) \in AnyRequest
  BY ApiConstants DEF AnyRequest, At, Answer

(* Nothing is read, cached or in flight at the start.                      *)
LEMMA ApiInitial == ApiInit => ApiInv
<1> SUFFICES ASSUME ApiInit PROVE ApiInv
  OBVIOUS
<1>1. NoPayload \in Payloads
  BY ApiConstants DEF NoPayload, Payloads
<1>2. ApiTypeOK
  BY <1>1, ApiConstants DEF ApiInit, ApiTypeOK, EmptyEntry, AnyRequest, Free, At
<1> QED
  BY <1>1, <1>2, ApiConstants
  DEF ApiInit, ApiInv, EmptyEntry, Free, At, OneFetch, Fetching, InOrder,
      ReadsInOrder, AgesWithClock, OkIsAnswered, NoPayload

(* Each step of the API keeps its invariant.                               *)
LEMMA ApiStep == ApiInv /\ [Next]_apiVars => ApiInv'
<1> SUFFICES ASSUME ApiInv, [Next]_apiVars
             PROVE  ApiInv'
  OBVIOUS
<1> USE ApiConstants
<1>0. NoPayload \in Payloads
  BY DEF NoPayload, Payloads
<1>1. ASSUME NEW r \in Request, Send(r)
      PROVE  ApiInv'
  <2>1. ApiTypeOK'
    BY <1>0, <1>1 DEF Send, ApiInv, ApiTypeOK, AnyRequest, Sent, At
  <2> QED
    BY <1>1, <2>1 DEF Send, ApiInv, ApiTypeOK, Free, Sent, At, OneFetch, Fetching,
      InOrder, ReadsInOrder, AgesWithClock, OkIsAnswered
<1>2. ASSUME NEW r \in Request, Arrive(r)
      PROVE  ApiInv'
  <2>1. ApiTypeOK'
    <3>1. /\ Answer(entry.data) \in AnyRequest
          /\ Joined \in AnyRequest
          /\ At("market", NoPayload) \in AnyRequest
      BY <1>0, AnswerType DEF ApiInv, ApiTypeOK, Joined
    <3>2. request' \in [Request -> AnyRequest]
      BY <1>2, <3>1 DEF Arrive, ApiInv, ApiTypeOK
    <3>3. entry' = entry \/ entry' = [entry EXCEPT !.inFlight = r]
      BY <1>2 DEF Arrive
    <3> QED
      BY <1>2, <3>2, <3>3 DEF Arrive, ApiInv, ApiTypeOK
  <2> QED
    BY <1>2, <2>1 DEF Arrive, ApiInv, ApiTypeOK, AnyRequest, Sent, At, Answer, Joined,
      Joins, Hit, OneFetch, Fetching,
      InOrder, ReadsInOrder, AgesWithClock, OkIsAnswered
<1>3. ASSUME NEW r \in Request, ReadMarket(r)
      PROVE  ApiInv'
  <2>1. ApiTypeOK'
    <3>1. [request[r] EXCEPT !.at = "timeline", !.data.market = chain] \in AnyRequest
      BY DEF ApiInv, ApiTypeOK, AnyRequest, Payloads
    <3> QED
      BY <1>3, <3>1 DEF ReadMarket, ApiInv, ApiTypeOK
  <2> QED
    BY <1>3, <2>1 DEF ReadMarket, ApiInv, ApiTypeOK, AnyRequest, Payloads,
      OneFetch, Fetching, InOrder, ReadsInOrder, AgesWithClock, OkIsAnswered
<1>4. ASSUME NEW r \in Request, ReadTimeline(r)
      PROVE  ApiInv'
  <2>1. ApiTypeOK'
    <3>1. [request[r] EXCEPT !.at = "done", !.data.timeline = chain] \in AnyRequest
      BY DEF ApiInv, ApiTypeOK, AnyRequest, Payloads
    <3> QED
      BY <1>4, <3>1 DEF ReadTimeline, Listed, ApiInv, ApiTypeOK
  <2> QED
    BY <1>4, <2>1 DEF ReadTimeline, Listed, ApiInv, ApiTypeOK, AnyRequest, Payloads,
      OneFetch, Fetching, InOrder, ReadsInOrder, AgesWithClock, OkIsAnswered
<1>5. ASSUME NEW r \in Request, FetchSucceeds(r)
      PROVE  ApiInv'
  <2>1. ApiTypeOK'
    <3>1. request[r].data \in Payloads /\ Answer(request[r].data) \in AnyRequest
      BY AnswerType DEF ApiInv, ApiTypeOK, AnyRequest
    <3>2. request' \in [Request -> AnyRequest]
      BY <1>5, <3>1 DEF FetchSucceeds, AnswerAll, ApiInv, ApiTypeOK
    <3>3. entry' \in [filled : BOOLEAN, data : Payloads, freshFor : 0 .. Ttl,
                      inFlight : Request \cup {NoOne}]
      BY <1>5, <3>1 DEF FetchSucceeds
    <3> QED
      BY <1>5, <3>2, <3>3 DEF FetchSucceeds, ApiInv, ApiTypeOK
  <2>2. /\ entry.inFlight = r
        /\ \A q \in Request : request'[q] = IF q = r \/ request[q] = Joined
                                           THEN Answer(request[r].data)
                                           ELSE request[q]
    BY <1>5 DEF FetchSucceeds, AnswerAll, ApiInv, OneFetch, Fetching
  <2>3. OneFetch'
    BY <1>5, <2>2 DEF FetchSucceeds, Answer, At, ApiInv, OneFetch, Fetching
  <2>4. InOrder(request[r].data) /\ InOrder(entry'.data) /\ UNCHANGED chain
    BY <1>5 DEF FetchSucceeds, ApiInv, ReadsInOrder, InOrder
  <2>5. InOrder(entry.data)'
    BY <2>4 DEF InOrder
  <2>6. ReadsInOrder' /\ OkIsAnswered'
    BY <1>5, <2>2, <2>3, <2>4 DEF Answer, At, ApiInv, ReadsInOrder, InOrder, OkIsAnswered, OneFetch, Fetching
  <2>7. AgesWithClock'
    BY <1>5 DEF FetchSucceeds, AgesWithClock
  <2> QED
    BY <2>1, <2>3, <2>5, <2>6, <2>7 DEF ApiInv
<1>6. ASSUME NEW r \in Request, FetchFails(r)
      PROVE  ApiInv'
  <2>1. ApiTypeOK'
    BY <1>0, <1>6 DEF FetchFails, AfterFailure, AnswerAll, ErrorAnswer, At, Joined, ApiInv, ApiTypeOK, AnyRequest
  <2> QED
    BY <1>6, <2>1 DEF FetchFails, AfterFailure, AnswerAll, ErrorAnswer, At, Joined, ApiInv, ApiTypeOK, AnyRequest,
      OneFetch, Fetching, InOrder, ReadsInOrder, AgesWithClock, OkIsAnswered
<1>7. ASSUME NEW r \in Request, Receive(r)
      PROVE  ApiInv'
  <2>1. ApiTypeOK'
    BY <1>0, <1>7 DEF Receive, Free, At, ApiInv, ApiTypeOK, AnyRequest
  <2> QED
    BY <1>7, <2>1 DEF Receive, Free, At, ApiInv, ApiTypeOK, AnyRequest,
      OneFetch, Fetching, InOrder, ReadsInOrder, AgesWithClock, OkIsAnswered
<1>8. ASSUME Happen
      PROVE  ApiInv'
  BY <1>8 DEF Happen, ApiInv, ApiTypeOK, AnyRequest, Payloads,
      OneFetch, Fetching, InOrder, ReadsInOrder, AgesWithClock, OkIsAnswered
<1>9. ASSUME ApiTick
      PROVE  ApiInv'
  <2>1. ApiTypeOK'
    BY <1>9 DEF ApiTick, Less, More, ApiInv, ApiTypeOK, AnyRequest, Fetching
  <2> QED
    BY <1>9, <2>1 DEF ApiTick, Less, More, ApiInv, ApiTypeOK, AnyRequest,
      OneFetch, Fetching, InOrder, ReadsInOrder, AgesWithClock, OkIsAnswered
<1>10. ASSUME UNCHANGED apiVars
       PROVE  ApiInv'
  BY <1>10 DEF apiVars, ApiInv, ApiTypeOK, AnyRequest, Payloads,
      OneFetch, Fetching, InOrder, ReadsInOrder, AgesWithClock, OkIsAnswered
<1> QED
  BY <1>1, <1>2, <1>3, <1>4, <1>5, <1>6, <1>7, <1>8, <1>9, <1>10 DEF Next, Fetch

(* The invariant of the API holds always: inFlight is held by exactly the  *)
(* request that fetches, and what it reads is newer than the entry.        *)
THEOREM ApiInvariant == Spec => []ApiInv
  BY ApiInitial, ApiStep, PTL DEF Spec

(* An entry is only replaced by the one request that fetches, and that has *)
(* read both its parts after the entry was read.                           *)
THEOREM CacheForward == Spec => CacheMovesForward
<1>1. ApiInv /\ [Next]_apiVars =>
        [/\ entry'.data.market >= entry.data.market
         /\ entry'.data.timeline >= entry.data.timeline]_apiVars
  <2> SUFFICES ASSUME ApiInv, [Next]_apiVars
               PROVE  \/ UNCHANGED apiVars
                      \/ /\ entry'.data.market >= entry.data.market
                         /\ entry'.data.timeline >= entry.data.timeline
    OBVIOUS
  <2>0. /\ entry.data \in [market : Nat, timeline : Nat]
        /\ \A r \in Request : request[r].data \in [market : Nat, timeline : Nat]
    BY ApiConstants DEF ApiInv, ApiTypeOK, AnyRequest, Payloads
  <2>1. ASSUME NEW r \in Request, FetchSucceeds(r)
        PROVE  /\ entry'.data.market >= entry.data.market
               /\ entry'.data.timeline >= entry.data.timeline
    <3>1. /\ entry.data.market <= request[r].data.market
          /\ entry.data.timeline <= request[r].data.market
          /\ request[r].data.market <= request[r].data.timeline
          /\ entry'.data = request[r].data
      BY <2>1 DEF FetchSucceeds, ApiInv, ReadsInOrder, InOrder
    <3> QED
      BY <2>0, <3>1
  <2>2. ASSUME ~ \E r \in Request : FetchSucceeds(r)
        PROVE  entry'.data = entry.data
    BY <2>2 DEF Next, Fetch, Send, Arrive, ReadMarket, ReadTimeline, FetchFails,
      AfterFailure, Receive, Happen, ApiTick, apiVars, ApiInv, ApiTypeOK
  <2> QED
    BY <2>0, <2>1, <2>2
<1> QED
  BY <1>1, ApiInvariant, PTL DEF Spec, CacheMovesForward

(* A request is answered from the cache only while the ticks since the     *)
(* last successful fetch are fewer than the lifetime.                      *)
THEOREM NothingExpired == Spec => NothingExpiredServed
<1>1. ApiInv /\ [Next]_apiVars =>
        [\A r \in Request :
           request[r] = Sent /\ request'[r].ok => sinceFill < Ttl]_apiVars
  <2> SUFFICES ASSUME ApiInv, [Next]_apiVars,
                      NEW r \in Request, request[r] = Sent, request'[r].ok
               PROVE  sinceFill < Ttl
    OBVIOUS
  <2>1. ~request[r].ok /\ ~Fetching(r) /\ request[r] # Free /\ request[r] # Joined
        /\ request[r].at = "sent"
    BY DEF Sent, At, Fetching, Free, Joined
  <2>2. Arrive(r) /\ Hit
    <3>1. request'[r] # request[r]
      BY <2>1
    <3>2. ~Send(r) /\ ~Receive(r) /\ ~ReadMarket(r) /\ ~ReadTimeline(r)
      BY <2>1 DEF Send, Receive, ReadMarket, ReadTimeline
    <3>3. ASSUME NEW q \in Request, q # r,
                 Send(q) \/ Arrive(q) \/ ReadMarket(q) \/ ReadTimeline(q) \/ Receive(q)
          PROVE  request'[r] = request[r]
      BY <3>3 DEF Send, Arrive, ReadMarket, ReadTimeline, Receive, ApiInv, ApiTypeOK
    <3>4. ASSUME NEW q \in Request, FetchSucceeds(q) \/ FetchFails(q)
          PROVE  request'[r] = request[r]
      BY <2>1, <3>4 DEF FetchSucceeds, FetchFails, AnswerAll, Fetching
    <3>5. ASSUME ApiTick \/ Happen \/ UNCHANGED apiVars
          PROVE  request'[r] = request[r]
      BY <2>1, <3>5 DEF ApiTick, Happen, apiVars
    <3>6. Arrive(r)
      BY <3>1, <3>2, <3>3, <3>4, <3>5 DEF Next, Fetch
    <3>7. ASSUME ~Hit
          PROVE  FALSE
      BY <3>6, <3>7 DEF Arrive, Joined, At, ApiInv, ApiTypeOK
    <3> QED
      BY <3>6, <3>7
  <2> QED
    BY <2>2, ApiConstants DEF Hit, ApiInv, ApiTypeOK, AgesWithClock
<1> QED
  BY <1>1, ApiInvariant, PTL DEF Spec, NothingExpiredServed

-----------------------------------------------------------------------------
(* The page.                                                               *)

(* Each step of the page and its visitors is one of the API's, or leaves   *)
(* the API alone.                                                          *)
LEMMA PageStepIsApiStep == [PageNext]_allVars => [Next]_apiVars
<1>1. ASSUME NEW r \in Own, PollTick(r) \/ Refetch(r) \/ Respond(r)
      PROVE  Next
  <2>1. Send(r) \/ Receive(r)
    BY <1>1 DEF PollTick, Refetch, Respond
  <2> QED
    BY <2>1, PageAssumption DEF Next
<1>2. ASSUME Others
      PROVE  Next
  BY <1>2 DEF Others, Next
<1>3. ASSUME PageClock
      PROVE  Next
  BY <1>3 DEF PageClock, Next
<1>4. ASSUME UNCHANGED allVars
      PROVE  UNCHANGED apiVars
  BY <1>4 DEF allVars
<1> QED
  BY <1>1, <1>2, <1>3, <1>4 DEF PageNext

(* The chain's history only grows.                                         *)
LEMMA ChainGrows == ApiInv /\ [Next]_apiVars => chain' \in Nat /\ chain <= chain'
<1> SUFFICES ASSUME ApiInv, [Next]_apiVars
             PROVE  chain' \in Nat /\ chain <= chain'
  OBVIOUS
<1>1. chain \in Nat
  BY ApiConstants DEF ApiInv, ApiTypeOK
<1>2. chain' = chain \/ chain' = chain + 1
  BY DEF Next, Fetch, Send, Arrive, ReadMarket, ReadTimeline, FetchSucceeds,
    FetchFails, Receive, Happen, ApiTick, apiVars
<1> QED
  BY <1>1, <1>2

(* The page and its visitors are clients as the API's specification allows *)
(* them, so that the API keeps its promises to them.                       *)
LEMMA PageImplementsApi == PageSpec => Spec
  BY PageStepIsApiStep, PTL DEF PageSpec, PageInit, Spec

(* The page starts with nothing, and each step keeps what it shows in      *)
(* order.                                                                  *)
LEMMA PageStep == PageInv /\ ApiInv' /\ [PageNext]_allVars => PageInv'
<1> SUFFICES ASSUME PageInv, ApiInv', [PageNext]_allVars
             PROVE  PageInv'
  OBVIOUS
<1> USE ApiConstants, PageAssumption
<1>0. /\ page.data \in [market : Nat, timeline : Nat]
      /\ chain \in Nat /\ chain' \in Nat /\ chain <= chain'
  BY PageStepIsApiStep, ChainGrows
  DEF PageInv, PageTypeOK, ApiInv, ApiTypeOK, Payloads
<1>1. ASSUME NEW r \in Own, PollTick(r)
      PROVE  PageInv'
  BY <1>0, <1>1 DEF PageInv, PageTypeOK, PollTick, InOrder
<1>2. ASSUME NEW r \in Own, Refetch(r)
      PROVE  PageInv'
  BY <1>0, <1>2 DEF PageInv, PageTypeOK, Refetch, InOrder, Send, ApiInv, ApiTypeOK
<1>3. ASSUME NEW r \in Own, Respond(r)
      PROVE  PageInv'
  <2>1. request[r] \in AnyRequest /\ UNCHANGED chain
    BY <1>3 DEF PageInv, ApiInv, ApiTypeOK, Respond, Receive
  <2>2. CASE IsError(r)
    BY <1>0, <1>3, <2>1, <2>2 DEF PageInv, PageTypeOK, Respond, InOrder, IsError
  <2>3. CASE ~IsError(r)
    <3>1. request[r].data \in Payloads /\ InOrder(request[r].data)
      BY <2>1, <2>3 DEF PageInv, ApiInv, ReadsInOrder, IsError, AnyRequest
    <3>2. page' = [loaded |-> TRUE, data |-> request[r].data]
      BY <1>3, <2>3 DEF Respond
    <3>3. error' \in BOOLEAN
      BY <1>3 DEF Respond, IsError
    <3> QED
      BY <1>3, <2>1, <3>1, <3>2, <3>3 DEF PageInv, PageTypeOK, Respond, InOrder
  <2> QED
    BY <2>2, <2>3
<1>4. ASSUME Others
      PROVE  PageInv'
  BY <1>0, <1>4 DEF PageInv, PageTypeOK, Others, pageVars, InOrder
<1>5. ASSUME PageClock
      PROVE  PageInv'
  BY <1>0, <1>5 DEF PageInv, PageTypeOK, PageClock, InOrder
<1>6. ASSUME UNCHANGED allVars
      PROVE  PageInv'
  BY <1>0, <1>6 DEF PageInv, PageTypeOK, allVars, pageVars, apiVars, InOrder
<1> QED
  BY <1>1, <1>2, <1>3, <1>4, <1>5, <1>6 DEF PageNext

(* The invariant of the page.                                              *)
THEOREM PageInvariant == PageSpec => []PageInv
<1>1. PageInit => PageInv
  <2>1. ASSUME PageInit
        PROVE  PageTypeOK /\ InOrder(page.data)
    <3>1. NoPayload \in Payloads
      BY ApiConstants DEF NoPayload, Payloads
    <3>2. InOrder(page.data)
      BY <2>1 DEF PageInit, ApiInit, InOrder, NoPayload
    <3>3. page \in [loaded : BOOLEAN, data : Payloads] /\ error \in BOOLEAN
      BY <2>1, <3>1 DEF PageInit
    <3>4. untilTick \in 0 .. Period /\ awaited \in 0 .. MaxVersion
      BY <2>1, ApiConstants, PageAssumption DEF PageInit
    <3> QED
      BY <3>2, <3>3, <3>4 DEF PageTypeOK
  <2> QED
    BY <2>1, ApiInitial DEF PageInit, PageInv
<1>2. PageInv /\ [PageNext]_allVars => PageInv'
  BY PageStep, PageStepIsApiStep, ApiStep DEF PageInv
<1> QED
  BY <1>1, <1>2, PTL DEF PageSpec

(* Whatever the order in which responses arrive, the market on the page is *)
(* no newer than the list of transactions under it, and both have happened.*)
THEOREM ReceiptListed == PageSpec => []ReceiptIsListed
<1>1. PageInv => ReceiptIsListed
  BY DEF PageInv, InOrder, ReceiptIsListed
<1> QED
  BY <1>1, PageInvariant, PTL

(* The page, too, is served from a cache that never goes back in time.     *)
THEOREM PageCacheForward == PageSpec => CacheMovesForward
  BY PageImplementsApi, CacheForward

(* And from one that serves no payload beyond its lifetime.                *)
THEOREM PageNothingExpired == PageSpec => NothingExpiredServed
  BY PageImplementsApi, NothingExpired

-----------------------------------------------------------------------------
(* The answers of /api/market.                                             *)
-----------------------------------------------------------------------------
(* The invariant.                                                          *)
Label == {LabelOf(sig) : sig \in Signature} \cup {"PENDING", "UNKNOWN"}
Source == {"asked", "scan", "pinned"}

Finding == [at : {"find"}, id : SUBSET (AskedIds \cup UNION Pins)]
Listing == [at : {"list"}, market : Id, source : Source]
Timeline == [at : {"timeline"}, market : Id, source : Source,
             window : Seq(Signature), entries : Seq(Label), newFetches : Nat]

RouteTypeOK ==
  /\ canonicalId \in Pins
  /\ created \subseteq Id
  /\ count \in [Id -> 0 .. Len(Instructions)]
  /\ DOMAIN txCache \subseteq Signature
  /\ fetch \in [Key -> {Idle} \cup Finding \cup Listing \cup Timeline]
  /\ DOMAIN response = Key /\ DOMAIN shown = Key

(* What is cached is what the transaction is; and what an answer shows     *)
(* decoded is cached, and stays so.                                        *)
CacheTrue == \A sig \in DOMAIN txCache : txCache[sig] = LabelOf(sig)
SigsOf(entries) == {e[1] : e \in entries}
DecodedCached ==
  \A k \in Key : \A e \in shown[k] :
    e[1] \in DOMAIN txCache /\ e = <<e[1], LabelOf(e[1])>>

(* A timeline that is being built shows decoded only what is cached, and   *)
(* shows decoded all that any answer under its key did: it found that      *)
(* in the cache, so that it is not what it waits for either.               *)
ShowsCached(f, cache) ==
  \A n \in DOMAIN f.entries :
    f.entries[n] \notin {"PENDING", "UNKNOWN"}
      => f.window[n] \in cache /\ f.entries[n] = LabelOf(f.window[n])
ShowsAgain(f, sigs) ==
  \A n \in DOMAIN f.entries : f.window[n] \in sigs => f.entries[n] = LabelOf(f.window[n])
Waits(f, sigs) ==
  Len(f.entries) < Len(f.window) /\ Awaited(f) \notin sigs

(* No signature is listed twice.                                           *)
ListedOnce(f) ==
  \A m, n \in DOMAIN f.window : f.window[m] = f.window[n] => m = n
TimelinesGrow ==
  \A k \in Key :
    fetch[k].at = "timeline" =>
      /\ ListedOnce(fetch[k])
      /\ ShowsCached(fetch[k], DOMAIN txCache)
      /\ ShowsAgain(fetch[k], SigsOf(shown[k]))
      /\ Waits(fetch[k], SigsOf(shown[k]))

(* The market of a default answer is a market there is, the pinned one if  *)
(* one is pinned, else found by a scan; and a market found later is no     *)
(* earlier one.                                                            *)
Chosen(market, source) ==
  /\ market \in created
  /\ IF canonicalId # {} THEN market \in canonicalId /\ source = "pinned"
     ELSE /\ source = "scan" /\ hasCanonicalMint(market)
          /\ vercelEnv # "production"

DefaultInOrder ==
  LET f == fetch[Default]
      r == response[Default]
  IN  /\ f.at = "find" => f.id = canonicalId /\ ~RefusesUnpinnedProduction
      /\ f.at \in {"list", "timeline"} => Chosen(f.market, f.source)
      /\ r.status = 200 => Chosen(r.market, r.source)
      /\ f.at \in {"list", "timeline"} /\ r.status = 200 => r.market <= f.market

RouteInv ==
  /\ RouteTypeOK /\ CacheTrue /\ DecodedCached /\ NeverUndecoded /\ TimelinesGrow
  /\ DefaultInOrder

(* What the action property says of a step.                                *)
MovesForward ==
  LET r == response[Default]
  IN  r.status = 200 /\ response'[Default].status = 200
        => response'[Default].market >= r.market

-----------------------------------------------------------------------------
(* Sets of numbers, and the cache.                                         *)

(* A set of numbers that is not empty has a least one.                     *)
LEMMA LeastOf ==
  ASSUME NEW S \in SUBSET Nat, S # {}
  PROVE  Min(S) \in S /\ \A n \in S : Min(S) <= n
<1> DEFINE Smaller == OpToRel(<, Nat)
<1>1. IsWellFoundedOn(Smaller, Nat)
  BY NatLessThanWellFounded
<1>2. \A m, n \in Nat : <<m, n>> \notin Smaller => n <= m
  BY DEF OpToRel
<1> HIDE DEF Smaller
<1>3. \E m \in S : \A n \in S : <<n, m>> \notin Smaller
  BY <1>1, WFMin
<1>4. \E m \in S : \A n \in S : m <= n
  BY <1>2, <1>3
<1> QED
  BY <1>4 DEF Min

(* The cache with one more transaction decoded.                            *)
LEMMA Remembered ==
  ASSUME NEW sig
  PROVE  /\ DOMAIN Remember(sig) = DOMAIN txCache \cup {sig}
         /\ Remember(sig)[sig] = LabelOf(sig)
         /\ \A s \in DOMAIN txCache : s # sig => Remember(sig)[s] = txCache[s]
  BY DEF Remember, WithEntry

-----------------------------------------------------------------------------
(* The loop of buildTimeline.                                              *)

(* What an entry of a concatenation is.                                    *)
LEMMA Appended ==
  ASSUME NEW S, NEW a \in Seq(S), NEW b \in Seq(S)
  PROVE  /\ a \o b \in Seq(S) /\ Len(a \o b) = Len(a) + Len(b)
         /\ \A n \in 1 .. Len(a) : (a \o b)[n] = a[n]
         /\ \A n \in Len(a) + 1 .. Len(a) + Len(b) : (a \o b)[n] = b[n - Len(a)]
  OBVIOUS

(* It appends entries up to the next signature it must ask for, or to the  *)
(* end: decoded ones for the signatures in the cache, PENDING for others.  *)
LEMMA GoesOn ==
  ASSUME NEW f \in Timeline, Len(f.entries) <= Len(f.window),
         NEW cache, DOMAIN cache \subseteq Signature,
         \A sig \in DOMAIN cache : cache[sig] = LabelOf(sig),
         NEW sigs \in SUBSET DOMAIN cache,
         ShowsCached(f, DOMAIN cache), ShowsAgain(f, sigs)
  PROVE  LET g == Goes(f, cache)
         IN  /\ g \in Timeline
             /\ g.market = f.market /\ g.source = f.source /\ g.window = f.window
             /\ Len(g.entries) <= Len(g.window)
             /\ ShowsCached(g, DOMAIN cache) /\ ShowsAgain(g, sigs)
             /\ Len(g.entries) # Len(g.window) => Waits(g, sigs)
<1> DEFINE i == Len(f.entries) + 1
           end == Len(f.window) + 1
           Known(n) == f.window[n] \in DOMAIN cache
           unknown == {n \in i .. Len(f.window) : ~Known(n)}
           stop == IF unknown = {} \/ CapReached(f) THEN Len(f.window) + 1
                   ELSE Min(unknown)
           passed == [n \in 1 .. stop - i |->
                        IF Known(i + n - 1) THEN cache[f.window[i + n - 1]]
                        ELSE "PENDING"]
           g == Goes(f, cache)
<1>1. /\ f.window \in Seq(Signature) /\ f.entries \in Seq(Label)
      /\ i \in Nat /\ i >= 1 /\ end \in Nat /\ i <= end /\ f.newFetches \in Nat
      /\ end = Len(f.window) + 1 /\ i = Len(f.entries) + 1
      /\ Len(f.entries) \in Nat
  BY DEF Timeline
<1>2. /\ stop \in i .. end
      /\ stop # end => ~Known(stop)
  <2>1. CASE unknown = {} \/ CapReached(f)
    BY <1>1, <2>1
  <2>2. CASE ~(unknown = {} \/ CapReached(f))
    <3>1. unknown \in SUBSET Nat /\ unknown # {}
      BY <1>1, <2>2
    <3>2. Min(unknown) \in unknown
      BY <3>1, LeastOf
    <3> QED
      BY <1>1, <2>2, <3>2
  <2> QED
    BY <2>1, <2>2
<1>3. g = [f EXCEPT !.entries = f.entries \o passed,
                    !.newFetches = IF stop > Len(f.window) THEN f.newFetches
                                   ELSE f.newFetches + 1]
  BY DEF Goes
<1> HIDE DEF stop, g
<1>4. ASSUME NEW n \in 1 .. stop - i
      PROVE  /\ i + n - 1 \in 1 .. Len(f.window)
             /\ f.window[i + n - 1] \in Signature
  <2>1. i + n - 1 \in 1 .. Len(f.window)
    BY <1>1, <1>2
  <2> QED
    BY <1>1, <2>1
<1>5. ASSUME NEW n \in 1 .. stop - i
      PROVE  passed[n] \in Label
  BY <1>4, <1>5 DEF Label
<1> DEFINE w == f.window
<1> HIDE DEF Known
<1>6. /\ passed \in Seq(Label) /\ Len(passed) = stop - i
      /\ \A n \in 1 .. stop - i :
           passed[n] = IF Known(i + n - 1) THEN LabelOf(w[i + n - 1]) ELSE "PENDING"
  <2>1. stop - i \in Nat
    BY <1>1, <1>2
  <2>2. passed \in [1 .. stop - i -> Label]
    BY <1>5
  <2>3. ASSUME NEW n \in 1 .. stop - i
        PROVE  passed[n] = IF Known(i + n - 1) THEN LabelOf(w[i + n - 1])
                           ELSE "PENDING"
    BY DEF Known
  <2> HIDE DEF passed, i
  <2> QED
    BY <2>1, <2>2, <2>3
<1> HIDE DEF passed, w, i, end
<1>7. /\ f.entries \o passed \in Seq(Label)
      /\ Len(f.entries \o passed) = stop - 1
      /\ \A n \in 1 .. i - 1 : (f.entries \o passed)[n] = f.entries[n]
      /\ \A n \in i .. stop - 1 :
           (f.entries \o passed)[n]
             = IF Known(n) THEN LabelOf(w[n]) ELSE "PENDING"
  <2>1. /\ f.entries \o passed \in Seq(Label)
        /\ Len(f.entries \o passed) = stop - 1
        /\ \A n \in 1 .. i - 1 : (f.entries \o passed)[n] = f.entries[n]
        /\ \A n \in i .. stop - 1 :
             (f.entries \o passed)[n] = passed[n - (i - 1)]
    <3>1. Len(f.entries) = i - 1 /\ Len(passed) = stop - i
          /\ i \in Nat /\ stop \in Nat
      BY <1>1, <1>2, <1>6
    <3> HIDE DEF i
    <3>2. f.entries \in Seq(Label) /\ passed \in Seq(Label)
      BY <1>1, <1>6
    <3>3. /\ 1 .. i - 1 = 1 .. Len(f.entries)
          /\ i .. stop - 1 = Len(f.entries) + 1 .. Len(f.entries) + Len(passed)
          /\ stop - 1 = Len(f.entries) + Len(passed)
      BY <3>1
    <3>4. /\ f.entries \o passed \in Seq(Label)
          /\ Len(f.entries \o passed) = Len(f.entries) + Len(passed)
          /\ \A n \in 1 .. Len(f.entries) : (f.entries \o passed)[n] = f.entries[n]
          /\ \A n \in Len(f.entries) + 1 .. Len(f.entries) + Len(passed) :
               (f.entries \o passed)[n] = passed[n - Len(f.entries)]
      BY <3>2, Appended
    <3>5. Len(f.entries) = i - 1
      BY <3>1
    <3> QED
      BY <3>3, <3>4, <3>5
  <2>2. ASSUME NEW n \in i .. stop - 1
        PROVE  passed[n - (i - 1)] = IF Known(n) THEN LabelOf(w[n]) ELSE "PENDING"
    <3>1. i \in Nat /\ stop \in Nat /\ n \in Nat
      BY <1>1, <1>2
    <3>2. n - (i - 1) \in 1 .. stop - i /\ i + (n - (i - 1)) - 1 = n
      BY <3>1
    <3> QED
      BY <1>6, <3>2
  <2> QED
    BY <2>1, <2>2
<1> USE DEF Known, w, i, end
<1> DEFINE entries == f.entries \o passed
<1> HIDE DEF entries
<1>8. /\ g.entries = entries
      /\ g.market = f.market /\ g.source = f.source /\ g.window = w
      /\ g \in Timeline
  <2> DEFINE asked == IF stop > Len(f.window) THEN f.newFetches ELSE f.newFetches + 1
  <2>1. asked \in Nat /\ entries \in Seq(Label)
    BY <1>1, <1>7 DEF entries
  <2>2. g = [f EXCEPT !.entries = entries, !.newFetches = asked]
    BY <1>3 DEF entries
  <2> HIDE DEF asked, i, end
  <2> QED
    BY <2>1, <2>2 DEF Timeline
<1>9. /\ entries \in Seq(Label) /\ Len(entries) = stop - 1
      /\ \A n \in 1 .. i - 1 : entries[n] = f.entries[n]
      /\ \A n \in i .. stop - 1 :
           entries[n] = IF Known(n) THEN LabelOf(w[n]) ELSE "PENDING"
  BY <1>7 DEF entries
<1>10. DOMAIN entries = 1 .. stop - 1 /\ DOMAIN f.entries = 1 .. i - 1
  BY <1>1, <1>9
<1>11. ShowsCached(g, DOMAIN cache)
  BY <1>1, <1>2, <1>8, <1>9, <1>10 DEF ShowsCached
<1>12. ShowsAgain(g, sigs)
  BY <1>1, <1>2, <1>8, <1>9, <1>10 DEF ShowsAgain
<1>13. Len(g.entries) # Len(g.window) => Waits(g, sigs)
  BY <1>1, <1>2, <1>8, <1>9 DEF Waits, Awaited
<1> QED
  BY <1>1, <1>2, <1>8, <1>9, <1>11, <1>12, <1>13 DEF g

-----------------------------------------------------------------------------
(* The steps.                                                              *)

(* The kinds of fetches are told apart by where they are.                  *)
LEMMA FetchKinds ==
  ASSUME RouteTypeOK, NEW k \in Key
  PROVE  /\ fetch[k].at = "find" => fetch[k] \in Finding
         /\ fetch[k].at = "list" => fetch[k] \in Listing
         /\ fetch[k].at = "timeline" => fetch[k] \in Timeline
         /\ DOMAIN fetch = Key
<1>1. fetch[k] \in {Idle} \cup Finding \cup Listing \cup Timeline /\ DOMAIN fetch = Key
  BY DEF RouteTypeOK
<1> QED
  BY <1>1 DEF Idle, Finding, Listing, Timeline

(* The page's own key.                                                     *)
LEMMA DefaultIsKey == Default \in Key
  BY DEF Key

(* An error shows nothing.                                                 *)
LEMMA ErrorsShowNothing ==
  ASSUME NEW status \in {404, 500}
  PROVE  Shown(Failed(status)) = {} /\ Decoded(Failed(status)) = {}
  BY DEF Failed, Shown, Decoded

(* Steps of a fetch outside the loop of buildTimeline, failures included.  *)
LEMMA OutsideLoop ==
  ASSUME RouteInv, NEW k \in Key,
         NEW v \in {Idle} \cup Finding \cup Listing,
         fetch' = [fetch EXCEPT ![k] = v],
         \/ UNCHANGED response
         \/ \E status \in {404, 500} :
              response' = [response EXCEPT ![k] = Failed(status)],
         UNCHANGED <<env, created, count, txCache, shown>>,
         k = Default =>
           /\ v.at = "find" => v.id = canonicalId /\ ~RefusesUnpinnedProduction
           /\ v.at = "list" =>
                /\ Chosen(v.market, v.source)
                /\ response'[k].status = 200 => response[k].market <= v.market
  PROVE  RouteInv' /\ MovesForward
<1> USE DEF RouteInv
<1>1. /\ DOMAIN fetch = Key /\ DOMAIN response = Key
      /\ UNCHANGED <<vercelEnv, canonicalId, shown>>
  BY DefaultIsKey, FetchKinds DEF RouteTypeOK, env
<1>2. v.at \in {"idle", "find", "list"}
  BY DEF Idle, Finding, Listing
<1>3. /\ fetch'[k] = v
      /\ \A o \in Key \ {k} : fetch'[o] = fetch[o] /\ response'[o] = response[o]
  BY <1>1
<1>4. \/ response'[k] = response[k]
      \/ /\ response'[k].status # 200
         /\ Shown(response'[k]) = {} /\ Decoded(response'[k]) = {}
  BY <1>1, ErrorsShowNothing DEF Failed
<1>5. \A o \in Key : \/ response'[o] = response[o]
                     \/ /\ response'[o].status # 200
                        /\ Shown(response'[o]) = {} /\ Decoded(response'[o]) = {}
  BY <1>3, <1>4
<1>6. RouteTypeOK'
  <2>1. DOMAIN response' = Key
    BY <1>1
  <2> QED
    BY <1>1, <2>1 DEF RouteTypeOK
<1>7. CacheTrue' /\ DecodedCached' /\ NeverUndecoded'
  BY <1>1, <1>5 DEF CacheTrue, DecodedCached, NeverUndecoded
<1>8. TimelinesGrow'
  <2> SUFFICES ASSUME NEW o \in Key, fetch'[o].at = "timeline"
               PROVE  /\ ListedOnce(fetch'[o])
                      /\ ShowsCached(fetch'[o], DOMAIN txCache')
                      /\ ShowsAgain(fetch'[o], SigsOf(shown'[o]))
                      /\ Waits(fetch'[o], SigsOf(shown'[o]))
    BY DEF TimelinesGrow, ListedOnce, ShowsCached, ShowsAgain, Waits, SigsOf,
      Awaited, Decoded, Shown
  <2>1. o # k
    BY <1>2, <1>3
  <2>2. fetch'[o] = fetch[o] /\ shown' = shown /\ txCache' = txCache
    BY <1>3, <2>1
  <2> QED
    BY <2>2 DEF TimelinesGrow
<1>9. MovesForward
  <2>1. \A m \in created : m \in Nat
    BY RouteAssumption DEF RouteTypeOK
  <2> QED
    BY <1>5, <2>1, DefaultIsKey DEF MovesForward, DefaultInOrder, Chosen
<1>10. DefaultInOrder'
  <2>1. \A market, source : Chosen(market, source) => Chosen(market, source)'
    BY <1>1 DEF Chosen, hasCanonicalMint
  <2>2. RefusesUnpinnedProduction' <=> RefusesUnpinnedProduction
    BY <1>1 DEF RefusesUnpinnedProduction, Unpinned
  <2>3. CASE k = Default
    BY <1>1, <1>2, <1>3, <1>4, <2>1, <2>2, <2>3 DEF DefaultInOrder, Chosen, hasCanonicalMint
  <2>4. CASE k # Default
    <3>1. fetch'[Default] = fetch[Default] /\ response'[Default] = response[Default]
      BY <1>3, <2>4, DefaultIsKey
    <3> QED
      BY <1>1, <2>1, <2>2, <3>1 DEF DefaultInOrder, Chosen, hasCanonicalMint
  <2> QED
    BY <2>3, <2>4
<1> QED
  BY <1>6, <1>7, <1>8, <1>9, <1>10

(* The loop goes on, with one more entry or from the start, to its next    *)
(* await or to the answer: with what is cached by now.                     *)
LEMMA InLoop ==
  ASSUME RouteInv, NEW k \in Key, NEW f \in Timeline,
         Len(f.entries) <= Len(f.window), ListedOnce(f),
         DOMAIN txCache \subseteq DOMAIN txCache',
         DOMAIN txCache' \subseteq Signature, CacheTrue',
         ShowsCached(f, DOMAIN txCache'),
         ShowsAgain(f, SigsOf(shown[k])),
         Continue(k, Goes(f, txCache')),
         UNCHANGED <<env, created, count>>,
         k = Default =>
           /\ Chosen(f.market, f.source)
           /\ response[k].status = 200 => response[k].market <= f.market
  PROVE  RouteInv' /\ MovesForward
<1> USE DEF RouteInv
<1> DEFINE g == Goes(f, txCache')
           sigs == SigsOf(shown[k])
<1>1. /\ DOMAIN fetch = Key /\ DOMAIN response = Key /\ DOMAIN shown = Key
      /\ UNCHANGED <<vercelEnv, canonicalId>>
  BY DefaultIsKey, FetchKinds DEF RouteTypeOK, env
<1>2. sigs \in SUBSET DOMAIN txCache'
  BY DEF SigsOf, DecodedCached
<1>3. /\ g \in Timeline
      /\ g.market = f.market /\ g.source = f.source /\ g.window = f.window
      /\ Len(g.entries) <= Len(g.window)
      /\ ShowsCached(g, DOMAIN txCache') /\ ShowsAgain(g, sigs)
      /\ Len(g.entries) # Len(g.window) => Waits(g, sigs)
  <2>1. \A sig \in DOMAIN txCache' : txCache'[sig] = LabelOf(sig)
    BY DEF CacheTrue
  <2> QED
    BY <1>2, <2>1, GoesOn
<1>4. ListedOnce(g) /\ g.at = "timeline"
  BY <1>3 DEF ListedOnce, Timeline
<1> HIDE DEF g
(* The other fetches only see the cache grow.                              *)
<1>5. ASSUME NEW o \in Key, fetch'[o] = fetch[o], shown'[o] = shown[o],
             fetch[o].at = "timeline"
      PROVE  /\ ListedOnce(fetch'[o])
             /\ ShowsCached(fetch'[o], DOMAIN txCache')
             /\ ShowsAgain(fetch'[o], SigsOf(shown'[o]))
             /\ Waits(fetch'[o], SigsOf(shown'[o]))
  <2>1. /\ ListedOnce(fetch[o])
        /\ ShowsCached(fetch[o], DOMAIN txCache)
        /\ ShowsAgain(fetch[o], SigsOf(shown[o]))
        /\ Waits(fetch[o], SigsOf(shown[o]))
    BY <1>5 DEF TimelinesGrow
  <2>2. ShowsCached(fetch[o], DOMAIN txCache')
    BY <2>1 DEF ShowsCached
  <2> QED
    BY <1>5, <2>1, <2>2
<1>6. CacheTrue'
  OBVIOUS
<1>7. \A market, source : Chosen(market, source) => Chosen(market, source)'
  BY <1>1 DEF Chosen, hasCanonicalMint
<1>8. RefusesUnpinnedProduction' <=> RefusesUnpinnedProduction
  BY <1>1 DEF RefusesUnpinnedProduction, Unpinned
<1>9. \A m \in created : m \in Nat
  BY RouteAssumption DEF RouteTypeOK
(* It waits for another signature.                                         *)
<1>10. CASE Len(g.entries) # Len(g.window)
  <2>1. fetch' = [fetch EXCEPT ![k] = g] /\ UNCHANGED <<response, shown>>
    BY <1>10 DEF Continue, g
  <2>2. fetch'[k] = g /\ \A o \in Key \ {k} : fetch'[o] = fetch[o]
    BY <1>1, <2>1
  <2>3. RouteTypeOK'
    BY <1>1, <1>3, <2>1 DEF RouteTypeOK
  <2>4. DecodedCached' /\ NeverUndecoded'
    BY <2>1 DEF DecodedCached, NeverUndecoded
  <2>5. TimelinesGrow'
    <3> SUFFICES ASSUME NEW o \in Key, fetch'[o].at = "timeline"
                 PROVE  /\ ListedOnce(fetch'[o])
                        /\ ShowsCached(fetch'[o], DOMAIN txCache')
                        /\ ShowsAgain(fetch'[o], SigsOf(shown'[o]))
                        /\ Waits(fetch'[o], SigsOf(shown'[o]))
      BY DEF TimelinesGrow, ListedOnce, ShowsCached, ShowsAgain, Waits, SigsOf,
        Awaited, Decoded, Shown
    <3>1. CASE o = k
      BY <1>3, <1>4, <1>10, <2>1, <2>2, <3>1
    <3>2. CASE o # k
      BY <1>5, <2>1, <2>2, <3>2
    <3> QED
      BY <3>1, <3>2
  <2>6. DefaultInOrder'
    <3>1. CASE k = Default
      BY <1>1, <1>3, <1>4, <1>7, <2>1, <2>2, <3>1
      DEF DefaultInOrder, Chosen, hasCanonicalMint
    <3>2. CASE k # Default
      <4>1. fetch'[Default] = fetch[Default]
        BY <2>2, <3>2, DefaultIsKey
      <4> QED
        BY <1>1, <1>7, <1>8, <2>1, <4>1 DEF DefaultInOrder, Chosen, hasCanonicalMint
    <3> QED
      BY <3>1, <3>2
  <2>7. MovesForward
    BY <1>9, <2>1, DefaultIsKey
    DEF MovesForward, DefaultInOrder, Chosen
  <2> QED
    BY <1>6, <2>3, <2>4, <2>5, <2>6, <2>7
(* It answers.                                                             *)
<1>11. CASE Len(g.entries) = Len(g.window)
  <2>1. /\ fetch' = [fetch EXCEPT ![k] = Idle]
        /\ response' = [response EXCEPT ![k] = Payload(g)]
        /\ shown' = [shown EXCEPT ![k] = @ \cup Decoded(Payload(g))]
    BY <1>11 DEF Continue, g
  <2>2. /\ fetch'[k] = Idle /\ response'[k] = Payload(g)
        /\ shown'[k] = shown[k] \cup Decoded(Payload(g))
        /\ \A o \in Key \ {k} : /\ fetch'[o] = fetch[o] /\ response'[o] = response[o]
                              /\ shown'[o] = shown[o]
    BY <1>1, <2>1
  <2>3. RouteTypeOK'
    <3>1. DOMAIN response' = Key /\ DOMAIN shown' = Key
      BY <1>1, <2>1
    <3> QED
      BY <1>1, <2>1, <3>1 DEF RouteTypeOK
  <2>4. /\ Payload(g).status = 200
        /\ Payload(g).market = g.market /\ Payload(g).source = g.source
        /\ Shown(Payload(g)) = {<<g.window[n], g.entries[n]>> : n \in DOMAIN g.window}
    BY DEF Payload, Shown
  <2>5. DOMAIN g.window = DOMAIN g.entries
    BY <1>3, <1>11 DEF Timeline
  <2>6. \A e \in Decoded(Payload(g)) :
          e[1] \in DOMAIN txCache' /\ e = <<e[1], LabelOf(e[1])>>
    BY <1>3, <2>4, <2>5 DEF Decoded, ShowsCached
  <2>7. DecodedCached'
    <3> SUFFICES ASSUME NEW o \in Key, NEW e \in shown'[o]
                 PROVE  e[1] \in DOMAIN txCache' /\ e = <<e[1], LabelOf(e[1])>>
      BY DEF DecodedCached
    <3>1. CASE o = k
      BY <2>2, <2>6, <3>1 DEF DecodedCached
    <3>2. CASE o # k
      BY <2>2, <3>2 DEF DecodedCached
    <3> QED
      BY <3>1, <3>2
  <2>8. \A e, e2 \in Shown(Payload(g)) : e2[1] = e[1] => e2 = e
    BY <1>4, <2>4 DEF ListedOnce
  <2>9. NeverUndecoded'
    <3> SUFFICES ASSUME NEW o \in Key, NEW e \in shown'[o],
                        NEW e2 \in Shown(response'[o]), e2[1] = e[1]
                 PROVE  e2 = e
      BY DEF NeverUndecoded, Shown
    <3>1. CASE o = k /\ e \in Decoded(Payload(g))
      BY <2>2, <2>8, <3>1 DEF Decoded
    <3>2. CASE o = k /\ e \in shown[k]
      <4>1. e[1] \in sigs /\ e = <<e[1], LabelOf(e[1])>>
        BY <3>2 DEF SigsOf, DecodedCached
      <4>2. PICK n \in DOMAIN g.window : e2 = <<g.window[n], g.entries[n]>>
        BY <2>2, <2>4, <3>2
      <4>3. g.window[n] = e[1] /\ n \in DOMAIN g.entries
        BY <2>5, <4>2
      <4>4. g.entries[n] = LabelOf(e[1])
        BY <1>3, <4>1, <4>3 DEF ShowsAgain
      <4> QED
        BY <4>1, <4>2, <4>3, <4>4
    <3>3. CASE o # k
      BY <2>2, <3>3 DEF NeverUndecoded
    <3> QED
      BY <2>2, <3>1, <3>2, <3>3
  <2>10. TimelinesGrow'
    <3> SUFFICES ASSUME NEW o \in Key, fetch'[o].at = "timeline"
                 PROVE  /\ ListedOnce(fetch'[o])
                        /\ ShowsCached(fetch'[o], DOMAIN txCache')
                        /\ ShowsAgain(fetch'[o], SigsOf(shown'[o]))
                        /\ Waits(fetch'[o], SigsOf(shown'[o]))
      BY DEF TimelinesGrow, ListedOnce, ShowsCached, ShowsAgain, Waits, SigsOf,
        Awaited, Decoded, Shown
    <3>1. o # k
      BY <2>2 DEF Idle
    <3> QED
      BY <1>5, <2>2, <3>1
  <2>11. DefaultInOrder' /\ MovesForward
    <3>1. CASE k = Default
      <4>1. /\ fetch'[Default].at = "idle"
            /\ response'[Default].market = f.market
            /\ response'[Default].source = f.source
        BY <1>3, <2>2, <2>4, <3>1 DEF Idle
      <4>2. f.market \in Nat
        BY <1>9, <3>1 DEF Chosen
      <4>3. DefaultInOrder'
        BY <1>1, <1>7, <3>1, <4>1 DEF DefaultInOrder, Chosen, hasCanonicalMint
      <4>4. MovesForward
        BY <1>9, <3>1, <4>1, <4>2 DEF MovesForward, DefaultInOrder, Chosen
      <4> QED
        BY <4>3, <4>4
    <3>2. CASE k # Default
      <4>1. fetch'[Default] = fetch[Default] /\ response'[Default] = response[Default]
        BY <2>2, <3>2, DefaultIsKey
      <4>2. DefaultInOrder'
        BY <1>1, <1>7, <1>8, <4>1 DEF DefaultInOrder, Chosen, hasCanonicalMint
      <4>3. MovesForward
        BY <1>9, <4>1 DEF MovesForward, DefaultInOrder, Chosen
      <4> QED
        BY <4>2, <4>3
    <3> QED
      BY <3>1, <3>2
  <2> QED
    BY <1>6, <2>3, <2>7, <2>9, <2>10, <2>11
<1> QED
  BY <1>10, <1>11

(* A fetch ends with an error.                                             *)
LEMMA FailKeeps ==
  ASSUME RouteInv, NEW k \in Key, NEW status \in {404, 500}, Fail(k, status),
         UNCHANGED <<env, created, count, txCache>>
  PROVE  RouteInv' /\ MovesForward
<1>1. Idle \in {Idle} \cup Finding \cup Listing /\ Idle.at = "idle"
  BY DEF Idle
<1>2. /\ fetch' = [fetch EXCEPT ![k] = Idle]
      /\ \E code \in {404, 500} :
           response' = [response EXCEPT ![k] = Failed(code)]
      /\ UNCHANGED shown
  BY DEF Fail
<1> QED
  BY <1>1, <1>2, OutsideLoop

(* A fetch begins, with the pin of the moment.                             *)
LEMMA BeginKeeps ==
  ASSUME RouteInv, NEW k \in Key, Begin(k)
  PROVE  RouteInv' /\ MovesForward
<1>1. UNCHANGED <<env, created, count, txCache>>
  BY DEF Begin
<1> DEFINE id == IF k = Default THEN canonicalId ELSE {k[1]}
           find == [at |-> "find", id |-> id]
<1>2. CASE Fail(k, 500)
  BY <1>1, <1>2, FailKeeps
<1>3. CASE /\ ~(k = Default /\ RefusesUnpinnedProduction)
           /\ fetch' = [fetch EXCEPT ![k] = find] /\ UNCHANGED <<response, shown>>
  <2>1. id \in SUBSET (AskedIds \cup UNION Pins)
    <3>1. CASE k = Default
      BY <3>1 DEF RouteInv, RouteTypeOK
    <3>2. CASE k # Default
      BY <3>2 DEF Key
    <3> QED
      BY <3>1, <3>2
  <2>2. find \in {Idle} \cup Finding \cup Listing
    BY <2>1 DEF Finding
  <2>3. find.at = "find" /\ find.id = id
    OBVIOUS
  <2> HIDE DEF find
  <2> QED
    BY <1>1, <1>3, <2>2, <2>3, OutsideLoop
<1> QED
  BY <1>2, <1>3 DEF Begin

(* The market is found, or is not there.  What a scan finds is no earlier  *)
(* than what one has found before, and what is pinned is the same market.  *)
LEMMA FindKeeps ==
  ASSUME RouteInv, NEW k \in Key, FindMarket(k)
  PROVE  RouteInv' /\ MovesForward
<1> USE DEF RouteInv
<1>1. UNCHANGED <<env, created, count, txCache>> /\ fetch[k].at = "find"
  BY DEF FindMarket
<1> DEFINE ids == fetch[k].id
           scanned == ids = {}
           found == IF scanned
                    THEN selectCanonicalMarket({id \in created : hasCanonicalMint(id)})
                    ELSE UNION {PinnedAccount(id) : id \in ids}
           source == IF k # Default THEN "asked"
                     ELSE IF scanned THEN "scan" ELSE "pinned"
<1>2. CASE Fail(k, 404)
  BY <1>1, <1>2, FailKeeps
<1>3. ASSUME NEW id \in found, Found(k, id, source)
      PROVE  RouteInv' /\ MovesForward
  <2> DEFINE list == [at |-> "list", market |-> id, source |-> source]
  <2>1. fetch' = [fetch EXCEPT ![k] = list] /\ UNCHANGED <<response, shown>>
    BY <1>3 DEF Found
  <2>2. id \in created /\ (~scanned => id \in ids)
    BY <1>3 DEF selectCanonicalMarket, PinnedAccount
  <2>3. list \in {Idle} \cup Finding \cup Listing
    BY <2>2 DEF Listing, Source, RouteTypeOK
  <2>4. ASSUME k = Default
        PROVE  /\ Chosen(id, source)
               /\ response[k].status = 200 => response[k].market <= id
    <3>1. ids = canonicalId /\ ~RefusesUnpinnedProduction
      BY <1>1, <2>4 DEF DefaultInOrder
    <3>2. CASE scanned
      <4>1. /\ hasCanonicalMint(id)
            /\ \A other \in created : hasCanonicalMint(other) => id >= other
        BY <1>3, <3>2 DEF selectCanonicalMarket
      <4>2. Chosen(id, source)
        BY <2>2, <2>4, <3>1, <3>2, <4>1
        DEF Chosen, RefusesUnpinnedProduction, Unpinned
      <4>3. response[k].status = 200
              => response[k].market \in created /\ hasCanonicalMint(response[k].market)
        BY <2>4, <3>1, <3>2 DEF DefaultInOrder, Chosen
      <4>4. \A m \in created : m \in Nat
        BY RouteAssumption DEF RouteTypeOK
      <4> QED
        BY <2>2, <4>1, <4>2, <4>3, <4>4
    <3>3. CASE ~scanned
      <4>1. Chosen(id, source)
        BY <2>2, <2>4, <3>1, <3>3 DEF Chosen
      <4>2. response[k].status = 200 => response[k].market \in canonicalId
        BY <2>4, <3>1, <3>3 DEF DefaultInOrder, Chosen
      <4>3. response[k].status = 200 => response[k].market = id
        BY <2>2, <3>1, <3>3, <4>2, PinsAssumption DEF RouteTypeOK
      <4>4. id \in Nat
        BY <2>2, RouteAssumption DEF RouteTypeOK
      <4> QED
        BY <4>1, <4>3, <4>4
    <3> QED
      BY <3>2, <3>3
  <2>5. list.at = "list" /\ list.market = id /\ list.source = source
    OBVIOUS
  <2> HIDE DEF list, source, found, ids
  <2>6. UNCHANGED <<response, shown>>
    BY <2>1
  <2> QED
    BY <1>1, <2>1, <2>3, <2>4, <2>5, <2>6, OutsideLoop
<1> QED
  BY <1>2, <1>3 DEF FindMarket

(* A request fails.                                                        *)
LEMMA FailureKeeps ==
  ASSUME RouteInv, NEW k \in Key, RequestFails(k)
  PROVE  RouteInv' /\ MovesForward
  BY FailKeeps DEF RequestFails, AfterRefusal

(* The signatures are listed, each once, and the loop begins.              *)
LEMMA ListKeeps ==
  ASSUME RouteInv, NEW k \in Key, ListSignatures(k)
  PROVE  RouteInv' /\ MovesForward
<1> USE DEF RouteInv
<1> DEFINE id == fetch[k].market
           many == Min({Window, count[id]})
           latest == [n \in 1 .. many |-> <<id, count[id] + 1 - n>>]
           f == [at |-> "timeline", market |-> id, source |-> fetch[k].source,
                 window |-> latest, entries |-> <<>>, newFetches |-> 0]
<1>1. /\ fetch[k] \in Listing /\ fetch[k].at = "list"
      /\ UNCHANGED <<env, created, count, txCache>>
      /\ Continue(k, Goes(f, txCache'))
  BY FetchKinds DEF ListSignatures
<1>2. id \in Id /\ count[id] \in 0 .. Len(Instructions) /\ Len(Instructions) \in Nat
  BY <1>1, RouteAssumption DEF Listing, RouteTypeOK
<1>3. many \in Nat /\ many <= count[id]
  <2>1. {Window, count[id]} \in SUBSET Nat /\ {Window, count[id]} # {}
    BY <1>2, RouteAssumption
  <2> QED
    BY <2>1, LeastOf
<1> HIDE DEF many
<1>4. \A n \in 1 .. many : count[id] + 1 - n \in 1 .. Len(Instructions)
  BY <1>2, <1>3
<1>5. latest \in Seq(Signature) /\ DOMAIN latest = 1 .. many
  <2>1. \A n \in 1 .. many : <<id, count[id] + 1 - n>> \in Signature
    BY <1>2, <1>4 DEF Signature
  <2>2. latest \in [1 .. many -> Signature]
    BY <2>1
  <2>3. DOMAIN latest = 1 .. many
    OBVIOUS
  <2> HIDE DEF latest
  <2> QED
    BY <1>3, <2>2, <2>3
<1>6. ListedOnce(f)
  <2> SUFFICES ASSUME NEW m \in 1 .. many, NEW n \in 1 .. many, latest[m] = latest[n]
               PROVE  m = n
    BY <1>5 DEF ListedOnce
  <2>1. count[id] + 1 - m = count[id] + 1 - n
    OBVIOUS
  <2> QED
    BY <1>2, <1>3, <2>1
<1> HIDE DEF latest
<1>7. Len(latest) \in Nat
  BY <1>5
<1>8. <<>> \in Seq(Label) /\ Len(<<>>) = 0
  OBVIOUS
<1>9. f \in Timeline /\ f.entries = <<>> /\ f.window = latest
      /\ f.market = id /\ f.source = fetch[k].source
  BY <1>1, <1>2, <1>5, <1>8 DEF Timeline, Listing
<1> HIDE DEF f
<1>10. Len(f.entries) <= Len(f.window)
  BY <1>7, <1>8, <1>9
<1>11. /\ ShowsCached(f, DOMAIN txCache')
       /\ ShowsAgain(f, SigsOf(shown[k]))
  BY <1>9 DEF ShowsCached, ShowsAgain
<1>12. /\ DOMAIN txCache \subseteq DOMAIN txCache'
       /\ DOMAIN txCache' \subseteq Signature /\ CacheTrue'
  BY <1>1 DEF RouteTypeOK, CacheTrue
<1>13. ASSUME k = Default
       PROVE  /\ Chosen(f.market, f.source)
              /\ response[k].status = 200 => response[k].market <= f.market
  BY <1>1, <1>9, <1>13 DEF DefaultInOrder
<1> QED
  BY <1>1, <1>6, <1>9, <1>10, <1>11, <1>12, <1>13, InLoop

(* An answer to the signature awaited, or none: an entry more.             *)
LEMMA AnswerKeeps ==
  ASSUME RouteInv, NEW k \in Key, fetch[k].at = "timeline", NEW label \in Label,
         DOMAIN txCache \subseteq DOMAIN txCache',
         DOMAIN txCache' \subseteq Signature, CacheTrue',
         \/ label = "UNKNOWN"
         \/ /\ label = LabelOf(Awaited(fetch[k]))
            /\ Awaited(fetch[k]) \in DOMAIN txCache',
         Continue(k, Goes(With(fetch[k], label), txCache')),
         UNCHANGED <<env, created, count>>
  PROVE  RouteInv' /\ MovesForward
<1> USE DEF RouteInv
<1> DEFINE g == fetch[k]
           f == With(g, label)
           sigs == SigsOf(shown[k])
<1>1. /\ g \in Timeline /\ ListedOnce(g)
      /\ ShowsCached(g, DOMAIN txCache) /\ ShowsAgain(g, sigs)
      /\ Len(g.entries) < Len(g.window) /\ Awaited(g) \notin sigs
  BY FetchKinds DEF TimelinesGrow, Waits
<1> HIDE DEF g, sigs
<1>2. /\ g.window \in Seq(Signature) /\ g.entries \in Seq(Label)
      /\ Len(g.entries) \in Nat /\ Len(g.window) \in Nat
  BY <1>1 DEF Timeline
<1> DEFINE entries == Append(g.entries, label)
           last == Len(g.entries) + 1
<1>3. /\ entries \in Seq(Label) /\ Len(entries) = last
      /\ DOMAIN entries = 1 .. last /\ entries[last] = label
      /\ \A n \in 1 .. Len(g.entries) : entries[n] = g.entries[n]
      /\ DOMAIN g.entries = 1 .. Len(g.entries)
  BY <1>2
<1> HIDE DEF entries
<1>4. /\ f \in Timeline /\ f.entries = entries /\ f.window = g.window
      /\ f.market = g.market /\ f.source = g.source
  BY <1>1, <1>3 DEF With, Timeline, entries
<1> HIDE DEF f
<1>5. Len(f.entries) <= Len(f.window) /\ ListedOnce(f)
  BY <1>1, <1>2, <1>3, <1>4 DEF ListedOnce
<1>6. \A n \in DOMAIN entries : n \in DOMAIN g.entries \/ n = last
  BY <1>2, <1>3
<1>7. Awaited(g) = g.window[last]
  BY DEF Awaited
<1>8. ShowsCached(f, DOMAIN txCache')
  BY <1>1, <1>3, <1>4, <1>6, <1>7 DEF ShowsCached, g
<1>9. ShowsAgain(f, sigs)
  BY <1>1, <1>3, <1>4, <1>6, <1>7 DEF ShowsAgain
<1>10. ASSUME k = Default
       PROVE  /\ Chosen(f.market, f.source)
              /\ response[k].status = 200 => response[k].market <= f.market
  BY <1>4, <1>10 DEF DefaultInOrder, g
<1> QED
  BY <1>4, <1>5, <1>8, <1>9, <1>10, InLoop DEF f, g, sigs

(* The transaction arrives and is decoded and cached.                      *)
LEMMA GetKeeps ==
  ASSUME RouteInv, NEW k \in Key, GetTransaction(k)
  PROVE  RouteInv' /\ MovesForward
<1> DEFINE sig == Awaited(fetch[k])
<1>1. sig \in Signature
  BY FetchKinds DEF GetTransaction, RouteInv, TimelinesGrow, Waits, Awaited, Timeline
<1>2. LabelOf(sig) \in Label
  BY <1>1 DEF Label
<1>3. txCache' = Remember(sig)
  BY DEF GetTransaction
<1>4. /\ DOMAIN txCache \subseteq DOMAIN txCache' /\ sig \in DOMAIN txCache'
      /\ DOMAIN txCache' \subseteq Signature
  BY <1>1, <1>3, Remembered DEF RouteInv, RouteTypeOK
<1>5. CacheTrue'
  BY <1>3, Remembered DEF RouteInv, CacheTrue
<1> QED
  BY <1>2, <1>4, <1>5, AnswerKeeps DEF GetTransaction

(* The node does not find it, and nothing is cached.                       *)
LEMMA NotFoundKeeps ==
  ASSUME RouteInv, NEW k \in Key, NotFound(k)
  PROVE  RouteInv' /\ MovesForward
<1>1. UNCHANGED txCache /\ "UNKNOWN" \in Label
  BY DEF NotFound, AfterNotFound, Label
<1>2. /\ DOMAIN txCache \subseteq DOMAIN txCache'
      /\ DOMAIN txCache' \subseteq Signature /\ CacheTrue'
  BY <1>1 DEF RouteInv, RouteTypeOK, CacheTrue
<1> QED
  BY <1>1, <1>2, AnswerKeeps DEF NotFound

(* Nothing that happens on the chain changes an answer given or under way. *)
LEMMA ChainKeeps ==
  ASSUME RouteInv,
         \/ UNCHANGED routeVars
         \/ \E id \in Id : CreateMarket(id) \/ Transact(id)
  PROVE  RouteInv' /\ MovesForward
<1> USE DEF RouteInv
<1>1. /\ UNCHANGED <<vercelEnv, canonicalId, txCache, fetch, response, shown>>
      /\ created \subseteq created'
  BY DEF CreateMarket, Transact, routeVars, env
<1>2. created' \subseteq Id /\ count' \in [Id -> 0 .. Len(Instructions)]
  <2>1. ASSUME NEW id \in Id, CreateMarket(id)
        PROVE  created' \subseteq Id /\ count' \in [Id -> 0 .. Len(Instructions)]
    <3>1. 1 \in 0 .. Len(Instructions)
      BY RouteAssumption
    <3> QED
      BY <2>1, <3>1 DEF CreateMarket, RouteTypeOK
  <2>2. ASSUME NEW id \in Id, Transact(id)
        PROVE  created' \subseteq Id /\ count' \in [Id -> 0 .. Len(Instructions)]
    <3>1. count[id] + 1 \in 0 .. Len(Instructions)
      BY <2>2, RouteAssumption DEF Transact, RouteTypeOK
    <3> QED
      BY <2>2, <3>1 DEF Transact, RouteTypeOK
  <2>3. ASSUME UNCHANGED routeVars
        PROVE  created' \subseteq Id /\ count' \in [Id -> 0 .. Len(Instructions)]
    BY <2>3 DEF routeVars, RouteTypeOK
  <2> QED
    BY <2>1, <2>2, <2>3
<1>3. RouteTypeOK' /\ CacheTrue' /\ DecodedCached' /\ NeverUndecoded' /\ TimelinesGrow'
  BY <1>1, <1>2
  DEF RouteTypeOK, CacheTrue, DecodedCached, NeverUndecoded, TimelinesGrow
<1>4. DefaultInOrder'
  BY <1>1 DEF DefaultInOrder, Chosen, hasCanonicalMint, RefusesUnpinnedProduction,
    Unpinned
<1>5. MovesForward
  <2>1. \A m \in created : m \in Nat
    BY RouteAssumption DEF RouteTypeOK
  <2> QED
    BY <1>1, <2>1 DEF MovesForward, DefaultInOrder, Chosen
<1> QED
  BY <1>3, <1>4, <1>5

-----------------------------------------------------------------------------
(* The theorems.                                                           *)

(* Each step keeps the invariant and is as the two action properties say.  *)
LEMMA RouteStep ==
  RouteInv /\ [RouteNext]_routeVars => RouteInv' /\ MovesForward
<1> SUFFICES ASSUME RouteInv, [RouteNext]_routeVars
             PROVE  RouteInv' /\ MovesForward
  OBVIOUS
<1>1. ASSUME NEW k \in Key, Begin(k) \/ Step(k) \/ NotFound(k) \/ RequestFails(k)
      PROVE  RouteInv' /\ MovesForward
  BY <1>1, BeginKeeps, FindKeeps, ListKeeps, GetKeeps, NotFoundKeeps, FailureKeeps
  DEF Step
<1> QED
  BY <1>1, ChainKeeps DEF RouteNext

(* The invariant.                                                          *)
THEOREM RouteInvariant == RouteSpec => []RouteInv
<1>1. RouteInit => RouteInv
  <2> SUFFICES ASSUME RouteInit PROVE RouteInv
    OBVIOUS
  <2>1. /\ DOMAIN txCache = {} /\ DOMAIN response = Key /\ DOMAIN shown = Key
        /\ \A k \in Key : /\ fetch[k] = Idle /\ response[k] = NoAnswer
                         /\ shown[k] = {}
    BY DEF RouteInit
  <2>2. RouteTypeOK
    <3>1. count \in [Id -> 0 .. Len(Instructions)]
      BY RouteAssumption DEF RouteInit
    <3> QED
      BY <2>1, <3>1 DEF RouteInit, RouteTypeOK
  <2>3. Idle.at = "idle" /\ NoAnswer.status = 0
    BY DEF Idle, NoAnswer
  <2>4. \A k \in Key : shown[k] = {} /\ Shown(response[k]) = {}
    BY <2>1, <2>3 DEF Shown
  <2>5. CacheTrue /\ DecodedCached /\ NeverUndecoded /\ TimelinesGrow
    BY <2>1, <2>3, <2>4 DEF CacheTrue, DecodedCached, NeverUndecoded, TimelinesGrow
  <2>6. DefaultInOrder
    BY <2>1, <2>3, DefaultIsKey DEF DefaultInOrder
  <2> QED
    BY <2>2, <2>5, <2>6 DEF RouteInv
<1>2. RouteInv /\ [RouteNext]_routeVars => RouteInv'
  BY RouteStep
<1> QED
  BY <1>1, <1>2, PTL DEF RouteSpec

(* The default answer is about the pinned market, and in production never  *)
(* about one that a scan has found.                                        *)
THEOREM CanonicalByDefault == RouteSpec => []DefaultIsCanonical
<1>1. RouteInv => DefaultIsCanonical
  BY DEF RouteInv, DefaultInOrder, Chosen, hasCanonicalMint, DefaultIsCanonical
<1> QED
  BY <1>1, RouteInvariant, PTL

(* And the market that it is about is replaced only by a later one.        *)
THEOREM DefaultForward == RouteSpec => DefaultMovesForward
<1>1. MovesForward <=>
        LET r == response[Default]
        IN  r.status = 200 /\ response'[Default].status = 200 =>
              response'[Default].market >= r.market
  BY DEF MovesForward
<1> QED
  BY <1>1, RouteInvariant, RouteStep, PTL DEF RouteSpec, DefaultMovesForward

(* What any answer has shown decoded, all later answers show as it was.    *)
THEOREM DecodedForGood == RouteSpec => []NeverUndecoded
<1>1. RouteInv => NeverUndecoded
  BY DEF RouteInv
<1> QED
  BY <1>1, RouteInvariant, PTL
=============================================================================

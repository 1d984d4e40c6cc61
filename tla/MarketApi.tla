----------------------------- MODULE MarketApi ------------------------------
(***************************************************************************)
(* The route /api/market of the dashboard's server: a response cache with  *)
(* a lifetime, and one upstream fetch at a time per cache key              *)
(* (dashboard/src/app/api/market/route.ts).  Keys do not interact, so one  *)
(* is modelled.  What a fetch reads is abstracted to how much of the       *)
(* chain's history it has seen: a version of the chain for the market      *)
(* account, and a later one for the list of its transactions.              *)
(***************************************************************************)
EXTENDS Naturals

CONSTANTS
  Request,      \* the requests that may be under way at once
  Ttl,          \* RESPONSE_CACHE_TTL_MS, in ticks of the clock
  MaxVersion,   \* bound on what happens to the market on chain
  MaxFailures,  \* bound on the fetches that fail
  Latency       \* the ticks within which a fetch ends

ASSUME ApiAssumption ==
  /\ Ttl \in Nat \ {0}
  /\ {MaxVersion, MaxFailures, Latency} \subseteq Nat

VARIABLES
  chain,     \* how much has happened to the market on chain
  entry,     \* responseCache.get(key)
  request,   \* where each request is, and what it has read or is answered
  failures,  \* the fetches that have failed
  sinceFill  \* history: ticks since a fetch last succeeded, at most Ttl

apiVars == <<chain, entry, request, failures, sinceFill>>

(* A payload: the versions at which the market account and its list of     *)
(* signatures were read.                                                   *)
Payloads == [market : 0 .. MaxVersion, timeline : 0 .. MaxVersion]
NoPayload == [market |-> 0, timeline |-> 0]

(* The cache entry; filled stands for data # null, freshFor is what is     *)
(* left of expiresAt - Date.now(), and inFlight the request whose fetch is *)
(* under way.                                                              *)
NoOne == "no request"
ASSUME NoOneAssumption == NoOne \notin Request

EmptyEntry == [filled |-> FALSE, data |-> NoPayload, freshFor |-> 0,
               inFlight |-> NoOne]

(* A request: on its way, waiting for another's fetch, fetching itself     *)
(* (the market account, then the signatures), or answered; late counts the *)
(* ticks its own fetch has taken.                                          *)
At(at, p) == [at |-> at, data |-> p, ok |-> FALSE, late |-> 0]
Free == At("free", NoPayload)
Sent == At("sent", NoPayload)
Joined == At("joined", NoPayload)
Answer(p) == [at |-> "answered", data |-> p, ok |-> TRUE, late |-> 0]
ErrorAnswer == At("answered", NoPayload)

Fetching(r) == request[r].at \in {"market", "timeline", "done"}

ApiInit ==
  /\ chain = 0
  /\ entry = EmptyEntry
  /\ request = [r \in Request |-> Free]
  /\ failures = 0
  /\ sinceFill = Ttl

-----------------------------------------------------------------------------
(* getCachedOrFetch, up to its first await: a hit, a request that joins    *)
(* the fetch in flight, or a miss that starts one.                         *)
Hit == entry.filled /\ entry.freshFor > 0

NeverJoins == FALSE  \* mutant: each miss fetches for itself
Joins == entry.inFlight # NoOne

Arrive(r) ==
  /\ request[r] = Sent
  /\ \/ /\ Hit
        /\ request' = [request EXCEPT ![r] = Answer(entry.data)]
        /\ UNCHANGED entry
     \/ /\ ~Hit /\ Joins
        /\ request' = [request EXCEPT ![r] = Joined]
        /\ UNCHANGED entry
     \/ /\ ~Hit /\ ~Joins
        /\ request' = [request EXCEPT ![r] = At("market", NoPayload)]
        /\ entry' = [entry EXCEPT !.inFlight = r]
  /\ UNCHANGED <<chain, failures, sinceFill>>

(* resolveMarketData reads the account (getAccountInfo), then              *)
(* buildTimeline lists its signatures.                                     *)
ReadMarket(r) ==
  /\ request[r].at = "market"
  /\ request' = [request EXCEPT ![r].at = "timeline", ![r].data.market = chain]
  /\ UNCHANGED <<chain, entry, failures, sinceFill>>

ListedFinalized == IF chain = 0 THEN 0 ELSE chain - 1  \* mutant: commitment
Listed == chain

ReadTimeline(r) ==
  /\ request[r].at = "timeline"
  /\ request' = [request EXCEPT ![r].at = "done", ![r].data.timeline = Listed]
  /\ UNCHANGED <<chain, entry, failures, sinceFill>>

(* The fetching request, and all that await its promise, get its result.   *)
AnswerAll(r, answer) ==
  request' = [q \in Request |->
                IF q = r \/ (entry.inFlight = r /\ request[q] = Joined)
                THEN answer ELSE request[q]]

(* The fetch succeeds: its payload becomes the entry, fresh from now on.   *)
FetchSucceeds(r) ==
  /\ request[r].at = "done"
  /\ entry' = [filled |-> TRUE, data |-> request[r].data, freshFor |-> Ttl,
               inFlight |-> NoOne]
  /\ AnswerAll(r, Answer(request[r].data))
  /\ sinceFill' = 0
  /\ UNCHANGED <<chain, failures>>

(* The fetch fails: the entry is as before it, and nothing is in flight.   *)
FailureStays == entry                                              \* mutant
FailureRefreshes == [entry EXCEPT !.freshFor = Ttl, !.inFlight = NoOne] \* mutant
AfterFailure == [entry EXCEPT !.inFlight = NoOne]

FetchFails(r) ==
  /\ Fetching(r)
  /\ failures < MaxFailures
  /\ failures' = failures + 1
  /\ entry' = AfterFailure
  /\ AnswerAll(r, ErrorAnswer)
  /\ UNCHANGED <<chain, sinceFill>>

-----------------------------------------------------------------------------
(* The clients, the chain and the clock.                                   *)
Send(r) ==
  /\ request[r] = Free
  /\ request' = [request EXCEPT ![r] = Sent]
  /\ UNCHANGED <<chain, entry, failures, sinceFill>>

(* The response reaches the client.                                        *)
Receive(r) ==
  /\ request[r].at = "answered"
  /\ request' = [request EXCEPT ![r] = Free]
  /\ UNCHANGED <<chain, entry, failures, sinceFill>>

Happen ==
  /\ chain < MaxVersion
  /\ chain' = chain + 1
  /\ UNCHANGED <<entry, request, failures, sinceFill>>

Less(n) == IF n = 0 THEN 0 ELSE n - 1
More(n, top) == IF n = top THEN top ELSE n + 1

ApiTick ==
  /\ \A r \in Request : Fetching(r) => request[r].late < Latency
  /\ entry' = [entry EXCEPT !.freshFor = Less(@)]
  /\ request' = [r \in Request |->
                   IF Fetching(r) THEN [request[r] EXCEPT !.late = @ + 1]
                   ELSE request[r]]
  /\ sinceFill' = More(sinceFill, Ttl)
  /\ UNCHANGED <<chain, failures>>

Fetch(r) == ReadMarket(r) \/ ReadTimeline(r) \/ FetchSucceeds(r) \/ FetchFails(r)

Next == \/ \E r \in Request : Send(r) \/ Arrive(r) \/ Fetch(r) \/ Receive(r)
        \/ Happen
        \/ ApiTick

Spec == ApiInit /\ [][Next]_apiVars

-----------------------------------------------------------------------------
(* Properties.                                                             *)

(* The cache never goes back in time: no fetch that began earlier replaces *)
(* what a later one has read.                                              *)
CacheMovesForward ==
  [][/\ entry'.data.market >= entry.data.market
     /\ entry'.data.timeline >= entry.data.timeline]_apiVars

(* A stored payload is served for Ttl ticks after the fetch that read it   *)
(* and no longer, failures of later fetches included.                      *)
NothingExpiredServed ==
  [][\A r \in Request :
       request[r] = Sent /\ request'[r].ok => sinceFill < Ttl]_apiVars
=============================================================================

---------------------------- MODULE MarketRoute -----------------------------
(***************************************************************************)
(* What one fetch of /api/market does (dashboard/src/app/api/market/       *)
(* route.ts, with the choice of the market in lib/pari.ts): find the       *)
(* market, read its account, list its latest transactions and decode those *)
(* that no earlier fetch has decoded.  The fetches of all cache keys share *)
(* the cache of decoded transactions.  When a key's next fetch begins is   *)
(* MarketApi's matter: here it may begin whenever the last one has ended.  *)
(* JavaScript runs from one await to the next without interruption, so     *)
(* such a stretch is one action.                                           *)
(***************************************************************************)
EXTENDS Naturals, Sequences, FiniteSets, FiniteSetsExt

CONSTANTS
  Id,             \* the market ids that may come into being
  MintOf,         \* the usdc_mint their creators choose
  CanonicalMint,  \* CANONICAL_USDC_MINT
  AskedIds,       \* the ids asked for with ?id=
  Junk,           \* an id parameter, or a pin, that is no number
  Pins,           \* the values CANONICAL_MARKET_ID may have, {} for unset
  Deployments,    \* VERCEL_ENV
  Instructions,   \* by age, what the transactions of a market are
  Busy,           \* bound: the markets that are used after their creation
  Window,         \* the 25 signatures of getSignaturesForAddress
  Cap,            \* NEW_TX_FETCH_CAP_PER_REQUEST
  MaxMishaps      \* bound: refused requests and transactions not found

ASSUME RouteAssumption ==
  /\ Id \subseteq Nat /\ AskedIds \subseteq Id \cup {Junk} /\ Junk \notin Nat
  /\ {Window, Cap} \subseteq Nat \ {0} /\ MaxMishaps \in Nat
  /\ Len(Instructions) \in Nat \ {0}          \* the creation comes first

(* An environment variable has one value, or none.                         *)
ASSUME PinsAssumption == \A pin \in Pins : \A id, other \in pin : id = other

VARIABLES
  vercelEnv, canonicalId,  \* the environment variables of the server
  created,     \* the ids of the markets that exist
  count,       \* how many transactions mention each market
  txCache,     \* txCache: the label of each decoded signature
  fetch,       \* the fetch under way for each key
  response,    \* the last response of each key
  shown,       \* history: the decoded entries of all its responses
  mishaps

env == <<vercelEnv, canonicalId>>
routeVars == <<env, created, count, txCache, fetch, response, shown, mishaps>>

-----------------------------------------------------------------------------
(* The cache keys: the default market, and one for each id asked for.      *)
Default == <<>>
Key == {Default} \cup {<<id>> : id \in AskedIds}

(* A signature is its market and its number on it.                         *)
Signature == {<<id, n>> : id \in Id, n \in 1 .. Len(Instructions)}

(* The timeline's entry for a transaction: the name of its first           *)
(* instruction that is addressed to the program.                           *)
LabelOf(sig) ==
  LET own == SelectSeq(Instructions[sig[2]], LAMBDA ix : ix # "other")
  IN  IF own = <<>> THEN "UNKNOWN" ELSE Head(own)

Idle == [at |-> "idle"]
NoAnswer == [status |-> 0]
Failed(status) == [status |-> status]

-----------------------------------------------------------------------------
(* lib/pari.ts: which market is the default one.                           *)
Unpinned == canonicalId = {}                  \* parseCanonicalMarketId
RefusesNever == FALSE  \* mutant
RefusesUnpinnedProduction == vercelEnv = "production" /\ Unpinned

hasCanonicalMint(id) == MintOf[id] = CanonicalMint

(* The order in which the node lists the accounts is any, and of no        *)
(* account but the greatest survives the loop.                             *)
AnyCandidate(candidates) == candidates  \* mutant: the first one listed
selectCanonicalMarket(candidates) ==
  {id \in candidates : \A other \in candidates : id >= other}

(* A pin that is not found is not replaced by what a scan would find.      *)
FallsBack(id) ==  \* mutant
  IF id \in created THEN {id}
  ELSE selectCanonicalMarket({c \in created : hasCanonicalMint(c)})
PinnedAccount(id) == {id} \cap created

-----------------------------------------------------------------------------
(* The loop of buildTimeline, from position i to its next await: the       *)
(* signatures decoded before are listed at once; of the others, the first  *)
(* is asked for unless Cap have been, and then the rest are PENDING.       *)
CapReached(f) == f.newFetches = Cap

Goes(f, cache) ==
  LET i       == Len(f.entries) + 1
      Known(n) == f.window[n] \in DOMAIN cache
      unknown == {n \in i .. Len(f.window) : ~Known(n)}
      stop    == IF unknown = {} \/ CapReached(f) THEN Len(f.window) + 1 ELSE Min(unknown)
      passed  == [n \in 1 .. stop - i |->
                    IF Known(i + n - 1) THEN cache[f.window[i + n - 1]] ELSE "PENDING"]
  IN  [f EXCEPT !.entries = @ \o passed,
                !.newFetches = IF stop > Len(f.window) THEN @ ELSE @ + 1]

(* The fetch of key k goes on, or returns its payload.                     *)
Payload(f) == [status |-> 200, market |-> f.market, source |-> f.source,
               timeline |-> [n \in DOMAIN f.window |-> <<f.window[n], f.entries[n]>>]]
Shown(r) == IF r.status = 200 THEN {r.timeline[n] : n \in DOMAIN r.timeline} ELSE {}
Decoded(r) == {e \in Shown(r) : e[2] \notin {"PENDING", "UNKNOWN"}}

Continue(k, f) ==
  IF Len(f.entries) = Len(f.window)
  THEN /\ fetch' = [fetch EXCEPT ![k] = Idle]
       /\ response' = [response EXCEPT ![k] = Payload(f)]
       /\ shown' = [shown EXCEPT ![k] = @ \cup Decoded(Payload(f))]
  ELSE /\ fetch' = [fetch EXCEPT ![k] = f]
       /\ UNCHANGED <<response, shown>>

Fail(k, status) == /\ fetch' = [fetch EXCEPT ![k] = Idle]
                   /\ response' = [response EXCEPT ![k] = Failed(status)]
                   /\ UNCHANGED shown

Found(k, id, source) ==
  /\ fetch' = [fetch EXCEPT ![k] = [at |-> "list", market |-> id, source |-> source]]
  /\ UNCHANGED <<response, shown>>

-----------------------------------------------------------------------------
RouteInit ==
  /\ vercelEnv \in Deployments /\ canonicalId \in Pins
  /\ created = {}
  /\ count = [id \in Id |-> 0]
  /\ txCache = <<>>
  /\ fetch = [k \in Key |-> Idle]
  /\ response = [k \in Key |-> NoAnswer]
  /\ shown = [k \in Key |-> {}]
  /\ mishaps = 0

(* A request finds nothing fresh: resolveMarketData up to its first await. *)
Begin(k) ==
  /\ fetch[k].at = "idle"
  /\ LET id == IF k = Default THEN canonicalId ELSE {k[1]}
     IN  \/ /\ k = Default /\ RefusesUnpinnedProduction
            /\ Fail(k, 500)
         \/ /\ Junk \in id                          \* BigInt throws
            /\ Fail(k, 500)
         \/ /\ ~(k = Default /\ RefusesUnpinnedProduction) /\ Junk \notin id
            /\ fetch' = [fetch EXCEPT ![k] = [at |-> "find", id |-> id]]
            /\ UNCHANGED <<response, shown>>
  /\ UNCHANGED <<env, created, count, txCache, mishaps>>

(* getAccountInfo, or the scan's getProgramAccounts; then decodeMarket.    *)
FindMarket(k) ==
  /\ fetch[k].at = "find"
  /\ LET scanned == fetch[k].id = {}
         found == IF scanned
                  THEN selectCanonicalMarket({id \in created : hasCanonicalMint(id)})
                  ELSE UNION {PinnedAccount(id) : id \in fetch[k].id}
         source == IF k # Default THEN "asked" ELSE IF scanned THEN "scan" ELSE "pinned"
     IN  \/ found = {} /\ Fail(k, 404)
         \/ \E id \in found : Found(k, id, source)
  /\ UNCHANGED <<env, created, count, txCache, mishaps>>

(* getSignaturesForAddress: the latest Window ones, latest first.          *)
ListSignatures(k) ==
  /\ fetch[k].at = "list"
  /\ LET id == fetch[k].market
         latest == [n \in 1 .. Min({Window, count[id]}) |-> <<id, count[id] + 1 - n>>]
         f == [at |-> "timeline", market |-> id, source |-> fetch[k].source,
               window |-> latest, entries |-> <<>>, newFetches |-> 0]
     IN  Continue(k, Goes(f, txCache))
  /\ UNCHANGED <<env, created, count, txCache, mishaps>>

(* getTransaction of the signature the loop waits for.                     *)
Awaited(f) == f.window[Len(f.entries) + 1]
With(f, label) == [f EXCEPT !.entries = Append(@, label)]

WithEntry(sig, label) ==  \* txCache.set
  [s \in DOMAIN txCache \cup {sig} |-> IF s = sig THEN label ELSE txCache[s]]

Remember(sig) == WithEntry(sig, LabelOf(sig))

GetTransaction(k) ==
  /\ fetch[k].at = "timeline"
  /\ LET sig == Awaited(fetch[k])
     IN  /\ txCache' = Remember(sig)
         /\ Continue(k, Goes(With(fetch[k], LabelOf(sig)), txCache'))
  /\ UNCHANGED <<env, created, count, mishaps>>

RemembersNotFound(sig) == WithEntry(sig, "UNKNOWN")  \* mutant
AfterNotFound(sig) == txCache

(* The node lists a signature that it does not find yet: not cached.       *)
NotFound(k) ==
  /\ fetch[k].at = "timeline"
  /\ mishaps < MaxMishaps /\ mishaps' = mishaps + 1
  /\ txCache' = AfterNotFound(Awaited(fetch[k]))
  /\ Continue(k, Goes(With(fetch[k], "UNKNOWN"), txCache'))
  /\ UNCHANGED <<env, created, count>>

(* The node refuses, or fails to answer: an error of the whole request,    *)
(* which leaves the cache with what was decoded before it.                 *)
StartsAfresh == <<>>  \* mutant: the cache is dropped with the response
AfterRefusal == txCache

RequestFails(k) ==
  /\ fetch[k].at # "idle"
  /\ mishaps < MaxMishaps /\ mishaps' = mishaps + 1
  /\ txCache' = AfterRefusal
  /\ Fail(k, 500)
  /\ UNCHANGED <<env, created, count>>

(* The chain: anybody creates a market, whose id is free, with any mint,   *)
(* and the markets' transactions follow.                                   *)
CreateMarket(id) ==
  /\ id \notin created
  /\ created' = created \cup {id}
  /\ count' = [count EXCEPT ![id] = 1]
  /\ UNCHANGED <<env, txCache, fetch, response, shown, mishaps>>

Transact(id) ==
  /\ id \in created \cap Busy /\ count[id] < Len(Instructions)
  /\ count' = [count EXCEPT ![id] = @ + 1]
  /\ UNCHANGED <<env, created, txCache, fetch, response, shown, mishaps>>

Step(k) == FindMarket(k) \/ ListSignatures(k) \/ GetTransaction(k)

RouteNext == \/ \E k \in Key : Begin(k) \/ Step(k) \/ NotFound(k) \/ RequestFails(k)
             \/ \E id \in Id : CreateMarket(id) \/ Transact(id)

(* Visitors go on asking for every key, and the node answers.              *)
RouteSpec == /\ RouteInit
             /\ [][RouteNext]_routeVars
             /\ \A k \in Key : WF_routeVars(Begin(k)) /\ WF_routeVars(Step(k))

-----------------------------------------------------------------------------
(* Properties.                                                             *)
(* The default market is the one production has been pinned to, whatever   *)
(* markets anybody creates and in whatever order: it is never looked for   *)
(* elsewhere, least of all in production, and a scan, where it is allowed, *)
(* answers with no market on another mint.                                 *)
DefaultIsCanonical ==
  LET r == response[Default]
  IN  r.status = 200 =>
        /\ canonicalId # {} => r.market \in canonicalId /\ r.source = "pinned"
        /\ vercelEnv = "production" => r.source = "pinned"
        /\ r.source = "scan" => MintOf[r.market] = CanonicalMint

(* A visitor of the default page is not sent back and forth: markets come  *)
(* into being while fetches are under way, and the default market changes  *)
(* only to a later one.                                                    *)
DefaultMovesForward ==
  [][LET r == response[Default]
     IN  r.status = 200 /\ response'[Default].status = 200 =>
           response'[Default].market >= r.market]_routeVars

(* What any response of a key has shown decoded, no later response of that *)
(* key shows otherwise, however many fetches fail in between and however   *)
(* many transactions follow ("once decoded it is never refetched").        *)
NeverUndecoded ==
  \A k \in Key : \A e \in shown[k], e2 \in Shown(response[k]) :
    e2[1] = e[1] => e2 = e

(* What is deferred is resolved: once the market is quiet, everything its  *)
(* timeline still lists comes to be decoded and stays so, through refused  *)
(* requests and transactions that are not found at first ("it is never     *)
(* silently dropped, only deferred").                                      *)
Settled(r) == \A e \in Shown(r) : e[2] = LabelOf(e[1])
TimelineSettles == <>[](\A k \in Key : Settled(response[k]))
=============================================================================

----------------------------- MODULE MarketPage -----------------------------
(***************************************************************************)
(* The market page of the dashboard (dashboard/src/app/market/page.tsx)    *)
(* polling the API of MarketApi.  The page asks every Period ticks, and    *)
(* at once when a panel tells it that a transaction has been confirmed;    *)
(* requests overlap, and the last response to arrive is the one shown.     *)
(***************************************************************************)
EXTENDS MarketApi

CONSTANTS
  Own,     \* the requests that this page may have under way at once
  Period   \* the interval of setInterval, in ticks

ASSUME PageAssumption == Own \subseteq Request /\ Period \in Nat \ {0}

VARIABLES
  page,      \* `data`: loaded or null, and the payload
  error,     \* `error` is not null
  untilTick, \* what is left of the interval
  awaited    \* history: the chain's version when a panel last called fetchMarket

pageVars == <<page, error, untilTick, awaited>>

PageInit ==
  /\ ApiInit
  /\ page = [loaded |-> FALSE, data |-> NoPayload]
  /\ error = FALSE
  /\ untilTick = 0
  /\ awaited = 0

-----------------------------------------------------------------------------
(* tick(): the interval's callback, also called when the page is mounted.  *)
PollTick(r) ==
  /\ r \in Own
  /\ untilTick = 0
  /\ Send(r)
  /\ untilTick' = Period
  /\ UNCHANGED <<page, error, awaited>>

(* onDeposited, onClaimed: the transaction is on chain, so do not wait for *)
(* the next tick.                                                          *)
Refetch(r) ==
  /\ r \in Own
  /\ chain > awaited
  /\ Send(r)
  /\ awaited' = chain
  /\ UNCHANGED <<page, error, untilTick>>

(* fetchMarket gets its response: an error leaves the data as they were.   *)
IsError(r) == ~request[r].ok

Respond(r) ==
  /\ r \in Own
  /\ Receive(r)
  /\ error' = IsError(r)
  /\ page' = IF IsError(r) THEN page
             ELSE [loaded |-> TRUE, data |-> request[r].data]
  /\ UNCHANGED <<untilTick, awaited>>

(* The other visitors' requests, and the server's steps.                   *)
Others ==
  /\ \/ \E r \in Request : Arrive(r) \/ Fetch(r)
     \/ \E r \in Request \ Own : Send(r) \/ Receive(r)
     \/ Happen
  /\ UNCHANGED pageVars

(* No interval is skipped: time waits for the callback that is due.        *)
PageClock ==
  /\ untilTick > 0
  /\ ApiTick
  /\ untilTick' = untilTick - 1
  /\ UNCHANGED <<page, error, awaited>>

PageNext ==
  \/ \E r \in Own : PollTick(r) \/ Refetch(r) \/ Respond(r)
  \/ Others
  \/ PageClock

allVars == <<apiVars, pageVars>>

PageSpec == PageInit /\ [][PageNext]_allVars

(* The network and the server answer, and the browser's interval runs.     *)
FairPageSpec ==
  /\ PageSpec
  /\ \A r \in Request : WF_allVars(Others /\ (Arrive(r) \/ Fetch(r)))
  /\ \A r \in Own : WF_allVars(Respond(r))
  /\ \A r \in Request \ Own : WF_allVars(Others /\ Receive(r))
  /\ WF_allVars(\E r \in Own : PollTick(r))
  /\ WF_allVars(PageClock)

-----------------------------------------------------------------------------
(* Properties.                                                             *)

(* The page shows nothing that has not happened, and the market it shows   *)
(* is never ahead of the timeline under it: whatever brought the market to *)
(* its state, the resolution of the receipt included, is listed.           *)
ReceiptIsListed ==
  /\ page.data.market <= page.data.timeline
  /\ page.data.timeline <= chain

(* Whatever was shown in between, the page ends up showing all that has    *)
(* happened, without an error, once the RPC node answers again.            *)
PageCatchesUp ==
  <>[](page.loaded /\ ~error /\ page.data = [market |-> chain, timeline |-> chain])
=============================================================================

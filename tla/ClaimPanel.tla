----------------------------- MODULE ClaimPanel -----------------------------
(***************************************************************************)
(* The claim panel of the market page                                      *)
(* (dashboard/src/app/market/ClaimPanel.tsx) over the program it claims    *)
(* from.  The panel puts together what the page has polled, in whatever    *)
(* order the responses came, with a position that it has read itself, once *)
(* for a connected wallet and a resolved market.  What its button does in  *)
(* detail is TxButton's matter; here a claim is sent and ends some way.    *)
(***************************************************************************)
EXTENDS PariMarket

CONSTANTS
  MaxResponses,  \* bound on the page's requests under way
  MaxFetches     \* bound on the panel's own requests under way

ASSUME PanelAssumption == {MaxResponses, MaxFetches} \subseteq Nat

VARIABLES
  props,      \* what the page passes down, NotLoaded until it has data
  responses,  \* markets that the page's requests have read and not delivered
  connected,  \* useWallet().publicKey
  position,   \* the position fetched last
  loading,
  effectDue,  \* a render was committed whose effect has not run yet
  fetches,    \* the effect's getAccountInfo calls under way
  refused,    \* history: the request made last was refused
  button      \* the TxButton, unmounted while the panel renders null

panelVars == <<props, responses, connected, position, loading, effectDue,
               fetches, refused, button>>
claimVars == <<vars, panelVars>>

NotLoaded == [loaded |-> FALSE, resolved |-> FALSE, outcome |-> Unknown,
              yesPool |-> 0, noPool |-> 0]
MarketNow == [loaded |-> TRUE, resolved |-> resolved, outcome |-> outcome,
              yesPool |-> yes_pool, noPool |-> no_pool]

NoWallet == "disconnected"
NoPosition == [found |-> FALSE, side |-> No, claimed |-> FALSE]
PositionOf(b) == IF opened[b]
                 THEN [found |-> TRUE, side |-> side[b], claimed |-> claimed[b]]
                 ELSE NoPosition

(* What the panel renders: null, or a claim, of winnings or of a refund.   *)
winningPoolEmpty == \/ props.outcome = Yes /\ props.yesPool = 0
                    \/ props.outcome = No /\ props.noPool = 0
isWinner == props.outcome # Unknown /\ position.side = props.outcome
isRefund == winningPoolEmpty /\ ~isWinner

Offered == /\ connected # NoWallet /\ props.resolved
           /\ ~loading /\ position.found /\ ~position.claimed
           /\ isWinner \/ isRefund

(* A step renders: a button that is no longer rendered loses its state.    *)
Button(next) ==
  button' = IF ~Offered' THEN "unmounted"
            ELSE IF button = "unmounted" THEN "idle" ELSE next

PanelInit ==
  /\ Init
  /\ props = NotLoaded
  /\ responses = {}
  /\ connected = NoWallet
  /\ position = NoPosition
  /\ loading = TRUE
  /\ effectDue = FALSE
  /\ fetches = {}
  /\ refused = FALSE
  /\ button = "unmounted"

-----------------------------------------------------------------------------
(* The page and the wallet.  No event of the browser comes between a       *)
(* commit and its effect.                                                  *)
Ready == ~effectDue /\ Cardinality(fetches) < MaxFetches

Requested == created /\ Cardinality(responses) < MaxResponses

PageReads ==
  /\ Requested
  /\ responses' = responses \cup {MarketNow}
  /\ UNCHANGED <<vars, props, connected, position, loading, effectDue, fetches,
                 refused, button>>

(* The effect depends on the wallet, on the market and on `resolved`.      *)
DepsAlways(s) == TRUE              \* mutant: each poll fetches the position
DepsOfMount(s) == ~props.loaded    \* mutant: `resolved` is no dependency
DepsChanged(s) == ~props.loaded \/ props.resolved # s.resolved

PageReceives(s) ==
  /\ Ready
  /\ s \in responses
  /\ responses' = responses \ {s}
  /\ props' = s
  /\ effectDue' = DepsChanged(s)
  /\ UNCHANGED <<vars, connected, position, loading, fetches, refused>>
  /\ Button(button)

SwitchWallet(w) ==
  /\ Ready
  /\ w # connected
  /\ connected' = w
  /\ position' = NoPosition      \* during the render that sees it
  /\ effectDue' = props.loaded
  /\ UNCHANGED <<vars, props, responses, loading, fetches, refused>>
  /\ Button("idle")

-----------------------------------------------------------------------------
(* The effect, and the request that it makes.                              *)
NeverCancelled == fetches  \* mutant: no cleanup
Cancelled == {[f EXCEPT !.live = FALSE] : f \in fetches}

RunEffect ==
  /\ effectDue
  /\ effectDue' = FALSE
  /\ IF connected = NoWallet \/ ~props.resolved
     THEN /\ position' = NoPosition
          /\ loading' = FALSE
          /\ fetches' = Cancelled
     ELSE /\ loading' = TRUE
          /\ fetches' = Cancelled \cup {[of |-> connected, live |-> TRUE,
                                         read |-> FALSE, answer |-> NoPosition]}
          /\ UNCHANGED position
  /\ refused' = FALSE
  /\ UNCHANGED <<vars, props, responses, connected>>
  /\ Button(button)

PositionRead(f) ==
  /\ f \in fetches /\ ~f.read
  /\ fetches' = (fetches \ {f}) \cup {[f EXCEPT !.read = TRUE,
                                                !.answer = PositionOf(f.of)]}
  /\ UNCHANGED <<vars, props, responses, connected, position, loading,
                 effectDue, refused, button>>

PositionArrives(f) ==
  /\ ~effectDue
  /\ f \in fetches /\ f.read
  /\ fetches' = fetches \ {f}
  /\ position' = IF f.live THEN f.answer ELSE position
  /\ loading' = (loading /\ ~f.live)
  /\ UNCHANGED <<vars, props, responses, connected, effectDue, refused>>
  /\ Button(button)

(* The request is refused: the promise is rejected, nobody asks again and  *)
(* nothing ends the loading.                                               *)
PositionFails(f) ==
  /\ ~effectDue
  /\ f \in fetches
  /\ fetches' = fetches \ {f}
  /\ refused' = (refused \/ f.live)
  /\ UNCHANGED <<vars, props, responses, connected, position, loading,
                 effectDue, button>>

-----------------------------------------------------------------------------
(* The button, and the claims that land: its own, or one of the same       *)
(* wallet from elsewhere (another tab, an earlier button).                 *)
Press(from, to) ==
  /\ button = from /\ ~effectDue
  /\ button' = to
  /\ UNCHANGED <<props, connected, position, loading, effectDue, fetches, refused>>

Click == Press("idle", "sent") /\ UNCHANGED <<vars, responses>>

(* Rejected by the user, expired, or reverted.                             *)
ClaimFails == Press("sent", "idle") /\ UNCHANGED <<vars, responses>>

OwnClaimLands == /\ connected # NoWallet /\ ClaimPayout(connected)
                 /\ Press("sent", "landed") /\ UNCHANGED responses

(* onConfirmed is onClaimed: the page asks for the market again.           *)
ClaimConfirmed ==
  /\ Requested
  /\ Press("landed", "confirmed")
  /\ responses' = responses \cup {MarketNow}
  /\ UNCHANGED vars

ChainMoves == Next /\ UNCHANGED panelVars

PanelNext ==
  \/ ChainMoves
  \/ PageReads
  \/ \E s \in responses : PageReceives(s)
  \/ \E w \in Bettor \cup {NoWallet} : SwitchWallet(w)
  \/ RunEffect
  \/ \E f \in fetches : PositionRead(f) \/ PositionArrives(f) \/ PositionFails(f)
  \/ Click \/ ClaimFails \/ OwnClaimLands \/ ClaimConfirmed

PanelSpec == PanelInit /\ [][PanelNext]_claimVars

(* The page polls, and requests are answered, unless they are refused.     *)
FairPanelSpec ==
  /\ PanelSpec
  /\ WF_claimVars(PageReads)
  /\ WF_claimVars(\E s \in responses : PageReceives(s))
  /\ WF_claimVars(RunEffect)
  /\ WF_claimVars(\E f \in fetches : PositionRead(f) \/ PositionArrives(f))

-----------------------------------------------------------------------------
(* Properties.                                                             *)

(* A claim is offered only to a wallet that the program pays: the panel's  *)
(* test of the polled market and the fetched position, each from its own   *)
(* moment and possibly old, agrees with the constraint of claim_payout,    *)
(* and so does its label, winnings or refund.                              *)
OfferedIsEligible ==
  Offered => /\ resolved /\ Eligible(connected)
             /\ isWinner <=> outcome = side[connected]
             /\ isRefund <=> WinningPool = 0

(* "Claimed" stays on the page while the wallet stays connected and the    *)
(* page shows a resolved market, the refetch that the claim itself starts  *)
(* included.                                                               *)
ConfirmedOutlivesRefresh ==
  [][button = "confirmed" /\ connected' = connected /\ props'.resolved
       => button' = "confirmed"]_claimVars

(* A connected wallet that may claim comes to be offered the claim, unless *)
(* the one request for its position is refused.                            *)
EligibleIsOffered ==
  \A b \in Bettor :
    resolved /\ connected = b /\ Eligible(b) /\ ~claimed[b]
      ~> Offered \/ connected # b \/ claimed[b] \/ refused
=============================================================================

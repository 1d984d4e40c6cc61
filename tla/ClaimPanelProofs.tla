-------------------------- MODULE ClaimPanelProofs --------------------------
(***************************************************************************)
(* What the claim panel offers and shows, for any number of wallets, of    *)
(* markets polled in any order and of positions read for wallets that have *)
(* been switched since.  The panel's steps are steps of the program or     *)
(* none, so all that is proved of the program holds under it.              *)
(***************************************************************************)
EXTENDS ClaimPanel, PariMarketProofs

View == [loaded : BOOLEAN, resolved : BOOLEAN, outcome : Side \cup {Unknown},
         yesPool : U64, noPool : U64]
Account == [found : BOOLEAN, side : Side, claimed : BOOLEAN]
Fetch == [of : Bettor, live : BOOLEAN, read : BOOLEAN, answer : Account]

PanelTypeOK ==
  /\ props \in View
  /\ responses \subseteq View
  /\ connected \in Bettor \cup {NoWallet}
  /\ position \in Account
  /\ loading \in BOOLEAN /\ effectDue \in BOOLEAN
  /\ fetches \subseteq Fetch

(* A poll that has seen the resolution has seen all that there is to see:  *)
(* neither the outcome nor a pool moves after it.                          *)
SeesResolution(view) ==
  view.resolved => /\ resolved
                   /\ view.outcome = outcome
                   /\ view.yesPool = yes_pool /\ view.noPool = no_pool
PolledInTime == \A view \in responses \cup {props} : SeesResolution(view)

(* An old answer about a position may miss its claim but not its side.     *)
IsOf(account, b) == account.found => opened[b] /\ account.side = side[b]
AccountsOwn ==
  /\ position.found => connected \in Bettor /\ IsOf(position, connected)
  /\ \A f \in fetches : IsOf(f.answer, f.of)

(* The one request that is not cancelled is for the connected wallet, and  *)
(* for a resolved market, but while the effect is due that cancels it; and *)
(* as long as there is one the panel is loading.                           *)
OneLive ==
  /\ \A f \in fetches : f.live => loading
  /\ \A f, g \in fetches : f.live /\ g.live => f = g
  /\ ~effectDue => \A f \in fetches :
                     f.live => f.of = connected /\ props.resolved

(* Before the page has its market nothing is asked.                        *)
LoadedFirst ==
  /\ ~props.loaded => ~props.resolved /\ ~effectDue /\ fetches = {}
  /\ \A view \in responses : view.loaded

(* A position is shown only with the market that it was read for: of an    *)
(* unresolved market there is none, and when the effect is due it is the   *)
(* wallet that has changed, and the position is gone, or `resolved`.       *)
ShownTogether ==
  position.found => (effectDue <=> ~props.resolved)

Mounted == button # "unmounted" => Offered

PanelInv ==
  /\ PanelTypeOK /\ PolledInTime /\ AccountsOwn /\ OneLive /\ LoadedFirst
  /\ ShownTogether /\ Mounted

-----------------------------------------------------------------------------
(* The program under the panel.                                            *)

(* Whoever is connected is a wallet.                                       *)
LEMMA ConnectedType == PanelSpec => [](connected \in Bettor \cup {NoWallet})
<1>1. PanelInit => connected \in Bettor \cup {NoWallet}
  BY DEF PanelInit
<1>2. connected \in Bettor \cup {NoWallet} /\ [PanelNext]_claimVars
        => (connected \in Bettor \cup {NoWallet})'
  BY DEF PanelNext, ChainMoves, PageReads, PageReceives, SwitchWallet, RunEffect,
    PositionRead, PositionArrives, PositionFails, Click, ClaimFails, OwnClaimLands,
    ClaimConfirmed, Press, panelVars, claimVars
<1> QED
  BY <1>1, <1>2, PTL DEF PanelSpec

(* Each step of the panel, of the page and of the wallet is one of the     *)
(* program's or leaves the program alone.                                  *)
LEMMA PanelStepIsProgramStep ==
  connected \in Bettor \cup {NoWallet} /\ [PanelNext]_claimVars => [Next]_vars
<1> SUFFICES ASSUME connected \in Bettor \cup {NoWallet}, [PanelNext]_claimVars
             PROVE  [Next]_vars
  OBVIOUS
<1>1. ASSUME ChainMoves
      PROVE  Next
  BY <1>1 DEF ChainMoves
<1>2. ASSUME OwnClaimLands
      PROVE  Next
  <2>1. connected \in Bettor /\ ClaimPayout(connected)
    BY <1>2 DEF OwnClaimLands
  <2> QED
    BY <2>1 DEF Next
<1>3. ASSUME \/ PageReads \/ RunEffect \/ Click \/ ClaimFails \/ ClaimConfirmed
             \/ \E s \in responses : PageReceives(s)
             \/ \E w \in Bettor \cup {NoWallet} : SwitchWallet(w)
             \/ \E f \in fetches :
                  PositionRead(f) \/ PositionArrives(f) \/ PositionFails(f)
             \/ UNCHANGED claimVars
      PROVE  UNCHANGED vars
  BY <1>3 DEF PageReads, PageReceives, SwitchWallet, RunEffect, PositionRead,
    PositionArrives, PositionFails, Click, ClaimFails, ClaimConfirmed, claimVars
<1> QED
  BY <1>1, <1>2, <1>3 DEF PanelNext

(* The panel drives the program as its specification allows, so that all   *)
(* the program's theorems hold under it.                                   *)
LEMMA PanelImplementsProgram == PanelSpec => Spec
<1>1. PanelInit => Init
  BY DEF PanelInit
<1> QED
  BY <1>1, ConnectedType, PanelStepIsProgramStep, PTL DEF PanelSpec, Spec

(* Once resolved, a market's outcome and pools stay.                       *)
LEMMA ResolutionStays ==
  ASSUME SInv, [Next]_vars, resolved
  PROVE  resolved' /\ UNCHANGED <<outcome, yes_pool, no_pool>>
<1>1. created /\ locked
  BY DEF SInv, IInv, Staged
<1>2. ASSUME NEW t \in Terms, NEW ts \in LockTimes, InitMarket(t, ts)
      PROVE  FALSE
  BY <1>1, <1>2 DEF InitMarket, InitMarketAdmits
<1>3. ASSUME NEW b \in Bettor, NEW n \in DepositAmounts, NEW s \in Side,
             Deposit(b, n, s)
      PROVE  FALSE
  BY <1>1, <1>3 DEF Deposit, DepositAdmits, DepositWindowOpen
<1>4. ASSUME ResolveSome
      PROVE  FALSE
  BY <1>4 DEF ResolveSome, Resolve, ResolveAdmits
<1>5. ASSUME NEW b \in Bettor, ClaimPayout(b)
      PROVE  resolved' /\ UNCHANGED <<outcome, yes_pool, no_pool>>
  BY <1>5 DEF ClaimPayout, marketVars
<1>6. ASSUME NEW b \in Bettor, NEW n \in DepositAmounts, Gift(b, n)
      PROVE  resolved' /\ UNCHANGED <<outcome, yes_pool, no_pool>>
  BY <1>6 DEF Gift, marketVars
<1>7. ASSUME NEW sn \in Snapshots, PublishRoot(sn)
      PROVE  resolved' /\ UNCHANGED <<outcome, yes_pool, no_pool>>
  BY <1>7 DEF PublishRoot, marketVars
<1>8. ASSUME LockMarket \/ Tick \/ UNCHANGED vars
      PROVE  resolved' /\ UNCHANGED <<outcome, yes_pool, no_pool>>
  BY <1>8 DEF LockMarket, Tick, vars, marketVars
<1>9. ASSUME NEW b \in Bettor, NEW n \in MintAmounts, MintTo(b, n)
      PROVE  resolved' /\ UNCHANGED <<outcome, yes_pool, no_pool>>
  BY <1>9 DEF MintTo, marketVars
<1> QED
  BY <1>2, <1>3, <1>4, <1>5, <1>6, <1>7, <1>8, <1>9 DEF Next

(* So that what has been polled and read stays right, however late it is   *)
(* delivered.                                                              *)
LEMMA OldNewsHold ==
  ASSUME SInv, [Next]_vars
  PROVE  /\ \A view : SeesResolution(view) => SeesResolution(view)'
         /\ \A account, b : b \in Bettor /\ IsOf(account, b) => IsOf(account, b)'
<1>1. ASSUME NEW view, SeesResolution(view)
      PROVE  SeesResolution(view)'
  BY <1>1, ResolutionStays DEF SeesResolution
<1>2. ASSUME NEW account, NEW b \in Bettor, IsOf(account, b)
      PROVE  IsOf(account, b)'
  BY <1>2, SideStays DEF IsOf
<1> QED
  BY <1>1, <1>2

(* And what is polled or read now is right.                                *)
LEMMA NewsHold ==
  ASSUME SInv
  PROVE  /\ MarketNow \in View /\ SeesResolution(MarketNow) /\ MarketNow.loaded
         /\ \A b \in Bettor : PositionOf(b) \in Account /\ IsOf(PositionOf(b), b)
<1> USE DEF SInv, IInv, TypeOK
<1>1. MarketNow \in View
  BY DEF MarketNow, View
<1>2. SeesResolution(MarketNow) /\ MarketNow.loaded
  BY DEF MarketNow, SeesResolution
<1>3. ASSUME NEW b \in Bettor
      PROVE  PositionOf(b) \in Account /\ IsOf(PositionOf(b), b)
  BY DEF PositionOf, NoPosition, Account, IsOf, Side
<1> QED
  BY <1>1, <1>2, <1>3

-----------------------------------------------------------------------------
(* The invariant of the panel.                                             *)

(* The parts of it that steps of one kind keep.                            *)
LEMMA PolledStays ==
  ASSUME SInv, PanelInv, [Next]_vars,
         responses' \subseteq responses \cup {MarketNow},
         props' \in responses \cup {props}
  PROVE  /\ props' \in View /\ responses' \subseteq View
         /\ PolledInTime'
         /\ \A view \in responses' : view.loaded
<1>1. \A view \in responses \cup {props, MarketNow} :
        view \in View /\ SeesResolution(view)
  BY NewsHold DEF PanelInv, PanelTypeOK, PolledInTime
<1>2. \A view \in responses \cup {MarketNow} : view.loaded
  BY NewsHold DEF PanelInv, LoadedFirst
<1>3. \A view \in responses' \cup {props'} : SeesResolution(view)'
  BY <1>1, OldNewsHold
<1> QED
  BY <1>1, <1>2, <1>3 DEF PolledInTime

(* What is rendered depends on these four.                                 *)
LEMMA OfferStays ==
  ASSUME PanelInv, UNCHANGED <<props, connected, position, loading, button>>
  PROVE  Mounted'
  BY DEF PanelInv, Mounted, Offered, isWinner, isRefund, winningPoolEmpty

(* A button is mounted only by being offered.                              *)
LEMMA ButtonMounts == ASSUME NEW next, Button(next) PROVE Mounted'
  BY DEF Button, Mounted

(* Steps that leave the panel's requests and what it shows alone.          *)
LEMMA RestKeepsPanel ==
  ASSUME SInv, PanelInv, [Next]_vars,
         responses' \subseteq responses \cup {MarketNow},
         UNCHANGED <<props, connected, position, loading, effectDue, fetches>>,
         Mounted'
  PROVE  PanelInv'
<1> USE DEF PanelInv
<1>1. props \in responses \cup {props}
  OBVIOUS
<1>2. PolledInTime' /\ LoadedFirst' /\ PanelTypeOK'
  BY <1>1, PolledStays DEF LoadedFirst, PanelTypeOK
<1>3. AccountsOwn'
  BY OldNewsHold DEF AccountsOwn, PanelTypeOK, Fetch
<1>4. OneLive' /\ ShownTogether'
  BY DEF OneLive, ShownTogether
<1> QED
  BY <1>2, <1>3, <1>4

(* A poll is delivered.                                                    *)
LEMMA ReceiveKeepsPanel ==
  ASSUME SInv, PanelInv, [Next]_vars, NEW s \in responses, PageReceives(s)
  PROVE  PanelInv'
<1> USE DEF PanelInv
<1>1. /\ ~effectDue /\ props' = s /\ responses' = responses \ {s}
      /\ effectDue' = DepsChanged(s)
      /\ UNCHANGED <<connected, position, loading, fetches>>
      /\ s.loaded /\ s.resolved \in BOOLEAN /\ props.resolved \in BOOLEAN
  BY DEF PageReceives, Ready, LoadedFirst, PanelTypeOK, View
<1>2. PolledInTime' /\ LoadedFirst' /\ PanelTypeOK'
  BY <1>1, PolledStays DEF LoadedFirst, PanelTypeOK, DepsChanged
<1>3. AccountsOwn'
  BY <1>1, OldNewsHold DEF AccountsOwn, PanelTypeOK, Fetch
<1>4. OneLive'
  BY <1>1 DEF OneLive, DepsChanged
<1>5. ShownTogether'
  BY <1>1 DEF ShownTogether, LoadedFirst, DepsChanged
<1>6. Mounted'
  BY ButtonMounts DEF PageReceives
<1> QED
  BY <1>2, <1>3, <1>4, <1>5, <1>6

(* Another wallet is connected.                                            *)
LEMMA SwitchKeepsPanel ==
  ASSUME SInv, PanelInv, [Next]_vars,
         NEW w \in Bettor \cup {NoWallet}, SwitchWallet(w)
  PROVE  PanelInv'
<1> USE DEF PanelInv
<1>1. /\ ~effectDue /\ connected' = w /\ position' = NoPosition
      /\ effectDue' = props.loaded
      /\ UNCHANGED <<props, responses, loading, fetches>>
      /\ props.loaded \in BOOLEAN
  BY DEF SwitchWallet, Ready, PanelTypeOK, View
<1>2. NoPosition \in Account /\ ~NoPosition.found
  BY DEF NoPosition, Account, Side
<1>3. PolledInTime' /\ LoadedFirst' /\ PanelTypeOK'
  BY <1>1, <1>2, PolledStays DEF LoadedFirst, PanelTypeOK
<1>4. AccountsOwn'
  BY <1>1, <1>2, OldNewsHold DEF AccountsOwn, PanelTypeOK, Fetch
<1>5. OneLive' /\ ShownTogether'
  BY <1>1, <1>2 DEF OneLive, ShownTogether, LoadedFirst
<1>6. Mounted'
  BY ButtonMounts DEF SwitchWallet
<1> QED
  BY <1>3, <1>4, <1>5, <1>6

(* The effect runs: it cancels what is under way, and asks anew if there   *)
(* may be something to claim.                                              *)
LEMMA EffectKeepsPanel ==
  ASSUME SInv, PanelInv, [Next]_vars, RunEffect
  PROVE  PanelInv'
<1> USE DEF PanelInv
<1>1. /\ effectDue /\ ~effectDue' /\ effectDue' \in BOOLEAN
      /\ UNCHANGED <<props, responses, connected>>
  BY DEF RunEffect
<1>2. NoPosition \in Account /\ ~NoPosition.found
  BY DEF NoPosition, Account, Side
<1>3. \A f \in Cancelled : /\ f \in Fetch /\ ~f.live
                           /\ \E g \in fetches : f.of = g.of /\ f.answer = g.answer
  BY DEF Cancelled, PanelTypeOK, Fetch
<1>4. PolledInTime' /\ Mounted'
  BY <1>1, PolledStays, ButtonMounts DEF RunEffect
<1>5. CASE connected = NoWallet \/ ~props.resolved
  <2>1. position' = NoPosition /\ loading' = FALSE /\ fetches' = Cancelled
    BY <1>5 DEF RunEffect
  <2>2. PanelTypeOK' /\ LoadedFirst'
    BY <1>1, <1>2, <1>3, <2>1 DEF LoadedFirst, PanelTypeOK
  <2>3. \A f \in fetches' : IsOf(f.answer, f.of)'
    BY <1>3, <2>1, OldNewsHold DEF AccountsOwn, PanelTypeOK, Fetch
  <2>4. AccountsOwn'
    BY <1>2, <2>1, <2>3 DEF AccountsOwn
  <2>5. OneLive' /\ ShownTogether'
    BY <1>1, <1>2, <1>3, <2>1 DEF OneLive, ShownTogether
  <2> QED
    BY <1>4, <2>2, <2>4, <2>5
<1>6. CASE ~(connected = NoWallet \/ ~props.resolved)
  <2> DEFINE new == [of |-> connected, live |-> TRUE, read |-> FALSE,
                     answer |-> NoPosition]
  <2>1. loading' = TRUE /\ fetches' = Cancelled \cup {new} /\ UNCHANGED position
    BY <1>6 DEF RunEffect
  <2>2. connected \in Bettor /\ new \in Fetch
    BY <1>2, <1>6 DEF PanelTypeOK, Fetch
  <2>3. PanelTypeOK' /\ LoadedFirst'
    BY <1>1, <1>3, <1>6, <2>1, <2>2 DEF LoadedFirst, PanelTypeOK
  <2>4. ~position.found
    BY <1>1, <1>6 DEF ShownTogether
  <2>5. \A f \in Cancelled : IsOf(f.answer, f.of)'
    BY <1>3, OldNewsHold DEF AccountsOwn, PanelTypeOK, Fetch
  <2>6. \A f \in fetches' : f \in Cancelled \/ ~f.answer.found
    BY <1>2, <2>1
  <2>7. AccountsOwn'
    <3>1. \A f \in fetches' : IsOf(f.answer, f.of)'
      BY <2>5, <2>6 DEF IsOf
    <3>2. ~position'.found
      BY <2>1, <2>4
    <3> QED
      BY <3>1, <3>2 DEF AccountsOwn
  <2>8. \A f \in fetches' : f.live => f = new
    BY <1>3, <2>1
  <2>9. OneLive'
    <3>1. new.of = connected' /\ props.resolved
      BY <1>1, <1>6
    <3>2. props'.resolved /\ loading'
      BY <1>1, <1>6, <2>1
    <3>3. \A f \in fetches' : f.live => f.of = connected'
      BY <2>8, <3>1
    <3> QED
      BY <2>8, <3>2, <3>3 DEF OneLive
  <2>10. ShownTogether'
    BY <2>1, <2>4 DEF ShownTogether
  <2> QED
    BY <1>4, <2>3, <2>7, <2>9, <2>10
<1> QED
  BY <1>5, <1>6

(* The node reads the account for a request.                               *)
LEMMA ReadKeepsPanel ==
  ASSUME SInv, PanelInv, [Next]_vars, NEW f \in fetches, PositionRead(f)
  PROVE  PanelInv'
<1> USE DEF PanelInv
<1> DEFINE g == [f EXCEPT !.read = TRUE, !.answer = PositionOf(f.of)]
<1>1. /\ fetches' = (fetches \ {f}) \cup {g}
      /\ UNCHANGED <<props, responses, connected, position, loading, effectDue, button>>
  BY DEF PositionRead
<1>2. f \in Fetch
  BY DEF PanelTypeOK
<1>3. PositionOf(f.of) \in Account /\ IsOf(PositionOf(f.of), f.of)
  BY <1>2, NewsHold DEF Fetch
<1>4. g \in Fetch /\ g.of = f.of /\ g.live = f.live /\ g.answer = PositionOf(f.of)
  BY <1>2, <1>3 DEF Fetch
<1>5. PolledInTime' /\ Mounted'
  BY <1>1, PolledStays, OfferStays
<1>6. PanelTypeOK' /\ LoadedFirst'
  BY <1>1, <1>2, <1>4 DEF PanelTypeOK, LoadedFirst
<1>7. \A e \in fetches' : IsOf(e.answer, e.of) /\ e.of \in Bettor
  BY <1>1, <1>2, <1>3, <1>4 DEF AccountsOwn, PanelTypeOK, Fetch
<1>8. AccountsOwn'
  BY <1>1, <1>7, OldNewsHold DEF AccountsOwn
<1>9. OneLive' /\ ShownTogether'
  BY <1>1, <1>4 DEF OneLive, ShownTogether
<1> QED
  BY <1>5, <1>6, <1>8, <1>9

(* The answer arrives, and is dropped unless the request is live.          *)
LEMMA ArriveKeepsPanel ==
  ASSUME SInv, PanelInv, [Next]_vars, NEW f \in fetches, PositionArrives(f)
  PROVE  PanelInv'
<1> USE DEF PanelInv
<1>1. /\ ~effectDue /\ fetches' = fetches \ {f}
      /\ position' = IF f.live THEN f.answer ELSE position
      /\ loading' = (loading /\ ~f.live)
      /\ UNCHANGED <<props, responses, connected, effectDue>>
  BY DEF PositionArrives
<1>2. f \in Fetch
  BY DEF PanelTypeOK
<1>3. PolledInTime' /\ Mounted'
  BY <1>1, PolledStays, ButtonMounts DEF PositionArrives
<1>4. PanelTypeOK' /\ LoadedFirst'
  BY <1>1, <1>2 DEF PanelTypeOK, LoadedFirst, Fetch
<1>5. OneLive'
  BY <1>1 DEF OneLive
<1>6. f.live => f.of = connected /\ props.resolved
  BY <1>1 DEF OneLive
<1>7. ShownTogether'
  BY <1>1, <1>6 DEF ShownTogether
<1>8. CASE f.live
  <2>1. f.of = connected /\ connected \in Bettor /\ IsOf(f.answer, connected)
    BY <1>2, <1>6, <1>8 DEF AccountsOwn, Fetch
  <2>2. IsOf(f.answer, connected)'
    BY <1>1, <2>1, OldNewsHold DEF IsOf
  <2>3. position' = f.answer
    BY <1>1, <1>8
  <2>4. IsOf(position, connected)'
    BY <2>2, <2>3 DEF IsOf
  <2> QED
    BY <1>1, <2>1, <2>4, OldNewsHold, <1>3, <1>4, <1>5, <1>7
    DEF AccountsOwn, PanelTypeOK, Fetch
<1>9. CASE ~f.live
  <2>1. AccountsOwn'
    BY <1>1, <1>9, OldNewsHold DEF AccountsOwn, PanelTypeOK, Fetch, IsOf
  <2> QED
    BY <1>3, <1>4, <1>5, <1>7, <2>1
<1> QED
  BY <1>8, <1>9

(* The request is refused, and the panel goes on loading.                  *)
LEMMA FailKeepsPanel ==
  ASSUME SInv, PanelInv, [Next]_vars, NEW f \in fetches, PositionFails(f)
  PROVE  PanelInv'
<1> USE DEF PanelInv
<1>1. /\ fetches' = fetches \ {f}
      /\ UNCHANGED <<props, responses, connected, position, loading, effectDue, button>>
  BY DEF PositionFails
<1>2. PolledInTime' /\ Mounted'
  BY <1>1, PolledStays, OfferStays
<1>3. PanelTypeOK' /\ LoadedFirst'
  BY <1>1 DEF PanelTypeOK, LoadedFirst
<1>4. AccountsOwn'
  BY <1>1, OldNewsHold DEF AccountsOwn, PanelTypeOK, Fetch
<1>5. OneLive' /\ ShownTogether'
  BY <1>1 DEF OneLive, ShownTogether
<1> QED
  BY <1>2, <1>3, <1>4, <1>5

(* The invariant.                                                          *)
THEOREM PanelInvariant == PanelSpec => []PanelInv
<1>1. PanelInit => PanelInv
  <2> SUFFICES ASSUME PanelInit PROVE PanelInv
    OBVIOUS
  <2>1. NotLoaded \in View /\ ~NotLoaded.loaded /\ ~NotLoaded.resolved
    BY MaxU64Assumption DEF NotLoaded, View, U64
  <2>2. NoPosition \in Account /\ ~NoPosition.found
    BY DEF NoPosition, Account, Side
  <2>3. PanelTypeOK /\ PolledInTime
    BY <2>1, <2>2 DEF PanelInit, PanelTypeOK, PolledInTime, SeesResolution
  <2>4. AccountsOwn /\ OneLive /\ LoadedFirst /\ ShownTogether /\ Mounted
    BY <2>1, <2>2 DEF PanelInit, AccountsOwn, OneLive, LoadedFirst, ShownTogether,
      Mounted
  <2> QED
    BY <2>3, <2>4 DEF PanelInv
<1>2. SInv /\ PanelInv /\ [PanelNext]_claimVars => PanelInv'
  <2> SUFFICES ASSUME SInv, PanelInv, [PanelNext]_claimVars
               PROVE  PanelInv'
    OBVIOUS
  <2>1. [Next]_vars
    BY PanelStepIsProgramStep DEF PanelInv, PanelTypeOK
  <2>2. ASSUME ChainMoves \/ UNCHANGED claimVars
        PROVE  PanelInv'
    BY <2>1, <2>2, RestKeepsPanel, OfferStays DEF ChainMoves, claimVars, panelVars
  <2>3. ASSUME PageReads
        PROVE  PanelInv'
    BY <2>1, <2>3, RestKeepsPanel, OfferStays DEF PageReads
  <2>4. ASSUME Click \/ ClaimFails \/ OwnClaimLands \/ ClaimConfirmed
        PROVE  PanelInv'
    <3>1. /\ responses' \subseteq responses \cup {MarketNow}
          /\ UNCHANGED <<props, connected, position, loading, effectDue, fetches>>
          /\ button # "unmounted"
      BY <2>4 DEF Click, ClaimFails, OwnClaimLands, ClaimConfirmed, Press
    <3>2. Mounted'
      BY <3>1 DEF PanelInv, Mounted, Offered, isWinner, isRefund, winningPoolEmpty
    <3> QED
      BY <2>1, <3>1, <3>2, RestKeepsPanel
  <2> QED
    BY <2>1, <2>2, <2>3, <2>4, ReceiveKeepsPanel, SwitchKeepsPanel,
      EffectKeepsPanel, ReadKeepsPanel, ArriveKeepsPanel, FailKeepsPanel DEF PanelNext
<1> QED
  BY <1>1, <1>2, PanelImplementsProgram, StakesStay, PTL DEF PanelSpec

-----------------------------------------------------------------------------
(* What the panel offers.                                                  *)

(* The winning pool is empty only if there is no winner.                   *)
LEMMA WinnersHavePool ==
  ASSUME SInv, resolved, NEW b \in Bettor, opened[b], outcome = side[b]
  PROVE  WinningPool # 0
<1> USE DEF SInv, IInv
<1>1. /\ side[b] \in Side /\ amount[b] \in U64 /\ amount[b] \in Nat
      /\ amount[b] > 0
  BY U64Nat DEF TypeOK, OpenedStaked
<1>2. b \in Backers(side[b]) /\ Backers(side[b]) \in SUBSET Bettor
  BY DEF Backers
<1>3. /\ IsFiniteSet(Backers(side[b]))
      /\ TotalOf(amount, Backers(side[b])) \in Nat
  BY <1>2, BettorSums
<1>4. amount[b] <= TotalOf(amount, Backers(side[b]))
  BY <1>1, <1>2, <1>3, TotalOfMember
<1>5. WinningPool = TotalOf(amount, Backers(side[b]))
  BY <1>1 DEF WinningPool, PoolsMatchPositions, Side, Yes, No
<1> QED
  BY <1>1, <1>3, <1>4, <1>5

(* Whatever was polled and read, and whenever, the claim that the panel    *)
(* offers is one that claim_payout's constraint admits, under its label:   *)
(* winnings or refund.                                                     *)
THEOREM OfferedEligible == PanelSpec => []OfferedIsEligible
<1>1. SInv /\ PanelInv => OfferedIsEligible
  <2> SUFFICES ASSUME SInv, PanelInv, Offered
               PROVE  /\ resolved /\ Eligible(connected)
                      /\ isWinner <=> outcome = side[connected]
                      /\ isRefund <=> WinningPool = 0
    BY DEF OfferedIsEligible
  <2>1. /\ resolved /\ props.outcome = outcome
        /\ props.yesPool = yes_pool /\ props.noPool = no_pool
    BY DEF Offered, PanelInv, PolledInTime, SeesResolution
  <2>2. /\ connected \in Bettor /\ opened[connected]
        /\ position.side = side[connected]
    BY DEF Offered, PanelInv, AccountsOwn, IsOf
  <2>3. outcome \in {Yes, No} /\ side[connected] \in {Yes, No}
    BY <2>1, <2>2 DEF SInv, IInv, TypeOK, Staged, Side
  <2>4. Yes # No /\ Yes # Unknown /\ No # Unknown
    BY DEF Yes, No, Unknown
  <2>5. isWinner <=> outcome = side[connected]
    BY <2>1, <2>2, <2>3, <2>4 DEF isWinner
  <2>6. winningPoolEmpty <=> WinningPool = 0
    BY <2>1, <2>3, <2>4 DEF winningPoolEmpty, WinningPool
  <2>7. isRefund <=> WinningPool = 0
    BY <2>1, <2>2, <2>5, <2>6, WinnersHavePool DEF isRefund
  <2>8. isWinner \/ isRefund
    BY DEF Offered
  <2>9. Eligible(connected)
    BY <2>1, <2>2, <2>3, <2>4, <2>5, <2>7, <2>8 DEF Eligible, WinningPool
  <2> QED
    BY <2>1, <2>5, <2>7, <2>9
<1> QED
  BY <1>1, PanelInvariant, PanelImplementsProgram, StakesStay, PTL

(* So the program pays what is offered: a claim that is offered, and has   *)
(* not been made meanwhile, is one that claim_payout can carry out.        *)
THEOREM OfferedPayable ==
  PanelSpec => [](Offered /\ ~claimed[connected] => Payable(connected))
<1>1. OfferedIsEligible /\ EligibleClaimsPayable
        /\ connected \in Bettor \cup {NoWallet}
      => (Offered /\ ~claimed[connected] => Payable(connected))
  BY DEF OfferedIsEligible, EligibleClaimsPayable, Claimable, Offered
<1> QED
  BY <1>1, OfferedEligible, PanelImplementsProgram, Solvency, ConnectedType, PTL

(* The button that says "Claimed" stays mounted through polls and late     *)
(* answers: while it is offered no request is live that could change the   *)
(* position, and a poll of a resolved market changes nothing.              *)
THEOREM ConfirmedStays == PanelSpec => ConfirmedOutlivesRefresh
<1> DEFINE Kept == button = "confirmed" /\ connected' = connected /\ props'.resolved
                     => button' = "confirmed"
<1>1. SInv /\ PanelInv /\ [PanelNext]_claimVars => Kept
  <2> SUFFICES ASSUME SInv, PanelInv, [PanelNext]_claimVars, button = "confirmed",
                      connected' = connected, props'.resolved
               PROVE  button' = "confirmed"
    OBVIOUS
  <2>1. Offered /\ ~effectDue
    BY DEF PanelInv, Mounted, Offered, ShownTogether
  <2>2. ASSUME NEW s \in responses, PageReceives(s)
        PROVE  button' = "confirmed"
    <3>1. props' = s /\ UNCHANGED <<position, loading>>
      BY <2>2 DEF PageReceives
    <3>2. SeesResolution(s) /\ SeesResolution(props)
      BY DEF PanelInv, PolledInTime
    <3>3. /\ props'.outcome = props.outcome /\ props'.yesPool = props.yesPool
          /\ props'.noPool = props.noPool
      BY <2>1, <3>1, <3>2 DEF SeesResolution, Offered
    <3>4. Offered'
      BY <2>1, <3>1, <3>3 DEF Offered, isWinner, isRefund, winningPoolEmpty
    <3> QED
      BY <2>2, <3>4 DEF PageReceives, Button
  <2>3. ASSUME NEW f \in fetches, PositionArrives(f)
        PROVE  button' = "confirmed"
    <3>1. ~f.live /\ loading = FALSE
      BY <2>1 DEF PanelInv, PanelTypeOK, OneLive, Offered
    <3>2. UNCHANGED <<props, position, loading>>
      BY <2>1, <2>3, <3>1 DEF PositionArrives, Offered
    <3>3. Offered'
      BY <2>1, <3>2 DEF Offered, isWinner, isRefund, winningPoolEmpty
    <3> QED
      BY <2>3, <3>3 DEF PositionArrives, Button
  <2>4. ASSUME NEW w \in Bettor \cup {NoWallet}, SwitchWallet(w)
        PROVE  FALSE
    BY <2>4 DEF SwitchWallet
  <2>5. ASSUME RunEffect
        PROVE  FALSE
    BY <2>1, <2>5 DEF RunEffect
  <2>6. ASSUME \/ ChainMoves \/ PageReads \/ UNCHANGED claimVars
               \/ \E f \in fetches : PositionRead(f) \/ PositionFails(f)
        PROVE  button' = "confirmed"
    BY <2>6 DEF ChainMoves, PageReads, PositionRead, PositionFails, claimVars, panelVars
  <2>7. ASSUME Click \/ ClaimFails \/ OwnClaimLands \/ ClaimConfirmed
        PROVE  FALSE
    BY <2>7 DEF Click, ClaimFails, OwnClaimLands, ClaimConfirmed, Press
  <2> QED
    BY <2>2, <2>3, <2>4, <2>5, <2>6, <2>7 DEF PanelNext
<1> QED
  BY <1>1, PanelInvariant, PanelImplementsProgram, StakesStay, PTL
  DEF PanelSpec, ConfirmedOutlivesRefresh
=============================================================================

------------------------- MODULE DepositPanelProofs -------------------------
(***************************************************************************)
(* What the deposit panel has read when it enables its button, for any     *)
(* wallets that are switched while reads are under way.  The panel's steps *)
(* are steps of the program or none, so all that is proved of the program  *)
(* holds under it.                                                         *)
(***************************************************************************)
EXTENDS DepositPanel, PariMarketProofs

-----------------------------------------------------------------------------
(* What is sent.                                                           *)

ButtonState == [at : {"idle", "sent", "landed", "confirmed"},
                n : DepositAmounts \cup {0}, side : Side]

(* What is left of a button that was unmounted while it was sending.       *)
OrphanState == [of : Bettor \ {NoWallet}, at : {"sent", "landed"},
                n : DepositAmounts, side : Side]

(* The button sends what was typed in, for the connected wallet.           *)
SendsInput ==
  /\ connected \in Bettor \cup {NoWallet}
  /\ input \in DepositAmounts \cup {0}
  /\ chosen \in Side
  /\ button \in ButtonState
  /\ Sending => connected \in Bettor \ {NoWallet} /\ button.n \in DepositAmounts
  /\ orphans \subseteq OrphanState

-----------------------------------------------------------------------------
(* What is read.                                                           *)
Preflight == [of : Bettor \cup {NoWallet}, loading : BOOLEAN, lamports : Nat,
              usdc : Nat, ataExists : BOOLEAN, minRequired : Nat]
Call == [of : Bettor \ {NoWallet}, live : BOOLEAN,
         usdc : SUBSET Nat, position : SUBSET BOOLEAN]

DepositTypeOK ==
  /\ preflight \in Preflight
  /\ calls \subseteq Call
  /\ props.loaded => created

(* Unless an unmounted button has confirmed, the preflight is the          *)
(* connected wallet's; so is the one call that may still set it, and while *)
(* there is one it is loading.  A deposit is under way only when it is not. *)
OneLive ==
  ~strayed =>
    /\ preflight.of = connected
    /\ \A c \in calls : c.live => c.of = connected /\ preflight.loading
    /\ \A c, d \in calls : c.live /\ d.live => c = d
    /\ Sending => ~preflight.loading

(* A position that has been read as opened is; so the panel asks for too   *)
(* many lamports when it is behind, and never for too few.                 *)
Enough(b, lamports) ==
  lamports >= Fee /\ (~opened[b] => lamports >= Fee + Rent)
ReadsHold ==
  /\ \A c \in calls : TRUE \in c.position => opened[c.of]
  /\ ~strayed /\ ~preflight.loading =>
       /\ connected \in Bettor
       /\ preflight.ataExists => connected \in AtaOwners
       /\ preflight.lamports = Lamports[connected]
       /\ Enough(connected, preflight.minRequired)

DepositInv == SendsInput /\ DepositTypeOK /\ OneLive /\ ReadsHold

-----------------------------------------------------------------------------
(* The program under the panel.                                            *)

(* The button that has sent nothing.                                       *)
LEMMA IdleIsButton == IdleButton \in ButtonState /\ IdleButton.at = "idle"
  BY DEF IdleButton, ButtonState, Side

(* A disconnect leaves at most the handler of the deposit under way.       *)
LEMMA OrphansAreSent ==
  ASSUME SendsInput, NEW w, SwitchWallet(w)
  PROVE  orphans' \subseteq OrphanState
<1>1. Sending => Orphan \in OrphanState
  BY DEF SendsInput, Sending, Orphan, OrphanState, ButtonState
<1>2. orphans' = orphans \/ (Sending /\ orphans' = orphans \cup {Orphan})
  BY DEF SwitchWallet
<1> QED
  BY <1>1, <1>2 DEF SendsInput

(* A deposit of an unmounted button that lands or ends.                    *)
LEMMA OrphansStay ==
  ASSUME SendsInput, NEW o \in orphans,
         OrphanLands(o) \/ OrphanConfirmed(o) \/ OrphanEnds(o)
  PROVE  orphans' \subseteq OrphanState
<1>1. [o EXCEPT !.at = "landed"] \in OrphanState
  BY DEF SendsInput, OrphanState
<1> QED
  BY <1>1 DEF OrphanLands, OrphanConfirmed, OrphanEnds, SendsInput

(* What the user types, and what is sent of it.                            *)
LEMMA SentIsTyped == PanelSpec => []SendsInput
<1>1. PanelInit => SendsInput
  BY IdleIsButton DEF PanelInit, SendsInput, Sending, Side
<1>2. SendsInput /\ [PanelNext]_depositVars => SendsInput'
  <2> SUFFICES ASSUME SendsInput, [PanelNext]_depositVars
               PROVE  SendsInput'
    OBVIOUS
  <2>1. ASSUME NEW n \in DepositAmounts \cup {0}, NEW s \in Side, Type(n, s)
        PROVE  SendsInput'
    BY <2>1 DEF Type, SendsInput, Sending, afterVars
  <2>2. ASSUME NEW w \in Bettor \cup {NoWallet}, SwitchWallet(w)
        PROVE  SendsInput'
    BY <2>2, IdleIsButton, OrphansAreSent DEF SwitchWallet, SendsInput, Sending
  <2>3. ASSUME Submit
        PROVE  SendsInput'
    <3>1. connected \in Bettor \ {NoWallet} /\ input \in DepositAmounts
      BY <2>3 DEF Submit, canSubmit, SendsInput
    <3> QED
      BY <2>3, <3>1 DEF Submit, SendsInput, Sending, ButtonState, afterVars
  <2>4. ASSUME DepositFails
        PROVE  SendsInput'
    BY <2>4, IdleIsButton DEF DepositFails, SendsInput, Sending, afterVars
  <2>5. ASSUME OwnDeposit \/ DepositConfirmed
        PROVE  SendsInput'
    <3>1. /\ Sending /\ UNCHANGED <<connected, chosen, orphans>>
          /\ input' \in {input, 0}
          /\ \/ button' = [button EXCEPT !.at = "landed"]
             \/ button' = [IdleButton EXCEPT !.at = "confirmed"]
      BY <2>5 DEF OwnDeposit, DepositConfirmed, HandleConfirmed, Sending, afterVars
    <3>2. button' \in ButtonState /\ (Sending' => button'.n = button.n)
      BY <3>1, IdleIsButton DEF SendsInput, ButtonState, Sending
    <3> QED
      BY <3>1, <3>2 DEF SendsInput
  <2>6. ASSUME \/ ChainMoves \/ UNCHANGED depositVars
               \/ \E v \in {FALSE, locked} : PageReceives(v)
               \/ \E c \in calls : \/ ReadUsdc(c) \/ ReadPosition(c)
                                   \/ RefreshDone(c) \/ RefreshFails(c)
        PROVE  UNCHANGED <<connected, input, chosen, button, orphans>>
    BY <2>6 DEF ChainMoves, PageReceives, ReadUsdc, ReadPosition, RefreshDone,
      RefreshFails, panelVars, afterVars, depositVars
  <2>7. ASSUME UNCHANGED <<connected, input, chosen, button, orphans>>
        PROVE  SendsInput'
    BY <2>7 DEF SendsInput, Sending
  <2>8. ASSUME NEW o \in orphans, OrphanLands(o) \/ OrphanConfirmed(o) \/ OrphanEnds(o)
        PROVE  SendsInput'
    <3>1. UNCHANGED <<connected, chosen, button>> /\ input' \in {input, 0}
      BY <2>8 DEF OrphanLands, OrphanConfirmed, HandleConfirmed, OrphanEnds
    <3> QED
      BY <2>8, <3>1, OrphansStay DEF SendsInput, Sending
  <2> QED
    BY <2>1, <2>2, <2>3, <2>4, <2>5, <2>6, <2>7, <2>8 DEF PanelNext
<1> QED
  BY <1>1, <1>2, PTL DEF PanelSpec

(* Each step is one of the program's or leaves the program alone: what the *)
(* button sends is one of the deposits that wallets may make.              *)
LEMMA PanelStepIsProgramStep ==
  SendsInput /\ [PanelNext]_depositVars => [Next]_vars
<1> SUFFICES ASSUME SendsInput, [PanelNext]_depositVars
             PROVE  [Next]_vars
  OBVIOUS
<1>1. ASSUME ChainMoves
      PROVE  Next
  BY <1>1 DEF ChainMoves
<1>2. ASSUME OwnDeposit
      PROVE  Next
  <2>1. /\ connected \in Bettor /\ button.n \in DepositAmounts
        /\ button.side \in Side /\ Deposit(connected, button.n, button.side)
    BY <1>2 DEF OwnDeposit, SendsInput, Sending, ButtonState
  <2> QED
    BY <2>1 DEF Next
<1>4. ASSUME NEW o \in orphans, OrphanLands(o)
      PROVE  Next
  <2>1. /\ o.of \in Bettor /\ o.n \in DepositAmounts
        /\ o.side \in Side /\ Deposit(o.of, o.n, o.side)
    BY <1>4 DEF OrphanLands, SendsInput, OrphanState
  <2> QED
    BY <2>1 DEF Next
<1>3. ASSUME \/ Submit \/ DepositFails \/ DepositConfirmed
             \/ UNCHANGED depositVars
             \/ \E v \in {FALSE, locked} : PageReceives(v)
             \/ \E n \in DepositAmounts \cup {0}, s \in Side : Type(n, s)
             \/ \E w \in Bettor \cup {NoWallet} : SwitchWallet(w)
             \/ \E c \in calls : \/ ReadUsdc(c) \/ ReadPosition(c)
                                 \/ RefreshDone(c) \/ RefreshFails(c)
             \/ \E o \in orphans : OrphanConfirmed(o) \/ OrphanEnds(o)
      PROVE  UNCHANGED vars
  BY <1>3 DEF Submit, DepositFails, DepositConfirmed, HandleConfirmed, PageReceives, Type,
    SwitchWallet, ReadUsdc, ReadPosition, RefreshDone, RefreshFails, OrphanConfirmed,
    OrphanEnds, depositVars
<1> QED
  BY <1>1, <1>2, <1>3, <1>4 DEF PanelNext

(* The panel drives the program as its specification allows, so that all   *)
(* the program's theorems hold under it.                                   *)
LEMMA PanelImplementsProgram == PanelSpec => Spec
<1>1. PanelInit => Init
  BY DEF PanelInit
<1> QED
  BY <1>1, SentIsTyped, PanelStepIsProgramStep, PTL DEF PanelSpec, Spec

-----------------------------------------------------------------------------
(* The invariant.                                                          *)

(* What the program's step leaves of what was read: an opened position, and *)
(* the market, stay.                                                       *)
LEMMA ReadsStay ==
  ASSUME SInv, [Next]_vars
  PROVE  /\ created => created'
         /\ \A b \in Bettor : opened[b] => opened'[b]
         /\ \A b, n : b \in Bettor /\ Enough(b, n) => Enough(b, n)'
<1>1. /\ created => created'
      /\ \A b \in Bettor : opened[b] => opened'[b]
  BY SideStays, CreatedStays
<1>2. \A b, n : b \in Bettor /\ Enough(b, n) => Enough(b, n)'
  BY <1>1 DEF Enough
<1> QED
  BY <1>1, <1>2

(* Steps of the program, of the page and of the user that leave the        *)
(* wallet, the preflight and its calls alone.                              *)
LEMMA RestKeepsReads ==
  ASSUME SInv, DepositInv, [Next]_vars, SendsInput',
         UNCHANGED <<connected, preflight, calls, strayed>>,
         (created /\ props'.loaded) \/ UNCHANGED props,
         ~strayed /\ Sending' => ~preflight.loading
  PROVE  DepositInv'
<1> USE DEF DepositInv
<1>1. /\ created => created'
      /\ \A b \in Bettor : opened[b] => opened'[b]
      /\ \A b, n : b \in Bettor /\ Enough(b, n) => Enough(b, n)'
  BY ReadsStay
<1>2. DepositTypeOK'
  BY <1>1 DEF DepositTypeOK
<1>3. OneLive'
  BY DEF OneLive
<1>4. ReadsHold'
  <2>1. \A c \in calls : c.of \in Bettor
    BY DEF DepositTypeOK, Call
  <2> QED
    BY <1>1, <2>1 DEF ReadsHold
<1> QED
  BY <1>2, <1>3, <1>4

(* A call that has just begun has read nothing.                            *)
LEMMA NewCallIsCall ==
  ASSUME NEW w \in Bettor \ {NoWallet}
  PROVE  /\ NewCall(w) \in Call /\ NewCall(w).of = w
         /\ NewCall(w).live /\ NewCall(w).position = {}
  BY DEF NewCall, Call, Unread

(* Another wallet: the calls of the last one are outdated, and one begins. *)
LEMMA SwitchKeepsReads ==
  ASSUME SInv, DepositInv, [Next]_vars, SendsInput',
         NEW w \in Bettor \cup {NoWallet}, SwitchWallet(w)
  PROVE  DepositInv'
<1> USE DEF DepositInv
<1> DEFINE begun == {NewCall(v) : v \in {w} \ {NoWallet}}
<1>1. /\ props.loaded /\ UNCHANGED props /\ connected' = w
      /\ preflight' = Loading(w) /\ calls' = Outdated \cup begun
      /\ button' = IdleButton /\ UNCHANGED vars /\ ~strayed'
  BY DEF SwitchWallet
<1>2. Loading(w) \in Preflight /\ Loading(w).of = w /\ Loading(w).loading
  BY DepositPanelAssumption DEF Loading, Preflight
<1>3. \A c \in Outdated : /\ c \in Call /\ ~c.live
                          /\ TRUE \in c.position => opened[c.of]
  BY DEF Outdated, DepositTypeOK, Call, ReadsHold
<1>4. \A c \in begun : /\ c \in Call /\ c.of = w /\ c = NewCall(w)
                       /\ c.position = {}
  BY NewCallIsCall
<1>5. DepositTypeOK'
  <2>1. created' = created
    BY <1>1 DEF vars, marketVars
  <2> QED
    BY <1>1, <1>2, <1>3, <1>4, <2>1 DEF DepositTypeOK
<1>6. OneLive'
  <2>1. \A c \in calls' : c.live => c = NewCall(w) /\ c.of = w
    BY <1>1, <1>3, <1>4
  <2> QED
    BY <1>1, <1>2, <2>1, IdleIsButton DEF OneLive, Sending
<1>7. ReadsHold'
  <2>1. opened' = opened
    BY <1>1 DEF vars, positionVars
  <2>2. \A c \in calls' : TRUE \in c.position => opened'[c.of]
    BY <1>1, <1>3, <1>4, <2>1
  <2> QED
    BY <1>1, <1>2, <2>2 DEF ReadsHold
<1> QED
  BY <1>5, <1>6, <1>7

(* A read is answered: the balance and the position are the call's wallet's. *)
LEMMA ReadKeepsReads ==
  ASSUME SInv, DepositInv, [Next]_vars, SendsInput', NEW c \in calls,
         ReadUsdc(c) \/ ReadPosition(c)
  PROVE  DepositInv'
<1> USE DEF DepositInv
<1>1. c \in Call /\ c.of \in Bettor
  BY DEF DepositTypeOK, Call
<1>2. /\ UNCHANGED <<props, connected, preflight, button, strayed>>
      /\ created' = created /\ opened' = opened
  BY DEF ReadUsdc, ReadPosition, vars, marketVars, positionVars, afterVars
<1>3. wallet[c.of] \in Nat /\ opened[c.of] \in BOOLEAN
  BY <1>1, U64Nat DEF SInv, IInv, TypeOK
<1>4. PICK d : /\ calls' = (calls \ {c}) \cup {d}
               /\ d \in Call /\ d.of = c.of /\ d.live = c.live
               /\ TRUE \in d.position => TRUE \in c.position \/ opened[c.of]
  <2>1. CASE ReadUsdc(c)
    <3> DEFINE d == [c EXCEPT !.usdc = {wallet[c.of]}]
    <3>1. /\ d \in Call /\ d.of = c.of /\ d.live = c.live
          /\ d.position = c.position
      BY <1>1, <1>3 DEF Call
    <3> QED
      BY <2>1, <3>1 DEF ReadUsdc, Becomes
  <2>2. CASE ReadPosition(c)
    <3> DEFINE d == [c EXCEPT !.position = {opened[c.of]}]
    <3>1. /\ d \in Call /\ d.of = c.of /\ d.live = c.live
          /\ d.position = {opened[c.of]}
      BY <1>1, <1>3 DEF Call
    <3> QED
      BY <2>2, <3>1 DEF ReadPosition, Becomes
  <2> QED
    BY <2>1, <2>2
<1>5. DepositTypeOK'
  BY <1>2, <1>4 DEF DepositTypeOK
<1>6. OneLive'
  BY <1>2, <1>4 DEF OneLive, Sending
<1>7. ReadsHold'
  <2>1. \A e \in calls' : TRUE \in e.position => opened[e.of]
    BY <1>4 DEF ReadsHold
  <2> QED
    BY <1>2, <2>1 DEF ReadsHold, Enough
<1> QED
  BY <1>5, <1>6, <1>7

(* What was read of a position, when it was read.                          *)
LEMMA ValueRead == \A x : x # {} => Value(x) \in x
  BY DEF Value

(* A call ends: the live one sets the preflight to what it has read, and   *)
(* was the only one live; of the others nothing is left.                   *)
LEMMA DoneKeepsReads ==
  ASSUME SInv, DepositInv, [Next]_vars, SendsInput', NEW c \in calls,
         RefreshDone(c) \/ RefreshFails(c)
  PROVE  DepositInv'
<1> USE DEF DepositInv
<1>1. c \in Call /\ c.of \in Bettor /\ c.live \in BOOLEAN
  BY DEF DepositTypeOK, Call
<1>2. /\ calls' = calls \ {c}
      /\ UNCHANGED <<props, connected, button, strayed>>
      /\ created' = created /\ opened' = opened
  BY DEF RefreshDone, RefreshFails, vars, marketVars, positionVars, afterVars
<1>3. CASE UNCHANGED preflight
  <2>1. DepositTypeOK' /\ OneLive'
    BY <1>2, <1>3 DEF DepositTypeOK, OneLive, Sending
  <2>2. ReadsHold'
    BY <1>2, <1>3 DEF ReadsHold, Enough
  <2> QED
    BY <2>1, <2>2
<1>4. ASSUME RefreshDone(c), c.live
      PROVE  DepositInv'
  <2>1. /\ preflight'.of = c.of /\ ~preflight'.loading
        /\ preflight' = [of |-> c.of, loading |-> FALSE,
                         lamports |-> Lamports[c.of],
                         usdc |-> IF c.of \in AtaOwners THEN Value(c.usdc) ELSE 0,
                         ataExists |-> c.of \in AtaOwners,
                         minRequired |-> MinRequired(c)]
        /\ c.usdc # {} /\ c.position # {}
    BY <1>4 DEF RefreshDone, Unread
  <2>2. Value(c.usdc) \in Nat /\ Value(c.position) \in c.position
    BY <1>1, <2>1, ValueRead DEF Call
  <2>3. Value(c.position) => opened[c.of]
    <3>1. Value(c.position) \in BOOLEAN
      BY <1>1, <2>2 DEF Call
    <3>2. Value(c.position) => TRUE \in c.position
      <4>1. ASSUME NEW v \in BOOLEAN, v, v \in c.position
            PROVE  TRUE \in c.position
        <5>1. v = TRUE
          BY <4>1
        <5> QED
          BY <4>1, <5>1
      <4> QED
        BY <2>2, <3>1, <4>1
    <3> QED
      BY <3>2 DEF ReadsHold
  <2>4. /\ Fee \in Nat /\ Rent \in Nat /\ Lamports[c.of] \in Nat
    BY <1>1, DepositPanelAssumption
  <2>5. MinRequired(c) \in Nat /\ Enough(c.of, MinRequired(c))
    BY <2>3, <2>4 DEF MinRequired, Enough
  <2>6. ~strayed => c.of = connected /\ \A d \in calls' : ~d.live
    BY <1>2, <1>4 DEF OneLive, DepositTypeOK, Call
  <2>7. preflight' \in Preflight
    BY <1>1, <2>1, <2>2, <2>4, <2>5 DEF Preflight
  <2>8. DepositTypeOK'
    BY <1>2, <2>7 DEF DepositTypeOK
  <2>9. OneLive'
    BY <1>2, <2>1, <2>6 DEF OneLive, Sending
  <2>10. ReadsHold'
    <3>1. \A d \in calls' : TRUE \in d.position => opened'[d.of]
      BY <1>2 DEF ReadsHold
    <3>2. ~strayed =>
            /\ preflight'.minRequired >= Fee
            /\ ~opened'[connected] => preflight'.minRequired >= Fee + Rent
      BY <1>2, <2>1, <2>5, <2>6 DEF Enough
    <3>3. ~strayed =>
            /\ preflight'.ataExists = (connected \in AtaOwners)
            /\ preflight'.lamports = Lamports[connected]
      BY <2>1, <2>6
    <3> QED
      BY <1>1, <1>2, <2>6, <3>1, <3>2, <3>3 DEF ReadsHold, Enough
  <2> QED
    BY <2>8, <2>9, <2>10
<1>5. UNCHANGED preflight \/ (RefreshDone(c) /\ c.live)
  BY DEF RefreshDone, RefreshFails
<1> QED
  BY <1>3, <1>4, <1>5

(* A confirmed deposit begins a call; none is live then, since a deposit   *)
(* is only sent of a preflight that has been read, unless an unmounted     *)
(* button has confirmed.                                                   *)
LEMMA ConfirmedKeepsReads ==
  ASSUME SInv, DepositInv, [Next]_vars, SendsInput', NEW w \in Bettor \ {NoWallet},
         HandleConfirmed(w), strayed' \/ (w = connected /\ DepositConfirmed)
  PROVE  DepositInv'
<1> USE DEF DepositInv
<1>1. /\ UNCHANGED <<props, connected>>
      /\ created' = created /\ opened' = opened
      /\ preflight' = [preflight EXCEPT !.loading = TRUE]
      /\ calls' = calls \cup {NewCall(w)}
  BY DEF HandleConfirmed, vars, marketVars, positionVars
<1>2. /\ preflight' \in Preflight /\ preflight'.of = preflight.of
      /\ preflight'.loading
  BY <1>1 DEF DepositTypeOK, Preflight
<1>3. DepositTypeOK'
  BY <1>1, <1>2, NewCallIsCall DEF DepositTypeOK
<1>4. OneLive'
  <2> SUFFICES ASSUME ~strayed'
               PROVE  OneLive'
    BY DEF OneLive
  <2>1. /\ w = connected /\ ~strayed /\ Sending
        /\ button' = [IdleButton EXCEPT !.at = "confirmed"]
    BY DEF DepositConfirmed, Sending, afterVars
  <2>2. ~preflight.loading
    BY <2>1 DEF OneLive
  <2>3. \A c \in calls' : c.live => c = NewCall(connected)
    BY <1>1, <2>1, <2>2 DEF OneLive
  <2>4. ~Sending'
    BY <2>1, IdleIsButton DEF Sending, ButtonState
  <2> QED
    BY <1>1, <1>2, <2>1, <2>3, <2>4, NewCallIsCall DEF OneLive
<1>5. ReadsHold'
  <2>1. \A c \in calls' : TRUE \in c.position => opened'[c.of]
    BY <1>1, NewCallIsCall DEF ReadsHold
  <2> QED
    BY <1>2, <2>1 DEF ReadsHold
<1> QED
  BY <1>3, <1>4, <1>5

(* The invariant.                                                          *)
THEOREM DepositInvariant == PanelSpec => []DepositInv
<1>1. PanelInit => DepositInv
  <2> SUFFICES ASSUME PanelInit PROVE DepositInv
    OBVIOUS
  <2>1. /\ Loading(NoWallet) \in Preflight /\ Loading(NoWallet).of = NoWallet
        /\ Loading(NoWallet).loading
    BY DepositPanelAssumption DEF Loading, Preflight
  <2>2. SendsInput /\ DepositTypeOK /\ OneLive /\ ReadsHold
    BY <2>1, IdleIsButton DEF PanelInit, SendsInput, Sending, Side, DepositTypeOK, OneLive,
      ReadsHold
  <2> QED
    BY <2>2 DEF DepositInv
<1>2. SInv /\ SendsInput' /\ DepositInv /\ [PanelNext]_depositVars => DepositInv'
  <2> SUFFICES ASSUME SInv, SendsInput', DepositInv, [PanelNext]_depositVars
               PROVE  DepositInv'
    OBVIOUS
  <2>1. [Next]_vars
    BY PanelStepIsProgramStep DEF DepositInv
  <2>2. ASSUME ChainMoves \/ UNCHANGED depositVars
        PROVE  DepositInv'
    <3>1. UNCHANGED <<props, connected, preflight, calls, button, strayed>>
      BY <2>2 DEF ChainMoves, depositVars, panelVars, afterVars
    <3> QED
      BY <2>1, <3>1, RestKeepsReads DEF DepositInv, OneLive, Sending
  <2>3. ASSUME NEW v, PageReceives(v)
        PROVE  DepositInv'
    BY <2>1, <2>3, RestKeepsReads DEF PageReceives, DepositInv, OneLive, Sending, afterVars
  <2>4. ASSUME NEW n, NEW s, Type(n, s)
        PROVE  DepositInv'
    BY <2>1, <2>4, RestKeepsReads DEF Type, DepositInv, OneLive, Sending, afterVars
  <2>5. ASSUME Submit \/ DepositFails \/ OwnDeposit
        PROVE  DepositInv'
    <3>1. /\ UNCHANGED <<props, connected, preflight, calls, strayed>>
          /\ ~strayed => ~preflight.loading
      BY <2>5 DEF Submit, DepositFails, OwnDeposit, canSubmit, DepositInv, OneLive, Sending,
        afterVars
    <3> QED
      BY <2>1, <3>1, RestKeepsReads
  <2>6. ASSUME NEW o \in orphans, OrphanLands(o) \/ OrphanEnds(o)
        PROVE  DepositInv'
    <3>1. UNCHANGED <<props, connected, preflight, calls, button, strayed>>
      BY <2>6 DEF OrphanLands, OrphanEnds
    <3> QED
      BY <2>1, <3>1, RestKeepsReads DEF DepositInv, OneLive, Sending
  <2>7. ASSUME NEW o \in orphans, OrphanConfirmed(o)
        PROVE  DepositInv'
    <3>1. o.of \in Bettor \ {NoWallet} /\ HandleConfirmed(o.of) /\ strayed'
      BY <2>7 DEF OrphanConfirmed, SendsInput, DepositInv, OrphanState
    <3> QED
      BY <2>1, <3>1, ConfirmedKeepsReads
  <2>8. ASSUME DepositConfirmed
        PROVE  DepositInv'
    <3>1. connected \in Bettor \ {NoWallet} /\ HandleConfirmed(connected)
      BY <2>8 DEF DepositConfirmed, DepositInv, SendsInput, Sending
    <3> QED
      BY <2>1, <2>8, <3>1, ConfirmedKeepsReads
  <2> QED
    BY <2>1, <2>2, <2>3, <2>4, <2>5, <2>6, <2>7, <2>8, SwitchKeepsReads, ReadKeepsReads,
      DoneKeepsReads DEF PanelNext
<1> QED
  BY <1>1, <1>2, SentIsTyped, PanelImplementsProgram, StakesStay, PTL DEF PanelSpec

-----------------------------------------------------------------------------
(* What the panel shows and sends.                                         *)

(* The preflight is the connected wallet's, however many wallets were      *)
(* connected and calls begun before, and at most one call can still set    *)
(* it, as long as no button that a disconnect has unmounted confirms.      *)
THEOREM PreflightOwn == PanelSpec => []PreflightIsOwn
<1>1. DepositInv => PreflightIsOwn
  <2> SUFFICES ASSUME DepositInv, ~strayed
               PROVE  PreflightIsOwn
    BY DEF PreflightIsOwn
  <2> DEFINE live == {c \in calls : c.live}
  <2>1. \A c, d \in live : c = d
    BY DEF DepositInv, OneLive
  <2>2. live = {} \/ \E c : live = {c}
    BY <2>1
  <2>3. Cardinality(live) <= 1
    <3>1. CASE live = {}
      BY <3>1, FS_EmptySet
    <3>2. CASE \E c : live = {c}
      BY <3>2, FS_Singleton
    <3> QED
      BY <2>2, <3>1, <3>2
  <2>4. live # {} => preflight.loading /\ connected # NoWallet
    BY DEF DepositInv, OneLive, DepositTypeOK, Call
  <2> QED
    BY <2>3, <2>4 DEF DepositInv, OneLive, PreflightIsOwn
<1> QED
  BY <1>1, DepositInvariant, PTL

(* An enabled button stands for a deposit that passes every check of       *)
(* deposit() and whose fee the wallet can pay, as long as what the panel   *)
(* has read is still so and the side is that of the wallet's position: the *)
(* checks that the panel leaves out follow from the program's invariants.  *)
THEOREM EnabledDepositsAccepted == PanelSpec => []EnabledIsAccepted
<1>1. SInv /\ DepositInv => EnabledIsAccepted
  <2> SUFFICES ASSUME SInv, DepositInv, ~strayed, canSubmit, UpToDate,
                      SideAgrees(connected, chosen)
               PROVE  Accepts(connected, input, chosen)
    BY DEF EnabledIsAccepted
  <2>1. /\ connected \in Bettor /\ chosen \in Side
        /\ input \in DepositAmounts /\ input > 0 /\ input <= wallet[connected]
        /\ ~preflight.loading
    BY DEF canSubmit, UpToDate, DepositInv, SendsInput
  <2>2. input \in Nat /\ now \in Nat /\ lock_ts \in Nat
    BY <2>1, InputAssumption, U64Nat DEF SInv, IInv, TypeOK
  <2>3. created /\ DepositWindowOpen
    BY <2>2 DEF canSubmit, UpToDate, optimisticallyLocked, DepositInv, DepositTypeOK,
      DepositWindowOpen
  <2>4. DepositAdmits(connected, input, chosen)
    BY <2>1, <2>2, <2>3, AffordableIsAdmitted
  <2>5. connected \in AtaOwners
    BY <2>1 DEF canSubmit, DepositInv, ReadsHold
  <2>6. Lamports[connected] >= IF opened[connected] THEN Fee ELSE Fee + Rent
    <3>1. /\ Lamports[connected] >= preflight.minRequired
          /\ Enough(connected, preflight.minRequired)
      BY <2>1 DEF canSubmit, DepositInv, ReadsHold
    <3>2. /\ Lamports[connected] \in Nat /\ Fee \in Nat /\ Rent \in Nat
          /\ preflight.minRequired \in Nat
      BY <2>1, DepositPanelAssumption DEF DepositInv, DepositTypeOK, Preflight
    <3> QED
      BY <3>1, <3>2 DEF Enough
  <2> QED
    BY <2>4, <2>5, <2>6 DEF Accepts
<1> QED
  BY <1>1, DepositInvariant, PanelImplementsProgram, StakesStay, PTL
=============================================================================

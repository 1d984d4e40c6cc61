---------------------------- MODULE TxButtonProofs ----------------------------
(***************************************************************************)
(* Proofs about TxButton, for any sets of wallets, transactions and        *)
(* handlers in flight, any number of changes of the wallet and of failed   *)
(* requests, and any environment.                                          *)
(***************************************************************************)
EXTENDS TxButton, TLAPS

-----------------------------------------------------------------------------
(* Types.                                                                  *)

Phase == {"idle", "signing", "pending", "timeout", "confirmed", "failed",
          "rejected", "expired-blockhash"}
Fate == {"unsent", "pending", "processed", "landed", "reverted"}

(* The phases that are about a signature hold one.                         *)
TxState ==
  {s \in [phase : Phase, tx : Tx \cup {NoTx}, checking : BOOLEAN] :
     s.phase \in {"pending", "timeout", "confirmed"} => s.tx \in Tx}

(* A run() before its transaction is sent and after, and a checkStatus().  *)
FreshRun == [kind : {"run"}, at : {"blockhash", "wallet"},
             generation : Nat, wallet : Wallet, tx : {NoTx}]
SentRun == [kind : {"run"}, at : {"reply", "confirmation"},
            generation : Nat, wallet : Wallet, tx : Tx]
CheckCall == [kind : {"check"}, at : {"status"},
              generation : Nat, wallet : Wallet, tx : Tx,
              status : {"unread", "not found", "processed", "landed", "reverted"},
              height : {"unread", "past", "not past"}]
Call == {NoCall} \cup FreshRun \cup SentRun \cup CheckCall

TypeOK ==
  /\ wallet \in Wallet \cup {NoWallet}
  /\ generation \in Nat
  /\ state \in TxState /\ shown \in TxState
  /\ checkingRef \in BOOLEAN /\ disabled \in BOOLEAN
  /\ unmounted \subseteq Nat
  /\ calls \in [CallId -> Call]
  /\ owner \in [Tx -> Wallet \cup {NoWallet}]
  /\ session \in [Tx -> Nat]
  /\ fate \in [Tx -> Fate]
  /\ expired \subseteq Tx
  /\ notified \in [Tx -> Nat]
  /\ givenUp \subseteq Tx
  /\ hiccups \in Nat
  /\ environment \in Environments

-----------------------------------------------------------------------------
(* Whose transaction it is.                                                *)

Sent(t) == fate[t] # "unsent"

(* t has been sent by wallet w in its session g.                           *)
Signed(t, w, g) == t \in Tx /\ owner[t] = w /\ session[t] = g /\ Sent(t)

InCall(c) == calls[c] # NoCall

(* A call's wallet and signature are those of its own session, whichever   *)
(* wallet is connected by now; a button that was taken away is of an       *)
(* earlier one.                                                            *)
CallsAreOwn ==
  /\ \A g \in unmounted : g < generation
  /\ \A c \in CallId : InCall(c) =>
       /\ calls[c].generation <= generation
       /\ Live(c) => calls[c].wallet = wallet
       /\ calls[c].tx # NoTx =>
            Signed(calls[c].tx, calls[c].wallet, calls[c].generation)

(* A state displays a signature of the present session, and "confirmed"    *)
(* only one that has landed.                                               *)
OwnState(s) ==
  /\ s.tx # NoTx => Signed(s.tx, wallet, generation)
  /\ s.phase = "confirmed" => fate[s.tx] = "landed"

SentAreOwned ==
  \A t \in Tx : /\ Sent(t) <=> owner[t] # NoWallet
                /\ session[t] <= generation
                /\ t \in expired => Sent(t) /\ fate[t] # "processed"

(* What checkStatus has been told still holds: a decided transaction stays *)
(* decided, a passed height stays passed.                                  *)
ReadsHold ==
  \A c \in CallId : calls[c] \in CheckCall =>
    /\ calls[c].status \in {"landed", "reverted"} => fate[calls[c].tx] = calls[c].status
    /\ calls[c].height = "past" => calls[c].tx \in expired

OwnInv ==
  /\ TypeOK /\ CallsAreOwn /\ OwnState(state) /\ OwnState(shown)
  /\ SentAreOwned /\ ReadsHold

-----------------------------------------------------------------------------
(* Who may still call onConfirmed.                                         *)

(* checkingRef is held while a checkStatus of the button is under way, and *)
(* by one only.                                                            *)
HoldsLock(c) == calls[c] \in CheckCall /\ SameButton(c)

CheckLock ==
  /\ \A c \in CallId : HoldsLock(c) => checkingRef
  /\ \A c, d \in CallId : HoldsLock(c) /\ HoldsLock(d) => c = d

(* No two calls are about the same signature, and the timeout phase of one *)
(* begins when its run() is over.                                          *)
OnTx(c, t) == InCall(c) /\ calls[c].tx = t
TimeoutOf(s, t) == s.phase = "timeout" /\ s.tx = t

OneCallPerTx ==
  \A t \in Tx :
    /\ \A c, d \in CallId : OnTx(c, t) /\ OnTx(d, t) => c = d
    /\ TimeoutOf(state, t) \/ TimeoutOf(shown, t) =>
         \A c \in CallId : OnTx(c, t) => calls[c] \in CheckCall

(* Once onConfirmed was called with a signature, no call that could do so  *)
(* is about it and no click can start one.                                 *)
Open(t) == \/ TimeoutOf(state, t) \/ TimeoutOf(shown, t)
           \/ \E c \in CallId : OnTx(c, t) /\ NotAbandoned(c)

NotifiedOnce ==
  \A t \in Tx : /\ notified[t] <= 1
                /\ notified[t] = 1 => Sent(t) /\ ~Open(t)

OnceInv == OwnInv /\ CheckLock /\ OneCallPerTx /\ NotifiedOnce

-----------------------------------------------------------------------------
(* What keeps a transaction in doubt from being joined by another, when    *)
(* each click is rendered and each signature comes back.                   *)

(* The phase tells which await the session's call is in.                   *)
PhaseOf(c) == CASE calls[c].at = "confirmation" -> At("pending", calls[c].tx)
                [] calls[c].at = "status" -> Checking(calls[c].tx)
                [] OTHER -> At("signing", NoTx)

(* A transaction in doubt is the business of whatever call its session     *)
(* has, and in the present session it is displayed, in a phase from which  *)
(* nothing is sent, or a call's.                                           *)
Held(s, t) == s.phase \in {"timeout", "confirmed"} /\ s.tx = t

Followed(t) == \/ Held(state, t)
               \/ \E c \in CallId : OnTx(c, t) /\ Live(c)

DoubtIsFollowed ==
  \A t \in Tx : InDoubt(t) =>
    /\ \A c \in CallId :
         InCall(c) /\ calls[c].generation = session[t] => calls[c].tx = t
    /\ session[t] = generation => Followed(t)

OneCallPerSession ==
  \A c, d \in CallId :
    InCall(c) /\ InCall(d) /\ calls[c].generation = calls[d].generation => c = d

PhaseTells == \A c \in CallId : InCall(c) /\ Live(c) => state = PhaseOf(c)

SeenParts ==
  shown = state /\ OneCallPerSession /\ PhaseTells /\ DoubtIsFollowed

SeenInv == OwnInv /\ (Unseen \/ SeenParts)

-----------------------------------------------------------------------------
(* Type correctness.                                                       *)

(* The two values that stand for nothing are none of the others.           *)
LEMMA None == NoWallet \notin Wallet /\ NoTx \notin Tx
  BY NoneAssumption

(* The records that the code builds are of their types.                    *)
LEMMA StateTypes ==
  /\ Idle \in TxState
  /\ \A p \in {"signing", "failed", "rejected", "expired-blockhash"} : At(p, NoTx) \in TxState
  /\ \A p \in Phase, t \in Tx : At(p, t) \in TxState
  /\ \A t \in Tx : Checking(t) \in TxState
<1>1. Idle \in TxState
  BY DEF Idle, At, TxState, Phase
<1>2. \A p \in {"signing", "failed", "rejected", "expired-blockhash"} : At(p, NoTx) \in TxState
  BY DEF At, TxState, Phase
<1>3. \A p \in Phase, t \in Tx : At(p, t) \in TxState
  BY DEF At, TxState
<1>4. \A t \in Tx : Checking(t) \in TxState
  BY DEF Checking, TxState, Phase
<1> QED
  BY <1>1, <1>2, <1>3, <1>4

(* The await that a call is in tells what it is.                           *)
LEMMA CallKinds ==
  ASSUME NEW k \in Call
  PROVE  /\ k # NoCall => k.generation \in Nat /\ k.wallet \in Wallet
         /\ k # NoCall /\ k.at \in {"blockhash", "wallet"} => k \in FreshRun
         /\ k # NoCall /\ k.at \in {"reply", "confirmation"} => k \in SentRun
         /\ k # NoCall /\ k.at = "status" => k \in CheckCall
         /\ k \in FreshRun => k # NoCall /\ k.at \in {"blockhash", "wallet"} /\ k.tx = NoTx
         /\ k \in SentRun => k # NoCall /\ k.at \in {"reply", "confirmation"} /\ k.tx \in Tx
         /\ k \in CheckCall => k # NoCall /\ k.at = "status" /\ k.tx \in Tx
<1>1. NoCall \notin FreshRun /\ NoCall \notin SentRun /\ NoCall \notin CheckCall
  BY DEF FreshRun, SentRun, CheckCall, NoCall
<1>2. ASSUME k \in FreshRun
      PROVE  /\ k # NoCall /\ k.at \in {"blockhash", "wallet"} /\ k.tx = NoTx
             /\ k.generation \in Nat /\ k.wallet \in Wallet
  BY <1>1, <1>2 DEF FreshRun
<1>3. ASSUME k \in SentRun
      PROVE  /\ k # NoCall /\ k.at \in {"reply", "confirmation"} /\ k.tx \in Tx
             /\ k.generation \in Nat /\ k.wallet \in Wallet
  BY <1>1, <1>3 DEF SentRun
<1>4. ASSUME k \in CheckCall
      PROVE  /\ k # NoCall /\ k.at = "status" /\ k.tx \in Tx
             /\ k.generation \in Nat /\ k.wallet \in Wallet
  BY <1>1, <1>4 DEF CheckCall
<1> QED
  BY <1>1, <1>2, <1>3, <1>4 DEF Call

(* A call that returns leaves a state of its own making, or none.          *)
LEMMA ReturnType ==
  ASSUME TypeOK, NEW c \in CallId, NEW s \in TxState, Return(c, s)
  PROVE  /\ state' \in TxState /\ shown' \in TxState
         /\ calls' \in [CallId -> Call]
<1>1. state' \in TxState /\ shown' \in TxState
  BY DEF TypeOK, Return, SetState
<1>2. NoCall \in Call
  BY DEF Call
<1> QED
  BY <1>1, <1>2 DEF TypeOK, Return

(* A run() that goes on stays a run().                                     *)
LEMMA AwaitType ==
  ASSUME TypeOK, NEW c \in CallId, NEW at, NEW t, NEW s \in TxState,
         NotAbandoned(c) => [calls[c] EXCEPT !.at = at, !.tx = t] \in Call,
         Await(c, at, t, s)
  PROVE  /\ state' \in TxState /\ shown' \in TxState
         /\ calls' \in [CallId -> Call]
<1>1. state' \in TxState /\ shown' \in TxState
  BY DEF TypeOK, Await, SetState
<1>2. NoCall \in Call
  BY DEF Call
<1> QED
  BY <1>1, <1>2 DEF TypeOK, Await

(* One more failed request.                                                *)
LEMMA HiccupType ==
  ASSUME TypeOK, Hiccup
  PROVE  hiccups' \in Nat
<1>1. hiccups \in Nat
  BY DEF TypeOK
<1>2. hiccups' = hiccups + 1
  BY DEF Hiccup
<1> QED
  BY <1>1, <1>2

(* The button's variables and the chain's keep their types.                *)
LEMMA TypeStep == TypeOK /\ CallsAreOwn /\ [Next]_vars => TypeOK'
<1> SUFFICES ASSUME TypeOK, CallsAreOwn, [Next]_vars
             PROVE  TypeOK'
  OBVIOUS
<1> USE StateTypes
<1>0. \A c \in CallId : calls[c] \in Call
  BY DEF TypeOK
<1>1. ASSUME NEW c \in CallId, StartRun(c)
      PROVE  TypeOK'
  <2>1. [kind |-> "run", at |-> "blockhash", generation |-> generation,
         wallet |-> wallet, tx |-> NoTx] \in Call
    BY <1>1 DEF StartRun, Clickable, TypeOK, Call, FreshRun
  <2>2. calls' \in [CallId -> Call]
    BY <1>1, <2>1 DEF StartRun, Place, TypeOK
  <2>3. state' \in TxState /\ shown' \in TxState
    BY <1>1 DEF StartRun, RenderAfterClick, TypeOK, Phase
  <2> QED
    BY <1>1, <2>2, <2>3 DEF StartRun, TypeOK, chainVars
<1>2. ASSUME NEW c \in CallId, StartCheck(c)
      PROVE  TypeOK'
  <2>0. shown.tx \in Tx
    BY <1>2 DEF StartCheck, TypeOK, TxState
  <2>1. [kind |-> "check", at |-> "status", generation |-> generation,
         wallet |-> wallet, tx |-> shown.tx,
         status |-> "unread", height |-> "unread"] \in Call
    BY <1>2, <2>0 DEF StartCheck, Clickable, TypeOK, Call, CheckCall
  <2>2. calls' \in [CallId -> Call]
    BY <1>2, <2>1 DEF StartCheck, Place, TypeOK
  <2>3. state' \in TxState /\ shown' \in TxState
    BY <1>2, <2>0 DEF StartCheck, RenderAfterClick, TypeOK
  <2>4. checkingRef' \in BOOLEAN
    BY <1>2 DEF StartCheck
  <2> QED
    BY <1>2, <2>2, <2>3, <2>4 DEF StartCheck, TypeOK, Context, chainVars
<1>3. ASSUME NEW c \in CallId, BlockhashArrives(c)
      PROVE  TypeOK'
  <2>0. calls[c] \in FreshRun /\ state \in TxState
    BY <1>0, <1>3, CallKinds DEF BlockhashArrives, Waiting, TypeOK
  <2>1. [calls[c] EXCEPT !.at = "wallet", !.tx = NoTx] \in Call
    BY <2>0 DEF Call, FreshRun
  <2>2. state' \in TxState /\ shown' \in TxState /\ calls' \in [CallId -> Call]
    BY <1>3, <2>0, <2>1, AwaitType DEF BlockhashArrives
  <2> QED
    BY <1>3, <2>2 DEF BlockhashArrives, TypeOK, Context, chainVars
<1>4. ASSUME NEW c \in CallId, BlockhashFails(c)
      PROVE  TypeOK'
  <2>1. state' \in TxState /\ shown' \in TxState /\ calls' \in [CallId -> Call]
    BY <1>4, ReturnType DEF BlockhashFails, BlockhashFailure, Phase
  <2>2. hiccups' \in Nat
    BY <1>4, HiccupType DEF BlockhashFails
  <2> QED
    BY <1>4, <2>1, <2>2 DEF BlockhashFails, TypeOK, Context, chainVars
<1>5. ASSUME NEW c \in CallId, NotSent(c)
      PROVE  TypeOK'
  <2>1. state' \in TxState /\ shown' \in TxState /\ calls' \in [CallId -> Call]
    BY <1>5, ReturnType DEF NotSent, Phase
  <2> QED
    BY <1>5, <2>1 DEF NotSent, TypeOK, Context, chainVars
<1>6. ASSUME NEW c \in CallId, NEW t \in Tx, Send(c, t)
      PROVE  TypeOK'
  <2>1. calls[c] \in FreshRun
    BY <1>0, <1>6, CallKinds DEF Send, Waiting
  <2>2. [calls[c] EXCEPT !.at = "reply", !.tx = t] \in Call
    BY <2>1 DEF Call, FreshRun, SentRun
  <2>3. calls' \in [CallId -> Call]
    BY <1>6, <2>2 DEF Send, TypeOK
  <2>4. calls[c].wallet \in Wallet /\ calls[c].generation \in Nat
    BY <2>1 DEF FreshRun
  <2> QED
    BY <1>6, <2>3, <2>4 DEF Send, TypeOK, Context, Fate
<1>7. ASSUME NEW c \in CallId, ReplyArrives(c)
      PROVE  TypeOK'
  <2>1. calls[c] \in SentRun /\ calls[c].tx \in Tx
    BY <1>0, <1>7, CallKinds DEF ReplyArrives, Waiting
  <2>2. At("pending", calls[c].tx) \in TxState
    BY <2>1 DEF Phase
  <2>4. [calls[c] EXCEPT !.at = "confirmation", !.tx = calls[c].tx] \in Call
    BY <2>1 DEF Call, SentRun
  <2>3. state' \in TxState /\ shown' \in TxState /\ calls' \in [CallId -> Call]
    BY <1>7, <2>2, <2>4, AwaitType DEF ReplyArrives
  <2> QED
    BY <1>7, <2>3 DEF ReplyArrives, TypeOK, Context, chainVars
<1>8. ASSUME NEW c \in CallId, ReplyLost(c)
      PROVE  TypeOK'
  <2>1. state' \in TxState /\ shown' \in TxState /\ calls' \in [CallId -> Call]
    BY <1>8, ReturnType DEF ReplyLost, Phase
  <2> QED
    BY <1>8, <2>1 DEF ReplyLost, TypeOK, Context, chainVars
<1>9. ASSUME NEW c \in CallId, Confirmation(c)
      PROVE  TypeOK'
  <2>0. calls[c].tx \in Tx
    BY <1>0, <1>9, CallKinds DEF Confirmation, Waiting
  <2>1. state' \in TxState /\ shown' \in TxState /\ calls' \in [CallId -> Call]
    BY <1>9, <2>0, ReturnType DEF Confirmation, Phase
  <2>2. notified' \in [Tx -> Nat]
    BY <1>9 DEF Confirmation, Notify, TypeOK
  <2> QED
    BY <1>9, <2>1, <2>2 DEF Confirmation, TypeOK, Context, chainVars
<1>10. ASSUME NEW c \in CallId, ConfirmationExpires(c)
       PROVE  TypeOK'
  <2>1. state' \in TxState /\ shown' \in TxState /\ calls' \in [CallId -> Call]
    BY <1>10, ReturnType DEF ConfirmationExpires, Phase
  <2> QED
    BY <1>10, <2>1 DEF ConfirmationExpires, TypeOK, Context, chainVars
<1>11. ASSUME NEW c \in CallId, ConfirmationTimesOut(c)
       PROVE  TypeOK'
  <2>0. calls[c].tx \in Tx
    BY <1>0, <1>11, CallKinds DEF ConfirmationTimesOut, Waiting
  <2>1. state' \in TxState /\ shown' \in TxState /\ calls' \in [CallId -> Call]
    BY <1>11, <2>0, ReturnType DEF ConfirmationTimesOut, Phase
  <2> QED
    BY <1>11, <2>1 DEF ConfirmationTimesOut, TypeOK, Context, chainVars
<1>12. ASSUME NEW c \in CallId, ReadStatus(c) \/ ReadHeight(c)
       PROVE  TypeOK'
  <2>1. calls[c] \in CheckCall
    BY <1>0, <1>12, CallKinds DEF ReadStatus, ReadHeight, Waiting
  <2>2. \A x \in {"not found", "processed", "landed", "reverted"} :
          [calls[c] EXCEPT !.status = x] \in Call
    BY <2>1 DEF Call, CheckCall
  <2>3. \A x \in {"past", "not past"} : [calls[c] EXCEPT !.height = x] \in Call
    BY <2>1 DEF Call, CheckCall
  <2>4. calls' \in [CallId -> Call]
    <3>1. ASSUME ReadStatus(c)
          PROVE  calls' \in [CallId -> Call]
      <4>1. fate[calls[c].tx] \in Fate
        BY <2>1 DEF CheckCall, TypeOK
      <4>2. fate[calls[c].tx] # "unsent"
        <5>1. InCall(c) /\ calls[c].tx # NoTx
          BY <1>0, <2>1, CallKinds, None DEF InCall
        <5> QED
          BY <5>1 DEF CallsAreOwn, Signed, Sent
      <4> QED
        BY <2>2, <3>1, <4>1, <4>2 DEF ReadStatus, TypeOK, Fate
    <3>2. ASSUME ReadHeight(c)
          PROVE  calls' \in [CallId -> Call]
      BY <2>3, <3>2 DEF ReadHeight, TypeOK
    <3> QED
      BY <1>12, <3>1, <3>2
  <2> QED
    BY <1>12, <2>4 DEF ReadStatus, ReadHeight, TypeOK, Context, chainVars
<1>13. ASSUME NEW c \in CallId, CheckReturns(c)
       PROVE  TypeOK'
  <2>1. calls[c].tx \in Tx
    BY <1>0, <1>13, CallKinds DEF CheckReturns, Waiting
  <2>2. Conclude(calls[c].status, calls[c].height, calls[c].tx) \in TxState
    BY <2>1 DEF Conclude, Phase
  <2>3. state' \in TxState /\ shown' \in TxState /\ calls' \in [CallId -> Call]
    BY <1>13, <2>2, ReturnType DEF CheckReturns
  <2>4. notified' \in [Tx -> Nat]
    BY <1>13 DEF CheckReturns, Notify, TypeOK
  <2>5. givenUp' \subseteq Tx
    BY <1>13, <2>1 DEF CheckReturns, TypeOK
  <2>6. checkingRef' \in BOOLEAN
    BY <1>13 DEF CheckReturns, Unlock, TypeOK
  <2> QED
    BY <1>13, <2>3, <2>4, <2>5, <2>6 DEF CheckReturns, TypeOK, Context, chainVars
<1>14. ASSUME NEW c \in CallId, CheckFails(c)
       PROVE  TypeOK'
  <2>1. At("timeout", calls[c].tx) \in TxState
    BY <1>0, <1>14, CallKinds DEF CheckFails, Waiting, Phase
  <2>2. state' \in TxState /\ shown' \in TxState /\ calls' \in [CallId -> Call]
    BY <1>14, <2>1, ReturnType DEF CheckFails
  <2>3. checkingRef' \in BOOLEAN
    BY <1>14 DEF CheckFails, Unlock, TypeOK
  <2>4. hiccups' \in Nat
    BY <1>14, HiccupType DEF CheckFails
  <2> QED
    BY <1>14, <2>2, <2>3, <2>4 DEF CheckFails, TypeOK, Context, chainVars
<1>15. ASSUME NEW w \in Wallet \cup {NoWallet}, SwitchWallet(w) \/ Unmount(w) \/ Mount(w)
       PROVE  TypeOK'
  <2>1. SwitchTo(w) /\ checkingRef' \in BOOLEAN /\ unmounted' \subseteq Nat
    BY <1>15 DEF SwitchWallet, Unmount, Mount, TypeOK
  <2> QED
    BY <2>1 DEF SwitchTo, TypeOK, chainVars
<1>16. ASSUME ParentDisables
       PROVE  TypeOK'
  <2>1. disabled' \in BOOLEAN
    BY <1>16 DEF ParentDisables
  <2> QED
    BY <1>16, <2>1 DEF ParentDisables, TypeOK, chainVars
<1>17. ASSUME NEW t \in Tx, Chain(t)
       PROVE  TypeOK'
  BY <1>17 DEF Chain, Process, Revert, Confirm, Fork, Becomes, Expire, buttonVars, TypeOK, Fate
<1>18. ASSUME UNCHANGED vars
       PROVE  TypeOK'
  BY <1>18 DEF vars, buttonVars, chainVars, TypeOK
<1> QED
  BY <1>1, <1>2, <1>3, <1>4, <1>5, <1>6, <1>7, <1>8, <1>9, <1>10, <1>11, <1>12,
     <1>13, <1>14, <1>15, <1>16, <1>17, <1>18 DEF Next, Answer

-----------------------------------------------------------------------------
(* What is displayed is of the present session.                            *)

(* A step that neither changes the session nor what the chain knows.       *)
QuietStep == UNCHANGED <<wallet, generation, unmounted, chainVars>>

(* A call that ends may only be the author of a state of its own.          *)
LEMMA EndKeepsOwn ==
  ASSUME OwnInv, TypeOK', QuietStep, NEW c \in CallId, NEW s \in TxState,
         Return(c, s), Live(c) => OwnState(s)
  PROVE  OwnInv'
<1> USE DEF OwnInv, QuietStep, chainVars
<1>1. \A d \in CallId : calls'[d] = IF d = c THEN NoCall ELSE calls[d]
  BY DEF Return, TypeOK
<1>2. CallsAreOwn'
  BY <1>1 DEF CallsAreOwn, InCall, Live, Signed, Sent
<1>3. OwnState(state)' /\ OwnState(shown)'
  BY DEF Return, SetState, OwnState, Signed, Sent
<1>4. SentAreOwned'
  BY DEF SentAreOwned, Sent
<1>5. ReadsHold'
  <2> SUFFICES ASSUME NEW d \in CallId, calls'[d] \in CheckCall
               PROVE  /\ calls'[d].status \in {"landed", "reverted"} =>
                           fate'[calls'[d].tx] = calls'[d].status
                      /\ calls'[d].height = "past" => calls'[d].tx \in expired'
    BY DEF ReadsHold
  <2>1. NoCall \in Call
    BY DEF Call
  <2>2. calls'[d] = calls[d]
    BY <1>1, <2>1, CallKinds
  <2> QED
    BY <2>2 DEF ReadsHold
<1> QED
  BY <1>2, <1>3, <1>4, <1>5

(* A run() that goes on with the same signature keeps what it has.         *)
LEMMA AwaitKeepsOwn ==
  ASSUME OwnInv, TypeOK', QuietStep, NEW c \in CallId, NEW at \in {"wallet", "confirmation"},
         InCall(c), calls[c].at # "status", NEW s \in TxState,
         Await(c, at, calls[c].tx, s), Live(c) => OwnState(s)
  PROVE  OwnInv'
<1> USE DEF OwnInv, QuietStep, chainVars
<1>0. calls[c] \in FreshRun \/ calls[c] \in SentRun
  BY CallKinds DEF InCall, TypeOK, Call
<1>1. \A d \in CallId : d # c => calls'[d] = calls[d]
  BY DEF Await, TypeOK
<1>2. \/ calls'[c] = NoCall
      \/ /\ calls'[c].generation = calls[c].generation
         /\ calls'[c].wallet = calls[c].wallet
         /\ calls'[c].tx = calls[c].tx
         /\ calls'[c].at = at
  BY <1>0 DEF Await, TypeOK, FreshRun, SentRun
<1>3. CallsAreOwn'
  BY <1>1, <1>2 DEF CallsAreOwn, InCall, Live, Signed, Sent
<1>4. OwnState(state)' /\ OwnState(shown)'
  BY DEF Await, SetState, OwnState, Signed, Sent
<1>5. SentAreOwned'
  BY DEF SentAreOwned, Sent
<1>6. ReadsHold'
  <2> SUFFICES ASSUME NEW d \in CallId, calls'[d] \in CheckCall
               PROVE  /\ calls'[d].status \in {"landed", "reverted"} =>
                           fate'[calls'[d].tx] = calls'[d].status
                      /\ calls'[d].height = "past" => calls'[d].tx \in expired'
    BY DEF ReadsHold
  <2>1. calls'[d] \in Call
    BY DEF TypeOK
  <2>2. calls'[d] = calls[d]
    BY <1>1, <1>2, <2>1, CallKinds
  <2> QED
    BY <2>2 DEF ReadsHold
<1> QED
  BY <1>3, <1>4, <1>5, <1>6

(* The chain keeps the owner of each transaction, and what is decided.     *)
LEMMA ChainKeepsOwn ==
  ASSUME OwnInv, TypeOK', UNCHANGED buttonVars, UNCHANGED <<owner, session>>,
         expired \subseteq expired',
         \A t \in Tx : /\ Sent(t)' <=> Sent(t)
                       /\ fate[t] \in {"landed", "reverted"} => fate'[t] = fate[t]
                       /\ t \in expired' => Sent(t) /\ fate'[t] # "processed"
  PROVE  OwnInv'
<1> USE DEF OwnInv, buttonVars
<1>1. CallsAreOwn'
  BY DEF CallsAreOwn, InCall, Live, Signed
<1>2. OwnState(state)' /\ OwnState(shown)'
  BY DEF OwnState, Signed, TypeOK, TxState
<1>3. SentAreOwned'
  BY DEF SentAreOwned
<1>4. ReadsHold'
  <2> SUFFICES ASSUME NEW d \in CallId, calls[d] \in CheckCall
               PROVE  /\ calls[d].status \in {"landed", "reverted"} =>
                           fate'[calls[d].tx] = calls[d].status
                      /\ calls[d].height = "past" => calls[d].tx \in expired'
    BY DEF ReadsHold
  <2>1. calls[d].tx \in Tx
    BY CallKinds DEF TypeOK
  <2> QED
    BY <2>1 DEF ReadsHold
<1> QED
  BY <1>1, <1>2, <1>3, <1>4

(* An answer to a checkStatus changes nothing but what it has been told.   *)
LEMMA ReadKeepsOwn ==
  ASSUME OwnInv, TypeOK', QuietStep, UNCHANGED <<state, shown>>,
         NEW c \in CallId, calls[c] \in CheckCall,
         NEW x, calls' = [calls EXCEPT ![c] = x], x \in CheckCall,
         x.generation = calls[c].generation, x.wallet = calls[c].wallet,
         x.tx = calls[c].tx,
         x.status \in {"landed", "reverted"} => fate[x.tx] = x.status,
         x.height = "past" => x.tx \in expired
  PROVE  OwnInv'
<1> USE DEF OwnInv, QuietStep, chainVars
<1>1. \A d \in CallId : calls'[d] = IF d = c THEN x ELSE calls[d]
  BY DEF TypeOK
<1>2. CallsAreOwn'
  <2>1. InCall(c)
    BY CallKinds DEF TypeOK, InCall
  <2> QED
    BY <1>1, <2>1 DEF CallsAreOwn, InCall, Live, Signed, Sent
<1>3. OwnState(state)' /\ OwnState(shown)'
  BY DEF OwnState, Signed, Sent
<1>4. SentAreOwned'
  BY DEF SentAreOwned, Sent
<1>5. ReadsHold'
  BY <1>1 DEF ReadsHold
<1> QED
  BY <1>2, <1>3, <1>4, <1>5

(* A new call is of the connected wallet and the present session.          *)
LEMMA StartKeepsOwn ==
  ASSUME OwnInv, TypeOK', QuietStep, NEW c \in CallId, NEW k \in Call, Place(c, k),
         k.generation = generation, k.wallet = wallet,
         k.tx # NoTx => Signed(k.tx, wallet, generation),
         k \in CheckCall => k.status = "unread" /\ k.height = "unread",
         NEW s \in TxState, state' = s, OwnState(s), shown' \in {shown, s}
  PROVE  OwnInv'
<1> USE DEF OwnInv, QuietStep, chainVars
<1>1. \A d \in CallId : calls'[d] = IF d = c THEN k ELSE calls[d]
  BY DEF Place, TypeOK
<1>2. CallsAreOwn'
  BY <1>1 DEF CallsAreOwn, InCall, Live, Signed, Sent, TypeOK
<1>3. OwnState(state)' /\ OwnState(shown)'
  BY DEF OwnState, Signed, Sent
<1>4. SentAreOwned'
  BY DEF SentAreOwned, Sent
<1>5. ReadsHold'
  BY <1>1 DEF ReadsHold
<1> QED
  BY <1>2, <1>3, <1>4, <1>5

(* What checkStatus may conclude: "confirmed" from a landed status only,   *)
(* and that the transaction is dead from a passed height only.             *)
LEMMA Conclusions ==
  ASSUME NEW status, NEW height, NEW t
  PROVE  \/ Conclude(status, height, t) = At("failed", t) /\ status = "reverted"
         \/ Conclude(status, height, t) = At("confirmed", t) /\ status = "landed"
         \/ Conclude(status, height, t) = At("timeout", t)
         \/ Conclude(status, height, t) = At("expired-blockhash", NoTx) /\ height = "past"
<1>1. CASE status = "reverted"
  BY <1>1 DEF Conclude
<1>2. CASE status = "landed"
  BY <1>2 DEF Conclude
<1>3. CASE status = "not found" /\ height = "past"
  BY <1>3 DEF Conclude
<1>4. CASE status \notin {"reverted", "landed"} /\ ~(status = "not found" /\ height = "past")
  BY <1>4 DEF Conclude
<1> QED
  BY <1>1, <1>2, <1>3, <1>4

(* Each step keeps what is displayed, and what each call knows, the        *)
(* session's own.                                                          *)
LEMMA OwnStep == OwnInv /\ [Next]_vars => OwnInv'
<1> SUFFICES ASSUME OwnInv, [Next]_vars
             PROVE  OwnInv'
  OBVIOUS
<1> USE None, StateTypes
<1>0. TypeOK' /\ TypeOK /\ \A c \in CallId : calls[c] \in Call
  BY TypeStep DEF OwnInv, TypeOK
<1>1. ASSUME NEW c \in CallId, StartRun(c)
      PROVE  OwnInv'
  <2> DEFINE k == [kind |-> "run", at |-> "blockhash", generation |-> generation,
                   wallet |-> wallet, tx |-> NoTx]
  <2>1. k \in FreshRun
    BY <1>0, <1>1 DEF StartRun, Clickable, TypeOK, FreshRun
  <2>2. k \in Call /\ k \notin CheckCall
    BY <2>1, CallKinds DEF Call
  <2>3. OwnState(At("signing", NoTx))
    BY DEF OwnState, At
  <2>4. shown' \in {shown, At("signing", NoTx)}
    BY <1>1 DEF StartRun, RenderAfterClick
  <2>5. QuietStep /\ Place(c, k) /\ state' = At("signing", NoTx)
    BY <1>1 DEF StartRun, QuietStep
  <2> QED
    BY <1>0, <2>2, <2>3, <2>4, <2>5, StartKeepsOwn
<1>2. ASSUME NEW c \in CallId, StartCheck(c)
      PROVE  OwnInv'
  <2> DEFINE k == [kind |-> "check", at |-> "status", generation |-> generation,
                   wallet |-> wallet, tx |-> shown.tx,
                   status |-> "unread", height |-> "unread"]
  <2>0. shown.tx \in Tx /\ Signed(shown.tx, wallet, generation)
    BY <1>0, <1>2 DEF StartCheck, TypeOK, TxState, OwnInv, OwnState
  <2>1. k \in CheckCall
    BY <1>0, <1>2, <2>0 DEF StartCheck, Clickable, TypeOK, CheckCall
  <2>2. k \in Call
    BY <2>1 DEF Call
  <2>3. OwnState(Checking(shown.tx))
    BY <2>0 DEF OwnState, Checking
  <2>4. shown' \in {shown, Checking(shown.tx)}
    BY <1>2 DEF StartCheck, RenderAfterClick
  <2>5. QuietStep /\ Place(c, k) /\ state' = Checking(shown.tx)
    BY <1>2 DEF StartCheck, QuietStep, Context
  <2>6. Checking(shown.tx) \in TxState
    BY <2>0
  <2> QED
    BY <1>0, <2>0, <2>2, <2>3, <2>4, <2>5, <2>6, StartKeepsOwn
<1>3. ASSUME NEW c \in CallId, BlockhashArrives(c)
      PROVE  OwnInv'
  <2>1. InCall(c) /\ calls[c].at # "status" /\ calls[c].tx = NoTx
    BY <1>0, <1>3, CallKinds DEF BlockhashArrives, Waiting, InCall
  <2>2. QuietStep /\ Await(c, "wallet", NoTx, state) /\ state \in TxState /\ OwnState(state)
    BY <1>0, <1>3 DEF BlockhashArrives, QuietStep, Context, OwnInv, TypeOK
  <2> QED
    BY <1>0, <2>1, <2>2, AwaitKeepsOwn
<1>4. ASSUME NEW c \in CallId, BlockhashFails(c)
      PROVE  OwnInv'
  <2>1. OwnState(At("failed", NoTx))
    BY DEF OwnState, At
  <2>2. QuietStep /\ Return(c, At("failed", NoTx))
    BY <1>4 DEF BlockhashFails, BlockhashFailure, QuietStep, Context
  <2> QED
    BY <1>0, <2>1, <2>2, EndKeepsOwn
<1>5. ASSUME NEW c \in CallId, NotSent(c)
      PROVE  OwnInv'
  <2>1. PICK p \in {"rejected", "expired-blockhash", "failed"} : Return(c, At(p, NoTx))
    BY <1>5 DEF NotSent
  <2>2. OwnState(At(p, NoTx))
    BY DEF OwnState, At
  <2>3. QuietStep
    BY <1>5 DEF NotSent, QuietStep, Context
  <2> QED
    BY <1>0, <2>1, <2>2, <2>3, EndKeepsOwn
<1>6. ASSUME NEW c \in CallId, NEW t \in Tx, Send(c, t)
      PROVE  OwnInv'
  <2>1. calls[c] \in FreshRun /\ InCall(c) /\ calls[c].tx = NoTx /\ ~Sent(t)
    BY <1>0, <1>6, CallKinds DEF Send, Waiting, InCall, Sent
  <2>2. \A d \in CallId : d # c => calls'[d] = calls[d]
    BY <1>0, <1>6 DEF Send, TypeOK
  <2>3. /\ calls'[c].generation = calls[c].generation
        /\ calls'[c].wallet = calls[c].wallet
        /\ calls'[c].tx = t /\ calls'[c].at = "reply"
    BY <1>0, <1>6, <2>1 DEF Send, TypeOK, FreshRun
  <2>4. \A u \in Tx : IF u = t
                      THEN /\ owner'[u] = calls[c].wallet
                           /\ session'[u] = calls[c].generation
                           /\ Sent(u)'
                      ELSE /\ owner'[u] = owner[u] /\ session'[u] = session[u]
                           /\ fate'[u] = fate[u] /\ (Sent(u)' <=> Sent(u))
    BY <1>0, <1>6 DEF Send, TypeOK, Sent
  <2>5. \A u, w, g : Signed(u, w, g) => Signed(u, w, g)'
    BY <2>1, <2>4 DEF Signed
  <2>6. UNCHANGED <<wallet, generation, unmounted, state, shown, expired>>
    BY <1>6 DEF Send, Context
  <2>7. CallsAreOwn'
    <3> SUFFICES ASSUME NEW d \in CallId, InCall(d)'
                 PROVE  /\ calls'[d].generation <= generation
                        /\ Live(d)' => calls'[d].wallet = wallet
                        /\ calls'[d].tx # NoTx =>
                             Signed(calls[d].tx, calls[d].wallet, calls[d].generation)'
      BY <2>6 DEF OwnInv, CallsAreOwn
    <3>1. CASE d = c
      BY <2>1, <2>3, <2>4, <2>6, <3>1 DEF OwnInv, CallsAreOwn, InCall, Live, Signed
    <3>2. CASE d # c
      <4>1. calls'[d] = calls[d] /\ InCall(d) /\ (Live(d)' <=> Live(d))
        BY <2>2, <2>6, <3>2 DEF InCall, Live
      <4>2. calls[d].tx # NoTx => Signed(calls[d].tx, calls[d].wallet, calls[d].generation)
        BY <4>1 DEF OwnInv, CallsAreOwn
      <4>3. calls[d].tx # NoTx =>
              Signed(calls[d].tx, calls[d].wallet, calls[d].generation)'
        BY <2>1, <2>4, <4>1, <4>2 DEF Signed
      <4> QED
        BY <4>1, <4>3, <2>6 DEF OwnInv, CallsAreOwn
    <3> QED
      BY <3>1, <3>2
  <2>8. OwnState(state)' /\ OwnState(shown)'
    <3>1. \A s \in TxState : OwnState(s) => (s.phase = "confirmed" => s.tx # t)
      BY <2>1 DEF OwnState, Sent
    <3> QED
      BY <1>0, <2>1, <2>4, <2>6, <3>1 DEF OwnInv, OwnState, Signed, TypeOK, TxState
  <2>9. SentAreOwned'
    <3>1. calls[c].wallet \in Wallet /\ calls[c].generation <= generation
      BY <1>0, <2>1, CallKinds DEF OwnInv, CallsAreOwn, InCall
    <3>2. fate'[t] = "pending" /\ t \notin expired
      BY <1>0, <1>6, <2>1 DEF Send, OwnInv, TypeOK, SentAreOwned
    <3> QED
      BY <2>4, <2>6, <3>1, <3>2 DEF OwnInv, SentAreOwned
  <2>10. ReadsHold'
    <3> SUFFICES ASSUME NEW d \in CallId, calls'[d] \in CheckCall
                 PROVE  /\ calls'[d].status \in {"landed", "reverted"} =>
                             fate'[calls'[d].tx] = calls'[d].status
                        /\ calls'[d].height = "past" => calls'[d].tx \in expired
      BY <2>6 DEF ReadsHold
    <3>1. calls'[d] = calls[d] /\ d # c
      BY <1>0, <2>2, <2>3, CallKinds DEF TypeOK
    <3>2. calls[d].tx \in Tx /\ Sent(calls[d].tx)
      BY <1>0, <3>1, CallKinds DEF OwnInv, CallsAreOwn, InCall, Signed
    <3> QED
      BY <2>1, <2>4, <3>1, <3>2 DEF OwnInv, ReadsHold
  <2> QED
    BY <1>0, <2>7, <2>8, <2>9, <2>10 DEF OwnInv
<1>7. ASSUME NEW c \in CallId, ReplyArrives(c)
      PROVE  OwnInv'
  <2>1. InCall(c) /\ calls[c].at # "status" /\ calls[c].tx \in Tx
    BY <1>0, <1>7, CallKinds DEF ReplyArrives, Waiting, InCall
  <2>2. QuietStep /\ Await(c, "confirmation", calls[c].tx, At("pending", calls[c].tx))
    BY <1>7 DEF ReplyArrives, QuietStep, Context
  <2>3. At("pending", calls[c].tx) \in TxState
    BY <2>1 DEF Phase
  <2>4. Live(c) => OwnState(At("pending", calls[c].tx))
    BY <2>1 DEF OwnInv, CallsAreOwn, Live, OwnState, At
  <2> QED
    BY <1>0, <2>1, <2>2, <2>3, <2>4, AwaitKeepsOwn
<1>8. ASSUME NEW c \in CallId, ReplyLost(c)
      PROVE  OwnInv'
  <2>1. OwnState(At("failed", NoTx))
    BY DEF OwnState, At
  <2>2. QuietStep /\ Return(c, At("failed", NoTx))
    BY <1>8 DEF ReplyLost, QuietStep, Context
  <2> QED
    BY <1>0, <2>1, <2>2, EndKeepsOwn
<1>9. ASSUME NEW c \in CallId, Confirmation(c)
      PROVE  OwnInv'
  <2>1. InCall(c) /\ calls[c].tx \in Tx
    BY <1>0, <1>9, CallKinds DEF Confirmation, Waiting, InCall
  <2>2. PICK p \in {"confirmed", "failed"} :
          /\ Return(c, At(p, calls[c].tx))
          /\ p = "confirmed" => fate[calls[c].tx] = "landed"
    BY <1>9 DEF Confirmation
  <2>3. At(p, calls[c].tx) \in TxState
    BY <2>1 DEF Phase
  <2>4. Live(c) => OwnState(At(p, calls[c].tx))
    BY <2>1, <2>2 DEF OwnInv, CallsAreOwn, Live, OwnState, At
  <2>5. QuietStep
    BY <1>9 DEF Confirmation, QuietStep, Context
  <2> QED
    BY <1>0, <2>2, <2>3, <2>4, <2>5, EndKeepsOwn
<1>10. ASSUME NEW c \in CallId, ConfirmationExpires(c)
       PROVE  OwnInv'
  <2>1. OwnState(At("expired-blockhash", NoTx))
    BY DEF OwnState, At
  <2>2. QuietStep /\ Return(c, At("expired-blockhash", NoTx))
    BY <1>10 DEF ConfirmationExpires, QuietStep, Context
  <2> QED
    BY <1>0, <2>1, <2>2, EndKeepsOwn
<1>11. ASSUME NEW c \in CallId, ConfirmationTimesOut(c) \/ CheckFails(c)
       PROVE  OwnInv'
  <2>1. InCall(c) /\ calls[c].tx \in Tx
    BY <1>0, <1>11, CallKinds DEF ConfirmationTimesOut, CheckFails, Waiting, InCall
  <2>2. QuietStep /\ Return(c, At("timeout", calls[c].tx))
    BY <1>11 DEF ConfirmationTimesOut, CheckFails, QuietStep, Context
  <2>3. At("timeout", calls[c].tx) \in TxState
    BY <2>1 DEF Phase
  <2>4. Live(c) => OwnState(At("timeout", calls[c].tx))
    BY <2>1 DEF OwnInv, CallsAreOwn, Live, OwnState, At
  <2> QED
    BY <1>0, <2>2, <2>3, <2>4, EndKeepsOwn
<1>12. ASSUME NEW c \in CallId, ReadStatus(c)
       PROVE  OwnInv'
  <2> DEFINE answer == IF fate[calls[c].tx] = "pending" THEN "not found"
                       ELSE fate[calls[c].tx]
             x == [calls[c] EXCEPT !.status = answer]
  <2>1. calls[c] \in CheckCall /\ calls[c].tx \in Tx /\ InCall(c)
    BY <1>0, <1>12, CallKinds DEF ReadStatus, Waiting, InCall
  <2>2. Sent(calls[c].tx) /\ fate[calls[c].tx] \in Fate
    BY <1>0, <2>1 DEF OwnInv, CallsAreOwn, Signed, TypeOK
  <2>3. answer \in {"not found", "processed", "landed", "reverted"}
    BY <2>2 DEF Fate, Sent
  <2>4. x \in CheckCall
    BY <2>1, <2>3 DEF CheckCall
  <2>5. /\ x.generation = calls[c].generation /\ x.wallet = calls[c].wallet
        /\ x.tx = calls[c].tx /\ x.status = answer /\ x.height = calls[c].height
    BY <2>1 DEF CheckCall
  <2>6. x.height = "past" => x.tx \in expired
    BY <2>1, <2>5 DEF OwnInv, ReadsHold
  <2>7. QuietStep /\ UNCHANGED <<state, shown>> /\ calls' = [calls EXCEPT ![c] = x]
    BY <1>12 DEF ReadStatus, QuietStep, Context
  <2> HIDE DEF x
  <2> QED
    BY <1>0, <2>1, <2>4, <2>5, <2>6, <2>7, ReadKeepsOwn
<1>13. ASSUME NEW c \in CallId, ReadHeight(c)
       PROVE  OwnInv'
  <2> DEFINE answer == IF calls[c].tx \in expired THEN "past" ELSE "not past"
             x == [calls[c] EXCEPT !.height = answer]
  <2>1. calls[c] \in CheckCall
    BY <1>0, <1>13, CallKinds DEF ReadHeight, Waiting
  <2>2. x \in CheckCall
    BY <2>1 DEF CheckCall
  <2>3. /\ x.generation = calls[c].generation /\ x.wallet = calls[c].wallet
        /\ x.tx = calls[c].tx /\ x.status = calls[c].status /\ x.height = answer
    BY <2>1 DEF CheckCall
  <2>4. x.status \in {"landed", "reverted"} => fate[x.tx] = x.status
    BY <2>1, <2>3 DEF OwnInv, ReadsHold
  <2>5. QuietStep /\ UNCHANGED <<state, shown>> /\ calls' = [calls EXCEPT ![c] = x]
    BY <1>13 DEF ReadHeight, QuietStep, Context
  <2> HIDE DEF x
  <2> QED
    BY <1>0, <2>1, <2>2, <2>3, <2>4, <2>5, ReadKeepsOwn
<1>14. ASSUME NEW c \in CallId, CheckReturns(c)
       PROVE  OwnInv'
  <2> DEFINE t == calls[c].tx
             s == Conclude(calls[c].status, calls[c].height, t)
  <2>1. calls[c] \in CheckCall /\ t \in Tx /\ InCall(c)
    BY <1>0, <1>14, CallKinds DEF CheckReturns, Waiting, InCall
  <2>2. \/ s \in {At("failed", t), At("timeout", t), At("expired-blockhash", NoTx)}
        \/ s = At("confirmed", t) /\ calls[c].status = "landed"
    BY Conclusions
  <2>3. s \in TxState
    BY <2>1, <2>2 DEF Phase
  <2>4. calls[c].status = "landed" => fate[t] = "landed"
    BY <2>1 DEF OwnInv, ReadsHold
  <2>5. Live(c) => OwnState(s)
    BY <2>1, <2>2, <2>4 DEF OwnInv, CallsAreOwn, Live, OwnState, At
  <2>6. QuietStep /\ Return(c, s)
    BY <1>14 DEF CheckReturns, QuietStep, Context
  <2> HIDE DEF s
  <2> QED
    BY <1>0, <2>3, <2>5, <2>6, EndKeepsOwn
<1>15. ASSUME NEW w \in Wallet \cup {NoWallet}, SwitchWallet(w) \/ Unmount(w) \/ Mount(w)
       PROVE  OwnInv'
  <2>1. /\ generation \in Nat /\ generation' = generation + 1
        /\ state' = Idle /\ shown' = Idle /\ UNCHANGED <<calls, chainVars>>
        /\ unmounted \subseteq Nat /\ unmounted' \subseteq unmounted \cup {generation}
    BY <1>0, <1>15 DEF SwitchWallet, Unmount, Mount, SwitchTo, TypeOK
  <2>0. \A g \in unmounted' : g < generation'
    BY <2>1 DEF OwnInv, CallsAreOwn
  <2>2. \A c \in CallId : InCall(c) => calls[c].generation <= generation' /\ ~Live(c)'
    <3>1. \A c \in CallId : InCall(c) => calls[c].generation \in Nat
      BY <1>0, CallKinds DEF InCall
    <3> QED
      BY <2>1, <3>1 DEF OwnInv, CallsAreOwn, Live
  <2>3. CallsAreOwn'
    BY <2>0, <2>1, <2>2 DEF OwnInv, CallsAreOwn, InCall, Signed, Sent, chainVars
  <2>4. OwnState(state)' /\ OwnState(shown)'
    BY <2>1 DEF OwnState, Idle, At
  <2>5. SentAreOwned'
    BY <1>0, <2>1 DEF OwnInv, SentAreOwned, Sent, chainVars, TypeOK
  <2>6. ReadsHold'
    BY <2>1 DEF OwnInv, ReadsHold, chainVars
  <2> QED
    BY <1>0, <2>3, <2>4, <2>5, <2>6 DEF OwnInv
<1>16. ASSUME ParentDisables
       PROVE  OwnInv'
  <2>1. UNCHANGED <<wallet, generation, unmounted, state, calls, chainVars>>
        /\ shown' = state
    BY <1>16 DEF ParentDisables
  <2> QED
    BY <1>0, <2>1 DEF OwnInv, CallsAreOwn, InCall, Live, Signed, Sent, OwnState,
      SentAreOwned, ReadsHold, chainVars
<1>17. ASSUME NEW t \in Tx, Chain(t)
       PROVE  OwnInv'
  <2>1. UNCHANGED buttonVars /\ UNCHANGED <<owner, session>> /\ expired \subseteq expired'
    BY <1>17 DEF Chain, Process, Revert, Confirm, Fork, Becomes, Expire
  <2>2. \A u \in Tx : /\ Sent(u)' <=> Sent(u)
                      /\ fate[u] \in {"landed", "reverted"} => fate'[u] = fate[u]
    BY <1>0, <1>17
    DEF Chain, Process, Revert, Confirm, Fork, Becomes, Expire, Sent, TypeOK
  <2>3. \A u \in Tx : u \in expired' => Sent(u) /\ fate'[u] # "processed"
    BY <1>0, <1>17 DEF Chain, Process, Revert, Confirm, Fork, Becomes, Expire, Sent,
      OwnInv, SentAreOwned, TypeOK
  <2> QED
    BY <1>0, <2>1, <2>2, <2>3, ChainKeepsOwn
<1>18. ASSUME UNCHANGED vars
       PROVE  OwnInv'
  BY <1>0, <1>18 DEF vars, buttonVars, chainVars, OwnInv, CallsAreOwn, InCall, Live,
    Signed, Sent, OwnState, SentAreOwned, ReadsHold
<1> QED
  BY <1>1, <1>2, <1>3, <1>4, <1>5, <1>6, <1>7, <1>8, <1>9, <1>10, <1>11, <1>12,
     <1>13, <1>14, <1>15, <1>16, <1>17, <1>18 DEF Next, Answer

(* At the start the button is idle and nothing is under way.               *)
LEMMA OwnInitial == Init => OwnInv
<1> SUFFICES ASSUME Init PROVE OwnInv
  OBVIOUS
<1>1. NoCall \in Call /\ Idle \in TxState
  BY StateTypes DEF Call
<1>2. TypeOK
  BY <1>1 DEF Init, TypeOK, Fate
<1>3. \A c \in CallId : ~InCall(c) /\ calls[c] \notin CheckCall
  BY <1>1, CallKinds DEF Init, InCall
<1>4. CallsAreOwn /\ ReadsHold
  BY <1>3 DEF Init, CallsAreOwn, ReadsHold
<1>5. OwnState(state) /\ OwnState(shown) /\ SentAreOwned
  BY DEF Init, OwnState, Idle, At, SentAreOwned, Sent
<1> QED
  BY <1>2, <1>4, <1>5 DEF OwnInv

(* What is displayed is the session's own, and what is not yet decided is  *)
(* displayed as such.                                                      *)
THEOREM OwnInvariant == Spec => []OwnInv
  BY OwnInitial, OwnStep, PTL DEF Spec

(* However late a reply comes, no signature is displayed that an earlier   *)
(* wallet has signed.                                                      *)
THEOREM DisplayedIsOwn == Spec => []ShownIsOwn
<1>1. OwnInv => ShownIsOwn
  BY DEF OwnInv, OwnState, Signed, ShownIsOwn
<1> QED
  BY <1>1, OwnInvariant, PTL

(* "Confirmed" is displayed only of a transaction that is on chain for     *)
(* good: landed is never undone, and the answer it rests on said landed.   *)
THEOREM DisplayedAsConfirmedIsFinal == Spec => []ConfirmedIsFinal
<1>1. OwnInv => ConfirmedIsFinal
  BY DEF OwnInv, OwnState, ConfirmedIsFinal
<1> QED
  BY <1>1, OwnInvariant, PTL

-----------------------------------------------------------------------------
(* onConfirmed is called once.                                             *)

(* A call that ends leaves the lock if it held it, and may only leave its  *)
(* own signature in the timeout phase or have onConfirmed called with it.  *)
LEMMA EndKeepsOnce ==
  ASSUME OnceInv, OwnInv', QuietStep, NEW c \in CallId, InCall(c),
         NEW s, Return(c, s),
         checkingRef' = checkingRef \/ HoldsLock(c),
         \A u \in Tx : TimeoutOf(s, u) => u = calls[c].tx,
         \/ notified' = notified
         \/ /\ NotAbandoned(c) /\ calls[c].tx \in Tx /\ s.phase = "confirmed"
            /\ notified' = [notified EXCEPT ![calls[c].tx] = @ + 1]
  PROVE  OnceInv'
<1> USE DEF OnceInv, QuietStep, chainVars
<1>1. /\ \A d \in CallId : d # c => calls'[d] = calls[d]
      /\ calls'[c] = NoCall /\ NoCall \in Call
      /\ \A d \in CallId : calls[d] \in Call /\ calls'[d] \in Call
  BY DEF Return, OwnInv, TypeOK, Call
<1>2. \A d \in CallId : /\ InCall(d)' => d # c /\ InCall(d) /\ calls'[d] = calls[d]
                        /\ calls'[d] \in CheckCall => d # c /\ calls[d] \in CheckCall
  BY <1>1, CallKinds DEF InCall
<1>3. \A d \in CallId, u \in Tx : OnTx(d, u)' => OnTx(d, u) /\ d # c
  BY <1>2 DEF OnTx
<1>4. state' = (IF Live(c) THEN s ELSE state) /\ shown' = state'
  BY DEF Return, SetState
<1>5. CheckLock'
  <2>1. \A d \in CallId : HoldsLock(d)' => d # c /\ HoldsLock(d)
    BY <1>1, <1>2 DEF HoldsLock, SameButton
  <2> QED
    BY <2>1 DEF CheckLock
<1>6. OneCallPerTx'
  <2> SUFFICES ASSUME NEW u \in Tx
               PROVE  /\ \A d, e \in CallId : OnTx(d, u)' /\ OnTx(e, u)' => d = e
                      /\ TimeoutOf(state, u)' \/ TimeoutOf(shown, u)' =>
                           \A d \in CallId : OnTx(d, u)' => calls'[d] \in CheckCall
    BY DEF OneCallPerTx
  <2>1. \A d, e \in CallId : OnTx(d, u)' /\ OnTx(e, u)' => d = e
    BY <1>3 DEF OneCallPerTx
  <2>2. ASSUME TimeoutOf(state, u)' \/ TimeoutOf(shown, u)',
               NEW d \in CallId, OnTx(d, u)'
        PROVE  calls'[d] \in CheckCall
    <3>1. CASE Live(c)
      <4>1. TimeoutOf(s, u)
        BY <1>4, <2>2, <3>1 DEF TimeoutOf
      <4>2. OnTx(c, u)
        BY <4>1 DEF OnTx
      <4> QED
        BY <1>3, <2>2, <4>2 DEF OneCallPerTx
    <3>2. CASE ~Live(c)
      <4>1. TimeoutOf(state, u)
        BY <1>4, <2>2, <3>2 DEF TimeoutOf
      <4>2. calls[d] \in CheckCall
        BY <1>3, <2>2, <4>1 DEF OneCallPerTx
      <4> QED
        BY <1>2, <2>2, <4>2 DEF OnTx
    <3> QED
      BY <3>1, <3>2
  <2> QED
    BY <2>1, <2>2
<1>7. NotifiedOnce'
  <2> SUFFICES ASSUME NEW u \in Tx
               PROVE  /\ notified'[u] <= 1
                      /\ notified'[u] = 1 => Sent(u)' /\ ~Open(u)'
    BY DEF NotifiedOnce
  <2>0. (Sent(u)' <=> Sent(u)) /\ notified \in [Tx -> Nat]
    BY DEF Sent, OwnInv, TypeOK
  <2>1. \A d \in CallId : OnTx(d, u)' /\ NotAbandoned(d)' =>
                            OnTx(d, u) /\ NotAbandoned(d) /\ d # c
    BY <1>2, <1>3 DEF OnTx, Live, NotAbandoned
  <2>2. CASE notified'[u] = notified[u]
    <3>1. ASSUME ~Open(u)
          PROVE  ~Open(u)'
      <4>1. Live(c) => ~TimeoutOf(s, u)
        BY <3>1 DEF Open, OnTx, NotAbandoned
      <4>2. ~TimeoutOf(state, u)' /\ ~TimeoutOf(shown, u)'
        BY <1>4, <3>1, <4>1 DEF Open, TimeoutOf
      <4> QED
        BY <2>1, <3>1, <4>2 DEF Open
    <3> QED
      BY <2>0, <2>2, <3>1 DEF NotifiedOnce
  <2>3. CASE notified'[u] # notified[u]
    <3>1. /\ NotAbandoned(c) /\ calls[c].tx = u /\ s.phase = "confirmed"
          /\ notified'[u] = notified[u] + 1
      BY <2>0, <2>3
    <3>2. OnTx(c, u) /\ Open(u) /\ Sent(u)
      BY <3>1, None DEF OnTx, Open, OwnInv, CallsAreOwn, Signed
    <3>3. notified[u] = 0
      BY <2>0, <3>2 DEF NotifiedOnce
    <3>4. ~TimeoutOf(state, u)' /\ ~TimeoutOf(shown, u)'
      <4>1. CASE Live(c)
        BY <1>4, <3>1, <4>1 DEF TimeoutOf
      <4>2. CASE ~Live(c)
        <5>1. session[u] # generation
          BY <3>1, <3>2, <4>2, None DEF OwnInv, CallsAreOwn, OnTx, Signed, Live
        <5>2. ~TimeoutOf(state, u)
          BY <5>1, None DEF OwnInv, OwnState, Signed, TimeoutOf
        <5> QED
          BY <1>4, <4>2, <5>2 DEF TimeoutOf
      <4> QED
        BY <4>1, <4>2
    <3>5. \A d \in CallId : ~OnTx(d, u)'
      BY <1>3, <3>2 DEF OneCallPerTx
    <3> QED
      BY <2>0, <3>1, <3>2, <3>3, <3>4, <3>5 DEF Open
  <2> QED
    BY <2>2, <2>3
<1> QED
  BY <1>5, <1>6, <1>7

(* A step after which no signature is open that was not, and each call is  *)
(* about the signature it was about.                                       *)
LEMMA NothingOpened ==
  ASSUME OnceInv, OwnInv', generation' \in Nat, generation' >= generation, notified' = notified,
         unmounted' \subseteq unmounted \cup {generation},
         \A d \in CallId : InCall(d)' =>
           /\ InCall(d) /\ calls'[d].tx = calls[d].tx
           /\ calls'[d].generation = calls[d].generation,
         \A d \in CallId : calls'[d] \in CheckCall <=> calls[d] \in CheckCall,
         (unmounted' = unmounted /\ checkingRef' = checkingRef) \/ CheckLock',
         \A u \in Tx : /\ Sent(u) => Sent(u)'
                       /\ TimeoutOf(state, u)' \/ TimeoutOf(shown, u)' =>
                            TimeoutOf(state, u) \/ TimeoutOf(shown, u)
  PROVE  OnceInv'
<1> USE DEF OnceInv
<1>1. \A d \in CallId, u \in Tx : OnTx(d, u)' => OnTx(d, u)
  BY DEF OnTx, InCall
<1>2. \A d \in CallId : InCall(d)' /\ NotAbandoned(d)' => NotAbandoned(d)
  <2>1. \A d \in CallId : InCall(d) => calls[d].generation \in Nat /\ calls[d].generation <= generation
    BY CallKinds DEF OwnInv, TypeOK, CallsAreOwn, InCall
  <2>2. generation \in Nat
    BY DEF OwnInv, TypeOK
  <2> QED
    BY <2>1, <2>2 DEF Live, NotAbandoned
<1>3. CheckLock'
  <2> SUFFICES ASSUME unmounted' = unmounted, checkingRef' = checkingRef
               PROVE  CheckLock'
    OBVIOUS
  <2>1. \A d \in CallId : HoldsLock(d)' => HoldsLock(d)
    <3>1. \A d \in CallId : calls[d] \in CheckCall => calls'[d] \in CheckCall /\ InCall(d)'
      BY CallKinds DEF OwnInv, TypeOK, InCall
    <3> QED
      BY <3>1 DEF HoldsLock, SameButton
  <2> QED
    BY <2>1 DEF CheckLock
<1>4. OneCallPerTx'
  BY <1>1 DEF OneCallPerTx
<1>5. \A u \in Tx : Open(u)' => Open(u)
  BY <1>1, <1>2 DEF Open, OnTx
<1>6. NotifiedOnce'
  BY <1>5 DEF NotifiedOnce
<1> QED
  BY <1>3, <1>4, <1>6

(* A click begins a run() with no signature, or a checkStatus() on the one *)
(* in the timeout phase that nothing else is about.                        *)
LEMMA StartKeepsOnce ==
  ASSUME OnceInv, OwnInv', QuietStep, notified' = notified,
         NEW c \in CallId, NEW k \in Call, Place(c, k), k # NoCall,
         k.generation = generation,
         \/ k \in FreshRun /\ checkingRef' = checkingRef
         \/ /\ k \in CheckCall /\ ~checkingRef /\ checkingRef'
            /\ TimeoutOf(shown, k.tx),
         \A u \in Tx : TimeoutOf(state, u)' \/ TimeoutOf(shown, u)' => TimeoutOf(shown, u)
  PROVE  OnceInv'
<1> USE DEF OnceInv, QuietStep, chainVars
<1>1. \A d \in CallId : calls'[d] = IF d = c THEN k ELSE calls[d]
  BY DEF Place, OwnInv, TypeOK
<1>2. calls[c] = NoCall
  BY DEF Place
<1>3. CheckLock'
  <2>1. \A d \in CallId : d # c => (HoldsLock(d)' <=> HoldsLock(d))
    BY <1>1 DEF HoldsLock, SameButton
  <2>2. k \in FreshRun => ~HoldsLock(c)'
    BY <1>1, CallKinds DEF HoldsLock
  <2>3. ~HoldsLock(c)
    BY <1>2, CallKinds DEF HoldsLock, OwnInv, TypeOK
  <2> QED
    BY <2>1, <2>2, <2>3 DEF CheckLock
<1>4. k \in FreshRun => k.tx \notin Tx /\ k \notin CheckCall
  BY CallKinds, None
<1>5. \A d \in CallId, u \in Tx :
        OnTx(d, u)' => IF d = c THEN k \in CheckCall /\ k.tx = u ELSE OnTx(d, u)
  BY <1>1, <1>4 DEF OnTx, InCall
<1>6. k \in CheckCall => \A d \in CallId : ~OnTx(d, k.tx)
  <2> SUFFICES ASSUME k \in CheckCall, NEW d \in CallId, OnTx(d, k.tx)
               PROVE  FALSE
    OBVIOUS
  <2>1. k.tx \in Tx /\ TimeoutOf(shown, k.tx) /\ ~checkingRef
    BY CallKinds
  <2>2. calls[d] \in CheckCall
    BY <2>1 DEF OneCallPerTx
  <2>3. calls[d].generation = generation
    BY <2>1, None DEF OwnInv, OwnState, CallsAreOwn, Signed, OnTx, TimeoutOf
  <2>4. SameButton(d)
    BY <2>3 DEF SameButton, OwnInv, CallsAreOwn
  <2> QED
    BY <2>1, <2>2, <2>4 DEF CheckLock, HoldsLock
<1>7. OneCallPerTx'
  <2> SUFFICES ASSUME NEW u \in Tx
               PROVE  /\ \A d, e \in CallId : OnTx(d, u)' /\ OnTx(e, u)' => d = e
                      /\ TimeoutOf(state, u)' \/ TimeoutOf(shown, u)' =>
                           \A d \in CallId : OnTx(d, u)' => calls'[d] \in CheckCall
    BY DEF OneCallPerTx
  <2>1. \A d, e \in CallId : OnTx(d, u)' /\ OnTx(e, u)' => d = e
    BY <1>5, <1>6 DEF OneCallPerTx
  <2>2. TimeoutOf(state, u)' \/ TimeoutOf(shown, u)' =>
          \A d \in CallId : OnTx(d, u)' => calls'[d] \in CheckCall
    BY <1>1, <1>5 DEF OneCallPerTx
  <2> QED
    BY <2>1, <2>2
<1>8. \A u \in Tx : Open(u)' => Open(u)
  <2> SUFFICES ASSUME NEW u \in Tx, Open(u)'
               PROVE  Open(u)
    OBVIOUS
  <2>1. CASE TimeoutOf(state, u)' \/ TimeoutOf(shown, u)'
    BY <2>1 DEF Open
  <2>2. ASSUME NEW d \in CallId, OnTx(d, u)', NotAbandoned(d)'
        PROVE  Open(u)
    <3>1. CASE d = c
      BY <1>5, <2>2, <3>1, CallKinds DEF Open
    <3>2. CASE d # c
      BY <1>1, <1>5, <2>2, <3>2 DEF Open, Live, NotAbandoned
    <3> QED
      BY <3>1, <3>2
  <2> QED
    BY <2>1, <2>2 DEF Open
<1>9. NotifiedOnce'
  BY <1>8 DEF NotifiedOnce, Sent
<1> QED
  BY <1>3, <1>7, <1>9

(* The signature of a transaction is no other's.                           *)
LEMMA SendKeepsOnce ==
  ASSUME OnceInv, OwnInv', NEW c \in CallId, NEW t \in Tx, Send(c, t)
  PROVE  OnceInv'
<1> USE DEF OnceInv
<1>1. calls[c] \in FreshRun /\ InCall(c) /\ calls[c].tx = NoTx /\ ~Sent(t)
      /\ \A d \in CallId : calls[d] \in Call
  BY CallKinds DEF Send, Waiting, InCall, Sent, OwnInv, TypeOK
<1>2. \A d \in CallId : d # c => calls'[d] = calls[d]
  BY DEF Send, OwnInv, TypeOK
<1>3. /\ calls'[c].generation = calls[c].generation
      /\ calls'[c].tx = t /\ calls'[c].at = "reply" /\ calls'[c] \in Call
  BY <1>1 DEF Send, OwnInv, TypeOK, FreshRun
<1>4. UNCHANGED <<generation, unmounted, state, shown, notified, checkingRef>>
  BY DEF Send, Context
<1>5. \A d \in CallId : calls'[d] \in CheckCall => d # c /\ calls[d] \in CheckCall
  BY <1>2, <1>3, CallKinds
<1>6. \A d \in CallId : ~OnTx(d, t)
  BY <1>1, None DEF OwnInv, CallsAreOwn, OnTx, Signed
<1>7. ~TimeoutOf(state, t) /\ ~TimeoutOf(shown, t)
  BY <1>1, None DEF OwnInv, OwnState, TimeoutOf, Signed
<1>8. \A d \in CallId, u \in Tx : OnTx(d, u)' <=> IF d = c THEN u = t ELSE OnTx(d, u)
  <2>1. InCall(c)'
    <3>1. [calls[c] EXCEPT !.at = "reply", !.tx = t] \in SentRun
      BY <1>1 DEF FreshRun, SentRun
    <3>2. calls'[c] \in SentRun
      BY <3>1 DEF Send, OwnInv, TypeOK
    <3> QED
      BY <1>3, <3>2, CallKinds DEF InCall
  <2> QED
    BY <1>2, <1>3, <2>1 DEF OnTx, InCall
<1>9. CheckLock'
  <2>1. \A d \in CallId : HoldsLock(d)' => HoldsLock(d)
    BY <1>2, <1>4, <1>5 DEF HoldsLock, SameButton
  <2> QED
    BY <1>4, <2>1 DEF CheckLock
<1>10. OneCallPerTx'
  <2> SUFFICES ASSUME NEW u \in Tx
               PROVE  /\ \A d, e \in CallId : OnTx(d, u)' /\ OnTx(e, u)' => d = e
                      /\ TimeoutOf(state, u)' \/ TimeoutOf(shown, u)' =>
                           \A d \in CallId : OnTx(d, u)' => calls'[d] \in CheckCall
    BY DEF OneCallPerTx
  <2>1. CASE u = t
    BY <1>4, <1>6, <1>7, <1>8, <2>1 DEF TimeoutOf
  <2>2. CASE u # t
    <3>1. \A d \in CallId : OnTx(d, u)' => OnTx(d, u) /\ d # c
      BY <1>8, <2>2, <1>1, None DEF OnTx
    <3> QED
      BY <1>2, <1>4, <3>1 DEF OneCallPerTx, TimeoutOf
  <2> QED
    BY <2>1, <2>2
<1>11. NotifiedOnce'
  <2> SUFFICES ASSUME NEW u \in Tx, notified[u] = 1
               PROVE  Sent(u)' /\ ~Open(u)'
    BY <1>4 DEF NotifiedOnce
  <2>1. u # t /\ Sent(u) /\ ~Open(u)
    BY <1>1 DEF NotifiedOnce
  <2>2. Sent(u)'
    BY <2>1 DEF Send, Sent, OwnInv, TypeOK
  <2>3. \A d \in CallId : OnTx(d, u)' /\ NotAbandoned(d)' => OnTx(d, u) /\ NotAbandoned(d)
    BY <1>2, <1>4, <1>8, <2>1 DEF Live, NotAbandoned
  <2> QED
    BY <1>4, <2>1, <2>2, <2>3 DEF Open, TimeoutOf
<1> QED
  BY <1>9, <1>10, <1>11

(* Each step keeps onConfirmed from being called again.                    *)
LEMMA OnceStep == OnceInv /\ [Next]_vars => OnceInv'
<1> SUFFICES ASSUME OnceInv, [Next]_vars
             PROVE  OnceInv'
  OBVIOUS
<1> USE None
<1>0. /\ OwnInv' /\ OwnInv /\ generation \in Nat /\ generation' \in Nat
      /\ calls \in [CallId -> Call] /\ \A c \in CallId : calls[c] \in Call
  BY OwnStep DEF OnceInv, OwnInv, TypeOK
<1>1. ASSUME NEW c \in CallId, StartRun(c)
      PROVE  OnceInv'
  <2> DEFINE k == [kind |-> "run", at |-> "blockhash", generation |-> generation,
                   wallet |-> wallet, tx |-> NoTx]
  <2>1. k \in FreshRun
    BY <1>0, <1>1 DEF StartRun, Clickable, OwnInv, TypeOK, FreshRun
  <2>2. k \in Call /\ k # NoCall
    BY <2>1, CallKinds DEF Call
  <2>3. \A u \in Tx : TimeoutOf(state, u)' \/ TimeoutOf(shown, u)' => TimeoutOf(shown, u)
    <3>1. shown' \in {shown, state'} /\ state' = At("signing", NoTx)
      BY <1>1 DEF StartRun, RenderAfterClick
    <3>2. state'.phase = "signing"
      BY <3>1 DEF At
    <3> QED
      BY <3>1, <3>2 DEF TimeoutOf
  <2>4. /\ QuietStep /\ Place(c, k) /\ notified' = notified
        /\ checkingRef' = checkingRef /\ k.generation = generation
    BY <1>1 DEF StartRun, QuietStep
  <2> HIDE DEF k
  <2> QED
    BY <1>0, <2>1, <2>2, <2>3, <2>4, StartKeepsOnce
<1>2. ASSUME NEW c \in CallId, StartCheck(c)
      PROVE  OnceInv'
  <2> DEFINE k == [kind |-> "check", at |-> "status", generation |-> generation,
                   wallet |-> wallet, tx |-> shown.tx,
                   status |-> "unread", height |-> "unread"]
  <2>1. k \in CheckCall
    <3>1. shown.tx \in Tx
      BY <1>0, <1>2 DEF StartCheck, OwnInv, TypeOK, TxState
    <3> QED
      BY <1>0, <1>2, <3>1 DEF StartCheck, Clickable, OwnInv, TypeOK, CheckCall
  <2>2. k \in Call /\ k # NoCall
    BY <2>1, CallKinds DEF Call
  <2>3. \A u \in Tx : TimeoutOf(state, u)' \/ TimeoutOf(shown, u)' => TimeoutOf(shown, u)
    <3>1. shown' \in {shown, state'} /\ state' = Checking(shown.tx)
      BY <1>2 DEF StartCheck, RenderAfterClick
    <3>2. state'.tx = shown.tx /\ shown.phase = "timeout"
      BY <1>2, <3>1 DEF Checking, StartCheck
    <3> QED
      BY <3>1, <3>2 DEF TimeoutOf
  <2>4. /\ QuietStep /\ Place(c, k) /\ notified' = notified
        /\ ~checkingRef /\ checkingRef' /\ TimeoutOf(shown, k.tx)
        /\ k.generation = generation
    BY <1>2 DEF StartCheck, QuietStep, Context, LockFree, TimeoutOf
  <2> HIDE DEF k
  <2> QED
    BY <1>0, <2>1, <2>2, <2>3, <2>4, StartKeepsOnce
<1>3. ASSUME NEW c \in CallId, BlockhashArrives(c) \/ ReplyArrives(c)
      PROVE  OnceInv'
  <2>1. /\ QuietStep /\ checkingRef' = checkingRef /\ notified' = notified
        /\ \E at, s : /\ Await(c, at, calls[c].tx, s)
                      /\ at # "status"
                      /\ \A u \in Tx : TimeoutOf(s, u) => TimeoutOf(state, u)
    <3>1. CASE BlockhashArrives(c)
      <4>1. calls[c].tx = NoTx
        BY <1>0, <3>1, CallKinds DEF BlockhashArrives, Waiting
      <4> QED
        BY <3>1, <4>1 DEF BlockhashArrives, QuietStep, Context
    <3>2. CASE ReplyArrives(c)
      BY <3>2 DEF ReplyArrives, QuietStep, Context, TimeoutOf, At
    <3> QED
      BY <1>3, <3>1, <3>2
  <2>2. PICK at, s : /\ Await(c, at, calls[c].tx, s)
                     /\ at # "status"
                     /\ \A u \in Tx : TimeoutOf(s, u) => TimeoutOf(state, u)
    BY <2>1
  <2>3. calls[c] \in FreshRun \/ calls[c] \in SentRun
    BY <1>0, <1>3, CallKinds DEF BlockhashArrives, ReplyArrives, Waiting
  <2>4. \/ calls'[c] = NoCall
        \/ /\ calls'[c].generation = calls[c].generation
           /\ calls'[c].tx = calls[c].tx /\ calls'[c].at = at
    BY <1>0, <2>2, <2>3 DEF Await, FreshRun, SentRun
  <2>5. /\ \A d \in CallId : d # c => calls'[d] = calls[d]
        /\ \A d \in CallId : calls'[d] \in Call
    BY <1>0, <2>2 DEF Await, OwnInv, TypeOK
  <2>6. \A d \in CallId : calls'[d] \in CheckCall <=> calls[d] \in CheckCall
    BY <1>0, <2>2, <2>3, <2>4, <2>5, CallKinds
  <2>7. \A d \in CallId : InCall(d)' =>
           /\ InCall(d) /\ calls'[d].tx = calls[d].tx
           /\ calls'[d].generation = calls[d].generation
    BY <1>0, <2>3, <2>4, <2>5, CallKinds DEF InCall
  <2>8. \A u \in Tx : TimeoutOf(state, u)' \/ TimeoutOf(shown, u)' => TimeoutOf(state, u)
    BY <2>2 DEF Await, SetState, TimeoutOf
  <2>9. /\ generation' >= generation /\ unmounted' = unmounted
        /\ \A u \in Tx : Sent(u) => Sent(u)'
    BY <1>0, <2>1 DEF QuietStep, chainVars, Sent
  <2> QED
    BY <1>0, <2>1, <2>6, <2>7, <2>8, <2>9, NothingOpened
<1>4. ASSUME NEW c \in CallId, BlockhashFails(c)
      PROVE  OnceInv'
  <2>1. /\ QuietStep /\ Return(c, At("failed", NoTx)) /\ InCall(c)
        /\ checkingRef' = checkingRef /\ notified' = notified
    BY <1>4 DEF BlockhashFails, BlockhashFailure, QuietStep, Context, Waiting, InCall
  <2>2. \A u \in Tx : ~TimeoutOf(At("failed", NoTx), u)
    BY DEF TimeoutOf, At
  <2> QED
    BY <1>0, <2>1, <2>2, EndKeepsOnce
<1>5. ASSUME NEW c \in CallId, NotSent(c)
      PROVE  OnceInv'
  <2>1. PICK p \in {"rejected", "expired-blockhash", "failed"} : Return(c, At(p, NoTx))
    BY <1>5 DEF NotSent
  <2>2. \A u \in Tx : ~TimeoutOf(At(p, NoTx), u)
    BY DEF TimeoutOf, At
  <2>3. QuietStep /\ InCall(c) /\ checkingRef' = checkingRef /\ notified' = notified
    BY <1>5 DEF NotSent, QuietStep, Context, Waiting, InCall
  <2> QED
    BY <1>0, <2>1, <2>2, <2>3, EndKeepsOnce
<1>6. ASSUME NEW c \in CallId, NEW t \in Tx, Send(c, t)
      PROVE  OnceInv'
  BY <1>0, <1>6, SendKeepsOnce
<1>7. ASSUME NEW c \in CallId, ReplyLost(c)
      PROVE  OnceInv'
  <2>1. /\ QuietStep /\ Return(c, At("failed", NoTx)) /\ InCall(c)
        /\ checkingRef' = checkingRef /\ notified' = notified
    BY <1>7 DEF ReplyLost, QuietStep, Context, Waiting, InCall
  <2>2. \A u \in Tx : ~TimeoutOf(At("failed", NoTx), u)
    BY DEF TimeoutOf, At
  <2> QED
    BY <1>0, <2>1, <2>2, EndKeepsOnce
<1>8. ASSUME NEW c \in CallId, Confirmation(c)
      PROVE  OnceInv'
  <2>1. InCall(c) /\ calls[c].tx \in Tx
    BY <1>0, <1>8, CallKinds DEF Confirmation, Waiting, InCall
  <2>2. QuietStep /\ checkingRef' = checkingRef
    BY <1>8 DEF Confirmation, QuietStep, Context
  <2>3. CASE Return(c, At("confirmed", calls[c].tx)) /\ Notify(c, calls[c].tx)
    <3>1. /\ At("confirmed", calls[c].tx).phase = "confirmed"
          /\ \A u \in Tx : ~TimeoutOf(At("confirmed", calls[c].tx), u)
      BY DEF At, TimeoutOf
    <3>2. \/ notified' = notified
          \/ NotAbandoned(c) /\ notified' = [notified EXCEPT ![calls[c].tx] = @ + 1]
      BY <2>3 DEF Notify
    <3> QED
      BY <1>0, <2>1, <2>2, <2>3, <3>1, <3>2, EndKeepsOnce
  <2>4. CASE Return(c, At("failed", calls[c].tx)) /\ UNCHANGED notified
    <3>1. \A u \in Tx : ~TimeoutOf(At("failed", calls[c].tx), u)
      BY DEF At, TimeoutOf
    <3> QED
      BY <1>0, <2>1, <2>2, <2>4, <3>1, EndKeepsOnce
  <2> QED
    BY <1>8, <2>3, <2>4 DEF Confirmation
<1>9. ASSUME NEW c \in CallId, ConfirmationExpires(c)
      PROVE  OnceInv'
  <2>1. /\ QuietStep /\ Return(c, At("expired-blockhash", NoTx)) /\ InCall(c)
        /\ checkingRef' = checkingRef /\ notified' = notified
    BY <1>9 DEF ConfirmationExpires, QuietStep, Context, Waiting, InCall
  <2>2. \A u \in Tx : ~TimeoutOf(At("expired-blockhash", NoTx), u)
    BY DEF TimeoutOf, At
  <2> QED
    BY <1>0, <2>1, <2>2, EndKeepsOnce
<1>10. ASSUME NEW c \in CallId, ConfirmationTimesOut(c) \/ CheckFails(c)
       PROVE  OnceInv'
  <2>1. /\ QuietStep /\ Return(c, At("timeout", calls[c].tx)) /\ InCall(c)
        /\ notified' = notified
    BY <1>10 DEF ConfirmationTimesOut, CheckFails, QuietStep, Context, Waiting, InCall
  <2>2. checkingRef' = checkingRef \/ HoldsLock(c)
    BY <1>0, <1>10, CallKinds
    DEF ConfirmationTimesOut, CheckFails, Waiting, Unlock, HoldsLock, OwnInv, TypeOK
  <2>3. \A u \in Tx : TimeoutOf(At("timeout", calls[c].tx), u) => u = calls[c].tx
    BY DEF TimeoutOf, At
  <2> QED
    BY <1>0, <2>1, <2>2, <2>3, EndKeepsOnce
<1>11. ASSUME NEW c \in CallId, CheckReturns(c)
       PROVE  OnceInv'
  <2> DEFINE t == calls[c].tx
             s == Conclude(calls[c].status, calls[c].height, t)
  <2>1. calls[c] \in CheckCall /\ t \in Tx /\ InCall(c)
    BY <1>0, <1>11, CallKinds DEF CheckReturns, Waiting, InCall
  <2>2. QuietStep /\ Return(c, s)
    BY <1>11 DEF CheckReturns, QuietStep, Context
  <2>3. \A u \in Tx : TimeoutOf(s, u) => u = t
    BY Conclusions DEF TimeoutOf, At
  <2>4. \/ notified' = notified
        \/ /\ NotAbandoned(c) /\ s.phase = "confirmed"
           /\ notified' = [notified EXCEPT ![t] = @ + 1]
    BY <1>11 DEF CheckReturns, Notify
  <2>5. checkingRef' = checkingRef \/ HoldsLock(c)
    BY <1>0, <1>11, <2>1 DEF CheckReturns, Unlock, HoldsLock, OwnInv, TypeOK
  <2> HIDE DEF s
  <2> QED
    BY <1>0, <2>1, <2>2, <2>3, <2>4, <2>5, EndKeepsOnce
<1>12. ASSUME NEW c \in CallId, ReadStatus(c) \/ ReadHeight(c)
       PROVE  OnceInv'
  <2>1. calls[c] \in CheckCall
    BY <1>0, <1>12, CallKinds DEF ReadStatus, ReadHeight, Waiting
  <2>2. PICK x : \/ calls' = [calls EXCEPT ![c].status = x]
                 \/ calls' = [calls EXCEPT ![c].height = x]
    BY <1>12 DEF ReadStatus, ReadHeight
  <2>3. /\ \A d \in CallId : d # c => calls'[d] = calls[d]
        /\ calls'[c].tx = calls[c].tx /\ calls'[c].generation = calls[c].generation
        /\ calls'[c].at = "status" /\ calls'[c] \in Call
    <3>1. /\ calls[c].at = "status"
          /\ \/ calls'[c] = [calls[c] EXCEPT !.status = x]
             \/ calls'[c] = [calls[c] EXCEPT !.height = x]
      BY <1>0, <2>1, <2>2, CallKinds
    <3>2. /\ calls'[c].tx = calls[c].tx /\ calls'[c].generation = calls[c].generation
          /\ calls'[c].at = "status"
      BY <2>1, <3>1 DEF CheckCall
    <3> QED
      BY <1>0, <2>2, <3>2 DEF OwnInv, TypeOK
  <2>4. calls'[c] # NoCall
    BY <1>0, <2>1, <2>2 DEF CheckCall, NoCall
  <2>5. calls'[c] \in CheckCall /\ InCall(c)
    BY <1>0, <2>1, <2>3, <2>4, CallKinds DEF InCall
  <2>6. UNCHANGED <<state, shown, checkingRef, notified, generation, unmounted, fate>>
    BY <1>12 DEF ReadStatus, ReadHeight, Context, chainVars
  <2>7. generation' >= generation /\ \A u \in Tx : Sent(u) => Sent(u)'
    BY <1>0, <2>6 DEF Sent
  <2>8. \A d \in CallId : InCall(d)' =>
           /\ InCall(d) /\ calls'[d].tx = calls[d].tx
           /\ calls'[d].generation = calls[d].generation
    BY <2>3, <2>5 DEF InCall
  <2>9. \A d \in CallId : calls'[d] \in CheckCall <=> calls[d] \in CheckCall
    BY <2>1, <2>3, <2>5
  <2> QED
    BY <1>0, <2>6, <2>7, <2>8, <2>9, NothingOpened DEF TimeoutOf
<1>13. ASSUME NEW w \in Wallet \cup {NoWallet}, SwitchWallet(w) \/ Unmount(w) \/ Mount(w)
       PROVE  OnceInv'
  <2>1. /\ generation' = generation + 1 /\ state' = Idle /\ shown' = Idle
        /\ UNCHANGED <<calls, fate, notified>>
        /\ unmounted' \subseteq unmounted \cup {generation}
    BY <1>13 DEF SwitchWallet, Unmount, Mount, SwitchTo, chainVars
  <2>5. (unmounted' = unmounted /\ checkingRef' = checkingRef) \/ CheckLock'
    <3>1. CASE Unmount(w)
      <4>1. generation \in unmounted'
        BY <3>1 DEF Unmount
      <4>2. \A d \in CallId : calls[d] \in CheckCall =>
              calls[d].generation \in Nat /\ calls[d].generation <= generation
        BY <1>0, CallKinds DEF OwnInv, CallsAreOwn, InCall
      <4>3. \A d \in CallId : ~HoldsLock(d)'
        BY <1>0, <2>1, <4>1, <4>2 DEF HoldsLock, SameButton
      <4> QED
        BY <4>3 DEF CheckLock
    <3> QED
      BY <1>13, <3>1 DEF SwitchWallet, Mount
  <2>2. generation' >= generation
    BY <1>0, <2>1
  <2>3. \A u \in Tx : ~TimeoutOf(state, u)' /\ ~TimeoutOf(shown, u)'
    BY <2>1 DEF TimeoutOf, Idle, At
  <2>4. \A u \in Tx : Sent(u) => Sent(u)'
    BY <2>1 DEF Sent
  <2> QED
    BY <1>0, <2>1, <2>2, <2>3, <2>4, <2>5, NothingOpened DEF InCall
<1>14. ASSUME ParentDisables \/ (\E t \in Tx : Chain(t)) \/ UNCHANGED vars
       PROVE  OnceInv'
  <2>1. /\ UNCHANGED <<calls, checkingRef, notified, generation, unmounted>>
        /\ state' = state /\ shown' \in {state, shown}
    BY <1>14 DEF ParentDisables, Chain, Process, Revert, Confirm, Fork, Becomes,
      Expire, buttonVars, vars
  <2>2. \A u \in Tx : Sent(u) => Sent(u)'
    BY <1>0, <1>14 DEF ParentDisables, Chain, Process, Revert, Confirm, Fork, Becomes,
      Expire, vars, chainVars, Sent, OwnInv, TypeOK
  <2>3. generation' >= generation
    BY <1>0, <2>1
  <2> QED
    BY <1>0, <2>1, <2>2, <2>3, NothingOpened DEF InCall, TimeoutOf
<1> QED
  BY <1>1, <1>2, <1>3, <1>4, <1>5, <1>6, <1>7, <1>8, <1>9, <1>10, <1>11, <1>12,
     <1>13, <1>14 DEF Next, Answer

(* No call has begun, so no transaction has two.                           *)
LEMMA OnceInitial == Init => OnceInv
<1> SUFFICES ASSUME Init PROVE OnceInv
  OBVIOUS
<1>1. NoCall \in Call
  BY DEF Call
<1>2. \A c \in CallId : ~InCall(c) /\ calls[c] \notin CheckCall
  BY <1>1, CallKinds DEF Init, InCall
<1>3. CheckLock /\ OneCallPerTx
  BY <1>2 DEF CheckLock, HoldsLock, OneCallPerTx, OnTx
<1>4. NotifiedOnce
  BY DEF Init, NotifiedOnce
<1> QED
  BY <1>3, <1>4, OwnInitial DEF OnceInv

(* Each signature is the business of one call at a time, and of none after *)
(* onConfirmed has been called with it.                                    *)
THEOREM OnceInvariant == Spec => []OnceInv
  BY OnceInitial, OnceStep, PTL DEF Spec

(* The parent is told of a confirmed transaction once, whatever clicks are *)
(* batched: checkingRef, not what is rendered, keeps a second checkStatus  *)
(* from being about the same signature.                                    *)
THEOREM OnConfirmedOnce == Spec => []ConfirmedOnce
<1>1. OnceInv => ConfirmedOnce
  BY DEF OnceInv, NotifiedOnce, ConfirmedOnce
<1> QED
  BY <1>1, OnceInvariant, PTL

-----------------------------------------------------------------------------
(* One transaction at a time.                                              *)

(* What the constants of the environment leave unchanged.                  *)
LEMMA EnvironmentStays == [Next]_vars => (Unseen' <=> Unseen)
<1> SUFFICES ASSUME [Next]_vars
             PROVE  environment' = environment
  BY DEF Unseen
<1> QED
  BY DEF Next, Answer, StartRun, StartCheck, BlockhashArrives, BlockhashFails, NotSent,
    Send, ReplyArrives, ReplyLost, Confirmation, ConfirmationExpires,
    ConfirmationTimesOut, ReadStatus, ReadHeight, CheckReturns, CheckFails,
    SwitchWallet, Unmount, Mount, SwitchTo, ParentDisables, Chain, Process, Revert, Confirm, Fork, Becomes,
    Expire, vars

(* In what phase a session's call leaves the state.                        *)
LEMMA PhaseOfCall ==
  ASSUME NEW c \in CallId, calls[c] \in Call, InCall(c)
  PROVE  /\ PhaseOf(c).phase \in {"signing", "pending"} \/ PhaseOf(c).checking
         /\ \A u : TimeoutOf(PhaseOf(c), u) => calls[c].at = "status" /\ calls[c].tx = u
         /\ calls[c].at = "confirmation" => PhaseOf(c) = At("pending", calls[c].tx)
         /\ calls[c].at = "status" => PhaseOf(c) = Checking(calls[c].tx)
         /\ calls[c].at \in {"blockhash", "wallet", "reply"} => PhaseOf(c) = At("signing", NoTx)
<1>1. calls[c].at \in {"blockhash", "wallet", "reply", "confirmation", "status"}
  BY CallKinds DEF Call, InCall
<1>2. CASE calls[c].at = "confirmation"
  BY <1>2 DEF PhaseOf, At, TimeoutOf
<1>3. CASE calls[c].at = "status"
  BY <1>3 DEF PhaseOf, Checking, TimeoutOf
<1>4. CASE calls[c].at \in {"blockhash", "wallet", "reply"}
  BY <1>4 DEF PhaseOf, At, TimeoutOf
<1> QED
  BY <1>1, <1>2, <1>3, <1>4

(* The signature in doubt in the present session is its call's.            *)
LEMMA DoubtIsTheCalls ==
  ASSUME OwnInv, SeenParts, NEW c \in CallId, InCall(c), Live(c),
         NEW u \in Tx, InDoubt(u), session[u] = generation
  PROVE  calls[c].tx = u
  BY DEF SeenParts, DoubtIsFollowed, Live

(* A call that ends leaves what is in doubt in a phase that holds it.      *)
LEMMA EndKeepsSeen ==
  ASSUME OwnInv, SeenParts, QuietStep, NEW c \in CallId, InCall(c), NEW s, Return(c, s),
         Live(c) => \A u \in Tx : InDoubt(u) /\ session[u] = generation => Held(s, u)
  PROVE  SeenParts'
<1> USE DEF SeenParts, QuietStep, chainVars
<1>1. \A d \in CallId : InCall(d)' => d # c /\ InCall(d) /\ calls'[d] = calls[d]
  BY DEF Return, OwnInv, TypeOK, InCall
<1>2. state' = (IF Live(c) THEN s ELSE state) /\ shown' = state'
  BY DEF Return, SetState
<1>3. \A d \in CallId : InCall(d)' /\ Live(d)' => Live(d) /\ ~Live(c)
  BY <1>1 DEF Live, OneCallPerSession
<1>4. OneCallPerSession'
  BY <1>1 DEF OneCallPerSession
<1>5. PhaseTells'
  BY <1>1, <1>2, <1>3 DEF PhaseTells, PhaseOf
<1>6. \A u \in Tx : InDoubt(u)' <=> InDoubt(u)
  BY DEF InDoubt
<1>7. ASSUME NEW u \in Tx, InDoubt(u), session[u] = generation
      PROVE  Followed(u)'
  <2>1. CASE Live(c)
    BY <1>2, <1>7, <2>1 DEF Followed, Held
  <2>2. CASE ~Live(c)
    <3>1. Followed(u) /\ state' = state
      BY <1>2, <1>7, <2>2 DEF DoubtIsFollowed
    <3>2. ASSUME NEW d \in CallId, OnTx(d, u), Live(d)
          PROVE  OnTx(d, u)' /\ Live(d)'
      <4>1. d # c
        BY <2>2, <3>2
      <4> QED
        BY <3>2, <4>1 DEF Return, OwnInv, TypeOK, OnTx, InCall, Live
    <3> QED
      BY <3>1, <3>2 DEF Followed, Held
  <2> QED
    BY <2>1, <2>2
<1>8. DoubtIsFollowed'
  BY <1>1, <1>6, <1>7 DEF DoubtIsFollowed
<1> QED
  BY <1>2, <1>4, <1>5, <1>8

(* A run() that goes on, in its phase.                                     *)
LEMMA AwaitKeepsSeen ==
  ASSUME OwnInv, OwnInv', SeenParts, QuietStep, NEW c \in CallId, InCall(c),
         NEW at, NEW s, Await(c, at, calls[c].tx, s),
         calls[c] \in FreshRun \/ calls[c] \in SentRun,
         \/ at = "wallet" /\ calls[c].at = "blockhash" /\ s = state
         \/ at = "confirmation" /\ s = At("pending", calls[c].tx)
  PROVE  SeenParts'
<1> USE DEF SeenParts, QuietStep, chainVars
<1>1. \A d \in CallId : d # c => calls'[d] = calls[d]
  BY DEF Await, OwnInv, TypeOK
<1>2. /\ \/ ~Live(c) /\ calls'[c] = NoCall
         \/ /\ calls'[c].generation = calls[c].generation
            /\ calls'[c].tx = calls[c].tx /\ calls'[c].at = at
      /\ state' = (IF Live(c) THEN s ELSE state) /\ shown' = state'
  BY DEF Await, SetState, NotAbandoned, OwnInv, TypeOK, FreshRun, SentRun
<1>3. Live(c) => InCall(c)'
  <2>1. Live(c) => calls'[c] = [calls[c] EXCEPT !.at = at, !.tx = calls[c].tx]
    BY DEF Await, NotAbandoned, OwnInv, TypeOK
  <2>2. NoCall.kind = "free"
    BY DEF NoCall
  <2>3. Live(c) => calls'[c].kind = "run"
    BY <2>1 DEF FreshRun, SentRun
  <2> QED
    BY <2>2, <2>3 DEF InCall
<1>4. \A d \in CallId : InCall(d)' =>
         /\ InCall(d) /\ calls'[d].generation = calls[d].generation
         /\ calls'[d].tx = calls[d].tx
  BY <1>1, <1>2 DEF InCall
<1>5. OneCallPerSession'
  BY <1>4 DEF OneCallPerSession
<1>6. PhaseTells'
  <2> SUFFICES ASSUME NEW d \in CallId, InCall(d)', Live(d)'
               PROVE  state' = PhaseOf(d)'
    BY DEF PhaseTells
  <2>1. InCall(d) /\ Live(d)
    BY <1>4 DEF Live
  <2>2. CASE Live(c)
    <3>1. d = c
      BY <2>1, <2>2 DEF OneCallPerSession, Live
    <3>2. CASE at = "wallet"
      <4>1. state = At("signing", NoTx)
        BY <2>2, <3>2, PhaseOfCall DEF PhaseTells, OwnInv, TypeOK
      <4> QED
        BY <1>2, <2>2, <3>1, <3>2, <4>1 DEF PhaseOf
    <3>3. CASE at = "confirmation"
      BY <1>2, <2>2, <3>1, <3>3 DEF PhaseOf
    <3> QED
      BY <3>2, <3>3
  <2>3. CASE ~Live(c)
    BY <1>1, <1>2, <2>1, <2>3 DEF PhaseTells, PhaseOf
  <2> QED
    BY <2>2, <2>3
<1>7. \A u \in Tx : InDoubt(u)' <=> InDoubt(u)
  BY DEF InDoubt
<1>8. ASSUME NEW u \in Tx, InDoubt(u), session[u] = generation
      PROVE  Followed(u)'
  <2>1. CASE Live(c)
    <3>1. calls[c].tx = u
      BY <1>8, <2>1, DoubtIsTheCalls
    <3> QED
      BY <1>2, <1>3, <2>1, <3>1 DEF Followed, OnTx, Live
  <2>2. CASE ~Live(c)
    <3>1. Followed(u) /\ state' = state
      BY <1>2, <1>8, <2>2 DEF DoubtIsFollowed
    <3>2. ASSUME NEW d \in CallId, OnTx(d, u), Live(d)
          PROVE  OnTx(d, u)' /\ Live(d)'
      BY <1>1, <2>2, <3>2 DEF OnTx, InCall, Live
    <3> QED
      BY <3>1, <3>2 DEF Followed, Held
  <2> QED
    BY <2>1, <2>2
<1>9. DoubtIsFollowed'
  BY <1>4, <1>7, <1>8 DEF DoubtIsFollowed
<1>10. shown' = state'
  BY <1>2
<1> QED
  BY <1>5, <1>6, <1>9, <1>10

(* No call of the session is under way in a phase from which a click       *)
(* begins one.                                                             *)
LEMMA NoCallWhenClickable ==
  ASSUME OwnInv, SeenParts, NEW c \in CallId, InCall(c),
         ~Busy(shown)
  PROVE  ~Live(c)
<1> SUFFICES ASSUME Live(c) PROVE FALSE
  OBVIOUS
<1>1. shown = PhaseOf(c)
  BY DEF SeenParts, PhaseTells
<1> QED
  BY <1>1, PhaseOfCall DEF Busy, OwnInv, TypeOK

(* A rendered click begins the session's only call.                        *)
LEMMA StartKeepsSeen ==
  ASSUME OwnInv, SeenParts, QuietStep, NEW c \in CallId, NEW k, Place(c, k),
         k # NoCall, k.generation = generation, ~Busy(shown), shown' = state',
         \/ /\ shown.phase # "timeout" /\ ~Terminal(shown)
            /\ k.at = "blockhash" /\ state' = At("signing", NoTx)
         \/ /\ shown.phase = "timeout"
            /\ k.at = "status" /\ k.tx = shown.tx /\ state' = Checking(shown.tx)
  PROVE  SeenParts'
<1> USE DEF SeenParts, QuietStep, chainVars
<1>1. \A d \in CallId : calls'[d] = IF d = c THEN k ELSE calls[d]
  BY DEF Place, OwnInv, TypeOK
<1>2. \A d \in CallId : InCall(d)' => d = c \/ (InCall(d) /\ calls[d].generation # generation)
  BY <1>1, NoCallWhenClickable DEF InCall, Live
<1>3. OneCallPerSession'
  BY <1>1, <1>2 DEF OneCallPerSession, InCall
<1>4. PhaseTells'
  <2> SUFFICES ASSUME NEW d \in CallId, InCall(d)', Live(d)'
               PROVE  state' = PhaseOf(d)'
    BY DEF PhaseTells
  <2>1. calls'[d] = k
    BY <1>1, <1>2 DEF Live
  <2>2. CASE k.at = "blockhash" /\ state' = At("signing", NoTx)
    BY <2>1, <2>2 DEF PhaseOf
  <2>3. CASE k.at = "status" /\ k.tx = shown.tx /\ state' = Checking(shown.tx)
    BY <2>1, <2>3 DEF PhaseOf
  <2> QED
    BY <2>2, <2>3
<1>5. ASSUME NEW u \in Tx, InDoubt(u), session[u] = generation
      PROVE  shown.phase = "timeout" /\ k.tx = u
  <2>1. Held(state, u)
    BY <1>5, NoCallWhenClickable DEF DoubtIsFollowed, Followed, OnTx
  <2> QED
    BY <2>1 DEF Held, Terminal
<1>6. \A u \in Tx : InDoubt(u)' <=> InDoubt(u)
  BY DEF InDoubt
<1>7. DoubtIsFollowed'
  <2> SUFFICES ASSUME NEW u \in Tx, InDoubt(u)
               PROVE  /\ \A d \in CallId :
                           InCall(d)' /\ calls'[d].generation = session[u] => calls'[d].tx = u
                      /\ session[u] = generation => Followed(u)'
    BY <1>6 DEF DoubtIsFollowed
  <2>1. ASSUME NEW d \in CallId, InCall(d)', calls'[d].generation = session[u]
        PROVE  calls'[d].tx = u
    <3>1. CASE d = c
      BY <1>1, <1>5, <2>1, <3>1
    <3>2. CASE d # c
      BY <1>1, <2>1, <3>2 DEF DoubtIsFollowed, InCall
    <3> QED
      BY <3>1, <3>2
  <2>2. ASSUME session[u] = generation
        PROVE  Followed(u)'
    BY <1>1, <1>5, <2>2 DEF Followed, OnTx, InCall, Live
  <2> QED
    BY <2>1, <2>2
<1> QED
  BY <1>3, <1>4, <1>7

(* A transaction is sent by the only call of its session.                  *)
LEMMA SendKeepsSeen ==
  ASSUME OwnInv, OwnInv', SeenParts, NEW c \in CallId, NEW t \in Tx, Send(c, t)
  PROVE  SeenParts'
<1> USE DEF SeenParts
<1>1. calls[c] \in FreshRun /\ InCall(c) /\ calls[c].tx = NoTx /\ ~Sent(t)
  BY CallKinds DEF Send, Waiting, InCall, Sent, OwnInv, TypeOK
<1>2. \A d \in CallId : d # c => calls'[d] = calls[d]
  BY DEF Send, OwnInv, TypeOK
<1>3. /\ calls'[c].generation = calls[c].generation
      /\ calls'[c].tx = t /\ calls'[c].at = "reply" /\ calls'[c].kind = "run"
  BY <1>1 DEF Send, OwnInv, TypeOK, FreshRun
<1>4. InCall(c)'
  <2>1. NoCall.kind = "free"
    BY DEF NoCall
  <2> QED
    BY <1>3, <2>1 DEF InCall
<1>5. UNCHANGED <<generation, state, shown, expired>>
  BY DEF Send, Context
<1>6. \A d \in CallId : InCall(d)' => InCall(d) /\ calls'[d].generation = calls[d].generation
  BY <1>1, <1>2, <1>3 DEF InCall
<1>7. OneCallPerSession'
  BY <1>6 DEF OneCallPerSession
<1>8. PhaseTells'
  <2> SUFFICES ASSUME NEW d \in CallId, InCall(d)', Live(d)'
               PROVE  state = PhaseOf(d)'
    BY <1>5 DEF PhaseTells
  <2>1. InCall(d) /\ Live(d)
    BY <1>5, <1>6 DEF Live
  <2>2. CASE d = c
    <3>1. PhaseOf(c) = At("signing", NoTx)
      BY <1>1, PhaseOfCall DEF OwnInv, TypeOK, Send, Waiting
    <3> QED
      BY <1>3, <2>1, <2>2, <3>1 DEF PhaseTells, PhaseOf
  <2>3. CASE d # c
    BY <1>2, <2>1, <2>3 DEF PhaseTells, PhaseOf
  <2> QED
    BY <2>2, <2>3
<1>9. \A u \in Tx : u # t => /\ session'[u] = session[u] /\ (InDoubt(u)' <=> InDoubt(u))
  BY <1>5 DEF Send, InDoubt, OwnInv, TypeOK
<1>10. session'[t] = calls[c].generation
  BY DEF Send, OwnInv, TypeOK
<1>11. ASSUME NEW u \in Tx, u # t, InDoubt(u)
       PROVE  session[u] # calls[c].generation
  BY <1>1, <1>11, None DEF DoubtIsFollowed
<1>12. DoubtIsFollowed'
  <2> SUFFICES ASSUME NEW u \in Tx, InDoubt(u)'
               PROVE  /\ \A d \in CallId :
                           InCall(d)' /\ calls'[d].generation = session'[u] => calls'[d].tx = u
                      /\ session'[u] = generation => Followed(u)'
    BY <1>5 DEF DoubtIsFollowed
  <2>1. CASE u = t
    <3>1. \A d \in CallId : InCall(d)' /\ calls'[d].generation = session'[u] => d = c
      BY <1>1, <1>6, <1>10, <2>1 DEF OneCallPerSession
    <3>2. session'[u] = generation => Followed(u)'
      BY <1>3, <1>4, <1>5, <1>10, <2>1 DEF Followed, OnTx, Live
    <3> QED
      BY <1>3, <2>1, <3>1, <3>2
  <2>2. CASE u # t
    <3>1. InDoubt(u) /\ session'[u] = session[u] /\ session[u] # calls[c].generation
      BY <1>9, <1>11, <2>2
    <3>2. \A d \in CallId :
            InCall(d)' /\ calls'[d].generation = session'[u] => calls'[d].tx = u
      BY <1>2, <1>3, <1>6, <3>1 DEF DoubtIsFollowed
    <3>3. session[u] = generation => Followed(u)'
      <4> SUFFICES ASSUME session[u] = generation
                   PROVE  Followed(u)'
        OBVIOUS
      <4>1. CASE Held(state, u)
        BY <1>5, <4>1 DEF Followed, Held
      <4>2. ASSUME NEW d \in CallId, OnTx(d, u), Live(d)
            PROVE  Followed(u)'
        <5>1. d # c
          BY <3>1, <4>2 DEF Live
        <5> QED
          BY <1>2, <1>5, <4>2, <5>1 DEF Followed, OnTx, InCall, Live
      <4> QED
        BY <3>1, <4>1, <4>2 DEF DoubtIsFollowed, Followed
    <3> QED
      BY <3>1, <3>2, <3>3
  <2> QED
    BY <2>1, <2>2
<1> QED
  BY <1>5, <1>7, <1>8, <1>12

(* A step of the chain, of an answer that is not yet the last, or of the   *)
(* parent.                                                                 *)
LEMMA ElsewhereKeepsSeen ==
  ASSUME SeenParts, UNCHANGED <<generation, state, session>>, shown' \in {shown, state},
         \A d \in CallId : /\ InCall(d)' <=> InCall(d)
                           /\ InCall(d) => /\ calls'[d].generation = calls[d].generation
                                           /\ calls'[d].tx = calls[d].tx
                                           /\ calls'[d].at = calls[d].at,
         \A u \in Tx : InDoubt(u)' => InDoubt(u)
  PROVE  SeenParts'
<1> USE DEF SeenParts
<1>1. OneCallPerSession'
  BY DEF OneCallPerSession
<1>2. PhaseTells'
  <2> SUFFICES ASSUME NEW d \in CallId, InCall(d)', Live(d)'
               PROVE  state' = PhaseOf(d)'
    BY DEF PhaseTells
  <2>1. PhaseOf(d)' = PhaseOf(d)
    BY DEF PhaseOf
  <2>2. state = PhaseOf(d)
    BY DEF PhaseTells, Live
  <2> QED
    BY <2>1, <2>2
<1>3. \A u \in Tx : Followed(u) => Followed(u)'
  BY DEF Followed, Held, OnTx, Live
<1>4. DoubtIsFollowed'
  BY <1>3 DEF DoubtIsFollowed
<1> QED
  BY <1>1, <1>2, <1>4

(* A new session has neither calls nor transactions.                       *)
LEMMA SwitchKeepsSeen ==
  ASSUME OwnInv, SeenParts, NEW w, SwitchTo(w)
  PROVE  SeenParts'
<1> USE DEF SeenParts
<1>1. /\ generation \in Nat /\ generation' = generation + 1
      /\ state' = shown' /\ UNCHANGED <<calls, fate, expired, session>>
  BY DEF SwitchTo, OwnInv, TypeOK, chainVars
<1>2. \A d \in CallId : InCall(d) => calls[d].generation # generation'
  <2>1. \A d \in CallId : InCall(d) => calls[d].generation \in Nat
    BY CallKinds DEF InCall, OwnInv, TypeOK
  <2> QED
    BY <1>1, <2>1 DEF OwnInv, CallsAreOwn
<1>3. \A u \in Tx : session[u] # generation' /\ (InDoubt(u)' <=> InDoubt(u))
  BY <1>1 DEF OwnInv, SentAreOwned, TypeOK, InDoubt
<1>4. OneCallPerSession' /\ PhaseTells'
  BY <1>1, <1>2 DEF OneCallPerSession, PhaseTells, InCall, Live
<1>5. DoubtIsFollowed'
  BY <1>1, <1>3 DEF DoubtIsFollowed, InCall
<1> QED
  BY <1>1, <1>4, <1>5

(* Each step that the button can see keeps a transaction in doubt the only *)
(* business of its session.                                                *)
LEMMA SeenStep == SeenInv /\ [Next]_vars => SeenInv'
<1> SUFFICES ASSUME SeenInv, [Next]_vars
             PROVE  SeenInv'
  OBVIOUS
<1>1. OwnInv /\ OwnInv' /\ (Unseen' <=> Unseen)
  BY OwnStep, EnvironmentStays DEF SeenInv
<1>2. CASE Unseen
  BY <1>1, <1>2 DEF SeenInv
<1>3. CASE ~Unseen
  <2>0. /\ SeenParts /\ "batched clicks" \notin environment /\ "lost reply" \notin environment
        /\ \A c \in CallId : calls[c] \in Call
    BY <1>1, <1>3 DEF SeenInv, Unseen, OwnInv, TypeOK
  <2>1. ASSUME NEW c \in CallId, StartRun(c)
        PROVE  SeenParts'
    <3> DEFINE k == [kind |-> "run", at |-> "blockhash", generation |-> generation,
                     wallet |-> wallet, tx |-> NoTx]
    <3>1. QuietStep /\ Place(c, k) /\ ~Busy(shown) /\ shown.phase # "timeout"
          /\ ~Terminal(shown) /\ state' = At("signing", NoTx)
      BY <2>1 DEF StartRun, QuietStep
    <3>2. shown' = state'
      BY <2>0, <2>1 DEF StartRun, RenderAfterClick
    <3>3. k # NoCall /\ k.generation = generation /\ k.at = "blockhash"
      BY DEF NoCall
    <3> HIDE DEF k
    <3> QED
      BY <1>1, <2>0, <3>1, <3>2, <3>3, StartKeepsSeen
  <2>2. ASSUME NEW c \in CallId, StartCheck(c)
        PROVE  SeenParts'
    <3> DEFINE k == [kind |-> "check", at |-> "status", generation |-> generation,
                     wallet |-> wallet, tx |-> shown.tx,
                     status |-> "unread", height |-> "unread"]
    <3>1. /\ QuietStep /\ Place(c, k) /\ ~Busy(shown) /\ shown.phase = "timeout"
          /\ state' = Checking(shown.tx)
      BY <2>2 DEF StartCheck, QuietStep, Context, Busy
    <3>2. shown' = state'
      BY <2>0, <2>2 DEF StartCheck, RenderAfterClick
    <3>3. k # NoCall /\ k.generation = generation /\ k.at = "status" /\ k.tx = shown.tx
      BY DEF NoCall
    <3> HIDE DEF k
    <3> QED
      BY <1>1, <2>0, <3>1, <3>2, <3>3, StartKeepsSeen
  <2>3. ASSUME NEW c \in CallId, BlockhashArrives(c) \/ ReplyArrives(c)
        PROVE  SeenParts'
    <3>1. /\ InCall(c) /\ QuietStep
          /\ calls[c] \in FreshRun \/ calls[c] \in SentRun
      BY <2>0, <2>3, CallKinds
      DEF BlockhashArrives, ReplyArrives, Waiting, InCall, QuietStep, Context
    <3>2. CASE BlockhashArrives(c)
      <4>1. calls[c].at = "blockhash" /\ Await(c, "wallet", calls[c].tx, state)
        BY <2>0, <3>2, CallKinds DEF BlockhashArrives, Waiting
      <4> QED
        BY <1>1, <2>0, <3>1, <4>1, AwaitKeepsSeen
    <3>3. CASE ReplyArrives(c)
      <4>1. Await(c, "confirmation", calls[c].tx, At("pending", calls[c].tx))
        BY <3>3 DEF ReplyArrives
      <4> QED
        BY <1>1, <2>0, <3>1, <4>1, AwaitKeepsSeen
    <3> QED
      BY <2>3, <3>2, <3>3
  <2>4. ASSUME NEW c \in CallId, BlockhashFails(c) \/ NotSent(c)
        PROVE  SeenParts'
    <3>1. /\ calls[c].tx = NoTx /\ InCall(c) /\ QuietStep
          /\ \E s : Return(c, s)
      BY <2>0, <2>4, CallKinds
      DEF BlockhashFails, NotSent, Waiting, InCall, QuietStep, Context
    <3>2. Live(c) => \A u \in Tx : ~(InDoubt(u) /\ session[u] = generation)
      BY <1>1, <2>0, <3>1, DoubtIsTheCalls, None
    <3> QED
      BY <1>1, <2>0, <3>1, <3>2, EndKeepsSeen
  <2>5. ASSUME NEW c \in CallId, NEW t \in Tx, Send(c, t)
        PROVE  SeenParts'
    BY <1>1, <2>0, <2>5, SendKeepsSeen
  <2>6. ASSUME NEW c \in CallId, ReplyLost(c)
        PROVE  SeenParts'
    BY <2>0, <2>6 DEF ReplyLost
  <2>7. ASSUME NEW c \in CallId, Confirmation(c) \/ ConfirmationExpires(c)
        PROVE  SeenParts'
    <3>0. calls[c].tx \in Tx
      BY <2>0, <2>7, CallKinds DEF Confirmation, ConfirmationExpires, Waiting
    <3>1. PICK s : /\ Return(c, s)
                   /\ s = At("confirmed", calls[c].tx) \/ ~InDoubt(calls[c].tx)
      BY <1>1, <2>7, <3>0
      DEF Confirmation, ConfirmationExpires, InDoubt, OwnInv, SentAreOwned
    <3>2. InCall(c) /\ QuietStep
      BY <2>7
      DEF Confirmation, ConfirmationExpires, Waiting, InCall, QuietStep, Context
    <3>3. InDoubt(calls[c].tx) => Held(s, calls[c].tx)
      BY <3>1 DEF Held, At
    <3>4. Live(c) => \A u \in Tx : InDoubt(u) /\ session[u] = generation => Held(s, u)
      BY <1>1, <2>0, <3>2, <3>3, DoubtIsTheCalls
    <3> QED
      BY <1>1, <2>0, <3>1, <3>2, <3>4, EndKeepsSeen
  <2>8. ASSUME NEW c \in CallId, ConfirmationTimesOut(c) \/ CheckFails(c)
        PROVE  SeenParts'
    <3>1. InCall(c) /\ QuietStep /\ Return(c, At("timeout", calls[c].tx))
      BY <2>8 DEF ConfirmationTimesOut, CheckFails, Waiting, InCall, QuietStep, Context
    <3>2. Held(At("timeout", calls[c].tx), calls[c].tx)
      BY DEF Held, At
    <3>3. Live(c) => \A u \in Tx : InDoubt(u) /\ session[u] = generation =>
                       Held(At("timeout", calls[c].tx), u)
      BY <1>1, <2>0, <3>1, <3>2, DoubtIsTheCalls
    <3> QED
      BY <1>1, <2>0, <3>1, <3>3, EndKeepsSeen
  <2>9. ASSUME NEW c \in CallId, CheckReturns(c)
        PROVE  SeenParts'
    <3> DEFINE t == calls[c].tx
               s == Conclude(calls[c].status, calls[c].height, t)
    <3>1. /\ calls[c] \in CheckCall /\ InCall(c) /\ QuietStep /\ Return(c, s)
      BY <2>0, <2>9, CallKinds DEF CheckReturns, Waiting, InCall, QuietStep, Context
    <3>0. t \in Tx
      BY <2>0, <3>1, CallKinds
    <3>2. InDoubt(t) => calls[c].status # "reverted" /\ calls[c].height # "past"
      BY <1>1, <3>0, <3>1 DEF OwnInv, ReadsHold, SentAreOwned, InDoubt
    <3>3. InDoubt(t) => Held(s, t)
      BY <3>2, Conclusions DEF Held, At
    <3> HIDE DEF s
    <3>4. Live(c) => \A u \in Tx : InDoubt(u) /\ session[u] = generation => Held(s, u)
      BY <1>1, <2>0, <3>1, <3>3, DoubtIsTheCalls
    <3> QED
      BY <1>1, <2>0, <3>1, <3>4, EndKeepsSeen
  <2>10. ASSUME NEW c \in CallId, ReadStatus(c) \/ ReadHeight(c)
         PROVE  SeenParts'
    <3>1. calls[c] \in CheckCall
      BY <2>0, <2>10, CallKinds DEF ReadStatus, ReadHeight, Waiting
    <3>2. PICK x : \/ calls' = [calls EXCEPT ![c].status = x]
                   \/ calls' = [calls EXCEPT ![c].height = x]
      BY <2>10 DEF ReadStatus, ReadHeight
    <3>3. \A d \in CallId : d # c => calls'[d] = calls[d]
      BY <1>1, <3>2 DEF OwnInv, TypeOK
    <3>4. \/ calls'[c] = [calls[c] EXCEPT !.status = x]
          \/ calls'[c] = [calls[c] EXCEPT !.height = x]
      BY <1>1, <3>2 DEF OwnInv, TypeOK
    <3>5. /\ calls'[c].tx = calls[c].tx /\ calls'[c].generation = calls[c].generation
          /\ calls'[c].at = calls[c].at /\ calls'[c].kind = "check" /\ calls[c].kind = "check"
      BY <3>1, <3>4 DEF CheckCall
    <3>6. NoCall.kind = "free"
      BY DEF NoCall
    <3>7. InCall(c) /\ InCall(c)'
      BY <3>5, <3>6 DEF InCall
    <3>8. UNCHANGED <<generation, state, session, shown, fate, expired>>
      BY <2>10 DEF ReadStatus, ReadHeight, Context, chainVars
    <3>9. \A u \in Tx : InDoubt(u)' => InDoubt(u)
      BY <3>8 DEF InDoubt
    <3>10. \A d \in CallId : /\ InCall(d)' <=> InCall(d)
                             /\ InCall(d) => /\ calls'[d].generation = calls[d].generation
                                             /\ calls'[d].tx = calls[d].tx
                                             /\ calls'[d].at = calls[d].at
      BY <3>3, <3>5, <3>7 DEF InCall
    <3> QED
      BY <2>0, <3>8, <3>9, <3>10, ElsewhereKeepsSeen
  <2>11. ASSUME NEW w \in Wallet \cup {NoWallet}, SwitchWallet(w) \/ Unmount(w) \/ Mount(w)
         PROVE  SeenParts'
    <3>1. SwitchTo(w)
      BY <2>11 DEF SwitchWallet, Unmount, Mount
    <3> QED
      BY <1>1, <2>0, <3>1, SwitchKeepsSeen
  <2>12. ASSUME ParentDisables \/ (\E t \in Tx : Chain(t)) \/ UNCHANGED vars
         PROVE  SeenParts'
    <3>1. UNCHANGED <<calls, generation, state, session>> /\ shown' \in {shown, state}
      BY <2>12 DEF ParentDisables, Chain, Process, Revert, Confirm, Fork, Becomes, Expire,
        buttonVars, chainVars, vars
    <3>2. \A u \in Tx : InDoubt(u)' => InDoubt(u)
      BY <1>1, <2>12 DEF ParentDisables, Chain, Process, Revert, Confirm, Fork, Becomes,
        Expire, chainVars, vars, InDoubt, OwnInv, TypeOK
    <3> QED
      BY <2>0, <3>1, <3>2, ElsewhereKeepsSeen DEF InCall
  <2>13. SeenParts'
    BY <2>1, <2>2, <2>3, <2>4, <2>5, <2>6, <2>7, <2>8, <2>9, <2>10, <2>11, <2>12
    DEF Next, Answer
  <2> QED
    BY <1>1, <2>13 DEF SeenInv
<1> QED
  BY <1>2, <1>3

(* No session has been seen.                                               *)
LEMMA SeenInitial == Init => SeenInv
<1> SUFFICES ASSUME Init PROVE SeenInv
  OBVIOUS
<1>1. \A c \in CallId : ~InCall(c)
  BY DEF Init, InCall
<1>2. \A t \in Tx : ~InDoubt(t)
  BY DEF Init, InDoubt
<1> QED
  BY <1>1, <1>2, OwnInitial
  DEF SeenInv, SeenParts, OneCallPerSession, PhaseTells, DoubtIsFollowed, Init

(* A call that asks the wallet to sign has no signature of its own, so     *)
(* none of its session is in doubt.                                        *)
THEOREM OneSendAtATime == Spec => SendsOneAtATime
<1>1. SeenInv /\ [Next]_vars =>
        [\A c \in CallId, t \in Tx : Send(c, t) =>
           \A u \in Tx : owner[u] # NoWallet /\ session[u] = calls[c].generation
                           => Unseen \/ ~InDoubt(u)]_vars
  <2> SUFFICES ASSUME SeenInv, NEW c \in CallId, NEW t \in Tx, Send(c, t),
                      NEW u \in Tx, session[u] = calls[c].generation, InDoubt(u), ~Unseen
               PROVE  FALSE
    OBVIOUS
  <2>1. InCall(c) /\ calls[c].tx = NoTx
    BY CallKinds DEF Send, Waiting, InCall, SeenInv, OwnInv, TypeOK
  <2>2. calls[c].tx = u
    BY <2>1 DEF SeenInv, SeenParts, DoubtIsFollowed
  <2> QED
    BY <2>1, <2>2, None
<1>2. Spec => []SeenInv
  BY SeenInitial, SeenStep, PTL DEF Spec
<1> QED
  BY <1>1, <1>2, PTL DEF Spec, SendsOneAtATime
=============================================================================

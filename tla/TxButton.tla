------------------------------ MODULE TxButton ------------------------------
(***************************************************************************)
(* The button of the dashboard that sends a wallet's transaction           *)
(* (dashboard/src/app/market/TxButton.tsx), with the wallet, the RPC node  *)
(* and the chain it talks to.                                              *)
(*                                                                         *)
(* JavaScript runs a handler from one await to the next without            *)
(* interruption, so each such stretch is one action.  A handler that waits *)
(* is an entry of calls: it holds what the handler's local variables hold, *)
(* and at says which await it is in.  Answers come in any order, after any *)
(* number of other events, and the wallet may be switched meanwhile.  The  *)
(* panels unmount the button when the wallet disconnects; its handlers go  *)
(* on, and find in generationRef what they left there.                     *)
(***************************************************************************)
EXTENDS Naturals, FiniteSets

CONSTANTS
  Wallet,         \* the wallets a user may connect
  Tx,             \* the signatures of the transactions it sends
  CallId,         \* places for the handlers in flight
  MaxGeneration,  \* bound on the changes of the connected wallet
  MaxHiccups,     \* bound on the RPC requests that fail
  Environments    \* the sets of Mishaps that may happen together

(* "batched clicks": a second click is handled before the first one's      *)
(* setState is rendered; "lost reply": the node forwards a transaction and *)
(* the answer to sendTransaction is an error; "locks": the parent panel    *)
(* disables the button for good, as DepositPanel does when the market is   *)
(* locked; "failed request": the RPC node refuses a request.               *)
Mishaps == {"batched clicks", "lost reply", "locks", "failed request"}

ASSUME EnvironmentAssumption == \A e \in Environments : e \subseteq Mishaps
ASSUME CallIdAssumption == CallId \subseteq Nat
ASSUME BoundsAssumption == MaxGeneration \in Nat /\ MaxHiccups \in Nat

VARIABLES
  wallet,      \* useWallet().publicKey
  generation,  \* the changes of wallet so far: generationRef.current
  state,       \* the TxState last set
  shown,       \* the TxState of the last render: what a click handler reads
  checkingRef, \* checkingRef.current
  unmounted,   \* the generations at which a panel took the button away
  disabled,    \* the prop
  calls,       \* the run() and checkStatus() calls in flight
  owner,       \* the wallet that signed a transaction, NoWallet if unsent
  session,     \* history: the generation that sent it
  fate,        \* what the chain has done with it
  expired,     \* those whose lastValidBlockHeight the chain has passed
  notified,    \* history: how often onConfirmed was called with a signature
  givenUp,     \* history: those checkStatus has taken to be dead
  hiccups,     \* the failed RPC requests so far
  environment  \* which of Mishaps this behaviour may meet

buttonVars == <<wallet, generation, state, shown, checkingRef, unmounted,
                disabled, calls>>
chainVars  == <<owner, session, fate, expired>>
vars == <<buttonVars, chainVars, notified, givenUp, hiccups, environment>>

NoWallet == "disconnected"
NoTx == "no signature"
ASSUME NoneAssumption == NoWallet \notin Wallet /\ NoTx \notin Tx

NoCall == [kind |-> "free"]

(* A TxState: the phase with the fields that the component keeps for it.   *)
At(phase, t) == [phase |-> phase, tx |-> t, checking |-> FALSE]
Checking(t) == [phase |-> "timeout", tx |-> t, checking |-> TRUE]
Idle == At("idle", NoTx)

(* `busy` and `terminal` of the state that the last render saw.            *)
Busy(s) == s.phase \in {"signing", "pending"} \/ s.checking
Terminal(s) == s.phase = "confirmed"

(* The call has outlived a change of wallet unless its generation is the   *)
(* current one: only then does setState reach the screen.                  *)
AnyGeneration(c) == TRUE  \* mutant: the re-check after an await is missing
Live(c) == calls[c].generation = generation

(* The re-check after an await: the ref of a button that was taken away    *)
(* keeps the value it had.                                                 *)
NotAbandoned(c) == Live(c) \/ calls[c].generation \in unmounted

(* The call's refs are those of the button now mounted.                    *)
SameButton(c) == \A g \in unmounted : g < calls[c].generation

Init ==
  /\ wallet \in Wallet \cup {NoWallet}
  /\ generation = 0
  /\ state = Idle /\ shown = Idle
  /\ checkingRef = FALSE
  /\ unmounted = {}
  /\ disabled = FALSE
  /\ calls = [c \in CallId |-> NoCall]
  /\ owner = [t \in Tx |-> NoWallet]
  /\ session = [t \in Tx |-> 0]
  /\ fate = [t \in Tx |-> "unsent"]
  /\ expired = {}
  /\ notified = [t \in Tx |-> 0]
  /\ givenUp = {}
  /\ hiccups = 0
  /\ environment \in Environments

-----------------------------------------------------------------------------
(* The click.                                                              *)

(* A new call takes the first free place.                                  *)
Place(c, call) ==
  /\ calls[c] = NoCall
  /\ \A d \in CallId : d < c => calls[d] # NoCall
  /\ calls' = [calls EXCEPT ![c] = call]

(* setState within a click is rendered before the next event, unless the   *)
(* next one is a click of the same batch.                                  *)
RenderAfterClick == \/ shown' = state'
                    \/ "batched clicks" \in environment /\ shown' = shown

Clickable == ~disabled /\ wallet # NoWallet

Context == <<wallet, generation, unmounted, disabled>>

(* handleClick, then run() up to its first await, getLatestBlockhash.      *)
StartRun(c) ==
  /\ Clickable
  /\ shown.phase # "timeout" /\ ~Busy(shown) /\ ~Terminal(shown)
  /\ Place(c, [kind |-> "run", at |-> "blockhash", generation |-> generation,
               wallet |-> wallet, tx |-> NoTx])
  /\ state' = At("signing", NoTx)
  /\ RenderAfterClick
  /\ UNCHANGED <<wallet, generation, checkingRef, unmounted, disabled,
                 chainVars, notified, givenUp, hiccups, environment>>

(* handleClick in the timeout phase, then checkStatus() up to its await of *)
(* both the signature's status and the block height.  checkingRef, not the *)
(* rendered `checking`, is the lock.                                       *)
NoLock == TRUE  \* mutant: checkStatus trusts the rendered state alone
LockFree == ~checkingRef

StartCheck(c) ==
  /\ Clickable
  /\ shown.phase = "timeout" /\ ~shown.checking
  /\ LockFree
  /\ checkingRef' = TRUE
  /\ Place(c, [kind |-> "check", at |-> "status", generation |-> generation,
               wallet |-> wallet, tx |-> shown.tx,
               status |-> "unread", height |-> "unread"])
  /\ state' = Checking(shown.tx)
  /\ RenderAfterClick
  /\ UNCHANGED <<Context, chainVars, notified, givenUp, hiccups,
                 environment>>

-----------------------------------------------------------------------------
(* run(), from one await to the next.  A call of an older generation       *)
(* abandons instead of setting its state; setState has no effect on a      *)
(* button that is no longer mounted.                                       *)

SetState(c, s) == state' = (IF Live(c) THEN s ELSE state) /\ shown' = state'

(* The call ends.                                                          *)
Return(c, s) ==
  /\ calls' = [calls EXCEPT ![c] = NoCall]
  /\ SetState(c, s)

(* The call goes on to its next await.                                     *)
Await(c, at, t, s) ==
  /\ calls' = [calls EXCEPT ![c] =
                 IF NotAbandoned(c) THEN [@ EXCEPT !.at = at, !.tx = t]
                 ELSE NoCall]
  /\ SetState(c, s)

Waiting(c, at) == calls[c] # NoCall /\ calls[c].at = at

Hiccup == /\ "failed request" \in environment
          /\ hiccups < MaxHiccups /\ hiccups' = hiccups + 1

(* getLatestBlockhash answers; sendTransaction opens the wallet.           *)
BlockhashArrives(c) ==
  /\ Waiting(c, "blockhash")
  /\ Await(c, "wallet", NoTx, state)
  /\ UNCHANGED <<Context, checkingRef, chainVars, notified, givenUp, hiccups,
                 environment>>

BlockhashFailsStuck == state              \* mutant: "signing" is left as it is
BlockhashFailure == At("failed", NoTx)

BlockhashFails(c) ==
  /\ Waiting(c, "blockhash")
  /\ Hiccup
  /\ Return(c, BlockhashFailure)
  /\ UNCHANGED <<Context, checkingRef, chainVars, notified, givenUp,
                 environment>>

(* sendTransaction throws before the transaction leaves the wallet: the    *)
(* user rejects it, the blockhash has expired, or the node refuses it.     *)
NotSent(c) ==
  /\ Waiting(c, "wallet")
  /\ \E phase \in {"rejected", "expired-blockhash", "failed"} :
       Return(c, At(phase, NoTx))
  /\ UNCHANGED <<Context, checkingRef, chainVars, notified, givenUp, hiccups,
                 environment>>

(* The wallet signs and the node forwards the transaction.                 *)
Send(c, t) ==
  /\ Waiting(c, "wallet")
  /\ fate[t] = "unsent"
  /\ calls' = [calls EXCEPT ![c].at = "reply", ![c].tx = t]
  /\ owner' = [owner EXCEPT ![t] = calls[c].wallet]
  /\ session' = [session EXCEPT ![t] = calls[c].generation]
  /\ fate' = [fate EXCEPT ![t] = "pending"]
  /\ UNCHANGED <<Context, state, shown, checkingRef, expired, notified,
                 givenUp, hiccups, environment>>

(* sendTransaction returns the signature; the race of confirmTransaction   *)
(* with the 30-second timer begins.                                        *)
ReplyArrives(c) ==
  /\ Waiting(c, "reply")
  /\ Await(c, "confirmation", calls[c].tx, At("pending", calls[c].tx))
  /\ UNCHANGED <<Context, checkingRef, chainVars, notified, givenUp, hiccups,
                 environment>>

ReplyLost(c) ==
  /\ "lost reply" \in environment
  /\ Waiting(c, "reply")
  /\ Return(c, At("failed", NoTx))
  /\ UNCHANGED <<Context, checkingRef, chainVars, notified, givenUp, hiccups,
                 environment>>

Notify(c, t) ==
  notified' = IF NotAbandoned(c) THEN [notified EXCEPT ![t] = @ + 1]
              ELSE notified

(* confirmTransaction resolves: the transaction landed, or reverted.       *)
Confirmation(c) ==
  LET t == calls[c].tx
  IN  /\ Waiting(c, "confirmation")
      /\ \/ fate[t] = "landed" /\ Return(c, At("confirmed", t)) /\ Notify(c, t)
         \/ fate[t] = "reverted" /\ Return(c, At("failed", t))
            /\ UNCHANGED notified
      /\ UNCHANGED <<Context, checkingRef, chainVars, givenUp, hiccups,
                     environment>>

(* confirmTransaction rejects: it saw the block height pass first.         *)
ConfirmationExpires(c) ==
  /\ Waiting(c, "confirmation")
  /\ calls[c].tx \in expired
  /\ Return(c, At("expired-blockhash", NoTx))
  /\ UNCHANGED <<Context, checkingRef, chainVars, notified, givenUp, hiccups,
                 environment>>

(* The timer wins the race.                                                *)
ConfirmationTimesOut(c) ==
  /\ Waiting(c, "confirmation")
  /\ Return(c, At("timeout", calls[c].tx))
  /\ UNCHANGED <<Context, checkingRef, chainVars, notified, givenUp, hiccups,
                 environment>>

-----------------------------------------------------------------------------
(* checkStatus().                                                          *)

(* The node answers the two requests of the Promise.all one by one, in     *)
(* either order.                                                           *)
ReadStatus(c) ==
  /\ Waiting(c, "status")
  /\ calls[c].status = "unread"
  /\ calls' = [calls EXCEPT ![c].status =
                 IF fate[calls[c].tx] = "pending" THEN "not found"
                 ELSE fate[calls[c].tx]]
  /\ UNCHANGED <<Context, state, shown, checkingRef, chainVars, notified,
                 givenUp, hiccups, environment>>

ReadHeight(c) ==
  /\ Waiting(c, "status")
  /\ calls[c].height = "unread"
  /\ calls' = [calls EXCEPT ![c].height =
                 IF calls[c].tx \in expired THEN "past" ELSE "not past"]
  /\ UNCHANGED <<Context, state, shown, checkingRef, chainVars, notified,
                 givenUp, hiccups, environment>>

(* What checkStatus concludes from the two answers.                        *)
ConcludeEarly(status, height, t) ==  \* mutant: not found is taken for dead
  CASE status = "reverted" -> At("failed", t)
    [] status = "landed" -> At("confirmed", t)
    [] status = "processed" -> At("timeout", t)
    [] OTHER -> At("expired-blockhash", NoTx)

ConcludeFound(status, height, t) ==  \* mutant: any commitment will do
  CASE status = "reverted" -> At("failed", t)
    [] status \in {"landed", "processed"} -> At("confirmed", t)
    [] height = "past" -> At("expired-blockhash", NoTx)
    [] OTHER -> At("timeout", t)

Conclude(status, height, t) ==
  CASE status = "reverted" -> At("failed", t)
    [] status = "landed" -> At("confirmed", t)
    [] status = "not found" /\ height = "past" -> At("expired-blockhash", NoTx)
    [] OTHER -> At("timeout", t)

(* `finally`, on every path out of checkStatus.                            *)
UnlockIfLive(c) == checkingRef' = (checkingRef /\ ~Live(c))  \* mutant
Unlock(c) == checkingRef' = (checkingRef /\ ~SameButton(c))

CheckReturns(c) ==
  LET t == calls[c].tx
      next == Conclude(calls[c].status, calls[c].height, t)
  IN  /\ Waiting(c, "status")
      /\ calls[c].status # "unread" /\ calls[c].height # "unread"
      /\ Return(c, next)
      /\ IF next.phase = "confirmed" THEN Notify(c, t) ELSE UNCHANGED notified
      /\ givenUp' = IF Live(c) /\ next.phase = "expired-blockhash"
                    THEN givenUp \cup {t} ELSE givenUp
      /\ Unlock(c)
      /\ UNCHANGED <<Context, chainVars, hiccups, environment>>

(* Either request fails: the Promise.all rejects.                          *)
CheckFails(c) ==
  /\ Waiting(c, "status")
  /\ calls[c].status = "unread" \/ calls[c].height = "unread"
  /\ Hiccup
  /\ Return(c, At("timeout", calls[c].tx))
  /\ Unlock(c)
  /\ UNCHANGED <<Context, chainVars, notified, givenUp, environment>>

-----------------------------------------------------------------------------
(* The wallet, the parent panel and the chain.                             *)

(* The user connects another wallet, the same one again, or none, and      *)
(* nothing of the old state is painted under it.                           *)
SwitchTo(w) ==
  /\ w # wallet
  /\ generation < MaxGeneration
  /\ wallet' = w
  /\ generation' = generation + 1
  /\ state' = Idle
  /\ shown' = Idle
  /\ UNCHANGED <<disabled, calls, chainVars, notified, givenUp, hiccups,
                 environment>>

(* From one wallet to the next the button of DepositPanel stays mounted:   *)
(* the render that sees the change resets it.                              *)
SwitchWallet(w) ==
  /\ wallet # NoWallet /\ w # NoWallet
  /\ SwitchTo(w)
  /\ UNCHANGED <<checkingRef, unmounted>>

(* Without a wallet neither panel renders the button, and ClaimPanel,      *)
(* whose position is reset in the same render, drops it at every change:   *)
(* it is not rendered again, so its ref does not move.                     *)
Unmount(w) ==
  /\ wallet # NoWallet
  /\ SwitchTo(w)
  /\ unmounted' = unmounted \cup {generation}
  /\ checkingRef' = FALSE

(* The next wallet meets a new button.                                     *)
Mount(w) ==
  /\ wallet = NoWallet
  /\ SwitchTo(w)
  /\ UNCHANGED <<checkingRef, unmounted>>

ParentDisables ==
  /\ "locks" \in environment
  /\ ~disabled
  /\ disabled' = TRUE
  /\ shown' = state
  /\ UNCHANGED <<wallet, generation, state, checkingRef, unmounted, calls,
                 chainVars, notified, givenUp, hiccups, environment>>

(* A block takes the transaction in while its blockhash is valid; below    *)
(* the confirmed commitment the block may still be dropped.                *)
Becomes(t, from, to) ==
  /\ fate[t] = from
  /\ fate' = [fate EXCEPT ![t] = to]
  /\ UNCHANGED <<buttonVars, owner, session, expired, notified, givenUp,
                 hiccups, environment>>

Process(t) == t \notin expired /\ Becomes(t, "pending", "processed")
Revert(t)  == t \notin expired /\ Becomes(t, "pending", "reverted")
Confirm(t) == Becomes(t, "processed", "landed")
Fork(t)    == Becomes(t, "processed", "pending")

(* The height of the confirmed blocks passes lastValidBlockHeight: the     *)
(* blocks that could hold the transaction are confirmed or dropped.        *)
Expire(t) ==
  /\ fate[t] # "unsent" /\ t \notin expired
  /\ expired' = expired \cup {t}
  /\ IF fate[t] = "processed"
     THEN \E f \in {"landed", "pending"} : fate' = [fate EXCEPT ![t] = f]
     ELSE UNCHANGED fate
  /\ UNCHANGED <<buttonVars, owner, session, notified, givenUp, hiccups,
                 environment>>

Chain(t) == Process(t) \/ Revert(t) \/ Confirm(t) \/ Fork(t) \/ Expire(t)

(* The call's await ends.                                                  *)
Answer(c) ==
  \/ BlockhashArrives(c) \/ BlockhashFails(c)
  \/ NotSent(c) \/ (\E t \in Tx : Send(c, t))
  \/ ReplyArrives(c) \/ ReplyLost(c)
  \/ Confirmation(c) \/ ConfirmationExpires(c) \/ ConfirmationTimesOut(c)
  \/ ReadStatus(c) \/ ReadHeight(c) \/ CheckReturns(c) \/ CheckFails(c)

Next ==
  \/ \E c \in CallId : StartRun(c) \/ StartCheck(c) \/ Answer(c)
  \/ \E w \in Wallet \cup {NoWallet} : SwitchWallet(w) \/ Unmount(w) \/ Mount(w)
  \/ ParentDisables
  \/ \E t \in Tx : Chain(t)

Spec == Init /\ [][Next]_vars

(* Every request is answered, the user decides in the wallet, whoever sees *)
(* "click to check status" clicks, and the chain advances.                 *)
Fairness ==
  /\ \A c \in CallId : WF_vars(Answer(c)) /\ WF_vars(StartCheck(c))
  /\ \A t \in Tx : WF_vars(Expire(t))

FairSpec == Spec /\ Fairness

-----------------------------------------------------------------------------
(* Properties.                                                             *)

(* Whatever signature is displayed was signed by the wallet now connected  *)
(* and since it was connected, however late the answer to a request that   *)
(* an earlier wallet made.                                                 *)
ShownIsOwn ==
  state.tx # NoTx => owner[state.tx] = wallet /\ session[state.tx] = generation

(* "Deposited" or "Claimed" is shown only of a transaction that is on      *)
(* chain for good.                                                         *)
ConfirmedIsFinal == state.phase = "confirmed" => fate[state.tx] = "landed"

(* onConfirmed is called at most once for a transaction, even when clicks  *)
(* are handled faster than they are rendered (checkingRef).                *)
ConfirmedOnce == \A t \in Tx : notified[t] <= 1

(* Sent, and it has landed or may still do so.  Out of this are a reverted *)
(* one and, in a block or not, one whose last block height has passed.     *)
InDoubt(t) == \/ fate[t] = "processed"
              \/ fate[t] \in {"pending", "landed"} /\ t \notin expired

(* While the same wallet stays connected, no transaction is sent when an   *)
(* earlier one has landed or may still land: a click sends again only from *)
(* phases that are reached when the one before it was not sent, has        *)
(* reverted, or its blockhash has run out.  (Two clicks before a render,   *)
(* and a transaction whose signature never came back, are outside of what  *)
(* the component can see.  One that landed before its blockhash ran out    *)
(* and was missed is what GivenUpNeverLanded is about.)                    *)
Unseen == environment \cap {"batched clicks", "lost reply"} # {}

SendsOneAtATime ==
  [][\A c \in CallId, t \in Tx : Send(c, t) =>
       \A u \in Tx : owner[u] # NoWallet /\ session[u] = calls[c].generation
                       => Unseen \/ ~InDoubt(u)]_vars

(* Comment of TxState: the check status action "can prove the original     *)
(* blockhash provably expired without landing".                            *)
GivenUpNeverLanded == \A t \in givenUp : fate[t] # "landed"

(* What is signing or confirming comes to an end.                          *)
BusyEnds == Busy(state) ~> ~Busy(state)

(* A user who clicks "Still confirming. Click to check status." learns the *)
(* fate of the transaction in the end, unless the parent takes the button  *)
(* away: neither failing requests nor a lock held by a call of a wallet    *)
(* since disconnected keep it from him.                                    *)
TimeoutResolves == state.phase = "timeout" ~> state.phase # "timeout" \/ disabled
=============================================================================

------------------------- MODULE LifecycleAftermath -------------------------
(***************************************************************************)
(* What becomes of the market of a script that has ended.  A script that   *)
(* throws leaves its market, and the stakes in its vault, where they are:  *)
(* the next run makes a market of its own.  A transaction of its may still *)
(* land, and lock_market, resolve and claim_payout are for whoever calls   *)
(* them (programs/pari-market), with a proof that anybody can fetch for    *)
(* the fixture and the day the market names.                               *)
(***************************************************************************)
EXTENDS LifecycleScripts

ByHand(Call) == ~Running /\ Call /\ UNCHANGED scriptVars

(* Time matters until the lock time has passed, and of what is published   *)
(* what is of the market's fixture.                                        *)
TimePasses == ByHand(created /\ now <= lock_ts /\ Tick)
Published(sn) == ByHand(created /\ sn.fixture_id = terms.fixture_id /\ PublishRoot(sn))
LockedByHand == ByHand(LockMarket)
ResolvedByHand == ByHand(\E sn \in Snapshots : Resolve(sn, 1, Some(2)))
ClaimedByHand(b) == ByHand(ClaimPayout(b))

AftermathNext ==
  \/ ScriptNext
  \/ TimePasses
  \/ \E sn \in Snapshots : Published(sn)
  \/ LockedByHand
  \/ ResolvedByHand
  \/ \E b \in Bettor : ClaimedByHand(b)

(* The clock runs, the oracle publishes what it serves, and whoever has a  *)
(* stake calls what is left to call.  Nothing is asked of the script.      *)
AftermathSpec ==
  /\ ScriptInit
  /\ [][AftermathNext]_allVars
  /\ WF_allVars(TimePasses)
  /\ \A sn \in Snapshots : WF_allVars(Published(sn))
  /\ WF_allVars(LockedByHand)
  /\ WF_allVars(ResolvedByHand)
  /\ \A b \in Bettor : WF_allVars(ClaimedByHand(b))

-----------------------------------------------------------------------------
(* No stake is lost with the script that made it, or took it: wherever it  *)
(* ends, between any two steps or with a transaction under way, the market *)
(* it leaves can still be locked, resolved and claimed, because its terms, *)
(* fixture, day, keys and operator, belong together (m3-lifecycle-verify   *)
(* builds them from the fixture it has fetched the proof of, 344-356).     *)
AbandonedStakesSettle ==
  \A b \in Bettor :
    ~Running /\ amount[b] > 0 ~> resolved /\ (Eligible(b) => claimed[b])
=============================================================================

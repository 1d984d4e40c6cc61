------------------------- MODULE MCLifecycleScripts -------------------------
(***************************************************************************)
(* An instance of LifecycleScripts and LifecycleAftermath for TLC.         *)
(***************************************************************************)
EXTENDS LifecycleAftermath, TLC

CONSTANTS w1, w2, other, deployer

(* Funded for every deposit of the plans, or, for devnet-verify, not yet.  *)
Funded == {(w1 :> n) @@ (w2 :> 12) @@ (other :> 1) : n \in {0, 24}}

Final(fixture, day, home, away) ==
  [fixture_id |-> fixture, epoch_day |-> day, stat |-> <<home, away>>]

(* The fixture's last snapshot, an earlier one of the same day with        *)
(* another winner, and the backup's.                                       *)
Results == {Final(1, 1, 2, 1), Final(1, 1, 0, 1), Final(2, 2, 0, 0)}

(* A window that holds the deposits, one that does not, a reversed range.  *)
Cadence(n, lo, hi, window) ==
  [nDeposits |-> n, sleepMin |-> lo, sleepMax |-> hi, lockWindow |-> window]
Cadences == {Cadence(3, 1, 1, 11), Cadence(2, 1, 2, 4), Cadence(1, 2, 1, 9)}
(* Clocks within the buffer, and one that is ahead by more.                *)
Ahead == {-1, 1, 3}
AllLockTimes == 0 .. 14
Markets == {MarketOf(sn.fixture_id, sn) : sn \in Results}
=============================================================================

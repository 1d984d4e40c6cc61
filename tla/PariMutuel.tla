----------------------------- MODULE PariMutuel -----------------------------
(***************************************************************************)
(* What a pari-mutuel market promises its bettors, with no vault, no       *)
(* clock, no oracle and no running totals: stakes are collected, the book  *)
(* is closed, a side wins, and each bettor is paid the share that the      *)
(* stakes themselves define.  The program PariMarket implements this.      *)
(***************************************************************************)
EXTENDS TokenSums

CONSTANT Bettor

VARIABLES
  phase,      \* "none", "open", "closed" or "settled"
  stake,      \* what each bettor has staked
  pick,       \* the side a bettor is on, "unknown" before its first stake
  winner,     \* the winning side, "unknown" before the market is settled
  paid,       \* the bettors that have been paid
  received    \* what each was paid

vars == <<phase, stake, pick, winner, paid, received>>

Init ==
  /\ phase = "none"
  /\ stake = [b \in Bettor |-> 0]
  /\ pick = [b \in Bettor |-> "unknown"]
  /\ winner = "unknown"
  /\ paid = {}
  /\ received = [b \in Bettor |-> 0]

Pool(s) == TotalOf(stake, {b \in Bettor : pick[b] = s})

(* A winner shares both pools in proportion to its stake, in whole base    *)
(* units; when nobody backed the winner everybody gets the stake back.     *)
Share(b) == (stake[b] * (Pool("yes") + Pool("no"))) \div Pool(winner)

Entitlement(b) == IF Pool(winner) = 0 THEN stake[b]
                  ELSE IF pick[b] = winner THEN Share(b) ELSE 0

Open ==
  /\ phase = "none"
  /\ phase' = "open"
  /\ UNCHANGED <<stake, pick, winner, paid, received>>

Stake(b) ==
  /\ phase = "open"
  /\ \E n \in U64 \ {0}, s \in {"yes", "no"} :
        /\ pick[b] \in {"unknown", s}
        /\ stake' = [stake EXCEPT ![b] = @ + n]
        /\ pick' = [pick EXCEPT ![b] = s]
  /\ UNCHANGED <<phase, winner, paid, received>>

Close ==
  /\ phase = "open"
  /\ phase' = "closed"
  /\ UNCHANGED <<stake, pick, winner, paid, received>>

Settle ==
  /\ phase = "closed"
  /\ phase' = "settled"
  /\ winner' \in {"yes", "no"}
  /\ UNCHANGED <<stake, pick, paid, received>>

Pay(b) ==
  /\ phase = "settled"
  /\ b \notin paid
  /\ Entitlement(b) > 0
  /\ paid' = paid \cup {b}
  /\ received' = [received EXCEPT ![b] = @ + Entitlement(b)]
  /\ UNCHANGED <<phase, stake, pick, winner>>

Next == Open \/ Close \/ Settle \/ \E b \in Bettor : Stake(b) \/ Pay(b)

Spec == Init /\ [][Next]_vars
=============================================================================

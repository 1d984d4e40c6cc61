--------------------------- MODULE MCDepositPanel ---------------------------
(***************************************************************************)
(* Instances of DepositPanel for TLC: wallets that can pay for a position, *)
(* only for a transaction, or that have no token account.                  *)
(***************************************************************************)
EXTENDS DepositPanel

CONSTANTS b1, b2

TwoAndOne == {[b \in Bettor |-> IF b = b1 THEN 2 ELSE 1]}
RichAndPoor == [b \in Bettor |-> IF b = b1 THEN 2 ELSE 1]
HomeScores == [fixture_id |-> 1, epoch_day |-> 1, stat_a_key |-> 1,
               stat_b_key |-> None, op |-> None,
               comparison |-> "GreaterThan", threshold |-> 0]
OneMarket == {HomeScores}
=============================================================================

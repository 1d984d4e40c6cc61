---------------------------- MODULE MCClaimPanel ----------------------------
(***************************************************************************)
(* Instances of ClaimPanel for TLC: two wallets with one unit each, and a  *)
(* market that ends either way.                                            *)
(***************************************************************************)
EXTENDS ClaimPanel

CONSTANTS b1, b2

OneEach == {[b \in Bettor |-> 1]}
Result(home, away) == [fixture_id |-> 1, epoch_day |-> 1, stat |-> <<home, away>>]
Results == {Result(1, 0), Result(0, 1)}
HomeScores == [fixture_id |-> 1, epoch_day |-> 1, stat_a_key |-> 1,
               stat_b_key |-> None, op |-> None,
               comparison |-> "GreaterThan", threshold |-> 0]
OneMarket == {HomeScores}
=============================================================================

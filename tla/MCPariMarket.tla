---------------------------- MODULE MCPariMarket ----------------------------
(***************************************************************************)
(* An instance of PariMarket for TLC.                                      *)
(***************************************************************************)
EXTENDS PariMarket, TLC

CONSTANTS b1, b2, b3

(* With one more unit that the mint may issue the bettors hold the whole   *)
(* supply; two winners of different stakes against a third leave a         *)
(* remainder.                                                              *)
TwoAndOne == {(b1 :> 2) @@ (b2 :> 1) @@ (b3 :> 0)}

-----------------------------------------------------------------------------
(* Markets of every kind.  Among the arguments are the two that no proof   *)
(* could resolve: a second stat without an operator, and an operator       *)
(* without a second stat.                                                  *)
HomeScores == [fixture_id |-> 1, epoch_day |-> 1, stat_a_key |-> 1,
               stat_b_key |-> None, op |-> None,
               comparison |-> "GreaterThan", threshold |-> 0]
AwayScores == [HomeScores EXCEPT !.stat_a_key = 2, !.comparison = "LessThan",
                                 !.threshold = 1]
Differential(op) == [fixture_id |-> 1, epoch_day |-> 1, stat_a_key |-> 1,
                     stat_b_key |-> Some(2), op |-> op,
                     comparison |-> "EqualTo", threshold |-> -1]

MarketTerms == {HomeScores, AwayScores, Differential(Some("Subtract")),
                Differential(Some("Add")), Differential(None),
                [HomeScores EXCEPT !.op = Some("Add")]}

(* Either result, and proofs of another fixture and of another day that    *)
(* give the other answer than a home win.                                  *)
HomeWins == [fixture_id |-> 1, epoch_day |-> 1, stat |-> <<1, 0>>]
AwayWins == [fixture_id |-> 1, epoch_day |-> 1, stat |-> <<0, 1>>]

MarketSnapshots ==
  {HomeWins, AwayWins, [AwayWins EXCEPT !.fixture_id = 2],
   [AwayWins EXCEPT !.epoch_day = 2]}
=============================================================================

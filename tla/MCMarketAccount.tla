-------------------------- MODULE MCMarketAccount --------------------------
(***************************************************************************)
(* Instances of MarketAccount for TLC: markets of every kind of predicate, *)
(* one bettor, and keys whose bytes differ from those of every other field.*)
(***************************************************************************)
EXTENDS MarketAccount, TLC

CONSTANTS b1

OneEach == {[b \in Bettor |-> 2]}
Mint == [i \in 1 .. 32 |-> 100 + i]
VaultAddress == [i \in 1 .. 32 |-> 150 + i]

Result(home, away) == [fixture_id |-> 70000, epoch_day |-> 600,
                       stat |-> <<home, away>>]
Results == {Result(1, 0), Result(0, 2)}

SingleStat == [fixture_id |-> 70000, epoch_day |-> 600, stat_a_key |-> 1,
               stat_b_key |-> None, op |-> None,
               comparison |-> "GreaterThan", threshold |-> 0]

TwoStatTerms ==
  {[SingleStat EXCEPT !.stat_b_key = Some(2), !.op = Some(e),
                      !.comparison = c, !.threshold = n] :
     e \in {"Add", "Subtract"}, c \in {"GreaterThan", "LessThan", "EqualTo"},
     n \in {-1, 300}}
AllTerms == TwoStatTerms \cup {SingleStat}
=============================================================================

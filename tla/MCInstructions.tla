--------------------------- MODULE MCInstructions ---------------------------
(***************************************************************************)
(* Instances of Instructions for TLC: markets of every kind of predicate,  *)
(* one bettor, and numbers whose bytes differ from those of other fields.  *)
(***************************************************************************)
EXTENDS Instructions

CONSTANTS b1

OneEach == {[b \in Bettor |-> 2]}
Mint == [i \in 1 .. 32 |-> 100 + i]
VaultAddress == [i \in 1 .. 32 |-> 150 + i]

Result(home, away) == [fixture_id |-> 70000, epoch_day |-> 600,
                       stat |-> <<home, away>>]
Results == {Result(1, 0), Result(0, 2)}
Hashes == [sn \in Results |-> [i \in 1 .. 32 |-> 200 + sn.stat[1]]]

SingleStat == [fixture_id |-> 70000, epoch_day |-> 600, stat_a_key |-> 1,
               stat_b_key |-> None, op |-> None,
               comparison |-> "GreaterThan", threshold |-> 0]

Predicate(e, c, n) ==
  [SingleStat EXCEPT !.stat_b_key = Some(2), !.op = Some(e), !.comparison = c,
                     !.threshold = n]
AllTerms == {SingleStat,
             Predicate("Subtract", "GreaterThan", -1), Predicate("Add", "EqualTo", 2),
             Predicate("Subtract", "LessThan", 300), Predicate("Add", "GreaterThan", 300)}
=============================================================================

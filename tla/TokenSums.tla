------------------------------ MODULE TokenSums ------------------------------
(***************************************************************************)
(* Sums of token amounts.                                                  *)
(*                                                                         *)
(* The program keeps running totals (Market.yes_pool, Market.no_pool, the  *)
(* vault's balance) of amounts it also keeps one by one (Position.amount,  *)
(* a bettor's token account).  To say that a total is the sum of the parts *)
(* a sum over a finite set is needed.  Amounts are natural numbers of base *)
(* units, so the sum is defined by counting: every owner holds the units   *)
(* numbered 1 .. f[owner], and the total is the number of units held.      *)
(* Counting needs no recursion, so facts about it can be proved.           *)
(***************************************************************************)
EXTENDS Integers, FiniteSets

CONSTANT MaxU64        \* largest value of the code's u64 (2^64 - 1)

ASSUME MaxU64Assumption == MaxU64 \in Nat

U64 == 0 .. MaxU64

(* The base units that the members of S hold when b holds f[b] of them.    *)
Units(f, S) == {u \in S \X (1 .. MaxU64) : u[2] <= f[u[1]]}

(* The amount the members of S hold together.                              *)
TotalOf(f, S) == Cardinality(Units(f, S))
=============================================================================

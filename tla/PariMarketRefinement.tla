------------------------ MODULE PariMarketRefinement ------------------------
(***************************************************************************)
(* The program implements the pari-mutuel market.  The mapping forgets the *)
(* pools and the vault: that the shares computed from the running totals   *)
(* are the shares the stakes define, and that the vault can always pay     *)
(* them, is what the refinement checks.                                    *)
(***************************************************************************)
EXTENDS PariMarket

Phase == IF ~created THEN "none"
         ELSE IF resolved THEN "settled"
         ELSE IF locked THEN "closed" ELSE "open"

Pick == [b \in Bettor |-> IF opened[b] THEN side[b] ELSE Unknown]

Paid == {b \in Bettor : claimed[b]}

Ideal == INSTANCE PariMutuel WITH
           phase <- Phase, stake <- amount, pick <- Pick, winner <- outcome,
           paid <- Paid, received <- received

(* Every step of the program is a step of the ideal market or none of its  *)
(* business: stakes only while it is open, one outcome, and one payment to *)
(* each bettor of exactly its share of what was staked.                    *)
ImplementsPariMutuel == Ideal!Spec
=============================================================================

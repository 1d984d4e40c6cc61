----------------------------- MODULE MCTxButton -----------------------------
(***************************************************************************)
(* Instances of TxButton for TLC.                                          *)
(***************************************************************************)
EXTENDS TxButton

CONSTANTS w1, w2, t1, t2

(* Of two wallets that differ in nothing else, w1 is the one that may be   *)
(* connected when the page is loaded.                                      *)
FirstInit == Init /\ wallet # w2
FirstSpec == FirstInit /\ [][Next]_vars /\ Fairness
=============================================================================

---------------------------- MODULE MCMarketPage ----------------------------
(***************************************************************************)
(* Instances of MarketPage for TLC.                                        *)
(***************************************************************************)
EXTENDS MarketPage

CONSTANTS r1, r2, r3
=============================================================================

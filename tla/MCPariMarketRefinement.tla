----------------------- MODULE MCPariMarketRefinement -----------------------
(***************************************************************************)
(* The instances of PariMarket, with what it is to implement.              *)
(***************************************************************************)
EXTENDS MCPariMarket, PariMarketRefinement
=============================================================================

--------------------------- MODULE MCMarketRoute ----------------------------
(***************************************************************************)
(* An instance of MarketRoute for TLC: an official market and two that     *)
(* anybody else has created, one of them on the canonical mint.            *)
(***************************************************************************)
EXTENDS MarketRoute, TLC

CONSTANTS usdc, fake, junk

Mints == (1 :> usdc) @@ (2 :> usdc) @@ (3 :> fake)
Pinned == {{}, {1}, {junk}}

(* A memo alone; a compute budget before the program's instruction.        *)
Life == << <<"CREATE">>, <<"other">>, <<"other", "DEPOSIT">> >>
=============================================================================

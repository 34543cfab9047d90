---------------------------- MODULE MCPtbBuilder ----------------------------
(***************************************************************************)
(* A wallet with two coins, which are also its owned objects, and one shared *)
(* object.                                                                   *)
(***************************************************************************)
EXTENDS PtbBuilder

CONSTANTS coin1, coin2, shared

MCOrder == <<coin1, coin2>>
=============================================================================

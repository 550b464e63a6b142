---------------------------- MODULE MCDiscovery ----------------------------
(***************************************************************************)
(* A cluster of three nodes, of which one is asked for a DKG, next to one  *)
(* host of a self-hosted process.                                          *)
(***************************************************************************)
EXTENDS Discovery

CONSTANTS a, b, c, s
=============================================================================

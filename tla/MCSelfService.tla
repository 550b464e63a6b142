--------------------------- MODULE MCSelfService ---------------------------
(***************************************************************************)
(* Small instances of SelfService: two calls, or one, of the cluster of    *)
(* three nodes that the code has, alone on its network or next to the host *)
(* f of another process.                                                   *)
(***************************************************************************)
EXTENDS SelfService

CONSTANTS c1, c2, f
=============================================================================

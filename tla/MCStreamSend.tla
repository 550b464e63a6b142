---------------------------- MODULE MCStreamSend ----------------------------
(***************************************************************************)
(* Two messages, three attempts each, to a node on which two services of   *)
(* one protocol come and go.                                               *)
(***************************************************************************)
EXTENDS StreamSend

CONSTANTS m1, m2, s1, s2
=============================================================================

--------------------------- MODULE MessageDelivery ---------------------------
(***************************************************************************)
(* What the streams between two peers promise for the messages of one      *)
(* protocol: a message goes to the service that is registered at one       *)
(* moment while it is being sent, is read by it at most once, or is lost   *)
(* and never sent again.  These are the actions Send, SendFails and Handle *)
(* of TssSession, for one sender and one receiver.                         *)
(***************************************************************************)
CONSTANTS
  None,         \* no service
  Messages,     \* messages that the sender may send
  Services      \* services of the receiver that use the protocol

VARIABLES
  handler,      \* the registered service
  box,          \* box[m]: how far message m has got
  to            \* to[m]: the service that m is for

vars == <<handler, box, to>>

Init ==
  /\ handler = None
  /\ box = [m \in Messages |-> "none"]
  /\ to  = [m \in Messages |-> None]

(* The receiver creates a service or ends one.                              *)
Register ==
  /\ handler' \in Services \cup {None}
  /\ UNCHANGED <<box, to>>

Ask(m) ==
  /\ box[m] = "none"
  /\ box' = [box EXCEPT ![m] = "pending"]
  /\ UNCHANGED <<handler, to>>

Send(m) ==
  /\ box[m] = "pending"
  /\ handler # None
  /\ box' = [box EXCEPT ![m] = "sent"]
  /\ to'  = [to EXCEPT ![m] = handler]
  /\ UNCHANGED handler

SendFails(m) ==
  /\ box[m] = "pending"
  /\ box' = [box EXCEPT ![m] = "lost"]
  /\ UNCHANGED <<handler, to>>

(* A connection breaks with all that is on it.                              *)
Lose(L) ==
  /\ \A m \in L : box[m] = "sent"
  /\ box' = [m \in Messages |-> IF m \in L THEN "lost" ELSE box[m]]
  /\ UNCHANGED <<handler, to>>

Handle(m) ==
  /\ box[m] = "sent"
  /\ box' = [box EXCEPT ![m] = "read"]
  /\ UNCHANGED <<handler, to>>

Next ==
  \/ Register
  \/ \E m \in Messages : Ask(m) \/ Send(m) \/ SendFails(m) \/ Handle(m)
  \/ \E L \in SUBSET Messages : Lose(L)

Spec == Init /\ [][Next]_vars
=============================================================================

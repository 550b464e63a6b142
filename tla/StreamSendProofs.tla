-------------------------- MODULE StreamSendProofs --------------------------
(***************************************************************************)
(* Proofs about StreamSend, for any messages, services, number of attempts *)
(* and number of broken connections.                                       *)
(***************************************************************************)
EXTENDS StreamSend, TLAPS

-----------------------------------------------------------------------------
(* The inductive invariant.                                                 *)

(* Attempts are made in order, and s is the stream of the latest or nil.    *)
AttemptInv ==
  \A m \in Messages :
    /\ sender[m] = "idle" => attempt[m] = 0
    /\ sender[m] \in {"written", "closed", "failed"} => attempt[m] = Attempts
    /\ sender[m] \in {"written", "closed"} => last[m] # 0
    /\ last[m] \in {0, attempt[m]}

(* A Handle is there for attempts that were made, and for the stream in s.  *)
HandleInv ==
  \A m \in Messages, k \in 1 .. Attempts :
    /\ k > attempt[m] => handle[m][k] = "none"
    /\ k = last[m] => handle[m][k] # "none"

(* Only the stream that was closed is read.                                 *)
ReadInv ==
  \A m \in Messages, k \in 1 .. Attempts :
    handle[m][k] = "read" => k = last[m] /\ sender[m] = "closed"

IInv == TypeOK /\ AttemptInv /\ HandleInv /\ ReadInv

(* The invariant holds when nothing has been started.                       *)
LEMMA InitInv == Init => IInv
BY StreamAssumption
DEF Init, IInv, TypeOK, AttemptInv, HandleInv, ReadInv

(* The receiver registers and removes services.                             *)
LEMMA RegisterInv ==
  ASSUME IInv, RemoveStreamHandler \/ \E s \in Services : SetStreamHandler(s)
  PROVE  IInv'
BY DEF IInv, TypeOK, AttemptInv, HandleInv, ReadInv, SetStreamHandler,
       RemoveStreamHandler

(* A stream is read.                                                        *)
LEMMA HandleStepInv ==
  ASSUME IInv, NEW m \in Messages, NEW k \in 1 .. Attempts, Handle(m, k)
  PROVE  IInv'
<1>1. TypeOK'
  BY DEF IInv, TypeOK, Handle
<1>2. AttemptInv' /\ HandleInv' /\ ReadInv'
  BY DEF IInv, TypeOK, AttemptInv, HandleInv, ReadInv, Handle
<1> QED
  BY <1>1, <1>2 DEF IInv

(* send is called, and it opens streams.                                    *)
LEMMA OpenInv ==
  ASSUME IInv, NEW m \in Messages, MustSend(m) \/ NewStream(m) \/ NewStreamFails(m)
  PROVE  IInv'
<1>1. CASE MustSend(m)
  BY <1>1, StreamAssumption DEF IInv, TypeOK, AttemptInv, HandleInv, ReadInv, MustSend
<1>2. CASE NewStream(m)
  <2> DEFINE k == attempt[m] + 1
  <2>1. /\ sender[m] = "opening" /\ handler # None
        /\ attempt' = [attempt EXCEPT ![m] = k]
        /\ last'    = [last EXCEPT ![m] = k]
        /\ handle'  = [handle EXCEPT ![m][k] = "reading"]
        /\ dest'    = [dest EXCEPT ![m][k] = handler]
        /\ UNCHANGED <<handler, sender, breaks>>
    BY <1>2 DEF NewStream
  <2>2. k \in 1 .. Attempts /\ attempt[m] \in 0 .. Attempts
    BY <1>2, StreamAssumption DEF NewStream, IInv, TypeOK
  <2>3. TypeOK'
    BY <2>1, <2>2 DEF IInv, TypeOK
  <2>4. AttemptInv'
    BY <2>1, <2>2 DEF IInv, TypeOK, AttemptInv
  <2>5. /\ handle'[m][k] = "reading"
        /\ \A j \in 1 .. Attempts : j # k => handle'[m][j] = handle[m][j]
        /\ \A o \in Messages, j \in 1 .. Attempts : o # m =>
             /\ handle'[o][j] = handle[o][j]
             /\ attempt'[o] = attempt[o] /\ last'[o] = last[o]
        /\ attempt'[m] = k /\ last'[m] = k
    BY <2>1, <2>2 DEF IInv, TypeOK
  <2>6. HandleInv' /\ ReadInv'
    BY <2>1, <2>2, <2>5 DEF IInv, HandleInv, ReadInv
  <2> QED
    BY <2>3, <2>4, <2>6 DEF IInv
<1>3. CASE NewStreamFails(m)
  <2>1. attempt[m] + 1 \in 1 .. Attempts /\ attempt[m] \in 0 .. Attempts
    BY <1>3, StreamAssumption DEF NewStreamFails, IInv, TypeOK
  <2>2. TypeOK'
    BY <1>3, <2>1, StreamAssumption DEF NewStreamFails, IInv, TypeOK
  <2>3. AttemptInv' /\ HandleInv' /\ ReadInv'
    BY <1>3, <2>1 DEF NewStreamFails, IInv, TypeOK, AttemptInv, HandleInv, ReadInv
  <2> QED
    BY <2>2, <2>3 DEF IInv
<1> QED
  BY <1>1, <1>2, <1>3

(* send returns, writes or closes.                                          *)
LEMMA WriteInv ==
  ASSUME IInv, NEW m \in Messages, GiveUp(m) \/ Write(m) \/ Close(m)
  PROVE  IInv'
<1>1. /\ sender[m] \in {"opening", "written"}
      /\ attempt[m] = Attempts
      /\ \/ sender' = [sender EXCEPT ![m] = "failed"]
         \/ /\ last[m] # 0
            /\ \E c \in {"written", "closed"} : sender' = [sender EXCEPT ![m] = c]
      /\ UNCHANGED <<handler, attempt, last, handle, dest, breaks>>
  BY DEF GiveUp, Write, Close, IInv, AttemptInv
<1>2. TypeOK'
  BY <1>1 DEF IInv, TypeOK
<1>3. AttemptInv' /\ HandleInv' /\ ReadInv'
  BY <1>1 DEF IInv, TypeOK, AttemptInv, HandleInv, ReadInv
<1> QED
  BY <1>2, <1>3 DEF IInv

(* The connection breaks.                                                   *)
LEMMA DisconnectInv ==
  ASSUME IInv, Disconnect
  PROVE  IInv'
<1>1. TypeOK'
  <2>1. \A m \in Messages, k \in 1 .. Attempts :
          handle[m][k] \in {"none", "reading", "read", "error"}
    BY DEF IInv, TypeOK
  <2>2. handle' \in [Messages -> [1 .. Attempts -> {"none", "reading", "read", "error"}]]
    BY <2>1 DEF Disconnect
  <2>3. breaks' \in Nat
    BY DEF Disconnect, IInv, TypeOK
  <2> QED
    BY <2>2, <2>3 DEF IInv, TypeOK, Disconnect
<1>2. AttemptInv' /\ HandleInv' /\ ReadInv'
  BY DEF IInv, TypeOK, AttemptInv, HandleInv, ReadInv, Disconnect
<1> QED
  BY <1>1, <1>2 DEF IInv

(* The invariant is inductive.                                              *)
LEMMA NextInv == IInv /\ [Next]_vars => IInv'
<1> SUFFICES ASSUME IInv, [Next]_vars PROVE IInv'
  OBVIOUS
<1>1. CASE UNCHANGED vars
  BY <1>1 DEF vars, IInv, TypeOK, AttemptInv, HandleInv, ReadInv
<1>2. CASE Next
  BY <1>2, RegisterInv, HandleStepInv, OpenInv, WriteInv, DisconnectInv
  DEF Next, Sender, Receiver
<1> QED
  BY <1>1, <1>2

(* The inductive invariant holds in every reachable state.                  *)
THEOREM Invariance == Spec => []IInv
BY InitInv, NextInv, PTL DEF Spec

-----------------------------------------------------------------------------
(* Every variable keeps its type, for any number of attempts of send.       *)
THEOREM TypeCorrect == Spec => []TypeOK
<1>1. IInv => TypeOK
  BY DEF IInv
<1> QED
  BY <1>1, Invariance, PTL

(***************************************************************************)
(* Of the Handles that one send has started, at whatever services, only    *)
(* the one on the stream of the last attempt reads a message, and only     *)
(* after send has closed that stream.                                      *)
(***************************************************************************)
THEOREM OnlyLastRead == Spec => []OneReader
<1>1. IInv => OneReader
  <2> SUFFICES ASSUME IInv, NEW m \in Messages, NEW k \in 1 .. Attempts,
                      handle[m][k] = "read"
               PROVE  k = Attempts /\ sender[m] = "closed"
    BY DEF OneReader
  <2>1. k = last[m] /\ sender[m] = "closed"
    BY DEF IInv, ReadInv
  <2> QED
    BY <2>1 DEF IInv, AttemptInv
<1> QED
  BY <1>1, Invariance, PTL

-----------------------------------------------------------------------------
(* The refinement.                                                          *)

(* MustSend asks for the message to be sent.                                *)
LEMMA AskStep ==
  ASSUME IInv, IInv', NEW m \in Messages, MustSend(m)
  PROVE  MD!Ask(m)
<1>1. \A o \in Messages : ToOf(o)' = ToOf(o)
  BY DEF MustSend, ToOf
<1>2. \A o \in Messages : o # m => BoxOf(o)' = BoxOf(o)
  BY DEF MustSend, BoxOf, IInv, TypeOK
<1>3. BoxOf(m) = "none"
  BY DEF MustSend, BoxOf
<1>4. BoxOf(m)' = "pending"
  BY StreamAssumption DEF MustSend, BoxOf, IInv, TypeOK, AttemptInv
<1>5. BoxBar[m] = "none" /\ BoxBar' = [BoxBar EXCEPT ![m] = "pending"]
  BY <1>2, <1>3, <1>4 DEF BoxBar
<1>6. ToBar' = ToBar
  BY <1>1 DEF ToBar
<1> QED
  BY <1>5, <1>6 DEF MD!Ask, MustSend

(* The stream of the last attempt is the delivery; those before it are      *)
(* nothing that the receiver will read.                                     *)
LEMMA SendStep ==
  ASSUME IInv, IInv', NEW m \in Messages, NewStream(m)
  PROVE  MD!Send(m) \/ UNCHANGED <<handler, BoxBar, ToBar>>
<1> DEFINE k == attempt[m] + 1
<1>1. /\ sender[m] = "opening" /\ handler # None /\ attempt[m] < Attempts
      /\ attempt' = [attempt EXCEPT ![m] = k]
      /\ last'    = [last EXCEPT ![m] = k]
      /\ handle'  = [handle EXCEPT ![m][k] = "reading"]
      /\ dest'    = [dest EXCEPT ![m][k] = handler]
      /\ handler' = handler /\ sender' = sender
  BY DEF NewStream
<1>2. k \in 1 .. Attempts /\ attempt[m] \in 0 .. Attempts /\ Attempts \in Nat
  BY <1>1, StreamAssumption DEF IInv, TypeOK
<1>3. \A o \in Messages : o # m => BoxOf(o)' = BoxOf(o) /\ ToOf(o)' = ToOf(o)
  BY <1>1 DEF BoxOf, ToOf, IInv, TypeOK
<1>4. BoxOf(m) = "pending" /\ ToOf(m) = None
  BY <1>1, <1>2 DEF BoxOf, ToOf
<1>5. /\ attempt'[m] = k /\ last'[m] = k /\ sender'[m] = "opening"
      /\ handle'[m][k] = "reading" /\ dest'[m][k] = handler
  BY <1>1, <1>2 DEF IInv, TypeOK
<1>6. CASE k < Attempts
  <2>1. BoxOf(m)' = "pending" /\ ToOf(m)' = None
    BY <1>5, <1>6, <1>2 DEF BoxOf, ToOf
  <2> QED
    BY <2>1, <1>3, <1>4, <1>1 DEF BoxBar, ToBar
<1>7. CASE k = Attempts
  <2>1. BoxOf(m)' = "sent" /\ ToOf(m)' = handler
    BY <1>5, <1>7, <1>2 DEF BoxOf, ToOf
  <2>2. BoxBar' = [BoxBar EXCEPT ![m] = "sent"] /\ BoxBar[m] = "pending"
    BY <2>1, <1>3, <1>4 DEF BoxBar
  <2>3. ToBar' = [ToBar EXCEPT ![m] = handler]
    BY <2>1, <1>3 DEF ToBar
  <2> QED
    BY <2>2, <2>3, <1>1 DEF MD!Send
<1> QED
  BY <1>2, <1>6, <1>7

(* A failed attempt loses the message if it is the last one.                *)
LEMMA SendFailsStep ==
  ASSUME IInv, IInv', NEW m \in Messages, NewStreamFails(m)
  PROVE  MD!SendFails(m) \/ UNCHANGED <<handler, BoxBar, ToBar>>
<1>1. /\ sender[m] = "opening" /\ attempt[m] < Attempts
      /\ attempt' = [attempt EXCEPT ![m] = attempt[m] + 1]
      /\ last'    = [last EXCEPT ![m] = 0]
      /\ handler' = handler /\ sender' = sender /\ handle' = handle /\ dest' = dest
  BY DEF NewStreamFails
<1>2. attempt[m] \in 0 .. Attempts /\ Attempts \in Nat
  BY StreamAssumption DEF IInv, TypeOK
<1>3. \A o \in Messages : o # m => BoxOf(o)' = BoxOf(o)
  BY <1>1 DEF BoxOf, IInv, TypeOK
<1>4. attempt'[m] = attempt[m] + 1 /\ last'[m] = 0
  BY <1>1 DEF IInv, TypeOK
<1>5. BoxOf(m) = "pending"
  BY <1>1, <1>2 DEF BoxOf
<1>6. \A o \in Messages : ToOf(o)' = ToOf(o)
  BY <1>1, <1>2, <1>4 DEF ToOf, IInv, TypeOK
<1>7. ToBar' = ToBar
  BY <1>6 DEF ToBar
<1>8. BoxOf(m)' \in {"pending", "lost"}
  BY <1>1, <1>2, <1>4 DEF BoxOf
<1>9. CASE BoxOf(m)' = "pending"
  BY <1>9, <1>3, <1>5, <1>7, <1>1 DEF BoxBar
<1>10. CASE BoxOf(m)' = "lost"
  BY <1>10, <1>3, <1>5, <1>7, <1>1 DEF BoxBar, MD!SendFails
<1> QED
  BY <1>8, <1>9, <1>10

(* Writing and closing a stream is seen only when the other end reads it.   *)
LEMMA WriteStep ==
  ASSUME IInv, IInv', NEW m \in Messages, GiveUp(m) \/ Write(m) \/ Close(m)
  PROVE  UNCHANGED <<handler, BoxBar, ToBar>>
<1>1. /\ sender[m] # "idle"
      /\ \E c \in {"written", "closed", "failed"} : sender' = [sender EXCEPT ![m] = c]
      /\ UNCHANGED <<handler, attempt, last, handle, dest>>
  BY DEF GiveUp, Write, Close
<1>2. \A o \in Messages : (sender'[o] = "idle") <=> (sender[o] = "idle")
  BY <1>1 DEF IInv, TypeOK
<1>3. \A o \in Messages : BoxOf(o)' = BoxOf(o) /\ ToOf(o)' = ToOf(o)
  BY <1>1, <1>2 DEF BoxOf, ToOf
<1> QED
  BY <1>1, <1>3 DEF BoxBar, ToBar

(* The read of a closed stream is the read of the message.                  *)
LEMMA HandleStep ==
  ASSUME IInv, IInv', NEW m \in Messages, NEW k \in 1 .. Attempts, Handle(m, k)
  PROVE  MD!Handle(m)
<1>1. /\ handle[m][k] = "reading" /\ k = last[m] /\ sender[m] = "closed"
      /\ handle' = [handle EXCEPT ![m][k] = "read"]
      /\ UNCHANGED <<handler, sender, attempt, last, dest>>
  BY DEF Handle
<1>2. attempt[m] = Attempts /\ last[m] # 0 /\ Attempts \in Nat
  BY <1>1, StreamAssumption DEF IInv, AttemptInv
<1>3. handle'[m][k] = "read" /\ \A o \in Messages : o # m => handle'[o] = handle[o]
  BY <1>1 DEF IInv, TypeOK
<1>4. BoxOf(m) = "sent" /\ BoxOf(m)' = "read"
  BY <1>1, <1>2, <1>3 DEF BoxOf
<1>5. \A o \in Messages : o # m => BoxOf(o)' = BoxOf(o)
  BY <1>1, <1>3 DEF BoxOf
<1>6. \A o \in Messages : ToOf(o)' = ToOf(o)
  BY <1>1 DEF ToOf
<1> QED
  BY <1>1, <1>4, <1>5, <1>6 DEF BoxBar, ToBar, MD!Handle

(* A broken connection loses what was sent and not read.                    *)
LEMMA LoseStep ==
  ASSUME IInv, IInv', Disconnect
  PROVE  MD!Lose({m \in Messages : BoxOf(m) = "sent"})
<1> DEFINE L == {m \in Messages : BoxOf(m) = "sent"}
<1>1. UNCHANGED <<handler, sender, attempt, last, dest>>
  BY DEF Disconnect
<1>2. \A m \in Messages, k \in 1 .. Attempts :
        handle'[m][k] = IF handle[m][k] = "reading" THEN "error" ELSE handle[m][k]
  BY DEF Disconnect
<1>3. \A m \in Messages : last[m] \in 0 .. Attempts
  BY DEF IInv, TypeOK
<1>4. \A m \in Messages : last[m] # 0 =>
        handle'[m][last[m]] =
          IF handle[m][last[m]] = "reading" THEN "error" ELSE handle[m][last[m]]
  BY <1>2, <1>3, StreamAssumption
<1>5. \A m \in Messages :
        BoxOf(m)' = IF BoxOf(m) = "sent" THEN "lost" ELSE BoxOf(m)
  BY <1>1, <1>4 DEF BoxOf
<1>6. \A m \in Messages : ToOf(m)' = ToOf(m)
  BY <1>1 DEF ToOf
<1>7. /\ \A m \in L : BoxBar[m] = "sent"
      /\ BoxBar' = [m \in Messages |-> IF m \in L THEN "lost" ELSE BoxBar[m]]
  BY <1>5 DEF BoxBar
<1>8. ToBar' = ToBar
  BY <1>6 DEF ToBar
<1> QED
  BY <1>1, <1>7, <1>8 DEF MD!Lose

(* Services that come and go leave the messages alone.                      *)
LEMMA RegisterStep ==
  ASSUME RemoveStreamHandler \/ \E s \in Services : SetStreamHandler(s)
  PROVE  MD!Register
<1>1. /\ handler' \in Services \cup {None}
      /\ UNCHANGED <<sender, attempt, last, handle, dest>>
  BY DEF RemoveStreamHandler, SetStreamHandler
<1>2. UNCHANGED <<BoxBar, ToBar>>
  BY <1>1 DEF BoxBar, ToBar, BoxOf, ToOf
<1> QED
  BY <1>1, <1>2 DEF MD!Register

(***************************************************************************)
(* send, with its attempts, the streams that it leaves open and the        *)
(* Handles that it starts, delivers a message at most once, to the service *)
(* that the last attempt has met, for any number of attempts and breaks.   *)
(***************************************************************************)
THEOREM DeliversOnce == Spec => ImplementsDelivery
<1>1. Init => MD!Init
  BY StreamAssumption DEF Init, MD!Init, BoxBar, ToBar, BoxOf, ToOf
<1>2. IInv /\ IInv' /\ [Next]_vars => [MD!Next]_(MD!vars)
  <2> SUFFICES ASSUME IInv, IInv', [Next]_vars
               PROVE  MD!Next \/ UNCHANGED <<handler, BoxBar, ToBar>>
    BY DEF MD!vars
  <2>1. CASE UNCHANGED vars
    BY <2>1 DEF vars, BoxBar, ToBar, BoxOf, ToOf
  <2>2. CASE RemoveStreamHandler \/ \E s \in Services : SetStreamHandler(s)
    BY <2>2, RegisterStep DEF MD!Next
  <2>3. CASE Disconnect
    <3>1. {m \in Messages : BoxOf(m) = "sent"} \in SUBSET Messages
      OBVIOUS
    <3> QED
      BY <2>3, <3>1, LoseStep DEF MD!Next
  <2>4. ASSUME NEW m \in Messages, MustSend(m) \/ Sender(m) \/ Receiver(m)
        PROVE  MD!Next \/ UNCHANGED <<handler, BoxBar, ToBar>>
    <3>1. CASE MustSend(m)
      BY <3>1, AskStep DEF MD!Next
    <3>2. CASE NewStream(m)
      BY <3>2, SendStep DEF MD!Next
    <3>3. CASE NewStreamFails(m)
      BY <3>3, SendFailsStep DEF MD!Next
    <3>4. CASE GiveUp(m) \/ Write(m) \/ Close(m)
      BY <3>4, WriteStep
    <3>5. CASE Receiver(m)
      BY <3>5, HandleStep DEF Receiver, MD!Next
    <3> QED
      BY <2>4, <3>1, <3>2, <3>3, <3>4, <3>5 DEF Sender
  <2> QED
    BY <2>1, <2>2, <2>3, <2>4 DEF Next
<1> QED
  BY <1>1, <1>2, Invariance, PTL DEF Spec, ImplementsDelivery, MD!Spec
=============================================================================

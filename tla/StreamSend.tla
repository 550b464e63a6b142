----------------------------- MODULE StreamSend -----------------------------
(***************************************************************************)
(* peer/node.go, send, in its single steps, and the Handle goroutines that *)
(* it starts at the receiver (service/*.go).  TssSession has one step for  *)
(* all of this.                                                            *)
(*                                                                         *)
(* send opens a stream timeRetryCreateStream times.  It does not stop when *)
(* it has one: every stream that it gets is open until the connection ends *)
(* and keeps a Handle of the receiver in io.ReadAll, and only the stream   *)
(* of the last attempt is written and closed.                              *)
(*                                                                         *)
(* The library of the sender may send several messages at the same time,   *)
(* each in a goroutine of its own.                                         *)
(***************************************************************************)
EXTENDS Naturals

CONSTANTS
  None,          \* no service
  Messages,      \* messages that MustSend is called with
  Services,      \* services of the receiver that use the protocol
  Attempts,      \* timeRetryCreateStream
  MaxBreaks      \* bound: how often the connection may break; after that the
                 \* network works

ASSUME StreamAssumption ==
  /\ Attempts \in Nat /\ Attempts >= 1
  /\ MaxBreaks \in Nat
  /\ None \notin Services

VARIABLES
  handler,    \* the service that is registered for the protocol
  sender,     \* sender[m]: where the goroutine that sends m is
  attempt,    \* attempt[m]: how often NewStream has returned
  last,       \* last[m]: the attempt whose stream is in s, 0 for nil
  handle,     \* handle[m][k]: the Handle on the stream of attempt k
  dest,       \* dest[m][k]: the service that this Handle belongs to
  breaks      \* how often the connection has broken

vars == <<handler, sender, attempt, last, handle, dest, breaks>>

Init ==
  /\ handler = None
  /\ sender  = [m \in Messages |-> "idle"]
  /\ attempt = [m \in Messages |-> 0]
  /\ last    = [m \in Messages |-> 0]
  /\ handle  = [m \in Messages |-> [k \in 1 .. Attempts |-> "none"]]
  /\ dest    = [m \in Messages |-> [k \in 1 .. Attempts |-> None]]
  /\ breaks  = 0

-----------------------------------------------------------------------------
(* The receiver.                                                            *)

(* A service is created and takes the place of any other.                   *)
SetStreamHandler(s) ==
  /\ handler' = s
  /\ UNCHANGED <<sender, attempt, last, handle, dest, breaks>>

(* A service ends; streams that are open already stay with it.              *)
RemoveStreamHandler ==
  /\ handler' = None
  /\ UNCHANGED <<sender, attempt, last, handle, dest, breaks>>

(* io.ReadAll returns at the end of the stream, and the message is added to *)
(* the library.                                                             *)
Handle(m, k) ==
  /\ handle[m][k] = "reading"
  /\ k = last[m] /\ sender[m] = "closed"
  /\ handle' = [handle EXCEPT ![m][k] = "read"]
  /\ UNCHANGED <<handler, sender, attempt, last, dest, breaks>>

-----------------------------------------------------------------------------
(* The sender.                                                              *)
MustSend(m) ==
  /\ sender[m] = "idle"
  /\ sender' = [sender EXCEPT ![m] = "opening"]
  /\ UNCHANGED <<handler, attempt, last, handle, dest, breaks>>

(* Mutant: the stream of the attempt before is closed, and its Handle reads *)
(* an empty message.                                                        *)
NewStreamClosesOld(m) ==
  LET k == attempt[m] + 1
  IN  /\ sender[m] = "opening"
      /\ attempt[m] < Attempts
      /\ handler # None
      /\ attempt' = [attempt EXCEPT ![m] = k]
      /\ last'    = [last EXCEPT ![m] = k]
      /\ handle'  = [handle EXCEPT ![m] =
                      [j \in 1 .. Attempts |->
                        IF j = k THEN "reading"
                        ELSE IF @[j] = "reading" THEN "read" ELSE @[j]]]
      /\ dest'    = [dest EXCEPT ![m][k] = handler]
      /\ UNCHANGED <<handler, sender, breaks>>

(* host.NewStream finds a service of the protocol, whose Handle is started. *)
NewStream(m) ==
  LET k == attempt[m] + 1
  IN  /\ sender[m] = "opening"
      /\ attempt[m] < Attempts
      /\ handler # None
      /\ attempt' = [attempt EXCEPT ![m] = k]
      /\ last'    = [last EXCEPT ![m] = k]
      /\ handle'  = [handle EXCEPT ![m][k] = "reading"]
      /\ dest'    = [dest EXCEPT ![m][k] = handler]
      /\ UNCHANGED <<handler, sender, breaks>>

(* Mutant: a failed attempt keeps the stream of an earlier one, and the     *)
(* loop ends there.                                                         *)
NewStreamKeepsOld(m) ==
  /\ sender[m] = "opening"
  /\ attempt[m] < Attempts
  /\ handler = None
  /\ attempt' = [attempt EXCEPT ![m] = Attempts]
  /\ UNCHANGED <<handler, sender, last, handle, dest, breaks>>

(* Mutant: the loop makes one attempt more.                                 *)
NewStreamFailsAgain(m) ==
  /\ sender[m] = "opening"
  /\ attempt[m] <= Attempts
  /\ handler = None \/ breaks < MaxBreaks
  /\ attempt' = [attempt EXCEPT ![m] = @ + 1]
  /\ last'    = [last EXCEPT ![m] = 0]
  /\ UNCHANGED <<handler, sender, handle, dest, breaks>>

(* Nobody has registered the protocol, or the network is not there: s is    *)
(* nil, whatever the attempts before have got; send sleeps and goes on.     *)
NewStreamFails(m) ==
  /\ sender[m] = "opening"
  /\ attempt[m] < Attempts
  /\ handler = None \/ breaks < MaxBreaks
  /\ attempt' = [attempt EXCEPT ![m] = @ + 1]
  /\ last'    = [last EXCEPT ![m] = 0]
  /\ UNCHANGED <<handler, sender, handle, dest, breaks>>

(* s == nil: send returns the error, MustSend logs it.                      *)
GiveUp(m) ==
  /\ sender[m] = "opening"
  /\ attempt[m] = Attempts
  /\ last[m] = 0
  /\ sender' = [sender EXCEPT ![m] = "failed"]
  /\ UNCHANGED <<handler, attempt, last, handle, dest, breaks>>

(* s.Write fails if the connection has broken since; send returns then      *)
(* without closing anything.                                                *)
Write(m) ==
  /\ sender[m] = "opening"
  /\ attempt[m] = Attempts
  /\ last[m] # 0
  /\ sender' = [sender EXCEPT ![m] =
                 IF handle[m][last[m]] = "reading" THEN "written" ELSE "failed"]
  /\ UNCHANGED <<handler, attempt, last, handle, dest, breaks>>

(* Mutant: send returns without closing the stream.                         *)
NoClose(m) ==
  /\ sender[m] = "written"
  /\ sender' = [sender EXCEPT ![m] = "failed"]
  /\ UNCHANGED <<handler, attempt, last, handle, dest, breaks>>

(* s.Close.                                                                 *)
Close(m) ==
  /\ sender[m] = "written"
  /\ sender' = [sender EXCEPT ![m] =
                 IF handle[m][last[m]] = "reading" THEN "closed" ELSE "failed"]
  /\ UNCHANGED <<handler, attempt, last, handle, dest, breaks>>

-----------------------------------------------------------------------------
(* The connection breaks: io.ReadAll returns an error on every open stream. *)
(* The next NewStream dials again.                                          *)
Disconnect ==
  /\ breaks < MaxBreaks
  /\ breaks' = breaks + 1
  /\ handle' = [m \in Messages |-> [k \in 1 .. Attempts |->
                 IF handle[m][k] = "reading" THEN "error" ELSE handle[m][k]]]
  /\ UNCHANGED <<handler, sender, attempt, last, dest>>

-----------------------------------------------------------------------------
Sender(m) ==
  NewStream(m) \/ NewStreamFails(m) \/ GiveUp(m) \/ Write(m) \/ Close(m)

Receiver(m) == \E k \in 1 .. Attempts : Handle(m, k)

Next ==
  \/ \E s \in Services : SetStreamHandler(s)
  \/ RemoveStreamHandler
  \/ \E m \in Messages : MustSend(m) \/ Sender(m) \/ Receiver(m)
  \/ Disconnect

Spec == Init /\ [][Next]_vars

(* The goroutines of sender and receiver are scheduled, and a read ends     *)
(* when the stream has ended.                                               *)
Fairness == \A m \in Messages : WF_vars(Sender(m)) /\ WF_vars(Receiver(m))

FairSpec == Spec /\ Fairness

-----------------------------------------------------------------------------
(* Properties.                                                              *)

\* Every variable holds a value of the kind that its declaration says.
TypeOK ==
  /\ handler \in Services \cup {None}
  /\ sender  \in [Messages -> {"idle", "opening", "written", "closed", "failed"}]
  /\ attempt \in [Messages -> 0 .. Attempts]
  /\ last    \in [Messages -> 0 .. Attempts]
  /\ handle  \in [Messages -> [1 .. Attempts -> {"none", "reading", "read", "error"}]]
  /\ dest    \in [Messages -> [1 .. Attempts -> Services \cup {None}]]
  /\ breaks  \in Nat

(***************************************************************************)
(* OneReader: of all Handles that one send has started, also at different  *)
(* services, only that of the last stream ever returns from io.ReadAll     *)
(* with a message, and not before the stream was closed; the others wait   *)
(* for as long as the connection lasts and deliver nothing.                *)
(***************************************************************************)
OneReader ==
  \A m \in Messages, k \in 1 .. Attempts :
    handle[m][k] = "read" =>
      k = Attempts /\ sender[m] = "closed"

(***************************************************************************)
(* ReachesRegistered: if a service is registered before the last attempt   *)
(* and some service stays registered, and the connection lasts, then the   *)
(* message is read, however many attempts have failed before.              *)
(***************************************************************************)
ReachesRegistered ==
  \A m \in Messages :
    [](/\ sender[m] = "opening" /\ attempt[m] < Attempts
       /\ [](handler # None /\ breaks = MaxBreaks)
       => <>(handle[m][Attempts] = "read"))

-----------------------------------------------------------------------------
(* The refinement: a message is sent by the last attempt.                   *)
BoxOf(m) ==
  IF sender[m] = "idle" THEN "none"
  ELSE IF attempt[m] < Attempts THEN "pending"
  ELSE IF last[m] = 0 THEN "lost"
  ELSE IF handle[m][last[m]] = "read" THEN "read"
  ELSE IF handle[m][last[m]] = "reading" THEN "sent"
  ELSE "lost"

ToOf(m) ==
  IF attempt[m] = Attempts /\ last[m] # 0 THEN dest[m][last[m]] ELSE None

BoxBar == [m \in Messages |-> BoxOf(m)]

ToBar == [m \in Messages |-> ToOf(m)]

MD == INSTANCE MessageDelivery WITH box <- BoxBar, to <- ToBar

(***************************************************************************)
(* ImplementsDelivery: the attempts of send, the streams that it leaves    *)
(* open and the services that come and go between them amount to one       *)
(* delivery to the service that the last attempt has met, or to a loss.    *)
(***************************************************************************)
ImplementsDelivery == MD!Spec
=============================================================================

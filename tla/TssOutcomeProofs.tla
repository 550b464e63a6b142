-------------------------- MODULE TssOutcomeProofs --------------------------
(***************************************************************************)
(* Proof that the services of one session come to one result, as long as   *)
(* the library does not fail by itself: no service fails in the last round *)
(* of a session that another one has finished.  It gives KeyBacked and,    *)
(* for one reshare of a key and nodes that keep running, SharesFitKey, for *)
(* every set of nodes and requests, any number of rounds and of repeated   *)
(* calls, and whatever messages, replies and calls are lost.               *)
(***************************************************************************)
EXTENDS TssRefinementProofs

-----------------------------------------------------------------------------
(* No other request of its kind has the hash of r.                          *)
Solo(r) == \A q \in Requests : q.kind = r.kind /\ q.hash = r.hash => q = r

(* The first message of f has been sent to i.                               *)
First(i, f) ==
  \/ [to |-> i, from |-> f, round |-> 1] \in streams
  \/ [from |-> f, round |-> 1] \in inbox[i]
  \/ i # f /\ view[i][NodeOf(f)] = f

(* It goes to one service of a node only.                                   *)
FirstInv ==
  \A i, f \in Inst : First(i, f) =>
    /\ round[f] >= 1
    /\ round[f] = 1 => NodeOf(i) \notin out[f]
    /\ \A j \in Inst : NodeOf(j) = NodeOf(i) /\ First(j, f) => j = i

(* The last message of f is in a stream to i, queued at i, handled by i.    *)
InStream(i, f) == [to |-> i, from |-> f, round |-> Rounds] \in streams
Queued(i, f)   == [from |-> f, round |-> Rounds] \in inbox[i]
Handled(i, f)  ==
  round[i] = Rounds /\ NodeOf(f) \in seen[i] /\ view[i][NodeOf(f)] = f

(* It is sent once, and is in one of these places only.                     *)
LastInv ==
  \A i, f \in Inst :
    /\ InStream(i, f) \/ Queued(i, f) \/ Handled(i, f) =>
         round[f] = Rounds /\ NodeOf(i) \notin out[f]
    /\ ~(InStream(i, f) /\ Queued(i, f))
    /\ ~(InStream(i, f) /\ Handled(i, f))
    /\ ~(Queued(i, f) /\ Handled(i, f))

(* A service that is past the first round has heard one of every node.      *)
Heard(i, m) ==
  LET j == view[i][m]
  IN  /\ j \in Inst
      /\ NodeOf(j) = m
      /\ ReqOf(j).kind = ReqOf(i).kind
      /\ ReqOf(j).hash = ReqOf(i).hash
      /\ round[j] >= 1

HeardInv ==
  \A i \in Inst :
    /\ round[i] = 0 => seen[i] = {}
    /\ round[i] = 1 => \A m \in seen[i] : Heard(i, m)
    /\ round[i] >= 2 => \A m \in Peers(NodeOf(i)) : Heard(i, m)

(* A handler is a service that was created.                                 *)
MadeInv ==
  \A n \in Nodes, h \in Hashes :
    handler[n][h] # None => pc[handler[n][h]] # "none"

(* The last message of a DKG reaches no reshare.                            *)
ForeignInv ==
  \A i, f \in Inst :
    ReqOf(i).kind = "reshare" /\ (InStream(i, f) \/ Queued(i, f)) =>
      ReqOf(f).kind = "reshare"

(* Whoever fails in the last round has met one who does not fit.            *)
FailInv ==
  \A j \in Inst :
    Solo(ReqOf(j)) /\ outcome[j] = "failed" /\ round[j] = Rounds =>
      \E f \in Inst : /\ ReqOf(f) = ReqOf(j)
                      /\ round[f] = Rounds
                      /\ view[f] # view[j] \/ base[f] # base[j]

(* The result comes before the end.                                         *)
EndedInv ==
  \A i \in Inst :
    pc[i] \in {"closed", "removed", "ended"} => outcome[i] \in {"done", "failed"}

RunsInv == \A i \in Inst : pc[i] # "crashed"

(* What a reshare has stored.                                               *)
Refreshed(i) == base[i].gen \cup {view[i]}

RefreshInv ==
  \A i \in Inst :
    ReqOf(i).kind = "reshare" /\ outcome[i] = "done" /\ pc[i] = "ended" =>
      db[NodeOf(i)][ReqOf(i).hash].share.plain = Refreshed(i)

PlainInv ==
  \A n \in Nodes, h \in Hashes :
    HasKey(n, h) =>
      \/ db[n][h].share.plain = {}
      \/ \E i \in Inst : /\ NodeOf(i) = n
                         /\ ReqOf(i).kind = "reshare"
                         /\ ReqOf(i).hash = h
                         /\ outcome[i] = "done"
                         /\ db[n][h].share.plain = Refreshed(i)

(* What concerns messages, and what concerns the life of a service.         *)
PostInv == FirstInv /\ LastInv /\ HeardInv /\ ForeignInv

LifeInv == MadeInv /\ EndedInv

MInv == PostInv /\ LifeInv

-----------------------------------------------------------------------------
(* One service of a node in one session.                                    *)

(* DKGs have hashes of their own.                                           *)
LEMMA DkgSolo ==
  ASSUME NEW r \in Requests, r.kind = "dkg"
  PROVE  Solo(r)
BY RequestFacts DEF Solo

(* A service that has started was created.                                  *)
LEMMA Started ==
  ASSUME IInv, NEW i \in Inst, round[i] >= 1
  PROVE  pc[i] # "none"
BY DEF IInv, ServiceInv, RoundInv

(***************************************************************************)
(* Past the first round a node has one service of a session, however often *)
(* the call was repeated: the service of the asked node sends one first    *)
(* message to every node.                                                  *)
(***************************************************************************)
LEMMA OnlyOne ==
  ASSUME IInv, FirstInv, HeardInv, NEW i \in Inst, NEW j \in Inst,
         NodeOf(i) = NodeOf(j), ReqOf(i) = ReqOf(j), Solo(ReqOf(i)),
         round[i] >= 2, round[j] >= 2
  PROVE  i = j
<1> DEFINE r == ReqOf(i)
           o == Own(r)
<1>1. r \in Requests /\ r.node \in Nodes /\ NodeOf(i) \in Nodes
  BY InstFacts, RequestFields
<1>2. o \in Inst /\ NodeOf(o) = r.node
  BY <1>1, InstFacts
<1>3. round[i] \in Nat /\ round[j] \in Nat
  BY ConstantsAssumption DEF IInv, TypeOK
<1>4. CASE NodeOf(i) = r.node
  <2>1. pc[i] # "none" /\ pc[j] # "none"
    BY <1>3, Started
  <2> QED
    BY <1>4, <2>1 DEF IInv, ServiceInv, OwnInv
<1>5. CASE NodeOf(i) # r.node
  <2>1. ASSUME NEW x \in Inst, NodeOf(x) = NodeOf(i), ReqOf(x) = r, round[x] >= 2
        PROVE  First(x, o)
    <3>1. Heard(x, r.node)
      BY <1>1, <1>5, <2>1 DEF HeardInv, Peers
    <3> DEFINE g == view[x][r.node]
    <3>2. g \in Inst /\ NodeOf(g) = r.node /\ round[g] >= 1
          /\ ReqOf(g).kind = r.kind /\ ReqOf(g).hash = r.hash
      BY <2>1, <3>1 DEF Heard
    <3>3. ReqOf(g) = r
      BY <3>2, InstFacts DEF Solo
    <3>4. g = o
      BY <3>2, <3>3, Started DEF IInv, ServiceInv, OwnInv
    <3> QED
      BY <1>2, <1>5, <2>1, <3>4 DEF First
  <2>2. First(i, o) /\ First(j, o)
    BY <2>1
  <2> QED
    BY <1>2, <2>2 DEF FirstInv
<1> QED
  BY <1>4, <1>5

(* A peer of a finished session.                                            *)
LEMMA DonePeer ==
  ASSUME IInv, RInv, NEW d \in Inst, outcome[d] = "done", Solo(ReqOf(d)),
         NEW n \in Nodes
  PROVE  /\ view[d][n] \in Inst /\ NodeOf(view[d][n]) = n
         /\ ReqOf(view[d][n]) = ReqOf(d)
         /\ round[view[d][n]] = Rounds
         /\ view[view[d][n]] = view[d] /\ base[view[d][n]] = base[d]
<1> DEFINE j == view[d][n]
<1>1. round[d] = Rounds /\ seen[d] = Peers(NodeOf(d))
  BY DEF IInv, ServiceInv, DoneInv
<1>2. CASE n = NodeOf(d)
  BY <1>1, <1>2 DEF RInv, MessageInv, ViewInv
<1>3. CASE n # NodeOf(d)
  <2>1. NodeOf(j) = n /\ Confirmed(d, j)
    BY <1>1, <1>3 DEF IInv, ServiceInv, ConfirmInv, Peers
  <2>2. ReqOf(j) = ReqOf(d)
    BY <2>1, InstFacts DEF Confirmed, Solo
  <2> QED
    BY <2>1, <2>2 DEF Confirmed
<1> QED
  BY <1>2, <1>3

(***************************************************************************)
(* A service of a session that has finished somewhere and that has reached *)
(* the last round is the one that the finished service has heard.          *)
(***************************************************************************)
LEMMA SameSession ==
  ASSUME IInv, RInv, FirstInv, HeardInv, NEW d \in Inst, outcome[d] = "done",
         Solo(ReqOf(d)), NEW f \in Inst, ReqOf(f) = ReqOf(d), round[f] = Rounds
  PROVE  view[d][NodeOf(f)] = f /\ view[f] = view[d] /\ base[f] = base[d]
<1> DEFINE g == view[d][NodeOf(f)]
<1>1. NodeOf(f) \in Nodes
  BY InstFacts
<1>2. /\ g \in Inst /\ NodeOf(g) = NodeOf(f) /\ ReqOf(g) = ReqOf(d)
      /\ round[g] = Rounds /\ view[g] = view[d] /\ base[g] = base[d]
  BY <1>1, DonePeer
<1>3. g = f
  BY <1>2, OnlyOne, ConstantsAssumption
<1> QED
  BY <1>2, <1>3

-----------------------------------------------------------------------------
(* Messages.                                                                *)

(* Initially nothing is sent.                                               *)
LEMMA InitMInv == Init => MInv
<1> SUFFICES ASSUME Init PROVE MInv
  OBVIOUS
<1>1. \A i, f \in Inst : ~First(i, f)
  <2> SUFFICES ASSUME NEW i \in Inst, NEW f \in Inst, i # f, view[i][NodeOf(f)] = f
               PROVE  FALSE
    BY DEF Init, First
  <2>1. NodeOf(f) \in Nodes /\ NodeOf(i) \in Nodes /\ f # None
    BY InstFacts, NoneAssumption
  <2>2. view[i] = [NoView EXCEPT ![NodeOf(i)] = i]
    BY DEF Init
  <2>3. view[i][NodeOf(f)] \in {i, None}
    BY <2>1, <2>2 DEF NoView
  <2> QED
    BY <2>1, <2>3
<1>2. FirstInv
  BY <1>1 DEF FirstInv
<1>3. LastInv /\ HeardInv /\ ForeignInv
  BY ConstantsAssumption
  DEF Init, LastInv, HeardInv, ForeignInv, InStream, Queued, Handled
<1>4. LifeInv
  BY DEF Init, LifeInv, MadeInv, EndedInv
<1> QED
  BY <1>2, <1>3, <1>4 DEF MInv, PostInv

(* Steps that send and handle nothing; a crash may lose streams.            *)
LEMMA PostFrame ==
  ASSUME PostInv, UNCHANGED libVars, streams' \subseteq streams
  PROVE  PostInv'
<1>1. /\ \A i, f \in Inst : First(i, f)' => First(i, f)
      /\ \A i, f \in Inst : InStream(i, f)' => InStream(i, f)
      /\ \A i, f \in Inst : Queued(i, f)' = Queued(i, f)
      /\ \A i, f \in Inst : Handled(i, f)' = Handled(i, f)
  BY DEF First, InStream, Queued, Handled, libVars
<1>2. FirstInv'
  BY <1>1 DEF PostInv, FirstInv, libVars
<1>3. LastInv'
  BY <1>1 DEF PostInv, LastInv, libVars
<1>4. HeardInv' /\ ForeignInv'
  BY <1>1 DEF PostInv, HeardInv, ForeignInv, Heard, libVars
<1> QED
  BY <1>2, <1>3, <1>4 DEF PostInv

(* Process starts the first round.                                          *)
LEMMA ProcessPost ==
  ASSUME IInv, PostInv, NEW i \in Inst, Process(i)
  PROVE  PostInv'
<1>1. /\ round' = [round EXCEPT ![i] = 1]
      /\ out' = [out EXCEPT ![i] = Peers(NodeOf(i))]
      /\ UNCHANGED <<seen, view, inbox, streams>>
  BY DEF Process
<1>2. round[i] = 0 /\ seen[i] = {}
  BY DEF Process, IInv, ServiceInv, RoundInv, PostInv, HeardInv
<1>3. /\ round'[i] = 1
      /\ \A j \in Inst : j # i => round'[j] = round[j] /\ out'[j] = out[j]
      /\ Rounds >= 2 /\ \A j \in Inst : round[j] \in Nat
  BY <1>1, ConstantsAssumption DEF IInv, TypeOK
<1>4. /\ \A x, f \in Inst : First(x, f)' = First(x, f)
      /\ \A x, f \in Inst : InStream(x, f)' = InStream(x, f)
      /\ \A x, f \in Inst : Queued(x, f)' = Queued(x, f)
  BY <1>1 DEF First, InStream, Queued
<1>5. \A x, f \in Inst : Handled(x, f)' => Handled(x, f)
  BY <1>1, <1>3 DEF Handled
<1>6. FirstInv'
  BY <1>2, <1>3, <1>4 DEF PostInv, FirstInv
<1>7. LastInv'
  BY <1>2, <1>3, <1>4, <1>5 DEF PostInv, LastInv
<1>8. HeardInv'
  <2>1. \A x \in Inst, m \in Nodes : Heard(x, m) => Heard(x, m)'
    BY <1>1, <1>3 DEF Heard
  <2>2. \A x \in Inst : seen[x] \subseteq Nodes /\ Peers(NodeOf(x)) \subseteq Nodes
    BY DEF IInv, TypeOK, Peers
  <2> QED
    BY <1>1, <1>2, <1>3, <2>1, <2>2 DEF PostInv, HeardInv
<1>9. ForeignInv'
  BY <1>4 DEF PostInv, ForeignInv
<1> QED
  BY <1>6, <1>7, <1>8, <1>9 DEF PostInv

(* The next broadcast begins.                                               *)
LEMMA NextRoundPost ==
  ASSUME IInv, PostInv, NEW i \in Inst, NextRound(i)
  PROVE  PostInv'
<1>1. /\ pc[i] = "running" /\ round[i] < Rounds /\ seen[i] = Peers(NodeOf(i))
      /\ round' = [round EXCEPT ![i] = @ + 1]
      /\ seen' = [seen EXCEPT ![i] = {}]
      /\ out' = [out EXCEPT ![i] = Peers(NodeOf(i))]
      /\ UNCHANGED <<view, inbox, streams>>
  BY DEF NextRound
<1>2. round[i] >= 1 /\ Rounds >= 2 /\ \A j \in Inst : round[j] \in Nat
  BY <1>1, ConstantsAssumption DEF IInv, TypeOK, ServiceInv, RoundInv
<1>3. /\ round'[i] = round[i] + 1 /\ seen'[i] = {}
      /\ \A j \in Inst : j # i =>
           round'[j] = round[j] /\ out'[j] = out[j] /\ seen'[j] = seen[j]
  BY <1>1, <1>2 DEF IInv, TypeOK
<1>4. /\ \A x, f \in Inst : First(x, f)' = First(x, f)
      /\ \A x, f \in Inst : InStream(x, f)' = InStream(x, f)
      /\ \A x, f \in Inst : Queued(x, f)' = Queued(x, f)
  BY <1>1 DEF First, InStream, Queued
<1>5. \A x, f \in Inst : Handled(x, f)' => Handled(x, f)
  BY <1>1, <1>3 DEF Handled
<1>6. FirstInv'
  BY <1>2, <1>3, <1>4 DEF PostInv, FirstInv
<1>7. LastInv'
  BY <1>1, <1>2, <1>3, <1>4, <1>5 DEF PostInv, LastInv
<1>8. HeardInv'
  <2>1. \A x \in Inst, m \in Nodes : Heard(x, m) => Heard(x, m)'
    BY <1>1, <1>2, <1>3 DEF Heard
  <2>2. \A x \in Inst : seen[x] \subseteq Nodes /\ Peers(NodeOf(x)) \subseteq Nodes
    BY DEF IInv, TypeOK, Peers
  <2>3. \A m \in Peers(NodeOf(i)) : Heard(i, m)
    BY <1>1, <1>2 DEF PostInv, HeardInv
  <2> QED
    BY <1>2, <1>3, <2>1, <2>2, <2>3 DEF PostInv, HeardInv
<1>9. ForeignInv'
  BY <1>4 DEF PostInv, ForeignInv
<1> QED
  BY <1>6, <1>7, <1>8, <1>9 DEF PostInv

(***************************************************************************)
(* A DKG service has nothing left to send to a node that has stored the    *)
(* key: the last message of a DKG is never sent to a reshare.              *)
(***************************************************************************)
LEMMA LastOfReshare ==
  ASSUME IInv, RInv, MInv, NEW i \in Inst, NEW m \in out[i], round[i] = Rounds,
         NEW h \in Inst, NodeOf(h) = m, pc[h] # "none",
         ReqOf(h).hash = ReqOf(i).hash, ReqOf(h).kind = "reshare"
  PROVE  ReqOf(i).kind = "reshare"
<1> DEFINE r == ReqOf(i)
<1>1. /\ r \in Requests /\ r.hash \in Hashes /\ r.kind \in Kinds
      /\ ReqOf(h) \in Requests
      /\ m \in Nodes /\ NodeOf(i) \in Nodes /\ NodeOf(i) # m
  BY InstFacts, RequestFields DEF RInv, MessageInv, OutInv, Peers
<1>2. HasKey(m, r.hash)
  BY DEF IInv, ServiceInv, ReshareInv
<1>3. r.kind # "sign"
  BY <1>1, RequestFacts
<1>4. ASSUME r.kind = "dkg" PROVE FALSE
  <2>1. r.hash \notin InitKeys /\ Solo(r)
    BY <1>1, <1>4, RequestFacts, DkgSolo
  <2>2. PICK d \in Inst : StoredBy(d, m, r.hash)
    BY <1>1, <1>2, <2>1 DEF RInv, RecordInv, StoredInv
  <2>3. outcome[d] = "done" /\ NodeOf(d) = m /\ ReqOf(d) = r
    BY <1>1, <1>4, <2>2, InstFacts, RequestFacts DEF StoredBy
  <2>4. view[d][NodeOf(i)] = i
    BY <2>1, <2>3, SameSession DEF MInv, PostInv
  <2>5. round[d] = Rounds /\ NodeOf(i) \in seen[d]
    BY <1>1, <2>3 DEF IInv, ServiceInv, DoneInv, Peers
  <2>6. Handled(d, i)
    BY <2>4, <2>5 DEF Handled
  <2> QED
    BY <2>3, <2>6 DEF MInv, PostInv, LastInv
<1> QED
  BY <1>1, <1>3, <1>4 DEF Kinds

(* A message is sent to the registered service, or lost.                    *)
LEMMA SendPost ==
  ASSUME IInv, RInv, MInv, NEW i \in Inst, NEW m \in Nodes,
         Send(i, m) \/ SendFails(i, m)
  PROVE  PostInv'
<1> DEFINE h == handler[m][ReqOf(i).hash]
           s == [to |-> h, from |-> i, round |-> round[i]]
<1>1. /\ m \in out[i] /\ pc[i] = "running"
      /\ out' = [out EXCEPT ![i] = @ \ {m}]
      /\ UNCHANGED <<round, seen, view, inbox>>
      /\ streams' = streams \/ (h # None /\ streams' = streams \cup {s})
  BY DEF Send, SendFails
<1>2. /\ out'[i] = out[i] \ {m}
      /\ \A j \in Inst : j # i => out'[j] = out[j]
      /\ \A j \in Inst : round[j] \in Nat
      /\ round[i] >= 1 /\ Rounds \in Nat /\ Rounds >= 2
  BY <1>1, ConstantsAssumption DEF IInv, TypeOK, ServiceInv, RoundInv
<1>3. ReqOf(i).hash \in Hashes
  BY InstFacts, RequestFields
<1>4. h # None => /\ h \in Inst /\ NodeOf(h) = m /\ ReqOf(h).hash = ReqOf(i).hash
                  /\ pc[h] # "none"
  BY <1>3 DEF IInv, TypeOK, ServiceInv, HandlerInv, MInv, LifeInv, MadeInv
<1>5. \A x, f \in Inst : First(x, f)' =>
        First(x, f) \/ (x = h /\ h # None /\ f = i /\ round[i] = 1)
  BY <1>1 DEF First
<1>6. \A x, f \in Inst : InStream(x, f)' =>
        InStream(x, f) \/ (x = h /\ h # None /\ f = i /\ round[i] = Rounds)
  BY <1>1 DEF InStream
<1>7. /\ \A x, f \in Inst : Queued(x, f)' = Queued(x, f)
      /\ \A x, f \in Inst : Handled(x, f)' = Handled(x, f)
  BY <1>1 DEF Queued, Handled
<1>8. FirstInv'
  <2> SUFFICES ASSUME NEW x \in Inst, NEW f \in Inst, First(x, f)'
               PROVE  /\ round[f] >= 1
                      /\ round[f] = 1 => NodeOf(x) \notin out'[f]
                      /\ \A j \in Inst :
                           NodeOf(j) = NodeOf(x) /\ First(j, f)' => j = x
    BY <1>1 DEF FirstInv
  <2>1. round[i] = 1 => \A y \in Inst : NodeOf(y) = m => ~First(y, i)
    BY <1>1 DEF MInv, PostInv, FirstInv
  <2>2. CASE First(x, f)
    BY <1>2, <1>4, <1>5, <2>1, <2>2 DEF MInv, PostInv, FirstInv
  <2>3. CASE x = h /\ h # None /\ f = i /\ round[i] = 1
    BY <1>2, <1>4, <1>5, <2>1, <2>3
  <2> QED
    BY <1>5, <2>2, <2>3
<1>9. LastInv'
  <2> SUFFICES ASSUME NEW x \in Inst, NEW f \in Inst
               PROVE  /\ InStream(x, f)' \/ Queued(x, f)' \/ Handled(x, f)' =>
                           round[f] = Rounds /\ NodeOf(x) \notin out'[f]
                      /\ ~(InStream(x, f)' /\ Queued(x, f)')
                      /\ ~(InStream(x, f)' /\ Handled(x, f)')
                      /\ ~(Queued(x, f)' /\ Handled(x, f)')
    BY <1>1 DEF LastInv
  <2>1. \A y \in Inst : NodeOf(y) = m => ~Queued(y, i) /\ ~Handled(y, i)
    BY <1>1 DEF MInv, PostInv, LastInv
  <2>2. CASE x = h /\ h # None /\ f = i /\ round[i] = Rounds
    BY <1>2, <1>4, <1>7, <2>1, <2>2
  <2>3. CASE ~(x = h /\ h # None /\ f = i /\ round[i] = Rounds)
    <3>1. InStream(x, f)' => InStream(x, f)
      BY <1>6, <2>3
    <3>2. out'[f] \subseteq out[f]
      BY <1>2
    <3> QED
      BY <1>7, <3>1, <3>2 DEF MInv, PostInv, LastInv
  <2> QED
    BY <2>2, <2>3
<1>10. HeardInv'
  BY <1>1 DEF MInv, PostInv, HeardInv, Heard
<1>11. ForeignInv'
  <2>1. h # None /\ round[i] = Rounds /\ ReqOf(h).kind = "reshare" =>
          ReqOf(i).kind = "reshare"
    BY <1>1, <1>4, LastOfReshare
  <2> QED
    BY <1>6, <1>7, <2>1 DEF MInv, PostInv, ForeignInv
<1> QED
  BY <1>8, <1>9, <1>10, <1>11 DEF PostInv

(* A stream is read, and its message is queued or dropped.                  *)
LEMMA HandlePost ==
  ASSUME IInv, PostInv, NEW s \in streams, Handle(s)
  PROVE  PostInv'
<1> DEFINE msg == [from |-> s.from, round |-> s.round]
<1>1. /\ UNCHANGED <<round, seen, view, out>>
      /\ streams' = streams \ {s}
      /\ \/ inbox' = inbox
         \/ inbox' = [inbox EXCEPT ![s.to] = @ \cup {msg}]
  BY DEF Handle
<1>2. s \in Streams /\ s.to \in Inst /\ s.from \in Inst
  BY DEF IInv, TypeOK, Streams
<1>3. s = [to |-> s.to, from |-> s.from, round |-> s.round]
  BY <1>2 DEF Streams
<1>4. \A x \in Inst : \A k : k \in inbox'[x] =>
        k \in inbox[x] \/ (x = s.to /\ k = msg)
  BY <1>1 DEF IInv, TypeOK
<1>5. \A x, f \in Inst : First(x, f)' => First(x, f)
  <2> SUFFICES ASSUME NEW x \in Inst, NEW f \in Inst, First(x, f)'
               PROVE  First(x, f)
    OBVIOUS
  <2>1. CASE [from |-> f, round |-> 1] \in inbox'[x]
    <3>1. CASE [from |-> f, round |-> 1] = msg /\ x = s.to
      <4>1. f = s.from /\ s.round = 1
        BY <3>1
      <4> QED
        BY <1>3, <3>1, <4>1 DEF First
    <3> QED
      BY <1>4, <2>1, <3>1 DEF First
  <2> QED
    BY <1>1, <2>1 DEF First
<1>6. /\ \A x, f \in Inst : InStream(x, f)' =>
           InStream(x, f) /\ ~(x = s.to /\ f = s.from /\ s.round = Rounds)
      /\ \A x, f \in Inst : Handled(x, f)' = Handled(x, f)
  BY <1>1, <1>3 DEF InStream, Handled
<1>7. \A x, f \in Inst : Queued(x, f)' =>
        Queued(x, f) \/ (x = s.to /\ f = s.from /\ s.round = Rounds)
  <2> SUFFICES ASSUME NEW x \in Inst, NEW f \in Inst,
                      [from |-> f, round |-> Rounds] = msg
               PROVE  f = s.from /\ s.round = Rounds
    BY <1>4 DEF Queued
  <2> QED
    OBVIOUS
<1>8. \A x, f \in Inst : x = s.to /\ f = s.from /\ s.round = Rounds => InStream(x, f)
  BY <1>3 DEF InStream
<1>9. FirstInv'
  BY <1>1, <1>5 DEF PostInv, FirstInv
<1>10. LastInv'
  BY <1>1, <1>6, <1>7, <1>8 DEF PostInv, LastInv
<1>11. HeardInv' /\ ForeignInv'
  BY <1>1, <1>6, <1>7, <1>8 DEF PostInv, HeardInv, Heard, ForeignInv
<1> QED
  BY <1>9, <1>10, <1>11 DEF PostInv

(* A queued message is handled.                                             *)
LEMMA HandleMessagePost ==
  ASSUME IInv, RInv, PostInv, NEW i \in Inst, NEW m \in inbox[i], HandleMessage(i, m)
  PROVE  PostInv'
<1> DEFINE g == m.from
           n == NodeOf(m.from)
<1>1. /\ m.round = round[i] /\ Fits(i, m) /\ n \notin seen[i]
      /\ inbox' = [inbox EXCEPT ![i] = @ \ {m}]
      /\ seen' = [seen EXCEPT ![i] = @ \cup {n}]
      /\ view' = [view EXCEPT ![i] = IF round[i] = 1 THEN [@ EXCEPT ![n] = g] ELSE @]
      /\ UNCHANGED <<round, out, streams>>
  BY DEF HandleMessage
<1>2. /\ m \in Messages /\ g \in Inst /\ n \in Nodes /\ n # NodeOf(i)
      /\ ReqOf(g).hash = ReqOf(i).hash /\ m.round <= round[g]
  BY InstFacts DEF IInv, TypeOK, Messages, ServiceInv, InboxInv, Sent, RInv,
     MessageInv, AwayInv
<1>3. m = [from |-> g, round |-> round[i]]
  BY <1>1, <1>2 DEF Messages
<1>4. /\ seen'[i] = seen[i] \cup {n} /\ inbox'[i] = inbox[i] \ {m}
      /\ \A x \in Inst : x # i =>
           seen'[x] = seen[x] /\ inbox'[x] = inbox[x] /\ view'[x] = view[x]
      /\ \A x \in Inst : round[x] \in Nat
      /\ Rounds \in Nat /\ Rounds >= 2 /\ round[i] >= 1
  BY <1>1, ConstantsAssumption
  DEF IInv, TypeOK, HandleMessage, Waiting, ServiceInv, RoundInv
<1>5. /\ round[i] = 1 => \A k \in Nodes :
           view'[i][k] = IF k = n THEN g ELSE view[i][k]
      /\ round[i] # 1 => view'[i] = view[i]
  <2>1. view \in [Inst -> [Nodes -> Inst \cup {None}]]
    BY DEF IInv, TypeOK, Views
  <2> QED
    BY <1>1, <2>1
<1>6. \A x, f \in Inst : First(x, f)' => First(x, f)
  <2> SUFFICES ASSUME NEW x \in Inst, NEW f \in Inst, First(x, f)'
               PROVE  First(x, f)
    OBVIOUS
  <2>1. NodeOf(f) \in Nodes
    BY InstFacts
  <2>2. CASE x = i /\ view'[i][NodeOf(f)] = f /\ view[i][NodeOf(f)] # f
    <3>1. round[i] = 1 /\ f = g
      BY <1>5, <2>1, <2>2
    <3>2. [from |-> f, round |-> 1] \in inbox[x]
      BY <1>3, <2>2, <3>1
    <3> QED
      BY <3>2 DEF First
  <2> QED
    BY <1>1, <1>4, <2>2 DEF First
<1>7. /\ \A x, f \in Inst : InStream(x, f)' = InStream(x, f)
      /\ \A x, f \in Inst : Queued(x, f)' => Queued(x, f)
      /\ round[i] = Rounds => Queued(i, g) /\ ~Queued(i, g)'
  BY <1>1, <1>3, <1>4 DEF InStream, Queued
<1>8. \A x, f \in Inst : Handled(x, f)' =>
        Handled(x, f) \/ (x = i /\ f = g /\ round[i] = Rounds)
  <2> SUFFICES ASSUME NEW f \in Inst, Handled(i, f)', ~Handled(i, f)
               PROVE  f = g /\ round[i] = Rounds
    BY <1>1, <1>4 DEF Handled
  <2>1. round[i] = Rounds /\ view'[i] = view[i]
    BY <1>1, <1>4, <1>5 DEF Handled
  <2>2. NodeOf(f) = n
    BY <1>1, <1>4, <2>1 DEF Handled
  <2>3. view[i][n] = g
    BY <1>1, <1>4, <2>1 DEF Fits
  <2> QED
    BY <2>1, <2>2, <2>3 DEF Handled
<1>9. FirstInv'
  BY <1>1, <1>6 DEF PostInv, FirstInv
<1>10. LastInv'
  BY <1>1, <1>7, <1>8 DEF PostInv, LastInv
<1>11. HeardInv'
  <2>1. \A x \in Inst, k \in Nodes :
          Heard(x, k) /\ (x = i /\ round[i] = 1 => k # n) => Heard(x, k)'
    BY <1>1, <1>4, <1>5 DEF Heard
  <2>2. round[i] = 1 => Heard(i, n)'
    <3> SUFFICES ASSUME round[i] = 1 PROVE Heard(i, n)'
      OBVIOUS
    <3>1. view'[i][n] = g
      BY <1>2, <1>5
    <3>2. ReqOf(g).kind = ReqOf(i).kind /\ round'[g] >= 1
      BY <1>1, <1>2, <1>4 DEF Fits
    <3> QED
      BY <1>2, <3>1, <3>2 DEF Heard
  <2>3. \A x \in Inst : seen[x] \subseteq Nodes /\ Peers(NodeOf(x)) \subseteq Nodes
    BY DEF IInv, TypeOK, Peers
  <2>4. ASSUME NEW x \in Inst, x # i
        PROVE  /\ round[x] = 0 => seen'[x] = {}
               /\ round[x] = 1 => \A k \in seen'[x] : Heard(x, k)'
               /\ round[x] >= 2 => \A k \in Peers(NodeOf(x)) : Heard(x, k)'
    BY <1>4, <2>1, <2>3, <2>4 DEF PostInv, HeardInv
  <2>5. /\ round[i] # 0
        /\ round[i] = 1 => \A k \in seen'[i] : Heard(i, k)'
        /\ round[i] >= 2 => \A k \in Peers(NodeOf(i)) : Heard(i, k)'
    BY <1>1, <1>4, <2>1, <2>2, <2>3 DEF PostInv, HeardInv
  <2> QED
    BY <1>1, <2>4, <2>5 DEF HeardInv
<1>12. ForeignInv'
  BY <1>7 DEF PostInv, ForeignInv
<1> QED
  BY <1>9, <1>10, <1>11, <1>12 DEF PostInv

-----------------------------------------------------------------------------
(* How a service may go on.                                                 *)

(* In the last round nothing of a service changes but its result, which is  *)
(* final; a service is there once it was created.                           *)
Steady ==
  /\ \A f \in Inst : round[f] = Rounds =>
       round'[f] = Rounds /\ view'[f] = view[f] /\ base'[f] = base[f]
  /\ \A f \in Inst : outcome[f] # "none" =>
       outcome'[f] = outcome[f] /\ round'[f] = round[f]
  /\ \A f \in Inst : outcome'[f] # outcome[f] => Done(f) \/ Failed(f)
  /\ \A f \in Inst : pc'[f] = "ended" => pc[f] = "ended" \/ Save(f)
  /\ \A f \in Inst : pc'[f] = "crashed" => pc[f] = "crashed" \/ "crash" \in Faults

(* A service is created.                                                    *)
LEMMA NewServiceSteady ==
  ASSUME IInv, LifeInv, NEW i \in Inst, NEW pub, NewService(i, pub), UNCHANGED libVars
  PROVE  Steady /\ LifeInv'
<1>1. /\ pc[i] = "none"
      /\ pc' = [pc EXCEPT ![i] = "created"]
      /\ handler' = [handler EXCEPT ![NodeOf(i)][ReqOf(i).hash] = i]
      /\ outcome' = outcome
      /\ \E conf : base' = [base EXCEPT ![i] = conf]
  BY DEF NewService, NewDkgService, NewSignerService, NewReshareService,
         SetStreamHandler
<1>2. round[i] # Rounds /\ outcome[i] = "none"
  BY <1>1, ConstantsAssumption DEF IInv, ServiceInv, RoundInv
<1>3. /\ \A j \in Inst : j # i => pc'[j] = pc[j] /\ base'[j] = base[j]
      /\ pc'[i] = "created"
  BY <1>1 DEF IInv, TypeOK
<1>4. Steady
  BY <1>1, <1>2, <1>3 DEF Steady, libVars
<1>5. \A n \in Nodes, h \in Hashes : handler'[n][h] = handler[n][h] \/ handler'[n][h] = i
  BY <1>1 DEF IInv, TypeOK
<1>6. MadeInv'
  <2>1. \A n \in Nodes, h \in Hashes : handler[n][h] # None => handler[n][h] \in Inst
    BY DEF IInv, TypeOK
  <2> QED
    BY <1>3, <1>5, <2>1 DEF LifeInv, MadeInv
<1>7. EndedInv'
  BY <1>1, <1>3 DEF LifeInv, EndedInv
<1> QED
  BY <1>4, <1>6, <1>7 DEF LifeInv

(* Nothing of the services changes.                                         *)
LEMMA IdleSteady ==
  ASSUME LifeInv, UNCHANGED <<libVars, svcVars, handler>>
  PROVE  Steady /\ LifeInv'
BY DEF Steady, LifeInv, MadeInv, EndedInv, libVars, svcVars

(* A service runs.                                                          *)
LEMMA RunSteady ==
  ASSUME IInv, LifeInv, NEW i \in Inst,
         Process(i) \/ Sending(i) \/ Receive(i) \/ Library(i)
  PROVE  Steady /\ LifeInv'
<1>1. CASE Process(i) \/ NextRound(i)
  <2>1. /\ UNCHANGED <<outcome, base, view, handler>>
        /\ \/ pc[i] = "created" /\ pc' = [pc EXCEPT ![i] = "running"]
              /\ round' = [round EXCEPT ![i] = 1]
           \/ pc[i] = "running" /\ pc' = pc /\ round[i] < Rounds
              /\ round' = [round EXCEPT ![i] = @ + 1]
    BY <1>1 DEF Process, NextRound, svcVars
  <2>2. round[i] # Rounds /\ outcome[i] = "none"
    BY <2>1, ConstantsAssumption DEF IInv, TypeOK, ServiceInv, RoundInv
  <2>3. /\ \A j \in Inst : j # i => pc'[j] = pc[j] /\ round'[j] = round[j]
        /\ pc'[i] = "running"
    BY <2>1 DEF IInv, TypeOK
  <2>4. Steady
    BY <2>1, <2>2, <2>3 DEF Steady
  <2>5. MadeInv'
    <3>1. \A j \in Inst : pc[j] # "none" => pc'[j] # "none"
      BY <2>3
    <3>2. \A n \in Nodes, h \in Hashes : handler[n][h] # None => handler[n][h] \in Inst
      BY DEF IInv, TypeOK
    <3> QED
      BY <2>1, <3>1, <3>2 DEF LifeInv, MadeInv
  <2>6. EndedInv'
    BY <2>1, <2>3 DEF LifeInv, EndedInv
  <2> QED
    BY <2>4, <2>5, <2>6 DEF LifeInv
<1>2. CASE Sending(i) \/ Receive(i)
  <2>1. UNCHANGED <<svcVars, round, view, handler>>
    BY <1>2 DEF Sending, Receive, Send, SendFails, Handle
  <2> QED
    BY <2>1 DEF Steady, LifeInv, MadeInv, EndedInv, svcVars
<1>3. ASSUME NEW m \in inbox[i], HandleMessage(i, m)
      PROVE  Steady /\ LifeInv'
  <2>1. /\ UNCHANGED <<svcVars, round, handler>>
        /\ \A j \in Inst : j # i => view'[j] = view[j]
        /\ round[i] # 1 => view'[i] = view[i]
    BY <1>3 DEF HandleMessage, IInv, TypeOK
  <2>2. \A j \in Inst : round[j] = Rounds => view'[j] = view[j]
    BY <2>1, ConstantsAssumption
  <2> QED
    BY <2>1, <2>2 DEF Steady, LifeInv, MadeInv, EndedInv, svcVars
<1>4. CASE Done(i) \/ Failed(i)
  <2>1. /\ pc[i] = "running"
        /\ pc' = [pc EXCEPT ![i] = "closed"]
        /\ \E v \in {"done", "failed"} : outcome' = [outcome EXCEPT ![i] = v]
        /\ UNCHANGED <<libVars, base, handler>>
    BY <1>4 DEF Done, Failed, Waiting
  <2>2. outcome[i] = "none"
    BY <2>1 DEF IInv, ServiceInv, RoundInv
  <2>3. /\ \A j \in Inst : j # i => pc'[j] = pc[j] /\ outcome'[j] = outcome[j]
        /\ pc'[i] = "closed" /\ outcome'[i] \in {"done", "failed"}
    BY <2>1 DEF IInv, TypeOK
  <2>4. Steady
    BY <1>4, <2>1, <2>2, <2>3 DEF Steady, libVars
  <2>5. \A n \in Nodes, h \in Hashes : handler[n][h] # None => handler[n][h] \in Inst
    BY DEF IInv, TypeOK
  <2> QED
    BY <2>1, <2>3, <2>4, <2>5 DEF LifeInv, MadeInv, EndedInv
<1> QED
  BY <1>1, <1>2, <1>3, <1>4 DEF Library

(* A service comes to its end, by itself or with its node.                  *)
LEMMA FinishSteady ==
  ASSUME IInv, LifeInv,
         (\E i \in Inst : Finish(i)) \/ (\E n \in Nodes : Crash(n))
  PROVE  Steady /\ LifeInv'
<1>1. \A n \in Nodes, h \in Hashes : handler[n][h] # None => handler[n][h] \in Inst
  BY DEF IInv, TypeOK
<1>2. ASSUME NEW i \in Inst, RemoveStreamHandler(i) \/ Save(i)
      PROVE  Steady /\ LifeInv'
  <2>1. /\ UNCHANGED <<libVars, outcome, base>>
        /\ pc[i] \in {"closed", "removed"}
        /\ \/ pc' = [pc EXCEPT ![i] = "removed"]
              /\ handler' = [handler EXCEPT ![NodeOf(i)][ReqOf(i).hash] = None]
           \/ Save(i) /\ pc' = [pc EXCEPT ![i] = "ended"] /\ handler' = handler
    BY <1>2 DEF RemoveStreamHandler, Save
  <2>2. /\ \A j \in Inst : j # i => pc'[j] = pc[j]
        /\ pc'[i] = "removed" \/ (pc'[i] = "ended" /\ Save(i))
    BY <2>1 DEF IInv, TypeOK
  <2>3. \A n \in Nodes, h \in Hashes :
          handler'[n][h] = handler[n][h] \/ handler'[n][h] = None
    <3>1. NodeOf(i) \in Nodes /\ handler \in [Nodes -> [Hashes -> Inst \cup {None}]]
      BY InstFacts DEF IInv, TypeOK
    <3>2. CASE handler' = [handler EXCEPT ![NodeOf(i)][ReqOf(i).hash] = None]
      BY <3>1, <3>2
    <3>3. CASE handler' = handler
      BY <3>3
    <3> QED
      BY <2>1, <3>2, <3>3
  <2>4. Steady
    BY <2>1, <2>2 DEF Steady, libVars
  <2>5. MadeInv'
    BY <1>1, <2>2, <2>3 DEF LifeInv, MadeInv
  <2>6. EndedInv'
    BY <2>1, <2>2 DEF LifeInv, EndedInv
  <2> QED
    BY <2>4, <2>5, <2>6 DEF LifeInv
<1>3. ASSUME NEW n \in Nodes, Crash(n)
      PROVE  Steady /\ LifeInv'
  <2>1. /\ UNCHANGED <<libVars, outcome, base>>
        /\ "crash" \in Faults
        /\ \A j \in Inst : pc'[j] = pc[j] \/ pc'[j] = "crashed"
    BY <1>3 DEF Crash
  <2>2. \A k \in Nodes, h \in Hashes :
          handler'[k][h] = handler[k][h] \/ handler'[k][h] = None
    BY <1>3 DEF Crash, IInv, TypeOK
  <2>3. Steady
    BY <2>1 DEF Steady, libVars
  <2>4. MadeInv'
    BY <1>1, <2>1, <2>2 DEF LifeInv, MadeInv
  <2>5. EndedInv'
    BY <2>1 DEF LifeInv, EndedInv
  <2> QED
    BY <2>3, <2>4, <2>5 DEF LifeInv
<1> QED
  BY <1>2, <1>3 DEF Finish

(* MInv is inductive, and services go on as Steady says.                    *)
LEMMA NextMInv ==
  ASSUME IInv, RInv, MInv, [Next]_vars
  PROVE  MInv' /\ Steady
<1>1. CASE UNCHANGED vars
  <2>1. UNCHANGED <<libVars, svcVars, handler, streams>>
    BY <1>1 DEF vars
  <2> QED
    BY <2>1, PostFrame, IdleSteady DEF MInv
<1>2. ASSUME NEW r \in Requests,
             Request(r) \/ Caller(r) \/ CallFault(r) \/ ClientTimeout(r)
      PROVE  MInv' /\ Steady
  <2>1. UNCHANGED <<libVars, streams>>
    BY <1>2 DEF Request, RegisterDKG, SignMessage, Reshare, Caller, CallFault,
       Accept, Refuse, CallPeer, CallPeerNoReply, CallPeerFails, AllCalled, Return,
       ClientTimeout
  <2>2. CASE UNCHANGED <<svcVars, handler>>
    BY <2>1, <2>2, PostFrame, IdleSteady DEF MInv
  <2>3. CASE \E i \in Inst : \E pub : NewService(i, pub)
    BY <2>1, <2>3, PostFrame, NewServiceSteady DEF MInv
  <2>4. CASE \/ \E pub : Accept(r, pub)
             \/ \E p \in Nodes : CallPeer(r, p) \/ CallPeerNoReply(r, p)
    BY <2>3, <2>4, InstFacts DEF Accept, CallPeer, CallPeerNoReply, Serve
  <2>5. CASE \/ \E pub : Refuse(r, pub)
             \/ \E p \in Nodes : CallPeerFails(r, p)
             \/ AllCalled(r) \/ Return(r) \/ ClientTimeout(r)
    BY <2>2, <2>5 DEF Refuse, CallPeerFails, AllCalled, Return, ClientTimeout
  <2> QED
    BY <1>2, <2>4, <2>5 DEF Request, RegisterDKG, SignMessage, Reshare, Caller,
       CallFault
<1>3. ASSUME NEW i \in Inst, Process(i) \/ Sending(i) \/ Receive(i) \/ Library(i)
      PROVE  MInv' /\ Steady
  <2>1. Steady /\ LifeInv'
    BY <1>3, RunSteady DEF MInv
  <2>2. CASE Done(i) \/ Failed(i)
    BY <2>1, <2>2, PostFrame DEF MInv, Done, Failed
  <2>3. PostInv'
    BY <1>3, <2>1, <2>2, ProcessPost, SendPost, HandlePost, HandleMessagePost,
       NextRoundPost
    DEF MInv, Sending, Receive, Library
  <2> QED
    BY <2>1, <2>3 DEF MInv
<1>4. CASE (\E i \in Inst : Finish(i)) \/ (\E n \in Nodes : Crash(n))
  <2>1. Steady /\ LifeInv'
    BY <1>4, FinishSteady DEF MInv
  <2>2. UNCHANGED libVars /\ streams' \subseteq streams
    BY <1>4 DEF Finish, RemoveStreamHandler, Save, Crash
  <2> QED
    BY <2>1, <2>2, PostFrame DEF MInv
<1> QED
  BY <1>1, <1>2, <1>3, <1>4 DEF Next

-----------------------------------------------------------------------------
(* Nobody fails in the last round of a finished session.                    *)

(* The library does not fail by itself.                                     *)
Sound == "library" \notin Faults

(***************************************************************************)
(* A message that makes a service fail in the last round comes from a      *)
(* service of its own session that does not fit: it cannot be a second one *)
(* of the same peer, and none of another kind of session.                  *)
(***************************************************************************)
LEMMA FailedMeets ==
  ASSUME Sound, IInv, RInv, MInv, NEW j \in Inst, Failed(j), round[j] = Rounds,
         Solo(ReqOf(j))
  PROVE  \E f \in Inst : /\ ReqOf(f) = ReqOf(j)
                         /\ round[f] = Rounds
                         /\ view[f] # view[j] \/ base[f] # base[j]
<1> DEFINE r == ReqOf(j)
<1>1. PICK m \in inbox[j] : /\ m.round = Rounds
                            /\ NodeOf(m.from) \in seen[j] \/ ~Fits(j, m)
  BY DEF Failed, Sound
<1> DEFINE f == m.from
           n == NodeOf(m.from)
<1>2. /\ m \in Messages /\ f \in Inst /\ n \in Nodes /\ n # NodeOf(j)
      /\ ReqOf(f).hash = r.hash /\ Rounds <= round[f]
  BY <1>1, InstFacts
  DEF IInv, TypeOK, Messages, ServiceInv, InboxInv, Sent, RInv, MessageInv, AwayInv
<1>3. round[f] = Rounds /\ Rounds >= 2 /\ outcome[j] = "none"
  BY <1>2, ConstantsAssumption DEF IInv, TypeOK, ServiceInv, RoundInv, Failed, Waiting
<1>4. Queued(j, f)
  BY <1>1, <1>2 DEF Queued, Messages
<1>5. /\ r \in Requests /\ ReqOf(f) \in Requests /\ NodeOf(j) \in Nodes
      /\ r.kind \in Kinds /\ ReqOf(f).kind \in Kinds /\ r.hash \in Hashes
  BY <1>2, InstFacts, RequestFields
<1>6. ReqOf(f).kind = r.kind
  <2>1. r.kind = "sign" \/ ReqOf(f).kind = "sign" => ReqOf(f).kind = r.kind
    BY <1>2, <1>5, RequestFacts
  <2>2. r.kind = "reshare" => ReqOf(f).kind = "reshare"
    BY <1>2, <1>4 DEF MInv, PostInv, ForeignInv
  <2>3. ASSUME r.kind = "dkg", ReqOf(f).kind = "reshare" PROVE FALSE
    <3> DEFINE g == view[f][NodeOf(j)]
    <3>1. Heard(f, NodeOf(j))
      BY <1>2, <1>3, <1>5 DEF MInv, PostInv, HeardInv, Peers
    <3>2. g \in Inst /\ NodeOf(g) = NodeOf(j) /\ ReqOf(g).kind = "reshare"
          /\ ReqOf(g).hash = r.hash /\ pc[g] # "none"
      BY <1>2, <2>3, <3>1, Started DEF Heard
    <3>3. HasKey(NodeOf(j), r.hash) /\ r.hash \notin InitKeys
      BY <1>5, <2>3, <3>2, RequestFacts DEF IInv, ServiceInv, ReshareInv
    <3>4. PICK d \in Inst : StoredBy(d, NodeOf(j), r.hash)
      BY <1>5, <3>3 DEF RInv, RecordInv, StoredInv
    <3>5. outcome[d] = "done" /\ NodeOf(d) = NodeOf(j) /\ ReqOf(d) = r
      BY <1>5, <2>3, <3>4, InstFacts, RequestFacts DEF StoredBy
    <3>6. round[d] = Rounds
      BY <3>5 DEF IInv, ServiceInv, DoneInv
    <3>7. d = j
      BY <1>3, <3>5, <3>6, OnlyOne DEF MInv, PostInv
    <3> QED
      BY <1>3, <3>5, <3>7
  <2> QED
    BY <1>5, <2>1, <2>2, <2>3 DEF Kinds
<1>7. ReqOf(f) = r
  BY <1>2, <1>5, <1>6 DEF Solo
<1>8. CASE n \in seen[j]
  <2> DEFINE g == view[j][n]
  <2>1. NodeOf(g) = n /\ Confirmed(j, g)
    BY <1>8 DEF IInv, ServiceInv, ConfirmInv
  <2>2. g \in Inst /\ ReqOf(g) = r /\ round[g] = Rounds
    BY <2>1, InstFacts DEF Confirmed, Solo
  <2>3. g = f
    BY <1>2, <1>3, <1>7, <2>1, <2>2, OnlyOne DEF MInv, PostInv
  <2>4. Handled(j, f)
    BY <1>8, <2>3 DEF Handled
  <2> QED
    BY <1>2, <1>4, <2>4 DEF MInv, PostInv, LastInv
<1>9. CASE ~Fits(j, m)
  <2>1. view[f][n] = f
    BY <1>2 DEF RInv, MessageInv, ViewInv
  <2>2. view[f] # view[j] \/ base[f] # base[j]
    BY <1>6, <1>9, <2>1 DEF Fits
  <2> QED
    BY <1>2, <1>3, <1>7, <2>2
<1> QED
  BY <1>1, <1>8, <1>9

(* FailInv is inductive.                                                    *)
LEMMA NextFailInv ==
  ASSUME Sound, IInv, RInv, MInv, FailInv, Steady
  PROVE  FailInv'
<1> SUFFICES ASSUME NEW j \in Inst, Solo(ReqOf(j)), outcome'[j] = "failed",
                    round'[j] = Rounds
             PROVE  \E f \in Inst : /\ ReqOf(f) = ReqOf(j)
                                    /\ round'[f] = Rounds
                                    /\ view'[f] # view'[j] \/ base'[f] # base'[j]
  BY DEF FailInv, Solo
<1>1. ASSUME round[j] = Rounds,
             \E f \in Inst : /\ ReqOf(f) = ReqOf(j)
                             /\ round[f] = Rounds
                             /\ view[f] # view[j] \/ base[f] # base[j]
      PROVE  \E f \in Inst : /\ ReqOf(f) = ReqOf(j)
                             /\ round'[f] = Rounds
                             /\ view'[f] # view'[j] \/ base'[f] # base'[j]
  BY <1>1 DEF Steady
<1>2. CASE outcome[j] = "failed"
  BY <1>1, <1>2 DEF Steady, FailInv
<1>3. CASE outcome[j] # "failed"
  <2>1. Done(j) \/ Failed(j)
    BY <1>3 DEF Steady
  <2>2. round' = round /\ (Done(j) => outcome' = [outcome EXCEPT ![j] = "done"])
    BY <2>1 DEF Done, Failed, libVars
  <2>3. Failed(j) /\ round[j] = Rounds
    BY <2>1, <2>2 DEF IInv, TypeOK
  <2> QED
    BY <1>1, <2>3, FailedMeets
<1> QED
  BY <1>2, <1>3

(***************************************************************************)
(* When one service of a session has a result, every node has a service in *)
(* the last round of the same session, on the same key and shares, and it  *)
(* does not fail.                                                          *)
(***************************************************************************)
LEMMA DoneBacked ==
  ASSUME IInv, RInv, MInv, FailInv, NEW d \in Inst, outcome[d] = "done",
         Solo(ReqOf(d)), NEW n \in Nodes
  PROVE  \E j \in Inst : /\ NodeOf(j) = n
                         /\ ReqOf(j) = ReqOf(d)
                         /\ round[j] = Rounds
                         /\ view[j] = view[d] /\ base[j] = base[d]
                         /\ outcome[j] # "failed"
<1> DEFINE j == view[d][n]
<1>1. /\ j \in Inst /\ NodeOf(j) = n /\ ReqOf(j) = ReqOf(d)
      /\ round[j] = Rounds /\ view[j] = view[d] /\ base[j] = base[d]
  BY DonePeer
<1>2. ASSUME outcome[j] = "failed" PROVE FALSE
  <2>1. PICK f \in Inst : /\ ReqOf(f) = ReqOf(j)
                          /\ round[f] = Rounds
                          /\ view[f] # view[j] \/ base[f] # base[j]
    BY <1>1, <1>2 DEF FailInv
  <2>2. view[f] = view[d] /\ base[f] = base[d]
    BY <1>1, <2>1, SameSession DEF MInv, PostInv
  <2> QED
    BY <1>1, <2>1, <2>2
<1> QED
  BY <1>1, <1>2

(* All invariants of sessions without failures of the library.              *)
LEMMA SoundInvariance ==
  ASSUME Sound
  PROVE  Spec => [](IInv /\ RInv /\ MInv /\ FailInv)
<1>1. Init => RInv /\ MInv /\ FailInv
  <2>1. Init => FailInv
    BY DEF Init, FailInv
  <2> QED
    BY <2>1, InitRInv, InitMInv
<1>2. IInv /\ RInv /\ MInv /\ FailInv /\ [Next]_vars => RInv' /\ MInv' /\ FailInv'
  BY NextRInv, NextMInv, NextFailInv
<1> QED
  BY <1>1, <1>2, Invariance, PTL DEF Spec

(***************************************************************************)
(* A stored key is never the result of a session that fails at another     *)
(* node: every node is in the last round of the session that made it and   *)
(* does not fail, whatever messages, replies and calls are lost, however   *)
(* often peers are called, and whichever nodes and stores stop working.    *)
(***************************************************************************)
THEOREM KeysAreBacked ==
  ASSUME Sound
  PROVE  Spec => []KeyBacked
<1>1. IInv /\ RInv /\ MInv /\ FailInv => KeyBacked
  <2> SUFFICES ASSUME IInv, RInv, MInv, FailInv, NEW m \in Nodes, NEW n \in Nodes,
                      NEW h \in Hashes \ InitKeys, HasKey(m, h)
               PROVE  \E i \in Inst : /\ NodeOf(i) = n
                                      /\ db[m][h].pub = <<h, view[i]>>
                                      /\ round[i] = Rounds
                                      /\ outcome[i] # "failed"
    BY DEF KeyBacked
  <2>1. PICK d \in Inst : StoredBy(d, m, h)
    BY DEF RInv, RecordInv, StoredInv
  <2>2. outcome[d] = "done" /\ ReqOf(d) \in Requests /\ ReqOf(d).kind = "dkg"
        /\ ReqOf(d).hash = h
    BY <2>1, InstFacts DEF StoredBy
  <2>3. KeyOf(h, db[m][h].pub)
    BY DEF IInv, ServiceInv, KeyInv
  <2>4. db[m][h].pub = <<h, view[Own(ReqOf(d))]>>
    BY <2>2, <2>3, RequestFacts DEF KeyOf
  <2>5. view[d] = view[Own(ReqOf(d))] /\ Solo(ReqOf(d))
    BY <2>2, DoneView, DkgSolo
  <2>6. PICK j \in Inst : /\ NodeOf(j) = n
                          /\ round[j] = Rounds
                          /\ view[j] = view[d]
                          /\ outcome[j] # "failed"
    BY <2>2, <2>5, DoneBacked
  <2> QED
    BY <2>4, <2>5, <2>6
<1> QED
  BY <1>1, SoundInvariance, PTL

-----------------------------------------------------------------------------
(* The shares after a reshare.                                              *)

(* A key is reshared by one request.                                        *)
OneReshareEach ==
  \A q, r \in Requests :
    q.kind = "reshare" /\ r.kind = "reshare" /\ q.hash = r.hash => q = r

(* Sessions that end well are stored: nothing stops in between.             *)
Lasting == Faults \cap {"library", "store", "crash"} = {}

ShareInv == RunsInv /\ RefreshInv /\ PlainInv

(* What a save does to a share.                                             *)
LEMMA SavedPlain ==
  ASSUME Lasting, IInv, RInv, NEW i \in Inst, Save(i),
         NEW n \in Nodes, NEW h \in Hashes
  PROVE  \/ db'[n][h] = db[n][h] /\ ~(/\ n = NodeOf(i) /\ h = ReqOf(i).hash
                                      /\ outcome[i] = "done"
                                      /\ ReqOf(i).kind = "reshare")
         \/ /\ n = NodeOf(i) /\ h = ReqOf(i).hash /\ outcome[i] = "done"
            /\ \/ ReqOf(i).kind = "dkg" /\ ~HasKey(n, h) /\ db'[n][h].share.plain = {}
               \/ ReqOf(i).kind = "sign" /\ db'[n][h].type = "sig"
               \/ ReqOf(i).kind = "reshare" /\ db'[n][h].share.plain = Refreshed(i)
<1> DEFINE nd == NodeOf(i)
           g == ReqOf(i).hash
<1>1. nd \in Nodes /\ g \in Hashes /\ ReqOf(i).kind \in Kinds
  BY InstFacts, RequestFields
<1>2. db' = [db EXCEPT ![nd] = Saved(i)] /\ db \in [Nodes -> [Hashes -> Records]]
  BY DEF Lasting, Save, IInv, TypeOK
<1>3. CASE outcome[i] # "done"
  <2>1. Saved(i) = db[nd]
    BY <1>3 DEF Saved
  <2> QED
    BY <1>2, <1>3, <2>1
<1>4. CASE outcome[i] = "done"
  <2>1. PICK rec \in Records : Saved(i) = [db[nd] EXCEPT ![g] = rec]
    BY <1>4, SavedRecord
  <2>2. CASE ~(n = nd /\ h = g)
    BY <1>2, <2>1, <2>2
  <2>3. CASE n = nd /\ h = g
    <3>1. db'[n][h] = Saved(i)[g] /\ g \in DOMAIN db[nd]
      BY <1>1, <1>2, <2>3
    <3>2. CASE ReqOf(i).kind = "dkg"
      <4>1. ~HasKey(n, h)
        BY <1>4, <2>3, <3>2, SavedOnce
      <4>2. Saved(i)[g] = [type |-> "dkg", pub |-> <<g, view[i]>>,
                           share |-> [salt |-> <<g, view[i]>>, plain |-> {}],
                           sig |-> None]
        BY <1>4, <3>1, <3>2 DEF Saved, SaveDKGResultData, Set, Encrypt
      <4> QED
        BY <1>4, <2>3, <3>1, <3>2, <4>1, <4>2
    <3>3. CASE ReqOf(i).kind = "sign"
      <4>1. Saved(i)[g].type = "sig"
        BY <1>4, <3>1, <3>3 DEF Saved, SaveSignerResultData, Set
      <4> QED
        BY <1>4, <2>3, <3>1, <3>3, <4>1
    <3>4. CASE ReqOf(i).kind = "reshare"
      <4>1. Found(db[nd], g)
        BY <1>1, <3>4 DEF Save, IInv, ServiceInv, ReshareInv, HasKey, Found
      <4>2. Saved(i) = UpdateDKGResultData(db[nd], g, Refreshed(i))
        BY <1>4, <3>4 DEF Saved, Refreshed
      <4>3. Saved(i)[g].share.plain = Refreshed(i)
        BY <3>1, <4>1, <4>2 DEF UpdateDKGResultData, Set, Encrypt
      <4> QED
        BY <1>4, <2>3, <3>1, <3>4, <4>3
    <3> QED
      BY <1>1, <3>2, <3>3, <3>4 DEF Kinds
  <2> QED
    BY <2>2, <2>3
<1> QED
  BY <1>3, <1>4

(* A finished reshare is in the last round.                                 *)
LEMMA RefreshedStays ==
  ASSUME IInv, Steady, NEW i \in Inst, outcome[i] = "done"
  PROVE  outcome'[i] = "done" /\ Refreshed(i)' = Refreshed(i)
BY DEF IInv, ServiceInv, DoneInv, Steady, Refreshed

(* A step without a save.                                                   *)
LEMMA ShareFrame ==
  ASSUME Lasting, IInv, ShareInv, Steady, db' = db, \A i \in Inst : ~Save(i)
  PROVE  ShareInv'
<1>1. RunsInv'
  BY DEF Lasting, ShareInv, RunsInv, Steady
<1>2. RefreshInv'
  <2> SUFFICES ASSUME NEW i \in Inst, ReqOf(i).kind = "reshare",
                      outcome'[i] = "done", pc'[i] = "ended"
               PROVE  db[NodeOf(i)][ReqOf(i).hash].share.plain = Refreshed(i)'
    BY DEF RefreshInv
  <2>1. pc[i] = "ended"
    BY DEF Steady
  <2>2. outcome[i] = "done"
    BY <2>1 DEF Steady, Done, Failed, Waiting
  <2> QED
    BY <2>1, <2>2, RefreshedStays DEF ShareInv, RefreshInv
<1>3. PlainInv'
  <2> SUFFICES ASSUME NEW n \in Nodes, NEW h \in Hashes, HasKey(n, h),
                      db[n][h].share.plain # {}
               PROVE  \E i \in Inst : /\ NodeOf(i) = n
                                      /\ ReqOf(i).kind = "reshare"
                                      /\ ReqOf(i).hash = h
                                      /\ outcome'[i] = "done"
                                      /\ db[n][h].share.plain = Refreshed(i)'
    BY DEF PlainInv, HasKey
  <2> QED
    BY RefreshedStays DEF ShareInv, PlainInv
<1> QED
  BY <1>1, <1>2, <1>3 DEF ShareInv

(***************************************************************************)
(* A save: the only reshare of a node's key that ends well is stored once, *)
(* and no DKG is stored after it.                                          *)
(***************************************************************************)
LEMMA SaveShare ==
  ASSUME Lasting, OneReshareEach, IInv, RInv, MInv, ShareInv, Steady,
         NEW k \in Inst, Save(k)
  PROVE  ShareInv'
<1>1. RunsInv'
  BY DEF Lasting, ShareInv, RunsInv, Steady
<1>2. /\ pc[k] \in {"closed", "removed"} /\ outcome' = outcome
      /\ \A i \in Inst : i # k => pc'[i] = pc[i]
  BY DEF Save, IInv, TypeOK
<1>3. RefreshInv'
  <2> SUFFICES ASSUME NEW i \in Inst, ReqOf(i).kind = "reshare",
                      outcome[i] = "done", pc'[i] = "ended"
               PROVE  db'[NodeOf(i)][ReqOf(i).hash].share.plain = Refreshed(i)
    BY <1>2, RefreshedStays DEF RefreshInv
  <2> DEFINE n == NodeOf(i)
             h == ReqOf(i).hash
  <2>1. n \in Nodes /\ h \in Hashes /\ ReqOf(i) \in Requests /\ ReqOf(k) \in Requests
    BY InstFacts, RequestFields
  <2>2. CASE i = k
    BY <2>1, <2>2, SavedPlain
  <2>3. CASE i # k
    <3>1. pc[i] = "ended" /\ db[n][h].share.plain = Refreshed(i)
      BY <1>2, <2>3 DEF ShareInv, RefreshInv
    <3>2. HasKey(n, h)
      BY <3>1 DEF IInv, ServiceInv, ReshareInv
    <3>3. ASSUME n = NodeOf(k), h = ReqOf(k).hash, outcome[k] = "done",
                 ReqOf(k).kind = "reshare"
          PROVE  FALSE
      <4>1. ReqOf(k) = ReqOf(i) /\ Solo(ReqOf(i))
        BY <2>1, <3>3 DEF OneReshareEach, Solo
      <4>2. round[i] = Rounds /\ round[k] = Rounds /\ Rounds >= 2
        BY <3>3, ConstantsAssumption DEF IInv, ServiceInv, DoneInv
      <4> QED
        BY <2>3, <3>3, <4>1, <4>2, OnlyOne DEF MInv, PostInv
    <3>4. ASSUME h = ReqOf(k).hash, ReqOf(k).kind = "sign"
          PROVE  FALSE
      BY <2>1, <3>4, RequestFacts
    <3>5. db'[n][h] = db[n][h]
      BY <2>1, <3>2, <3>3, <3>4, SavedPlain
    <3> QED
      BY <3>1, <3>5
  <2> QED
    BY <2>2, <2>3
<1>4. PlainInv'
  <2> SUFFICES ASSUME NEW n \in Nodes, NEW h \in Hashes, HasKey(n, h)',
                      db'[n][h].share.plain # {}
               PROVE  \E i \in Inst : /\ NodeOf(i) = n
                                      /\ ReqOf(i).kind = "reshare"
                                      /\ ReqOf(i).hash = h
                                      /\ outcome'[i] = "done"
                                      /\ db'[n][h].share.plain = Refreshed(i)'
    BY DEF PlainInv
  <2>1. CASE db'[n][h] = db[n][h]
    <3>1. HasKey(n, h)
      BY <2>1 DEF HasKey
    <3> QED
      BY <2>1, <3>1, RefreshedStays DEF ShareInv, PlainInv
  <2>2. CASE db'[n][h] # db[n][h]
    <3>1. /\ n = NodeOf(k) /\ h = ReqOf(k).hash /\ outcome[k] = "done"
          /\ ReqOf(k).kind = "reshare" /\ db'[n][h].share.plain = Refreshed(k)
      BY <2>2, SavedPlain DEF HasKey
    <3> QED
      BY <3>1, RefreshedStays
  <2> QED
    BY <2>1, <2>2
<1> QED
  BY <1>1, <1>3, <1>4 DEF ShareInv

(***************************************************************************)
(* When no session is left, a key that was reshared by one request has     *)
(* been refreshed by that request at all nodes or at none: all finished    *)
(* services ran one session, and none of it has failed.                    *)
(***************************************************************************)
LEMMA QuietShares ==
  ASSUME OneReshareEach, IInv, RInv, MInv, FailInv, ShareInv, Quiet,
         NEW m \in Nodes, NEW n \in Nodes, NEW h \in Hashes,
         HasKey(m, h), HasKey(n, h), db[m][h].share.plain # {}
  PROVE  db[n][h].share.plain = db[m][h].share.plain
<1>1. PICK i \in Inst : /\ NodeOf(i) = m /\ ReqOf(i).kind = "reshare"
                        /\ ReqOf(i).hash = h /\ outcome[i] = "done"
                        /\ db[m][h].share.plain = Refreshed(i)
  BY DEF ShareInv, PlainInv
<1>2. Solo(ReqOf(i))
  BY <1>1, InstFacts DEF Solo, OneReshareEach
<1>3. PICK j \in Inst : /\ NodeOf(j) = n /\ ReqOf(j) = ReqOf(i)
                        /\ round[j] = Rounds
                        /\ view[j] = view[i] /\ base[j] = base[i]
                        /\ outcome[j] # "failed"
  BY <1>1, <1>2, DoneBacked
<1>4. pc[j] = "ended"
  <2>1. pc[j] # "none"
    BY <1>3, ConstantsAssumption DEF IInv, ServiceInv, RoundInv
  <2> QED
    BY <2>1 DEF Quiet, ShareInv, RunsInv
<1>5. outcome[j] = "done"
  BY <1>3, <1>4 DEF MInv, LifeInv, EndedInv
<1>6. db[n][h].share.plain = Refreshed(j)
  BY <1>1, <1>3, <1>4, <1>5 DEF ShareInv, RefreshInv
<1> QED
  BY <1>1, <1>3, <1>6 DEF Refreshed

(* ShareInv is inductive.                                                   *)
LEMMA ShareInvariance ==
  ASSUME Lasting, OneReshareEach
  PROVE  Spec => [](IInv /\ RInv /\ MInv /\ FailInv /\ ShareInv)
<1>1. Sound
  BY DEF Lasting, Sound
<1>2. Init => ShareInv
  <2>1. Init => RunsInv /\ RefreshInv
    BY DEF Init, RunsInv, RefreshInv
  <2>2. Init => PlainInv
    <3> SUFFICES ASSUME Init, NEW n \in Nodes, NEW h \in Hashes, HasKey(n, h)
                 PROVE  db[n][h].share.plain = {}
      BY DEF PlainInv
    <3>1. db[n][h] = InitRecord(h)
      BY DEF Init, HasKey, NoRecord
    <3> QED
      BY <3>1 DEF InitRecord, Encrypt
  <2> QED
    BY <2>1, <2>2 DEF ShareInv
<1>3. IInv /\ RInv /\ MInv /\ ShareInv /\ [Next]_vars => ShareInv'
  <2> SUFFICES ASSUME IInv, RInv, MInv, ShareInv, [Next]_vars PROVE ShareInv'
    OBVIOUS
  <2>1. Steady
    BY NextMInv
  <2>2. CASE \E k \in Inst : Save(k)
    BY <2>1, <2>2, SaveShare
  <2>3. CASE \A k \in Inst : ~Save(k)
    BY <2>1, <2>3, NextRInv, ShareFrame
  <2> QED
    BY <2>2, <2>3
<1> QED
  BY <1>1, <1>2, <1>3, SoundInvariance, PTL DEF Spec

(***************************************************************************)
(* The shares of a key that is reshared by one request still belong        *)
(* together when all sessions have come to an end, at nodes that keep      *)
(* running with a library and a store that work, whatever messages,        *)
(* replies and calls were lost or repeated and also when the DKG of the    *)
(* key was still under way at some node.                                   *)
(***************************************************************************)
THEOREM SharesFit ==
  ASSUME Lasting, OneReshareEach
  PROVE  Spec => []SharesFitKey
<1>1. IInv /\ RInv /\ MInv /\ FailInv /\ ShareInv => SharesFitKey
  <2> SUFFICES ASSUME IInv, RInv, MInv, FailInv, ShareInv, Quiet,
                      NEW m \in Nodes, NEW n \in Nodes, NEW h \in Hashes,
                      HasKey(m, h), HasKey(n, h)
               PROVE  GenOf(m, h) = GenOf(n, h)
    BY DEF SharesFitKey
  <2>1. db[m][h].share.plain = db[n][h].share.plain
    BY QuietShares
  <2>2. \A x \in {m, n} : GenOf(x, h) = db[x][h].share.plain
    BY DEF GenOf, GetSignerConfig, GetDKGResultData, Decrypt, IInv, ServiceInv,
       SaltInv, HasKey
  <2> QED
    BY <2>1, <2>2
<1> QED
  BY <1>1, ShareInvariance, PTL
=============================================================================

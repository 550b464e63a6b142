-------------------------- MODULE TssProgressProofs --------------------------
(***************************************************************************)
(* Proof that the goroutines of a cluster never wait for each other in     *)
(* vain (NobodyStuck), for every set of nodes, any number of rounds, and   *)
(* requests that do not share their stream protocols: a state in which     *)
(* nobody has anything left to do is one in which every session whose      *)
(* calls were made in time has ended well and was stored.  A session that  *)
(* was called too late may hang; the proof shows that it hurts nobody else *)
(* and that nothing but late calls makes a send give up.                   *)
(***************************************************************************)
EXTENDS TssOutcomeProofs, WellFoundedInduction

-----------------------------------------------------------------------------
(***************************************************************************)
(* The nodes keep running, streams do not break, no call is executed twice *)
(* and what takes long are failed calls; calls may fail, services may be   *)
(* refused, sends may give up and clients may be answered by the timeout.  *)
(***************************************************************************)
Calm == Faults \subseteq {"conn", "refuse", "timeout"}

(* No two requests share a stream protocol, and no key is reshared that is  *)
(* signed with.                                                             *)
Apart ==
  \A r, q \in Requests :
    /\ r.hash = q.hash => r = q
    /\ ~(r.kind = "sign" /\ q.kind = "reshare" /\ q.hash = r.key)

(* The one service that a node has for a request.                           *)
Main(i) == i = <<NodeOf(i), ReqOf(i), 1>>

OnceInv == \A i \in Inst : pc[i] # "none" => Main(i)

(* Where a caller stands.                                                   *)
CallerInv ==
  \A r \in Requests :
    /\ client[r] = "idle" => caller[r] = "idle"
    /\ caller[r] = "idle" => pc[Own(r)] = "none" /\ target[r] = None
    /\ caller[r] \in {"calling", "waiting"} =>
         pc[Own(r)] # "none" /\ client[r] \in {"waiting", "timeout"}
    /\ caller[r] = "returned" /\ pc[Own(r)] # "none" => client[r] \in {"ok", "timeout"}
    /\ caller[r] = "calling" => target[r] \in todo[r] \cup {None}
    /\ caller[r] # "calling" => todo[r] = {}

(* A peer has its service when it has confirmed the call.                   *)
CalledInv ==
  \A i \in Inst :
    Main(i) /\ NodeOf(i) # ReqOf(i).node =>
      (pc[i] # "none" <=>
         pc[Own(ReqOf(i))] # "none" /\ NodeOf(i) \notin todo[ReqOf(i)])

(* A service that may still need messages is registered.                    *)
RegisteredInv ==
  \A i \in Inst :
    pc[i] \in {"created", "running"} => handler[NodeOf(i)][ReqOf(i).hash] = i

(* A stream goes to a service that was created.                             *)
PostedInv == \A s \in streams : pc[s.to] # "none"

(* Where the message of f to x in round q is: not sent yet, in a stream,    *)
(* queued, or handled.                                                      *)
ToCome(x, f, q) ==
  round[f] < q \/ (round[f] = q /\ NodeOf(x) \in out[f])
OnStream(x, f, q) == [to |-> x, from |-> f, round |-> q] \in streams
InQueue(x, f, q) == [from |-> f, round |-> q] \in inbox[x]
Over(x, f, q) ==
  round[x] > q \/ (round[x] = q /\ NodeOf(f) \in seen[x])

Mates(x, f) ==
  Main(x) /\ Main(f) /\ ReqOf(x) = ReqOf(f) /\ NodeOf(x) # NodeOf(f)

(* Nothing is lost but by a send that had to give up, and nothing is there  *)
(* twice.                                                                   *)
NotLost(x, f, q) ==
  \/ Outlasted(ReqOf(f))
  \/ ToCome(x, f, q) \/ OnStream(x, f, q) \/ InQueue(x, f, q) \/ Over(x, f, q)

NotTwice(x, f, q) ==
  /\ ToCome(x, f, q) => ~OnStream(x, f, q) /\ ~InQueue(x, f, q) /\ ~Over(x, f, q)
  /\ OnStream(x, f, q) => ~InQueue(x, f, q) /\ ~Over(x, f, q)
  /\ InQueue(x, f, q) => ~Over(x, f, q)

PlaceInv ==
  \A x, f \in Inst, q \in 1 .. Rounds :
    Mates(x, f) => NotLost(x, f, q) /\ NotTwice(x, f, q)

(* A service handles messages of other nodes and sends while it runs.       *)
PeersInv ==
  \A i \in Inst : /\ seen[i] \subseteq Peers(NodeOf(i))
                  /\ pc[i] # "running" => out[i] = {}

NoFailInv == \A i \in Inst : outcome[i] # "failed"

(* The services of one request have read the same key and share.            *)
SameBaseInv ==
  \A i \in Inst :
    /\ ReqOf(i).kind = "dkg" => base[i] = None
    /\ ReqOf(i).kind # "dkg" /\ pc[i] # "none" =>
         base[i] = [pub |-> base[Own(ReqOf(i))].pub, gen |-> {}]

(* The record that a service has read is still there.                       *)
ReadInv ==
  \A i \in Inst :
    pc[i] # "none" /\ ReqOf(i).kind # "dkg" =>
      HasSignerConfig(db[NodeOf(i)], ReqOf(i).key, base[i].pub)

(* Keys that are there at the start stay.                                   *)
OldKeysInv == \A n \in Nodes, h \in InitKeys : HasKey(n, h)

(* What has been stored.                                                    *)
WrittenInv ==
  \A i \in Inst :
    outcome[i] = "done" /\ pc[i] = "ended" =>
      /\ ReqOf(i).kind = "dkg" => HasKey(NodeOf(i), ReqOf(i).hash)
      /\ ReqOf(i).kind = "sign" => db[NodeOf(i)][ReqOf(i).hash].type = "sig"

(* What has taken too long is not undone.                                   *)
StayLate == \A r \in Requests : Outlasted(r) => Outlasted(r)'

(* What concerns callers, services and messages, and stores.                *)
CallsInvs == OnceInv /\ CallerInv /\ CalledInv

RunInvs == RegisteredInv /\ PostedInv /\ PlaceInv /\ NoFailInv

StoreInvs == SameBaseInv /\ ReadInv /\ OldKeysInv /\ WrittenInv

PInv == CallsInvs /\ RunInvs /\ PeersInv /\ StoreInvs

-----------------------------------------------------------------------------
(* Who belongs together.                                                    *)

(* The services of a request are determined by their nodes.                 *)
LEMMA MainFacts ==
  /\ \A i, j \in Inst :
       Main(i) /\ Main(j) /\ NodeOf(i) = NodeOf(j) /\ ReqOf(i) = ReqOf(j) => i = j
  /\ \A r \in Requests : Main(Own(r))
  /\ \A n \in Nodes, r \in Requests :
       /\ <<n, r, 1>> \in Inst /\ Main(<<n, r, 1>>)
       /\ NodeOf(<<n, r, 1>>) = n /\ ReqOf(<<n, r, 1>>) = r
<1>1. 1 \in 1 .. MaxCalls
  BY ConstantsAssumption
<1>2. \A n \in Nodes, r \in Requests :
       /\ <<n, r, 1>> \in Inst /\ Main(<<n, r, 1>>)
       /\ NodeOf(<<n, r, 1>>) = n /\ ReqOf(<<n, r, 1>>) = r
  BY <1>1, InstFacts DEF Main
<1>3. \A r \in Requests : Main(Own(r))
  BY <1>2, RequestFields DEF Own
<1> QED
  BY <1>2, <1>3 DEF Main

(* A node has one service of a stream protocol.                             *)
LEMMA OneService ==
  ASSUME Apart, OnceInv, NEW i \in Inst, NEW j \in Inst, NodeOf(i) = NodeOf(j),
         ReqOf(i).hash = ReqOf(j).hash, pc[i] # "none", pc[j] # "none"
  PROVE  i = j
<1>1. ReqOf(i) = ReqOf(j)
  BY InstFacts DEF Apart
<1> QED
  BY <1>1, MainFacts DEF OnceInv

(* Services of one protocol at two nodes are mates.                         *)
LEMMA TwoServices ==
  ASSUME Apart, OnceInv, NEW i \in Inst, NEW j \in Inst, NodeOf(i) # NodeOf(j),
         ReqOf(i).hash = ReqOf(j).hash, pc[i] # "none", pc[j] # "none"
  PROVE  Mates(i, j)
BY InstFacts DEF Apart, OnceInv, Mates

(* Past the first round a service has heard the one service of every node.  *)
LEMMA FullView ==
  ASSUME Apart, IInv, RInv, MInv, OnceInv, NEW x \in Inst, round[x] >= 2,
         NEW n \in Nodes
  PROVE  view[x][n] = <<n, ReqOf(x), 1>>
<1>1. Main(x) /\ ReqOf(x) \in Requests
  BY Started, InstFacts DEF IInv, TypeOK, OnceInv
<1>2. CASE n = NodeOf(x)
  BY <1>1, <1>2 DEF RInv, MessageInv, ViewInv, Main
<1>3. CASE n # NodeOf(x)
  <2> DEFINE g == view[x][n]
  <2>1. Heard(x, n)
    BY <1>3 DEF MInv, PostInv, HeardInv, Peers
  <2>2. g \in Inst /\ NodeOf(g) = n /\ ReqOf(g).hash = ReqOf(x).hash /\ round[g] >= 1
    BY <2>1 DEF Heard
  <2>3. ReqOf(g) = ReqOf(x)
    BY <1>1, <2>2, InstFacts DEF Apart
  <2>4. Main(g)
    BY <2>2, Started DEF OnceInv
  <2> QED
    BY <2>2, <2>3, <2>4 DEF Main
<1> QED
  BY <1>2, <1>3

(* Mates past the first round have the same view.                           *)
LEMMA SameView ==
  ASSUME Apart, IInv, RInv, MInv, OnceInv, NEW x \in Inst, NEW f \in Inst,
         ReqOf(x) = ReqOf(f), round[x] >= 2, round[f] >= 2
  PROVE  view[x] = view[f]
<1>1. \A n \in Nodes : view[x][n] = view[f][n]
  BY FullView
<1>2. view[x] \in Views /\ view[f] \in Views
  BY DEF IInv, TypeOK
<1> QED
  BY <1>1, <1>2 DEF Views

(* Who is created has a caller, and mates have the same key and share.      *)
LEMMA SameBase ==
  ASSUME SameBaseInv, NEW x \in Inst, NEW f \in Inst, ReqOf(x) = ReqOf(f),
         pc[x] # "none", pc[f] # "none"
  PROVE  base[x] = base[f]
BY DEF SameBaseInv

(* A service that has come to its end has heard everybody.                  *)
LEMMA EndedIsDone ==
  ASSUME IInv, MInv, ShareInv, NoFailInv, NEW i \in Inst,
         pc[i] \notin {"none", "created", "running"}
  PROVE  outcome[i] = "done" /\ round[i] = Rounds /\ seen[i] = Peers(NodeOf(i))
<1>1. pc[i] \in {"closed", "removed", "ended"}
  BY DEF IInv, TypeOK, PC, ShareInv, RunsInv
<1>2. outcome[i] = "done"
  BY <1>1 DEF MInv, LifeInv, EndedInv, NoFailInv
<1> QED
  BY <1>2 DEF IInv, ServiceInv, DoneInv

(* ... so that nobody has a message for it.                                 *)
LEMMA EndedIsOver ==
  ASSUME IInv, MInv, ShareInv, NoFailInv, NEW x \in Inst, NEW f \in Inst,
         Mates(x, f), pc[x] \notin {"none", "created", "running"},
         NEW q \in 1 .. Rounds
  PROVE  Over(x, f, q)
<1>1. round[x] = Rounds /\ seen[x] = Peers(NodeOf(x))
  BY EndedIsDone
<1>2. NodeOf(f) \in seen[x]
  BY <1>1, InstFacts DEF Mates, Peers
<1>3. q = Rounds \/ Rounds > q
  BY ConstantsAssumption
<1> QED
  BY <1>1, <1>2, <1>3 DEF Over

-----------------------------------------------------------------------------
(* What cannot happen.                                                      *)

(* A message in the queue of a service comes from a mate, and it fits.      *)
LEMMA QueuedFits ==
  ASSUME Apart, IInv, RInv, MInv, PInv, NEW x \in Inst, pc[x] = "running",
         NEW m \in inbox[x], m.round = round[x]
  PROVE  /\ m.from \in Inst /\ Mates(x, m.from)
         /\ m = [from |-> m.from, round |-> m.round]
         /\ InQueue(x, m.from, round[x])
         /\ NodeOf(m.from) \notin seen[x] /\ Fits(x, m)
<1> DEFINE f == m.from
<1>1. /\ m \in Messages /\ f \in Inst /\ NodeOf(f) # NodeOf(x)
      /\ ReqOf(f).hash = ReqOf(x).hash /\ round[x] <= round[f]
  BY DEF IInv, TypeOK, Messages, ServiceInv, InboxInv, Sent, RInv, MessageInv, AwayInv
<1>2. /\ round[x] \in 1 .. Rounds /\ round[f] \in 1 .. Rounds /\ Rounds >= 2
      /\ round[x] \in Nat /\ round[f] \in Nat
  BY <1>1, ConstantsAssumption DEF IInv, TypeOK, ServiceInv, RoundInv
<1>3. pc[f] # "none"
  BY <1>1, <1>2, Started
<1>4. Mates(x, f)
  BY <1>1, <1>3, TwoServices DEF PInv, CallsInvs
<1>5. m = [from |-> m.from, round |-> m.round] /\ InQueue(x, f, round[x])
  BY <1>1 DEF InQueue, Messages
<1>6. NodeOf(f) \notin seen[x]
  BY <1>1, <1>2, <1>4, <1>5 DEF PInv, RunInvs, PlaceInv, NotTwice, Over
<1>7. ReqOf(f) = ReqOf(x)
  BY <1>4 DEF Mates
<1>8. round[x] > 1 => view[x][NodeOf(f)] = f
  <2> SUFFICES ASSUME round[x] >= 2 PROVE view[x][NodeOf(f)] = f
    BY <1>2
  <2>1. view[x][NodeOf(f)] = <<NodeOf(f), ReqOf(x), 1>>
    BY <1>1, FullView, InstFacts DEF PInv, CallsInvs
  <2> QED
    BY <1>4, <1>7, <2>1 DEF Mates, Main
<1>9. round[x] = Rounds => view[f] = view[x] /\ base[f] = base[x]
  <2> SUFFICES ASSUME round[x] = Rounds PROVE view[f] = view[x] /\ base[f] = base[x]
    OBVIOUS
  <2>1. round[x] >= 2 /\ round[f] >= 2
    BY <1>1, <1>2
  <2>2. view[f] = view[x]
    BY <1>1, <1>7, <2>1, SameView DEF PInv, CallsInvs
  <2> QED
    BY <1>1, <1>3, <1>7, <2>2, SameBase DEF PInv, StoreInvs
<1> QED
  BY <1>1, <1>4, <1>5, <1>6, <1>7, <1>8, <1>9 DEF Fits

(* No session fails.                                                        *)
LEMMA NeverFails ==
  ASSUME Calm, Apart, IInv, RInv, MInv, PInv, NEW x \in Inst
  PROVE  ~Failed(x)
BY QueuedFits DEF Calm, Failed, Waiting

(* A message is given up only after calls that took too long: a peer whose  *)
(* handler is gone, or that nobody calls any more, has heard it.            *)
LEMMA LostIsLate ==
  ASSUME Calm, Apart, IInv, RInv, MInv, ShareInv, PInv, NEW i \in Inst,
         NEW m \in Nodes, SendFails(i, m)
  PROVE  Outlasted(ReqOf(i))
<1> SUFFICES ASSUME ~Outlasted(ReqOf(i)) PROVE FALSE
  OBVIOUS
<1> DEFINE r == ReqOf(i)
           s == <<m, r, 1>>
<1>1. /\ pc[i] = "running" /\ m \in out[i] /\ handler[m][r.hash] = None
      /\ Gone(m, r.hash) \/ caller[r] # "calling"
  BY DEF SendFails, GivesUp, Calm
<1>2. m # NodeOf(i) /\ round[i] \in 1 .. Rounds /\ r \in Requests
  BY <1>1, ConstantsAssumption, InstFacts
  DEF RInv, MessageInv, OutInv, Peers, IInv, TypeOK, ServiceInv, RoundInv
<1>3. /\ s \in Inst /\ NodeOf(s) = m /\ ReqOf(s) = r /\ Main(s)
      /\ Own(r) \in Inst /\ NodeOf(Own(r)) = r.node /\ ReqOf(Own(r)) = r
      /\ Main(Own(r)) /\ Main(i)
  BY <1>1, <1>2, MainFacts, InstFacts DEF PInv, CallsInvs, OnceInv
<1>4. caller[r] # "calling" => pc[s] \notin {"none", "created", "running"}
  <2> SUFFICES ASSUME caller[r] # "calling"
               PROVE  pc[s] \notin {"none", "created", "running"}
    OBVIOUS
  <2>1. pc[Own(r)] # "none"
    <3>1. CASE NodeOf(i) = r.node
      BY <1>1, <1>3, <3>1, MainFacts
    <3>2. CASE NodeOf(i) # r.node
      BY <1>1, <1>3, <3>2 DEF PInv, CallsInvs, CalledInv
    <3> QED
      BY <3>1, <3>2
  <2>2. pc[s] # "none"
    <3>1. CASE m = r.node
      BY <1>3, <2>1, <3>1, MainFacts
    <3>2. CASE m # r.node
      <4>1. todo[r] = {}
        BY <1>2 DEF PInv, CallsInvs, CallerInv
      <4> HIDE DEF s
      <4> QED
        BY <1>3, <2>1, <3>2, <4>1 DEF PInv, CallsInvs, CalledInv
    <3> QED
      BY <3>1, <3>2
  <2>3. pc[s] \notin {"created", "running"}
    BY <1>1, <1>3, NoneAssumption DEF PInv, RunInvs, RegisteredInv
  <2> QED
    BY <2>2, <2>3
<1>5. PICK j \in Inst : /\ NodeOf(j) = m /\ ReqOf(j).hash = r.hash
                        /\ pc[j] \notin {"none", "created", "running"}
  <2>1. CASE Gone(m, r.hash)
    BY <2>1 DEF Gone
  <2>2. CASE caller[r] # "calling"
    BY <1>3, <1>4, <2>2
  <2> QED
    BY <1>1, <2>1, <2>2
<1>6. Mates(j, i)
  BY <1>1, <1>2, <1>5, TwoServices DEF PInv, CallsInvs
<1>7. Over(j, i, round[i])
  BY <1>2, <1>5, <1>6, EndedIsOver DEF PInv, RunInvs
<1>8. ToCome(j, i, round[i])
  BY <1>1, <1>5 DEF ToCome
<1> QED
  BY <1>2, <1>6, <1>7, <1>8 DEF PInv, RunInvs, PlaceInv, NotTwice

-----------------------------------------------------------------------------
(* The steps of callers.                                                    *)

(* What a new service changes.                                              *)
LEMMA NewServiceFacts ==
  ASSUME TypeOK, NEW i \in Inst, NEW pub, NewService(i, pub)
  PROVE  /\ pc[i] = "none" /\ pc'[i] = "created"
         /\ \A j \in Inst : j # i => pc'[j] = pc[j] /\ base'[j] = base[j]
         /\ outcome' = outcome
         /\ handler' = [handler EXCEPT ![NodeOf(i)][ReqOf(i).hash] = i]
BY DEF NewService, NewDkgService, NewSignerService, NewReshareService,
       SetStreamHandler, TypeOK

(* A client asks.                                                           *)
LEMMA AcceptCalls ==
  ASSUME IInv, CallsInvs, NEW r \in Requests, NEW pub, Accept(r, pub)
  PROVE  CallsInvs'
<1> DEFINE o == Own(r)
<1>1. /\ o \in Inst /\ NodeOf(o) = r.node /\ ReqOf(o) = r /\ Main(o)
      /\ \A q \in Requests : q # r => Own(q) # o
      /\ \A q \in Requests : Own(q) \in Inst
  BY InstFacts, MainFacts
<1>2. pc[o] = "none" /\ pc'[o] = "created" /\ \A j \in Inst : j # o => pc'[j] = pc[j]
  BY <1>1, NewServiceFacts DEF Accept, IInv
<1>3. /\ client[r] = "idle" /\ caller[r] = "idle" /\ target[r] = None
      /\ client'[r] = "waiting" /\ caller'[r] = "calling" /\ todo'[r] = Peers(r.node)
      /\ \A q \in Requests : q # r =>
           client'[q] = client[q] /\ caller'[q] = caller[q] /\ todo'[q] = todo[q]
      /\ target' = target
  BY DEF Accept, IInv, TypeOK, CallsInvs, CallerInv
<1>4. OnceInv'
  BY <1>1, <1>2 DEF CallsInvs, OnceInv
<1>5. CallerInv'
  <2> SUFFICES ASSUME NEW q \in Requests
               PROVE  /\ client'[q] = "idle" => caller'[q] = "idle"
                      /\ caller'[q] = "idle" => pc'[Own(q)] = "none" /\ target'[q] = None
                      /\ caller'[q] \in {"calling", "waiting"} =>
                           pc'[Own(q)] # "none" /\ client'[q] \in {"waiting", "timeout"}
                      /\ caller'[q] = "returned" /\ pc'[Own(q)] # "none" =>
                           client'[q] \in {"ok", "timeout"}
                      /\ caller'[q] = "calling" => target'[q] \in todo'[q] \cup {None}
                      /\ caller'[q] # "calling" => todo'[q] = {}
    BY DEF CallerInv
  <2>1. CASE q = r
    BY <1>2, <1>3, <2>1
  <2>2. CASE q # r
    <3>1. pc'[Own(q)] = pc[Own(q)]
      BY <1>1, <1>2, <2>2
    <3> QED
      BY <1>3, <2>2, <3>1 DEF CallsInvs, CallerInv
  <2> QED
    BY <2>1, <2>2
<1>6. CalledInv'
  <2> SUFFICES ASSUME NEW i \in Inst, Main(i), NodeOf(i) # ReqOf(i).node
               PROVE  pc'[i] # "none" <=>
                        pc'[Own(ReqOf(i))] # "none" /\ NodeOf(i) \notin todo'[ReqOf(i)]
    BY DEF CalledInv, Main
  <2>1. ReqOf(i) \in Requests /\ NodeOf(i) \in Nodes /\ i # o
    BY <1>1, InstFacts
  <2>2. pc'[i] = pc[i]
    BY <1>2, <2>1
  <2>3. CASE ReqOf(i) = r
    BY <1>2, <1>3, <2>1, <2>2, <2>3 DEF CallsInvs, CalledInv, Peers
  <2>4. CASE ReqOf(i) # r
    BY <1>1, <1>2, <1>3, <2>1, <2>2, <2>4 DEF CallsInvs, CalledInv
  <2> QED
    BY <2>3, <2>4
<1> QED
  BY <1>4, <1>5, <1>6 DEF CallsInvs

(* A peer executes a call once.                                             *)
LEMMA ServesOnce ==
  ASSUME IInv, CallsInvs, NEW r \in Requests, NEW p \in Nodes, Calling(r, p),
         Serve(r, p)
  PROVE  /\ NewService(<<p, r, 1>>, PubOf(r)) /\ <<p, r, 1>> \in Inst
         /\ p # r.node /\ pc[<<p, r, 1>>] = "none"
<1>1. p \in todo[r] /\ p # r.node
  BY DEF Calling, IInv, CallsInv, Peers
<1>2. <<p, r, 1>> \in Inst /\ pc[<<p, r, 1>>] = "none"
  BY <1>1, MainFacts DEF CallsInvs, CalledInv
<1>3. PICK k \in 1 .. MaxCalls :
        /\ \A j \in 1 .. MaxCalls : j < k => pc[<<p, r, j>>] # "none"
        /\ NewService(<<p, r, k>>, PubOf(r))
  BY DEF Serve
<1>4. k = 1
  BY <1>2, <1>3, ConstantsAssumption
<1> QED
  BY <1>1, <1>2, <1>3, <1>4

LEMMA CallPeerCalls ==
  ASSUME IInv, CallsInvs, NEW r \in Requests, NEW p \in Nodes, CallPeer(r, p)
  PROVE  CallsInvs'
<1> DEFINE s == <<p, r, 1>>
<1>1. /\ s \in Inst /\ p # r.node /\ NodeOf(s) = p /\ ReqOf(s) = r /\ Main(s)
      /\ NewService(s, PubOf(r))
      /\ \A q \in Requests : Own(q) \in Inst /\ Own(q) # s
  BY ServesOnce, MainFacts, InstFacts DEF CallPeer
<1>2. pc[s] = "none" /\ pc'[s] = "created" /\ \A j \in Inst : j # s => pc'[j] = pc[j]
  BY <1>1, NewServiceFacts DEF IInv
<1>3. /\ caller[r] = "calling" /\ p \in todo[r]
      /\ todo'[r] = todo[r] \ {p} /\ target'[r] = None
      /\ \A q \in Requests : q # r => target'[q] = target[q] /\ todo'[q] = todo[q]
      /\ UNCHANGED <<client, caller>>
  BY DEF CallPeer, Calling, IInv, TypeOK
<1>4. OnceInv'
  BY <1>1, <1>2 DEF CallsInvs, OnceInv
<1>5. CallerInv'
  <2>1. \A q \in Requests : pc'[Own(q)] = pc[Own(q)]
    BY <1>1, <1>2
  <2> QED
    BY <1>3, <2>1 DEF CallsInvs, CallerInv
<1>6. CalledInv'
  <2> SUFFICES ASSUME NEW i \in Inst, Main(i), NodeOf(i) # ReqOf(i).node
               PROVE  pc'[i] # "none" <=>
                        pc'[Own(ReqOf(i))] # "none" /\ NodeOf(i) \notin todo'[ReqOf(i)]
    BY DEF CalledInv, Main
  <2>1. ReqOf(i) \in Requests /\ pc'[Own(ReqOf(i))] = pc[Own(ReqOf(i))]
    BY <1>1, <1>2, InstFacts
  <2>2. CASE i = s
    BY <1>1, <1>2, <1>3, <2>1, <2>2 DEF CallsInvs, CallerInv
  <2>3. CASE i # s
    <3>1. ReqOf(i) = r => NodeOf(i) # p
      BY <1>1, <2>3, MainFacts
    <3>2. NodeOf(i) \in todo'[ReqOf(i)] <=> NodeOf(i) \in todo[ReqOf(i)]
      BY <1>3, <2>1, <3>1
    <3> QED
      BY <1>2, <2>1, <2>3, <3>2 DEF CallsInvs, CalledInv
  <2> QED
    BY <2>2, <2>3
<1> QED
  BY <1>4, <1>5, <1>6 DEF CallsInvs

(* Nothing but the caller changes.                                          *)
LEMMA CallerCalls ==
  ASSUME IInv, MInv, NoFailInv, CallsInvs, NEW r \in Requests,
         \/ \E pub : Refuse(r, pub)
         \/ \E p \in Nodes : CallPeerFails(r, p)
         \/ AllCalled(r) \/ Return(r) \/ ClientTimeout(r)
  PROVE  CallsInvs'
<1>1. pc' = pc
  BY DEF Refuse, CallPeerFails, AllCalled, Return, ClientTimeout, svcVars
<1>2. OnceInv'
  BY <1>1 DEF CallsInvs, OnceInv
<1>3. todo' = todo
  BY DEF Refuse, CallPeerFails, AllCalled, Return, ClientTimeout
<1>4. CalledInv'
  BY <1>1, <1>3 DEF CallsInvs, CalledInv
<1>5. /\ \A q \in Requests : q # r =>
           client'[q] = client[q] /\ caller'[q] = caller[q] /\ target'[q] = target[q]
      /\ \/ /\ client[r] = "idle" /\ client'[r] = "error"
            /\ caller'[r] = "returned" /\ target'[r] = target[r]
         \/ /\ caller[r] = "calling" /\ caller'[r] = caller[r]
            /\ client'[r] = client[r] /\ target'[r] \in todo[r]
         \/ /\ caller[r] = "calling" /\ todo[r] = {} /\ target'[r] = target[r]
            /\ \/ caller'[r] = "waiting" /\ client'[r] = client[r]
               \/ /\ caller'[r] = "returned"
                  /\ client'[r] = IF client[r] = "waiting" THEN "ok" ELSE client[r]
         \/ /\ caller[r] = "waiting" /\ pc[Own(r)] \in {"closed", "removed", "ended"}
            /\ caller'[r] = "returned" /\ target'[r] = target[r]
            /\ client'[r] = IF client[r] # "waiting" THEN client[r]
                            ELSE IF outcome[Own(r)] = "done" THEN "ok" ELSE "error"
         \/ /\ client[r] = "waiting" /\ client'[r] = "timeout"
            /\ caller'[r] = caller[r] /\ target'[r] = target[r]
  <2> USE DEF IInv, TypeOK
  <2>1. CASE \E pub : Refuse(r, pub)
    BY <2>1 DEF Refuse
  <2>2. CASE \E p \in Nodes : CallPeerFails(r, p)
    BY <2>2 DEF CallPeerFails, Calling
  <2>3. CASE AllCalled(r)
    BY <2>3 DEF AllCalled, Answer
  <2>4. CASE Return(r)
    BY <2>4 DEF Return, Answer
  <2>5. CASE ClientTimeout(r)
    BY <2>5 DEF ClientTimeout
  <2> QED
    BY <2>1, <2>2, <2>3, <2>4, <2>5
<1>6. pc[Own(r)] \in {"closed", "removed", "ended"} => outcome[Own(r)] = "done"
  BY InstFacts DEF MInv, LifeInv, EndedInv, NoFailInv
<1>7. CallerInv'
  BY <1>1, <1>3, <1>5, <1>6 DEF CallsInvs, CallerInv
<1> QED
  BY <1>2, <1>4, <1>7 DEF CallsInvs

(* Services go on and callers do not.                                       *)
LEMMA CallsFrame ==
  ASSUME CallsInvs, UNCHANGED callVars,
         \A i \in Inst : pc'[i] = "none" <=> pc[i] = "none"
  PROVE  CallsInvs'
<1>1. \A r \in Requests : Own(r) \in Inst
  BY InstFacts
<1>2. \A i \in Inst : ReqOf(i) \in Requests
  BY InstFacts
<1>3. OnceInv'
  BY DEF CallsInvs, OnceInv
<1>4. CallerInv'
  BY <1>1 DEF CallsInvs, CallerInv, callVars
<1>5. CalledInv'
  BY <1>1, <1>2 DEF CallsInvs, CalledInv, callVars
<1> QED
  BY <1>3, <1>4, <1>5 DEF CallsInvs

-----------------------------------------------------------------------------
(* Handlers and messages.                                                   *)

(* No message moves.                                                        *)
LEMMA PlaceFrame ==
  ASSUME PlaceInv, StayLate, UNCHANGED <<libVars, streams>>
  PROVE  PlaceInv'
<1>1. \A x, f \in Inst, q \in 1 .. Rounds :
        /\ ToCome(x, f, q)' = ToCome(x, f, q)
        /\ OnStream(x, f, q)' = OnStream(x, f, q)
        /\ InQueue(x, f, q)' = InQueue(x, f, q)
        /\ Over(x, f, q)' = Over(x, f, q)
  BY DEF ToCome, OnStream, InQueue, Over, libVars
<1>2. \A f \in Inst : Outlasted(ReqOf(f)) => Outlasted(ReqOf(f))'
  BY InstFacts DEF StayLate
<1> QED
  BY <1>1, <1>2 DEF PlaceInv, NotLost, NotTwice, Mates, Main

(* The calls do not go on.                                                  *)
LEMMA LateFrame ==
  ASSUME failed' = failed
  PROVE  StayLate
BY DEF StayLate, Outlasted

(* A service is created and takes the place of no other.                    *)
LEMMA NewServiceRun ==
  ASSUME Apart, IInv, RunInvs, CallsInvs', NEW i \in Inst, NEW pub,
         NewService(i, pub), UNCHANGED <<libVars, streams>>, failed' = failed
  PROVE  RunInvs'
<1>1. /\ pc[i] = "none" /\ pc'[i] = "created" /\ outcome' = outcome
      /\ \A j \in Inst : j # i => pc'[j] = pc[j]
      /\ handler' = [handler EXCEPT ![NodeOf(i)][ReqOf(i).hash] = i]
  BY NewServiceFacts DEF IInv
<1>2. NodeOf(i) \in Nodes /\ ReqOf(i).hash \in Hashes
  BY InstFacts, RequestFields
<1>3. RegisteredInv'
  <2> SUFFICES ASSUME NEW j \in Inst, pc'[j] \in {"created", "running"}
               PROVE  handler'[NodeOf(j)][ReqOf(j).hash] = j
    BY DEF RegisteredInv
  <2>1. NodeOf(j) \in Nodes /\ ReqOf(j).hash \in Hashes
    BY InstFacts, RequestFields
  <2>2. CASE j = i
    BY <1>1, <1>2, <2>2 DEF IInv, TypeOK
  <2>3. CASE j # i
    <3>1. ~(NodeOf(i) = NodeOf(j) /\ ReqOf(i).hash = ReqOf(j).hash)
      <4> SUFFICES ASSUME NodeOf(i) = NodeOf(j), ReqOf(i).hash = ReqOf(j).hash
                   PROVE  FALSE
        OBVIOUS
      <4>1. ReqOf(i) = ReqOf(j)
        BY InstFacts DEF Apart
      <4>2. Main(i) /\ Main(j)
        BY <1>1 DEF CallsInvs, OnceInv, Main
      <4> QED
        BY <2>3, <4>1, <4>2, MainFacts
    <3>2. handler'[NodeOf(j)][ReqOf(j).hash] = handler[NodeOf(j)][ReqOf(j).hash]
      BY <1>1, <1>2, <2>1, <3>1 DEF IInv, TypeOK
    <3> QED
      BY <1>1, <2>3, <3>2 DEF RunInvs, RegisteredInv
  <2> QED
    BY <2>2, <2>3
<1>4. PostedInv'
  BY <1>1 DEF RunInvs, PostedInv, IInv, TypeOK, Streams
<1>5. NoFailInv'
  BY <1>1 DEF RunInvs, NoFailInv
<1> QED
  BY <1>3, <1>4, <1>5, PlaceFrame, LateFrame DEF RunInvs

(* Services start, run and end, and keep their handlers while they need     *)
(* messages.                                                                *)
LEMMA LifeRun ==
  ASSUME RunInvs, IInv, UNCHANGED handler,
         \A i \in Inst : pc[i] # "none" => pc'[i] # "none",
         \A i \in Inst : pc'[i] \in {"created", "running"} =>
                           pc[i] \in {"created", "running"},
         \A i \in Inst : outcome'[i] # "failed"
  PROVE  RegisteredInv' /\ NoFailInv' /\ (UNCHANGED streams => PostedInv')
<1>1. RegisteredInv'
  BY DEF RunInvs, RegisteredInv
<1>2. UNCHANGED streams => PostedInv'
  BY DEF RunInvs, PostedInv, IInv, TypeOK, Streams
<1> QED
  BY <1>1, <1>2 DEF NoFailInv

(* The handler that a service removes is its own.                           *)
LEMMA RemoveRun ==
  ASSUME Apart, IInv, RunInvs, CallsInvs, NEW i \in Inst, RemoveStreamHandler(i)
  PROVE  RunInvs'
<1>1. /\ pc[i] = "closed" /\ pc'[i] = "removed"
      /\ \A j \in Inst : j # i => pc'[j] = pc[j]
      /\ handler' = [handler EXCEPT ![NodeOf(i)][ReqOf(i).hash] = None]
      /\ UNCHANGED <<libVars, outcome, streams, failed>>
  BY DEF RemoveStreamHandler, IInv, TypeOK, callVars
<1>2. RegisteredInv'
  <2> SUFFICES ASSUME NEW j \in Inst, pc'[j] \in {"created", "running"}
               PROVE  handler'[NodeOf(j)][ReqOf(j).hash] = j
    BY DEF RegisteredInv
  <2>1. /\ NodeOf(j) \in Nodes /\ ReqOf(j).hash \in Hashes
        /\ NodeOf(i) \in Nodes /\ ReqOf(i).hash \in Hashes
    BY InstFacts, RequestFields
  <2>2. j # i /\ pc[j] \in {"created", "running"}
    BY <1>1
  <2>3. ~(NodeOf(i) = NodeOf(j) /\ ReqOf(i).hash = ReqOf(j).hash)
    BY <1>1, <2>2, OneService DEF CallsInvs
  <2>4. handler'[NodeOf(j)][ReqOf(j).hash] = handler[NodeOf(j)][ReqOf(j).hash]
    BY <1>1, <2>1, <2>3 DEF IInv, TypeOK
  <2> QED
    BY <2>2, <2>4 DEF RunInvs, RegisteredInv
<1>3. PostedInv' /\ NoFailInv'
  BY <1>1 DEF RunInvs, PostedInv, NoFailInv, IInv, TypeOK, Streams
<1> QED
  BY <1>1, <1>2, <1>3, PlaceFrame, LateFrame DEF RunInvs

(* A broadcast begins: its messages were to come before, and what was over  *)
(* for its service stays so.                                                *)
LEMMA BroadcastPlace ==
  ASSUME IInv, MInv, PlaceInv, NEW i \in Inst, Process(i) \/ NextRound(i)
  PROVE  PlaceInv'
<1> DEFINE k == round[i]
<1>1. /\ round'[i] = k + 1 /\ out'[i] = Peers(NodeOf(i)) /\ seen'[i] = {}
      /\ \A j \in Inst : j # i =>
           round'[j] = round[j] /\ out'[j] = out[j] /\ seen'[j] = seen[j]
      /\ UNCHANGED <<inbox, streams>>
      /\ k \in Nat /\ \A j \in Inst : round[j] \in Nat
      /\ k = 0 \/ (out[i] = {} /\ seen[i] = Peers(NodeOf(i)))
  <2> USE DEF IInv, TypeOK
  <2>1. CASE Process(i)
    <3>1. k = 0 /\ seen[i] = {}
      BY <2>1 DEF Process, ServiceInv, RoundInv, MInv, PostInv, HeardInv
    <3> QED
      BY <2>1, <3>1, ConstantsAssumption DEF Process
  <2>2. CASE NextRound(i)
    BY <2>2, ConstantsAssumption DEF NextRound
  <2> QED
    BY <2>1, <2>2
<1>2. ASSUME NEW x \in Inst, NEW f \in Inst, NEW q \in 1 .. Rounds, Mates(x, f)
      PROVE  /\ ToCome(x, f, q)' <=> ToCome(x, f, q)
             /\ OnStream(x, f, q)' <=> OnStream(x, f, q)
             /\ InQueue(x, f, q)' <=> InQueue(x, f, q)
             /\ Over(x, f, q)' <=> Over(x, f, q)
  <2>1. /\ q \in Nat /\ q >= 1 /\ NodeOf(x) # NodeOf(f)
        /\ NodeOf(x) \in Nodes /\ NodeOf(f) \in Nodes
    BY <1>2, ConstantsAssumption, InstFacts DEF Mates
  <2>2. OnStream(x, f, q)' <=> OnStream(x, f, q)
    BY <1>1 DEF OnStream
  <2>3. InQueue(x, f, q)' <=> InQueue(x, f, q)
    BY <1>1 DEF InQueue
  <2>4. ToCome(x, f, q)' <=> ToCome(x, f, q)
    <3>1. CASE f = i
      <4>1. NodeOf(x) \in Peers(NodeOf(i))
        BY <2>1, <3>1 DEF Peers
      <4>2. k < q <=> (k + 1 < q \/ k + 1 = q)
        BY <1>1, <2>1
      <4>3. k = q => out[i] = {}
        BY <1>1, <2>1
      <4> QED
        BY <1>1, <3>1, <4>1, <4>2, <4>3 DEF ToCome
    <3>2. CASE f # i
      BY <1>1, <3>2 DEF ToCome
    <3> QED
      BY <3>1, <3>2
  <2>5. Over(x, f, q)' <=> Over(x, f, q)
    <3>1. CASE x = i
      <4>1. NodeOf(f) \in Peers(NodeOf(i))
        BY <2>1, <3>1 DEF Peers
      <4>2. k + 1 > q <=> (k > q \/ k = q)
        BY <1>1, <2>1
      <4>3. k = q => seen[i] = Peers(NodeOf(i))
        BY <1>1, <2>1
      <4> QED
        BY <1>1, <3>1, <4>1, <4>2, <4>3 DEF Over
    <3>2. CASE x # i
      BY <1>1, <3>2 DEF Over
    <3> QED
      BY <3>1, <3>2
  <2> QED
    BY <2>2, <2>3, <2>4, <2>5
<1>3. \A f \in Inst : Outlasted(ReqOf(f))' <=> Outlasted(ReqOf(f))
  BY DEF Process, NextRound, callVars, Outlasted
<1> QED
  BY <1>2, <1>3 DEF PlaceInv, NotLost, NotTwice, Mates, Main

(* A message goes to the mate at that node.                                 *)
LEMMA SendPlace ==
  ASSUME Apart, IInv, RInv, MInv, PInv, NEW i \in Inst, NEW m \in Nodes, Send(i, m)
  PROVE  PlaceInv' /\ PostedInv'
<1> DEFINE h == handler[m][ReqOf(i).hash]
           k == round[i]
<1>1. /\ pc[i] = "running" /\ m \in out[i] /\ h # None /\ pc' = pc
      /\ streams' = streams \cup {[to |-> h, from |-> i, round |-> k]}
      /\ out'[i] = out[i] \ {m} /\ \A j \in Inst : j # i => out'[j] = out[j]
      /\ UNCHANGED <<round, seen, inbox, failed>>
  BY DEF Send, svcVars, callVars, IInv, TypeOK
<1>2. ReqOf(i).hash \in Hashes /\ m # NodeOf(i) /\ k \in 1 .. Rounds
  BY <1>1, InstFacts, RequestFields, ConstantsAssumption
  DEF RInv, MessageInv, OutInv, Peers, IInv, TypeOK, ServiceInv, RoundInv
<1>3. /\ h \in Inst /\ NodeOf(h) = m /\ ReqOf(h).hash = ReqOf(i).hash
      /\ pc[h] # "none"
  BY <1>1, <1>2 DEF IInv, TypeOK, ServiceInv, HandlerInv, MInv, LifeInv, MadeInv
<1>4. Mates(h, i)
  BY <1>1, <1>2, <1>3, TwoServices DEF PInv, CallsInvs
<1>5. PostedInv'
  BY <1>1, <1>3 DEF PInv, RunInvs, PostedInv
<1>6. ASSUME NEW x \in Inst, NEW f \in Inst, NEW q \in 1 .. Rounds, Mates(x, f)
      PROVE  NotLost(x, f, q)' /\ NotTwice(x, f, q)'
  <2>0. Outlasted(ReqOf(f))' <=> Outlasted(ReqOf(f))
    BY <1>1 DEF Outlasted
  <2>1. NotLost(x, f, q) /\ NotTwice(x, f, q)
    BY <1>6 DEF PInv, RunInvs, PlaceInv
  <2>2. InQueue(x, f, q)' <=> InQueue(x, f, q)
    BY <1>1 DEF InQueue
  <2>3. Over(x, f, q)' <=> Over(x, f, q)
    BY <1>1 DEF Over
  <2>4. CASE x = h /\ f = i /\ q = k
    <3>1. ToCome(x, f, q)
      BY <1>1, <1>3, <2>4 DEF ToCome
    <3>2. ~ToCome(x, f, q)'
      BY <1>1, <1>3, <2>4, <1>2, ConstantsAssumption DEF ToCome
    <3>3. OnStream(x, f, q)'
      BY <1>1, <2>4 DEF OnStream
    <3> QED
      BY <2>0, <2>1, <2>2, <2>3, <3>1, <3>2, <3>3 DEF NotLost, NotTwice
  <2>5. CASE ~(x = h /\ f = i /\ q = k)
    <3>1. OnStream(x, f, q)' <=> OnStream(x, f, q)
      BY <1>1, <2>5 DEF OnStream
    <3>2. f = i /\ q = k => NodeOf(x) # m
      BY <1>3, <1>4, <1>6, <2>5, MainFacts DEF Mates
    <3>3. ToCome(x, f, q)' <=> ToCome(x, f, q)
      BY <1>1, <3>2 DEF ToCome
    <3> QED
      BY <2>0, <2>1, <2>2, <2>3, <3>1, <3>3 DEF NotLost, NotTwice
  <2> QED
    BY <2>4, <2>5
<1>7. PlaceInv'
  BY <1>6 DEF PlaceInv, Mates, Main
<1> QED
  BY <1>5, <1>7

(* A message that is given up after late calls.                             *)
LEMMA SendFailsPlace ==
  ASSUME IInv, PlaceInv, NEW i \in Inst, NEW m \in Nodes, SendFails(i, m),
         Outlasted(ReqOf(i))
  PROVE  PlaceInv'
<1>1. /\ out'[i] = out[i] \ {m} /\ \A j \in Inst : j # i => out'[j] = out[j]
      /\ UNCHANGED <<round, seen, inbox, streams, failed>>
  BY DEF SendFails, callVars, IInv, TypeOK
<1>2. ASSUME NEW x \in Inst, NEW f \in Inst, NEW q \in 1 .. Rounds, Mates(x, f)
      PROVE  NotLost(x, f, q)' /\ NotTwice(x, f, q)'
  <2>1. NotLost(x, f, q) /\ NotTwice(x, f, q)
    BY <1>2 DEF PlaceInv
  <2>2. Outlasted(ReqOf(f))' <=> Outlasted(ReqOf(f))
    BY <1>1 DEF Outlasted
  <2>3. /\ OnStream(x, f, q)' <=> OnStream(x, f, q)
        /\ InQueue(x, f, q)' <=> InQueue(x, f, q)
        /\ Over(x, f, q)' <=> Over(x, f, q)
    BY <1>1 DEF OnStream, InQueue, Over
  <2>4. ToCome(x, f, q)' => ToCome(x, f, q)
    BY <1>1 DEF ToCome
  <2>5. f # i => (ToCome(x, f, q)' <=> ToCome(x, f, q))
    BY <1>1 DEF ToCome
  <2>6. NotTwice(x, f, q)'
    BY <2>1, <2>3, <2>4 DEF NotTwice
  <2> QED
    BY <2>1, <2>2, <2>3, <2>5, <2>6 DEF NotLost
<1> QED
  BY <1>2 DEF PlaceInv, Mates, Main

(* Handle drops nothing that is still needed.                               *)
LEMMA HandlePlace ==
  ASSUME IInv, MInv, ShareInv, PInv, NEW s \in streams, Handle(s)
  PROVE  PlaceInv' /\ PostedInv'
<1> DEFINE i == s.to
           g == s.from
           k == s.round
           m == [from |-> g, round |-> k]
<1>1. /\ s \in Streams /\ i \in Inst /\ g \in Inst /\ k \in 1 .. Rounds
      /\ s = [to |-> i, from |-> g, round |-> k]
  BY DEF IInv, TypeOK, Streams
<1>2. streams' = streams \ {s} /\ UNCHANGED <<pc, round, seen, out, failed>>
  BY DEF Handle, svcVars, callVars
<1>3. PostedInv'
  BY <1>2 DEF PInv, RunInvs, PostedInv
<1>4. inbox' = [inbox EXCEPT ![i] = @ \cup {m}] \/ inbox' = inbox
  BY DEF Handle
<1>5. Mates(i, g) => inbox' = [inbox EXCEPT ![i] = @ \cup {m}]
  <2> SUFFICES ASSUME Mates(i, g) PROVE inbox' = [inbox EXCEPT ![i] = @ \cup {m}]
    OBVIOUS
  <2>1. OnStream(i, g, k)
    BY <1>1 DEF OnStream
  <2>2. ~Over(i, g, k)
    BY <1>1, <2>1 DEF PInv, RunInvs, PlaceInv, NotTwice
  <2>3. pc[i] \in {"created", "running"}
    BY <1>1, <2>2, EndedIsOver DEF PInv, RunInvs, PostedInv
  <2>4. ~(k < round[i])
    BY <1>1, <2>2, ConstantsAssumption DEF Over, IInv, TypeOK
  <2>5. ReqOf(g).kind = ReqOf(i).kind
    BY DEF Mates
  <2> QED
    BY <2>3, <2>4, <2>5 DEF Handle
<1>6. ASSUME NEW x \in Inst, NEW f \in Inst, NEW q \in 1 .. Rounds, Mates(x, f)
      PROVE  NotLost(x, f, q)' /\ NotTwice(x, f, q)'
  <2>0. Outlasted(ReqOf(f))' <=> Outlasted(ReqOf(f))
    BY <1>2 DEF Outlasted
  <2>1. NotLost(x, f, q) /\ NotTwice(x, f, q)
    BY <1>6 DEF PInv, RunInvs, PlaceInv
  <2>2. (ToCome(x, f, q)' <=> ToCome(x, f, q)) /\ (Over(x, f, q)' <=> Over(x, f, q))
    BY <1>2 DEF ToCome, Over
  <2>3. CASE x = i /\ f = g /\ q = k
    <3>1. OnStream(x, f, q)
      BY <1>1, <2>3 DEF OnStream
    <3>2. ~OnStream(x, f, q)'
      BY <1>1, <1>2, <2>3 DEF OnStream
    <3>3. InQueue(x, f, q)'
      BY <1>1, <1>5, <1>6, <2>3 DEF InQueue, IInv, TypeOK
    <3> QED
      BY <2>0, <2>1, <2>2, <3>1, <3>2, <3>3 DEF NotLost, NotTwice
  <2>4. CASE ~(x = i /\ f = g /\ q = k)
    <3>1. OnStream(x, f, q)' <=> OnStream(x, f, q)
      BY <1>1, <1>2, <2>4 DEF OnStream
    <3>2. InQueue(x, f, q)' <=> InQueue(x, f, q)
      BY <1>1, <1>4, <2>4 DEF InQueue, IInv, TypeOK
    <3> QED
      BY <2>0, <2>1, <2>2, <3>1, <3>2 DEF NotLost, NotTwice
  <2> QED
    BY <2>3, <2>4
<1>7. PlaceInv'
  BY <1>6 DEF PlaceInv, Mates, Main
<1> QED
  BY <1>3, <1>7

(* A queued message is handled.                                             *)
LEMMA HandleMessagePlace ==
  ASSUME Apart, IInv, RInv, MInv, PInv, NEW i \in Inst, NEW m \in inbox[i],
         HandleMessage(i, m)
  PROVE  PlaceInv'
<1> DEFINE g == m.from
           k == round[i]
<1>1. /\ pc[i] = "running" /\ m.round = k
      /\ inbox' = [inbox EXCEPT ![i] = @ \ {m}]
      /\ seen' = [seen EXCEPT ![i] = @ \cup {NodeOf(g)}]
      /\ UNCHANGED <<round, out, streams, failed>>
  BY DEF HandleMessage, Waiting, callVars
<1>2. g \in Inst /\ Mates(i, g) /\ m = [from |-> g, round |-> k] /\ InQueue(i, g, k)
  BY <1>1, QueuedFits
<1>3. k \in Nat
  BY ConstantsAssumption DEF IInv, TypeOK
<1>4. ASSUME NEW x \in Inst, NEW f \in Inst, NEW q \in 1 .. Rounds, Mates(x, f)
      PROVE  NotLost(x, f, q)' /\ NotTwice(x, f, q)'
  <2>0. Outlasted(ReqOf(f))' <=> Outlasted(ReqOf(f))
    BY <1>1 DEF Outlasted
  <2>1. NotLost(x, f, q) /\ NotTwice(x, f, q)
    BY <1>4 DEF PInv, RunInvs, PlaceInv
  <2>2. /\ ToCome(x, f, q)' <=> ToCome(x, f, q)
        /\ OnStream(x, f, q)' <=> OnStream(x, f, q)
    BY <1>1 DEF ToCome, OnStream
  <2>3. CASE x = i /\ f = g /\ q = k
    <3>1. InQueue(x, f, q)
      BY <1>2, <2>3
    <3>2. ~InQueue(x, f, q)'
      BY <1>1, <1>2, <2>3 DEF InQueue, IInv, TypeOK
    <3>3. Over(x, f, q)'
      BY <1>1, <2>3 DEF Over, IInv, TypeOK
    <3> QED
      BY <2>0, <2>1, <2>2, <3>1, <3>2, <3>3 DEF NotLost, NotTwice
  <2>4. CASE ~(x = i /\ f = g /\ q = k)
    <3>1. InQueue(x, f, q)' <=> InQueue(x, f, q)
      BY <1>1, <1>2, <2>4 DEF InQueue, IInv, TypeOK
    <3>2. x = i /\ q = k => NodeOf(f) # NodeOf(g)
      BY <1>2, <1>4, <2>4, MainFacts DEF Mates
    <3>3. Over(x, f, q)' <=> Over(x, f, q)
      <4>1. CASE x = i
        BY <1>1, <3>2, <4>1 DEF Over, IInv, TypeOK
      <4>2. CASE x # i
        BY <1>1, <4>2 DEF Over, IInv, TypeOK
      <4> QED
        BY <4>1, <4>2
    <3> QED
      BY <2>0, <2>1, <2>2, <3>1, <3>3 DEF NotLost, NotTwice
  <2> QED
    BY <2>3, <2>4
<1> QED
  BY <1>4 DEF PlaceInv, Mates, Main

-----------------------------------------------------------------------------
(* Keys, shares and stores.                                                 *)

(* A signer or a reshare reads a share that nothing has refreshed.          *)
LEMMA FreshShare ==
  ASSUME Apart, IInv, ShareInv, CallsInvs, NEW i \in Inst, Main(i), NEW pub,
         NewService(i, pub)
  PROVE  /\ ReqOf(i).kind = "dkg" => base'[i] = None
         /\ ReqOf(i).kind # "dkg" => base'[i] = [pub |-> pub, gen |-> {}]
<1> DEFINE n == NodeOf(i)
           r == ReqOf(i)
<1>1. n \in Nodes /\ r \in Requests /\ r.key \in Hashes /\ r.kind \in Kinds
      /\ (r.kind # "sign" => r.key = r.hash)
  BY InstFacts, RequestFields, RequestFacts
<1>2. CASE r.kind = "dkg"
  BY <1>2 DEF NewService, NewDkgService, NewSignerService, NewReshareService,
     SetStreamHandler, IInv, TypeOK
<1>3. CASE r.kind # "dkg"
  <2>1. /\ HasSignerConfig(db[n], r.key, pub) /\ pc[i] = "none"
        /\ base'[i] = GetSignerConfig(db[n], r.key, pub)
    BY <1>1, <1>3 DEF NewService, NewDkgService, NewSignerService, NewReshareService,
       SetStreamHandler, IInv, TypeOK, Kinds
  <2>2. HasKey(n, r.key)
    BY <1>1, <2>1, ReadConfig DEF IInv, ServiceInv
  <2>3. db[n][r.key].share.plain = {}
    <3> SUFFICES ASSUME NEW j \in Inst, NodeOf(j) = n, ReqOf(j).kind = "reshare",
                        ReqOf(j).hash = r.key, outcome[j] = "done"
                 PROVE  FALSE
      BY <1>1, <2>2 DEF ShareInv, PlainInv
    <3>1. pc[j] # "none"
      BY DEF IInv, ServiceInv, RoundInv
    <3>2. r.kind = "reshare" /\ ReqOf(j) = r
      BY <1>1, <1>3, InstFacts DEF Apart, Kinds
    <3>3. Main(j)
      BY <3>1 DEF CallsInvs, OnceInv
    <3>4. j = i
      BY <3>2, <3>3, MainFacts
    <3> QED
      BY <2>1, <3>1, <3>4
  <2>4. GetSignerConfig(db[n], r.key, pub) = [pub |-> pub, gen |-> {}]
    BY <1>1, <2>1, <2>2, <2>3
    DEF GetSignerConfig, GetDKGResultData, Decrypt, HasSignerConfig, HasKey, IInv,
        ServiceInv, SaltInv
  <2> QED
    BY <1>3, <2>1, <2>4
<1> QED
  BY <1>2, <1>3

(* The service of the asked node is the first of its request.               *)
LEMMA NewServiceBase ==
  ASSUME Apart, IInv, ShareInv, CallsInvs, SameBaseInv, NEW i \in Inst, Main(i),
         NEW pub, NewService(i, pub),
         i = Own(ReqOf(i)) \/ (pub = PubOf(ReqOf(i)) /\ pc[Own(ReqOf(i))] # "none")
  PROVE  SameBaseInv'
<1> DEFINE r == ReqOf(i)
           o == Own(ReqOf(i))
<1>1. /\ pc[i] = "none" /\ pc'[i] = "created"
      /\ \A j \in Inst : j # i => pc'[j] = pc[j] /\ base'[j] = base[j]
  BY NewServiceFacts DEF IInv
<1>2. /\ r.kind = "dkg" => base'[i] = None
      /\ r.kind # "dkg" => base'[i] = [pub |-> pub, gen |-> {}]
  BY FreshShare
<1>3. r \in Requests /\ o \in Inst /\ ReqOf(o) = r
  BY InstFacts
<1>4. r.kind # "dkg" => base'[o].pub = pub
  <2>1. CASE i = o
    BY <1>2, <2>1
  <2>2. CASE i # o
    BY <1>1, <1>3, <2>2 DEF PubOf
  <2> QED
    BY <2>1, <2>2
<1> SUFFICES ASSUME NEW j \in Inst
             PROVE  /\ ReqOf(j).kind = "dkg" => base'[j] = None
                    /\ ReqOf(j).kind # "dkg" /\ pc'[j] # "none" =>
                         base'[j] = [pub |-> base'[Own(ReqOf(j))].pub, gen |-> {}]
  BY DEF SameBaseInv
<1>5. CASE j = i
  BY <1>2, <1>4, <1>5
<1>6. CASE j # i
  <2>1. Own(ReqOf(j)) \in Inst /\ ReqOf(Own(ReqOf(j))) = ReqOf(j)
    BY InstFacts
  <2>2. CASE Own(ReqOf(j)) # i
    BY <1>1, <1>6, <2>1, <2>2 DEF SameBaseInv
  <2>3. CASE Own(ReqOf(j)) = i
    <3>1. ReqOf(j) = r /\ i = o
      BY <2>1, <2>3
    <3>2. pc[j] = "none"
      <4>1. CASE Main(j) /\ NodeOf(j) # ReqOf(j).node
        BY <1>1, <2>3, <4>1 DEF CallsInvs, CalledInv
      <4>2. CASE Main(j) /\ NodeOf(j) = ReqOf(j).node
        BY <1>3, <1>6, <3>1, <4>2, MainFacts, InstFacts
      <4>3. CASE ~Main(j)
        BY <4>3 DEF CallsInvs, OnceInv
      <4> QED
        BY <4>1, <4>2, <4>3
    <3> QED
      BY <1>1, <1>6, <3>2 DEF SameBaseInv
  <2> QED
    BY <2>2, <2>3
<1> QED
  BY <1>5, <1>6

(* Steps that write no store; results and ends are final.                   *)
LEMMA StoreFrame ==
  ASSUME IInv, OldKeysInv, WrittenInv, Steady, db' = db,
         \A i \in Inst : pc'[i] = "ended" => pc[i] = "ended"
  PROVE  OldKeysInv' /\ WrittenInv'
<1>1. OldKeysInv'
  BY DEF OldKeysInv, HasKey
<1>2. WrittenInv'
  <2> SUFFICES ASSUME NEW i \in Inst, outcome'[i] = "done", pc'[i] = "ended"
               PROVE  /\ ReqOf(i).kind = "dkg" => HasKey(NodeOf(i), ReqOf(i).hash)
                      /\ ReqOf(i).kind = "sign" =>
                           db[NodeOf(i)][ReqOf(i).hash].type = "sig"
    BY DEF WrittenInv, HasKey
  <2>1. pc[i] = "ended"
    OBVIOUS
  <2>2. outcome[i] = "done"
    BY <2>1 DEF Steady, Done, Failed, Waiting
  <2> QED
    BY <2>1, <2>2 DEF WrittenInv
<1> QED
  BY <1>1, <1>2

(* A save writes what a session promises, and takes nothing away.           *)
LEMMA SaveStore ==
  ASSUME Calm, Apart, IInv, OldKeysInv, WrittenInv, NEW k \in Inst, Save(k)
  PROVE  OldKeysInv' /\ WrittenInv'
<1> DEFINE nd == NodeOf(k)
           g == ReqOf(k).hash
<1>1. nd \in Nodes /\ g \in Hashes /\ ReqOf(k) \in Requests /\ ReqOf(k).kind \in Kinds
  BY InstFacts, RequestFields
<1>2. /\ db' = [db EXCEPT ![nd] = Saved(k)] /\ db \in [Nodes -> [Hashes -> Records]]
      /\ outcome' = outcome /\ \A i \in Inst : i # k => pc'[i] = pc[i]
  BY DEF Save, Calm, IInv, TypeOK
<1>3. OldKeysInv'
  BY SaveKeepsKeys, ConstantsAssumption DEF OldKeysInv
<1>4. ASSUME outcome[k] = "done"
      PROVE  /\ ReqOf(k).kind = "dkg" => HasKey(nd, g)'
             /\ ReqOf(k).kind = "sign" => db'[nd][g].type = "sig"
             /\ \A n \in Nodes, h \in Hashes :
                  ~(n = nd /\ h = g) => db'[n][h] = db[n][h]
  <2>1. PICK rec \in Records :
          /\ Saved(k) = [db[nd] EXCEPT ![g] = rec]
          /\ ReqOf(k).kind = "dkg" => rec.type = "dkg"
          /\ ReqOf(k).kind = "sign" => rec.type = "sig"
    BY <1>4, SavedRecord
  <2> QED
    BY <1>1, <1>2, <2>1 DEF HasKey
<1>5. outcome[k] # "done" => db' = db
  BY <1>1, <1>2 DEF Saved
<1>6. WrittenInv'
  <2> SUFFICES ASSUME NEW i \in Inst, outcome[i] = "done", pc'[i] = "ended"
               PROVE  /\ ReqOf(i).kind = "dkg" => HasKey(NodeOf(i), ReqOf(i).hash)'
                      /\ ReqOf(i).kind = "sign" =>
                           db'[NodeOf(i)][ReqOf(i).hash].type = "sig"
    BY <1>2 DEF WrittenInv
  <2>1. NodeOf(i) \in Nodes /\ ReqOf(i).hash \in Hashes /\ ReqOf(i) \in Requests
    BY InstFacts, RequestFields
  <2>2. CASE i = k
    BY <1>4, <2>2
  <2>3. CASE i # k
    <3>1. pc[i] = "ended"
      BY <1>2, <2>3
    <3>2. ReqOf(i).kind = "dkg" => HasKey(NodeOf(i), ReqOf(i).hash)'
      BY <2>1, <3>1, SaveKeepsKeys DEF WrittenInv
    <3>3. CASE ReqOf(i).kind = "sign" /\ outcome[k] = "done"
      <4>1. db[NodeOf(i)][ReqOf(i).hash].type = "sig"
        BY <3>1, <3>3 DEF WrittenInv
      <4>2. g = ReqOf(i).hash => ReqOf(k).kind = "sign"
        BY <1>1, <2>1, <3>3 DEF Apart
      <4> QED
        BY <1>4, <2>1, <3>2, <3>3, <4>1, <4>2
    <3>4. CASE ReqOf(i).kind # "sign" \/ outcome[k] # "done"
      BY <1>5, <3>1, <3>2, <3>4 DEF WrittenInv
    <3> QED
      BY <3>3, <3>4
  <2> QED
    BY <2>2, <2>3
<1> QED
  BY <1>3, <1>6

(* What a service has read stays: no step takes a key away.                 *)
LEMMA ReadFrame ==
  ASSUME IInv, ReadInv, UNCHANGED base,
         \A j \in Inst : pc'[j] # "none" => pc[j] # "none",
         db' = db \/ \E k \in Inst : Save(k)
  PROVE  ReadInv'
<1> SUFFICES ASSUME NEW i \in Inst, pc'[i] # "none", ReqOf(i).kind # "dkg"
             PROVE  HasSignerConfig(db'[NodeOf(i)], ReqOf(i).key, base[i].pub)
  BY DEF ReadInv
<1>1. HasSignerConfig(db[NodeOf(i)], ReqOf(i).key, base[i].pub)
  BY DEF ReadInv
<1>2. CASE db' = db
  BY <1>1, <1>2
<1>3. ASSUME NEW k \in Inst, Save(k)
      PROVE  HasSignerConfig(db'[NodeOf(i)], ReqOf(i).key, base[i].pub)
  <2>1. NodeOf(i) \in Nodes /\ ReqOf(i).key \in Hashes
    BY InstFacts, RequestFields
  <2>2. HasKey(NodeOf(i), ReqOf(i).key)
    BY <1>1, <2>1, ReadConfig DEF IInv, ServiceInv
  <2>3. /\ HasKey(NodeOf(i), ReqOf(i).key)'
        /\ db'[NodeOf(i)][ReqOf(i).key].pub = db[NodeOf(i)][ReqOf(i).key].pub
    BY <1>3, <2>1, <2>2, SaveKeepsKeys
  <2> QED
    BY <1>1, <2>2, <2>3 DEF HasSignerConfig, GetDKGResultData, Found, HasKey
<1> QED
  BY <1>2, <1>3

(* A new service has just read its record.                                  *)
LEMMA NewServiceRead ==
  ASSUME IInv, ReadInv, NEW i \in Inst, NEW pub, NewService(i, pub), db' = db
  PROVE  ReadInv'
<1>1. /\ pc[i] = "none"
      /\ \A j \in Inst : j # i => pc'[j] = pc[j] /\ base'[j] = base[j]
  BY NewServiceFacts DEF IInv
<1>2. ReqOf(i).kind # "dkg" =>
        HasSignerConfig(db[NodeOf(i)], ReqOf(i).key, base'[i].pub)
  <2> SUFFICES ASSUME ReqOf(i).kind # "dkg"
               PROVE  HasSignerConfig(db[NodeOf(i)], ReqOf(i).key, base'[i].pub)
    OBVIOUS
  <2>1. ReqOf(i).kind # "sign" => ReqOf(i).key = ReqOf(i).hash
    BY InstFacts, RequestFacts
  <2>2. /\ HasSignerConfig(db[NodeOf(i)], ReqOf(i).key, pub)
        /\ base'[i] = GetSignerConfig(db[NodeOf(i)], ReqOf(i).key, pub)
    BY <2>1 DEF NewService, NewDkgService, NewSignerService, NewReshareService,
       SetStreamHandler, IInv, TypeOK
  <2> QED
    BY <2>2 DEF GetSignerConfig
<1> QED
  BY <1>1, <1>2 DEF ReadInv

-----------------------------------------------------------------------------
(* The invariant.                                                           *)

LEMMA InitPInv == Init => PInv
<1> SUFFICES ASSUME Init PROVE PInv
  OBVIOUS
<1>1. CallsInvs
  BY InstFacts DEF Init, CallsInvs, OnceInv, CallerInv, CalledInv
<1>2. RegisteredInv /\ PostedInv /\ NoFailInv /\ PeersInv
  BY DEF Init, RegisteredInv, PostedInv, NoFailInv, PeersInv
<1>3. PlaceInv
  <2> SUFFICES ASSUME NEW x \in Inst, NEW f \in Inst, NEW q \in 1 .. Rounds
               PROVE  NotLost(x, f, q) /\ NotTwice(x, f, q)
    BY DEF PlaceInv
  <2>1. ToCome(x, f, q) /\ ~OnStream(x, f, q) /\ ~InQueue(x, f, q) /\ ~Over(x, f, q)
    BY ConstantsAssumption DEF Init, ToCome, OnStream, InQueue, Over
  <2> QED
    BY <2>1 DEF NotLost, NotTwice
<1>4. SameBaseInv /\ ReadInv /\ WrittenInv
  BY DEF Init, SameBaseInv, ReadInv, WrittenInv
<1>5. OldKeysInv
  BY ConstantsAssumption DEF Init, OldKeysInv, HasKey, InitRecord
<1> QED
  BY <1>1, <1>2, <1>3, <1>4, <1>5 DEF PInv, RunInvs, StoreInvs

(* A service of a request is created.                                       *)
LEMMA NewServicePInv ==
  ASSUME Apart, IInv, ShareInv, Steady, PInv, CallsInvs', NEW i \in Inst, Main(i),
         NEW pub, NewService(i, pub),
         i = Own(ReqOf(i)) \/ (pub = PubOf(ReqOf(i)) /\ pc[Own(ReqOf(i))] # "none"),
         UNCHANGED <<libVars, streams, db>>, failed' = failed
  PROVE  PInv'
<1>1. RunInvs'
  BY NewServiceRun DEF PInv
<1>2. PeersInv'
  BY NewServiceFacts DEF PInv, PeersInv, libVars, IInv
<1>3. SameBaseInv' /\ ReadInv'
  BY NewServiceBase, NewServiceRead DEF PInv, StoreInvs
<1>4. OldKeysInv' /\ WrittenInv'
  BY NewServiceFacts, StoreFrame DEF PInv, StoreInvs, IInv
<1> QED
  BY <1>1, <1>2, <1>3, <1>4 DEF PInv, StoreInvs

(* A service that was created goes on.                                      *)
LEMMA OnwardPInv ==
  ASSUME IInv, Steady, PInv, UNCHANGED <<base, db>>,
         CallsInvs', \A i \in Inst : pc'[i] = "ended" => pc[i] = "ended",
         \A i \in Inst : pc'[i] = "none" <=> pc[i] = "none",
         RunInvs', PeersInv'
  PROVE  PInv'
<1>1. SameBaseInv'
  BY InstFacts DEF PInv, StoreInvs, SameBaseInv
<1>2. ReadInv'
  BY ReadFrame DEF PInv, StoreInvs
<1>3. OldKeysInv' /\ WrittenInv'
  BY StoreFrame DEF PInv, StoreInvs
<1> QED
  BY <1>1, <1>2, <1>3 DEF PInv, StoreInvs

(* Nothing of the services changes.                                         *)
LEMMA IdlePInv ==
  ASSUME IInv, Steady, PInv, CallsInvs', StayLate,
         UNCHANGED <<libVars, svcVars, handler, streams, db>>
  PROVE  PInv'
<1>1. RunInvs' /\ PeersInv'
  BY PlaceFrame
  DEF PInv, RunInvs, RegisteredInv, PostedInv, NoFailInv, PeersInv, svcVars, libVars
<1> QED
  BY <1>1, OnwardPInv DEF svcVars

(* A service runs.                                                          *)
LEMMA RunPInv ==
  ASSUME Calm, Apart, IInv, RInv, MInv, ShareInv, PInv, Steady, NEW i \in Inst,
         Process(i) \/ Sending(i) \/ Receive(i) \/ Library(i)
  PROVE  PInv'
<1>1. CASE Process(i)
  <2>1. /\ pc[i] = "created" /\ pc'[i] = "running"
        /\ \A j \in Inst : j # i => pc'[j] = pc[j] /\ out'[j] = out[j]
        /\ UNCHANGED <<callVars, outcome, base, seen, handler, streams, db>>
    BY <1>1 DEF Process, IInv, TypeOK
  <2>2. CallsInvs'
    BY <2>1, CallsFrame DEF PInv
  <2>3. RegisteredInv' /\ NoFailInv' /\ PostedInv'
    BY <2>1, LifeRun DEF PInv, RunInvs, NoFailInv
  <2>4. PlaceInv'
    BY <1>1, BroadcastPlace DEF PInv, RunInvs
  <2>5. PeersInv'
    BY <2>1 DEF PInv, PeersInv
  <2> QED
    BY <2>1, <2>2, <2>3, <2>4, <2>5, OnwardPInv DEF RunInvs
<1>2. CASE NextRound(i)
  <2>1. /\ pc[i] = "running" /\ seen'[i] = {}
        /\ \A j \in Inst : j # i => out'[j] = out[j] /\ seen'[j] = seen[j]
        /\ UNCHANGED <<callVars, svcVars, handler, streams, db>>
    BY <1>2 DEF NextRound, IInv, TypeOK
  <2>2. CallsInvs'
    BY <2>1, CallsFrame DEF PInv, svcVars
  <2>3. RegisteredInv' /\ NoFailInv' /\ PostedInv'
    BY <2>1, LifeRun DEF PInv, RunInvs, NoFailInv, svcVars
  <2>4. PlaceInv'
    BY <1>2, BroadcastPlace DEF PInv, RunInvs
  <2>5. PeersInv'
    BY <2>1 DEF PInv, PeersInv, svcVars
  <2> QED
    BY <2>1, <2>2, <2>3, <2>4, <2>5, OnwardPInv DEF RunInvs, svcVars
<1>3. ASSUME NEW m \in Nodes, Send(i, m) PROVE PInv'
  <2>1. /\ out'[i] = out[i] \ {m} /\ \A j \in Inst : j # i => out'[j] = out[j]
        /\ UNCHANGED <<callVars, svcVars, seen, handler, db>>
    BY <1>3 DEF Send, IInv, TypeOK
  <2>2. CallsInvs'
    BY <2>1, CallsFrame DEF PInv, svcVars
  <2>3. RegisteredInv' /\ NoFailInv'
    BY <2>1, LifeRun DEF PInv, RunInvs, NoFailInv, svcVars
  <2>4. PlaceInv' /\ PostedInv'
    BY <1>3, SendPlace
  <2>5. PeersInv'
    BY <2>1 DEF PInv, PeersInv, svcVars
  <2> QED
    BY <2>1, <2>2, <2>3, <2>4, <2>5, OnwardPInv DEF RunInvs, svcVars
<1>4. ASSUME NEW s \in streams, Handle(s) PROVE PInv'
  <2>1. UNCHANGED <<callVars, svcVars, seen, out, handler, db>>
    BY <1>4 DEF Handle
  <2>2. CallsInvs'
    BY <2>1, CallsFrame DEF PInv, svcVars
  <2>3. RegisteredInv' /\ NoFailInv'
    BY <2>1, LifeRun DEF PInv, RunInvs, NoFailInv, svcVars
  <2>4. PlaceInv' /\ PostedInv'
    BY <1>4, HandlePlace
  <2>5. PeersInv'
    BY <2>1 DEF PInv, PeersInv, svcVars
  <2> QED
    BY <2>1, <2>2, <2>3, <2>4, <2>5, OnwardPInv DEF RunInvs, svcVars
<1>5. ASSUME NEW m \in inbox[i], HandleMessage(i, m) PROVE PInv'
  <2>1. /\ seen'[i] = seen[i] \cup {NodeOf(m.from)}
        /\ \A j \in Inst : j # i => seen'[j] = seen[j]
        /\ UNCHANGED <<callVars, svcVars, out, handler, streams, db>>
    BY <1>5 DEF HandleMessage, IInv, TypeOK
  <2>2. CallsInvs'
    BY <2>1, CallsFrame DEF PInv, svcVars
  <2>3. RegisteredInv' /\ NoFailInv' /\ PostedInv'
    BY <2>1, LifeRun DEF PInv, RunInvs, NoFailInv, svcVars
  <2>4. PlaceInv'
    BY <1>5, HandleMessagePlace
  <2>5. NodeOf(m.from) \in Peers(NodeOf(i))
    BY <1>5, InstFacts DEF IInv, TypeOK, Messages, RInv, MessageInv, AwayInv, Peers
  <2>6. PeersInv'
    BY <2>1, <2>5 DEF PInv, PeersInv, svcVars
  <2> QED
    BY <2>1, <2>2, <2>3, <2>4, <2>6, OnwardPInv DEF RunInvs, svcVars
<1>6. CASE Done(i)
  <2>1. /\ pc[i] = "running" /\ pc'[i] = "closed" /\ out[i] = {}
        /\ \A j \in Inst : j # i => pc'[j] = pc[j]
        /\ \A j \in Inst : outcome'[j] \in {outcome[j], "done"}
        /\ UNCHANGED <<callVars, libVars, base, handler, streams, db>>
    BY <1>6 DEF Done, IInv, TypeOK
  <2>2. CallsInvs'
    BY <2>1, CallsFrame DEF PInv
  <2>3. RegisteredInv' /\ NoFailInv' /\ PostedInv'
    BY <2>1, LifeRun DEF PInv, RunInvs, NoFailInv
  <2>4. PlaceInv'
    BY <2>1, PlaceFrame, LateFrame DEF PInv, RunInvs, callVars
  <2>5. PeersInv'
    BY <2>1 DEF PInv, PeersInv, libVars
  <2> QED
    BY <2>1, <2>2, <2>3, <2>4, <2>5, OnwardPInv DEF RunInvs
<1>7. ASSUME NEW m \in Nodes, SendFails(i, m) PROVE PInv'
  <2>1. /\ out'[i] = out[i] \ {m} /\ \A j \in Inst : j # i => out'[j] = out[j]
        /\ UNCHANGED <<callVars, svcVars, seen, handler, streams, db>>
    BY <1>7 DEF SendFails, IInv, TypeOK
  <2>2. CallsInvs'
    BY <2>1, CallsFrame DEF PInv, svcVars
  <2>3. RegisteredInv' /\ NoFailInv' /\ PostedInv'
    BY <2>1, LifeRun DEF PInv, RunInvs, NoFailInv, svcVars
  <2>4. PlaceInv'
    BY <1>7, LostIsLate, SendFailsPlace DEF PInv, RunInvs
  <2>5. PeersInv'
    BY <2>1 DEF PInv, PeersInv, svcVars
  <2> QED
    BY <2>1, <2>2, <2>3, <2>4, <2>5, OnwardPInv DEF RunInvs, svcVars
<1> QED
  BY <1>1, <1>2, <1>3, <1>4, <1>5, <1>6, <1>7, NeverFails
  DEF Sending, Receive, Library

(* A service ends.                                                          *)
LEMMA FinishPInv ==
  ASSUME Calm, Apart, IInv, PInv, Steady, NEW i \in Inst, Finish(i)
  PROVE  PInv'
<1>1. CASE RemoveStreamHandler(i)
  <2>1. /\ pc[i] = "closed" /\ pc'[i] = "removed"
        /\ \A j \in Inst : j # i => pc'[j] = pc[j]
        /\ UNCHANGED <<callVars, libVars, base, db>>
    BY <1>1 DEF RemoveStreamHandler, IInv, TypeOK
  <2>2. CallsInvs'
    BY <2>1, CallsFrame DEF PInv
  <2>3. RunInvs'
    BY <1>1, RemoveRun DEF PInv
  <2>4. PeersInv'
    BY <2>1 DEF PInv, PeersInv, libVars
  <2> QED
    BY <2>1, <2>2, <2>3, <2>4, OnwardPInv
<1>2. CASE Save(i)
  <2>1. /\ pc[i] \in {"closed", "removed"} /\ pc'[i] = "ended"
        /\ \A j \in Inst : j # i => pc'[j] = pc[j]
        /\ UNCHANGED <<callVars, libVars, outcome, base, handler, streams>>
    BY <1>2 DEF Save, IInv, TypeOK
  <2>2. CallsInvs'
    BY <2>1, CallsFrame DEF PInv
  <2>3. RegisteredInv' /\ NoFailInv' /\ PostedInv'
    BY <2>1, LifeRun DEF PInv, RunInvs, NoFailInv
  <2>4. PlaceInv'
    BY <2>1, PlaceFrame, LateFrame DEF PInv, RunInvs, callVars
  <2>5. PeersInv'
    BY <2>1 DEF PInv, PeersInv, libVars
  <2>6. SameBaseInv'
    BY <2>1, InstFacts DEF PInv, StoreInvs, SameBaseInv
  <2>7. ReadInv'
    BY <1>2, <2>1, ReadFrame DEF PInv, StoreInvs
  <2>8. OldKeysInv' /\ WrittenInv'
    BY <1>2, SaveStore DEF PInv, StoreInvs
  <2> QED
    BY <2>2, <2>3, <2>4, <2>5, <2>6, <2>7, <2>8 DEF PInv, RunInvs, StoreInvs
<1> QED
  BY <1>1, <1>2 DEF Finish

(* A caller goes on.                                                        *)
LEMMA CallerPInv ==
  ASSUME Calm, Apart, IInv, RInv, MInv, ShareInv, PInv, Steady, NEW r \in Requests,
         Request(r) \/ Caller(r) \/ CallFault(r) \/ ClientTimeout(r)
  PROVE  PInv'
<1>1. ASSUME NEW pub, Accept(r, pub) PROVE PInv'
  <2>1. CallsInvs'
    BY <1>1, AcceptCalls DEF PInv
  <2>2. Own(r) \in Inst /\ Main(Own(r)) /\ Own(r) = Own(ReqOf(Own(r)))
    BY InstFacts, MainFacts
  <2>3. NewService(Own(r), pub) /\ UNCHANGED <<libVars, streams, db, failed>>
    BY <1>1 DEF Accept
  <2> QED
    BY <2>1, <2>2, <2>3, NewServicePInv
<1>2. ASSUME NEW p \in Nodes, CallPeer(r, p) PROVE PInv'
  <2> DEFINE s == <<p, r, 1>>
  <2>1. CallsInvs'
    BY <1>2, CallPeerCalls DEF PInv
  <2>2. /\ Calling(r, p) /\ Serve(r, p)
        /\ UNCHANGED <<libVars, streams, db, failed>>
    BY <1>2 DEF CallPeer
  <2>3. s \in Inst /\ Main(s) /\ ReqOf(s) = r /\ NewService(s, PubOf(r))
    BY <2>2, ServesOnce, MainFacts DEF PInv
  <2>4. pc[Own(r)] # "none"
    BY <2>2 DEF Calling, PInv, CallsInvs, CallerInv
  <2> HIDE DEF s
  <2> QED
    BY <2>1, <2>2, <2>3, <2>4, NewServicePInv
<1>3. CASE \/ \E pub : Refuse(r, pub)
           \/ \E p \in Nodes : CallPeerFails(r, p)
           \/ AllCalled(r) \/ Return(r) \/ ClientTimeout(r)
  <2>1. CallsInvs'
    BY <1>3, CallerCalls DEF PInv, RunInvs
  <2>2. UNCHANGED <<libVars, svcVars, handler, streams, db>>
    BY <1>3 DEF Refuse, CallPeerFails, AllCalled, Return, ClientTimeout
  <2>3. \/ failed' = failed
        \/ failed' = [failed EXCEPT ![r] = IF Outlasted(r) THEN @ ELSE @ + 1]
    BY <1>3 DEF Refuse, CallPeerFails, AllCalled, Return, ClientTimeout,
       SleepAfterError
  <2>4. failed \in [Requests -> Nat]
    BY DEF IInv, TypeOK
  <2>5. StayLate
    BY <2>3, <2>4 DEF StayLate, Outlasted
  <2> QED
    BY <2>1, <2>2, <2>5, IdlePInv
<1>4. \A p \in Nodes : ~CallPeerNoReply(r, p)
  BY DEF CallPeerNoReply, Calm
<1> QED
  BY <1>1, <1>2, <1>3, <1>4
  DEF Request, RegisterDKG, SignMessage, Reshare, Caller, CallFault

(* PInv is inductive.                                                       *)
LEMMA NextPInv ==
  ASSUME Calm, Apart, IInv, RInv, MInv, ShareInv, PInv, [Next]_vars
  PROVE  PInv'
<1>1. Steady
  BY NextMInv
<1>2. CASE UNCHANGED vars
  <2>1. UNCHANGED <<callVars, libVars, svcVars, handler, streams, db>>
    BY <1>2 DEF vars
  <2>2. CallsInvs'
    BY <2>1, CallsFrame DEF PInv, svcVars
  <2> QED
    BY <1>1, <2>1, <2>2, IdlePInv, LateFrame DEF callVars
<1>3. \A n \in Nodes : ~Crash(n)
  BY DEF Crash, Calm
<1> QED
  BY <1>1, <1>2, <1>3, CallerPInv, RunPInv, FinishPInv DEF Next

-----------------------------------------------------------------------------
(* Nobody waits in vain.                                                    *)

(* A nonempty set of numbers has a least one.                               *)
LEMMA NatMin ==
  ASSUME NEW S \in SUBSET Nat, S # {}
  PROVE  \E x \in S : \A y \in S : x <= y
<1> DEFINE R == OpToRel(<, Nat)
<1>1. IsWellFoundedOn(R, Nat)
  BY NatLessThanWellFounded, Zenon
<1>2. \A x, y \in Nat : y < x => <<y, x>> \in R
  BY DEF OpToRel
<1> HIDE DEF R
<1>3. PICK x \in S : \A y \in S : <<y, x>> \notin R
  BY <1>1, WFMin
<1>4. \A y \in S : ~(y < x)
  BY <1>2, <1>3
<1> QED
  BY <1>4

(***************************************************************************)
(* When nobody has anything to do, the services of a request whose peers   *)
(* were all called, in time, have ended: a service in the least round that *)
(* waits would wait for a message of a service in an earlier round.        *)
(***************************************************************************)
LEMMA RestEnds ==
  ASSUME Apart, IInv, RInv, MInv, ShareInv, PInv, Rest, NEW r \in Requests,
         pc[Own(r)] # "none", caller[r] # "calling", ~Outlasted(r)
  PROVE  \A n \in Nodes : pc[<<n, r, 1>>] = "ended"
<1> DEFINE S(n) == <<n, r, 1>>
<1>1. /\ \A n \in Nodes : /\ S(n) \in Inst /\ NodeOf(S(n)) = n /\ ReqOf(S(n)) = r
                          /\ Main(S(n))
      /\ Own(r) = S(r.node) /\ r.node \in Nodes /\ r.hash \in Hashes
  BY MainFacts, RequestFields DEF Own
<1> HIDE DEF S
<1>2. caller[r] \in {"waiting", "returned"} /\ todo[r] = {}
  BY DEF IInv, TypeOK, PInv, CallsInvs, CallerInv
<1>3. \A n \in Nodes : pc[S(n)] # "none"
  BY <1>1, <1>2 DEF PInv, CallsInvs, CalledInv
<1>4. \A n \in Nodes : pc[S(n)] \in {"running", "ended"}
  BY <1>1, <1>2, <1>3 DEF Rest, ServiceRests, IInv, TypeOK, PC, ShareInv, RunsInv
<1>5. \A n, m \in Nodes : n # m => Mates(S(n), S(m))
  BY <1>1 DEF Mates
<1>6. \A n \in Nodes : round[S(n)] \in 1 .. Rounds /\ round[S(n)] \in Nat
  <2> SUFFICES ASSUME NEW n \in Nodes PROVE round[S(n)] \in 1 .. Rounds
    OBVIOUS
  <2>1. round[S(n)] \in 0 .. Rounds
    BY <1>1 DEF IInv, TypeOK
  <2>2. CASE pc[S(n)] = "running"
    BY <1>1, <2>1, <2>2, ConstantsAssumption DEF IInv, ServiceInv, RoundInv
  <2>3. CASE pc[S(n)] = "ended"
    BY <1>1, <2>1, <2>3, EndedIsDone, ConstantsAssumption DEF PInv, RunInvs
  <2> QED
    BY <1>4, <2>2, <2>3
<1>7. \A n \in Nodes : out[S(n)] = {}
  <2> SUFFICES ASSUME NEW n \in Nodes, pc[S(n)] = "running", NEW m \in out[S(n)]
               PROVE  FALSE
    BY <1>1 DEF PInv, PeersInv
  <2>1. m \in Nodes /\ m # n
    BY <1>1 DEF RInv, MessageInv, OutInv, Peers
  <2>2. handler[m][r.hash] = None
    BY <1>1 DEF Rest, ServiceRests
  <2>3. pc[S(m)] # "running"
    BY <1>1, <2>1, <2>2, NoneAssumption DEF PInv, RunInvs, RegisteredInv
  <2>4. Over(S(m), S(n), round[S(n)])
    BY <1>1, <1>4, <1>5, <1>6, <2>1, <2>3, EndedIsOver DEF PInv, RunInvs
  <2>5. ToCome(S(m), S(n), round[S(n)])
    BY <1>1, <2>1 DEF ToCome
  <2> QED
    BY <1>1, <1>5, <1>6, <2>1, <2>4, <2>5 DEF PInv, RunInvs, PlaceInv, NotTwice
<1>8. ASSUME NEW n \in Nodes, pc[S(n)] = "running"
      PROVE  \E m \in Nodes : pc[S(m)] = "running" /\ round[S(m)] < round[S(n)]
  <2> DEFINE q == round[S(n)]
  <2>1. /\ seen[S(n)] # Peers(n) /\ seen[S(n)] \subseteq Peers(n)
        /\ \A w \in inbox[S(n)] : w.round # q
    BY <1>1, <1>7, <1>8 DEF Rest, ServiceRests, PInv, PeersInv
  <2>2. PICK m \in Peers(n) : m \notin seen[S(n)]
    BY <2>1
  <2>3. m \in Nodes /\ m # n
    BY <2>2 DEF Peers
  <2>4. NotLost(S(n), S(m), q)
    BY <1>1, <1>5, <1>6, <2>3 DEF PInv, RunInvs, PlaceInv
  <2>5. ~OnStream(S(n), S(m), q) /\ ~InQueue(S(n), S(m), q)
    BY <2>1 DEF Rest, OnStream, InQueue
  <2>6. ~Over(S(n), S(m), q)
    BY <1>1, <1>6, <2>2, <2>3 DEF Over
  <2>7. round[S(m)] < q
    BY <1>1, <1>7, <2>3, <2>4, <2>5, <2>6 DEF NotLost, ToCome
  <2>8. pc[S(m)] # "ended"
    BY <1>1, <1>6, <2>3, <2>7, EndedIsDone, ConstantsAssumption DEF PInv, RunInvs
  <2> QED
    BY <1>4, <2>3, <2>7, <2>8
<1>9. \A n \in Nodes : pc[S(n)] # "running"
  <2> SUFFICES ASSUME NEW n \in Nodes, pc[S(n)] = "running" PROVE FALSE
    OBVIOUS
  <2> DEFINE T == {round[S(m)] : m \in {k \in Nodes : pc[S(k)] = "running"}}
  <2>1. T \in SUBSET Nat /\ T # {}
    BY <1>6
  <2>2. PICK x \in T : \A y \in T : x <= y
    BY <2>1, NatMin
  <2>3. PICK m \in Nodes : pc[S(m)] = "running" /\ x = round[S(m)]
    BY <2>2
  <2>4. PICK p \in Nodes : pc[S(p)] = "running" /\ round[S(p)] < round[S(m)]
    BY <1>8, <2>3
  <2>5. x <= round[S(p)]
    BY <2>2, <2>4
  <2> QED
    BY <1>6, <2>3, <2>4, <2>5
<1> QED
  BY <1>4, <1>9 DEF S

(* When nobody has anything to do, a key of one node is a key of all, if    *)
(* its DKG was called in time.                                              *)
LEMMA RestKeys ==
  ASSUME Apart, IInv, RInv, MInv, ShareInv, PInv, Rest, NEW n \in Nodes,
         NEW p \in Nodes, NEW h \in Hashes, HasKey(n, h),
         \A d \in Requests : d.kind = "dkg" /\ d.hash = h => ~Outlasted(d)
  PROVE  HasKey(p, h) /\ db[p][h].pub = db[n][h].pub
<1>1. HasKey(p, h)
  <2>1. CASE h \in InitKeys
    BY <2>1 DEF PInv, StoreInvs, OldKeysInv
  <2>2. CASE h \notin InitKeys
    <3>1. PICK j \in Inst : StoredBy(j, n, h)
      BY <2>2 DEF RInv, RecordInv, StoredInv
    <3> DEFINE d == ReqOf(j)
    <3>2. /\ d \in Requests /\ d.kind = "dkg" /\ d.hash = h
          /\ outcome[j] = "done" /\ pc[j] # "none" /\ d.node \in Nodes
      BY <3>1, InstFacts, RequestFields DEF StoredBy
    <3>3. round[j] = Rounds /\ Rounds >= 2 /\ Rounds \in Nat /\ round[j] >= 2
      BY <3>2, ConstantsAssumption DEF IInv, ServiceInv, DoneInv
    <3>4. \A m \in Nodes : pc[<<m, d, 1>>] # "none"
      <4> SUFFICES ASSUME NEW m \in Nodes PROVE pc[<<m, d, 1>>] # "none"
        OBVIOUS
      <4>1. view[j][m] = <<m, d, 1>>
        BY <3>3, FullView DEF PInv, CallsInvs
      <4>2. CASE m = NodeOf(j)
        BY <3>2, <4>1, <4>2 DEF RInv, MessageInv, ViewInv
      <4>3. CASE m # NodeOf(j)
        <5>1. Heard(j, m)
          BY <3>3, <4>3 DEF MInv, PostInv, HeardInv, Peers
        <5> QED
          BY <4>1, <5>1, Started DEF Heard
      <4> QED
        BY <4>2, <4>3
    <3>5. pc[Own(d)] # "none"
      BY <3>2, <3>4 DEF Own
    <3>6. caller[d] # "calling"
      <4> SUFFICES ASSUME caller[d] = "calling" PROVE FALSE
        OBVIOUS
      <4>1. PICK m \in todo[d] : m \in Nodes /\ m # d.node
        BY <3>2 DEF Rest, CallerRests, IInv, CallsInv, Peers
      <4>2. pc[<<m, d, 1>>] = "none"
        BY <3>2, <4>1, MainFacts DEF PInv, CallsInvs, CalledInv
      <4> QED
        BY <3>4, <4>1, <4>2
    <3>7. pc[<<p, d, 1>>] = "ended"
      BY <3>2, <3>5, <3>6, RestEnds
    <3>8. /\ <<p, d, 1>> \in Inst /\ NodeOf(<<p, d, 1>>) = p
          /\ ReqOf(<<p, d, 1>>) = d
      BY <3>2, MainFacts
    <3>9. outcome[<<p, d, 1>>] = "done"
      BY <3>7, <3>8, EndedIsDone DEF PInv, RunInvs
    <3> QED
      BY <3>2, <3>7, <3>8, <3>9 DEF PInv, StoreInvs, WrittenInv
  <2> QED
    BY <2>1, <2>2
<1>2. KeyOf(h, db[p][h].pub) /\ KeyOf(h, db[n][h].pub)
  BY <1>1 DEF IInv, ServiceInv, KeyInv
<1> QED
  BY <1>1, <1>2, RequestFacts DEF KeyOf

(* No caller is left with a peer that cannot serve it.                      *)
LEMMA RestCalled ==
  ASSUME Apart, IInv, RInv, MInv, ShareInv, PInv, Rest, NEW r \in Requests,
         pc[Own(r)] # "none", InTime(r)
  PROVE  caller[r] # "calling"
<1> SUFFICES ASSUME caller[r] = "calling" PROVE FALSE
  OBVIOUS
<1>1. PICK p \in Nodes : Calling(r, p) /\ ~CanCreate(p, r, PubOf(r))
  <2>1. todo[r] # {} /\ todo[r] \subseteq Nodes /\ target[r] \in todo[r] \cup {None}
    BY DEF Rest, CallerRests, IInv, TypeOK, PInv, CallsInvs, CallerInv
  <2>2. \E p \in Nodes : Calling(r, p)
    BY <2>1 DEF Calling
  <2> QED
    BY <2>2 DEF Rest, CallerRests
<1>2. r.kind # "dkg" /\ r.key \in Hashes /\ r.node \in Nodes
  BY <1>1, RequestFields DEF CanCreate
<1>3. HasSignerConfig(db[r.node], r.key, PubOf(r))
  BY <1>2, InstFacts DEF PInv, StoreInvs, ReadInv, PubOf
<1>4. HasKey(r.node, r.key) /\ db[r.node][r.key].pub = PubOf(r) /\ PubOf(r) # None
  BY <1>3 DEF HasSignerConfig, GetDKGResultData, HasKey
<1>5. HasKey(p, r.key) /\ db[p][r.key].pub = PubOf(r)
  BY <1>2, <1>4, RestKeys DEF InTime
<1>6. HasSignerConfig(db[p], r.key, PubOf(r))
  BY <1>4, <1>5 DEF HasSignerConfig, GetDKGResultData, HasKey, Found
<1> QED
  BY <1>1, <1>6 DEF CanCreate

(* All sessions have ended and were stored.                                 *)
LEMMA RestStored ==
  ASSUME Apart, IInv, RInv, MInv, ShareInv, PInv, Rest, NEW r \in Requests,
         pc[Own(r)] # "none", InTime(r)
  PROVE  /\ client[r] \in {"ok", "timeout"}
         /\ \A n \in Nodes : Stored(n, r)
<1>1. caller[r] # "calling"
  BY RestCalled
<1>2. \A n \in Nodes : pc[<<n, r, 1>>] = "ended"
  BY <1>1, RestEnds DEF InTime
<1>3. r.node \in Nodes /\ r.hash \in Hashes /\ r.kind \in Kinds
  BY RequestFields
<1>4. caller[r] = "returned"
  <2>1. pc[Own(r)] = "ended"
    BY <1>2, <1>3 DEF Own
  <2>2. caller[r] \in {"idle", "calling", "waiting", "returned"}
    BY DEF IInv, TypeOK
  <2> QED
    BY <1>1, <2>1, <2>2 DEF Rest, CallerRests, PInv, CallsInvs, CallerInv
<1>5. client[r] \in {"ok", "timeout"}
  BY <1>4 DEF PInv, CallsInvs, CallerInv
<1>6. ASSUME NEW n \in Nodes PROVE Stored(n, r)
  <2> DEFINE s == <<n, r, 1>>
  <2>1. s \in Inst /\ NodeOf(s) = n /\ ReqOf(s) = r /\ pc[s] = "ended"
    BY <1>2, MainFacts
  <2> HIDE DEF s
  <2>2. outcome[s] = "done" /\ round[s] = Rounds
    BY <2>1, EndedIsDone DEF PInv, RunInvs
  <2>3. CASE r.kind = "dkg"
    BY <2>1, <2>2, <2>3 DEF PInv, StoreInvs, WrittenInv, Stored
  <2>4. CASE r.kind = "sign"
    BY <2>1, <2>2, <2>4 DEF PInv, StoreInvs, WrittenInv, Stored
  <2>5. CASE r.kind = "reshare"
    <3>1. r.key = r.hash
      BY <2>5, RequestFacts
    <3>2. HasKey(n, r.key)
      BY <2>1, <2>5, <3>1 DEF IInv, ServiceInv, ReshareInv
    <3>3. db[n][r.key].share.plain = base[s].gen \cup {view[s]}
      BY <2>1, <2>2, <2>5, <3>1 DEF ShareInv, RefreshInv, Refreshed
    <3>4. GenOf(n, r.key) = db[n][r.key].share.plain
      BY <1>3, <3>1, <3>2
      DEF GenOf, GetSignerConfig, GetDKGResultData, Decrypt, IInv, ServiceInv,
          SaltInv, HasKey
    <3>5. view[s][r.node] = Own(r)
      BY <1>3, <2>1, <2>2, FullView, ConstantsAssumption DEF Own, PInv, CallsInvs
    <3> QED
      BY <2>5, <3>2, <3>3, <3>4, <3>5 DEF Stored
  <2> QED
    BY <1>3, <2>3, <2>4, <2>5 DEF Kinds
<1> QED
  BY <1>5, <1>6

(***************************************************************************)
(* The goroutines of a cluster never wait for each other in vain: when     *)
(* requests do not share their stream protocols, streams do not break and  *)
(* nodes keep running, a cluster in which nobody has anything left to do   *)
(* has answered every client whose session was created and stored every    *)
(* result, however the calls to the peers and the rounds of the sessions   *)
(* were interleaved, calls failed, services were refused and clients given *)
(* up (RpcToPeer, SendToPeer, Process, MustSend, Handle).  Left out are    *)
(* only the requests of which so many calls failed after the first peer    *)
(* had been called, 3 seconds each, that its sends, 5 seconds each, may    *)
(* have given up.                                                          *)
(***************************************************************************)
THEOREM NeverStuck ==
  ASSUME Calm, Apart
  PROVE  Spec => []NobodyStuck
<1>1. Lasting /\ OneReshareEach
  BY DEF Calm, Apart, Lasting, OneReshareEach
<1>2. Init => PInv
  BY InitPInv
<1>3. IInv /\ RInv /\ MInv /\ FailInv /\ ShareInv /\ PInv /\ [Next]_vars => PInv'
  BY NextPInv
<1>4. IInv /\ RInv /\ MInv /\ FailInv /\ ShareInv /\ PInv => NobodyStuck
  BY RestStored DEF NobodyStuck
<1>5. Spec => [](IInv /\ RInv /\ MInv /\ FailInv /\ ShareInv)
  BY <1>1, ShareInvariance
<1> QED
  BY <1>2, <1>3, <1>4, <1>5, PTL DEF Spec
==============================================================================

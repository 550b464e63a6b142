-------------------------- MODULE TssSessionProofs --------------------------
(***************************************************************************)
(* Proofs about TssSession, for every set of nodes, hashes and requests,   *)
(* every number of rounds and every combination of the modelled faults.    *)
(***************************************************************************)
EXTENDS TssSession, TLAPS

-----------------------------------------------------------------------------
(* The inductive invariant.                                                 *)

(* The calls of a request go to the peers of its node.                      *)
CallsInv == \A r \in Requests : todo[r] \subseteq Peers(r.node)

(* The node of a request creates no service but its own for it.             *)
OwnInv ==
  \A i \in Inst : pc[i] # "none" /\ NodeOf(i) = ReqOf(i).node => i = Own(ReqOf(i))

(* The handler of a protocol is a service of this node and this protocol.   *)
HandlerInv ==
  \A n \in Nodes, h \in Hashes : handler[n][h] # None =>
    NodeOf(handler[n][h]) = n /\ ReqOf(handler[n][h]).hash = h

(* A message of f that is on its way to i belongs to the protocol of i, and *)
(* f has reached its round.                                                 *)
Sent(i, f, k) == ReqOf(f).hash = ReqOf(i).hash /\ k <= round[f]

StreamInv == \A s \in streams : Sent(s.to, s.from, s.round)

InboxInv == \A i \in Inst : \A m \in inbox[i] : Sent(i, m.from, m.round)

(* Rounds begin with Process, and the result comes after them.              *)
RoundInv ==
  \A i \in Inst :
    /\ pc[i] \in {"none", "created"} => round[i] = 0 /\ outcome[i] = "none"
    /\ pc[i] = "running" => round[i] >= 1 /\ outcome[i] = "none"

(* A signer or reshare has read a key and a share.                          *)
BaseInv ==
  \A i \in Inst : pc[i] # "none" /\ ReqOf(i).kind # "dkg" => base[i] \in Shares

(* A share is encrypted with the public key of its record.                  *)
SaltInv ==
  \A n \in Nodes, h \in Hashes : HasKey(n, h) => db[n][h].share.salt = db[n][h].pub

(* The record that a reshare was created with is still a DKG result.        *)
ReshareInv ==
  \A i \in Inst :
    pc[i] # "none" /\ ReqOf(i).kind = "reshare" => HasKey(NodeOf(i), ReqOf(i).hash)

(* A peer heard in the last round runs the same session.                    *)
Confirmed(i, j) ==
  /\ j \in Inst
  /\ ReqOf(j).kind = ReqOf(i).kind
  /\ ReqOf(j).hash = ReqOf(i).hash
  /\ round[j] = Rounds
  /\ view[j] = view[i]
  /\ base[j] = base[i]

ConfirmInv ==
  \A i \in Inst : round[i] = Rounds =>
    \A m \in seen[i] : NodeOf(view[i][m]) = m /\ Confirmed(i, view[i][m])

(* A result needs the last message of every peer.                           *)
DoneInv ==
  \A i \in Inst : outcome[i] = "done" =>
    round[i] = Rounds /\ seen[i] = Peers(NodeOf(i))

(* A client that waits for a session gets a result only from a finished one. *)
AnswerInv ==
  \A r \in Requests :
    client[r] = "ok" /\ r.kind # "reshare" => outcome[Own(r)] = "done"

(* A stored key is the one of the session that the node of the DKG ran.     *)
KeyOf(h, pub) ==
  \/ h \in InitKeys /\ pub = <<h, NoView>>
  \/ /\ h \notin InitKeys
     /\ \E r \in Requests : /\ r.kind = "dkg"
                            /\ r.hash = h
                            /\ round[Own(r)] = Rounds
                            /\ pub = <<h, view[Own(r)]>>

KeyInv ==
  \A n \in Nodes, h \in Hashes : HasKey(n, h) => KeyOf(h, db[n][h].pub)

(* What concerns services, messages and stores, and what concerns callers.  *)
ServiceInv ==
  /\ OwnInv
  /\ HandlerInv
  /\ StreamInv
  /\ InboxInv
  /\ RoundInv
  /\ BaseInv
  /\ SaltInv
  /\ ReshareInv
  /\ ConfirmInv
  /\ DoneInv
  /\ KeyInv

IInv == TypeOK /\ CallsInv /\ AnswerInv /\ ServiceInv

-----------------------------------------------------------------------------
(* Facts about the constants.                                               *)

(* A service is determined by its node, its request and its number.         *)
LEMMA InstFacts ==
  /\ \A i \in Inst : NodeOf(i) \in Nodes /\ ReqOf(i) \in Requests
  /\ \A n \in Nodes, r \in Requests, k \in 1 .. MaxCalls :
       /\ <<n, r, k>> \in Inst
       /\ NodeOf(<<n, r, k>>) = n
       /\ ReqOf(<<n, r, k>>) = r
  /\ \A r \in Requests :
       Own(r) \in Inst /\ NodeOf(Own(r)) = r.node /\ ReqOf(Own(r)) = r
BY ConstantsAssumption, RequestsAssumption DEF Inst, NodeOf, ReqOf, Own

(* The fields of a request.                                                 *)
LEMMA RequestFields ==
  ASSUME NEW r \in Requests
  PROVE  /\ r.kind \in Kinds /\ r.node \in Nodes
         /\ r.hash \in Hashes /\ r.key \in Hashes
BY RequestsAssumption

(* Which hashes may be equal.                                               *)
LEMMA RequestFacts ==
  ASSUME NEW r \in Requests, NEW q \in Requests
  PROVE  /\ r.kind # "sign" => r.key = r.hash
         /\ r.kind # "reshare" => r.hash \notin InitKeys
         /\ q.kind = "dkg" /\ r.kind = "dkg" /\ q.hash = r.hash => q = r
         /\ q.kind = "sign" => q.hash # r.key
BY RequestsAssumption DEF Kinds

(* Views are functions from nodes to services.                              *)
LEMMA ViewFacts ==
  /\ NoView \in Views
  /\ \A i \in Inst : [NoView EXCEPT ![NodeOf(i)] = i] \in Views
BY InstFacts DEF Views, NoView

-----------------------------------------------------------------------------
(* The invariant holds initially.                                           *)
LEMMA InitInv == Init => IInv
<1> SUFFICES ASSUME Init PROVE IInv
  OBVIOUS
<1>1. TypeOK
  <2>1. \A h \in Hashes : InitRecord(h) \in Records
    BY ViewFacts DEF InitRecord, Encrypt, Records, DkgRecords, PubKeys
  <2>2. db \in [Nodes -> [Hashes -> Records]]
    BY <2>1, ConstantsAssumption DEF Init, Records
  <2>3. view \in [Inst -> Views]
    BY ViewFacts DEF Init
  <2>4. round \in [Inst -> 0 .. Rounds] /\ faults \in Nat
    BY ConstantsAssumption DEF Init
  <2> QED
    BY <2>2, <2>3, <2>4 DEF Init, TypeOK, PC
<1>2. CallsInv
  BY DEF Init, CallsInv
<1>3. OwnInv /\ HandlerInv /\ StreamInv /\ InboxInv
  BY DEF Init, OwnInv, HandlerInv, StreamInv, InboxInv
<1>4. RoundInv /\ BaseInv /\ ReshareInv
  BY DEF Init, RoundInv, BaseInv, ReshareInv
<1>5. SaltInv /\ KeyInv
  BY DEF Init, SaltInv, KeyInv, HasKey, KeyOf, InitRecord, NoRecord, Encrypt
<1>6. ConfirmInv /\ DoneInv /\ AnswerInv
  BY ConstantsAssumption, InstFacts DEF Init, ConfirmInv, DoneInv, AnswerInv
<1> QED
  BY <1>1, <1>2, <1>3, <1>4, <1>5, <1>6 DEF IInv, ServiceInv

-----------------------------------------------------------------------------
(* Steps of the callers.                                                    *)

(* A step that touches neither services nor messages nor stores keeps what  *)
(* is said of them.                                                         *)
LEMMA CallerFrame ==
  ASSUME ServiceInv, UNCHANGED <<libVars, svcVars, handler, streams, db>>
  PROVE  ServiceInv'
<1> USE DEF libVars, svcVars
<1>1. OwnInv' /\ HandlerInv' /\ BaseInv'
  BY DEF ServiceInv, OwnInv, HandlerInv, BaseInv
<1>2. StreamInv' /\ InboxInv' /\ RoundInv'
  BY DEF ServiceInv, StreamInv, InboxInv, RoundInv, Sent
<1>3. SaltInv' /\ ReshareInv' /\ KeyInv'
  BY DEF ServiceInv, SaltInv, ReshareInv, KeyInv, HasKey, KeyOf
<1>4. ConfirmInv' /\ DoneInv'
  BY DEF ServiceInv, ConfirmInv, DoneInv, Confirmed
<1> QED
  BY <1>1, <1>2, <1>3, <1>4 DEF ServiceInv

(* What a new service reads from the store is a key and a share of it, and  *)
(* it comes from a DKG result.                                              *)
LEMMA ReadConfig ==
  ASSUME TypeOK, SaltInv, NEW n \in Nodes, NEW h \in Hashes, NEW pub,
         HasSignerConfig(db[n], h, pub)
  PROVE  HasKey(n, h) /\ GetSignerConfig(db[n], h, pub) \in Shares
<1>1. db[n][h] \in Records
  BY DEF TypeOK
<1>2. db[n][h].type = "dkg" /\ db[n][h].pub = pub
  BY DEF HasSignerConfig, GetDKGResultData
<1>3. db[n][h] \in DkgRecords
  BY <1>1, <1>2 DEF Records, DkgRecords, SigRecords, NoRecord
<1>4. db[n][h].share.salt = pub
  BY <1>2 DEF SaltInv, HasKey
<1> QED
  BY <1>2, <1>3, <1>4
  DEF HasKey, GetSignerConfig, GetDKGResultData, Decrypt, DkgRecords, Shares

(* Creating a service.                                                      *)
LEMMA NewServiceInv ==
  ASSUME TypeOK, ServiceInv, NEW i \in Inst, NEW pub, NewService(i, pub),
         NodeOf(i) = ReqOf(i).node => i = Own(ReqOf(i)),
         UNCHANGED <<libVars, streams, db>>
  PROVE  /\ ServiceInv'
         /\ pc' \in [Inst -> PC]
         /\ base' \in [Inst -> Shares \cup {None}]
         /\ handler' \in [Nodes -> [Hashes -> Inst \cup {None}]]
         /\ outcome' = outcome
<1> DEFINE nd == NodeOf(i)
           rq == ReqOf(i)
<1>1. nd \in Nodes /\ rq \in Requests /\ rq.hash \in Hashes /\ rq.key \in Hashes
  BY InstFacts, RequestFields
<1>2. /\ pc[i] = "none"
      /\ pc' = [pc EXCEPT ![i] = "created"]
      /\ handler' = [handler EXCEPT ![nd][rq.hash] = i]
      /\ outcome' = outcome
  BY DEF NewService, NewDkgService, NewSignerService, NewReshareService,
         SetStreamHandler
<1>3. PICK b : /\ base' = [base EXCEPT ![i] = b]
               /\ rq.kind = "dkg" => b = None
               /\ rq.kind # "dkg" => b \in Shares /\ HasKey(nd, rq.key)
  <2>1. rq.kind = "reshare" => rq.key = rq.hash
    BY <1>1, RequestFacts
  <2>2. CASE NewDkgService(i)
    BY <2>2 DEF NewDkgService, SetStreamHandler
  <2>3. CASE NewSignerService(i, pub) \/ NewReshareService(i, pub)
    <3>1. /\ rq.kind # "dkg"
          /\ HasSignerConfig(db[nd], rq.key, pub)
          /\ base' = [base EXCEPT ![i] = GetSignerConfig(db[nd], rq.key, pub)]
      BY <2>1, <2>3 DEF NewSignerService, NewReshareService, SetStreamHandler
    <3>2. HasKey(nd, rq.key) /\ GetSignerConfig(db[nd], rq.key, pub) \in Shares
      BY <1>1, <3>1, ReadConfig DEF ServiceInv
    <3> QED
      BY <3>1, <3>2
  <2> QED
    BY <2>2, <2>3 DEF NewService
<1>4. pc' \in [Inst -> PC] /\ base' \in [Inst -> Shares \cup {None}]
  BY <1>2, <1>3 DEF TypeOK, PC
<1>5. handler' \in [Nodes -> [Hashes -> Inst \cup {None}]]
  BY <1>1, <1>2 DEF TypeOK
<1>6. OwnInv' /\ BaseInv'
  BY <1>2, <1>3 DEF ServiceInv, OwnInv, BaseInv, TypeOK
<1>7. HandlerInv'
  BY <1>1, <1>2 DEF ServiceInv, HandlerInv, TypeOK
<1>8. StreamInv' /\ InboxInv' /\ SaltInv' /\ KeyInv'
  BY DEF ServiceInv, StreamInv, InboxInv, Sent, SaltInv, KeyInv, KeyOf, HasKey,
         libVars
<1>9. RoundInv'
  BY <1>2 DEF ServiceInv, RoundInv, TypeOK, libVars
<1>10. ReshareInv'
  BY <1>1, <1>2, <1>3, RequestFacts DEF ServiceInv, ReshareInv, HasKey, TypeOK
<1>11. ConfirmInv' /\ DoneInv'
  <2>1. round[i] # Rounds
    BY <1>2, ConstantsAssumption DEF ServiceInv, RoundInv
  <2>2. \A j \in Inst : j # i => base'[j] = base[j]
    BY <1>3 DEF TypeOK
  <2> QED
    BY <1>2, <2>1, <2>2 DEF ServiceInv, ConfirmInv, DoneInv, Confirmed, libVars
<1> QED
  BY <1>2, <1>4, <1>5, <1>6, <1>7, <1>8, <1>9, <1>10, <1>11 DEF ServiceInv

(* The types of the variables that a step of a caller leaves alone.         *)
LEMMA CallerTypes ==
  ASSUME TypeOK, UNCHANGED <<libVars, streams, db>>,
         UNCHANGED outcome,
         pc' \in [Inst -> PC],
         base' \in [Inst -> Shares \cup {None}],
         handler' \in [Nodes -> [Hashes -> Inst \cup {None}]],
         client' \in [Requests -> {"idle", "waiting", "ok", "error", "timeout"}],
         caller' \in [Requests -> {"idle", "calling", "waiting", "returned"}],
         todo' \in [Requests -> SUBSET Nodes],
         target' \in [Requests -> Nodes \cup {None}],
         failed' \in [Requests -> Nat],
         faults' \in Nat
  PROVE  TypeOK'
BY DEF TypeOK, libVars

(* A client request is accepted: the first service is created.              *)
LEMMA AcceptInv ==
  ASSUME IInv, NEW r \in Requests, NEW pub, Accept(r, pub)
  PROVE  IInv'
<1>1. Own(r) \in Inst /\ ReqOf(Own(r)) = r /\ r.node \in Nodes
  BY InstFacts, RequestFields
<1>2. /\ ServiceInv'
      /\ pc' \in [Inst -> PC]
      /\ base' \in [Inst -> Shares \cup {None}]
      /\ handler' \in [Nodes -> [Hashes -> Inst \cup {None}]]
      /\ outcome' = outcome
  BY <1>1, NewServiceInv DEF Accept, IInv
<1>3. TypeOK'
  <2>1. todo' \in [Requests -> SUBSET Nodes]
    BY DEF Accept, IInv, TypeOK, Peers
  <2> QED
    BY <1>2, <2>1, CallerTypes DEF Accept, IInv, TypeOK
<1>4. CallsInv' /\ AnswerInv'
  BY <1>2 DEF Accept, IInv, CallsInv, AnswerInv, TypeOK
<1> QED
  BY <1>2, <1>3, <1>4 DEF IInv

(* A request is refused, or a call fails, returns or is answered: only the  *)
(* variables of the caller change, and a result comes from a finished       *)
(* service.                                                                 *)
LEMMA CallerStepInv ==
  ASSUME IInv, NEW r \in Requests,
         \/ \E pub : Refuse(r, pub)
         \/ \E p \in Nodes : CallPeerFails(r, p)
         \/ AllCalled(r) \/ Return(r) \/ ClientTimeout(r)
  PROVE  IInv'
<1>1. UNCHANGED <<libVars, svcVars, handler, streams, db>> /\ todo' = todo
  BY DEF Refuse, CallPeerFails, AllCalled, Return, ClientTimeout
<1>2. ServiceInv'
  BY <1>1, CallerFrame DEF IInv
<1>3. /\ client' \in [Requests -> {"idle", "waiting", "ok", "error", "timeout"}]
      /\ caller' \in [Requests -> {"idle", "calling", "waiting", "returned"}]
      /\ target' \in [Requests -> Nodes \cup {None}]
      /\ failed' \in [Requests -> Nat]
      /\ faults' \in Nat
  <2> USE DEF IInv, TypeOK
  <2>1. CASE \E pub : Refuse(r, pub)
    BY <2>1 DEF Refuse
  <2>2. CASE \E p \in Nodes : CallPeerFails(r, p)
    BY <2>2 DEF CallPeerFails, SleepAfterError
  <2>3. CASE AllCalled(r)
    BY <2>3 DEF AllCalled, Answer
  <2>4. CASE Return(r)
    BY <2>4 DEF Return, Answer
  <2>5. CASE ClientTimeout(r)
    BY <2>5 DEF ClientTimeout
  <2> QED
    BY <2>1, <2>2, <2>3, <2>4, <2>5
<1>4. TypeOK'
  BY <1>1, <1>3, CallerTypes DEF svcVars, IInv, TypeOK
<1>5. \A q \in Requests : client'[q] = "ok" /\ q.kind # "reshare" =>
        client[q] = "ok" \/ outcome[Own(q)] = "done"
  BY DEF Refuse, CallPeerFails, AllCalled, Return, ClientTimeout, Answer, IInv, TypeOK
<1>6. CallsInv' /\ AnswerInv'
  BY <1>1, <1>5 DEF IInv, CallsInv, AnswerInv, svcVars
<1> QED
  BY <1>2, <1>4, <1>6 DEF IInv

(* A peer executes the call, and its reply arrives or not.                  *)
LEMMA CallPeerInv ==
  ASSUME IInv, NEW r \in Requests, NEW p \in Nodes,
         CallPeer(r, p) \/ CallPeerNoReply(r, p)
  PROVE  IInv'
<1>1. p \in todo[r] /\ Serve(r, p)
  BY DEF CallPeer, CallPeerNoReply, Calling
<1>2. p # r.node
  BY <1>1 DEF IInv, CallsInv, Peers
<1>3. PICK k \in 1 .. MaxCalls : NewService(<<p, r, k>>, PubOf(r))
  BY <1>1 DEF Serve
<1>4. <<p, r, k>> \in Inst /\ NodeOf(<<p, r, k>>) = p /\ ReqOf(<<p, r, k>>) = r
  BY InstFacts
<1>5. UNCHANGED <<client, caller, libVars, streams, db>>
  BY DEF CallPeer, CallPeerNoReply
<1>6. /\ ServiceInv'
      /\ pc' \in [Inst -> PC]
      /\ base' \in [Inst -> Shares \cup {None}]
      /\ handler' \in [Nodes -> [Hashes -> Inst \cup {None}]]
      /\ outcome' = outcome
  BY <1>2, <1>3, <1>4, <1>5, NewServiceInv DEF IInv
<1>7. /\ todo' \in [Requests -> SUBSET Nodes]
      /\ target' \in [Requests -> Nodes \cup {None}]
      /\ failed' \in [Requests -> Nat]
      /\ faults' \in Nat
      /\ \A q \in Requests : todo'[q] \subseteq todo[q]
  <2>1. CASE CallPeer(r, p)
    BY <2>1 DEF CallPeer, IInv, TypeOK
  <2>2. CASE CallPeerNoReply(r, p)
    BY <2>2 DEF CallPeerNoReply, SleepAfterError, IInv, TypeOK
  <2> QED
    BY <2>1, <2>2
<1>8. TypeOK'
  BY <1>5, <1>6, <1>7, CallerTypes DEF IInv, TypeOK
<1>9. CallsInv' /\ AnswerInv'
  BY <1>5, <1>6, <1>7 DEF IInv, CallsInv, AnswerInv
<1> QED
  BY <1>6, <1>8, <1>9 DEF IInv

-----------------------------------------------------------------------------
(* Steps of the services.                                                   *)

(* Callers are not concerned by a step of a service, unless it takes back a *)
(* result.                                                                  *)
LEMMA ServiceFrame ==
  ASSUME CallsInv, AnswerInv, UNCHANGED callVars,
         \A i \in Inst : outcome[i] = "done" => outcome'[i] = "done"
  PROVE  CallsInv' /\ AnswerInv'
<1>1. \A r \in Requests : Own(r) \in Inst
  BY InstFacts
<1> QED
  BY <1>1 DEF callVars, CallsInv, AnswerInv

(* Process starts the first round.                                          *)
LEMMA ProcessInv ==
  ASSUME IInv, NEW i \in Inst, Process(i)
  PROVE  IInv'
<1>1. /\ pc[i] = "created"
      /\ pc' = [pc EXCEPT ![i] = "running"]
      /\ round' = [round EXCEPT ![i] = 1]
      /\ out' = [out EXCEPT ![i] = Peers(NodeOf(i))]
      /\ UNCHANGED <<callVars, outcome, base, seen, view, inbox, handler, streams,
                     db, faults>>
  BY DEF Process
<1>2. TypeOK'
  BY <1>1, ConstantsAssumption DEF IInv, TypeOK, PC, Peers, callVars
<1>3. round[i] = 0 /\ outcome[i] = "none"
  BY <1>1 DEF IInv, ServiceInv, RoundInv
<1>4. /\ \A j \in Inst : j # i => pc'[j] = pc[j] /\ round'[j] = round[j]
      /\ pc'[i] = "running" /\ round'[i] = 1
      /\ \A j \in Inst : round[j] \in Nat /\ round'[j] \in Nat
  BY <1>1, <1>2 DEF IInv, TypeOK
<1>5. CallsInv' /\ AnswerInv'
  BY <1>1, ServiceFrame DEF IInv
<1>6. OwnInv' /\ HandlerInv' /\ BaseInv'
  BY <1>1, <1>4 DEF IInv, ServiceInv, OwnInv, HandlerInv, BaseInv
<1>7. \A j \in Inst : round[j] <= round'[j] /\ (round'[j] = Rounds <=> round[j] = Rounds)
  BY <1>3, <1>4, ConstantsAssumption
<1>8. StreamInv' /\ InboxInv'
  BY <1>1, <1>4, <1>7 DEF IInv, ServiceInv, StreamInv, InboxInv, Sent, TypeOK,
     Streams, Messages
<1>9. RoundInv'
  BY <1>1, <1>3, <1>4 DEF IInv, ServiceInv, RoundInv
<1>10. SaltInv' /\ ReshareInv'
  BY <1>1, <1>4 DEF IInv, ServiceInv, SaltInv, ReshareInv, HasKey
<1>11. ConfirmInv' /\ DoneInv'
  BY <1>1, <1>7 DEF IInv, ServiceInv, ConfirmInv, DoneInv, Confirmed
<1>12. KeyInv'
  BY <1>1, <1>7, InstFacts DEF IInv, ServiceInv, KeyInv, KeyOf, HasKey
<1> QED
  BY <1>2, <1>5, <1>6, <1>8, <1>9, <1>10, <1>11, <1>12 DEF IInv, ServiceInv

(* send writes a stream to the registered service, or loses the message.    *)
LEMMA SendInv ==
  ASSUME IInv, NEW i \in Inst, NEW m \in Nodes, Send(i, m) \/ SendFails(i, m)
  PROVE  IInv'
<1>1. /\ pc[i] = "running"
      /\ out' = [out EXCEPT ![i] = @ \ {m}]
      /\ UNCHANGED <<callVars, svcVars, round, seen, view, inbox, handler, db,
                     faults>>
  BY DEF Send, SendFails
<1>2. \A s \in streams' : s \in streams \/ (s \in Streams /\ Sent(s.to, s.from, s.round))
  <2>1. CASE Send(i, m)
    <3> DEFINE to == handler[m][ReqOf(i).hash]
    <3>1. ReqOf(i).hash \in Hashes
      BY InstFacts, RequestFields
    <3>2. to \in Inst /\ ReqOf(to).hash = ReqOf(i).hash
      BY <2>1, <3>1 DEF Send, IInv, TypeOK, ServiceInv, HandlerInv
    <3>3. round[i] \in 1 .. Rounds
      BY <1>1, ConstantsAssumption DEF IInv, ServiceInv, RoundInv, TypeOK
    <3> QED
      BY <2>1, <3>2, <3>3 DEF Send, Streams, Sent
  <2>2. CASE SendFails(i, m)
    BY <2>2 DEF SendFails
  <2> QED
    BY <2>1, <2>2
<1>3. TypeOK'
  BY <1>1, <1>2 DEF IInv, TypeOK, callVars, svcVars
<1>4. CallsInv' /\ AnswerInv'
  BY <1>1, ServiceFrame DEF IInv, svcVars
<1>5. StreamInv'
  BY <1>1, <1>2 DEF IInv, ServiceInv, StreamInv, Sent
<1>6. OwnInv' /\ HandlerInv' /\ InboxInv' /\ RoundInv' /\ BaseInv'
  BY <1>1 DEF IInv, ServiceInv, OwnInv, HandlerInv, InboxInv, RoundInv, BaseInv,
     Sent, svcVars
<1>7. SaltInv' /\ ReshareInv' /\ ConfirmInv' /\ DoneInv' /\ KeyInv'
  BY <1>1 DEF IInv, ServiceInv, SaltInv, ReshareInv, ConfirmInv, DoneInv, KeyInv,
     HasKey, Confirmed, KeyOf, svcVars
<1> QED
  BY <1>3, <1>4, <1>5, <1>6, <1>7 DEF IInv, ServiceInv

(* Handle moves a message from its stream to the queue, or drops it.        *)
LEMMA HandleInv ==
  ASSUME IInv, NEW s \in streams, Handle(s)
  PROVE  IInv'
<1> DEFINE msg == [from |-> s.from, round |-> s.round]
<1>1. /\ streams' = streams \ {s}
      /\ inbox' = inbox \/ inbox' = [inbox EXCEPT ![s.to] = @ \cup {msg}]
      /\ UNCHANGED <<callVars, svcVars, round, seen, view, out, handler, db, faults>>
  BY DEF Handle
<1>2. s.to \in Inst /\ msg \in Messages /\ Sent(s.to, msg.from, msg.round)
  BY DEF IInv, TypeOK, Streams, Messages, ServiceInv, StreamInv
<1>3. /\ inbox' \in [Inst -> SUBSET Messages]
      /\ \A j \in Inst : \A x \in inbox'[j] : Sent(j, x.from, x.round)
  <2>1. CASE inbox' = inbox
    BY <2>1 DEF IInv, TypeOK, ServiceInv, InboxInv
  <2>2. CASE inbox' = [inbox EXCEPT ![s.to] = @ \cup {msg}]
    <3>1. inbox' \in [Inst -> SUBSET Messages]
      BY <1>2, <2>2 DEF IInv, TypeOK
    <3>2. \A j \in Inst : \A x \in inbox'[j] : x \in inbox[j] \/ (j = s.to /\ x = msg)
      BY <1>2, <2>2 DEF IInv, TypeOK
    <3> QED
      BY <1>2, <3>1, <3>2 DEF IInv, ServiceInv, InboxInv
  <2> QED
    BY <1>1, <2>1, <2>2
<1>4. TypeOK'
  BY <1>1, <1>3 DEF IInv, TypeOK, callVars, svcVars
<1>5. CallsInv' /\ AnswerInv'
  BY <1>1, ServiceFrame DEF IInv, svcVars
<1>6. StreamInv' /\ InboxInv'
  BY <1>1, <1>3 DEF IInv, ServiceInv, StreamInv, InboxInv, Sent
<1>7. OwnInv' /\ HandlerInv' /\ RoundInv' /\ BaseInv'
  BY <1>1 DEF IInv, ServiceInv, OwnInv, HandlerInv, RoundInv, BaseInv, svcVars
<1>8. SaltInv' /\ ReshareInv' /\ ConfirmInv' /\ DoneInv' /\ KeyInv'
  BY <1>1 DEF IInv, ServiceInv, SaltInv, ReshareInv, ConfirmInv, DoneInv, KeyInv,
     HasKey, Confirmed, KeyOf, svcVars
<1> QED
  BY <1>4, <1>5, <1>6, <1>7, <1>8 DEF IInv, ServiceInv

(***************************************************************************)
(* HandleMessage: in the last round the sender has reached the last round  *)
(* too, its view and its base are those of the receiver, and both stay.    *)
(***************************************************************************)
LEMMA HandleMessageInv ==
  ASSUME IInv, NEW i \in Inst, NEW m \in inbox[i], HandleMessage(i, m)
  PROVE  IInv'
<1> DEFINE f == NodeOf(m.from)
<1>1. /\ m.round = round[i]
      /\ Fits(i, m)
      /\ inbox' = [inbox EXCEPT ![i] = @ \ {m}]
      /\ seen'  = [seen EXCEPT ![i] = @ \cup {f}]
      /\ view'  = [view EXCEPT ![i] = IF round[i] = 1 THEN [@ EXCEPT ![f] = m.from]
                                                     ELSE @]
      /\ UNCHANGED <<callVars, svcVars, round, out, handler, streams, db, faults>>
  BY DEF HandleMessage
<1>2. m \in Messages /\ m.from \in Inst /\ f \in Nodes /\ Sent(i, m.from, m.round)
  BY InstFacts DEF IInv, TypeOK, Messages, ServiceInv, InboxInv
<1>3. TypeOK'
  <2>1. view' \in [Inst -> Views]
    BY <1>1, <1>2 DEF IInv, TypeOK, Views
  <2>2. seen' \in [Inst -> SUBSET Nodes] /\ inbox' \in [Inst -> SUBSET Messages]
    BY <1>1, <1>2 DEF IInv, TypeOK
  <2> QED
    BY <1>1, <2>1, <2>2 DEF IInv, TypeOK, callVars, svcVars
<1>4. CallsInv' /\ AnswerInv'
  BY <1>1, ServiceFrame DEF IInv, svcVars
<1>5. OwnInv' /\ HandlerInv' /\ RoundInv' /\ BaseInv'
  BY <1>1 DEF IInv, ServiceInv, OwnInv, HandlerInv, RoundInv, BaseInv, svcVars
<1>6. SaltInv' /\ ReshareInv'
  BY <1>1 DEF IInv, ServiceInv, SaltInv, ReshareInv, HasKey, svcVars
<1>7. \A j \in Inst : inbox'[j] \subseteq inbox[j]
  BY <1>1 DEF IInv, TypeOK
<1>8. StreamInv' /\ InboxInv'
  BY <1>1, <1>7 DEF IInv, ServiceInv, StreamInv, InboxInv, Sent
<1>9. \A j \in Inst : round[j] = Rounds => view'[j] = view[j]
  BY <1>1, ConstantsAssumption DEF IInv, TypeOK
<1>10. round[i] = Rounds => view[i][f] = m.from /\ Confirmed(i, m.from)
  BY <1>1, <1>2, ConstantsAssumption DEF Fits, Sent, Confirmed, IInv, TypeOK
<1>11. ConfirmInv'
  <2> SUFFICES ASSUME NEW j \in Inst, round[j] = Rounds, NEW x \in seen'[j]
               PROVE  NodeOf(view[j][x]) = x /\ Confirmed(j, view[j][x])'
    BY <1>1, <1>9 DEF ConfirmInv
  <2>1. NodeOf(view[j][x]) = x /\ Confirmed(j, view[j][x])
    <3>1. x \in seen[j] \/ (j = i /\ x = f)
      BY <1>1 DEF IInv, TypeOK
    <3> QED
      BY <1>10, <3>1 DEF IInv, ServiceInv, ConfirmInv
  <2> QED
    BY <1>1, <1>9, <2>1 DEF Confirmed, svcVars
<1>12. DoneInv'
  <2>1. pc[i] = "running"
    BY DEF HandleMessage, Waiting
  <2>2. outcome[i] # "done"
    BY <2>1 DEF IInv, ServiceInv, RoundInv
  <2>3. \A j \in Inst : j # i => seen'[j] = seen[j]
    BY <1>1 DEF IInv, TypeOK
  <2> QED
    BY <1>1, <2>2, <2>3 DEF IInv, ServiceInv, DoneInv, svcVars
<1>13. KeyInv'
  BY <1>1, <1>9, InstFacts DEF IInv, ServiceInv, KeyInv, KeyOf, HasKey
<1> QED
  BY <1>3, <1>4, <1>5, <1>6, <1>8, <1>11, <1>12, <1>13 DEF IInv, ServiceInv

(* NextRound forgets whom it has heard, so that nothing is claimed of the   *)
(* last round at its beginning.                                             *)
LEMMA NextRoundInv ==
  ASSUME IInv, NEW i \in Inst, NextRound(i)
  PROVE  IInv'
<1>1. /\ pc[i] = "running"
      /\ round[i] < Rounds
      /\ round' = [round EXCEPT ![i] = @ + 1]
      /\ seen'  = [seen EXCEPT ![i] = {}]
      /\ out'   = [out EXCEPT ![i] = Peers(NodeOf(i))]
      /\ UNCHANGED <<callVars, svcVars, view, inbox, handler, streams, db, faults>>
  BY DEF NextRound
<1>2. round[i] \in 1 .. (Rounds - 1) /\ outcome[i] = "none"
  BY <1>1, ConstantsAssumption DEF IInv, TypeOK, ServiceInv, RoundInv
<1>3. TypeOK'
  BY <1>1, <1>2, ConstantsAssumption DEF IInv, TypeOK, Peers, callVars, svcVars
<1>4. /\ \A j \in Inst : j # i => seen'[j] = seen[j] /\ round'[j] = round[j]
      /\ seen'[i] = {} /\ round'[i] = round[i] + 1
      /\ \A j \in Inst : round[j] \in Nat /\ round'[j] \in Nat
  BY <1>1, <1>3 DEF IInv, TypeOK
<1>5. \A j \in Inst : round[j] <= round'[j] /\ (round[j] = Rounds => round'[j] = Rounds)
  BY <1>2, <1>4, ConstantsAssumption
<1>6. CallsInv' /\ AnswerInv'
  BY <1>1, ServiceFrame DEF IInv, svcVars
<1>7. OwnInv' /\ HandlerInv' /\ BaseInv' /\ SaltInv' /\ ReshareInv'
  BY <1>1 DEF IInv, ServiceInv, OwnInv, HandlerInv, BaseInv, SaltInv, ReshareInv,
     HasKey, svcVars
<1>8. StreamInv' /\ InboxInv'
  BY <1>1, <1>4, <1>5 DEF IInv, ServiceInv, StreamInv, InboxInv, Sent, TypeOK,
     Streams, Messages
<1>9. RoundInv'
  BY <1>1, <1>2, <1>4 DEF IInv, ServiceInv, RoundInv, svcVars
<1>10. ConfirmInv'
  <2> SUFFICES ASSUME NEW j \in Inst, round'[j] = Rounds, NEW x \in seen'[j]
               PROVE  NodeOf(view[j][x]) = x /\ Confirmed(j, view[j][x])'
    BY <1>1 DEF ConfirmInv
  <2>1. j # i /\ round[j] = Rounds /\ x \in seen[j]
    BY <1>4
  <2> QED
    BY <1>1, <1>5, <2>1 DEF IInv, ServiceInv, ConfirmInv, Confirmed, svcVars
<1>11. DoneInv'
  BY <1>1, <1>2, <1>4, <1>5 DEF IInv, ServiceInv, DoneInv, svcVars
<1>12. KeyInv'
  BY <1>1, <1>5, InstFacts DEF IInv, ServiceInv, KeyInv, KeyOf, HasKey
<1> QED
  BY <1>3, <1>6, <1>7, <1>8, <1>9, <1>10, <1>11, <1>12 DEF IInv, ServiceInv

(* The library comes to its end, with a result only after the last round.   *)
LEMMA EndInv ==
  ASSUME IInv, NEW i \in Inst, Done(i) \/ Failed(i)
  PROVE  IInv'
<1>1. /\ pc[i] = "running"
      /\ pc' = [pc EXCEPT ![i] = "closed"]
      /\ UNCHANGED <<callVars, libVars, base, handler, streams, db, faults>>
  BY DEF Done, Failed, Waiting
<1>2. \/ outcome' = [outcome EXCEPT ![i] = "failed"]
      \/ /\ outcome' = [outcome EXCEPT ![i] = "done"]
         /\ round[i] = Rounds /\ seen[i] = Peers(NodeOf(i))
  BY DEF Done, Failed
<1>3. outcome[i] = "none"
  BY <1>1 DEF IInv, ServiceInv, RoundInv
<1>4. TypeOK'
  BY <1>1, <1>2 DEF IInv, TypeOK, PC, callVars, libVars
<1>5. /\ \A j \in Inst : j # i => pc'[j] = pc[j] /\ outcome'[j] = outcome[j]
      /\ pc'[i] = "closed"
  BY <1>1, <1>2 DEF IInv, TypeOK
<1>6. CallsInv' /\ AnswerInv'
  BY <1>1, <1>3, <1>5, ServiceFrame DEF IInv
<1>7. OwnInv' /\ HandlerInv' /\ BaseInv' /\ SaltInv' /\ ReshareInv' /\ RoundInv'
  BY <1>1, <1>5 DEF IInv, ServiceInv, OwnInv, HandlerInv, BaseInv, SaltInv,
     ReshareInv, RoundInv, HasKey, libVars
<1>8. StreamInv' /\ InboxInv' /\ ConfirmInv' /\ KeyInv'
  BY <1>1 DEF IInv, ServiceInv, StreamInv, InboxInv, ConfirmInv, KeyInv, Sent,
     Confirmed, KeyOf, HasKey, libVars
<1>9. DoneInv'
  BY <1>1, <1>2, <1>5 DEF IInv, ServiceInv, DoneInv, TypeOK, libVars
<1> QED
  BY <1>4, <1>6, <1>7, <1>8, <1>9 DEF IInv, ServiceInv

(* closeDone unregisters the handler.                                       *)
LEMMA RemoveInv ==
  ASSUME IInv, NEW i \in Inst, RemoveStreamHandler(i)
  PROVE  IInv'
<1>1. NodeOf(i) \in Nodes /\ ReqOf(i) \in Requests /\ ReqOf(i).hash \in Hashes
  BY InstFacts, RequestFields
<1>2. /\ pc[i] = "closed"
      /\ pc' = [pc EXCEPT ![i] = "removed"]
      /\ handler' = [handler EXCEPT ![NodeOf(i)][ReqOf(i).hash] = None]
      /\ UNCHANGED <<callVars, libVars, outcome, base, streams, db, faults>>
  BY DEF RemoveStreamHandler
<1>3. TypeOK'
  BY <1>1, <1>2 DEF IInv, TypeOK, PC, callVars, libVars
<1>4. /\ \A j \in Inst : j # i => pc'[j] = pc[j]
      /\ pc'[i] = "removed"
  BY <1>2 DEF IInv, TypeOK
<1>5. CallsInv' /\ AnswerInv'
  BY <1>2, ServiceFrame DEF IInv
<1>6. HandlerInv'
  BY <1>1, <1>2 DEF IInv, ServiceInv, HandlerInv, TypeOK
<1>7. OwnInv' /\ BaseInv' /\ SaltInv' /\ ReshareInv' /\ RoundInv'
  BY <1>2, <1>4 DEF IInv, ServiceInv, OwnInv, BaseInv, SaltInv, ReshareInv,
     RoundInv, HasKey, libVars
<1>8. StreamInv' /\ InboxInv' /\ ConfirmInv' /\ DoneInv' /\ KeyInv'
  BY <1>2 DEF IInv, ServiceInv, StreamInv, InboxInv, ConfirmInv, DoneInv, KeyInv,
     Sent, Confirmed, KeyOf, HasKey, libVars
<1> QED
  BY <1>3, <1>5, <1>6, <1>7, <1>8 DEF IInv, ServiceInv

-----------------------------------------------------------------------------
(* Saving a result.                                                         *)

(***************************************************************************)
(* Every service that has a DKG result ran the session of the one service  *)
(* that the node of the request has created for it.                        *)
(***************************************************************************)
LEMMA DoneView ==
  ASSUME IInv, NEW i \in Inst, outcome[i] = "done", ReqOf(i).kind = "dkg"
  PROVE  /\ round[Own(ReqOf(i))] = Rounds
         /\ view[i] = view[Own(ReqOf(i))]
<1> DEFINE rq == ReqOf(i)
<1>1. rq \in Requests /\ rq.node \in Nodes /\ NodeOf(i) \in Nodes
  BY InstFacts, RequestFields
<1>2. round[i] = Rounds /\ seen[i] = Peers(NodeOf(i))
  BY DEF IInv, ServiceInv, DoneInv
<1>3. \A j \in Inst : round[j] = Rounds => pc[j] # "none"
  BY ConstantsAssumption DEF IInv, ServiceInv, RoundInv
<1>4. CASE NodeOf(i) = rq.node
  BY <1>2, <1>3, <1>4 DEF IInv, ServiceInv, OwnInv
<1>5. CASE NodeOf(i) # rq.node
  <2> DEFINE j == view[i][rq.node]
  <2>1. rq.node \in seen[i]
    BY <1>1, <1>2, <1>5 DEF Peers
  <2>2. NodeOf(j) = rq.node /\ Confirmed(i, j)
    BY <1>2, <2>1 DEF IInv, ServiceInv, ConfirmInv
  <2>3. j \in Inst /\ ReqOf(j) \in Requests /\ round[j] = Rounds /\ view[j] = view[i]
    BY <2>2, InstFacts DEF Confirmed
  <2>4. ReqOf(j) = rq
    BY <1>1, <2>2, <2>3, RequestFacts DEF Confirmed
  <2>5. j = Own(rq)
    BY <1>3, <2>2, <2>3, <2>4 DEF IInv, ServiceInv, OwnInv
  <2> QED
    BY <2>3, <2>5
<1> QED
  BY <1>4, <1>5

(* What a service with a result writes.                                     *)
LEMMA SavedRecord ==
  ASSUME IInv, NEW i \in Inst, outcome[i] = "done"
  PROVE  \E rec \in Records :
           /\ Saved(i) = [db[NodeOf(i)] EXCEPT ![ReqOf(i).hash] = rec]
           /\ rec.type = "dkg" => rec.share.salt = rec.pub
           /\ ReqOf(i).kind = "dkg" =>
                rec.type = "dkg" /\ rec.pub = <<ReqOf(i).hash, view[i]>>
           /\ ReqOf(i).kind = "sign" => rec.type = "sig"
           /\ ReqOf(i).kind = "reshare" =>
                /\ HasKey(NodeOf(i), ReqOf(i).hash)
                /\ rec.type = "dkg"
                /\ rec.pub = db[NodeOf(i)][ReqOf(i).hash].pub
<1> DEFINE d == db[NodeOf(i)]
           rq == ReqOf(i)
<1>1. NodeOf(i) \in Nodes /\ rq \in Requests /\ rq.hash \in Hashes
      /\ rq.kind \in Kinds
  BY InstFacts, RequestFields
<1>2. view[i] \in Views
  BY DEF IInv, TypeOK
<1>3. pc[i] # "none"
  BY DEF IInv, ServiceInv, RoundInv
<1>4. CASE rq.kind = "dkg"
  <2> DEFINE rec == [type |-> "dkg", pub |-> <<rq.hash, view[i]>>,
                     share |-> Encrypt({}, <<rq.hash, view[i]>>), sig |-> None]
  <2>1. Saved(i) = [d EXCEPT ![rq.hash] = rec]
    BY <1>4 DEF Saved, SaveDKGResultData, Set
  <2>2. rec \in Records
    BY <1>1, <1>2 DEF Records, DkgRecords, PubKeys, Encrypt
  <2> QED
    BY <1>4, <2>1, <2>2 DEF Encrypt
<1>5. CASE rq.kind = "sign"
  <2> DEFINE rec == [type |-> "sig", pub |-> None, share |-> None,
                     sig |-> NewSignature(base[i].pub, rq.hash)]
  <2>1. Saved(i) = [d EXCEPT ![rq.hash] = rec]
    BY <1>5 DEF Saved, SaveSignerResultData, Set
  <2>2. base[i] \in Shares
    BY <1>3, <1>5 DEF IInv, ServiceInv, BaseInv
  <2>3. NewSignature(base[i].pub, rq.hash) \in Sigs
    BY <1>1, <2>2 DEF NewSignature, Sigs, Shares
  <2>4. rec \in Records
    BY <2>3 DEF Records, SigRecords
  <2> QED
    BY <1>5, <2>1, <2>4
<1>6. CASE rq.kind = "reshare"
  <2> DEFINE old == d[rq.hash]
             gen == base[i].gen \cup {view[i]}
             rec == [type |-> "dkg", pub |-> old.pub,
                     share |-> Encrypt(gen, old.pub), sig |-> None]
  <2>1. HasKey(NodeOf(i), rq.hash)
    BY <1>3, <1>6 DEF IInv, ServiceInv, ReshareInv
  <2>2. old.type = "dkg" /\ old \in DkgRecords
    BY <1>1, <2>1 DEF HasKey, IInv, TypeOK, Records, DkgRecords, SigRecords, NoRecord
  <2>3. Saved(i) = UpdateDKGResultData(d, rq.hash, gen)
    BY <1>6 DEF Saved
  <2>4. Saved(i) = [d EXCEPT ![rq.hash] = rec]
    BY <2>2, <2>3 DEF UpdateDKGResultData, Found, GetDKGResultData, Set
  <2>5. base[i] \in Shares
    BY <1>3, <1>6 DEF IInv, ServiceInv, BaseInv
  <2>6. gen \in SUBSET Views
    BY <1>2, <2>5 DEF Shares
  <2>7. old.pub \in PubKeys
    BY <2>2 DEF DkgRecords
  <2>8. rec \in Records
    BY <2>6, <2>7 DEF Records, DkgRecords, Encrypt
  <2> QED
    BY <1>6, <2>1, <2>4, <2>8 DEF Encrypt
<1> QED
  BY <1>1, <1>4, <1>5, <1>6 DEF Kinds

(* A save writes one record or none.                                        *)
LEMMA SaveRecord ==
  ASSUME IInv, NEW i \in Inst, Save(i)
  PROVE  \/ db' = db
         \/ /\ outcome[i] = "done"
            /\ \E rec \in Records :
                 /\ \A n \in Nodes, h \in Hashes :
                      db'[n][h] = IF n = NodeOf(i) /\ h = ReqOf(i).hash
                                  THEN rec ELSE db[n][h]
                 /\ db' \in [Nodes -> [Hashes -> Records]]
                 /\ rec.type = "dkg" => rec.share.salt = rec.pub
                 /\ ReqOf(i).kind = "dkg" =>
                      rec.type = "dkg" /\ rec.pub = <<ReqOf(i).hash, view[i]>>
                 /\ ReqOf(i).kind = "sign" => rec.type = "sig"
                 /\ ReqOf(i).kind = "reshare" =>
                      /\ HasKey(NodeOf(i), ReqOf(i).hash)
                      /\ rec.type = "dkg"
                      /\ rec.pub = db[NodeOf(i)][ReqOf(i).hash].pub
<1>1. db' = [db EXCEPT ![NodeOf(i)] = Saved(i)] \/ db' = db
  BY DEF Save
<1>2. NodeOf(i) \in Nodes /\ ReqOf(i).hash \in Hashes
  BY InstFacts, RequestFields
<1>3. db \in [Nodes -> [Hashes -> Records]]
  BY DEF IInv, TypeOK
<1>4. CASE outcome[i] # "done"
  BY <1>1, <1>2, <1>3, <1>4 DEF Saved
<1>5. CASE outcome[i] = "done" /\ db' = [db EXCEPT ![NodeOf(i)] = Saved(i)]
  <2>1. PICK rec \in Records :
           /\ Saved(i) = [db[NodeOf(i)] EXCEPT ![ReqOf(i).hash] = rec]
           /\ rec.type = "dkg" => rec.share.salt = rec.pub
           /\ ReqOf(i).kind = "dkg" =>
                rec.type = "dkg" /\ rec.pub = <<ReqOf(i).hash, view[i]>>
           /\ ReqOf(i).kind = "sign" => rec.type = "sig"
           /\ ReqOf(i).kind = "reshare" =>
                /\ HasKey(NodeOf(i), ReqOf(i).hash)
                /\ rec.type = "dkg"
                /\ rec.pub = db[NodeOf(i)][ReqOf(i).hash].pub
    BY <1>5, SavedRecord
  <2>2. db' \in [Nodes -> [Hashes -> Records]]
    BY <1>2, <1>3, <1>5, <2>1
  <2>3. \A n \in Nodes, h \in Hashes :
          db'[n][h] = IF n = NodeOf(i) /\ h = ReqOf(i).hash THEN rec ELSE db[n][h]
    BY <1>2, <1>3, <1>5, <2>1
  <2> QED
    BY <1>5, <2>1, <2>2, <2>3
<1> QED
  BY <1>1, <1>4, <1>5

(***************************************************************************)
(* A save replaces no key: a second result of one DKG has the same key, a  *)
(* reshare keeps the key, a signature never has the hash of a key.         *)
(***************************************************************************)
LEMMA SaveKeepsKeys ==
  ASSUME IInv, NEW i \in Inst, Save(i),
         NEW n \in Nodes, NEW h \in Hashes, HasKey(n, h)
  PROVE  HasKey(n, h)' /\ db'[n][h].pub = db[n][h].pub
<1> DEFINE rq == ReqOf(i)
<1>1. rq \in Requests /\ rq.hash \in Hashes /\ rq.kind \in Kinds /\ NodeOf(i) \in Nodes
  BY InstFacts, RequestFields
<1>2. KeyOf(h, db[n][h].pub)
  BY DEF IInv, ServiceInv, KeyInv
<1>3. CASE db' = db
  BY <1>3 DEF HasKey
<1>4. CASE ~(n = NodeOf(i) /\ h = rq.hash)
  BY <1>4, SaveRecord DEF HasKey
<1>5. CASE db' # db /\ n = NodeOf(i) /\ h = rq.hash
  <2>1. outcome[i] = "done"
    BY <1>5, SaveRecord
  <2>2. PICK rec \in Records :
          /\ \A m \in Nodes, g \in Hashes :
               db'[m][g] = IF m = NodeOf(i) /\ g = ReqOf(i).hash
                           THEN rec ELSE db[m][g]
          /\ db' \in [Nodes -> [Hashes -> Records]]
          /\ rec.type = "dkg" => rec.share.salt = rec.pub
          /\ ReqOf(i).kind = "dkg" =>
               rec.type = "dkg" /\ rec.pub = <<ReqOf(i).hash, view[i]>>
          /\ ReqOf(i).kind = "sign" => rec.type = "sig"
          /\ ReqOf(i).kind = "reshare" =>
               /\ HasKey(NodeOf(i), ReqOf(i).hash)
               /\ rec.type = "dkg"
               /\ rec.pub = db[NodeOf(i)][ReqOf(i).hash].pub
    BY <1>5, SaveRecord, Zenon
  <2>3. db'[n][h] = rec
    BY <1>1, <1>5, <2>2
  <2>4. CASE rq.kind = "dkg"
    <3>1. h \notin InitKeys
      BY <1>1, <1>5, <2>4, RequestFacts
    <3>2. PICK q \in Requests : /\ q.kind = "dkg"
                                /\ q.hash = h
                                /\ db[n][h].pub = <<h, view[Own(q)]>>
      BY <1>2, <3>1 DEF KeyOf
    <3>3. q = rq
      BY <1>1, <1>5, <2>4, <3>2, RequestFacts
    <3>4. view[i] = view[Own(rq)]
      BY <2>1, <2>4, DoneView
    <3> QED
      BY <1>5, <2>2, <2>3, <2>4, <3>2, <3>3, <3>4 DEF HasKey
  <2>5. CASE rq.kind = "sign"
    <3>1. h \notin InitKeys
      BY <1>1, <1>5, <2>5, RequestFacts
    <3>2. PICK q \in Requests : q.kind = "dkg" /\ q.hash = h
      BY <1>2, <3>1 DEF KeyOf
    <3>3. q.key = h
      BY <3>2, RequestFacts
    <3> QED
      BY <1>1, <1>5, <2>5, <3>3, RequestFacts
  <2>6. CASE rq.kind = "reshare"
    BY <1>5, <2>2, <2>3, <2>6 DEF HasKey
  <2> QED
    BY <1>1, <2>4, <2>5, <2>6 DEF Kinds
<1> QED
  BY <1>3, <1>4, <1>5

(* The save itself, the end of OnStateChanged.                              *)
LEMMA SaveInv ==
  ASSUME IInv, NEW i \in Inst, Save(i)
  PROVE  IInv'
<1> DEFINE rq == ReqOf(i)
<1>1. /\ pc[i] \in {"closed", "removed"}
      /\ pc' = [pc EXCEPT ![i] = "ended"]
      /\ UNCHANGED <<callVars, libVars, outcome, base, handler, streams, faults>>
  BY DEF Save
<1>2. /\ \A j \in Inst : j # i => pc'[j] = pc[j]
      /\ pc'[i] = "ended"
      /\ pc' \in [Inst -> PC]
  BY <1>1 DEF IInv, TypeOK, PC
<1>3. rq \in Requests /\ rq.hash \in Hashes /\ rq.kind \in Kinds /\ NodeOf(i) \in Nodes
  BY InstFacts, RequestFields
<1>4. db' \in [Nodes -> [Hashes -> Records]]
  BY SaveRecord DEF IInv, TypeOK
<1>5. TypeOK'
  BY <1>1, <1>2, <1>4 DEF IInv, TypeOK, callVars, libVars
<1>6. CallsInv' /\ AnswerInv'
  BY <1>1, ServiceFrame DEF IInv
<1>7. OwnInv' /\ HandlerInv' /\ BaseInv' /\ RoundInv'
  BY <1>1, <1>2 DEF IInv, ServiceInv, OwnInv, HandlerInv, BaseInv, RoundInv, libVars
<1>8. StreamInv' /\ InboxInv' /\ ConfirmInv' /\ DoneInv'
  BY <1>1 DEF IInv, ServiceInv, StreamInv, InboxInv, ConfirmInv, DoneInv, Sent,
     Confirmed, libVars
<1>9. SaltInv'
  BY <1>3, SaveRecord DEF IInv, ServiceInv, SaltInv, HasKey
<1>10. ReshareInv'
  <2> SUFFICES ASSUME NEW j \in Inst, pc'[j] # "none", ReqOf(j).kind = "reshare"
               PROVE  HasKey(NodeOf(j), ReqOf(j).hash)'
    BY DEF ReshareInv
  <2>1. NodeOf(j) \in Nodes /\ ReqOf(j).hash \in Hashes
    BY InstFacts, RequestFields
  <2>2. pc[j] # "none"
    BY <1>1, <1>2
  <2>3. HasKey(NodeOf(j), ReqOf(j).hash)
    BY <2>2 DEF IInv, ServiceInv, ReshareInv
  <2> QED
    BY <2>1, <2>3, SaveKeepsKeys
<1>11. KeyInv'
  <2> SUFFICES ASSUME NEW n \in Nodes, NEW h \in Hashes, HasKey(n, h)'
               PROVE  KeyOf(h, db'[n][h].pub)
    BY <1>1 DEF KeyInv, KeyOf, libVars
  <2>1. CASE HasKey(n, h)
    BY <2>1, SaveKeepsKeys DEF IInv, ServiceInv, KeyInv
  <2>2. CASE ~HasKey(n, h)
    <3>1. /\ outcome[i] = "done" /\ n = NodeOf(i) /\ h = rq.hash /\ rq.kind = "dkg"
          /\ db'[n][h].pub = <<h, view[i]>>
      <4>1. outcome[i] = "done" /\ db' # db
        BY <2>2, SaveRecord DEF HasKey
      <4>2. PICK rec \in Records :
              /\ \A m \in Nodes, g \in Hashes :
                   db'[m][g] = IF m = NodeOf(i) /\ g = rq.hash THEN rec ELSE db[m][g]
              /\ rq.kind = "dkg" => rec.pub = <<rq.hash, view[i]>>
              /\ rq.kind = "sign" => rec.type = "sig"
              /\ rq.kind = "reshare" => HasKey(NodeOf(i), rq.hash)
        BY <4>1, SaveRecord
      <4>3. n = NodeOf(i) /\ h = rq.hash
        BY <2>2, <4>2 DEF HasKey
      <4>4. db'[n][h] = rec /\ rec.type = "dkg"
        BY <4>2, <4>3 DEF HasKey
      <4> QED
        BY <1>3, <2>2, <4>1, <4>2, <4>3, <4>4 DEF Kinds
    <3>2. round[Own(rq)] = Rounds /\ view[i] = view[Own(rq)]
      BY <3>1, DoneView
    <3>3. h \notin InitKeys
      BY <1>3, <3>1, RequestFacts
    <3> QED
      BY <1>3, <3>1, <3>2, <3>3 DEF KeyOf
  <2> QED
    BY <2>1, <2>2
<1> QED
  BY <1>5, <1>6, <1>7, <1>8, <1>9, <1>10, <1>11 DEF IInv, ServiceInv

(* A crash ends the services of a node and keeps its store.                 *)
LEMMA CrashInv ==
  ASSUME IInv, NEW n \in Nodes, Crash(n)
  PROVE  IInv'
<1>1. /\ pc' = [i \in Inst |-> IF NodeOf(i) = n /\ pc[i] # "none"
                                THEN "crashed" ELSE pc[i]]
      /\ handler' = [handler EXCEPT ![n] = [h \in Hashes |-> None]]
      /\ streams' \subseteq streams
      /\ faults' = faults + 1
      /\ UNCHANGED <<todo, target, failed, outcome, base, libVars, db>>
  BY DEF Crash
<1>2. /\ client' \in [Requests -> {"idle", "waiting", "ok", "error", "timeout"}]
      /\ caller' \in [Requests -> {"idle", "calling", "waiting", "returned"}]
      /\ \A r \in Requests : client'[r] = "ok" => client[r] = "ok"
  BY DEF Crash, IInv, TypeOK
<1>3. pc' \in [Inst -> PC]
  BY <1>1 DEF IInv, TypeOK, PC
<1>4. handler' \in [Nodes -> [Hashes -> Inst \cup {None}]]
  BY <1>1 DEF IInv, TypeOK
<1>5. TypeOK'
  BY <1>1, <1>2, <1>3, <1>4 DEF IInv, TypeOK, libVars
<1>6. CallsInv' /\ AnswerInv'
  BY <1>1, <1>2 DEF IInv, CallsInv, AnswerInv
<1>7. \A j \in Inst : pc'[j] = pc[j] \/ (pc'[j] = "crashed" /\ pc[j] # "none")
  BY <1>1
<1>8. OwnInv' /\ BaseInv' /\ RoundInv' /\ SaltInv' /\ ReshareInv'
  BY <1>1, <1>7 DEF IInv, ServiceInv, OwnInv, BaseInv, RoundInv, SaltInv, ReshareInv,
     HasKey, libVars
<1>9. HandlerInv'
  BY <1>1 DEF IInv, ServiceInv, HandlerInv, TypeOK
<1>10. StreamInv' /\ InboxInv' /\ ConfirmInv' /\ DoneInv' /\ KeyInv'
  BY <1>1 DEF IInv, ServiceInv, StreamInv, InboxInv, ConfirmInv, DoneInv, KeyInv,
     Sent, Confirmed, KeyOf, HasKey, libVars
<1> QED
  BY <1>5, <1>6, <1>8, <1>9, <1>10 DEF IInv, ServiceInv

-----------------------------------------------------------------------------
(* The invariant is inductive.                                              *)
LEMMA NextInv == IInv /\ [Next]_vars => IInv'
<1> SUFFICES ASSUME IInv, [Next]_vars PROVE IInv'
  OBVIOUS
<1>1. CASE UNCHANGED vars
  <2>1. UNCHANGED <<libVars, svcVars, handler, streams, db>> /\ UNCHANGED callVars
    BY <1>1 DEF vars
  <2>2. ServiceInv'
    BY <2>1, CallerFrame DEF IInv
  <2>3. CallsInv' /\ AnswerInv'
    BY <2>1, ServiceFrame DEF IInv, svcVars
  <2>4. TypeOK'
    BY <1>1 DEF vars, callVars, libVars, svcVars, IInv, TypeOK
  <2> QED
    BY <2>2, <2>3, <2>4 DEF IInv
<1>2. ASSUME NEW r \in Requests, Request(r)
      PROVE  IInv'
  <2>1. \E pub : Accept(r, pub) \/ Refuse(r, pub)
    BY <1>2 DEF Request, RegisterDKG, SignMessage, Reshare
  <2> QED
    BY <2>1, AcceptInv, CallerStepInv
<1>3. ASSUME NEW r \in Requests, Caller(r) \/ CallFault(r) \/ ClientTimeout(r)
      PROVE  IInv'
  BY <1>3, CallPeerInv, CallerStepInv DEF Caller, CallFault
<1>4. ASSUME NEW i \in Inst, Process(i) \/ Sending(i) \/ Receive(i)
      PROVE  IInv'
  BY <1>4, ProcessInv, SendInv, HandleInv DEF Sending, Receive
<1>5. ASSUME NEW i \in Inst, Library(i)
      PROVE  IInv'
  BY <1>5, HandleMessageInv, NextRoundInv, EndInv DEF Library
<1>6. ASSUME NEW i \in Inst, Finish(i)
      PROVE  IInv'
  BY <1>6, RemoveInv, SaveInv DEF Finish
<1> QED
  BY <1>1, <1>2, <1>3, <1>4, <1>5, <1>6, CrashInv DEF Next

(* The inductive invariant holds in every reachable state.                  *)
THEOREM Invariance == Spec => []IInv
BY InitInv, NextInv, PTL DEF Spec

-----------------------------------------------------------------------------
(* Every variable keeps its type, for any number of nodes, requests, rounds *)
(* and faults.                                                              *)
THEOREM TypeCorrect == Spec => []TypeOK
<1>1. IInv => TypeOK
  BY DEF IInv
<1> QED
  BY <1>1, Invariance, PTL

(***************************************************************************)
(* Nodes that have stored the result of a DKG agree on its public key,     *)
(* however often SendToPeer has made a peer execute RegisterDKG and        *)
(* whatever messages, replies and nodes were lost.                         *)
(***************************************************************************)
THEOREM KeysAgree == Spec => []KeyAgreement
<1>1. IInv => KeyAgreement
  <2> SUFFICES ASSUME IInv, NEW m \in Nodes, NEW n \in Nodes, NEW h \in Hashes,
                      HasKey(m, h), HasKey(n, h)
               PROVE  db[m][h].pub = db[n][h].pub
    BY DEF KeyAgreement
  <2>1. KeyOf(h, db[m][h].pub) /\ KeyOf(h, db[n][h].pub)
    BY DEF IInv, ServiceInv, KeyInv
  <2>2. CASE h \in InitKeys
    BY <2>1, <2>2 DEF KeyOf
  <2>3. CASE h \notin InitKeys
    <3>1. PICK q \in Requests : /\ q.kind = "dkg" /\ q.hash = h
                                /\ db[m][h].pub = <<h, view[Own(q)]>>
      BY <2>1, <2>3 DEF KeyOf
    <3>2. PICK r \in Requests : /\ r.kind = "dkg" /\ r.hash = h
                                /\ db[n][h].pub = <<h, view[Own(r)]>>
      BY <2>1, <2>3 DEF KeyOf
    <3>3. q = r
      BY <3>1, <3>2, RequestFacts
    <3> QED
      BY <3>1, <3>2, <3>3
  <2> QED
    BY <2>2, <2>3
<1> QED
  BY <1>1, Invariance, PTL

(***************************************************************************)
(* No step of any session, caller or crash replaces or drops a key that is *)
(* in a store (SaveDKGResultData, UpdateDKGResultData and                  *)
(* SaveSignerResultData all write through FSM.Set, which overwrites).      *)
(***************************************************************************)
THEOREM KeysStay == Spec => KeyNeverReplaced
<1> DEFINE Keeps == \A n \in Nodes, h \in Hashes :
                      HasKey(n, h) => HasKey(n, h)' /\ db'[n][h].pub = db[n][h].pub
<1>1. IInv /\ [Next]_vars => [Keeps]_vars
  <2> SUFFICES ASSUME IInv, Next PROVE Keeps
    OBVIOUS
  <2>1. ASSUME NEW i \in Inst, Save(i) PROVE Keeps
    BY <2>1, SaveKeepsKeys
  <2>2. CASE db' = db
    BY <2>2 DEF HasKey
  <2>3. db' = db \/ \E i \in Inst : Save(i)
    <3>1. ASSUME NEW r \in Requests,
                 Request(r) \/ Caller(r) \/ CallFault(r) \/ ClientTimeout(r)
          PROVE  db' = db
      BY <3>1 DEF Request, RegisterDKG, SignMessage, Reshare, Accept, Refuse, Caller,
         CallFault, ClientTimeout, CallPeer, CallPeerNoReply, CallPeerFails,
         AllCalled, Return
    <3>2. ASSUME NEW i \in Inst, Process(i) \/ Sending(i) \/ Receive(i) \/ Library(i)
          PROVE  db' = db
      BY <3>2 DEF Process, Sending, Send, SendFails, Receive, Handle, Library,
         HandleMessage, NextRound, Done, Failed
    <3>3. ASSUME NEW i \in Inst, RemoveStreamHandler(i) PROVE db' = db
      BY <3>3 DEF RemoveStreamHandler
    <3>4. ASSUME NEW n \in Nodes, Crash(n) PROVE db' = db
      BY <3>4 DEF Crash
    <3> QED
      BY <3>1, <3>2, <3>3, <3>4 DEF Next, Finish
  <2> QED
    BY <2>1, <2>2, <2>3
<1> QED
  BY <1>1, Invariance, PTL DEF Spec, KeyNeverReplaced

(* Every stored share decrypts to what was stored, with the key of its      *)
(* record.                                                                  *)
THEOREM SharesCanBeRead == Spec => []SharesReadable
<1>1. IInv => SharesReadable
  BY DEF IInv, ServiceInv, SaltInv, SharesReadable, HasKey, GenOf, GetSignerConfig,
     GetDKGResultData, Decrypt
<1> QED
  BY <1>1, Invariance, PTL

(***************************************************************************)
(* A client of RegisterDKG or SignMessage gets a result only from a        *)
(* session that every peer ran to its last round on the same shares.       *)
(***************************************************************************)
THEOREM AnswersAreJoint == Spec => []AnswerIsJoint
<1>1. IInv => AnswerIsJoint
  <2> SUFFICES ASSUME IInv, NEW r \in Requests, client[r] = "ok", r.kind # "reshare"
               PROVE  /\ outcome[Own(r)] = "done"
                      /\ \A m \in Peers(r.node) : Confirmed(Own(r), view[Own(r)][m])
    BY DEF AnswerIsJoint, Confirmed
  <2>1. Own(r) \in Inst /\ NodeOf(Own(r)) = r.node
    BY InstFacts
  <2>2. outcome[Own(r)] = "done"
    BY DEF IInv, AnswerInv
  <2> QED
    BY <2>1, <2>2 DEF IInv, ServiceInv, DoneInv, ConfirmInv
<1> QED
  BY <1>1, Invariance, PTL

=============================================================================

------------------------ MODULE TssRefinementProofs ------------------------
(***************************************************************************)
(* Proof that TssSession implements KeyLifecycle, for every set of nodes,  *)
(* hashes and requests, every number of rounds and every combination of    *)
(* the modelled faults.  It rests on the inductive invariant IInv of       *)
(* TssSessionProofs and on RInv, what the refinement needs beyond it.      *)
(***************************************************************************)
EXTENDS TssRefinement, TssSessionProofs

-----------------------------------------------------------------------------
(* What the refinement needs.                                               *)

(* A service sends to other nodes, so that it hears from other nodes.       *)
OutInv == \A i \in Inst : out[i] \subseteq Peers(NodeOf(i))

AwayInv ==
  /\ \A s \in streams : NodeOf(s.from) # NodeOf(s.to)
  /\ \A i \in Inst : \A m \in inbox[i] : NodeOf(m.from) # NodeOf(i)

(* A service takes part in its own session.                                 *)
ViewInv == \A i \in Inst : view[i][NodeOf(i)] = i

(* A stored key was stored by a DKG service of this node, which has ended.  *)
StoredBy(j, n, h) ==
  /\ NodeOf(j) = n /\ ReqOf(j).kind = "dkg" /\ ReqOf(j).hash = h
  /\ outcome[j] = "done"
  /\ pc[j] \in {"ended", "crashed"}

StoredInv ==
  \A n \in Nodes, h \in Hashes :
    HasKey(n, h) /\ h \notin InitKeys => \E j \in Inst : StoredBy(j, n, h)

(* The key that a signer has read is still the one of its node.             *)
BaseKeyInv ==
  \A i \in Inst : pc[i] # "none" /\ ReqOf(i).kind = "sign" =>
    /\ HasKey(NodeOf(i), ReqOf(i).key)
    /\ base[i].pub = db[NodeOf(i)][ReqOf(i).key].pub

(* A signature is stored under the hash of a message.                       *)
SignedInv ==
  \A n \in Nodes, h \in Hashes : db[n][h].type = "sig" =>
    \E r \in Requests : r.kind = "sign" /\ r.hash = h

MessageInv == OutInv /\ AwayInv /\ ViewInv

RecordInv == StoredInv /\ BaseKeyInv /\ SignedInv

RInv == MessageInv /\ RecordInv

-----------------------------------------------------------------------------
(* RInv holds initially.                                                    *)
LEMMA InitRInv == Init => RInv
<1> SUFFICES ASSUME Init PROVE RInv
  OBVIOUS
<1>1. OutInv /\ AwayInv
  BY DEF Init, OutInv, AwayInv
<1>2. ViewInv
  BY InstFacts DEF Init, ViewInv, NoView
<1>3. StoredInv /\ BaseKeyInv
  BY DEF Init, StoredInv, BaseKeyInv, HasKey, NoRecord
<1>4. SignedInv
  BY DEF Init, SignedInv, InitRecord, NoRecord
<1> QED
  BY <1>1, <1>2, <1>3, <1>4 DEF RInv, MessageInv, RecordInv

-----------------------------------------------------------------------------
(* Steps that write no store.                                               *)

(* No message is sent or handled.                                           *)
LEMMA MessageFrame ==
  ASSUME MessageInv, UNCHANGED <<out, streams, inbox, view>>
  PROVE  MessageInv'
BY DEF MessageInv, OutInv, AwayInv, ViewInv

(* No service that has ended changes, and no signer reads its key.          *)
LEMMA RecordFrame ==
  ASSUME RecordInv, UNCHANGED db,
         \A j \in Inst : outcome[j] = "done" /\ pc[j] \in {"ended", "crashed"} =>
           outcome'[j] = "done" /\ pc'[j] \in {"ended", "crashed"},
         \A j \in Inst : pc'[j] # "none" => pc[j] # "none" /\ base'[j] = base[j]
  PROVE  RecordInv'
<1>1. StoredInv'
  <2> SUFFICES ASSUME NEW n \in Nodes, NEW h \in Hashes, HasKey(n, h)',
                      h \notin InitKeys
               PROVE  \E j \in Inst : StoredBy(j, n, h)'
    BY DEF StoredInv
  <2>1. PICK j \in Inst : StoredBy(j, n, h)
    BY DEF RecordInv, StoredInv, HasKey
  <2> QED
    BY <2>1 DEF StoredBy
<1>2. BaseKeyInv'
  BY DEF RecordInv, BaseKeyInv, HasKey
<1>3. SignedInv'
  BY DEF RecordInv, SignedInv
<1> QED
  BY <1>1, <1>2, <1>3 DEF RecordInv

(* A service is created.                                                    *)
LEMMA NewServiceRecord ==
  ASSUME IInv, RecordInv, NEW i \in Inst, NEW pub, NewService(i, pub), UNCHANGED db
  PROVE  RecordInv'
<1> DEFINE nd == NodeOf(i)
           rq == ReqOf(i)
<1>1. nd \in Nodes /\ rq \in Requests /\ rq.key \in Hashes
  BY InstFacts, RequestFields
<1>2. pc[i] = "none" /\ pc' = [pc EXCEPT ![i] = "created"] /\ outcome' = outcome
  BY DEF NewService, NewDkgService, NewSignerService, NewReshareService,
         SetStreamHandler
<1>3. \A j \in Inst : j # i => pc'[j] = pc[j] /\ base'[j] = base[j]
  BY DEF NewService, NewDkgService, NewSignerService, NewReshareService,
         SetStreamHandler, IInv, TypeOK
<1>4. rq.kind = "sign" => HasKey(nd, rq.key) /\ base'[i].pub = db[nd][rq.key].pub
  <2> SUFFICES ASSUME rq.kind = "sign"
               PROVE  HasKey(nd, rq.key) /\ base'[i].pub = db[nd][rq.key].pub
    OBVIOUS
  <2>1. /\ HasSignerConfig(db[nd], rq.key, pub)
        /\ base' = [base EXCEPT ![i] = GetSignerConfig(db[nd], rq.key, pub)]
    BY DEF NewService, NewDkgService, NewSignerService, NewReshareService,
           SetStreamHandler
  <2>2. HasKey(nd, rq.key)
    BY <1>1, <2>1, ReadConfig DEF IInv, ServiceInv
  <2>3. base'[i].pub = pub
    BY <2>1 DEF GetSignerConfig, IInv, TypeOK
  <2> QED
    BY <2>1, <2>2, <2>3 DEF HasSignerConfig, GetDKGResultData, HasKey
<1>5. StoredInv'
  <2> SUFFICES ASSUME NEW n \in Nodes, NEW h \in Hashes, HasKey(n, h)',
                      h \notin InitKeys
               PROVE  \E j \in Inst : StoredBy(j, n, h)'
    BY DEF StoredInv
  <2>1. PICK j \in Inst : StoredBy(j, n, h)
    BY DEF RecordInv, StoredInv, HasKey
  <2>2. j # i
    BY <1>2, <2>1 DEF StoredBy
  <2> QED
    BY <1>2, <1>3, <2>1, <2>2 DEF StoredBy
<1>6. BaseKeyInv'
  BY <1>2, <1>3, <1>4 DEF RecordInv, BaseKeyInv, HasKey
<1>7. SignedInv'
  BY DEF RecordInv, SignedInv
<1> QED
  BY <1>5, <1>6, <1>7 DEF RecordInv

(* Steps of the callers.                                                    *)
LEMMA CallerRInv ==
  ASSUME IInv, RInv, NEW r \in Requests,
         Request(r) \/ Caller(r) \/ CallFault(r) \/ ClientTimeout(r)
  PROVE  RInv' /\ db' = db
<1>1. CASE \/ \E pub : Accept(r, pub)
           \/ \E p \in Nodes : CallPeer(r, p) \/ CallPeerNoReply(r, p)
  <2>1. UNCHANGED <<libVars, streams, db>>
    BY <1>1 DEF Accept, CallPeer, CallPeerNoReply
  <2>2. \E i \in Inst : \E pub : NewService(i, pub)
    BY <1>1, InstFacts DEF Accept, CallPeer, CallPeerNoReply, Serve
  <2> QED
    BY <2>1, <2>2, NewServiceRecord, MessageFrame DEF RInv, libVars
<1>2. CASE \/ \E pub : Refuse(r, pub)
           \/ \E p \in Nodes : CallPeerFails(r, p)
           \/ AllCalled(r) \/ Return(r) \/ ClientTimeout(r)
  <2>1. UNCHANGED <<libVars, svcVars, streams, db>>
    BY <1>2 DEF Refuse, CallPeerFails, AllCalled, Return, ClientTimeout
  <2> QED
    BY <2>1, RecordFrame, MessageFrame DEF RInv, libVars, svcVars
<1> QED
  BY <1>1, <1>2 DEF Request, RegisterDKG, SignMessage, Reshare, Caller, CallFault

(* A broadcast begins: Process and NextRound.                               *)
LEMMA BroadcastRInv ==
  ASSUME IInv, RInv, NEW i \in Inst, Process(i) \/ NextRound(i)
  PROVE  RInv' /\ db' = db
<1>1. /\ UNCHANGED <<streams, inbox, view, outcome, base, db>>
      /\ out' = [out EXCEPT ![i] = Peers(NodeOf(i))]
      /\ \/ pc' = pc
         \/ pc[i] = "created" /\ pc' = [pc EXCEPT ![i] = "running"]
  BY DEF Process, NextRound, svcVars
<1>2. MessageInv'
  BY <1>1 DEF RInv, MessageInv, OutInv, AwayInv, ViewInv, IInv, TypeOK
<1>3. RecordInv'
  BY <1>1, RecordFrame DEF RInv, IInv, TypeOK
<1> QED
  BY <1>1, <1>2, <1>3 DEF RInv

(* A message is sent, to the service that is registered at another node.    *)
LEMMA SendRInv ==
  ASSUME IInv, RInv, NEW i \in Inst, NEW m \in Nodes, Send(i, m) \/ SendFails(i, m)
  PROVE  RInv' /\ db' = db
<1> DEFINE h == handler[m][ReqOf(i).hash]
<1>1. /\ UNCHANGED <<inbox, view, svcVars, db>>
      /\ m \in out[i]
      /\ out' = [out EXCEPT ![i] = @ \ {m}]
      /\ \/ streams' = streams
         \/ /\ h # None
            /\ streams' = streams \cup {[to |-> h, from |-> i, round |-> round[i]]}
  BY DEF Send, SendFails
<1>2. m # NodeOf(i) /\ ReqOf(i).hash \in Hashes
  BY <1>1, InstFacts, RequestFields DEF RInv, MessageInv, OutInv, Peers
<1>3. h # None => NodeOf(h) = m
  BY <1>2 DEF IInv, ServiceInv, HandlerInv
<1>4. OutInv' /\ ViewInv'
  BY <1>1 DEF RInv, MessageInv, OutInv, ViewInv, IInv, TypeOK
<1>5. AwayInv'
  BY <1>1, <1>2, <1>3 DEF RInv, MessageInv, AwayInv
<1>6. RecordInv'
  BY <1>1, RecordFrame DEF RInv, svcVars
<1> QED
  BY <1>1, <1>4, <1>5, <1>6 DEF RInv, MessageInv

(* A stream is read.                                                        *)
LEMMA HandleRInv ==
  ASSUME IInv, RInv, NEW s \in streams, Handle(s)
  PROVE  RInv' /\ db' = db
<1>1. /\ UNCHANGED <<out, view, svcVars, db>>
      /\ streams' \subseteq streams
      /\ \/ inbox' = inbox
         \/ inbox' = [inbox EXCEPT ![s.to] =
                       @ \cup {[from |-> s.from, round |-> s.round]}]
  BY DEF Handle
<1>2. NodeOf(s.from) # NodeOf(s.to)
  BY DEF RInv, MessageInv, AwayInv
<1>3. AwayInv'
  <2>1. s.to \in Inst /\ inbox \in [Inst -> SUBSET Messages]
    BY DEF IInv, TypeOK, Streams
  <2>2. \A j \in Inst : \A m \in inbox'[j] : NodeOf(m.from) # NodeOf(j)
    BY <1>1, <1>2, <2>1 DEF RInv, MessageInv, AwayInv
  <2>3. \A t \in streams' : NodeOf(t.from) # NodeOf(t.to)
    BY <1>1 DEF RInv, MessageInv, AwayInv
  <2> QED
    BY <2>2, <2>3 DEF AwayInv
<1>4. OutInv' /\ ViewInv'
  BY <1>1 DEF RInv, MessageInv, OutInv, ViewInv
<1>5. RecordInv'
  BY <1>1, RecordFrame DEF RInv, svcVars
<1> QED
  BY <1>1, <1>3, <1>4, <1>5 DEF RInv, MessageInv

(* The library handles a message of another node.                           *)
LEMMA HandleMessageRInv ==
  ASSUME IInv, RInv, NEW i \in Inst, NEW m \in inbox[i], HandleMessage(i, m)
  PROVE  RInv' /\ db' = db
<1>1. /\ UNCHANGED <<out, streams, svcVars, db>>
      /\ inbox' = [inbox EXCEPT ![i] = @ \ {m}]
      /\ \/ view' = [view EXCEPT ![i] = [@ EXCEPT ![NodeOf(m.from)] = m.from]]
         \/ view' = [view EXCEPT ![i] = @]
  BY DEF HandleMessage
<1>2. NodeOf(m.from) # NodeOf(i) /\ NodeOf(i) \in Nodes
  BY InstFacts DEF RInv, MessageInv, AwayInv
<1>3. ViewInv'
  <2>1. view \in [Inst -> [Nodes -> Inst \cup {None}]]
    BY DEF IInv, TypeOK, Views
  <2> QED
    BY <1>1, <1>2, <2>1 DEF RInv, MessageInv, ViewInv
<1>4. OutInv' /\ AwayInv'
  BY <1>1 DEF RInv, MessageInv, OutInv, AwayInv, IInv, TypeOK
<1>5. RecordInv'
  BY <1>1, RecordFrame DEF RInv, svcVars
<1> QED
  BY <1>1, <1>3, <1>4, <1>5 DEF RInv, MessageInv

(* A session ends, its handler is removed, or its node stops.               *)
LEMMA EndRInv ==
  ASSUME IInv, RInv,
         \/ \E i \in Inst : Done(i) \/ Failed(i) \/ RemoveStreamHandler(i)
         \/ \E n \in Nodes : Crash(n)
  PROVE  RInv' /\ db' = db
<1>1. CASE \E n \in Nodes : Crash(n)
  <2>1. PICK n \in Nodes : Crash(n)
    BY <1>1
  <2>2. /\ UNCHANGED <<out, inbox, view, outcome, base, db>>
        /\ streams' \subseteq streams
        /\ \A j \in Inst : pc'[j] = pc[j] \/ (pc'[j] = "crashed" /\ pc[j] # "none")
    BY <2>1 DEF Crash, libVars
  <2>3. MessageInv'
    BY <2>2 DEF RInv, MessageInv, OutInv, AwayInv, ViewInv
  <2> QED
    BY <2>2, <2>3, RecordFrame DEF RInv
<1>2. CASE \E i \in Inst : Done(i) \/ Failed(i) \/ RemoveStreamHandler(i)
  <2>1. PICK i \in Inst : Done(i) \/ Failed(i) \/ RemoveStreamHandler(i)
    BY <1>2
  <2>2. /\ UNCHANGED <<libVars, base, streams, db>>
        /\ pc[i] \in {"running", "closed"}
        /\ \E p \in {"closed", "removed"} : pc' = [pc EXCEPT ![i] = p]
        /\ outcome' = outcome \/ \E c : outcome' = [outcome EXCEPT ![i] = c]
    BY <2>1 DEF Done, Failed, Waiting, RemoveStreamHandler
  <2>3. \A j \in Inst : j # i => pc'[j] = pc[j] /\ outcome'[j] = outcome[j]
    BY <2>2 DEF IInv, TypeOK
  <2>4. RecordInv'
    BY <2>2, <2>3, RecordFrame DEF RInv, IInv, TypeOK
  <2> QED
    BY <2>2, <2>4, MessageFrame DEF RInv, libVars
<1> QED
  BY <1>1, <1>2

-----------------------------------------------------------------------------
(* Saving a result.                                                         *)

(* One node stores the result of one DKG once: a second service with a      *)
(* result would have the same view, in which its node takes part as itself. *)
LEMMA SavedOnce ==
  ASSUME IInv, RInv, NEW i \in Inst, Save(i),
         outcome[i] = "done", ReqOf(i).kind = "dkg"
  PROVE  ~HasKey(NodeOf(i), ReqOf(i).hash)
<1> DEFINE n == NodeOf(i)
           h == ReqOf(i).hash
<1> SUFFICES ASSUME HasKey(n, h) PROVE FALSE
  OBVIOUS
<1>1. n \in Nodes /\ ReqOf(i) \in Requests /\ h \in Hashes
  BY InstFacts, RequestFields
<1>2. h \notin InitKeys
  BY <1>1, RequestFacts
<1>3. PICK j \in Inst : StoredBy(j, n, h)
  BY <1>1, <1>2 DEF RInv, RecordInv, StoredInv
<1>4. ReqOf(j) = ReqOf(i)
  BY <1>1, <1>3, InstFacts, RequestFacts DEF StoredBy
<1>5. view[i] = view[j]
  BY <1>3, <1>4, DoneView DEF StoredBy
<1>6. i = j
  BY <1>3, <1>5 DEF StoredBy, RInv, MessageInv, ViewInv
<1> QED
  BY <1>3, <1>6 DEF StoredBy, Save

(* The result of a session is stored.                                       *)
LEMMA SaveRInv ==
  ASSUME IInv, RInv, NEW i \in Inst, Save(i)
  PROVE  RInv'
<1> DEFINE rq == ReqOf(i)
<1>1. /\ UNCHANGED <<libVars, outcome, base, streams>>
      /\ pc[i] \in {"closed", "removed"}
      /\ pc' = [pc EXCEPT ![i] = "ended"]
  BY DEF Save
<1>2. /\ \A j \in Inst : j # i => pc'[j] = pc[j]
      /\ pc'[i] = "ended"
  BY <1>1 DEF IInv, TypeOK
<1>3. rq \in Requests /\ rq.hash \in Hashes /\ rq.kind \in Kinds /\ NodeOf(i) \in Nodes
  BY InstFacts, RequestFields
<1>4. MessageInv'
  BY <1>1, MessageFrame DEF RInv, libVars
<1>5. StoredInv'
  <2> SUFFICES ASSUME NEW n \in Nodes, NEW h \in Hashes, HasKey(n, h)',
                      h \notin InitKeys
               PROVE  \E j \in Inst : StoredBy(j, n, h)'
    BY DEF StoredInv
  <2>1. CASE HasKey(n, h)
    <3>1. PICK j \in Inst : StoredBy(j, n, h)
      BY <2>1 DEF RInv, RecordInv, StoredInv
    <3> QED
      BY <1>1, <1>2, <3>1 DEF StoredBy
  <2>2. CASE ~HasKey(n, h)
    <3>1. outcome[i] = "done" /\ db' # db
      BY <2>2, SaveRecord DEF HasKey
    <3>2. PICK rec \in Records :
            /\ \A m \in Nodes, g \in Hashes :
                 db'[m][g] = IF m = NodeOf(i) /\ g = rq.hash THEN rec ELSE db[m][g]
            /\ rq.kind = "sign" => rec.type = "sig"
            /\ rq.kind = "reshare" => HasKey(NodeOf(i), rq.hash)
      BY <3>1, SaveRecord
    <3>3. n = NodeOf(i) /\ h = rq.hash
      BY <2>2, <3>2 DEF HasKey
    <3>4. rq.kind = "dkg"
      BY <1>3, <2>2, <3>2, <3>3 DEF HasKey, Kinds
    <3> QED
      BY <1>1, <1>2, <3>1, <3>3, <3>4 DEF StoredBy
  <2> QED
    BY <2>1, <2>2
<1>6. BaseKeyInv'
  <2> SUFFICES ASSUME NEW j \in Inst, pc'[j] # "none", ReqOf(j).kind = "sign"
               PROVE  /\ HasKey(NodeOf(j), ReqOf(j).key)'
                      /\ base'[j].pub = db'[NodeOf(j)][ReqOf(j).key].pub
    BY DEF BaseKeyInv
  <2>1. NodeOf(j) \in Nodes /\ ReqOf(j).key \in Hashes
    BY InstFacts, RequestFields
  <2>2. /\ HasKey(NodeOf(j), ReqOf(j).key)
        /\ base[j].pub = db[NodeOf(j)][ReqOf(j).key].pub
    BY <1>1, <1>2 DEF RInv, RecordInv, BaseKeyInv
  <2> QED
    BY <1>1, <2>1, <2>2, SaveKeepsKeys
<1>7. SignedInv'
  <2> SUFFICES ASSUME NEW n \in Nodes, NEW h \in Hashes, db'[n][h].type = "sig"
               PROVE  \E r \in Requests : r.kind = "sign" /\ r.hash = h
    BY DEF SignedInv
  <2>1. CASE db[n][h].type = "sig"
    BY <2>1 DEF RInv, RecordInv, SignedInv
  <2>2. CASE db[n][h].type # "sig"
    <3>1. db' # db
      BY <2>2
    <3>2. PICK rec \in Records :
            /\ \A m \in Nodes, g \in Hashes :
                 db'[m][g] = IF m = NodeOf(i) /\ g = rq.hash THEN rec ELSE db[m][g]
            /\ rq.kind = "dkg" => rec.type = "dkg"
            /\ rq.kind = "reshare" => rec.type = "dkg"
      BY <3>1, SaveRecord
    <3>3. h = rq.hash /\ rec.type = "sig"
      BY <2>2, <3>2
    <3> QED
      BY <1>3, <3>2, <3>3 DEF Kinds
  <2> QED
    BY <2>1, <2>2
<1> QED
  BY <1>4, <1>5, <1>6, <1>7 DEF RInv, RecordInv

(* Every step keeps RInv, and only Save writes a store.                     *)
LEMMA NextRInv ==
  ASSUME IInv, RInv, [Next]_vars
  PROVE  RInv' /\ (db' = db \/ \E i \in Inst : Save(i))
<1>1. CASE UNCHANGED vars
  <2>1. UNCHANGED <<out, streams, inbox, view, pc, outcome, base, db>>
    BY <1>1 DEF vars, libVars, svcVars
  <2> QED
    BY <2>1, MessageFrame, RecordFrame DEF RInv
<1>2. ASSUME NEW r \in Requests,
             Request(r) \/ Caller(r) \/ CallFault(r) \/ ClientTimeout(r)
      PROVE  RInv' /\ db' = db
  BY <1>2, CallerRInv
<1>3. ASSUME NEW i \in Inst, Process(i) \/ Sending(i) \/ Receive(i) \/ Library(i)
      PROVE  RInv' /\ db' = db
  BY <1>3, BroadcastRInv, SendRInv, HandleRInv, HandleMessageRInv, EndRInv
  DEF Sending, Receive, Library
<1>4. ASSUME NEW i \in Inst, Finish(i)
      PROVE  RInv' /\ (db' = db \/ Save(i))
  BY <1>4, EndRInv, SaveRInv DEF Finish
<1>5. ASSUME NEW n \in Nodes, Crash(n)
      PROVE  RInv' /\ db' = db
  BY <1>5, EndRInv
<1> QED
  BY <1>1, <1>2, <1>3, <1>4, <1>5 DEF Next

-----------------------------------------------------------------------------
(* The mapping, as a function of the stores.                                *)

(* Any holder of a key has it, when the holders agree.                      *)
LEMMA KeyInHolder ==
  ASSUME NEW d, NEW h, NEW n \in Nodes, d[n][h].type = "dkg",
         \A m \in Nodes : d[m][h].type = "dkg" => d[m][h].pub = d[n][h].pub
  PROVE  KeyIn(d, h) = d[n][h].pub
<1>1. n \in Holders(d, h)
  BY DEF Holders
<1>2. (CHOOSE m \in Holders(d, h) : TRUE) \in Holders(d, h)
  BY <1>1
<1> QED
  BY <1>1, <1>2 DEF KeyIn, Holders

(* The key of a hash depends on the DKG records of that hash only.          *)
LEMMA KeyInSame ==
  ASSUME NEW d, NEW e, NEW h,
         \A n \in Nodes : d[n][h].type = "dkg" <=> e[n][h].type = "dkg",
         \A n \in Nodes : d[n][h].type = "dkg" => e[n][h].pub = d[n][h].pub
  PROVE  Holders(e, h) = Holders(d, h) /\ KeyIn(e, h) = KeyIn(d, h)
<1>1. Holders(e, h) = Holders(d, h)
  BY DEF Holders
<1>2. CASE Holders(d, h) = {}
  BY <1>1, <1>2 DEF KeyIn
<1>3. CASE Holders(d, h) # {}
  <2> DEFINE c == CHOOSE n \in Holders(d, h) : TRUE
  <2>1. c \in Holders(d, h)
    BY <1>3
  <2>2. c \in Nodes /\ d[c][h].type = "dkg"
    BY <2>1 DEF Holders
  <2>3. KeyIn(d, h) = d[c][h].pub /\ KeyIn(e, h) = e[c][h].pub
    BY <1>1, <1>3 DEF KeyIn
  <2> QED
    BY <1>1, <2>2, <2>3
<1> QED
  BY <1>2, <1>3

(* A share that can be read is the stored one.                              *)
LEMMA ShareInPlain ==
  ASSUME NEW d, NEW n \in Nodes, NEW h, d[n][h].type = "dkg",
         d[n][h].share.salt = d[n][h].pub
  PROVE  ShareIn(d, n, h) = d[n][h].share.plain
BY DEF ShareIn, Holders, GetSignerConfig, GetDKGResultData, Decrypt

(* A node without the key has no share of it.                               *)
LEMMA NoShareIn ==
  ASSUME NEW d, NEW n \in Nodes, NEW h, d[n][h].type # "dkg"
  PROVE  ShareIn(d, n, h) = {}
BY DEF ShareIn, Holders

(* The initial states are initial states of KeyLifecycle.                   *)
LEMMA InitLifecycle == Init => KL!Init
<1> SUFFICES ASSUME Init PROVE KL!Init
  OBVIOUS
<1>1. \A n \in Nodes, h \in Hashes :
        /\ h \in InitKeys => db[n][h] = InitRecord(h)
        /\ h \notin InitKeys => db[n][h] = NoRecord
  BY DEF Init
<1>2. \A n \in Nodes, h \in Hashes :
        /\ h \in InitKeys =>
             /\ db[n][h].type = "dkg" /\ db[n][h].pub = <<h, NoView>>
             /\ db[n][h].share.salt = <<h, NoView>> /\ db[n][h].share.plain = {}
        /\ h \notin InitKeys => db[n][h].type = "none"
  <2>1. \A h : /\ InitRecord(h).type = "dkg" /\ InitRecord(h).pub = <<h, NoView>>
               /\ InitRecord(h).share.salt = <<h, NoView>>
               /\ InitRecord(h).share.plain = {}
    BY DEF InitRecord, Encrypt
  <2> QED
    BY <1>1, <2>1 DEF NoRecord
<1>3. \A h \in Hashes : Holders(db, h) = IF h \in InitKeys THEN Nodes ELSE {}
  BY <1>2 DEF Holders
<1>4. \A h \in Hashes : KeyIn(db, h) \in PubKeys \cup {None}
  <2> SUFFICES ASSUME NEW h \in Hashes PROVE KeyIn(db, h) \in PubKeys \cup {None}
    OBVIOUS
  <2>1. CASE Holders(db, h) = {}
    BY <2>1 DEF KeyIn
  <2>2. CASE Holders(db, h) # {}
    <3>1. h \in InitKeys /\ Nodes # {}
      BY <1>3, <2>2
    <3>2. PICK n \in Nodes : TRUE
      BY <3>1
    <3>3. /\ db[n][h].type = "dkg" /\ db[n][h].pub = <<h, NoView>>
          /\ \A m \in Nodes : db[m][h].type = "dkg" => db[m][h].pub = db[n][h].pub
      BY <1>2, <3>1, <3>2
    <3>4. KeyIn(db, h) = db[n][h].pub
      BY <3>3, KeyInHolder
    <3> QED
      BY <3>3, <3>4, ViewFacts DEF PubKeys
  <2> QED
    BY <2>1, <2>2
<1>5. \A n \in Nodes, h \in Hashes : ShareIn(db, n, h) = {}
  <2> SUFFICES ASSUME NEW n \in Nodes, NEW h \in Hashes PROVE ShareIn(db, n, h) = {}
    OBVIOUS
  <2>1. CASE h \in InitKeys
    <3>1. /\ db[n][h].type = "dkg"
          /\ db[n][h].share.salt = db[n][h].pub
          /\ db[n][h].share.plain = {}
      BY <1>2, <2>1
    <3>2. ShareIn(db, n, h) = db[n][h].share.plain
      BY <3>1, ShareInPlain
    <3> QED
      BY <3>1, <3>2
  <2>2. CASE h \notin InitKeys
    <3>1. db[n][h].type # "dkg"
      BY <1>2, <2>2
    <3> QED
      BY <3>1, NoShareIn
  <2> QED
    BY <2>1, <2>2
<1>6. \A n \in Nodes, h \in Hashes : SigIn(db, n, h) = None
  BY <1>2 DEF SigIn
<1> QED
  BY <1>3, <1>4, <1>5, <1>6 DEF KL!Init, KeyBar, HoldersBar, ShareBar, SigBar

(* A step that writes no store changes nothing in KeyLifecycle.             *)
LEMMA SameStores ==
  ASSUME db' = db
  PROVE  UNCHANGED KL!vars
BY DEF KL!vars, KeyBar, HoldersBar, ShareBar, SigBar, Holders, KeyIn, ShareIn, SigIn

-----------------------------------------------------------------------------
(* What a save of a key or a share leaves alone.                            *)
LEMMA OtherRecords ==
  ASSUME NEW n \in Nodes, NEW h \in Hashes, NEW rec,
         \A m \in Nodes, g \in Hashes :
           db'[m][g] = IF m = n /\ g = h THEN rec ELSE db[m][g]
  PROVE  /\ \A g \in Hashes : g # h => /\ Holders(db', g) = Holders(db, g)
                                       /\ KeyIn(db', g) = KeyIn(db, g)
         /\ \A m \in Nodes, g \in Hashes : ~(m = n /\ g = h) =>
              /\ ShareIn(db', m, g) = ShareIn(db, m, g)
              /\ SigIn(db', m, g) = SigIn(db, m, g)
<1>1. ASSUME NEW g \in Hashes, g # h
      PROVE  Holders(db', g) = Holders(db, g) /\ KeyIn(db', g) = KeyIn(db, g)
  <2>1. /\ \A m \in Nodes : db[m][g].type = "dkg" <=> db'[m][g].type = "dkg"
        /\ \A m \in Nodes : db[m][g].type = "dkg" => db'[m][g].pub = db[m][g].pub
    BY <1>1
  <2> QED
    BY <2>1, KeyInSame
<1>2. ASSUME NEW m \in Nodes, NEW g \in Hashes, ~(m = n /\ g = h)
      PROVE  /\ ShareIn(db', m, g) = ShareIn(db, m, g)
             /\ SigIn(db', m, g) = SigIn(db, m, g)
  <2>1. db'[m][g] = db[m][g]
    BY <1>2
  <2> QED
    BY <2>1 DEF ShareIn, SigIn, Holders, GetSignerConfig, GetDKGResultData
<1> QED
  BY <1>1, <1>2

(* Saving the result of a DKG is Generate.                                  *)
LEMMA SaveGenerates ==
  ASSUME IInv, KeyAgreement', RInv, NEW i \in Inst, Save(i), db' # db,
         ReqOf(i).kind = "dkg"
  PROVE  KL!Generate(NodeOf(i), ReqOf(i).hash)
<1> DEFINE n == NodeOf(i)
           h == ReqOf(i).hash
<1>1. n \in Nodes /\ h \in Hashes
  BY InstFacts, RequestFields
<1>2. outcome[i] = "done" /\ db' = [db EXCEPT ![n] = Saved(i)]
  BY SaveRecord DEF Save
<1>3. ~HasKey(n, h)
  BY <1>2, SavedOnce
<1> DEFINE rec == [type |-> "dkg", pub |-> <<h, view[i]>>,
                   share |-> [salt |-> <<h, view[i]>>, plain |-> {}], sig |-> None]
<1>4. \A m \in Nodes, g \in Hashes :
        db'[m][g] = IF m = n /\ g = h THEN rec ELSE db[m][g]
  <2>1. Saved(i) = [db[n] EXCEPT ![h] = rec]
    BY <1>2 DEF Saved, SaveDKGResultData, Set, Encrypt
  <2> QED
    BY <1>1, <1>2, <2>1 DEF IInv, TypeOK
<1> HIDE DEF rec
<1>5. rec.type = "dkg" /\ rec.pub = <<h, view[i]>> /\ rec.share.salt = rec.pub
      /\ rec.share.plain = {} /\ rec.pub \in PubKeys
  BY <1>1 DEF rec, PubKeys, IInv, TypeOK
<1>6. /\ \A g \in Hashes : g # h => /\ Holders(db', g) = Holders(db, g)
                                    /\ KeyIn(db', g) = KeyIn(db, g)
      /\ \A m \in Nodes, g \in Hashes : ~(m = n /\ g = h) =>
           /\ ShareIn(db', m, g) = ShareIn(db, m, g)
           /\ SigIn(db', m, g) = SigIn(db, m, g)
  BY <1>1, <1>4, OtherRecords
<1>7. db'[n][h] = rec
  BY <1>1, <1>4
<1>8. n \notin Holders(db, h) /\ Holders(db', h) = Holders(db, h) \cup {n}
  BY <1>1, <1>3, <1>4, <1>5 DEF Holders, HasKey
<1>9. KeyIn(db', h) = rec.pub
  <2>1. /\ db'[n][h].type = "dkg"
        /\ \A m \in Nodes : db'[m][h].type = "dkg" => db'[m][h].pub = db'[n][h].pub
    BY <1>1, <1>5, <1>7 DEF KeyAgreement, HasKey
  <2> QED
    BY <1>1, <1>7, <2>1, KeyInHolder
<1>10. Holders(db, h) # {} => KeyIn(db, h) = rec.pub
  <2> SUFFICES ASSUME NEW m \in Holders(db, h) PROVE KeyIn(db, h) = rec.pub
    OBVIOUS
  <2>1. m \in Nodes /\ db[m][h].type = "dkg" /\ m # n
    BY <1>8 DEF Holders
  <2>2. \A o \in Nodes : db[o][h].type = "dkg" => db[o][h].pub = rec.pub
    <3> SUFFICES ASSUME NEW o \in Nodes, db[o][h].type = "dkg"
                 PROVE  db[o][h].pub = rec.pub
      OBVIOUS
    <3>1. o # n
      BY <1>3 DEF HasKey
    <3>2. db'[o][h] = db[o][h]
      BY <1>1, <1>4, <3>1
    <3> QED
      BY <1>1, <1>5, <1>7, <3>2 DEF KeyAgreement, HasKey
  <2>3. \A o \in Nodes : db[o][h].type = "dkg" => db[o][h].pub = db[m][h].pub
    BY <2>1, <2>2
  <2>4. KeyIn(db, h) = db[m][h].pub
    BY <2>1, <2>3, KeyInHolder
  <2> QED
    BY <2>1, <2>2, <2>4
<1>11. ShareIn(db, n, h) = {} /\ ShareIn(db', n, h) = {}
  <2>1. ShareIn(db, n, h) = {}
    BY <1>1, <1>3, NoShareIn DEF HasKey
  <2>2. /\ db'[n][h].type = "dkg"
        /\ db'[n][h].share.salt = db'[n][h].pub
        /\ db'[n][h].share.plain = {}
    BY <1>5, <1>7
  <2>3. ShareIn(db', n, h) = db'[n][h].share.plain
    BY <1>1, <2>2, ShareInPlain
  <2> QED
    BY <2>1, <2>2, <2>3
<1>12. SigIn(db, n, h) = None /\ SigIn(db', n, h) = None
  <2>1. db[n][h].type # "sig"
    <3> SUFFICES ASSUME db[n][h].type = "sig" PROVE FALSE
      OBVIOUS
    <3>1. PICK r \in Requests : r.kind = "sign" /\ r.hash = h
      BY <1>1 DEF RInv, RecordInv, SignedInv
    <3>2. ReqOf(i) \in Requests /\ ReqOf(i).key = h
      BY InstFacts, RequestFacts
    <3> QED
      BY <3>1, <3>2, RequestFacts
  <2>2. db'[n][h].type # "sig"
    BY <1>5, <1>7
  <2> QED
    BY <2>1, <2>2 DEF SigIn
<1>13. n \notin HoldersBar[h] /\ HoldersBar' = [HoldersBar EXCEPT ![h] = @ \cup {n}]
  BY <1>1, <1>6, <1>8 DEF HoldersBar
<1>14. /\ KeyBar' = [KeyBar EXCEPT ![h] = KeyBar'[h]]
       /\ KeyBar'[h] \in PubKeys
       /\ HoldersBar[h] # {} => KeyBar'[h] = KeyBar[h]
  BY <1>1, <1>5, <1>6, <1>9, <1>10 DEF KeyBar, HoldersBar
<1>15. ShareBar' = ShareBar
  <2>1. \A m \in Nodes, g \in Hashes : ShareIn(db', m, g) = ShareIn(db, m, g)
    BY <1>6, <1>11
  <2> QED
    BY <2>1 DEF ShareBar
<1>16. SigBar' = SigBar
  <2>1. \A m \in Nodes, g \in Hashes : SigIn(db', m, g) = SigIn(db, m, g)
    BY <1>6, <1>12
  <2> QED
    BY <2>1 DEF SigBar
<1> QED
  BY <1>13, <1>14, <1>15, <1>16 DEF KL!Generate

(* Saving a signature is Sign.                                              *)
LEMMA SaveSigns ==
  ASSUME IInv, KeyAgreement, RInv, NEW i \in Inst, Save(i), db' # db,
         ReqOf(i).kind = "sign"
  PROVE  KL!Sign(NodeOf(i), ReqOf(i).hash)
<1> DEFINE n == NodeOf(i)
           h == ReqOf(i).hash
           k == ReqOf(i).key
<1>1. n \in Nodes /\ h \in Hashes /\ k \in Hashes
  BY InstFacts, RequestFields
<1>2. outcome[i] = "done" /\ db' = [db EXCEPT ![n] = Saved(i)]
  BY SaveRecord DEF Save
<1> DEFINE rec == [type |-> "sig", pub |-> None, share |-> None,
                   sig |-> [key |-> base[i].pub, over |-> Hex2Bytes(h)]]
<1>3. \A m \in Nodes, g \in Hashes :
        db'[m][g] = IF m = n /\ g = h THEN rec ELSE db[m][g]
  <2>1. Saved(i) = [db[n] EXCEPT ![h] = rec]
    BY <1>2 DEF Saved, SaveSignerResultData, Set, NewSignature
  <2> QED
    BY <1>1, <1>2, <2>1 DEF IInv, TypeOK
<1> HIDE DEF rec
<1>4. rec.type = "sig" /\ rec.sig.key = base[i].pub /\ rec.sig.over = Hex2Bytes(h)
  BY DEF rec
<1>5. db'[n][h] = rec
  BY <1>1, <1>3
<1>6. ~HasKey(n, h)
  <2> SUFFICES ASSUME HasKey(n, h) PROVE FALSE
    OBVIOUS
  <2>1. db'[n][h].type = "dkg"
    BY <1>1, SaveKeepsKeys DEF HasKey
  <2> QED
    BY <1>4, <1>5, <2>1
<1>7. /\ \A g \in Hashes : g # h => /\ Holders(db', g) = Holders(db, g)
                                    /\ KeyIn(db', g) = KeyIn(db, g)
      /\ \A m \in Nodes, g \in Hashes : ~(m = n /\ g = h) =>
           /\ ShareIn(db', m, g) = ShareIn(db, m, g)
           /\ SigIn(db', m, g) = SigIn(db, m, g)
  BY <1>1, <1>3, OtherRecords
<1>8. Holders(db', h) = Holders(db, h) /\ KeyIn(db', h) = KeyIn(db, h)
  <2>1. /\ \A m \in Nodes : db[m][h].type = "dkg" <=> db'[m][h].type = "dkg"
        /\ \A m \in Nodes : db[m][h].type = "dkg" => db'[m][h].pub = db[m][h].pub
    BY <1>1, <1>3, <1>4, <1>6 DEF HasKey
  <2> QED
    BY <2>1, KeyInSame
<1>9. ShareIn(db', n, h) = {} /\ ShareIn(db, n, h) = {}
  <2>1. ShareIn(db, n, h) = {}
    BY <1>1, <1>6, NoShareIn DEF HasKey
  <2>2. db'[n][h].type # "dkg"
    BY <1>4, <1>5
  <2> QED
    BY <1>1, <2>1, <2>2, NoShareIn
<1>10. SigIn(db', n, h) = base[i].pub
  BY <1>4, <1>5 DEF SigIn
<1>11. n \in Holders(db, k) /\ KeyIn(db, k) = base[i].pub
  <2>1. pc[i] # "none"
    BY DEF Save
  <2>2. HasKey(n, k) /\ base[i].pub = db[n][k].pub
    BY <2>1 DEF RInv, RecordInv, BaseKeyInv
  <2>3. /\ db[n][k].type = "dkg"
        /\ \A m \in Nodes : db[m][k].type = "dkg" => db[m][k].pub = db[n][k].pub
    BY <1>1, <2>2 DEF KeyAgreement, HasKey
  <2>4. KeyIn(db, k) = db[n][k].pub
    BY <1>1, <2>3, KeyInHolder
  <2> QED
    BY <1>1, <2>2, <2>3, <2>4 DEF Holders
<1>12. KeyBar' = KeyBar /\ HoldersBar' = HoldersBar
  BY <1>7, <1>8 DEF KeyBar, HoldersBar
<1>13. ShareBar' = ShareBar
  <2>1. \A m \in Nodes, g \in Hashes : ShareIn(db', m, g) = ShareIn(db, m, g)
    BY <1>7, <1>9
  <2> QED
    BY <2>1 DEF ShareBar
<1>14. SigBar' = [SigBar EXCEPT ![n][h] = KeyBar[k]]
  BY <1>1, <1>7, <1>10, <1>11 DEF SigBar, KeyBar
<1>15. n \in HoldersBar[k]
  BY <1>1, <1>11 DEF HoldersBar
<1> QED
  BY <1>1, <1>12, <1>13, <1>14, <1>15 DEF KL!Sign

(* Saving the result of a reshare is Refresh, or nothing when the same      *)
(* share is there already.                                                  *)
LEMMA SaveRefreshes ==
  ASSUME IInv, RInv, NEW i \in Inst, Save(i), db' # db, ReqOf(i).kind = "reshare"
  PROVE  KL!Refresh(NodeOf(i), ReqOf(i).hash) \/ UNCHANGED KL!vars
<1> DEFINE n == NodeOf(i)
           h == ReqOf(i).hash
           gen == base[i].gen \cup {view[i]}
<1>1. n \in Nodes /\ h \in Hashes
  BY InstFacts, RequestFields
<1>2. outcome[i] = "done" /\ db' = [db EXCEPT ![n] = Saved(i)]
  BY SaveRecord DEF Save
<1>3. HasKey(n, h)
  BY DEF Save, IInv, ServiceInv, ReshareInv
<1> DEFINE rec == [type |-> "dkg", pub |-> db[n][h].pub,
                   share |-> [salt |-> db[n][h].pub, plain |-> gen], sig |-> None]
<1>4. \A m \in Nodes, g \in Hashes :
        db'[m][g] = IF m = n /\ g = h THEN rec ELSE db[m][g]
  <2>1. Saved(i) = UpdateDKGResultData(db[n], h, gen)
    BY <1>2 DEF Saved
  <2>2. Saved(i) = [db[n] EXCEPT ![h] = rec]
    BY <1>3, <2>1 DEF HasKey, UpdateDKGResultData, Found, GetDKGResultData, Set, Encrypt
  <2> QED
    BY <1>1, <1>2, <2>2 DEF IInv, TypeOK
<1> HIDE DEF rec
<1>5. rec.type = "dkg" /\ rec.pub = db[n][h].pub /\ rec.share.salt = rec.pub
      /\ rec.share.plain = gen
  BY DEF rec
<1>6. db'[n][h] = rec
  BY <1>1, <1>4
<1>7. /\ \A g \in Hashes : g # h => /\ Holders(db', g) = Holders(db, g)
                                    /\ KeyIn(db', g) = KeyIn(db, g)
      /\ \A m \in Nodes, g \in Hashes : ~(m = n /\ g = h) =>
           /\ ShareIn(db', m, g) = ShareIn(db, m, g)
           /\ SigIn(db', m, g) = SigIn(db, m, g)
  BY <1>1, <1>4, OtherRecords
<1>8. Holders(db', h) = Holders(db, h) /\ KeyIn(db', h) = KeyIn(db, h)
  <2>1. /\ \A m \in Nodes : db[m][h].type = "dkg" <=> db'[m][h].type = "dkg"
        /\ \A m \in Nodes : db[m][h].type = "dkg" => db'[m][h].pub = db[m][h].pub
    BY <1>1, <1>3, <1>4, <1>5 DEF HasKey
  <2> QED
    BY <2>1, KeyInSame
<1>9. ShareIn(db', n, h) = gen
  <2>1. /\ db'[n][h].type = "dkg"
        /\ db'[n][h].share.salt = db'[n][h].pub
        /\ db'[n][h].share.plain = gen
    BY <1>5, <1>6
  <2>2. ShareIn(db', n, h) = db'[n][h].share.plain
    BY <1>1, <2>1, ShareInPlain
  <2> QED
    BY <2>1, <2>2
<1>10. SigIn(db', n, h) = SigIn(db, n, h)
  BY <1>3, <1>5, <1>6 DEF SigIn, HasKey
<1>11. KeyBar' = KeyBar /\ HoldersBar' = HoldersBar
  BY <1>7, <1>8 DEF KeyBar, HoldersBar
<1>12. SigBar' = SigBar
  <2>1. \A m \in Nodes, g \in Hashes : SigIn(db', m, g) = SigIn(db, m, g)
    BY <1>7, <1>10
  <2> QED
    BY <2>1 DEF SigBar
<1>13. ShareBar' = [ShareBar EXCEPT ![n][h] = gen] /\ ShareBar'[n][h] = gen
  BY <1>1, <1>7, <1>9 DEF ShareBar
<1>14. CASE ShareBar[n][h] = gen
  <2>1. \A m \in Nodes, g \in Hashes : ShareIn(db', m, g) = ShareIn(db, m, g)
    BY <1>1, <1>7, <1>9, <1>14 DEF ShareBar
  <2>2. ShareBar' = ShareBar
    BY <2>1 DEF ShareBar
  <2> QED
    BY <1>11, <1>12, <2>2 DEF KL!vars
<1>15. CASE ShareBar[n][h] # gen
  <2>1. n \in HoldersBar[h]
    BY <1>1, <1>3 DEF HoldersBar, Holders, HasKey
  <2>2. gen # {}
    OBVIOUS
  <2> HIDE DEF gen
  <2>3. ShareBar' = [ShareBar EXCEPT ![n][h] = ShareBar'[n][h]]
    BY <1>13
  <2> QED
    BY <1>11, <1>12, <1>13, <1>15, <2>1, <2>2, <2>3 DEF KL!Refresh
<1> QED
  BY <1>14, <1>15

-----------------------------------------------------------------------------
(* Every step of TssSession is a step of KeyLifecycle or changes nothing    *)
(* there.                                                                   *)
LEMMA StepLifecycle ==
  ASSUME IInv, RInv, KeyAgreement, KeyAgreement', [Next]_vars
  PROVE  [KL!Next]_(KL!vars)
<1>1. CASE db' = db
  BY <1>1, SameStores
<1>2. CASE db' # db
  <2>1. PICK i \in Inst : Save(i)
    BY <1>2, NextRInv
  <2>2. NodeOf(i) \in Nodes /\ ReqOf(i).hash \in Hashes /\ ReqOf(i).kind \in Kinds
    BY InstFacts, RequestFields
  <2>3. CASE ReqOf(i).kind = "dkg"
    BY <1>2, <2>1, <2>2, <2>3, SaveGenerates DEF KL!Next
  <2>4. CASE ReqOf(i).kind = "sign"
    BY <1>2, <2>1, <2>2, <2>4, SaveSigns DEF KL!Next
  <2>5. CASE ReqOf(i).kind = "reshare"
    BY <1>2, <2>1, <2>2, <2>5, SaveRefreshes DEF KL!Next
  <2> QED
    BY <2>2, <2>3, <2>4, <2>5 DEF Kinds
<1> QED
  BY <1>1, <1>2

(***************************************************************************)
(* The cluster implements KeyLifecycle: for any nodes, requests and faults *)
(* a node stores the result of a DKG once and under one key, whatever      *)
(* SendToPeer repeats; UpdateDKGResultData only refreshes shares that are  *)
(* there, and a signature is made with a key that its node has.            *)
(***************************************************************************)
THEOREM Refinement == Spec => ImplementsLifecycle
<1>1. Init => RInv /\ KL!Init
  BY InitRInv, InitLifecycle
<1>2. IInv /\ RInv /\ [Next]_vars => RInv'
  BY NextRInv
<1>3. IInv /\ RInv /\ KeyAgreement /\ KeyAgreement' /\ [Next]_vars => [KL!Next]_(KL!vars)
  BY StepLifecycle
<1> QED
  BY <1>1, <1>2, <1>3, Invariance, KeysAgree, PTL DEF Spec, ImplementsLifecycle, KL!Spec
=============================================================================

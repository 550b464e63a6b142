----------------------------- MODULE TssSession -----------------------------
(***************************************************************************)
(* DKG, signing and resharing sessions of a cluster of alice-tss nodes:    *)
(* the client's request at one node (server/rpc_server.go,                 *)
(* server/grpc_server.go, server/tss.go), the calls of that node to its    *)
(* peers (server/utils.go, server/rpc_peer.go), the service object that    *)
(* every node creates for the request (service/*.go), the streams between  *)
(* the services (peer/node.go, peer/pm.go) and the store of every node     *)
(* (module TssStore).                                                      *)
(*                                                                         *)
(* The protocol library (github.com/getamis/alice) is external.  It is     *)
(* modelled as the code uses it: Rounds rounds, in each of which a service *)
(* broadcasts one message and needs one from every peer; a second message  *)
(* of one peer in one round is an error; what does not fit together is     *)
(* found out in the last round at the latest.                              *)
(*                                                                         *)
(* Every node knows every other node (discovery has completed).            *)
(***************************************************************************)
EXTENDS Naturals, FiniteSets, TssStore

CONSTANTS
  Nodes,          \* the nodes of the cluster
  Hashes,         \* hashes that name DKGs and messages
  InitKeys,       \* DKGs that every node has a stored result of initially
  Requests,       \* client requests: [kind, node, hash, key, id]
  Rounds,         \* rounds of the protocol
  MaxCalls,       \* bound: how often one peer may execute one request
  MaxFaults,      \* bound: how many crashes and lost replies there may be
  Faults          \* which faults may happen, a subset of FaultKinds

Kinds == {"dkg", "sign", "reshare"}

(***************************************************************************)
(* loss    a stream breaks and its message is gone                         *)
(* late    a call or the start of a session takes so long by itself that   *)
(*         send gives up before the peer's session exists                  *)
(* reply   a call is executed by the peer but its reply does not arrive    *)
(* conn    a call fails, at once, before the peer executes it              *)
(* refuse  the library refuses to create a session                         *)
(* library the library fails in a round                                    *)
(* timeout http.TimeoutHandler answers the client after 5 seconds          *)
(* store   a result cannot be written to the store                         *)
(* crash   a node stops and restarts with its store                        *)
(***************************************************************************)
FaultKinds ==
  {"loss", "late", "reply", "conn", "refuse", "library", "timeout", "store",
   "crash"}

(***************************************************************************)
(* A request has the hash that names its stream protocol and the hash of   *)
(* the DKG record it is about.  RandomHash never repeats, and the hash of  *)
(* a message is never the hash of a DKG.                                   *)
(***************************************************************************)
ASSUME ConstantsAssumption ==
  /\ IsFiniteSet(Nodes)
  /\ Rounds \in Nat /\ Rounds >= 2
  /\ MaxCalls \in Nat /\ MaxCalls >= 1
  /\ MaxFaults \in Nat
  /\ Faults \subseteq FaultKinds
  /\ InitKeys \subseteq Hashes

ASSUME RequestsAssumption ==
  /\ Requests \subseteq
       [kind : Kinds, node : Nodes, hash : Hashes, key : Hashes, id : Nat]
  /\ \A r \in Requests : r.kind # "sign" => r.key = r.hash
  /\ \A r \in Requests : r.kind = "dkg" =>
       /\ r.hash \notin InitKeys
       /\ \A q \in Requests : q.kind = "dkg" /\ q.hash = r.hash => q = r
  /\ \A r \in Requests : r.kind = "sign" =>
       /\ r.hash \notin InitKeys
       /\ \A q \in Requests : r.hash # q.key

-----------------------------------------------------------------------------
(***************************************************************************)
(* A service object is named by its node, its request, and which execution *)
(* of the request at that node created it.  The node that got the request  *)
(* from the client creates one; a peer creates one for every call that it  *)
(* executes.                                                               *)
(***************************************************************************)
Inst == Nodes \X Requests \X (1 .. MaxCalls)

NodeOf(i) == i[1]
ReqOf(i)  == i[2]
Own(r)    == <<r.node, r, 1>>
Peers(n)  == Nodes \ {n}

(* Which service of each node a service heard in the first round.          *)
Views == [Nodes -> Inst \cup {None}]

ASSUME NoneAssumption == None \notin Inst

Messages == [from : Inst, round : 1 .. Rounds]
Streams  == [to : Inst, from : Inst, round : 1 .. Rounds]

VARIABLES
  client,    \* client[r]: what the client of r has seen so far
  caller,    \* caller[r]: where the goroutine that serves the client is
  todo,      \* todo[r]: peers that have not confirmed the call yet
  target,    \* target[r]: the peer that SendToPeer keeps calling, or None
  failed,    \* failed[r]: calls of r that have failed while peers wait
  pc,        \* pc[i]: life cycle of the service object
  outcome,   \* outcome[i]: final state of the library, StateDone or StateFailed
  base,      \* base[i]: key and share read from the store at creation
  round,     \* round[i]: current round, 0 before Start
  seen,      \* seen[i]: peers whose message of this round was handled
  view,      \* view[i]: the services it runs the protocol with
  inbox,     \* inbox[i]: messages queued in the library
  out,       \* out[i]: peers that the current broadcast has still to reach
  handler,   \* handler[n][h]: service registered for the protocol of h at n
  streams,   \* written streams that the receiver has not read yet
  db,        \* db[n]: the store of node n
  faults     \* number of crashes and lost replies so far

callVars == <<client, caller, todo, target, failed>>
libVars  == <<round, seen, view, inbox, out>>
svcVars  == <<pc, outcome, base>>
vars     == <<callVars, libVars, svcVars, handler, streams, db, faults>>

PC == {"none",      \* not created
       "created",   \* NewXService returned
       "running",   \* Process: started, waits on <-p.done
       "closed",    \* the library is final and close(p.done) was executed
       "removed",   \* RemoveStreamHandler was executed
       "ended",     \* OnStateChanged returned
       "crashed"}

NoView == [n \in Nodes |-> None]

InitRecord(h) ==
  [type |-> "dkg", pub |-> <<h, NoView>>, share |-> Encrypt({}, <<h, NoView>>),
   sig  |-> None]

Init ==
  /\ client  = [r \in Requests |-> "idle"]
  /\ caller  = [r \in Requests |-> "idle"]
  /\ todo    = [r \in Requests |-> {}]
  /\ target  = [r \in Requests |-> None]
  /\ failed  = [r \in Requests |-> 0]
  /\ pc      = [i \in Inst |-> "none"]
  /\ outcome = [i \in Inst |-> "none"]
  /\ base    = [i \in Inst |-> None]
  /\ round   = [i \in Inst |-> 0]
  /\ seen    = [i \in Inst |-> {}]
  /\ view    = [i \in Inst |-> [NoView EXCEPT ![NodeOf(i)] = i]]
  /\ inbox   = [i \in Inst |-> {}]
  /\ out     = [i \in Inst |-> {}]
  /\ handler = [n \in Nodes |-> [h \in Hashes |-> None]]
  /\ streams = {}
  /\ db      = [n \in Nodes |->
                 [h \in Hashes |-> IF h \in InitKeys THEN InitRecord(h)
                                                     ELSE NoRecord]]
  /\ faults  = 0

-----------------------------------------------------------------------------
(* Creating a service: NewDkgService, NewSignerService, NewReshareService.  *)

(* The public keys a client may know: those of stored records, or a wrong one. *)
KnownPubs == {db[n][h].pub : n \in Nodes, h \in Hashes} \cup {None}

(***************************************************************************)
(* A created service is registered as the stream handler of its protocol,  *)
(* in place of any other service; conf is what it was created with.        *)
(***************************************************************************)
SetStreamHandler(i, conf) ==
  /\ pc[i] = "none"
  /\ pc'      = [pc EXCEPT ![i] = "created"]
  /\ base'    = [base EXCEPT ![i] = conf]
  /\ handler' = [handler EXCEPT ![NodeOf(i)][ReqOf(i).hash] = i]
  /\ UNCHANGED outcome

(* A DKG needs nothing from the store, the others need key and share.       *)
CanCreate(n, r, pub) ==
  r.kind = "dkg" \/ HasSignerConfig(db[n], r.key, pub)

NewDkgService(i) == ReqOf(i).kind = "dkg" /\ SetStreamHandler(i, None)

NewSignerService(i, pub) ==
  LET d == db[NodeOf(i)]
      k == ReqOf(i).key
  IN  /\ ReqOf(i).kind = "sign"
      /\ HasSignerConfig(d, k, pub)
      /\ SetStreamHandler(i, GetSignerConfig(d, k, pub))

NewReshareService(i, pub) ==
  LET d == db[NodeOf(i)]
      h == ReqOf(i).hash
  IN  /\ ReqOf(i).kind = "reshare"
      /\ HasSignerConfig(d, h, pub)
      /\ SetStreamHandler(i, GetSignerConfig(d, h, pub))

NewService(i, pub) ==
  NewDkgService(i) \/ NewSignerService(i, pub) \/ NewReshareService(i, pub)

(***************************************************************************)
(* The handler of the client's request creates the service of this node    *)
(* and prepares the calls to the peers, or returns the error.              *)
(***************************************************************************)
Accept(r, pub) ==
  /\ client[r] = "idle"
  /\ client' = [client EXCEPT ![r] = "waiting"]
  /\ caller' = [caller EXCEPT ![r] = "calling"]
  /\ todo'   = [todo EXCEPT ![r] = Peers(r.node)]
  /\ NewService(Own(r), pub)
  /\ UNCHANGED <<target, failed, libVars, streams, db, faults>>

Refuse(r, pub) ==
  /\ client[r] = "idle"
  /\ ~CanCreate(r.node, r, pub) \/ "refuse" \in Faults
  /\ client' = [client EXCEPT ![r] = "error"]
  /\ caller' = [caller EXCEPT ![r] = "returned"]
  /\ UNCHANGED <<todo, target, failed, libVars, svcVars, handler, streams, db,
                 faults>>

RegisterDKG(r) ==
  r.kind = "dkg" /\ (Accept(r, None) \/ Refuse(r, None))

SignMessage(r) ==
  r.kind = "sign" /\ \E pub \in KnownPubs : Accept(r, pub) \/ Refuse(r, pub)

Reshare(r) ==
  r.kind = "reshare" /\ \E pub \in KnownPubs : Accept(r, pub) \/ Refuse(r, pub)

-----------------------------------------------------------------------------
(* Calling the peers: RpcToPeer, SendToPeer, MsgToPeer, TssPeerService.     *)

(* The public key in the request that a peer is called with: the one that   *)
(* the first node has compared with its record.                             *)
PubOf(r) == IF r.kind = "dkg" THEN None ELSE base[Own(r)].pub

(* RpcToPeer calls one peer after the other and stays with one until it     *)
(* confirms.                                                                *)
Calling(r, p) ==
  /\ caller[r] = "calling"
  /\ p \in todo[r]
  /\ target[r] \in {None, p}

(* The peer's handler creates a service of its own; it runs by itself.      *)
Serve(r, p) ==
  \E k \in 1 .. MaxCalls :
    /\ \A j \in 1 .. MaxCalls : j < k => pc[<<p, r, j>>] # "none"
    /\ NewService(<<p, r, k>>, PubOf(r))

(***************************************************************************)
(* Time, in milliseconds: how long send goes on with its attempts, and how *)
(* long SendToPeer sleeps after a call that has failed.                    *)
(***************************************************************************)
timeRetryCreateStream  == 10
delayRetryCreateStream == 500
delayCallAgain         == 3000

(* How many failed calls a send that waits for the called peer gets over:   *)
(* it sleeps between its attempts, so that the last one is not made at the  *)
(* end.                                                                     *)
Patience ==
  ((timeRetryCreateStream - 1) * delayRetryCreateStream) \div delayCallAgain

Outlasted(r) == failed[r] > Patience

(* A peer that was called sends already.                                    *)
Underway(r) ==
  \E i \in Inst : ReqOf(i) = r /\ NodeOf(i) # r.node /\ pc[i] # "none"

(* SendToPeer sleeps; what has outlasted a send is counted no further.      *)
SleepAfterError(r) ==
  failed' = [failed EXCEPT ![r] = IF Outlasted(r) THEN @ ELSE @ + 1]

CallPeer(r, p) ==
  /\ Calling(r, p)
  /\ Serve(r, p)
  /\ todo'   = [todo EXCEPT ![r] = @ \ {p}]
  /\ target' = [target EXCEPT ![r] = None]
  /\ UNCHANGED <<client, caller, failed, libVars, streams, db, faults>>

(* SendToPeer retries on every error, also when the peer has executed the   *)
(* call already ...                                                         *)
CallPeerNoReply(r, p) ==
  /\ "reply" \in Faults
  /\ faults < MaxFaults
  /\ faults' = faults + 1
  /\ Calling(r, p)
  /\ Serve(r, p)
  /\ target' = [target EXCEPT ![r] = p]
  /\ SleepAfterError(r)
  /\ UNCHANGED <<client, caller, todo, libVars, streams, db>>

(* ... and when the peer refuses it.                                        *)
CallPeerFails(r, p) ==
  /\ Calling(r, p)
  /\ \/ ~CanCreate(p, r, PubOf(r))
     \/ Faults \cap {"conn", "refuse"} # {}
  /\ target' = [target EXCEPT ![r] = p]
  /\ IF Underway(r) THEN SleepAfterError(r) ELSE UNCHANGED failed
  /\ UNCHANGED <<client, caller, todo, libVars, svcVars, handler, streams, db,
                 faults>>

(* The client hears nothing after the answer of http.TimeoutHandler.        *)
Answer(r, ans) ==
  client' = [client EXCEPT ![r] = IF @ = "waiting" THEN ans ELSE @]

(* Mutant: the client is answered without waiting for the session, as in    *)
(* Reshare.                                                                 *)
AllCalledNoWait(r) ==
  /\ caller[r] = "calling"
  /\ todo[r] = {}
  /\ caller' = [caller EXCEPT ![r] = "returned"]
  /\ Answer(r, "ok")
  /\ UNCHANGED <<todo, target, failed, libVars, svcVars, handler, streams, db,
                 faults>>

(***************************************************************************)
(* All peers have confirmed.  Reshare answers now and lets the session run *)
(* by itself; RegisterDKG and SignMessage wait for it in Process.          *)
(***************************************************************************)
AllCalled(r) ==
  /\ caller[r] = "calling"
  /\ todo[r] = {}
  /\ IF r.kind = "reshare"
     THEN /\ caller' = [caller EXCEPT ![r] = "returned"]
          /\ Answer(r, "ok")
     ELSE /\ caller' = [caller EXCEPT ![r] = "waiting"]
          /\ UNCHANGED client
  /\ UNCHANGED <<todo, target, failed, libVars, svcVars, handler, streams, db,
                 faults>>

(* Mutant: the error of GetResult is ignored.                               *)
ReturnNoError(r) ==
  /\ caller[r] = "waiting"
  /\ pc[Own(r)] \in {"closed", "removed", "ended"}
  /\ caller' = [caller EXCEPT ![r] = "returned"]
  /\ Answer(r, "ok")
  /\ UNCHANGED <<todo, target, failed, libVars, svcVars, handler, streams, db,
                 faults>>

(* Process and GetResult return after close(p.done).                        *)
Return(r) ==
  /\ caller[r] = "waiting"
  /\ pc[Own(r)] \in {"closed", "removed", "ended"}
  /\ caller' = [caller EXCEPT ![r] = "returned"]
  /\ Answer(r, IF outcome[Own(r)] = "done" THEN "ok" ELSE "error")
  /\ UNCHANGED <<todo, target, failed, libVars, svcVars, handler, streams, db,
                 faults>>

ClientTimeout(r) ==
  /\ "timeout" \in Faults
  /\ client[r] = "waiting"
  /\ client' = [client EXCEPT ![r] = "timeout"]
  /\ UNCHANGED <<caller, todo, target, failed, libVars, svcVars, handler, streams,
                 db, faults>>

-----------------------------------------------------------------------------
(* Running a service: Process, MustSend, send, Handle.                      *)

(* Mutant: the service of the first node is started only if it is waited    *)
(* for.                                                                     *)
ProcessIfWaiting(i) ==
  /\ pc[i] = "created"
  /\ i = Own(ReqOf(i)) => caller[ReqOf(i)] = "waiting"
  /\ pc'    = [pc EXCEPT ![i] = "running"]
  /\ round' = [round EXCEPT ![i] = 1]
  /\ out'   = [out EXCEPT ![i] = Peers(NodeOf(i))]
  /\ UNCHANGED <<callVars, outcome, base, seen, view, inbox, handler, streams,
                 db, faults>>

(* The service of the first node is started after the calls, the one of a   *)
(* peer at once.                                                            *)
Process(i) ==
  /\ pc[i] = "created"
  /\ i = Own(ReqOf(i)) => caller[ReqOf(i)] \in {"waiting", "returned"}
  /\ pc'    = [pc EXCEPT ![i] = "running"]
  /\ round' = [round EXCEPT ![i] = 1]
  /\ out'   = [out EXCEPT ![i] = Peers(NodeOf(i))]
  /\ UNCHANGED <<callVars, outcome, base, seen, view, inbox, handler, streams,
                 db, faults>>

(***************************************************************************)
(* send tries to open a stream timeRetryCreateStream times and uses what   *)
(* the last attempt returned: the message goes to the service registered   *)
(* at that moment, whatever the attempts before it found.                  *)
(***************************************************************************)
Send(i, m) ==
  LET h == handler[m][ReqOf(i).hash]
  IN  /\ pc[i] = "running"
      /\ m \in out[i]
      /\ h # None
      /\ streams' = streams \cup {[to |-> h, from |-> i, round |-> round[i]]}
      /\ out' = [out EXCEPT ![i] = @ \ {m}]
      /\ UNCHANGED <<callVars, svcVars, round, seen, view, inbox, handler, db,
                     faults>>

(* A session of this protocol has come to its end at m.                     *)
Gone(m, h) ==
  \E j \in Inst : /\ NodeOf(j) = m
                  /\ ReqOf(j).hash = h
                  /\ pc[j] \in {"removed", "ended", "crashed"}

(* Mutant: send does not try again when the peer is not ready.              *)
SendFailsAtOnce(i, m) ==
  /\ pc[i] = "running"
  /\ m \in out[i]
  /\ handler[m][ReqOf(i).hash] = None
  /\ out' = [out EXCEPT ![i] = @ \ {m}]
  /\ UNCHANGED <<callVars, svcVars, round, seen, view, inbox, handler, streams,
                 db, faults>>

(***************************************************************************)
(* The last attempt finds no session at m: it has ended, nobody calls m    *)
(* any more, or the calls of the request have taken too long.              *)
(***************************************************************************)
GivesUp(i, m) ==
  /\ handler[m][ReqOf(i).hash] = None
  /\ \/ Gone(m, ReqOf(i).hash)
     \/ caller[ReqOf(i)] # "calling"
     \/ Outlasted(ReqOf(i))
     \/ "late" \in Faults

(* MustSend logs the error of send; the message is lost.                    *)
SendFails(i, m) ==
  /\ pc[i] = "running"
  /\ m \in out[i]
  /\ GivesUp(i, m) \/ "loss" \in Faults
  /\ out' = [out EXCEPT ![i] = @ \ {m}]
  /\ UNCHANGED <<callVars, svcVars, round, seen, view, inbox, handler, streams,
                 db, faults>>

(***************************************************************************)
(* Handle reads the stream and adds the message to the library, which      *)
(* refuses messages of past rounds.  A message of another kind of session  *)
(* may also fail to decode.                                                *)
(***************************************************************************)
Handle(s) ==
  LET i == s.to
      m == [from |-> s.from, round |-> s.round]
      foreign == ReqOf(s.from).kind # ReqOf(i).kind
  IN  /\ s \in streams
      /\ streams' = streams \ {s}
      /\ \/ /\ pc[i] \in {"created", "running"}
            /\ s.round >= round[i]
            /\ inbox' = [inbox EXCEPT ![i] = @ \cup {m}]
         \/ /\ \/ pc[i] \notin {"created", "running"}
               \/ s.round < round[i]
               \/ foreign
            /\ UNCHANGED inbox
      /\ UNCHANGED <<callVars, svcVars, round, seen, view, out, handler, db,
                     faults>>

-----------------------------------------------------------------------------
(* The library (external): one loop per service.                            *)

(* The loop waits for a message of the current round.                       *)
Waiting(i) ==
  pc[i] = "running" /\ out[i] = {} /\ seen[i] # Peers(NodeOf(i))

(***************************************************************************)
(* What HandleMessage verifies: a round belongs to the services heard in   *)
(* the first round, and in the last round all of them have heard each      *)
(* other and use the same key and generation of shares.                    *)
(***************************************************************************)
Fits(i, m) ==
  /\ ReqOf(m.from).kind = ReqOf(i).kind
  /\ round[i] > 1 => view[i][NodeOf(m.from)] = m.from
  /\ round[i] = Rounds => /\ view[m.from] = view[i]
                          /\ base[m.from] = base[i]

HandleMessage(i, m) ==
  /\ Waiting(i)
  /\ m \in inbox[i]
  /\ m.round = round[i]
  /\ NodeOf(m.from) \notin seen[i]
  /\ Fits(i, m)
  /\ inbox' = [inbox EXCEPT ![i] = @ \ {m}]
  /\ seen'  = [seen EXCEPT ![i] = @ \cup {NodeOf(m.from)}]
  /\ view'  = [view EXCEPT ![i] =
                IF round[i] = 1 THEN [@ EXCEPT ![NodeOf(m.from)] = m.from]
                                ELSE @]
  /\ UNCHANGED <<callVars, svcVars, round, out, handler, streams, db, faults>>

(* Mutant: the last round is not the last.                                  *)
NextRoundAlways(i) ==
  /\ pc[i] = "running"
  /\ out[i] = {}
  /\ seen[i] = Peers(NodeOf(i))
  /\ round' = [round EXCEPT ![i] = @ + 1]
  /\ seen'  = [seen EXCEPT ![i] = {}]
  /\ out'   = [out EXCEPT ![i] = Peers(NodeOf(i))]
  /\ UNCHANGED <<callVars, svcVars, view, inbox, handler, streams, db, faults>>

(* The messages of all peers are there: broadcast the next one.             *)
NextRound(i) ==
  /\ pc[i] = "running"
  /\ out[i] = {}
  /\ seen[i] = Peers(NodeOf(i))
  /\ round[i] < Rounds
  /\ round' = [round EXCEPT ![i] = @ + 1]
  /\ seen'  = [seen EXCEPT ![i] = {}]
  /\ out'   = [out EXCEPT ![i] = Peers(NodeOf(i))]
  /\ UNCHANGED <<callVars, svcVars, view, inbox, handler, streams, db, faults>>

-----------------------------------------------------------------------------
(* The end of a session: OnStateChanged, closeDone.                         *)

(* StateDone: the result is there and close(p.done) wakes Process.          *)
Done(i) ==
  /\ pc[i] = "running"
  /\ out[i] = {}
  /\ seen[i] = Peers(NodeOf(i))
  /\ round[i] = Rounds
  /\ pc'      = [pc EXCEPT ![i] = "closed"]
  /\ outcome' = [outcome EXCEPT ![i] = "done"]
  /\ UNCHANGED <<callVars, libVars, base, handler, streams, db, faults>>

(* StateFailed: a second message of one peer, a message that does not fit,  *)
(* or another error of the library.  Nobody else is told.                   *)
Failed(i) ==
  /\ Waiting(i)
  /\ \E m \in inbox[i] :
       /\ m.round = round[i]
       /\ NodeOf(m.from) \in seen[i] \/ ~Fits(i, m) \/ "library" \in Faults
  /\ pc'      = [pc EXCEPT ![i] = "closed"]
  /\ outcome' = [outcome EXCEPT ![i] = "failed"]
  /\ UNCHANGED <<callVars, libVars, base, handler, streams, db, faults>>

(* closeDone of signer and reshare removes whatever handler is registered;  *)
(* Dkg.OnStateChanged closes the channel only.                              *)
RemoveStreamHandler(i) ==
  /\ pc[i] = "closed"
  /\ ReqOf(i).kind # "dkg"
  /\ handler' = [handler EXCEPT ![NodeOf(i)][ReqOf(i).hash] = None]
  /\ pc' = [pc EXCEPT ![i] = "removed"]
  /\ UNCHANGED <<callVars, libVars, outcome, base, streams, db, faults>>

(* Mutants of Saved: a failed DKG is stored too; a signature is stored      *)
(* under the hash of its key; a reshare updates only the peers' stores.     *)
SavedIfFailed(i) ==
  SaveDKGResultData(db[NodeOf(i)], ReqOf(i).hash, <<ReqOf(i).hash, view[i]>>, {})

SavedUnderKey(i) ==
  IF ReqOf(i).kind = "sign" /\ outcome[i] = "done"
  THEN SaveSignerResultData(db[NodeOf(i)], ReqOf(i).key,
                            NewSignature(base[i].pub, ReqOf(i).hash))
  ELSE db[NodeOf(i)]

SavedByPeers(i) ==
  IF ReqOf(i).kind = "reshare" /\ i # Own(ReqOf(i))
  THEN UpdateDKGResultData(db[NodeOf(i)], ReqOf(i).hash, base[i].gen \cup {view[i]})
  ELSE db[NodeOf(i)]

(* What a finished service writes to the store of its node.                 *)
Saved(i) ==
  LET d == db[NodeOf(i)]
      r == ReqOf(i)
  IN  CASE outcome[i] # "done" -> d
        [] outcome[i] = "done" /\ r.kind = "dkg" ->
             SaveDKGResultData(d, r.hash, <<r.hash, view[i]>>, {})
        [] outcome[i] = "done" /\ r.kind = "sign" ->
             SaveSignerResultData(d, r.hash, NewSignature(base[i].pub, r.hash))
        [] outcome[i] = "done" /\ r.kind = "reshare" ->
             UpdateDKGResultData(d, r.hash, base[i].gen \cup {view[i]})

(* The rest of OnStateChanged, after the waiting goroutine was woken.  An   *)
(* error of the store is only logged.                                       *)
Save(i) ==
  /\ pc[i] = (IF ReqOf(i).kind = "dkg" THEN "closed" ELSE "removed")
  /\ \/ db' = [db EXCEPT ![NodeOf(i)] = Saved(i)]
     \/ "store" \in Faults /\ db' = db
  /\ pc' = [pc EXCEPT ![i] = "ended"]
  /\ UNCHANGED <<callVars, libVars, outcome, base, handler, streams, faults>>

-----------------------------------------------------------------------------
(* A node stops and restarts: services, handlers and pending streams are    *)
(* gone, its own clients see an error, the store is kept.                   *)
Crash(n) ==
  /\ "crash" \in Faults
  /\ faults < MaxFaults
  /\ faults' = faults + 1
  /\ pc' = [i \in Inst |-> IF NodeOf(i) = n /\ pc[i] # "none"
                           THEN "crashed" ELSE pc[i]]
  /\ handler' = [handler EXCEPT ![n] = [h \in Hashes |-> None]]
  /\ streams' = {s \in streams : NodeOf(s.to) # n}
  /\ client' = [r \in Requests |->
                 IF r.node = n /\ client[r] = "waiting" THEN "error"
                                                        ELSE client[r]]
  /\ caller' = [r \in Requests |->
                 IF r.node = n /\ client[r] # "idle" THEN "returned"
                                                     ELSE caller[r]]
  /\ UNCHANGED <<todo, target, failed, outcome, base, libVars, db>>

-----------------------------------------------------------------------------
Request(r) == RegisterDKG(r) \/ SignMessage(r) \/ Reshare(r)

Caller(r) ==
  \/ \E p \in Nodes : CallPeer(r, p)
  \/ AllCalled(r)
  \/ Return(r)

CallFault(r) ==
  \E p \in Nodes : CallPeerNoReply(r, p) \/ CallPeerFails(r, p)

Sending(i) == \E m \in Nodes : Send(i, m) \/ SendFails(i, m)

Receive(i) == \E s \in streams : s.to = i /\ Handle(s)

Library(i) ==
  \/ \E m \in inbox[i] : HandleMessage(i, m)
  \/ NextRound(i)
  \/ Done(i)
  \/ Failed(i)

Finish(i) == RemoveStreamHandler(i) \/ Save(i)

Next ==
  \/ \E r \in Requests : Request(r) \/ Caller(r) \/ CallFault(r) \/ ClientTimeout(r)
  \/ \E i \in Inst : Process(i) \/ Sending(i) \/ Receive(i) \/ Library(i) \/ Finish(i)
  \/ \E n \in Nodes : Crash(n)

Spec == Init /\ [][Next]_vars

(***************************************************************************)
(* Goroutines are scheduled and calls, sends and streams come to an end;   *)
(* clients need not ask and faults need not happen.                        *)
(***************************************************************************)
Fairness ==
  /\ \A r \in Requests : WF_vars(Caller(r))
  /\ \A i \in Inst : /\ WF_vars(Process(i))
                     /\ WF_vars(Sending(i))
                     /\ WF_vars(Receive(i))
                     /\ WF_vars(Library(i))
                     /\ WF_vars(Finish(i))

FairSpec == Spec /\ Fairness

-----------------------------------------------------------------------------
(* Properties.                                                              *)

PubKeys == Hashes \X Views
Shares  == [pub : PubKeys, gen : SUBSET Views]
Sigs    == [key : PubKeys, over : {Hex2Bytes(h) : h \in Hashes}]

DkgRecords == [type : {"dkg"}, pub : PubKeys,
               share : [salt : PubKeys, plain : SUBSET Views], sig : {None}]
SigRecords == [type : {"sig"}, pub : {None}, share : {None}, sig : Sigs]
Records    == {NoRecord} \cup DkgRecords \cup SigRecords

\* Every variable holds a value of the kind that its declaration says.
TypeOK ==
  /\ client  \in [Requests -> {"idle", "waiting", "ok", "error", "timeout"}]
  /\ caller  \in [Requests -> {"idle", "calling", "waiting", "returned"}]
  /\ todo    \in [Requests -> SUBSET Nodes]
  /\ target  \in [Requests -> Nodes \cup {None}]
  /\ failed  \in [Requests -> Nat]
  /\ pc      \in [Inst -> PC]
  /\ outcome \in [Inst -> {"none", "done", "failed"}]
  /\ base    \in [Inst -> Shares \cup {None}]
  /\ round   \in [Inst -> 0 .. Rounds]
  /\ seen    \in [Inst -> SUBSET Nodes]
  /\ view    \in [Inst -> Views]
  /\ inbox   \in [Inst -> SUBSET Messages]
  /\ out     \in [Inst -> SUBSET Nodes]
  /\ handler \in [Nodes -> [Hashes -> Inst \cup {None}]]
  /\ streams \subseteq Streams
  /\ db      \in [Nodes -> [Hashes -> Records]]
  /\ faults  \in Nat

HasKey(n, h) == db[n][h].type = "dkg"

GenOf(n, h) == GetSignerConfig(db[n], h, db[n][h].pub).gen

(***************************************************************************)
(* KeyAgreement: all nodes that have stored a DKG result under one hash    *)
(* have stored the same public key, also when a peer has executed the call *)
(* of RegisterDKG more than once and its services share the node's traffic.*)
(***************************************************************************)
KeyAgreement ==
  \A m, n \in Nodes, h \in Hashes :
    HasKey(m, h) /\ HasKey(n, h) => db[m][h].pub = db[n][h].pub

(***************************************************************************)
(* KeyNeverReplaced: once a node has stored a key under a hash, no later   *)
(* session of that node (a second execution of the DKG, a signature in the *)
(* same store, a reshare) replaces the key or drops it.                    *)
(***************************************************************************)
KeyNeverReplaced ==
  [][\A n \in Nodes, h \in Hashes :
       HasKey(n, h) => HasKey(n, h)' /\ db'[n][h].pub = db[n][h].pub]_vars

(***************************************************************************)
(* SharesReadable: what GetSignerConfig decrypts, with the public key that *)
(* it has compared, is the share that the session of this node has put     *)
(* there, also after UpdateDKGResultData has encrypted a new one.          *)
(***************************************************************************)
SharesReadable ==
  \A n \in Nodes, h \in Hashes :
    HasKey(n, h) => GenOf(n, h) = db[n][h].share.plain

(***************************************************************************)
(* AnswerIsJoint: when the client of RegisterDKG or SignMessage gets a     *)
(* result, every peer has run one service with the node that answers up to *)
(* the last round, on the same key and the same generation of shares.      *)
(***************************************************************************)
AnswerIsJoint ==
  \A r \in Requests :
    client[r] = "ok" /\ r.kind # "reshare" =>
      /\ outcome[Own(r)] = "done"
      /\ \A m \in Peers(r.node) :
           LET j == view[Own(r)][m]
           IN  /\ j \in Inst
               /\ round[j] = Rounds
               /\ view[j] = view[Own(r)]
               /\ base[j] = base[Own(r)]

(***************************************************************************)
(* KeyBacked: when a node has stored the key of a DKG, every node has a    *)
(* service in the last round of the very session that made this key, and   *)
(* that service does not fail there: it has a result too, or it waits for  *)
(* a message, or its node was stopped.  (OnStateChanged tells nobody that  *)
(* a session has failed.)                                                  *)
(***************************************************************************)
KeyBacked ==
  \A m, n \in Nodes, h \in Hashes \ InitKeys :
    HasKey(m, h) =>
      \E i \in Inst : /\ NodeOf(i) = n
                      /\ db[m][h].pub = <<h, view[i]>>
                      /\ round[i] = Rounds
                      /\ outcome[i] # "failed"

Quiet == \A i \in Inst : pc[i] \in {"none", "ended", "crashed"}

(***************************************************************************)
(* SharesFitKey: when no session is left, the shares of all nodes belong   *)
(* to one generation, so that they still make up the public key            *)
(* (server/tss.go:60, "refresh threshold shares while maintaining the same *)
(* public key").                                                           *)
(***************************************************************************)
SharesFitKey ==
  Quiet => \A m, n \in Nodes, h \in Hashes :
             HasKey(m, h) /\ HasKey(n, h) => GenOf(m, h) = GenOf(n, h)

(* The goroutine of a request has nothing to do: no peer that it is calling *)
(* can serve the call, or its session has not ended.                        *)
CallerRests(r) ==
  /\ caller[r] = "calling" =>
       todo[r] # {} /\ \A p \in Nodes : Calling(r, p) => ~CanCreate(p, r, PubOf(r))
  /\ caller[r] = "waiting" => pc[Own(r)] \notin {"closed", "removed", "ended"}

(* A service has nothing to do: it has not been started, it has ended, or   *)
(* it waits for a peer to register or for a message of its round.           *)
ServiceRests(i) ==
  /\ pc[i] \notin {"closed", "removed"}
  /\ pc[i] = "created" =>
       i = Own(ReqOf(i)) /\ caller[ReqOf(i)] \notin {"waiting", "returned"}
  /\ pc[i] = "running" =>
       /\ \A m \in out[i] : handler[m][ReqOf(i).hash] = None /\ ~GivesUp(i, m)
       /\ out[i] = {} => /\ seen[i] # Peers(NodeOf(i))
                         /\ \A m \in inbox[i] : m.round # round[i]

Rest ==
  /\ streams = {}
  /\ \A r \in Requests : CallerRests(r)
  /\ \A i \in Inst : ServiceRests(i)

(* What the session of r leaves in the store of n.                          *)
Stored(n, r) ==
  CASE r.kind = "dkg"     -> HasKey(n, r.hash)
    [] r.kind = "sign"    -> db[n][r.hash].type = "sig"
    [] r.kind = "reshare" -> /\ HasKey(n, r.key)
                             /\ \E v \in GenOf(n, r.key) : v[r.node] = Own(r)

(* The calls of r, and those of the DKG of its key, were made in time for   *)
(* the peers that were called first: their sends did not have to give up.   *)
InTime(r) ==
  \A q \in Requests :
    q = r \/ (q.kind = "dkg" /\ q.hash = r.key) => ~Outlasted(q)

(***************************************************************************)
(* NobodyStuck: the goroutines of the cluster never wait for each other in *)
(* vain.  When none of them has anything left to do, every request whose   *)
(* service was created and whose calls were made in time has been          *)
(* answered, not with an error, and all nodes have stored its result,      *)
(* although peers are called one after the other, start at once and send   *)
(* for five seconds only to peers that have no service yet.                *)
(***************************************************************************)
NobodyStuck ==
  Rest => \A r \in Requests : pc[Own(r)] # "none" /\ InTime(r) =>
            /\ client[r] \in {"ok", "timeout"}
            /\ \A n \in Nodes : Stored(n, r)

(***************************************************************************)
(* SignatureChecks: a signature that was made for a client and stored is   *)
(* found valid by CheckSignature at the same node, for its message and its *)
(* public key (server/rpc_server.go:217).                                  *)
(***************************************************************************)
SignatureChecks ==
  \A r \in Requests :
    r.kind = "sign" /\ client[r] = "ok" /\ Found(db[r.node], r.hash) =>
      CheckSignature(db[r.node], r.hash, base[Own(r)].pub)

(***************************************************************************)
(* SessionCompletes: a DKG or signing request that was accepted is         *)
(* answered with a result, and every node stores it, if its calls are made *)
(* in time: a call that fails once delays a peer that sends already, but   *)
(* by less than its attempts.                                              *)
(***************************************************************************)
SessionCompletes ==
  \A r \in Requests : r.kind # "reshare" =>
    (client[r] = "waiting") ~>
      (\/ client[r] = "ok" /\ \A n \in Nodes : db[n][r.hash].type # "none"
       \/ ~InTime(r))

(***************************************************************************)
(* ReshareRotates: after Reshare was answered, every node replaces its     *)
(* share by one that was refreshed in the session of that request          *)
(* (README.md:235), if its calls were made in time.                        *)
(***************************************************************************)
ReshareRotates ==
  \A r \in Requests : r.kind = "reshare" =>
    (client[r] = "ok") ~>
      (\/ \A n \in Nodes : /\ HasKey(n, r.key)
                          /\ \E v \in GenOf(n, r.key) : v[r.node] = Own(r)
       \/ ~InTime(r))
=============================================================================

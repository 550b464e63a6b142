----------------------------- MODULE SelfService -----------------------------
(***************************************************************************)
(* server/self_service.go: one process that runs all nodes of a cluster.   *)
(* Calls of RegisterDKG and SignMessage run concurrently, each in the      *)
(* goroutine of its HTTP request: CreatePm makes a peer manager per node   *)
(* and waits for discovery under the read lock, goroutines create the      *)
(* services of the nodes 1, 2, ..., and the call itself creates the one of *)
(* node 0, waits for the goroutines and runs the session.  Close takes the *)
(* write lock and closes the hosts.                                        *)
(*                                                                         *)
(* RegisterDKG and SignMessage have the same control flow and are one      *)
(* operation here.  The calls have different hashes, so that they share    *)
(* nothing but the hosts and the lock; sessions that share a hash are in   *)
(* TssSession.  Of a session only its end is modelled.                     *)
(***************************************************************************)
EXTENDS Naturals, FiniteSets

CONSTANTS
  Calls,        \* calls that clients may make
  NumNodes,     \* numNodes
  Foreign,      \* hosts of other processes that announce the same service tag
  WithClose,    \* whether Close may be called
  Faults        \* subset of {"setup", "create", "library", "late"}

(***************************************************************************)
(* setup    SetupDiscovery returns an error                                *)
(* create   a service cannot be created (no record, wrong public key, ...) *)
(* library  a session fails at a node                                      *)
(* late     the goroutine of a node takes so long to create its service    *)
(*          that the send of a peer gives up                               *)
(***************************************************************************)
ASSUME SelfAssumption ==
  /\ NumNodes \in Nat /\ NumNodes >= 2
  /\ WithClose \in BOOLEAN
  /\ Foreign \cap Nat = {}
  /\ Faults \subseteq {"setup", "create", "library", "late"}

Node  == 0 .. (NumNodes - 1)
Other == 1 .. (NumNodes - 1)
Hosts == Node \cup Foreign

VARIABLES
  at,        \* at[c]: where the goroutine of the call is
  answer,    \* answer[c]: what the call has returned
  peers,     \* peers[c][n]: the hosts that the peer manager of n knows
  worker,    \* worker[c][n]: the goroutine that creates the service of n
  svc,       \* svc[c][n]: the service of node n
  group,     \* group[c][n]: the peers that this service was created with
  errChan,   \* errChan[c]: number of errors in the buffered channel
  done,      \* done[c]: whether the goroutine after wg.Wait has closed done
  closer,    \* the goroutine that executes Close
  hosts      \* whether the hosts are open

vars == <<at, answer, peers, worker, svc, group, errChan, done, closer, hosts>>

Init ==
  /\ at      = [c \in Calls |-> "idle"]
  /\ answer  = [c \in Calls |-> "none"]
  /\ peers   = [c \in Calls |-> [n \in Node |-> {}]]
  /\ worker  = [c \in Calls |-> [n \in Other |-> "none"]]
  /\ svc     = [c \in Calls |-> [n \in Node |-> "none"]]
  /\ group   = [c \in Calls |-> [n \in Node |-> {}]]
  /\ errChan = [c \in Calls |-> 0]
  /\ done    = [c \in Calls |-> FALSE]
  /\ closer  = "idle"
  /\ hosts   = "open"

-----------------------------------------------------------------------------
(* CreatePm and waitForPeers.                                               *)

(* The calls that hold the read lock.                                       *)
Readers == {c \in Calls : at[c] \in {"setup", "wait"}}

Returns(c, ans) ==
  /\ at' = [at EXCEPT ![c] = "returned"]
  /\ answer' = [answer EXCEPT ![c] = ans]

Call(c) ==
  /\ at[c] = "idle"
  /\ at' = [at EXCEPT ![c] = "lock"]
  /\ UNCHANGED <<answer, peers, worker, svc, group, errChan, done, closer, hosts>>

(* A writer that holds the lock or waits for it keeps new readers out.      *)
RLock(c) ==
  /\ at[c] = "lock"
  /\ closer \notin {"waiting", "locked"}
  /\ at' = [at EXCEPT ![c] = "setup"]
  /\ UNCHANGED <<answer, peers, worker, svc, group, errChan, done, closer, hosts>>

(* NewPeerManager and SetupDiscovery for every node.                        *)
SetupDiscovery(c) ==
  /\ at[c] = "setup"
  /\ at' = [at EXCEPT ![c] = "wait"]
  /\ UNCHANGED <<answer, peers, worker, svc, group, errChan, done, closer, hosts>>

SetupFails(c) ==
  /\ at[c] = "setup"
  /\ "setup" \in Faults \/ hosts = "closed"
  /\ Returns(c, "error")
  /\ UNCHANGED <<peers, worker, svc, group, errChan, done, closer, hosts>>

(* discovery.HandlePeerFound adds any host with the service tag that the    *)
(* host could connect to.  The discovery of a call is never stopped.        *)
HandlePeerFound(c, n, m) ==
  /\ at[c] \notin {"idle", "lock", "setup"}
  /\ hosts = "open"
  /\ m \in Hosts \ ({n} \cup peers[c][n])
  /\ peers' = [peers EXCEPT ![c][n] = @ \cup {m}]
  /\ UNCHANGED <<at, answer, worker, svc, group, errChan, done, closer, hosts>>

(* Mutant: the tick looks at the first peer manager only.                   *)
FirstConnected(c) == Cardinality(peers[c][0]) >= NumNodes - 1

AllConnected(c) == \A n \in Node : Cardinality(peers[c][n]) >= NumNodes - 1

(* A tick of waitForPeers finds all peers: CreatePm releases the lock and   *)
(* the goroutines of the other nodes are started.                           *)
PeersReady(c) ==
  /\ at[c] = "wait"
  /\ AllConnected(c)
  /\ at' = [at EXCEPT ![c] = "create"]
  /\ worker' = [worker EXCEPT ![c] = [n \in Other |-> "running"]]
  /\ UNCHANGED <<answer, peers, svc, group, errChan, done, closer, hosts>>

(* Mutant: waitForPeers has no timeout.                                     *)
NoTimeout(c) == FALSE /\ UNCHANGED vars

(* timeoutCtx: 30 seconds are over; the select may prefer it to a tick.     *)
PeersTimeout(c) ==
  /\ at[c] = "wait"
  /\ Returns(c, "error")
  /\ UNCHANGED <<peers, worker, svc, group, errChan, done, closer, hosts>>

-----------------------------------------------------------------------------
(* The goroutines of the other nodes.                                       *)

(* The library takes the peers of the peer manager as they are now.         *)
Created(c, n, state) ==
  /\ svc' = [svc EXCEPT ![c][n] = state]
  /\ group' = [group EXCEPT ![c][n] = peers[c][n]]

(* Mutant: wg.Done is not executed.                                         *)
CreateOtherNoDone(c, n) ==
  /\ worker[c][n] = "running"
  /\ worker' = [worker EXCEPT ![c][n] = "none"]
  /\ Created(c, n, "running")
  /\ UNCHANGED <<at, answer, peers, errChan, done, closer, hosts>>

(* tssCaller.RegisterDKG without a callback: the service is created and     *)
(* runs in a goroutine of its own; wg.Done.                                 *)
CreateOther(c, n) ==
  /\ worker[c][n] = "running"
  /\ worker' = [worker EXCEPT ![c][n] = "done"]
  /\ Created(c, n, "running")
  /\ UNCHANGED <<at, answer, peers, errChan, done, closer, hosts>>

(* Mutant: a goroutine that fails does not reach wg.Done.                   *)
OtherFailsNoDone(c, n) ==
  /\ worker[c][n] = "running"
  /\ "create" \in Faults
  /\ worker' = [worker EXCEPT ![c][n] = "failed"]
  /\ UNCHANGED <<at, answer, peers, svc, group, errChan, done, closer, hosts>>

(* Mutant: the channel has room for one error less.                         *)
OtherFailsNoRoom(c, n) ==
  /\ worker[c][n] = "running"
  /\ "create" \in Faults
  /\ worker' = [worker EXCEPT ![c][n] = "done"]
  /\ errChan' = [errChan EXCEPT ![c] = IF @ < NumNodes - 2 THEN @ + 1 ELSE @]
  /\ UNCHANGED <<at, answer, peers, svc, group, done, closer, hosts>>

(* The error goes to the channel if there is room, and wg.Done.             *)
CreateOtherFails(c, n) ==
  /\ worker[c][n] = "running"
  /\ "create" \in Faults
  /\ worker' = [worker EXCEPT ![c][n] = "done"]
  /\ errChan' = [errChan EXCEPT ![c] = IF @ < NumNodes - 1 THEN @ + 1 ELSE @]
  /\ UNCHANGED <<at, answer, peers, svc, group, done, closer, hosts>>

(* wg.Wait; close(done).                                                    *)
WgWait(c) ==
  /\ at[c] \in {"select", "process", "returned"}
  /\ svc[c][0] # "none"
  /\ ~done[c]
  /\ \A n \in Other : worker[c][n] = "done"
  /\ done' = [done EXCEPT ![c] = TRUE]
  /\ UNCHANGED <<at, answer, peers, worker, svc, group, errChan, closer, hosts>>

-----------------------------------------------------------------------------
(* Node 0: the service is created, then the callback waits.                 *)
CreatePrimary(c) ==
  /\ at[c] = "create"
  /\ at' = [at EXCEPT ![c] = "select"]
  /\ Created(c, 0, "created")
  /\ UNCHANGED <<answer, peers, worker, errChan, done, closer, hosts>>

CreatePrimaryFails(c) ==
  /\ at[c] = "create"
  /\ "create" \in Faults
  /\ Returns(c, "error")
  /\ UNCHANGED <<peers, worker, svc, group, errChan, done, closer, hosts>>

(* The select of the callback.  The context is context.Background(), so     *)
(* that ctx.Done() is never ready.                                          *)
SelectDone(c) ==
  /\ at[c] = "select"
  /\ done[c]
  /\ at' = [at EXCEPT ![c] = "process"]
  /\ svc' = [svc EXCEPT ![c][0] = "running"]
  /\ UNCHANGED <<answer, peers, worker, group, errChan, done, closer, hosts>>

SelectErr(c) ==
  /\ at[c] = "select"
  /\ errChan[c] > 0
  /\ errChan' = [errChan EXCEPT ![c] = @ - 1]
  /\ Returns(c, "error")
  /\ UNCHANGED <<peers, worker, svc, group, done, closer, hosts>>

(* A session comes to its end at a node when all nodes take part, no        *)
(* message was given up and nobody waits for a node that is not there; it   *)
(* can also fail, and the other nodes are not told.                         *)
SessionDone(c, n) ==
  /\ svc[c][n] = "running"
  /\ hosts = "open"
  /\ \A m \in Node : svc[c][m] \in {"running", "done"} /\ group[c][m] = Node \ {m}
  /\ svc' = [svc EXCEPT ![c][n] = "done"]
  /\ UNCHANGED <<at, answer, peers, worker, group, errChan, done, closer, hosts>>

SessionFails(c, n) ==
  /\ svc[c][n] = "running"
  /\ "library" \in Faults
  /\ svc' = [svc EXCEPT ![c][n] = "failed"]
  /\ UNCHANGED <<at, answer, peers, worker, group, errChan, done, closer, hosts>>

(***************************************************************************)
(* send gives up after 10 attempts, 500 ms each, when the service of the   *)
(* receiver has not been created by then: the message is lost and the      *)
(* session waits for it forever.                                           *)
(***************************************************************************)
SendGivesUp(c, n) ==
  /\ svc[c][n] = "running"
  /\ \E m \in Node : svc[c][m] = "none"
  /\ "late" \in Faults
  /\ svc' = [svc EXCEPT ![c][n] = "hung"]
  /\ UNCHANGED <<at, answer, peers, worker, group, errChan, done, closer, hosts>>

(* Process and GetResult of node 0 return.                                  *)
Return(c) ==
  /\ at[c] = "process"
  /\ svc[c][0] \in {"done", "failed"}
  /\ Returns(c, IF svc[c][0] = "done" THEN "ok" ELSE "error")
  /\ UNCHANGED <<peers, worker, svc, group, errChan, done, closer, hosts>>

-----------------------------------------------------------------------------
(* Close.                                                                   *)
Close ==
  /\ WithClose
  /\ closer = "idle"
  /\ closer' = "waiting"
  /\ UNCHANGED <<at, answer, peers, worker, svc, group, errChan, done, hosts>>

(* Mutant: Close takes the read lock.                                       *)
LockShared ==
  /\ closer = "waiting"
  /\ closer' = "locked"
  /\ UNCHANGED <<at, answer, peers, worker, svc, group, errChan, done, hosts>>

Lock ==
  /\ closer = "waiting"
  /\ Readers = {}
  /\ closer' = "locked"
  /\ UNCHANGED <<at, answer, peers, worker, svc, group, errChan, done, hosts>>

(* Every host is closed, an error of one does not keep the others open.     *)
CloseHosts ==
  /\ closer = "locked"
  /\ closer' = "closed"
  /\ hosts' = "closed"
  /\ UNCHANGED <<at, answer, peers, worker, svc, group, errChan, done>>

-----------------------------------------------------------------------------
CreatePm(c) ==
  \/ RLock(c) \/ SetupDiscovery(c) \/ SetupFails(c)
  \/ PeersReady(c) \/ PeersTimeout(c)

Worker(c, n) == CreateOther(c, n) \/ CreateOtherFails(c, n)

Primary(c) == CreatePrimary(c) \/ CreatePrimaryFails(c)

Select(c) == SelectDone(c) \/ SelectErr(c)

Session(c, n) == SessionDone(c, n) \/ SessionFails(c, n) \/ SendGivesUp(c, n)

Next ==
  \/ \E c \in Calls :
       \/ Call(c) \/ CreatePm(c) \/ Primary(c) \/ WgWait(c) \/ Select(c) \/ Return(c)
       \/ \E n \in Node : Session(c, n) \/ \E m \in Hosts : HandlePeerFound(c, n, m)
       \/ \E n \in Other : Worker(c, n)
  \/ Close \/ Lock \/ CloseHosts

Spec == Init /\ [][Next]_vars

(***************************************************************************)
(* Goroutines that can go on do so, a waiting writer gets the lock once    *)
(* the readers have left, the timeout of waitForPeers fires, and a session *)
(* ends once all nodes take part in it, provided that no send has given up *)
(* before: from then on every peer has its handler, so that every attempt  *)
(* of send succeeds.  Discovery need not find anybody, no session need     *)
(* fail and nobody needs to call Close.                                    *)
(***************************************************************************)
Fairness ==
  /\ \A c \in Calls : /\ WF_vars(CreatePm(c))
                      /\ WF_vars(Primary(c))
                      /\ WF_vars(WgWait(c))
                      /\ WF_vars(Select(c))
                      /\ WF_vars(Return(c))
                      /\ \A n \in Node : WF_vars(SessionDone(c, n))
                      /\ \A n \in Other : WF_vars(Worker(c, n))
  /\ WF_vars(Lock)
  /\ WF_vars(CloseHosts)

FairSpec == Spec /\ Fairness

-----------------------------------------------------------------------------
(* Properties.                                                              *)

Life == {"none", "created", "running", "done", "failed", "hung"}

\* Every variable holds a value of the kind that its declaration says.
TypeOK ==
  /\ at \in [Calls -> {"idle", "lock", "setup", "wait", "create", "select",
                       "process", "returned"}]
  /\ answer \in [Calls -> {"none", "ok", "error"}]
  /\ peers \in [Calls -> [Node -> SUBSET Hosts]]
  /\ worker \in [Calls -> [Other -> {"none", "running", "done"}]]
  /\ svc \in [Calls -> [Node -> Life]]
  /\ group \in [Calls -> [Node -> SUBSET Hosts]]
  /\ errChan \in [Calls -> 0 .. (NumNodes - 1)]
  /\ done \in [Calls -> BOOLEAN]
  /\ closer \in {"idle", "waiting", "locked", "closed"}
  /\ hosts \in {"open", "closed"}

(* The goroutines that could not create the service of their node.          *)
Errors(c) == {n \in Other : worker[c][n] = "done" /\ svc[c][n] = "none"}

(***************************************************************************)
(* ErrorsKept: until the call returns, the channel holds the error of      *)
(* every goroutine that has failed, so that the select of the callback     *)
(* finds one whenever there is one: the default of the goroutines' select  *)
(* (server/self_service.go:65-68) never drops an error, because the buffer *)
(* has one place for each of them and nobody else receives.                *)
(***************************************************************************)
ErrorsKept ==
  \A c \in Calls : at[c] # "returned" => errChan[c] = Cardinality(Errors(c))

(***************************************************************************)
(* FullThreshold: waitForPeers has waited until all nodes know each other  *)
(* ("waits for all nodes to discover each other",                          *)
(* server/self_service.go:203), so that the service of every node is       *)
(* created with the other nodes as its peers, and pm.NumPeers(), which     *)
(* RegisterDKG takes as the threshold, is the same at all of them.         *)
(***************************************************************************)
FullThreshold ==
  \A c \in Calls, n \in Node : svc[c][n] # "none" => group[c][n] = Node \ {n}

(***************************************************************************)
(* HostsStayOpen: Close does not close the hosts while CreatePm sets up    *)
(* peer managers on them.                                                  *)
(***************************************************************************)
HostsStayOpen == [][hosts' # hosts => Readers = {}]_vars

(***************************************************************************)
(* CloseEnds: Close gets the write lock and closes the hosts, although     *)
(* calls wait for peers under the read lock and others keep coming.        *)
(***************************************************************************)
CloseEnds == closer = "waiting" ~> closer = "closed"

(***************************************************************************)
(* WaitersEnd: the goroutine that waits for the others comes to its end in *)
(* every call, whether they could create their services or not.            *)
(***************************************************************************)
WaitersEnd == \A c \in Calls : at[c] = "select" ~> done[c]

(* What a session cannot recover from: a node has failed or was never       *)
(* there, a message was given up, or the hosts are closed.                  *)
Broken(c) ==
  \/ hosts = "closed"
  \/ \E n \in Node : svc[c][n] \in {"failed", "hung"} \/ group[c][n] \cap Foreign # {}
  \/ Errors(c) # {}

(***************************************************************************)
(* CallsEnd: a call that never returns is one whose session was broken;    *)
(* waiting for peers, for the goroutines of the other nodes and for the    *)
(* session is otherwise always over some day.                              *)
(***************************************************************************)
CallsEnd == \A c \in Calls : at[c] # "idle" ~> (at[c] = "returned" \/ Broken(c))

(***************************************************************************)
(* CallsReturn: every call comes to its end with a result or an error, for *)
(* it does "Wait for other nodes to complete with timeout"                 *)
(* (server/self_service.go:75).                                            *)
(***************************************************************************)
CallsReturn == \A c \in Calls : at[c] # "idle" ~> at[c] = "returned"
=============================================================================

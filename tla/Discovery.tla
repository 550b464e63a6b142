----------------------------- MODULE Discovery -----------------------------
(***************************************************************************)
(* How the nodes of a cluster get to know each other and how a DKG picks   *)
(* its group: start-up (main.go), the callbacks of mDNS                    *)
(* (peer/discovery.go), the map of peers that all clones of a peer manager *)
(* share without a lock (peer/pm.go), the threshold of RegisterDKG         *)
(* (server/tss.go) and the calls to the peers (server/utils.go,            *)
(* server/rpc_peer.go).  Module TssSession begins where this one ends: all *)
(* nodes have been called and know each other.                             *)
(*                                                                         *)
(* Hosts of a self-hosted process are on the same network.  They announce  *)
(* themselves under the same DiscoveryServiceTag, but nothing there serves *)
(* the calls of TssPeerService.                                            *)
(***************************************************************************)
EXTENDS Naturals, FiniteSets

CONSTANTS
  Nodes,          \* the nodes of the cluster
  SelfHosts,      \* hosts of a self-hosted process
  Requests,       \* the nodes whose client asks for a DKG
  MinThreshold,   \* the least threshold that NewDKG of the library accepts
  None            \* no peer

ASSUME DiscoveryAssumption ==
  /\ IsFiniteSet(Nodes) /\ IsFiniteSet(SelfHosts)
  /\ Nodes \cap SelfHosts = {}
  /\ None \notin Nodes \cup SelfHosts
  /\ Requests \subseteq Nodes
  /\ MinThreshold \in Nat

Hosts == Nodes \cup SelfHosts

VARIABLES
  up,       \* up[n]: how far main of node n has got
  peers,    \* peers[n]: the keys of the map of peers of n
  call,     \* call[r]: where the goroutine of the request at r is
  ids,      \* ids[r]: the peers that RpcToPeer has still to call
  target,   \* target[r]: the peer that SendToPeer is calling
  svc       \* svc[r][n]: the DKG service that node n creates for r

vars == <<up, peers, call, ids, target, svc>>

(* A service, or its configuration while the library has not been asked.    *)
Services == [state : {"none", "config", "created"}, threshold : Nat,
             group : SUBSET Hosts]

NoService == [state |-> "none", threshold |-> 0, group |-> {}]

Init ==
  /\ up     = [n \in Nodes |-> "off"]
  /\ peers  = [n \in Nodes |-> {}]
  /\ call   = [r \in Requests |-> "idle"]
  /\ ids    = [r \in Requests |-> {}]
  /\ target = [r \in Requests |-> None]
  /\ svc    = [r \in Requests |-> [n \in Nodes |-> NoService]]

-----------------------------------------------------------------------------
(* main: discovery runs before the gorpc server of the node is registered.  *)
SetupDiscovery(n) ==
  /\ up[n] = "off"
  /\ up' = [up EXCEPT ![n] = "discovering"]
  /\ UNCHANGED <<peers, call, ids, target, svc>>

Register(n) ==
  /\ up[n] = "discovering"
  /\ up' = [up EXCEPT ![n] = "serving"]
  /\ UNCHANGED <<peers, call, ids, target, svc>>

(* Host m announces itself and Host.Connect to it succeeds.                 *)
Reachable(m) == m \in Nodes => up[m] \in {"discovering", "serving"}

(* Mutant: the node does not notice that it has found itself.               *)
HandleAnyFound(n, m) ==
  /\ up[n] \in {"discovering", "serving"}
  /\ m \notin peers[n] /\ Reachable(m)
  /\ peers' = [peers EXCEPT ![n] = @ \cup {m}]
  /\ UNCHANGED <<up, call, ids, target, svc>>

(* The callback of mDNS for another host: AddPeerID after Host.Connect.     *)
(* Nothing ever removes a peer.                                             *)
HandlePeerFound(n, m) ==
  /\ up[n] \in {"discovering", "serving"}
  /\ m # n /\ m \notin peers[n] /\ Reachable(m)
  /\ peers' = [peers EXCEPT ![n] = @ \cup {m}]
  /\ UNCHANGED <<up, call, ids, target, svc>>

(* Goroutines of n that read the map: PeerIDs, RpcToPeer, MustSend.         *)
ReadsPeers(n) ==
  \/ n \in Requests /\ call[n] \in {"list", "range", "calling", "send", "sleep"}
  \/ \E r \in Requests : svc[r][n].state # "none"

(***************************************************************************)
(* The map has no lock.  When a callback, also one for a peer that is      *)
(* known already, writes it while another goroutine reads it, the Go       *)
(* runtime may stop the process ("concurrent map read and map write").     *)
(***************************************************************************)
ConcurrentMapWrite(n) ==
  /\ up[n] \in {"discovering", "serving"}
  /\ ReadsPeers(n)
  /\ \E m \in Hosts \ {n} : Reachable(m)
  /\ up'   = [up EXCEPT ![n] = "crashed"]
  /\ call' = [r \in Requests |-> IF r = n THEN "error" ELSE call[r]]
  /\ svc'  = [r \in Requests |-> [svc[r] EXCEPT ![n] = NoService]]
  /\ UNCHANGED <<peers, ids, target>>

-----------------------------------------------------------------------------
(* RegisterDKG at the node r that the client has asked.                     *)

(* Mutant: the map is taken to hold the node itself too.                    *)
NumOthers(n) == IF peers[n] = {} THEN 0 ELSE Cardinality(peers[n]) - 1

(* Mutant: the threshold is the number of all nodes.                        *)
NumParties(n) == Cardinality(peers[n]) + 1

(* cfg.Threshold is the number of peers that n knows at this moment.        *)
NumPeers(n) == Cardinality(peers[n])

Configured(r, n) ==
  svc' = [svc EXCEPT ![r][n] = [state |-> "config", threshold |-> NumPeers(n),
                                group |-> {}]]

(* NewDKG (external) reads the map again: its peers are the group.          *)
Created(r, n) ==
  svc' = [svc EXCEPT ![r][n].state = "created", ![r][n].group = peers[n]]

Accepted(r, n) == svc[r][n].threshold >= MinThreshold

RegisterDKG(r) ==
  /\ call[r] = "idle"
  /\ up[r] = "serving"
  /\ Configured(r, r)
  /\ call' = [call EXCEPT ![r] = "config"]
  /\ UNCHANGED <<up, peers, ids, target>>

NewDkgService(r) ==
  /\ call[r] = "config"
  /\ \/ /\ Accepted(r, r)
        /\ Created(r, r)
        /\ call' = [call EXCEPT ![r] = "list"]
     \/ /\ ~Accepted(r, r)
        /\ svc' = [svc EXCEPT ![r][r] = NoService]
        /\ call' = [call EXCEPT ![r] = "error"]
  /\ UNCHANGED <<up, peers, ids, target>>

(***************************************************************************)
(* PeerIDs makes a slice for the peers in the map and then ranges over the *)
(* map.  A peer that is added in between is left out by the range or it    *)
(* does not fit into the slice: the handler panics and net/http ends the   *)
(* request.                                                                *)
(***************************************************************************)
MakeIDs(r) ==
  /\ call[r] = "list"
  /\ ids' = [ids EXCEPT ![r] = peers[r]]
  /\ call' = [call EXCEPT ![r] = "range"]
  /\ UNCHANGED <<up, peers, target, svc>>

RangeIDs(r) ==
  /\ call[r] = "range"
  /\ \/ call' = [call EXCEPT ![r] = "calling"]
     \/ /\ NumPeers(r) > Cardinality(ids[r])
        /\ call' = [call EXCEPT ![r] = "error"]
  /\ UNCHANGED <<up, peers, ids, target, svc>>

-----------------------------------------------------------------------------
(* RpcToPeer calls the peers one after the other.                           *)
SendToPeer(r, p) ==
  /\ call[r] = "calling"
  /\ p \in ids[r]
  /\ target' = [target EXCEPT ![r] = p]
  /\ call' = [call EXCEPT ![r] = "send"]
  /\ UNCHANGED <<up, peers, ids, svc>>

Serves(p) == p \in Nodes /\ up[p] = "serving"

(* TssPeerService.RegisterDKG at the peer, up to its own NewDKG.            *)
MsgToPeer(r, p) ==
  /\ call[r] = "send" /\ target[r] = p
  /\ Serves(p)
  /\ svc[r][p].state = "none"
  /\ Configured(r, p)
  /\ UNCHANGED <<up, peers, call, ids, target>>

(* Mutant: the peer is not waited for when it cannot be called.             *)
CallSkipsPeer(r, p) ==
  /\ call[r] = "send" /\ target[r] = p
  /\ ~Serves(p)
  /\ ids' = [ids EXCEPT ![r] = @ \ {p}]
  /\ call' = [call EXCEPT ![r] = "calling"]
  /\ UNCHANGED <<up, peers, target, svc>>

(* Mutant: SendToPeer returns the error of the first attempt.               *)
CallGivesUp(r, p) ==
  /\ call[r] = "send" /\ target[r] = p
  /\ ~Serves(p)
  /\ call' = [call EXCEPT ![r] = "error"]
  /\ UNCHANGED <<up, peers, ids, target, svc>>

(* The peer cannot be reached or serves no such call: SendToPeer sleeps.    *)
CallFails(r, p) ==
  /\ call[r] = "send" /\ target[r] = p
  /\ ~Serves(p)
  /\ call' = [call EXCEPT ![r] = "sleep"]
  /\ UNCHANGED <<up, peers, ids, target, svc>>

(* NewDKG of the peer, which may refuse: the caller gets the error and      *)
(* sleeps.                                                                  *)
NewDkgServicePeer(r, p) ==
  /\ call[r] = "send" /\ target[r] = p
  /\ Serves(p)
  /\ svc[r][p].state = "config"
  /\ \/ /\ Accepted(r, p)
        /\ Created(r, p)
        /\ ids' = [ids EXCEPT ![r] = @ \ {p}]
        /\ call' = [call EXCEPT ![r] = "calling"]
     \/ /\ ~Accepted(r, p)
        /\ svc' = [svc EXCEPT ![r][p] = NoService]
        /\ call' = [call EXCEPT ![r] = "sleep"]
        /\ UNCHANGED ids
  /\ UNCHANGED <<up, peers, target>>

Wake(r) ==
  /\ call[r] = "sleep"
  /\ call' = [call EXCEPT ![r] = "send"]
  /\ UNCHANGED <<up, peers, ids, target, svc>>

(* All peers have confirmed: the service of r is started.                   *)
Process(r) ==
  /\ call[r] = "calling"
  /\ ids[r] = {}
  /\ call' = [call EXCEPT ![r] = "process"]
  /\ UNCHANGED <<up, peers, ids, target, svc>>

-----------------------------------------------------------------------------
Main(n) == SetupDiscovery(n) \/ Register(n)

CallPeer(r, p) ==
  MsgToPeer(r, p) \/ CallFails(r, p) \/ NewDkgServicePeer(r, p)

Caller(r) ==
  \/ NewDkgService(r) \/ MakeIDs(r) \/ RangeIDs(r) \/ Wake(r) \/ Process(r)
  \/ \E p \in Hosts : SendToPeer(r, p) \/ CallPeer(r, p)

Next ==
  \/ \E n \in Nodes :
       \/ Main(n) \/ ConcurrentMapWrite(n)
       \/ \E m \in Hosts : HandlePeerFound(n, m)
  \/ \E r \in Requests : RegisterDKG(r) \/ Caller(r)

Spec == Init /\ [][Next]_vars

(***************************************************************************)
(* The processes are started, mDNS finds every node of the cluster some    *)
(* day, and the goroutine of a request goes on; a self-hosted process need *)
(* not be found, and no process need stop.                                 *)
(***************************************************************************)
Fairness ==
  /\ \A n \in Nodes : WF_vars(Main(n))
  /\ \A m, n \in Nodes : WF_vars(HandlePeerFound(n, m))
  /\ \A r \in Requests : WF_vars(Caller(r))

FairSpec == Spec /\ Fairness

-----------------------------------------------------------------------------
(* Properties.                                                              *)

\* Every variable holds a value of the kind that its declaration says, and no
\* node is a peer of itself.
TypeOK ==
  /\ up     \in [Nodes -> {"off", "discovering", "serving", "crashed"}]
  /\ peers  \in [Nodes -> SUBSET Hosts]
  /\ \A n \in Nodes : n \notin peers[n]
  /\ call   \in [Requests -> {"idle", "config", "list", "range", "calling",
                              "send", "sleep", "process", "error"}]
  /\ ids    \in [Requests -> SUBSET Hosts]
  /\ target \in [Requests -> Hosts \cup {None}]
  /\ svc    \in [Requests -> [Nodes -> Services]]

(***************************************************************************)
(* CallsCoverGroup: when RegisterDKG starts its own session, every peer    *)
(* that the library will wait for has created its service (or has stopped  *)
(* since), although the group, the list of peers to call and the peers'    *)
(* own maps are read at different moments of a map that keeps growing.     *)
(***************************************************************************)
CallsCoverGroup ==
  \A r \in Requests : call[r] = "process" =>
    \A m \in svc[r][r].group :
      m \in Nodes /\ (svc[r][m].state = "created" \/ up[m] = "crashed")

(***************************************************************************)
(* ThresholdMet: the threshold that RegisterDKG has read from the map is   *)
(* never more than the number of peers that the library then finds in it,  *)
(* so that the key can be used with one node missing.                      *)
(***************************************************************************)
ThresholdMet ==
  \A r \in Requests, n \in Nodes :
    svc[r][n].state = "created" =>
      svc[r][n].threshold <= Cardinality(svc[r][n].group)

Discovered == \A n \in Nodes : Nodes \ {n} \subseteq peers[n]

Whole(r) ==
  \A n \in Nodes : svc[r][n].state = "created" =>
    /\ Nodes \ {n} \subseteq svc[r][n].group
    /\ svc[r][n].threshold >= Cardinality(Nodes) - 1

(***************************************************************************)
(* LateRequestsWhole: a request that comes when all nodes know each other  *)
(* gets services whose group leaves out no node, at the asked node and at  *)
(* every peer.  This is what TssSession assumes of its requests.           *)
(***************************************************************************)
LateRequestsWhole ==
  \A r \in Requests : [](Discovered /\ call[r] = "idle" => []Whole(r))

(* What a request cannot get over: a host that never serves calls is among  *)
(* the peers, or a node has stopped.                                        *)
Blocked(r) ==
  ids[r] \cap SelfHosts # {} \/ \E n \in Nodes : up[n] = "crashed"

(***************************************************************************)
(* CallsGoThrough: RpcToPeer gets through to all peers although some have  *)
(* not registered TssPeerService yet and some refuse, because their own    *)
(* discovery is behind.                                                    *)
(***************************************************************************)
CallsGoThrough ==
  \A r \in Requests : call[r] = "calling" ~> (call[r] = "process" \/ Blocked(r))
=============================================================================

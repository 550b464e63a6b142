-------------------------- MODULE DiscoveryProofs --------------------------
(***************************************************************************)
(* Proofs about Discovery, for any nodes, self-hosted processes and        *)
(* requests, and any threshold that the library accepts.                   *)
(***************************************************************************)
EXTENDS Discovery, FiniteSetTheorems, TLAPS

-----------------------------------------------------------------------------
(* The inductive invariant.                                                 *)

(* A threshold was read from a map that has only grown since.               *)
ThresholdInv ==
  \A r \in Requests, n \in Nodes :
    /\ svc[r][n].state = "config" => svc[r][n].threshold <= Cardinality(peers[n])
    /\ svc[r][n].state = "created" =>
         svc[r][n].threshold <= Cardinality(svc[r][n].group)

Listed(r, m) ==
  m \in ids[r] \/ (m \in Nodes /\ (svc[r][m].state = "created" \/ up[m] = "crashed"))

(* The list of peers to call is read after the group, from the same map; a  *)
(* peer leaves it when its service is there.                                *)
ListInv ==
  \A r \in Requests :
    /\ call[r] = "config" => svc[r][r].state = "config"
    /\ call[r] \in {"list", "range", "calling", "send", "sleep", "process"} =>
         svc[r][r].state = "created"
    /\ call[r] = "list" => svc[r][r].group \subseteq peers[r]
    /\ call[r] \in {"range", "calling", "send", "sleep"} =>
         \A m \in svc[r][r].group : Listed(r, m)
    /\ call[r] = "process" => ids[r] = {} /\ \A m \in svc[r][r].group : Listed(r, m)

IInv == TypeOK /\ ThresholdInv /\ ListInv

(* A map of peers is finite, and its size is a number.                      *)
LEMMA PeersFinite ==
  ASSUME NEW S \in SUBSET Hosts
  PROVE  IsFiniteSet(S) /\ Cardinality(S) \in Nat
<1>1. IsFiniteSet(Hosts)
  BY DiscoveryAssumption, FS_Union DEF Hosts
<1>2. IsFiniteSet(S)
  BY <1>1, FS_Subset
<1> QED
  BY <1>2, FS_CardinalityType

(* The invariant holds when nothing has been started.                       *)
LEMMA InitInv == Init => IInv
<1> SUFFICES ASSUME Init PROVE IInv
  OBVIOUS
<1>1. NoService \in Services
  BY DEF NoService, Services
<1>2. TypeOK
  BY <1>1 DEF Init, TypeOK
<1>3. ThresholdInv /\ ListInv
  BY DiscoveryAssumption DEF Init, ThresholdInv, ListInv, NoService
<1> QED
  BY <1>2, <1>3 DEF IInv

-----------------------------------------------------------------------------
(* Start-up.                                                                *)
LEMMA MainInv ==
  ASSUME IInv, NEW n \in Nodes, Main(n)
  PROVE  IInv'
<1>1. /\ up[n] # "crashed"
      /\ \E v \in {"discovering", "serving"} : up' = [up EXCEPT ![n] = v]
      /\ UNCHANGED <<peers, call, ids, target, svc>>
  BY DEF Main, SetupDiscovery, Register
<1>2. TypeOK'
  BY <1>1 DEF IInv, TypeOK
<1>3. \A m \in Nodes : up[m] = "crashed" => up'[m] = "crashed"
  BY <1>1 DEF IInv, TypeOK
<1>4. ThresholdInv' /\ ListInv'
  BY <1>1, <1>3 DEF IInv, ThresholdInv, ListInv, Listed
<1> QED
  BY <1>2, <1>4 DEF IInv

(* The map of a node grows.                                                 *)
LEMMA FoundInv ==
  ASSUME IInv, NEW n \in Nodes, NEW m \in Hosts, HandlePeerFound(n, m)
  PROVE  IInv'
<1>1. /\ m # n
      /\ peers' = [peers EXCEPT ![n] = peers[n] \cup {m}]
      /\ UNCHANGED <<up, call, ids, target, svc>>
  BY DEF HandlePeerFound
<1>2. TypeOK'
  BY <1>1 DEF IInv, TypeOK
<1>3. \A k \in Nodes : peers[k] \subseteq peers'[k]
  BY <1>1 DEF IInv, TypeOK
<1>4. \A k \in Nodes : /\ Cardinality(peers[k]) <= Cardinality(peers'[k])
                       /\ Cardinality(peers[k]) \in Nat
                       /\ Cardinality(peers'[k]) \in Nat
  <2> SUFFICES ASSUME NEW k \in Nodes
               PROVE  /\ Cardinality(peers[k]) <= Cardinality(peers'[k])
                      /\ Cardinality(peers[k]) \in Nat
                      /\ Cardinality(peers'[k]) \in Nat
    OBVIOUS
  <2>1. peers[k] \in SUBSET Hosts /\ peers'[k] \in SUBSET Hosts
    BY <1>2 DEF IInv, TypeOK
  <2>2. /\ IsFiniteSet(peers'[k])
        /\ Cardinality(peers[k]) \in Nat /\ Cardinality(peers'[k]) \in Nat
    BY <2>1, PeersFinite
  <2>3. Cardinality(peers[k]) <= Cardinality(peers'[k])
    BY <1>3, <2>2, FS_Subset
  <2> QED
    BY <2>2, <2>3
<1>5. \A r \in Requests, k \in Nodes : svc[r][k].threshold \in Nat
  BY DEF IInv, TypeOK, Services
<1>6. ThresholdInv'
  <2> SUFFICES ASSUME NEW r \in Requests, NEW k \in Nodes
               PROVE  /\ svc[r][k].state = "config" =>
                           svc[r][k].threshold <= Cardinality(peers'[k])
                      /\ svc[r][k].state = "created" =>
                           svc[r][k].threshold <= Cardinality(svc[r][k].group)
    BY <1>1 DEF ThresholdInv
  <2>1. /\ svc[r][k].state = "config" => svc[r][k].threshold <= Cardinality(peers[k])
        /\ svc[r][k].state = "created" =>
             svc[r][k].threshold <= Cardinality(svc[r][k].group)
    BY DEF IInv, ThresholdInv
  <2> QED
    BY <2>1, <1>4, <1>5
<1>7. ListInv'
  BY <1>1, <1>3, DiscoveryAssumption DEF IInv, ListInv, Listed
<1> QED
  BY <1>2, <1>6, <1>7 DEF IInv

(* A process stops; what it had is gone.                                    *)
LEMMA CrashInv ==
  ASSUME IInv, NEW n \in Nodes, ConcurrentMapWrite(n)
  PROVE  IInv'
<1>1. /\ up'   = [up EXCEPT ![n] = "crashed"]
      /\ call' = [r \in Requests |-> IF r = n THEN "error" ELSE call[r]]
      /\ svc'  = [r \in Requests |-> [svc[r] EXCEPT ![n] = NoService]]
      /\ UNCHANGED <<peers, ids, target>>
  BY DEF ConcurrentMapWrite
<1>2. NoService \in Services /\ NoService.state = "none"
  BY DEF NoService, Services
<1>3. \A r \in Requests, k \in Nodes :
        svc'[r][k] = IF k = n THEN NoService ELSE svc[r][k]
  BY <1>1 DEF IInv, TypeOK
<1>4. /\ svc' \in [Requests -> [Nodes -> Services]]
      /\ call' \in [Requests -> {"idle", "config", "list", "range", "calling",
                                 "send", "sleep", "process", "error"}]
  BY <1>1, <1>2 DEF IInv, TypeOK
<1>5. TypeOK'
  BY <1>1, <1>4 DEF IInv, TypeOK
<1>6. ThresholdInv'
  BY <1>1, <1>2, <1>3 DEF IInv, ThresholdInv
<1>7. up'[n] = "crashed" /\ \A k \in Nodes : k # n => up'[k] = up[k]
  BY <1>1 DEF IInv, TypeOK
<1>8. \A r \in Requests : r # n =>
        /\ call'[r] = call[r] /\ svc'[r][r] = svc[r][r]
        /\ \A m \in svc[r][r].group : Listed(r, m) => Listed(r, m)'
  BY <1>1, <1>3, <1>7, DiscoveryAssumption DEF Listed
<1>9. n \in Requests => call'[n] = "error"
  BY <1>1
<1>10. ListInv'
  BY <1>1, <1>8, <1>9 DEF IInv, ListInv
<1> QED
  BY <1>5, <1>6, <1>10 DEF IInv

-----------------------------------------------------------------------------
(* A node reads its threshold.                                              *)
LEMMA ConfiguredFacts ==
  ASSUME IInv, NEW r \in Requests, NEW n \in Nodes, Configured(r, n), UNCHANGED peers
  PROVE  /\ svc' \in [Requests -> [Nodes -> Services]]
         /\ ThresholdInv'
         /\ svc'[r][n].state = "config"
         /\ \A q \in Requests, k \in Nodes :
              q # r \/ k # n => svc'[q][k] = svc[q][k]
<1> DEFINE v == [state |-> "config", threshold |-> NumPeers(n), group |-> {}]
<1>1. svc' = [svc EXCEPT ![r][n] = v]
  BY DEF Configured
<1>2. peers[n] \in SUBSET Hosts
  BY DEF IInv, TypeOK
<1>3. NumPeers(n) \in Nat
  BY <1>2, PeersFinite DEF NumPeers
<1>4. v \in Services /\ v.state = "config" /\ v.threshold = NumPeers(n)
  BY <1>3 DEF Services
<1>5. \A q \in Requests, k \in Nodes :
        svc'[q][k] = IF q = r /\ k = n THEN v ELSE svc[q][k]
  BY <1>1 DEF IInv, TypeOK
<1>6. svc' \in [Requests -> [Nodes -> Services]]
  BY <1>1, <1>4 DEF IInv, TypeOK
<1>7. ThresholdInv'
  BY <1>3, <1>4, <1>5 DEF IInv, ThresholdInv, NumPeers
<1> QED
  BY <1>4, <1>5, <1>6, <1>7

(* NewDKG takes its peers from the map.                                     *)
LEMMA CreatedFacts ==
  ASSUME IInv, NEW r \in Requests, NEW n \in Nodes, Created(r, n), UNCHANGED peers,
         svc[r][n].state = "config"
  PROVE  /\ svc' \in [Requests -> [Nodes -> Services]]
         /\ ThresholdInv'
         /\ svc'[r][n].state = "created" /\ svc'[r][n].group = peers[n]
         /\ \A q \in Requests, k \in Nodes :
              q # r \/ k # n => svc'[q][k] = svc[q][k]
<1> DEFINE v == [svc[r][n] EXCEPT !.state = "created", !.group = peers[n]]
<1>1. svc' = [svc EXCEPT ![r][n] = v]
  BY DEF Created, IInv, TypeOK
<1>2. peers[n] \in SUBSET Hosts /\ svc[r][n] \in Services
  BY DEF IInv, TypeOK
<1>3. v \in Services /\ v.state = "created" /\ v.group = peers[n]
      /\ v.threshold = svc[r][n].threshold
  BY <1>2 DEF Services
<1>4. \A q \in Requests, k \in Nodes :
        svc'[q][k] = IF q = r /\ k = n THEN v ELSE svc[q][k]
  BY <1>1 DEF IInv, TypeOK
<1>5. svc' \in [Requests -> [Nodes -> Services]]
  BY <1>1, <1>3 DEF IInv, TypeOK
<1>6. svc[r][n].threshold <= Cardinality(peers[n])
  BY DEF IInv, ThresholdInv
<1>7. ThresholdInv'
  <2> SUFFICES ASSUME NEW q \in Requests, NEW k \in Nodes
               PROVE  /\ svc'[q][k].state = "config" =>
                           svc'[q][k].threshold <= Cardinality(peers[k])
                      /\ svc'[q][k].state = "created" =>
                           svc'[q][k].threshold <= Cardinality(svc'[q][k].group)
    BY DEF ThresholdInv
  <2>1. CASE q = r /\ k = n
    <3>1. svc'[q][k] = v
      BY <2>1, <1>4
    <3> QED
      BY <3>1, <1>3, <1>6
  <2>2. CASE ~(q = r /\ k = n)
    <3>1. svc'[q][k] = svc[q][k]
      BY <2>2, <1>4
    <3> QED
      BY <3>1 DEF IInv, ThresholdInv
  <2> QED
    BY <2>1, <2>2
<1> QED
  BY <1>3, <1>4, <1>5, <1>7

(* A refused service leaves nothing behind.                                 *)
LEMMA RefusedFacts ==
  ASSUME IInv, NEW r \in Requests, NEW n \in Nodes, UNCHANGED peers,
         svc' = [svc EXCEPT ![r][n] = NoService]
  PROVE  /\ svc' \in [Requests -> [Nodes -> Services]]
         /\ ThresholdInv'
         /\ \A q \in Requests, k \in Nodes :
              q # r \/ k # n => svc'[q][k] = svc[q][k]
<1>1. NoService \in Services /\ NoService.state = "none"
  BY DEF NoService, Services
<1>2. \A q \in Requests, k \in Nodes :
        svc'[q][k] = IF q = r /\ k = n THEN NoService ELSE svc[q][k]
  BY DEF IInv, TypeOK
<1>3. svc' \in [Requests -> [Nodes -> Services]]
  BY <1>1 DEF IInv, TypeOK
<1>4. ThresholdInv'
  BY <1>1, <1>2 DEF IInv, ThresholdInv
<1> QED
  BY <1>2, <1>3, <1>4

-----------------------------------------------------------------------------
(* The request reads its threshold and creates its service.                 *)
LEMMA RegisterInv ==
  ASSUME IInv, NEW r \in Requests, RegisterDKG(r)
  PROVE  IInv'
<1>1. /\ call[r] = "idle" /\ Configured(r, r)
      /\ call' = [call EXCEPT ![r] = "config"]
      /\ UNCHANGED <<up, peers, ids, target>>
  BY DEF RegisterDKG
<1>2. r \in Nodes
  BY DiscoveryAssumption
<1>3. /\ svc' \in [Requests -> [Nodes -> Services]]
      /\ ThresholdInv'
      /\ svc'[r][r].state = "config"
      /\ \A q \in Requests, k \in Nodes : q # r \/ k # r => svc'[q][k] = svc[q][k]
  BY <1>1, <1>2, ConfiguredFacts
<1>4. TypeOK'
  BY <1>1, <1>3 DEF IInv, TypeOK
<1>5. /\ call'[r] = "config"
      /\ \A q \in Requests : q # r =>
           /\ call'[q] = call[q] /\ ids'[q] = ids[q]
           /\ \A k \in Nodes : svc'[q][k] = svc[q][k]
  BY <1>1, <1>3 DEF IInv, TypeOK
<1>6. ListInv'
  BY <1>1, <1>3, <1>5, DiscoveryAssumption DEF IInv, ListInv, Listed
<1> QED
  BY <1>3, <1>4, <1>6 DEF IInv

(* NewDKG accepts the configuration that the request has made, or not.      *)
LEMMA NewServiceInv ==
  ASSUME IInv, NEW r \in Requests, NewDkgService(r)
  PROVE  IInv'
<1>1. r \in Nodes /\ svc[r][r].state = "config"
  BY DiscoveryAssumption DEF NewDkgService, IInv, ListInv
<1>2. CASE Accepted(r, r) /\ Created(r, r) /\ call' = [call EXCEPT ![r] = "list"]
  <2>1. UNCHANGED <<up, peers, ids, target>>
    BY DEF NewDkgService
  <2>2. /\ svc' \in [Requests -> [Nodes -> Services]]
        /\ ThresholdInv'
        /\ svc'[r][r].state = "created" /\ svc'[r][r].group = peers[r]
        /\ \A q \in Requests, k \in Nodes : q # r \/ k # r => svc'[q][k] = svc[q][k]
    BY <1>1, <1>2, <2>1, CreatedFacts
  <2>3. TypeOK'
    BY <1>2, <2>1, <2>2 DEF IInv, TypeOK
  <2>4. /\ call'[r] = "list"
        /\ \A q \in Requests : q # r =>
             call'[q] = call[q] /\ \A k \in Nodes : svc'[q][k] = svc[q][k]
    BY <1>2, <2>2 DEF IInv, TypeOK
  <2>5. ListInv'
    BY <2>1, <2>2, <2>4, DiscoveryAssumption DEF IInv, ListInv, Listed
  <2> QED
    BY <2>2, <2>3, <2>5 DEF IInv
<1>3. CASE svc' = [svc EXCEPT ![r][r] = NoService] /\ call' = [call EXCEPT ![r] = "error"]
  <2>1. UNCHANGED <<up, peers, ids, target>>
    BY DEF NewDkgService
  <2>2. /\ svc' \in [Requests -> [Nodes -> Services]]
        /\ ThresholdInv'
        /\ \A q \in Requests, k \in Nodes : q # r \/ k # r => svc'[q][k] = svc[q][k]
    BY <1>1, <1>3, <2>1, RefusedFacts
  <2>3. TypeOK'
    BY <1>3, <2>1, <2>2 DEF IInv, TypeOK
  <2>4. /\ call'[r] = "error"
        /\ \A q \in Requests : q # r =>
             call'[q] = call[q] /\ \A k \in Nodes : svc'[q][k] = svc[q][k]
    BY <1>3, <2>2 DEF IInv, TypeOK
  <2>5. ListInv'
    BY <2>1, <2>2, <2>4, DiscoveryAssumption DEF IInv, ListInv, Listed
  <2> QED
    BY <2>2, <2>3, <2>5 DEF IInv
<1> QED
  BY <1>2, <1>3 DEF NewDkgService

-----------------------------------------------------------------------------
(* The request lists its peers, picks one, sleeps, wakes up or starts.      *)
LEMMA LoopInv ==
  ASSUME IInv, NEW r \in Requests,
         \/ MakeIDs(r) \/ RangeIDs(r) \/ Wake(r) \/ Process(r)
         \/ \E p \in Hosts : SendToPeer(r, p) \/ CallFails(r, p)
  PROVE  IInv'
<1>1. /\ UNCHANGED <<up, peers, svc>>
      /\ \/ call[r] = "list" /\ ids' = [ids EXCEPT ![r] = peers[r]]
            /\ call' = [call EXCEPT ![r] = "range"]
         \/ call[r] \in {"range", "calling", "send", "sleep"} /\ ids' = ids
            /\ \E v \in {"calling", "send", "sleep", "error"} :
                 call' = [call EXCEPT ![r] = v]
         \/ call[r] = "calling" /\ ids[r] = {} /\ ids' = ids
            /\ call' = [call EXCEPT ![r] = "process"]
  BY DEF MakeIDs, RangeIDs, Wake, Process, SendToPeer, CallFails
<1>2. target' \in [Requests -> Hosts \cup {None}]
  BY DEF IInv, TypeOK, MakeIDs, RangeIDs, Wake, Process, SendToPeer, CallFails
<1>3. r \in Nodes /\ peers[r] \in SUBSET Hosts
  BY DiscoveryAssumption DEF IInv, TypeOK
<1>4. TypeOK'
  BY <1>1, <1>2, <1>3 DEF IInv, TypeOK
<1>5. ThresholdInv'
  BY <1>1 DEF IInv, ThresholdInv
<1>6. \A q \in Requests : q # r => call'[q] = call[q] /\ ids'[q] = ids[q]
  BY <1>1 DEF IInv, TypeOK
<1>7. /\ svc[r][r].state = "created"
      /\ call'[r] \in {"range", "calling", "send", "sleep", "process", "error"}
      /\ call'[r] # "error" => \A m \in svc[r][r].group : Listed(r, m)'
      /\ call'[r] = "process" => ids'[r] = {}
  BY <1>1, <1>3 DEF IInv, TypeOK, ListInv, Listed
<1>8. ListInv'
  BY <1>1, <1>6, <1>7 DEF IInv, ListInv, Listed
<1> QED
  BY <1>4, <1>5, <1>8 DEF IInv

(* A peer is called, and reads its threshold.                               *)
LEMMA MsgToPeerInv ==
  ASSUME IInv, NEW r \in Requests, NEW p \in Hosts, MsgToPeer(r, p)
  PROVE  IInv'
<1>1. /\ p \in Nodes /\ svc[r][p].state = "none" /\ Configured(r, p)
      /\ call[r] = "send"
      /\ UNCHANGED <<up, peers, call, ids, target>>
  BY DEF MsgToPeer, Serves
<1>2. /\ svc' \in [Requests -> [Nodes -> Services]]
      /\ ThresholdInv'
      /\ \A q \in Requests, k \in Nodes : q # r \/ k # p => svc'[q][k] = svc[q][k]
  BY <1>1, ConfiguredFacts
<1>3. TypeOK'
  BY <1>1, <1>2 DEF IInv, TypeOK
<1>4. p # r
  BY <1>1 DEF IInv, ListInv
<1>5. \A q \in Requests :
        /\ q \in Nodes /\ svc'[q][q] = svc[q][q]
        /\ \A m \in svc[q][q].group : Listed(q, m) => Listed(q, m)'
  BY <1>1, <1>2, <1>4, DiscoveryAssumption DEF Listed
<1>6. ListInv'
  BY <1>1, <1>5 DEF IInv, ListInv
<1> QED
  BY <1>2, <1>3, <1>6 DEF IInv

(* The peer creates its service and the caller goes on, or it refuses.      *)
LEMMA NewServicePeerInv ==
  ASSUME IInv, NEW r \in Requests, NEW p \in Hosts, NewDkgServicePeer(r, p)
  PROVE  IInv'
<1>1. /\ p \in Nodes /\ svc[r][p].state = "config" /\ call[r] = "send"
      /\ UNCHANGED <<up, peers, target>>
  BY DEF NewDkgServicePeer, Serves
<1>2. p # r
  BY <1>1 DEF IInv, ListInv
<1>3. CASE /\ Created(r, p)
           /\ ids' = [ids EXCEPT ![r] = ids[r] \ {p}]
           /\ call' = [call EXCEPT ![r] = "calling"]
  <2>1. /\ svc' \in [Requests -> [Nodes -> Services]]
        /\ ThresholdInv'
        /\ svc'[r][p].state = "created"
        /\ \A q \in Requests, k \in Nodes : q # r \/ k # p => svc'[q][k] = svc[q][k]
    BY <1>1, <1>3, CreatedFacts
  <2>2. TypeOK'
    BY <1>1, <1>3, <2>1 DEF IInv, TypeOK
  <2>3. /\ call'[r] = "calling" /\ ids'[r] = ids[r] \ {p}
        /\ \A q \in Requests : q # r => call'[q] = call[q] /\ ids'[q] = ids[q]
    BY <1>3 DEF IInv, TypeOK
  <2>4. \A q \in Requests :
          /\ q \in Nodes /\ svc'[q][q] = svc[q][q]
          /\ \A m \in svc[q][q].group : Listed(q, m) => Listed(q, m)'
    BY <1>1, <1>2, <2>1, <2>3, DiscoveryAssumption DEF Listed
  <2>5. ListInv'
    BY <1>1, <2>3, <2>4 DEF IInv, ListInv
  <2> QED
    BY <2>1, <2>2, <2>5 DEF IInv
<1>4. CASE /\ svc' = [svc EXCEPT ![r][p] = NoService]
           /\ call' = [call EXCEPT ![r] = "sleep"]
           /\ ids' = ids
  <2>1. /\ svc' \in [Requests -> [Nodes -> Services]]
        /\ ThresholdInv'
        /\ \A q \in Requests, k \in Nodes : q # r \/ k # p => svc'[q][k] = svc[q][k]
    BY <1>1, <1>4, RefusedFacts
  <2>2. TypeOK'
    BY <1>1, <1>4, <2>1 DEF IInv, TypeOK
  <2>3. /\ call'[r] = "sleep" /\ ids'[r] = ids[r]
        /\ \A q \in Requests : q # r => call'[q] = call[q] /\ ids'[q] = ids[q]
    BY <1>4 DEF IInv, TypeOK
  <2>4. \A q \in Requests :
          /\ q \in Nodes /\ svc'[q][q] = svc[q][q]
          /\ \A m \in svc[q][q].group : Listed(q, m) => Listed(q, m)'
    BY <1>1, <1>2, <2>1, <2>3, DiscoveryAssumption DEF Listed
  <2>5. ListInv'
    BY <1>1, <2>3, <2>4 DEF IInv, ListInv
  <2> QED
    BY <2>1, <2>2, <2>5 DEF IInv
<1> QED
  BY <1>3, <1>4 DEF NewDkgServicePeer

(* The invariant is inductive.                                              *)
LEMMA NextInv == IInv /\ [Next]_vars => IInv'
<1> SUFFICES ASSUME IInv, [Next]_vars PROVE IInv'
  OBVIOUS
<1>1. CASE UNCHANGED vars
  BY <1>1 DEF vars, IInv, TypeOK, ThresholdInv, ListInv, Listed
<1>2. ASSUME NEW n \in Nodes,
             \/ Main(n) \/ ConcurrentMapWrite(n)
             \/ \E m \in Hosts : HandlePeerFound(n, m)
      PROVE  IInv'
  BY <1>2, MainInv, CrashInv, FoundInv
<1>3. ASSUME NEW r \in Requests, RegisterDKG(r) \/ Caller(r)
      PROVE  IInv'
  BY <1>3, RegisterInv, NewServiceInv, LoopInv, MsgToPeerInv, NewServicePeerInv
  DEF Caller, CallPeer
<1> QED
  BY <1>1, <1>2, <1>3 DEF Next

(* The inductive invariant holds in every reachable state.                  *)
THEOREM Invariance == Spec => []IInv
BY InitInv, NextInv, PTL DEF Spec

-----------------------------------------------------------------------------
(* Every variable keeps its type, and no node is a peer of itself.          *)
THEOREM TypeCorrect == Spec => []TypeOK
<1>1. IInv => TypeOK
  BY DEF IInv
<1> QED
  BY <1>1, Invariance, PTL

(***************************************************************************)
(* When RegisterDKG starts its session, every peer that the library will   *)
(* wait for has been called and has created its service, however the       *)
(* unsynchronised map of peers has grown in between.                       *)
(***************************************************************************)
THEOREM GroupIsCalled == Spec => []CallsCoverGroup
<1>1. IInv => CallsCoverGroup
  BY DEF IInv, ListInv, Listed, CallsCoverGroup
<1> QED
  BY <1>1, Invariance, PTL

(***************************************************************************)
(* The threshold that RegisterDKG reads from the map is at most the number *)
(* of peers that NewDKG finds in it later.                                 *)
(***************************************************************************)
THEOREM ThresholdIsMet == Spec => []ThresholdMet
<1>1. IInv => ThresholdMet
  BY DEF IInv, ThresholdInv, ThresholdMet
<1> QED
  BY <1>1, Invariance, PTL
-----------------------------------------------------------------------------
(* Requests that come when all nodes know each other.                       *)

(* No service is created for a request that has not come yet.               *)
IdleInv ==
  \A r \in Requests : call[r] = "idle" =>
    \A n \in Nodes : svc[r][n].state = "none"

(* What a request whose nodes know each other gets, and what makes it last. *)
LateInv(r) ==
  /\ Discovered
  /\ \A n \in Nodes : svc[r][n].state \in {"config", "created"} =>
       svc[r][n].threshold >= Cardinality(Nodes) - 1
  /\ \A n \in Nodes : svc[r][n].state = "created" =>
       Nodes \ {n} \subseteq svc[r][n].group

(***************************************************************************)
(* How a service may change in a step: it goes away, reads its threshold   *)
(* from the map of its node, or takes its group from it.                   *)
(***************************************************************************)
Changes(r, n) ==
  \/ svc'[r][n] = svc[r][n]
  \/ svc'[r][n].state = "none"
  \/ /\ svc'[r][n].state = "config"
     /\ svc'[r][n].threshold = Cardinality(peers[n])
     /\ call'[r] # "idle"
  \/ /\ svc[r][n].state = "config"
     /\ svc'[r][n].state = "created"
     /\ svc'[r][n].threshold = svc[r][n].threshold
     /\ svc'[r][n].group = peers[n]

(* Configured, Created and a refusal are such changes.                      *)
LEMMA ServiceChanges ==
  ASSUME IInv, NEW r \in Requests, NEW n \in Nodes, call'[r] # "idle",
         \/ Configured(r, n)
         \/ Created(r, n) /\ svc[r][n].state = "config"
         \/ svc' = [svc EXCEPT ![r][n] = NoService]
  PROVE  \A q \in Requests, k \in Nodes : Changes(q, k)
<1>1. svc \in [Requests -> [Nodes -> Services]]
  BY DEF IInv, TypeOK
<1>2. \A q \in Requests, k \in Nodes : q # r \/ k # n => svc'[q][k] = svc[q][k]
  BY <1>1 DEF Configured, Created
<1>3. Changes(r, n)
  <2>1. CASE Configured(r, n)
    <3>1. svc'[r][n] = [state |-> "config", threshold |-> NumPeers(n), group |-> {}]
      BY <1>1, <2>1 DEF Configured
    <3> QED
      BY <3>1 DEF Changes, NumPeers
  <2>2. CASE Created(r, n) /\ svc[r][n].state = "config"
    <3>1. svc'[r][n] = [svc[r][n] EXCEPT !.state = "created", !.group = peers[n]]
      BY <1>1, <2>2 DEF Created
    <3>2. svc[r][n] \in Services
      BY <1>1
    <3> QED
      BY <2>2, <3>1, <3>2 DEF Changes, Services
  <2>3. CASE svc' = [svc EXCEPT ![r][n] = NoService]
    <3>1. svc'[r][n] = NoService
      BY <1>1, <2>3
    <3> QED
      BY <3>1 DEF Changes, NoService
  <2> QED
    BY <2>1, <2>2, <2>3
<1> QED
  BY <1>2, <1>3 DEF Changes

(* Maps of peers only grow, services change in no other way, and no request *)
(* comes a second time.                                                     *)
LEMMA StepChanges ==
  ASSUME IInv, [Next]_vars
  PROVE  /\ \A n \in Nodes : peers[n] \subseteq peers'[n]
         /\ \A r \in Requests : call'[r] = "idle" => call[r] = "idle"
         /\ \A r \in Requests, n \in Nodes : Changes(r, n)
<1> DEFINE Goal == /\ \A n \in Nodes : peers[n] \subseteq peers'[n]
                   /\ \A r \in Requests : call'[r] = "idle" => call[r] = "idle"
                   /\ \A r \in Requests, n \in Nodes : Changes(r, n)
<1>1. CASE UNCHANGED <<peers, call, svc>>
  BY <1>1 DEF Changes
<1>2. ASSUME NEW n \in Nodes, NEW m \in Hosts, HandlePeerFound(n, m)
      PROVE  Goal
  BY <1>2 DEF HandlePeerFound, IInv, TypeOK, Changes
<1>3. ASSUME NEW n \in Nodes, ConcurrentMapWrite(n)
      PROVE  Goal
  <2>1. /\ UNCHANGED peers
        /\ call' = [r \in Requests |-> IF r = n THEN "error" ELSE call[r]]
        /\ svc'  = [r \in Requests |-> [svc[r] EXCEPT ![n] = NoService]]
    BY <1>3 DEF ConcurrentMapWrite
  <2>2. \A r \in Requests, k \in Nodes :
          svc'[r][k] = IF k = n THEN NoService ELSE svc[r][k]
    BY <2>1 DEF IInv, TypeOK
  <2>3. \A r \in Requests : call'[r] = "idle" => call[r] = "idle"
    BY <2>1
  <2> QED
    BY <2>1, <2>2, <2>3 DEF Changes, NoService
<1>4. ASSUME NEW r \in Requests, RegisterDKG(r) \/ Caller(r)
      PROVE  Goal
  <2>1. /\ UNCHANGED peers
        /\ call'[r] = "idle" => call[r] = "idle"
        /\ \A q \in Requests : q # r => call'[q] = call[q]
    BY <1>4 DEF RegisterDKG, Caller, CallPeer, NewDkgService, MakeIDs, RangeIDs, Wake,
       Process, SendToPeer, MsgToPeer, CallFails, NewDkgServicePeer, IInv, TypeOK
  <2>2. CASE UNCHANGED svc
    BY <2>1, <2>2 DEF Changes
  <2>3. CASE RegisterDKG(r) \/ NewDkgService(r)
    <3>1. r \in Nodes /\ call'[r] # "idle"
      BY <2>3, DiscoveryAssumption DEF RegisterDKG, NewDkgService, IInv, TypeOK
    <3>2. \/ Configured(r, r)
          \/ Created(r, r) /\ svc[r][r].state = "config"
          \/ svc' = [svc EXCEPT ![r][r] = NoService]
      BY <2>3 DEF RegisterDKG, NewDkgService, IInv, ListInv
    <3> QED
      BY <2>1, <3>1, <3>2, ServiceChanges
  <2>4. ASSUME NEW p \in Hosts, MsgToPeer(r, p) \/ NewDkgServicePeer(r, p)
        PROVE  Goal
    <3>1. p \in Nodes /\ call'[r] # "idle"
      BY <2>4 DEF MsgToPeer, NewDkgServicePeer, Serves, IInv, TypeOK
    <3>2. \/ Configured(r, p)
          \/ Created(r, p) /\ svc[r][p].state = "config"
          \/ svc' = [svc EXCEPT ![r][p] = NoService]
      BY <2>4 DEF MsgToPeer, NewDkgServicePeer
    <3> QED
      BY <2>1, <3>1, <3>2, ServiceChanges
  <2> QED
    BY <1>4, <2>2, <2>3, <2>4 DEF Caller, CallPeer, MakeIDs, RangeIDs, Wake, Process,
       SendToPeer, CallFails
<1>5. ASSUME NEW n \in Nodes, Main(n)
      PROVE  Goal
  BY <1>1, <1>5 DEF Main, SetupDiscovery, Register
<1> QED
  BY <1>1, <1>2, <1>3, <1>4, <1>5 DEF Next, vars

(* A service comes with its request.                                        *)
LEMMA IdleStep ==
  ASSUME IInv, IdleInv, [Next]_vars
  PROVE  IdleInv'
<1> SUFFICES ASSUME NEW r \in Requests, call'[r] = "idle", NEW n \in Nodes
             PROVE  svc'[r][n].state = "none"
  BY DEF IdleInv
<1>1. call[r] = "idle" /\ Changes(r, n)
  BY StepChanges
<1>2. svc[r][n].state = "none"
  BY <1>1 DEF IdleInv
<1> QED
  BY <1>1, <1>2 DEF Changes

(* A node that knows all others has at least that many peers.               *)
LEMMA DiscoveredPeers ==
  ASSUME IInv, Discovered, NEW n \in Nodes
  PROVE  /\ Cardinality(peers[n]) \in Nat /\ Cardinality(Nodes) \in Nat
         /\ Cardinality(peers[n]) >= Cardinality(Nodes) - 1
<1>1. peers[n] \in SUBSET Hosts /\ Nodes \ {n} \subseteq peers[n]
  BY DEF IInv, TypeOK, Discovered
<1>2. IsFiniteSet(peers[n]) /\ Cardinality(peers[n]) \in Nat
  BY <1>1, PeersFinite
<1>3. Cardinality(Nodes \ {n}) <= Cardinality(peers[n])
  BY <1>1, <1>2, FS_Subset
<1>4. IsFiniteSet(Nodes) /\ Cardinality(Nodes) \in Nat
  BY DiscoveryAssumption, FS_CardinalityType
<1>5. Cardinality(Nodes \ {n}) = Cardinality(Nodes) - 1
  BY <1>4, FS_RemoveElement
<1> QED
  BY <1>2, <1>3, <1>4, <1>5

(* What a late request gets stays whole.                                    *)
LEMMA LateStep ==
  ASSUME IInv, NEW r \in Requests, LateInv(r), [Next]_vars
  PROVE  LateInv(r)'
<1>1. Discovered'
  BY StepChanges DEF LateInv, Discovered
<1>2. ASSUME NEW n \in Nodes
      PROVE  /\ svc'[r][n].state \in {"config", "created"} =>
                  svc'[r][n].threshold >= Cardinality(Nodes) - 1
             /\ svc'[r][n].state = "created" => Nodes \ {n} \subseteq svc'[r][n].group
  <2>1. Changes(r, n)
    BY StepChanges
  <2>2. Cardinality(peers[n]) >= Cardinality(Nodes) - 1
    BY DiscoveredPeers DEF LateInv
  <2>3. Nodes \ {n} \subseteq peers[n]
    BY DEF LateInv, Discovered
  <2> QED
    BY <2>1, <2>2, <2>3 DEF Changes, LateInv
<1> QED
  BY <1>1, <1>2 DEF LateInv

(***************************************************************************)
(* A request that comes when all nodes know each other gets, at the asked  *)
(* node and at every peer and for good, a service whose group leaves out   *)
(* no node and whose threshold is that of the whole cluster.               *)
(***************************************************************************)
THEOREM LateRequestsAreWhole == Spec => LateRequestsWhole
<1>1. Init => IdleInv
  BY DiscoveryAssumption DEF Init, IdleInv, NoService
<1>2. IInv /\ IdleInv /\ [Next]_vars => IdleInv'
  BY IdleStep
<1>3. Spec => []IdleInv
  BY <1>1, <1>2, Invariance, PTL DEF Spec
<1>4. ASSUME NEW r \in Requests
      PROVE  Spec => [](Discovered /\ call[r] = "idle" => []Whole(r))
  <2>1. IdleInv /\ Discovered /\ call[r] = "idle" => LateInv(r)
    BY DEF IdleInv, LateInv
  <2>2. IInv /\ LateInv(r) /\ [Next]_vars => LateInv(r)'
    BY LateStep
  <2>3. LateInv(r) => Whole(r)
    BY DEF LateInv, Whole
  <2> QED
    BY <1>3, <2>1, <2>2, <2>3, Invariance, PTL DEF Spec
<1> QED
  BY <1>4 DEF LateRequestsWhole
=============================================================================

------------------------- MODULE SelfServiceProofs -------------------------
(***************************************************************************)
(* Proofs about SelfService, for any number of nodes, any calls and every  *)
(* combination of faults.                                                  *)
(***************************************************************************)
EXTENDS SelfService, FiniteSetTheorems, TLAPS

-----------------------------------------------------------------------------
(* The inductive invariant.                                                 *)

(* A service has a goroutine that was started once all were connected.      *)
ConnectedInv ==
  \A c \in Calls :
    /\ \A n \in Node : n \notin peers[c][n] /\ IsFiniteSet(peers[c][n])
    /\ at[c] = "create" => AllConnected(c)
    /\ \A n \in Other : worker[c][n] # "none" => AllConnected(c)

(* So the group of a service is as large as waitForPeers has asked for.     *)
GroupInv ==
  \A c \in Calls, n \in Node :
    svc[c][n] # "none" =>
      /\ Cardinality(group[c][n]) >= NumNodes - 1
      /\ n \notin group[c][n]

(* Where the goroutines of a call are: node 0 waits for the others, which   *)
(* have no service before they have come to their end.                      *)
WorkerInv ==
  \A c \in Calls :
    /\ at[c] = "select" => svc[c][0] = "created"
    /\ at[c] \in {"idle", "lock", "setup", "wait"} =>
         \A n \in Other : worker[c][n] = "none"
    /\ \A n \in Other : worker[c][n] # "done" => svc[c][n] = "none"

(* The writer has the lock for itself.                                      *)
LockInv == closer = "locked" => Readers = {}

IInv ==
  /\ TypeOK /\ ConnectedInv /\ GroupInv /\ LockInv
  /\ WorkerInv /\ ErrorsKept

(* Nodes are numbers, and node 0 is not one of the others.                  *)
LEMMA NodeFacts ==
  /\ NumNodes \in Nat /\ NumNodes >= 2
  /\ 0 \in Node /\ Other \subseteq Node /\ 0 \notin Other
  /\ Node \subseteq Hosts
BY SelfAssumption DEF Node, Other, Hosts

(* The invariant holds when nothing has been started.                       *)
LEMMA InitInv == Init => IInv
<1> SUFFICES ASSUME Init PROVE IInv
  OBVIOUS
<1>1. TypeOK
  BY NodeFacts DEF Init, TypeOK, Life
<1>2. ConnectedInv
  BY FS_EmptySet, NodeFacts DEF Init, ConnectedInv
<1>3. GroupInv /\ WorkerInv /\ LockInv
  BY NodeFacts DEF Init, GroupInv, WorkerInv, LockInv
<1>4. ErrorsKept
  <2>1. \A c \in Calls : Errors(c) = {}
    BY DEF Init, Errors
  <2> QED
    BY <2>1, FS_EmptySet DEF Init, ErrorsKept
<1> QED
  BY <1>1, <1>2, <1>3, <1>4 DEF IInv

(* The channel changes only with the goroutines that fail.                  *)
LEMMA ErrorsFrame ==
  ASSUME ErrorsKept,
         \A c \in Calls : at'[c] # "returned" =>
           at[c] # "returned" /\ errChan'[c] = errChan[c] /\ Errors(c)' = Errors(c)
  PROVE  ErrorsKept'
BY DEF ErrorsKept

(* Errors stay while services go on and goroutines stand still.             *)
LEMMA SameErrors ==
  ASSUME NEW c \in Calls,
         \A n \in Other : /\ worker'[c][n] = "done" <=> worker[c][n] = "done"
                          /\ svc'[c][n] = "none" <=> svc[c][n] = "none"
  PROVE  Errors(c)' = Errors(c)
BY DEF Errors

-----------------------------------------------------------------------------
(* Steps of CreatePm before the services are created.                       *)
LEMMA CreatePmInv ==
  ASSUME IInv, NEW c \in Calls,
         Call(c) \/ RLock(c) \/ SetupDiscovery(c) \/ SetupFails(c) \/ PeersTimeout(c)
  PROVE  IInv'
<1>1. /\ at[c] \in {"idle", "lock", "setup", "wait"}
      /\ \/ at[c] = "idle" /\ at' = [at EXCEPT ![c] = "lock"] /\ answer' = answer
         \/ at[c] = "lock" /\ at' = [at EXCEPT ![c] = "setup"] /\ answer' = answer
            /\ closer # "locked"
         \/ at[c] = "setup" /\ at' = [at EXCEPT ![c] = "wait"] /\ answer' = answer
         \/ at' = [at EXCEPT ![c] = "returned"]
            /\ answer' = [answer EXCEPT ![c] = "error"]
      /\ UNCHANGED <<peers, worker, svc, group, errChan, done, closer, hosts>>
  BY DEF Call, RLock, SetupDiscovery, SetupFails, PeersTimeout, Returns
<1>2. TypeOK'
  BY <1>1 DEF IInv, TypeOK
<1>3. ConnectedInv'
  BY <1>1 DEF IInv, TypeOK, ConnectedInv, AllConnected
<1>4. GroupInv'
  BY <1>1 DEF IInv, GroupInv
<1>5. WorkerInv'
  <2>1. /\ at'[c] # "select"
        /\ at'[c] \in {"idle", "lock", "setup", "wait"} =>
             at[c] \in {"idle", "lock", "setup", "wait"}
    BY <1>1 DEF IInv, TypeOK
  <2>2. \A d \in Calls : d # c => at'[d] = at[d]
    BY <1>1 DEF IInv, TypeOK
  <2> QED
    BY <1>1, <2>1, <2>2 DEF IInv, WorkerInv
<1>6. ErrorsKept'
  <2>1. \A d \in Calls : at'[d] # "returned" => at[d] # "returned"
    BY <1>1 DEF IInv, TypeOK
  <2> QED
    BY <1>1, <2>1, SameErrors, ErrorsFrame DEF IInv
<1>7. LockInv'
  BY <1>1 DEF IInv, TypeOK, LockInv, Readers
<1> QED
  BY <1>2, <1>3, <1>4, <1>5, <1>6, <1>7 DEF IInv

(* The map of a peer manager only grows.                                    *)
LEMMA FoundInv ==
  ASSUME IInv, NEW c \in Calls, NEW n \in Node, NEW m \in Hosts,
         HandlePeerFound(c, n, m)
  PROVE  IInv'
<1>1. /\ m # n
      /\ peers' = [peers EXCEPT ![c][n] = peers[c][n] \cup {m}]
      /\ UNCHANGED <<at, answer, worker, svc, group, errChan, done, closer, hosts>>
  BY DEF HandlePeerFound
<1>2. TypeOK'
  BY <1>1 DEF IInv, TypeOK
<1>3. /\ IsFiniteSet(peers[c][n] \cup {m})
      /\ Cardinality(peers[c][n] \cup {m}) >= Cardinality(peers[c][n])
      /\ Cardinality(peers[c][n]) \in Nat /\ Cardinality(peers[c][n] \cup {m}) \in Nat
  <2>1. IsFiniteSet(peers[c][n])
    BY DEF IInv, ConnectedInv
  <2>2. /\ IsFiniteSet(peers[c][n] \cup {m})
        /\ Cardinality(peers[c][n] \cup {m})
             \in {Cardinality(peers[c][n]), Cardinality(peers[c][n]) + 1}
    BY <2>1, FS_AddElement
  <2>3. Cardinality(peers[c][n]) \in Nat
    BY <2>1, FS_CardinalityType
  <2> QED
    BY <2>2, <2>3
<1>4. \A d \in Calls, k \in Node :
        peers'[d][k] = IF d = c /\ k = n THEN peers[c][n] \cup {m} ELSE peers[d][k]
  BY <1>1 DEF IInv, TypeOK
<1>5. \A d \in Calls : AllConnected(d) => AllConnected(d)'
  <2> SUFFICES ASSUME NEW d \in Calls, AllConnected(d), NEW k \in Node
               PROVE  Cardinality(peers'[d][k]) >= NumNodes - 1
    BY DEF AllConnected
  <2>1. Cardinality(peers[d][k]) >= NumNodes - 1
    BY DEF AllConnected
  <2>2. CASE d = c /\ k = n
    <3>1. peers'[d][k] = peers[c][n] \cup {m}
      BY <2>2, <1>4
    <3> QED
      BY <3>1, <2>1, <2>2, <1>3, NodeFacts
  <2>3. CASE ~(d = c /\ k = n)
    BY <2>1, <2>3, <1>4
  <2> QED
    BY <2>2, <2>3
<1>6. \A d \in Calls, k \in Node : k \notin peers'[d][k] /\ IsFiniteSet(peers'[d][k])
  BY <1>1, <1>3, <1>4 DEF IInv, ConnectedInv
<1>7. ConnectedInv'
  BY <1>1, <1>5, <1>6 DEF IInv, ConnectedInv
<1>8. GroupInv' /\ WorkerInv' /\ LockInv'
  BY <1>1 DEF IInv, GroupInv, WorkerInv, LockInv, Readers
<1>9. ErrorsKept'
  BY <1>1, SameErrors, ErrorsFrame DEF IInv
<1> QED
  BY <1>2, <1>7, <1>8, <1>9 DEF IInv

(* All peers are there: the goroutines are started.                         *)
LEMMA PeersReadyInv ==
  ASSUME IInv, NEW c \in Calls, PeersReady(c)
  PROVE  IInv'
<1>1. /\ at[c] = "wait" /\ AllConnected(c)
      /\ at' = [at EXCEPT ![c] = "create"]
      /\ worker' = [worker EXCEPT ![c] = [n \in Other |-> "running"]]
      /\ UNCHANGED <<answer, peers, svc, group, errChan, done, closer, hosts>>
  BY DEF PeersReady
<1>2. TypeOK'
  BY <1>1 DEF IInv, TypeOK
<1>3. ConnectedInv'
  BY <1>1 DEF IInv, TypeOK, ConnectedInv, AllConnected
<1>4. GroupInv'
  BY <1>1 DEF IInv, GroupInv
<1>5. \A d \in Calls : d # c => at'[d] = at[d] /\ worker'[d] = worker[d]
  BY <1>1 DEF IInv, TypeOK
<1>6. /\ at'[c] = "create"
      /\ \A n \in Other : /\ worker[c][n] = "none" /\ svc[c][n] = "none"
                          /\ worker'[c][n] = "running"
  BY <1>1 DEF IInv, TypeOK, WorkerInv
<1>7. WorkerInv'
  BY <1>1, <1>5, <1>6 DEF IInv, WorkerInv
<1>8. LockInv'
  BY <1>1 DEF IInv, TypeOK, LockInv, Readers
<1>9. ErrorsKept'
  <2>1. \A d \in Calls : Errors(d)' = Errors(d)
    BY <1>1, <1>5, <1>6, SameErrors
  <2> QED
    BY <1>1, <1>5, <1>6, <2>1, ErrorsFrame DEF IInv
<1> QED
  BY <1>2, <1>3, <1>4, <1>7, <1>8, <1>9 DEF IInv

-----------------------------------------------------------------------------
(* A service is created, by a goroutine of another node or by the call.     *)
LEMMA CreatedGroup ==
  ASSUME IInv, NEW c \in Calls, NEW n \in Node, NEW v \in {"created", "running"},
         Created(c, n, v), AllConnected(c)
  PROVE  /\ svc' \in [Calls -> [Node -> Life]]
         /\ group' \in [Calls -> [Node -> SUBSET Hosts]]
         /\ GroupInv'
         /\ \A d \in Calls, k \in Node :
              svc'[d][k] = IF d = c /\ k = n THEN v ELSE svc[d][k]
<1>1. /\ svc' = [svc EXCEPT ![c][n] = v]
      /\ group' = [group EXCEPT ![c][n] = peers[c][n]]
  BY DEF Created
<1>2. peers[c][n] \in SUBSET Hosts
  BY DEF IInv, TypeOK
<1>3. /\ svc' \in [Calls -> [Node -> Life]]
      /\ group' \in [Calls -> [Node -> SUBSET Hosts]]
  BY <1>1, <1>2 DEF IInv, TypeOK, Life
<1>4. \A d \in Calls, k \in Node :
        /\ svc'[d][k] = IF d = c /\ k = n THEN v ELSE svc[d][k]
        /\ group'[d][k] = IF d = c /\ k = n THEN peers[c][n] ELSE group[d][k]
  BY <1>1 DEF IInv, TypeOK
<1>5. GroupInv'
  BY <1>4 DEF IInv, GroupInv, ConnectedInv, AllConnected
<1> QED
  BY <1>3, <1>4, <1>5

(* The goroutine of another node creates its service.                       *)
LEMMA CreateOtherInv ==
  ASSUME IInv, NEW c \in Calls, NEW n \in Other, CreateOther(c, n)
  PROVE  IInv'
<1>1. /\ worker[c][n] = "running"
      /\ worker' = [worker EXCEPT ![c][n] = "done"]
      /\ Created(c, n, "running")
      /\ UNCHANGED <<at, answer, peers, errChan, done, closer, hosts>>
  BY DEF CreateOther
<1>2. AllConnected(c) /\ n \in Node /\ n # 0
  BY <1>1, NodeFacts DEF IInv, ConnectedInv
<1>3. /\ svc' \in [Calls -> [Node -> Life]]
      /\ group' \in [Calls -> [Node -> SUBSET Hosts]]
      /\ GroupInv'
      /\ \A d \in Calls, k \in Node :
           svc'[d][k] = IF d = c /\ k = n THEN "running" ELSE svc[d][k]
  BY <1>1, <1>2, CreatedGroup
<1>4. TypeOK'
  BY <1>1, <1>3 DEF IInv, TypeOK
<1>5. ConnectedInv'
  BY <1>1, <1>2 DEF IInv, TypeOK, ConnectedInv, AllConnected
<1>6. \A d \in Calls, k \in Other :
        worker'[d][k] = IF d = c /\ k = n THEN "done" ELSE worker[d][k]
  BY <1>1 DEF IInv, TypeOK
<1>7. WorkerInv'
  <2> SUFFICES ASSUME NEW d \in Calls
               PROVE  /\ at[d] = "select" => svc'[d][0] = "created"
                      /\ at[d] \in {"idle", "lock", "setup", "wait"} =>
                           \A k \in Other : worker'[d][k] = "none"
                      /\ \A k \in Other : worker'[d][k] # "done" => svc'[d][k] = "none"
    BY <1>1 DEF WorkerInv
  <2>1. svc'[d][0] = svc[d][0]
    BY <1>2, <1>3, NodeFacts
  <2>2. d = c => at[d] \notin {"idle", "lock", "setup", "wait"}
    BY <1>1 DEF IInv, WorkerInv
  <2>3. at[d] \in {"idle", "lock", "setup", "wait"} =>
          \A k \in Other : worker'[d][k] = "none"
    BY <1>6, <2>2 DEF IInv, WorkerInv
  <2>4. \A k \in Other : worker'[d][k] # "done" => svc'[d][k] = "none"
    <3> SUFFICES ASSUME NEW k \in Other, worker'[d][k] # "done"
                 PROVE  svc'[d][k] = "none"
      OBVIOUS
    <3>1. ~(d = c /\ k = n) /\ worker[d][k] # "done" /\ k \in Node
      BY <1>6, NodeFacts
    <3> QED
      BY <1>3, <3>1 DEF IInv, WorkerInv
  <2> QED
    BY <2>1, <2>3, <2>4 DEF IInv, WorkerInv
<1>8. ErrorsKept'
  <2> SUFFICES ASSUME NEW d \in Calls PROVE Errors(d)' = Errors(d)
    BY <1>1, ErrorsFrame DEF IInv
  <2>1. \A k \in Other : k \in Errors(d)' <=> k \in Errors(d)
    BY <1>1, <1>3, <1>6, NodeFacts DEF Errors
  <2> QED
    BY <2>1 DEF Errors
<1>9. LockInv'
  BY <1>1 DEF IInv, LockInv, Readers
<1> QED
  BY <1>3, <1>4, <1>5, <1>7, <1>8, <1>9 DEF IInv

(* The call creates the service of node 0.                                  *)
LEMMA CreatePrimaryInv ==
  ASSUME IInv, NEW c \in Calls, CreatePrimary(c)
  PROVE  IInv'
<1>1. /\ at[c] = "create" /\ at' = [at EXCEPT ![c] = "select"]
      /\ Created(c, 0, "created")
      /\ UNCHANGED <<answer, peers, worker, errChan, done, closer, hosts>>
  BY DEF CreatePrimary
<1>2. AllConnected(c) /\ 0 \in Node
  BY <1>1, NodeFacts DEF IInv, ConnectedInv
<1>3. /\ svc' \in [Calls -> [Node -> Life]]
      /\ group' \in [Calls -> [Node -> SUBSET Hosts]]
      /\ GroupInv'
      /\ \A d \in Calls, k \in Node :
           svc'[d][k] = IF d = c /\ k = 0 THEN "created" ELSE svc[d][k]
  BY <1>1, <1>2, CreatedGroup
<1>4. TypeOK'
  BY <1>1, <1>3 DEF IInv, TypeOK
<1>5. ConnectedInv'
  BY <1>1, <1>2 DEF IInv, TypeOK, ConnectedInv, AllConnected
<1>6. WorkerInv'
  <2>1. at'[c] = "select" /\ svc'[c][0] = "created"
    BY <1>1, <1>2, <1>3 DEF IInv, TypeOK
  <2>2. \A d \in Calls : d # c =>
          at'[d] = at[d] /\ \A k \in Node : svc'[d][k] = svc[d][k]
    BY <1>1, <1>3 DEF IInv, TypeOK
  <2>3. \A d \in Calls, k \in Other : svc'[d][k] = svc[d][k]
    BY <1>3, NodeFacts
  <2> QED
    BY <1>1, <1>2, <2>1, <2>2, <2>3 DEF IInv, WorkerInv
<1>7. ErrorsKept'
  <2>1. \A d \in Calls : Errors(d)' = Errors(d)
    BY <1>1, <1>3, NodeFacts, SameErrors
  <2>2. \A d \in Calls : at'[d] # "returned" => at[d] # "returned"
    BY <1>1 DEF IInv, TypeOK
  <2> QED
    BY <1>1, <2>1, <2>2, ErrorsFrame DEF IInv
<1>8. LockInv'
  BY <1>1 DEF IInv, TypeOK, LockInv, Readers
<1> QED
  BY <1>3, <1>4, <1>5, <1>6, <1>7, <1>8 DEF IInv

-----------------------------------------------------------------------------
(* How many goroutines there are beside one.                                *)
LEMMA OthersFinite ==
  \A n \in Other :
    IsFiniteSet(Other \ {n}) /\ Cardinality(Other \ {n}) = NumNodes - 2
<1>1. 1 \in Int /\ NumNodes - 1 \in Int /\ 1 <= NumNodes - 1
  BY NodeFacts
<1>2. IsFiniteSet(Other) /\ Cardinality(Other) = NumNodes - 1
  BY <1>1, FS_Interval, NodeFacts DEF Other
<1> QED
  BY <1>2, FS_RemoveElement, NodeFacts

(* Steps that only touch the channels.                                      *)
LEMMA ChannelInv ==
  ASSUME IInv, NEW c \in Calls,
         WgWait(c) \/ \E n \in Other : CreateOtherFails(c, n)
  PROVE  IInv'
<1>1. CASE WgWait(c)
  <2>1. /\ done' = [done EXCEPT ![c] = TRUE]
        /\ UNCHANGED <<at, answer, peers, worker, svc, group, errChan, closer, hosts>>
    BY <1>1 DEF WgWait
  <2>2. TypeOK'
    BY <2>1 DEF IInv, TypeOK
  <2>3. ConnectedInv' /\ GroupInv' /\ WorkerInv' /\ LockInv'
    BY <2>1 DEF IInv, ConnectedInv, AllConnected, GroupInv, WorkerInv, LockInv, Readers
  <2>4. ErrorsKept'
    BY <2>1, SameErrors, ErrorsFrame DEF IInv
  <2> QED
    BY <2>2, <2>3, <2>4 DEF IInv
<1>2. ASSUME NEW n \in Other, CreateOtherFails(c, n)
      PROVE  IInv'
  <2>1. /\ worker[c][n] = "running"
        /\ worker' = [worker EXCEPT ![c][n] = "done"]
        /\ errChan' = [errChan EXCEPT ![c] =
             IF errChan[c] < NumNodes - 1 THEN errChan[c] + 1 ELSE errChan[c]]
        /\ UNCHANGED <<at, answer, peers, svc, group, done, closer, hosts>>
    BY <1>2 DEF CreateOtherFails
  <2>2. errChan'[c] \in 0 .. (NumNodes - 1) /\
        errChan' = [errChan EXCEPT ![c] = errChan'[c]]
    BY <2>1, NodeFacts DEF IInv, TypeOK
  <2>3. TypeOK'
    BY <2>1, <2>2 DEF IInv, TypeOK
  <2>4. ConnectedInv'
    BY <2>1 DEF IInv, TypeOK, ConnectedInv, AllConnected
  <2>5. GroupInv' /\ LockInv'
    BY <2>1 DEF IInv, GroupInv, LockInv, Readers
  <2>6. /\ \A d \in Calls, k \in Other :
             worker'[d][k] = IF d = c /\ k = n THEN "done" ELSE worker[d][k]
        /\ at[c] \notin {"idle", "lock", "setup", "wait"} /\ svc[c][n] = "none"
    BY <2>1 DEF IInv, TypeOK, WorkerInv
  <2>7. WorkerInv'
    BY <2>1, <2>6 DEF IInv, WorkerInv
  <2>8. ErrorsKept'
    <3> SUFFICES ASSUME NEW d \in Calls, at[d] # "returned"
                 PROVE  errChan'[d] = Cardinality(Errors(d)')
      BY <2>1 DEF ErrorsKept
    <3>1. errChan[d] = Cardinality(Errors(d))
      BY DEF IInv, ErrorsKept
    <3>2. CASE d # c
      <4>1. Errors(d)' = Errors(d)
        BY <2>1, <2>6, <3>2, SameErrors
      <4>2. errChan'[d] = errChan[d]
        BY <2>1, <3>2 DEF IInv, TypeOK
      <4> QED
        BY <3>1, <4>1, <4>2
    <3>3. CASE d = c
      <4>1. n \notin Errors(c) /\ Errors(c)' = Errors(c) \cup {n}
        BY <2>1, <2>6 DEF Errors
      <4>2. Errors(c) \subseteq Other \ {n}
        BY <4>1 DEF Errors
      <4>3. IsFiniteSet(Other \ {n}) /\ Cardinality(Other \ {n}) = NumNodes - 2
        BY OthersFinite
      <4>4. /\ IsFiniteSet(Errors(c))
            /\ Cardinality(Errors(c)) <= NumNodes - 2
            /\ Cardinality(Errors(c)) \in Nat
        BY <4>2, <4>3, FS_Subset, FS_CardinalityType
      <4>5. Cardinality(Errors(c)') = Cardinality(Errors(c)) + 1
        BY <4>1, <4>4, FS_AddElement
      <4>6. errChan'[c] = errChan[c] + 1
        BY <2>1, <3>1, <3>3, <4>4, NodeFacts DEF IInv, TypeOK
      <4> QED
        BY <3>1, <3>3, <4>5, <4>6
    <3> QED
      BY <3>2, <3>3
  <2> QED
    BY <2>3, <2>4, <2>5, <2>7, <2>8 DEF IInv
<1> QED
  BY <1>1, <1>2

(* The call returns.                                                        *)
LEMMA ReturnInv ==
  ASSUME IInv, NEW c \in Calls, CreatePrimaryFails(c) \/ SelectErr(c) \/ Return(c)
  PROVE  IInv'
<1>1. PICK ans \in {"ok", "error"} : Returns(c, ans)
  <2>1. CASE CreatePrimaryFails(c) \/ SelectErr(c)
    BY <2>1 DEF CreatePrimaryFails, SelectErr
  <2>2. CASE Return(c)
    BY <2>2 DEF Return
  <2> QED
    BY <2>1, <2>2
<1>2. /\ \/ errChan' = errChan
         \/ errChan[c] > 0 /\ errChan' = [errChan EXCEPT ![c] = errChan[c] - 1]
      /\ UNCHANGED <<peers, worker, svc, group, done, closer, hosts>>
  BY DEF CreatePrimaryFails, SelectErr, Return
<1>3. errChan' \in [Calls -> 0 .. (NumNodes - 1)]
  <2>1. errChan \in [Calls -> 0 .. (NumNodes - 1)] /\ errChan[c] \in 0 .. (NumNodes - 1)
    BY DEF IInv, TypeOK
  <2>2. errChan[c] > 0 => errChan[c] - 1 \in 0 .. (NumNodes - 1)
    BY <2>1, NodeFacts
  <2> QED
    BY <1>2, <2>1, <2>2
<1>4. TypeOK'
  BY <1>1, <1>2, <1>3 DEF Returns, IInv, TypeOK
<1>5. ConnectedInv'
  BY <1>1, <1>2 DEF Returns, IInv, TypeOK, ConnectedInv, AllConnected
<1>6. GroupInv' /\ WorkerInv'
  BY <1>1, <1>2 DEF Returns, IInv, TypeOK, GroupInv, WorkerInv
<1>7. LockInv'
  BY <1>1, <1>2 DEF Returns, IInv, TypeOK, LockInv, Readers
<1>8. ErrorsKept'
  <2>1. /\ at'[c] = "returned"
        /\ \A d \in Calls : d # c => at'[d] = at[d] /\ errChan'[d] = errChan[d]
    BY <1>1, <1>2 DEF Returns, IInv, TypeOK
  <2> QED
    BY <1>2, <2>1, SameErrors, ErrorsFrame DEF IInv
<1> QED
  BY <1>4, <1>5, <1>6, <1>7, <1>8 DEF IInv

(* A session starts at node 0, or ends or hangs at a node.                  *)
LEMMA SessionInv ==
  ASSUME IInv, NEW c \in Calls,
         SelectDone(c) \/ \E n \in Node : Session(c, n)
  PROVE  IInv'
<1>1. PICK n \in Node, v \in {"running", "done", "failed", "hung"} :
        /\ svc' = [svc EXCEPT ![c][n] = v]
        /\ svc[c][n] \in {"created", "running"}
        /\ UNCHANGED <<answer, peers, worker, group, errChan, done, closer, hosts>>
        /\ \/ at' = at /\ svc[c][n] = "running"
           \/ at[c] = "select" /\ at' = [at EXCEPT ![c] = "process"]
  <2>1. CASE SelectDone(c)
    <3>1. svc[c][0] = "created"
      BY <2>1 DEF SelectDone, IInv, WorkerInv
    <3> QED
      BY <2>1, <3>1, NodeFacts DEF SelectDone
  <2>2. CASE \E n \in Node : SessionDone(c, n)
    BY <2>2 DEF SessionDone
  <2>3. CASE \E n \in Node : SessionFails(c, n)
    BY <2>3 DEF SessionFails
  <2>4. CASE \E n \in Node : SendGivesUp(c, n)
    BY <2>4 DEF SendGivesUp
  <2> QED
    BY <2>1, <2>2, <2>3, <2>4 DEF Session
<1>2. \A d \in Calls, k \in Node :
        svc'[d][k] = IF d = c /\ k = n THEN v ELSE svc[d][k]
  BY <1>1 DEF IInv, TypeOK
<1>3. TypeOK'
  BY <1>1 DEF IInv, TypeOK, Life
<1>4. ConnectedInv'
  BY <1>1 DEF IInv, TypeOK, ConnectedInv, AllConnected
<1>5. GroupInv'
  BY <1>1, <1>2 DEF IInv, GroupInv
<1>6. \A d \in Calls, k \in Other : svc'[d][k] = "none" <=> svc[d][k] = "none"
  BY <1>1, <1>2, NodeFacts
<1>7. WorkerInv'
  <2>1. \A d \in Calls : d # c =>
          at'[d] = at[d] /\ \A k \in Node : svc'[d][k] = svc[d][k]
    BY <1>1, <1>2 DEF IInv, TypeOK
  <2>2. at'[c] = "select" => svc'[c][0] = "created"
    BY <1>1, <1>2, NodeFacts DEF IInv, TypeOK, WorkerInv
  <2>3. at'[c] \in {"idle", "lock", "setup", "wait"} => at'[c] = at[c]
    BY <1>1 DEF IInv, TypeOK
  <2> QED
    BY <1>1, <1>6, <2>1, <2>2, <2>3, NodeFacts DEF IInv, WorkerInv
<1>8. LockInv'
  BY <1>1 DEF IInv, TypeOK, LockInv, Readers
<1>9. ErrorsKept'
  <2>1. \A d \in Calls : at'[d] # "returned" => at[d] # "returned"
    BY <1>1 DEF IInv, TypeOK
  <2> QED
    BY <1>1, <1>6, <2>1, SameErrors, ErrorsFrame DEF IInv
<1> QED
  BY <1>3, <1>4, <1>5, <1>7, <1>8, <1>9 DEF IInv

(* Close.                                                                   *)
LEMMA CloseInv ==
  ASSUME IInv, Close \/ Lock \/ CloseHosts
  PROVE  IInv'
<1>1. TypeOK'
  BY DEF IInv, TypeOK, Close, Lock, CloseHosts
<1>2. ConnectedInv' /\ GroupInv' /\ WorkerInv'
  BY DEF IInv, ConnectedInv, AllConnected, GroupInv, WorkerInv, Close, Lock, CloseHosts
<1>3. LockInv'
  BY DEF IInv, LockInv, Readers, Close, Lock, CloseHosts
<1>4. ErrorsKept'
  BY SameErrors, ErrorsFrame DEF IInv, Close, Lock, CloseHosts
<1> QED
  BY <1>1, <1>2, <1>3, <1>4 DEF IInv

(* The invariant is inductive.                                              *)
LEMMA NextInv == IInv /\ [Next]_vars => IInv'
<1> SUFFICES ASSUME IInv, [Next]_vars PROVE IInv'
  OBVIOUS
<1>1. CASE UNCHANGED vars
  <2>1. ErrorsKept'
    BY <1>1, SameErrors, ErrorsFrame DEF vars, IInv
  <2> QED
    BY <1>1, <2>1 DEF vars, IInv, TypeOK, ConnectedInv, AllConnected, GroupInv,
       WorkerInv, LockInv, Readers
<1>2. CASE Close \/ Lock \/ CloseHosts
  BY <1>2, CloseInv
<1>3. ASSUME NEW c \in Calls,
             Call(c) \/ CreatePm(c) \/ Primary(c) \/ WgWait(c) \/ Select(c) \/ Return(c)
      PROVE  IInv'
  BY <1>3, CreatePmInv, PeersReadyInv, CreatePrimaryInv, ReturnInv, ChannelInv,
     SessionInv DEF CreatePm, Primary, Select
<1>4. ASSUME NEW c \in Calls, NEW n \in Node,
             Session(c, n) \/ \E m \in Hosts : HandlePeerFound(c, n, m)
      PROVE  IInv'
  BY <1>4, SessionInv, FoundInv
<1>5. ASSUME NEW c \in Calls, NEW n \in Other, Worker(c, n)
      PROVE  IInv'
  BY <1>5, CreateOtherInv, ChannelInv DEF Worker
<1> QED
  BY <1>1, <1>2, <1>3, <1>4, <1>5 DEF Next

(* The inductive invariant holds in every reachable state.                  *)
THEOREM Invariance == Spec => []IInv
BY InitInv, NextInv, PTL DEF Spec

-----------------------------------------------------------------------------
(* Every variable keeps its type; errChan never holds more errors than it   *)
(* has room for.                                                            *)
THEOREM TypeCorrect == Spec => []TypeOK
<1>1. IInv => TypeOK
  BY DEF IInv
<1> QED
  BY <1>1, Invariance, PTL

(***************************************************************************)
(* No goroutine loses its error: for any number of nodes, the channel      *)
(* holds the errors of all goroutines that have failed until the call      *)
(* returns, so that the default of their select is never taken.            *)
(***************************************************************************)
THEOREM NoErrorDropped == Spec => []ErrorsKept
<1>1. IInv => ErrorsKept
  BY DEF IInv
<1> QED
  BY <1>1, Invariance, PTL

(***************************************************************************)
(* Without hosts of other processes on the network, the service of every   *)
(* node is created with exactly the other nodes as its peers, although     *)
(* waitForPeers only counts them.                                          *)
(***************************************************************************)
THEOREM ThresholdIsFull ==
  ASSUME Foreign = {}
  PROVE  Spec => []FullThreshold
<1>1. IInv => FullThreshold
  <2> SUFFICES ASSUME IInv, NEW c \in Calls, NEW n \in Node, svc[c][n] # "none"
               PROVE  group[c][n] = Node \ {n}
    BY DEF FullThreshold
  <2>1. group[c][n] \subseteq Node \ {n}
    BY DEF IInv, TypeOK, GroupInv, Hosts
  <2>2. IsFiniteSet(Node) /\ Cardinality(Node) = NumNodes
    BY FS_Interval, NodeFacts DEF Node
  <2>3. IsFiniteSet(Node \ {n}) /\ Cardinality(Node \ {n}) = NumNodes - 1
    BY <2>2, FS_RemoveElement
  <2>4. /\ Cardinality(group[c][n]) <= Cardinality(Node \ {n})
        /\ Cardinality(group[c][n]) = Cardinality(Node \ {n}) =>
             group[c][n] = Node \ {n}
        /\ IsFiniteSet(group[c][n])
    BY <2>1, <2>3, FS_Subset
  <2>5. Cardinality(group[c][n]) \in Nat
    BY <2>4, FS_CardinalityType
  <2>6. Cardinality(group[c][n]) >= NumNodes - 1
    BY DEF IInv, GroupInv
  <2> QED
    BY <2>3, <2>4, <2>5, <2>6, NodeFacts
<1> QED
  BY <1>1, Invariance, PTL

(***************************************************************************)
(* Close does not close a host under a CreatePm that works on it: the      *)
(* writer has the lock only when no reader has it.                         *)
(***************************************************************************)
THEOREM HostsOpen == Spec => HostsStayOpen
<1>1. IInv /\ [Next]_vars => [hosts' # hosts => Readers = {}]_vars
  <2> SUFFICES ASSUME IInv, Next, hosts' # hosts
               PROVE  Readers = {}
    OBVIOUS
  <2>1. CloseHosts
    BY DEF Next, Call, CreatePm, RLock, SetupDiscovery, SetupFails, PeersReady,
           PeersTimeout, Primary, CreatePrimary, CreatePrimaryFails, WgWait, Select,
           SelectDone, SelectErr, Return, Session, SessionDone, SessionFails,
           SendGivesUp, HandlePeerFound, Worker, CreateOther, CreateOtherFails, Close, Lock
  <2> QED
    BY <2>1 DEF CloseHosts, IInv, LockInv
<1> QED
  BY <1>1, Invariance, PTL DEF Spec, HostsStayOpen
=============================================================================

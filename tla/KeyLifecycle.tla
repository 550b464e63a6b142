---------------------------- MODULE KeyLifecycle ----------------------------
(***************************************************************************)
(* What a cluster of alice-tss nodes promises about its keys, whatever     *)
(* sessions, calls and messages do: under one hash there is one key, a     *)
(* node gets a share of it once, the share is only ever refreshed, and a   *)
(* stored signature was made with a key that its node has a share of.      *)
(* Module TssRefinement shows that TssSession implements this.             *)
(***************************************************************************)
CONSTANTS
  None,         \* an absent value
  Nodes,        \* the nodes of the cluster
  Hashes,       \* hashes that name DKGs and messages
  InitKeys,     \* DKGs whose result is there initially
  Keys          \* public keys

VARIABLES
  key,          \* key[h]: the public key of the DKG h
  holders,      \* holders[h]: the nodes that have a share of that key
  share,        \* share[n][h]: the refreshes of n's share of that key
  sig           \* sig[n][h]: the key of the signature that n has for message h

vars == <<key, holders, share, sig>>

Init ==
  /\ key \in [Hashes -> Keys \cup {None}]
  /\ holders = [h \in Hashes |-> IF h \in InitKeys THEN Nodes ELSE {}]
  /\ share = [n \in Nodes |-> [h \in Hashes |-> {}]]
  /\ sig = [n \in Nodes |-> [h \in Hashes |-> None]]

(* A node stores the result of a DKG: the first one fixes the key.          *)
Generate(n, h) ==
  /\ n \notin holders[h]
  /\ holders' = [holders EXCEPT ![h] = @ \cup {n}]
  /\ key' = [key EXCEPT ![h] = key'[h]]
  /\ key'[h] \in Keys
  /\ holders[h] # {} => key'[h] = key[h]
  /\ UNCHANGED <<share, sig>>

(* A node replaces its share by a refreshed one.                            *)
Refresh(n, h) ==
  /\ n \in holders[h]
  /\ share' = [share EXCEPT ![n][h] = share'[n][h]]
  /\ share'[n][h] \notin {{}, share[n][h]}
  /\ UNCHANGED <<key, holders, sig>>

(* A node stores a signature of message h.                                  *)
Sign(n, h) ==
  /\ \E k \in Hashes : n \in holders[k] /\ sig' = [sig EXCEPT ![n][h] = key[k]]
  /\ UNCHANGED <<key, holders, share>>

Next == \E n \in Nodes, h \in Hashes : Generate(n, h) \/ Refresh(n, h) \/ Sign(n, h)

Spec == Init /\ [][Next]_vars
=============================================================================

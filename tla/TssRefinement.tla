--------------------------- MODULE TssRefinement ---------------------------
(***************************************************************************)
(* TssSession implements KeyLifecycle: the key of a DKG is what the stores *)
(* of its nodes agree on, a share is what GetSignerConfig decrypts, and a  *)
(* signature counts when it was made over the message it is stored under.  *)
(* The mapping is a function of the stores d of all nodes.                 *)
(***************************************************************************)
EXTENDS TssSession

Holders(d, h) == {n \in Nodes : d[n][h].type = "dkg"}

KeyIn(d, h) == IF Holders(d, h) = {} THEN None
               ELSE d[CHOOSE n \in Holders(d, h) : TRUE][h].pub

ShareIn(d, n, h) == IF n \in Holders(d, h)
                    THEN GetSignerConfig(d[n], h, d[n][h].pub).gen ELSE {}

SigIn(d, n, h) == IF d[n][h].type = "sig" /\ d[n][h].sig.over = Hex2Bytes(h)
                  THEN d[n][h].sig.key ELSE None

KeyBar     == [h \in Hashes |-> KeyIn(db, h)]
HoldersBar == [h \in Hashes |-> Holders(db, h)]
ShareBar   == [n \in Nodes |-> [h \in Hashes |-> ShareIn(db, n, h)]]
SigBar     == [n \in Nodes |-> [h \in Hashes |-> SigIn(db, n, h)]]

KL == INSTANCE KeyLifecycle
        WITH Keys <- PubKeys, key <- KeyBar, holders <- HoldersBar,
             share <- ShareBar, sig <- SigBar

(***************************************************************************)
(* ImplementsLifecycle: every step of the cluster leaves keys, shares and  *)
(* signatures alone or changes them as KeyLifecycle allows: however often  *)
(* a call of RegisterDKG is executed, OnStateChanged stores one result per *)
(* node, under one key; a reshare refreshes a share that is there; and a   *)
(* signature is made with a key that its node still has.                   *)
(***************************************************************************)
ImplementsLifecycle == KL!Spec
=============================================================================

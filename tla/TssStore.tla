------------------------------ MODULE TssStore ------------------------------
(***************************************************************************)
(* The key-value store of one node (store/badger_handler.go on top of      *)
(* store/badger_fsm.go), as operators on the map d from hashes to records. *)
(* One map holds both kinds of record: a DKG result under the hash of the  *)
(* DKG and a signature under the hash of the signed message.               *)
(*                                                                         *)
(* A public key is an opaque value.  The secret share of a node is         *)
(* identified by the set of refreshes that were applied to it: two nodes   *)
(* hold shares of one polynomial iff these sets are equal.  A signature is *)
(* the pair of the key that made it and the bytes it was made over; of a   *)
(* message only its hash is modelled.                                      *)
(***************************************************************************)
CONSTANT None          \* an absent or zero value

NoRecord == [type |-> "none", pub |-> None, share |-> None, sig |-> None]

(***************************************************************************)
(* utils/encrypto.go: AES-CFB under the private key of the node with the   *)
(* public key as IV.  Decrypting with another IV yields something else.    *)
(***************************************************************************)
Encrypt(plain, salt) == [salt |-> salt, plain |-> plain]

Decrypt(cipher, salt) == IF cipher.salt = salt THEN cipher.plain ELSE None

-----------------------------------------------------------------------------
(* FSM.Get fails on a missing key; FSM.Set overwrites whatever is there.   *)
Found(d, h) == d[h].type # "none"

Set(d, h, rec) == [d EXCEPT ![h] = rec]

SaveDKGResultData(d, h, pub, share) ==
  Set(d, h, [type |-> "dkg", pub |-> pub, share |-> Encrypt(share, pub),
             sig  |-> None])

SaveSignerResultData(d, h, signature) ==
  Set(d, h, [type |-> "sig", pub |-> None, share |-> None, sig |-> signature])

(***************************************************************************)
(* GetDKGResultData decodes the stored JSON into a DKGResult whatever the  *)
(* record is: a signature shares no field with DKGResult, so that it comes *)
(* back as the zero DKGResult and without an error.                        *)
(***************************************************************************)
GetDKGResultData(d, h) ==
  IF d[h].type = "dkg" THEN [pub |-> d[h].pub, share |-> d[h].share]
                       ELSE [pub |-> None, share |-> None]

(* The record exists and its public key is the one of the request.         *)
HasSignerConfig(d, h, pub) ==
  Found(d, h) /\ pub # None /\ GetDKGResultData(d, h).pub = pub

GetSignerConfig(d, h, pub) ==
  [pub |-> pub, gen |-> Decrypt(GetDKGResultData(d, h).share, pub)]

(* Mutant: the share is encrypted before the old record has been read.     *)
UpdateWithoutSalt(d, h, share) ==
  IF Found(d, h)
  THEN Set(d, h, [d[h] EXCEPT !.share = Encrypt(share, None)])
  ELSE d

(***************************************************************************)
(* UpdateDKGResultData reads the old record, replaces only its share, and  *)
(* writes it back; it returns the read error when there is no record.  The *)
(* new share does not depend on the old record, so that the read and the   *)
(* write of two updates interleave like two whole updates.                 *)
(***************************************************************************)
UpdateDKGResultData(d, h, share) ==
  IF Found(d, h)
  THEN LET old == GetDKGResultData(d, h)
       IN  Set(d, h, [type  |-> "dkg", pub |-> old.pub,
                      share |-> Encrypt(share, old.pub), sig |-> None])
  ELSE d

-----------------------------------------------------------------------------
(* A message is given as hexadecimal text.  createSigner signs the bytes    *)
(* that the text stands for, CheckSignatureECDSA verifies those of the text.*)
Hex2Bytes(h) == <<"decoded", h>>
TextBytes(h) == <<"text", h>>

NewSignature(pub, h) == [key |-> pub, over |-> Hex2Bytes(h)]

CheckSignatureECDSA(h, signature, pub) ==
  /\ signature # None
  /\ signature.key = pub
  /\ signature.over = TextBytes(h)

(***************************************************************************)
(* RpcService.CheckSignature reads the signature with GetDKGResultData and *)
(* converts the DKGResult it gets to an RVSignature, with which it has no  *)
(* field in common: R and S are zero.                                      *)
(***************************************************************************)
RVSignature(result) == IF "r" \in DOMAIN result THEN result.r ELSE None

CheckSignature(d, h, pub) ==
  /\ Found(d, h)
  /\ CheckSignatureECDSA(h, RVSignature(GetDKGResultData(d, h)), pub)
=============================================================================

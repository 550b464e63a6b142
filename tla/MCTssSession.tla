---------------------------- MODULE MCTssSession ----------------------------
(***************************************************************************)
(* Small instances of TssSession: the requests of each run.  The first     *)
(* node, a, gets the requests unless a run is about two nodes that do.     *)
(***************************************************************************)
EXTENDS TssRefinement

CONSTANTS a, b, c

Dkg(n)        == [kind |-> "dkg", node |-> n, hash |-> "k", key |-> "k", id |-> 1]
Sign(n, x)    == [kind |-> "sign", node |-> n, hash |-> "m", key |-> "k", id |-> x]
Resh(n, x)    == [kind |-> "reshare", node |-> n, hash |-> "k", key |-> "k", id |-> x]

AllHashes == {"k", "m"}

OneDkg       == {Dkg(a)}
OneSign      == {Sign(a, 1)}
OneReshare   == {Resh(a, 1)}
TwoReshares  == {Resh(a, 1), Resh(b, 2)}
SignReshare  == {Sign(a, 1), Resh(a, 1)}
DkgReshare   == {Dkg(a), Resh(a, 1)}
DkgSign      == {Dkg(a), Sign(b, 1)}
=============================================================================

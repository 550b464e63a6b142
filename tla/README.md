# A TLA+ verification of alice-tss

alice-tss runs threshold ECDSA among a small cluster of nodes. A client asks one
node, over JSON-RPC or gRPC, to make a key (DKG), to sign a message with a key,
or to refresh the shares of a key (reshare). That node creates its own session
object, calls every other node, and the sessions then run the rounds of the
protocol library `github.com/getamis/alice` over libp2p streams. Each node
encrypts its result and keeps it in a local badger store. A second mode, the
self-service cluster, runs three nodes inside one process.

The hard part of the program is not the cryptography, which the library does. It
is the order in which requests, retried calls, stream handlers, messages,
results and writes meet. That is what the modules here model. They say nothing
about secrecy.

## 1. The parts of the system

| Part (source) | State it keeps | Operations | Talks to |
|---|---|---|---|
| Client requests (`server/rpc_server.go`, `grpc_server.go`, `tss.go`) | the goroutine that serves the client | `RegisterDKG`, `SignMessage`, `Reshare`, `CheckSignature`, `GetDKG`; answer or 5 s timeout | creates a session, calls peers, waits on the session |
| Peer calls (`server/rpc_peer.go`, `server/utils.go`) | the peer being called | `RpcToPeer`, `SendToPeer` (repeats until it gets a reply), `MsgToPeer`, `TssPeerService.*` | gorpc over libp2p; the peer creates its own session |
| Sessions (`service/dkg.go`, `signer.go`, `reshare.go`) | the library object, `done` channel, hash | `New*Service`, `Process`, `Handle`, `OnStateChanged`, `closeDone` | stream handlers of the host, store, library callbacks |
| Streams (`peer/node.go`, `peer/pm.go`) | open streams, waiting `Handle`s | `MustSend`, `send` (ten attempts), `SetStreamHandler`, `RemoveStreamHandler` | the stream handler registered at the receiver at that moment |
| Discovery (`peer/discovery.go`, `peer/pm.go`, `main.go`) | map of peers, without a lock | `SetupDiscovery`, `HandlePeerFound`, `AddPeerID`, `NumPeers`, `PeerIDs` | mDNS; every request and session reads the map |
| Store (`store/badger_handler.go`, `badger_fsm.go`, `utils/encrypto.go`, `utils/ecdsa.go`) | one map from hash to record | `Save*`, `Update*`, `Get*` | sessions, requests |
| Self-service cluster (`server/self_service.go`) | three hosts, a read-write lock | `RegisterDKG`, `SignMessage`, `CreatePm`, `Close` | peer managers, sessions |
| Mock store, start-up, configuration, conversions, generated code | none of interest | | |

The behaviours that are hard to test:

* A stream reaches whichever session is registered for its protocol **at the
  moment it is opened**. Sessions with the same hash (two requests to sign one
  message, a reshare and the DKG of its key, two executions of a repeated call)
  take one another's messages, and `closeDone` removes the handler of whichever
  session holds it.
* `send` opens ten streams, leaves nine of them open and uses whatever the last
  attempt has returned; services come and go at the receiver meanwhile.
* The threshold of a DKG, its group and the list of peers to call are read at
  different moments from a map that discovery keeps extending.
* `SendToPeer` repeats a call whose reply was lost, so that a peer can run two
  sessions for one request.
* `OnStateChanged` wakes the waiting request before it writes to the store.
* No session has a timeout; one lost message leaves it waiting.
* `SendToPeer` sleeps three seconds after a failed call, while the peers that were
  called before send already and give up after ten attempts half a second apart. Two
  failed calls in a row are longer than that.
* Sessions read their share when they are created and write the new one at the
  end, and other sessions of the key may run in between.
* The self-service callback selects between two channels that can both be ready,
  and `CreatePm` waits for peers while it holds a read lock that `Close` needs.

What makes each part correct: nodes agree on the key of a hash and keep it; a
result is answered only if the whole cluster took part, on one key and one
generation of shares; a message is delivered once or lost; a DKG waits only for
peers that were called; what was stored can be read back and used; the shares of
the nodes keep belonging together; sessions and calls come to an end.

`PROJECT.json` lists the hazards line by line with the properties aimed at them.

## 2. The modules

### TssStore: the store of one node

Pure operators on the map of one node: `SaveDKGResultData`,
`SaveSignerResultData`, `UpdateDKGResultData`, `GetDKGResultData`,
`GetSignerConfig` (split into the check `HasSignerConfig` and the result) and
`CheckSignature`. The abstractions:

* A public key is an opaque value. A share is named by the set of refreshes
  applied to it: two nodes hold shares of the same polynomial iff the sets are
  equal.
* `Encrypt` keeps the IV (the public key of the record), and `Decrypt` with
  another IV does not give the plain text back.
* `GetDKGResultData` decodes whatever is stored as a DKG result, so that a stored
  signature comes back as the zero result without an error, as `json.Unmarshal`
  does.
* `Hex2Bytes` and `TextBytes` keep the decoded bytes of a message apart from the
  bytes of its text.

### TssSession: requests, calls, sessions, streams and stores of the cluster

A session object is named `<<node, request, k>>`, where k counts the executions
of the request at that node.

| Variables | Code |
|---|---|
| `client`, `caller`, `todo`, `target` | what the client has seen; the goroutine of the request; the loop of `RpcToPeer`; the peer `SendToPeer` is stuck on |
| `pc`, `outcome`, `base` | life cycle of the service object, final state of the library, key and share it was created with |
| `round`, `seen`, `view`, `inbox`, `out` | the library object (external): rounds, handled messages, the sessions it heard in the first round, its message queue, and the broadcast in progress |
| `handler`, `streams` | stream handlers per protocol, written but unread streams |
| `failed` | failed calls of a request, each with its sleep of 3 s, since its first peer was called |
| `db` | the badger stores |
| `faults` | counter for `MaxFaults` |

| Actions | Code |
|---|---|
| `RegisterDKG`, `SignMessage`, `Reshare` (`Accept` or `Refuse`) | the handlers up to the calls: read the store, create the service, register its handler |
| `CallPeer`, `CallPeerNoReply`, `CallPeerFails`, `AllCalled` | `RpcToPeer`, `SendToPeer`, `MsgToPeer`, `TssPeerService` |
| `Return`, `ClientTimeout` | the end of `Process` and `GetResult`; `http.TimeoutHandler` |
| `Process`, `Send`, `SendFails`, `Handle` | `Process`, `MustSend`/`send`, `Handle` |
| `HandleMessage`, `NextRound`, `Done`, `Failed` | the loop of the library and its callback |
| `RemoveStreamHandler`, `Save` | `closeDone` and the rest of `OnStateChanged` |
| `Crash` | the process stops and restarts with its store |

Steps that the code executes apart and that are one action here: a service reads
the store, is created and registers its handler in one step, because nothing of it
can be seen by others before it is registered, and a record read a moment later
is another allowed interleaving of the writer; `GetResult`, the state change and
`close(p.done)` are one step of the library's goroutine. Waking the request,
removing the handler and writing the store are separate steps, because that is
where the interleavings are.

Time is modelled as far as two waits of the code race each other. A service whose peer
has not been called yet makes its last attempt to reach it 9 x 500 ms after the first
(`timeRetryCreateStream`, `delayRetryCreateStream`); every failed call sleeps 3000 ms
(`delayCallAgain`). So a send gets over `Patience` = 1 failed call, and once a request
has had more (`Outlasted`) any send of it to a peer without a service may give up
(`GivesUp`, `SendFails`): its message is lost and the session hangs. Failed calls count
from the moment a peer is `Underway`, for before it nobody sends. The counter belongs to
the request and not to the single send, so that a send may give up a little earlier in
the model than in the code, never later. A call that fails is taken to fail at once
(the hosts listen on 127.0.0.1); calls or starts of sessions that are slow by themselves
are the fault `late`, with which a send may give up at any time.

The library is external, and the model relies on this about it: a round needs
one message of every peer; a second message of one peer in one round, or one that
does not belong to the sessions heard in the first round, makes the session fail;
in the last round a session ends well only if all sessions have heard each other
and use the same key and share generation (`Fits`). The rounds before the last
stand for commitments, the last for the check of the joint result. Messages are
handled after the broadcast of the round is over; the library can handle them
during it, which is the same as handling them a little later.

It is also assumed that discovery has completed (every node knows every other;
`LateRequestsWhole` of Discovery says that this is enough), that the random
hashes of DKGs do not repeat and that the hash of a message is not the hash of a
DKG (`RequestsAssumption`).

### KeyLifecycle and TssRefinement: what the cluster promises

KeyLifecycle is an abstract specification of the keys of a cluster with three
actions. `Generate`: a node gets a share of the key of a hash, once, and the first
node fixes the key. `Refresh`: a share that is there is replaced by a refreshed
one. `Sign`: a node stores a signature made with a key that it holds. TssRefinement
maps the stores of TssSession to it (`KeyBar`, `HoldersBar`, `ShareBar`, `SigBar`);
`ImplementsLifecycle` is its specification under that mapping. Everything else that
the cluster does, calls, rounds, messages, crashes, is a stuttering step.

### Discovery: start-up, the map of peers and the group of a DKG

| Variables | Code |
|---|---|
| `up` | how far `main` of a node has got: discovery runs before the gorpc server is registered |
| `peers` | the keys of the map of peers that all clones of the peer manager share |
| `call`, `ids`, `target` | the goroutine of `RegisterDKG`, the slice of `PeerIDs`, the peer `SendToPeer` is calling |
| `svc` | configuration (threshold) and service (group) of each node for the request |

The threshold (`Configured`), the group (`Created`, where the library reads the
map) and the list of peers to call (`MakeIDs`, `RangeIDs`) are read in separate
steps, and `HandlePeerFound` may come between any two. A write of the map that
meets a read is a data race: `ConcurrentMapWrite` is the outcome in which the Go
runtime stops the process, and in `RangeIDs` the slice of `PeerIDs` may be too
short. Hosts of a self-hosted process (`SelfHosts`) announce the same service tag
and are found too, but serve no calls.

### MessageDelivery and StreamSend: one stream protocol between two peers

StreamSend has the attempts of `send` as single steps (`NewStream`,
`NewStreamFails`), then `Write`, `Close` or `GiveUp`, and at the receiver the
`Handle` of every stream that was opened, for several messages at once, while
services are registered and removed and the connection breaks. MessageDelivery is
what this amounts to: a message goes to the service registered at one moment and
is read at most once, or it is lost. These are `Send`, `SendFails` and `Handle` of
TssSession for one pair of nodes, which is why TssSession may have them as single
steps; `ImplementsDelivery` states it.

### SelfService: the self-service cluster

Calls, each with its goroutine (`at`), the peer managers of its nodes (`peers`),
the goroutines of nodes 1 and 2 (`worker`), the sessions (`svc`) with the peers
they were created with (`group`), `errChan` and `done`; the goroutine of `Close`
(`closer`) and the hosts. `RegisterDKG` and `SignMessage` have the same control flow
and are one operation. Of a session only the end is modelled, since TssSession
models the rest. It ends well only if all nodes take part and no send has given up:
with the fault `late` the goroutine of a node takes more than the ten attempts of
`send` to create its service, and a session that has been started sends in vain
and hangs (`SendGivesUp`). The lock is Go's `RWMutex`: a waiting writer keeps new readers
out. `ctx` is `context.Background()` in every caller, so that its `Done` channel is
never ready. `Foreign` are hosts of other processes with the same service tag;
discovery finds them like any other.

### Proof modules

`TssSessionProofs`, `TssRefinementProofs`, `TssOutcomeProofs` and `TssProgressProofs`,
each of which extends the one before it, and `StreamSendProofs`, `DiscoveryProofs` and
`SelfServiceProofs` hold the theorems and their proofs (section 5).

### MC modules

`MCTssSession` has the request sets of its runs; `MCSelfService`, `MCDiscovery` and
`MCStreamSend` name the constants of theirs.

## 3. The runs

Passing runs:

| Run | Instance | Checks |
|---|---|---|
| `dkg_faults` | 2 nodes, a DKG, eight of the nine kinds of fault (all but a library that fails in a round by itself), 2 executions per call, 2 crashes or lost replies | `TypeOK`, `KeyAgreement`, `AnswerIsJoint`, `KeyBacked`, `ImplementsLifecycle` |
| `dkg_sign_live` | 3 nodes, a DKG at one node and a signature asked for at another as soon as it has the key; calls fail, any number of times, as long as the called peer has not stored the key; fairness | `NobodyStuck`, `SessionCompletes` |
| `reshare_live` | 3 nodes, calls that fail and services that are refused, any number of times, a reshare of a key that was there at start-up; fairness | `NobodyStuck`, `ReshareRotates`, `SharesFitKey` |
| `sign_reshare` | 2 nodes, a signature and a reshare of its key at once, crashes, services that are refused, a library that fails in any round, store errors | `SharesReadable`, `AnswerIsJoint`, `KeyNeverReplaced`, `ImplementsLifecycle` |
| `self_live` | 3 nodes, 2 calls, Close, all faults, fairness | `TypeOK`, `ErrorsKept`, `FullThreshold`, `CallsEnd`, `CloseEnds`, `WaitersEnd`, `HostsStayOpen` |
| `discovery` | 3 nodes that start up, one self-hosted process, a DKG asked for at any time, fairness | `TypeOK`, `CallsCoverGroup`, `ThresholdMet`, `LateRequestsWhole`, `CallsGoThrough` |
| `stream_send` | 2 messages, 2 services that come and go, 3 attempts, one broken connection, fairness | `TypeOK`, `OneReader`, `ReachesRegistered`, `ImplementsDelivery` |

What they show: however a call is repeated, whatever is lost and whoever crashes,
no two nodes store different keys under one hash, no stored key is replaced or
becomes unreadable, and a client that gets a result gets it from a session that
every node ran on the same key and shares. A key that one node has stored comes
from a session in which no node fails at the end, unless the library fails there by
itself (`KeyBacked`). When streams do not break, a DKG and the signature that follows
complete at all nodes, and a reshare rotates every share, although peers are called one
after the other and send to peers that have not been called, provided the calls were
made in time (`InTime`: at most `Patience` of them failed while a called peer was
sending, in this request and in the DKG of its key). The condition is tight: in the same
runs calls do fail more often and sends do give up, and without it TLC finds the
session that hangs after the second failed call. `NobodyStuck`
is the half of that which needs no fairness: whenever no goroutine has anything left
to do (`Rest`), every client whose session was created and whose calls were in time is
answered, not with an error, and every node has stored the result. `Rest` is written from the guards of the
goroutines' actions; TLC has confirmed on the instances of the two live runs that it
is the negation of their `ENABLED`. A DKG calls every peer that its
library will wait for, whenever it was asked for; once all nodes know each other
it leaves nobody out. The streams that `send` leaves open deliver nothing, and a
message reaches a service that is there before the last attempt. In the
self-service cluster Close is not starved, no error of a node's goroutine is dropped
before the call returns (`ErrorsKept`), and a call that never returns has a session
that failed, that has a stranger in it, or that misses a node or a message (`Broken`).

Runs that end in a violation, each against a sentence of the repository:

| Run | Property | What happens |
|---|---|---|
| `reshare_after_dkg` | `ReshareRotates` | `Dkg.OnStateChanged` never removes its handler; it takes a message of the later reshare of the same hash at a peer that has not been called yet, and that peer's reshare never ends |
| `reshare_twice` | `SharesFitKey` | two overlapping reshares are stored in opposite orders at two nodes, whose shares then belong to different polynomials |
| `check_signature` | `SignatureChecks` | the stored signature is decoded as a DKG result, which drops r and s, and is verified over the bytes of the text |
| `self_return` | `CallsReturn` | `done` and `errChan` are both ready, the select takes `done`, and node 0 waits for a node that never joins |
| `self_foreign` | `FullThreshold` | `waitForPeers` counts peers without looking who they are, so that a host of another process stands in for a node that was not found |

Deadlock checking is off in every run: a finished cluster rests, and so does one
whose message was lost.

One more thing the code does is noted under the hazards and is not a violation of
anything the repository states: `close(p.done)` wakes `RegisterDKG` before
`SaveDKGResultData`, so that a client can have a hash whose record is not there yet.

### Bounds, and why they are enough

* `Nodes`: 3 where the order of the calls matters (a called peer can send to one
  that has not been called), 2 where the question is about two sessions at one
  node. A repeated call among 3 nodes has too many states for a run; the theorems
  cover it.
* `Rounds = 2`: the first round fixes the view, the last confirms it; more
  rounds only repeat the middle, and the proofs hold for any number.
* `MaxCalls`: 2 executions are the least with two sessions of one request at a
  peer. It also bounds the retries; `failed` is counted to
  `Patience + 1` and no further, since it is only compared with `Patience`.
* `MaxFaults`: crashes and lost replies together, 1 or 2. The other faults need no
  bound.
* `NumNodes = 3`, as in the code, and 2 calls, the least that compete for the lock;
  one call is enough for the two violations.
* `discovery`: 3 nodes are the least where two peers of the asked node can be known
  or unknown independently, one self-hosted process is one peer that never serves
  calls; `MinThreshold = 1` makes a node without peers refuse. One request, since
  requests share only the map.
* `stream_send`: `Attempts` is 10 in the code; 3 has a first, a middle and a last
  one. Two messages and two services are the least that can cross; one break
  (`MaxBreaks`) can hit any of the steps, and after it the network works, which is
  what `ReachesRegistered` speaks about.

### Fairness

`TssSession!Fairness` is weak fairness of every goroutine: the request
(`Caller`), `Process`, each session's sends, receives, library loop and the end
of `OnStateChanged`. Go schedules runnable goroutines, a stream write or an
attempt to open one ends, and `SendToPeer` repeats a call until it is confirmed.
Nothing obliges a client to ask, a fault to happen, or a timeout to fire.
A send to a peer without a service waits until the peer is called; it need not give up
once the calls have outlasted it, but it may. The fault `late`, a call or a start of a
session that takes seconds without failing, is not in the live runs: no bound of the
code speaks about it.

`SelfService!Fairness` is weak fairness of every goroutine and of the writer at
the lock, of `CreatePm`, whose 30-second timeout always fires, and of a session in
which all nodes take part and none of whose sends has given up; discovery need not find
anybody, no session need fail and no send need give up.

`Discovery!Fairness` is weak fairness of `main` of every node, of mDNS between the
nodes of the cluster, which announces a node until it is known, and of the
goroutine of a request. A self-hosted process need not be found and no process
need stop.

`StreamSend!Fairness` is weak fairness of the sending goroutine of every message
and of the `Handle` of a stream that has ended. No service need be registered, no
message need be sent and no connection need break.

## 4. Mutants

For every property of a passing run there is a mutated form of a definition
with which TLC finds the property violated: a result stored although the session
failed, a share encrypted without the key of its record, a client answered
without waiting, an ignored error of `GetResult`, a `send` that does not try
again, a `send` that keeps an old stream or closes those it does not use, a peer
that is skipped when it cannot be called, a threshold that counts the node itself, a
missing `wg.Done`, an error channel with one place less, a `Close` under the read lock, and so on. They are
defined next to what they mutate and used by no specification.

## 5. What is proved

`TssSessionProofs` proves, for all nodes, hashes, requests, rounds, retries and
every combination of faults that satisfy `ConstantsAssumption`,
`RequestsAssumption` and `NoneAssumption`:

| Theorem | Statement |
|---|---|
| `TypeCorrect` | `Spec => []TypeOK` |
| `KeysAgree` | `Spec => []KeyAgreement` |
| `KeysStay` | `Spec => KeyNeverReplaced` |
| `SharesCanBeRead` | `Spec => []SharesReadable` |
| `AnswersAreJoint` | `Spec => []AnswerIsJoint` |

All of them follow from `Invariance`, `Spec => []IInv`. None of the properties is
inductive: that two nodes store equal keys depends on what their sessions heard
long before. The argument behind `IInv`:

1. The node of a request creates one session for it, `Own(r)`, since only peers
   are called (`CallsInv`, `OwnInv`). Peers may have many.
2. Streams and inboxes hold only messages of the session's own protocol, from
   senders that have reached the round of the message (`HandlerInv`, `StreamInv`,
   `InboxInv`).
3. A session's view is fixed after the first round, and whoever was heard in the
   last round had the same view and base (`ConfirmInv`); a session that is done
   has heard everybody then (`DoneInv`).
4. So every DKG session that is done has the view of the one session at the
   request's node, and every stored key is a function of that view (`KeyInv`).
   Two nodes with the key thus agree, and a second execution at a peer can only
   store the same key again.
5. A share is encrypted with the public key of its record (`SaltInv`), and the
   record of a reshare stays a DKG record (`ReshareInv`, for hashes of messages and
   DKGs differ), so that `UpdateDKGResultData` encrypts with the right key.
6. A request that waits is answered with a result only if its session is done
   (`AnswerInv`); with 3 this gives `AnswerIsJoint`.

The invariant was checked with TLC on the instances of `dkg_faults`,
`sign_reshare` and `reshare_twice` before it was proved.

### The refinement

`TssRefinementProofs!Refinement` is `Spec => ImplementsLifecycle`, under the same
assumptions. It needs more than `IInv`, the invariant `RInv`:

1. A service sends to other nodes only, so that no stream and no inbox holds a
   message of the node itself, and its own entry in its view is itself (`OutInv`,
   `AwayInv`, `ViewInv`). All DKG sessions that are done share one view, and so
   there is one per node: a node stores the result of a DKG once (`SavedOnce`), from
   a session that has ended (`StoredInv`). This is why a repeated call is no second
   `Generate`.
2. The key that a signer has read is still that of its node (`BaseKeyInv`), and
   signatures are stored only under hashes of messages (`SignedInv`), so that a
   `Sign` disturbs no key and uses one that is there.
3. `SaveGenerates`, `SaveSigns` and `SaveRefreshes` map the three kinds of `Save`;
   every other action leaves the stores alone.

### One result for one session

`TssOutcomeProofs` proves, from the same assumptions:

| Theorem | Statement |
|---|---|
| `KeysAreBacked` | if the fault `library` does not happen (`Sound`), `Spec => []KeyBacked` |
| `SharesFit` | if the faults `library`, `store` and `crash` do not happen (`Lasting`) and each key has one reshare request (`OneReshareEach`), `Spec => []SharesFitKey` |

A peer may run several services for one request, all of which receive messages, so
that a node could finish with a mixture of sessions while another one fails. `MInv` and `FailInv` exclude it:

1. The one service `Own(r)` at the node of a request sends its first message once,
   and it reaches one service of each node, whether it is in a stream, in a queue or
   handled (`FirstInv`). A service past the first round has heard somebody of every node
   (`HeardInv`), hence `Own(r)`: past the first round there is one service per node
   (`OnlyOne`).
2. The last message of a service is in one place as well, and is handled once
   (`LastInv`), and one of a DKG never reaches a reshare although both have one hash
   (`ForeignInv`). So nobody gets a second message of the same peer in the last round.
3. Whoever fails in the last round has met a service of its own request with another
   view or another share (`FailInv`). A service that is done has the view and the
   share of everybody in its view. Both cannot be (`DoneBacked`), which gives
   `KeyBacked`.
4. A share on disk is the one of the DKG or that of the one reshare of its key
   (`PlainInv`), and a reshare that is done and has ended has stored it
   (`RefreshInv`). With 3, when no session is left either all nodes have stored the
   reshare or none has. `Quiet`, the hypothesis of `SharesFitKey`, leaves out
   clusters with a session that hangs on a lost message.

The assumptions are needed. A library that fails at one node in the last round, a
store error or a crash does leave the other nodes with a key or a share that this
node lacks, and `reshare_twice` shows what two reshares of a key do.

### Nobody waits in vain

`TssProgressProofs!NeverStuck` is `Spec => []NobodyStuck` for every set of nodes, any
number of rounds and of requests, under two assumptions on the constants:

* `Calm`: the faults are among `conn`, `refuse` and `timeout`. Calls may fail any
  number of times, sends then give up, services may be refused and clients may be
  answered by the timeout; streams do not break, no executed call is repeated, calls
  take long only by failing, and nodes, store and library work. A lost message does
  leave a session waiting forever, since no session has a timeout.
* `Apart`: no two requests have the same hash, and no key is reshared that a request
  signs with. `reshare_after_dkg` shows why sessions of one hash must be kept apart
  (one takes the message of the other); a signer that has read its share on
  one side of a reshare does not fit one that has read it on the other side.

What the theorem says of a request it says if the request was `InTime`; a session that
was called too late hangs, and the proof has to show that it takes nobody else with it.

This is the part of `SessionCompletes` and `ReshareRotates` that is a safety property:
the cluster cannot come to rest before it is finished. That it does come to rest is
left to TLC. The inductive invariant is `PInv`, on top of all the others:

1. A peer has its service exactly when it has confirmed the call (`CalledInv`), and
   it has one (`OnceInv`); where the goroutine of a request stands says what its
   client has seen (`CallerInv`).
2. The message of a service to another of its session in a round is never in two
   places, and in one of them, still to be sent, in a stream, in a queue, or handled,
   unless the calls of the request have outlasted a send (`PlaceInv`). A
   service that may still need messages is registered (`RegisteredInv`), so that a
   peer without a handler has not been called yet or has had all messages: a send
   that gives up is one of a request that is late (`LostIsLate`), and late stays late.
3. All services of a session have read the same key and share (`SameBaseInv`), what
   they read stays (`ReadInv`, `OldKeysInv`), and so every message fits and nobody
   fails (`QueuedFits`, `NoFailInv`).
4. Suppose nobody has anything to do. In a session in time whose peers were all called, take
   a running service in the least round (`NatMin`). It waits for a message that is in
   no stream, no queue and was not handled, so that its sender is in an earlier round
   and is running, too: a contradiction (`RestEnds`). A caller is not held up either:
   the key that its own service has read comes from a DKG that was in time, too, and has
   ended at every node, so that every peer can serve the call (`RestKeys`, `RestCalled`). All
   sessions in time have ended, and what they stored is there (`RestStored`).

### Streams

`StreamSendProofs` proves `TypeCorrect`, `OnlyLastRead` (`Spec => []OneReader`) and
`DeliversOnce` (`Spec => ImplementsDelivery`) for every number of messages, services,
attempts and breaks (`StreamAssumption`). The invariant: attempts are made in order
and the stream in `s` is that of the latest or nil (`AttemptInv`); a `Handle` exists
only for an attempt that was made (`HandleInv`); only the stream that was closed is
read (`ReadInv`). Under the mapping the last attempt is `Send` or `SendFails`, the
attempts before it, `Write` and `Close` are stuttering steps, and a broken connection
loses all that was sent and not read.

### Discovery

`DiscoveryProofs` proves `TypeCorrect`, `GroupIsCalled` (`Spec => []CallsCoverGroup`),
`ThresholdIsMet` (`Spec => []ThresholdMet`) and `LateRequestsAreWhole`
(`Spec => LateRequestsWhole`) from `DiscoveryAssumption`. The
argument: the map only grows, so that a threshold read earlier is at most the size of
the group read later (`ThresholdInv`); the list of peers to call is read after the
group, and a peer leaves it only when its service is there (`ListInv`). For a late
request: no node has a service before the request comes (`IdleInv`), and once every
node knows every other this stays so, so that every threshold and every group that is
read afterwards counts every node (`LateInv`).

### The self-service cluster

`SelfServiceProofs` proves `TypeCorrect`, `NoErrorDropped` (`Spec => []ErrorsKept`),
`HostsOpen` and, for `Foreign = {}`, `ThresholdIsFull`, from `SelfAssumption`. A service is created only
after all peer managers had enough peers, and their maps only grow (`ConnectedInv`,
`GroupInv`); without strangers, enough peers are all of them. A goroutine that is about to fail has
not put its error into the channel yet (`WorkerInv`), so that at most `NumNodes - 2` of
the `NumNodes - 1` places are taken and the `default` of its select is not reached. The
writer that holds the lock is alone (`LockInv`). `self_foreign` shows that the assumption of `ThresholdIsFull` is needed.

The invariants of these modules were checked with TLC, too, before they were proved.

### Only model-checked

The liveness properties and everything with fairness (`SessionCompletes`,
`ReshareRotates`, `CallsEnd`, `CloseEnds`, `WaitersEnd`, `CallsGoThrough`,
`ReachesRegistered`), which are out of the prover's reach. Every invariant of a passing
run and every other action property is stated by a theorem, `KeyBacked`,
`SharesFitKey` and `NobodyStuck` under the assumptions named above.

## 6. What is not modelled

* The cryptography of the library, beyond `Fits`.
* `connect`, `connectToPeer` and `EnsureAllConnected` of `peer/`, `SetArr` and
  `Delete` of the store: nothing calls them.
* A process that restarts during discovery: a stopped node stays down in Discovery.
  Restarts with a store are in TssSession.
* The rounds of a session inside the self-service cluster; its sessions are those of
  TssSession, on hosts of one process.
* The mock store (an in-memory stand-in that drops reshared shares and
  signatures), configuration and start-up (`main.go` turns an error into
  `log.Crit`, which exits without the deferred closes), conversions in
  `utils/utils.go`, generated code.

## 7. Plan

In the order of importance:

1. `Broken` of SelfService in terms of TssSession: a composition in which the
   sessions of a call are those of TssSession.
2. `NeverStuck` for two requests that sign the same message, where it is open which
   of the two sessions can end.
3. The step from MessageDelivery to `Send`, `SendFails` and `Handle` of TssSession as a
   refinement, with history variables for what was sent.

# Allegro: TLA+ models, model checking and proofs

Allegro is a small blockchain node: commonware's *simplex* engine decides on
blocks, an embedded *reth* node builds, executes and stores them, and the code
of this repository joins the two. This directory models that code in TLA+,
checks it with TLC and proves with TLAPS, for every value of the constants, the
safety properties that the passing runs check. File and line references are to
the repository; `PROJECT.json` has the line map of every definition.

## The system

| component | state | operations | interacts with |
|---|---|---|---|
| application actor (`consensus/src/application.rs`) | mailbox, `BlockInfoMap`, `PendingBlocks`, `ReceivedBlocks` | `handle_propose`, `handle_verify`, one message at a time | asked by the engine, calls the payload builder and awaits it |
| payload builder (`node/src/builder.rs`, `consensus/src/executor.rs`) | none of its own | build: tracker read, up to five FCUs, resolve, self-import; validate: `new_payload` | reth's engine API; reads the tracker |
| finalizer and `ForkchoiceTracker` (`node/src/finalizer.rs`, `builder.rs`) | the last finalized hash | digest → lookup → FCU → `set_finalized` | reads `BlockInfoMap`, writes the tracker |
| reporter (`consensus/src/engine.rs`) | a bounded channel | `report` forwards finalized digests with `try_send` | engine → finalizer |
| block relay and receiver (`engine.rs`) | the block stores | broadcast and forward pending blocks, store received ones | p2p, the engines of all nodes |
| timestamps (`application.rs`, `builder.rs`, `allegro_consensus.rs`, `launch.rs`) | seconds in headers, milliseconds in `BlockInfo` | choose, derive, check | proposer, verifiers, reth's validators |
| start-up (`bin/allegro`, `config.rs`, `validators.rs`, `chainspec.rs`, `engine.rs`) | validator set, configuration, threads | parse, launch, build the set, validate, spawn, start | two threads, several nodes |
| genesis generator (`xtask`) | the genesis file | sockets and validators | read twice by every node |
| header codec (`primitives`) | - | RLP of headers and contexts | every block that is relayed, imported or stored |
| loopback, metrics, errors | a test channel, counters | - | read by nothing in the node |

What is hard here: the actor, the block receiver, the reporter and the
finalizer are tasks that interleave at every await; the tracker is read in one
task and written in another with awaited engine calls on both sides; a node may
stop at any point and starts with empty stores while the engine's journal and
the execution layer survive; the finalization channel drops when full; block
bytes arrive late or never, on another channel than the proposal that names
them, and are not asked for; votes are journalled and blocks are not; the same
block can be proposed in two views; timestamps live in two units; start-up
errors have different effects on the two threads, and the genesis file is read
twice. The `hazards` of `PROJECT.json` list these at their lines.

## Modules

| module | models |
|---|---|
| `Chain` | blocks as a tree of hashes; digests, with EMPTY for genesis |
| `ExecutionLayer` | external: `new_payload`, `fork_choice_updated`, restart of reth |
| `Protocol` | external: views, proposals and certificates |
| `Simplex` | external: the protocol as the engine of one node meets it; extends `Protocol` |
| `Bridge` | one node: actor, payload builder closures, receiver, reporter, finalizer, tracker, restart; extends `ExecutionLayer` and `Simplex` |
| `NodeSteps` | what a handler of a node needs and leaves behind, as operators on the record of a node's stores |
| `Node` | the abstract specification of one node, whose handlers are single steps; `Bridge` implements it |
| `Network` | several nodes of `NodeSteps`, the votes between them, the block relay and receiver; extends `Protocol` |
| `Timestamps` | the time of blocks, in scaled u64 arithmetic |
| `Startup` | `xtask genesis` and the two threads of every node of a devnet |
| `Codec` | the RLP of headers and contexts, byte by byte |
| `MCBridge`, `MCNetwork`, `MCTimestamps`, `MCStartup`, `MCCodec` | instances for TLC |
| `BridgeProofs` | the inductive invariant of `Bridge`, and its invariants for rebuilt blocks |
| `ProtocolProofs` | what the protocol keeps true: finalized views are on one chain; used by the next three |
| `BridgeRefinement` | `Bridge` implements `Node`; extends `BridgeProofs` and `ProtocolProofs` |
| `ForkchoiceProofs` | the forkchoices of `Bridge` where no block is proposed twice; extends `BridgeRefinement` |
| `NetworkProofs`, `TimestampsProofs`, `StartupProofs`, `CodecProofs` | the invariants of those modules |

### Bridge

An action is what a task does between two awaits.

| code | actions |
|---|---|
| `Mailbox::propose`, `verify` | `Propose`, `Verify`, `AskAgain` (enqueue, waiting for room) |
| `handle_propose` + build closure | `StartBuild`; `BuildFcu` per attempt; `ResolvePayload`; `SelfImport`, which ends in `FinishPropose` or `DropResponder` |
| `handle_verify` + validate closure | `StartVerify`, `ValidateBlock` |
| `spawn_block_receiver` | `ReceiveBlock` |
| `MetricsReporter::report` | `Report` |
| `spawn_finalizer` | `FinalizerNext`, `FinalizerFcu`, `SetFinalized` |
| process stop, `run_consensus` again | `Restart` |

The remaining actions belong to the surroundings: `MissProposal` (a proposal
that does not reach this node), `Certificate`, and `Quiescent`, which marks the
only states in which the bounds may end a behaviour, so that TLC's deadlock
check is meaningful everywhere else.

A reply of reth and what the task does with it up to the next await are one
step, except in the finalizer: the gap between its FCU and `set_finalized` is
visible to builds. The finalization channel and the mailbox have their
effective capacity as a constant. Left out: block numbers (functions of the
hash), log lines, metrics, poisoned locks (no holder of a lock panics), RLP.
The check `timestamp_millis / 1000 == timestamp` of `handle_verify` compares
two values the validate closure derives from one; it is in `Timestamps`.

Assumptions on the surroundings, weaker than what the libraries promise where
the code does not need more:

- *Simplex*: leaders are honest and propose a child of the parent's block;
  views are entered in order, on a notarized parent, with everything between
  nullified; no view is both finalized and nullified; finalizations are
  reported in view order, possibly with gaps, and possibly again after a
  restart.
- *reth*: a block is VALID only on an executed parent, otherwise SYNCING; an
  FCU with an unknown head is SYNCING, with a finalized block that is not below
  the head an error; a head below the canonical one does not move it. With
  `Faults`, any call may also fail and a payload may be ACCEPTED. After a
  restart a prefix of the canonical chain is left. The first two and the
  canonical-ancestor rule are reth's behaviour as the comments in `builder.rs`
  and `finalizer.rs` rely on it; none of it is checked against reth.
- `Rebuild = TRUE` allows two views to carry the same block. The payload
  attributes (`executor.rs`, `build_payload_attributes`) name neither view nor
  proposer, so this happens when a block is rebuilt on its parent within a
  second with the same transactions.

The receiver stores what arrives under the digest in front of it, and the
validate closure compares neither that digest with the hash of the block nor
the parent hash it is given with the header. With honest senders and leaders,
as modelled, they agree; a message is one value, a block, and not a digest and
bytes.

`VouchedIsHeld` says what an answer is worth, by who made the block. A block of
another validator was executed here, and its bytes are here, before the node
answered true. An own block is built on an executed parent and its bytes are
kept for the relay, but it may only be ACCEPTED: the self-import takes that for
success, and the verification does not. Of blocks that were received nothing is
ever relayed.

### Node and the refinement

`Node` says what a node promises, whatever its tasks interleave: it answers a
proposal only on a parent it recorded and executed; it records a block of
another validator only with its bytes, on an executed parent; its finalized
block is recorded and executed and only climbs; nothing is forgotten except at
a restart, when all is. `NodeView` maps the stores of `Bridge` and the blocks
reth executed to the record of `Node`, and `ImplementsNode` states that every
step of `Bridge` is a step of `Node` or leaves the record alone: the await in
the middle of a handler, a retried FCU, a full channel or a failed call show
nowhere outside.

### Network

Nodes are records of `NodeSteps` (what `ImplementsNode` allows a node to do),
so a handler is one step here.

| code | actions |
|---|---|
| `handle_propose` | `HandlePropose`, `FailPropose` (the responder is dropped) |
| `handle_verify` | `HandleVerify`, `RefuseVerify` (bytes not here, parent not executed, a fault) |
| `BlockRelay::broadcast` | `Relay` (`Plan::Propose`), `Forward` (`Plan::Forward`), both through `Broadcast` |
| `spawn_block_receiver` | `Deliver` |
| `MetricsReporter::report`, `spawn_finalizer` | `HandleFinalization` |
| process stop and start | `Restart` |
| engine (external) | `StartView`, `CollectVotes`, `CollectFinalize` |

A block message that is rejected, rate-limited or lost is one that stays in the
channel for ever. The relay finds only blocks in `pending`, so of all nodes
asked to forward a block only its proposer sends anything, and none after a
restart; `ForwardingPolicy::All` is mapped to `SilentVoters` by
`start_simplex_engine`. Votes survive a restart, requests without a vote are
made again. Leaders rotate in every view; terms of several views, with the
optimistic lookahead they unlock, are not modelled. A request is handled in the
view it belongs to: one that ends later changes the same stores.

### Timestamps

Block *b*'s seconds are in `time[b]`; every node's record of it in `info`.
`Propose` takes any clock reading, so clocks may jump both ways. u64 is scaled
down, with the same saturating operations, so that its end is reached. The two
relaxed rules of `allegro_consensus.rs` are `AttributesAccepted` and
`HeaderAccepted`. The milliseconds a proposer asks for are past its parent's;
the header keeps their seconds, which may be the parent's, and what is recorded
is derived from those. The run `timestamps_increase` sets this against what the
documents and comments say.

### Startup

`xtask genesis` writes the file, for a number of validators at consecutive ports
or for a list of sockets, or nodes run without one. They are told the sockets of
their peers if there is no file and may be if there is one, as `run_devnet.sh`
does; the validators of the file win. All nodes are given the same
configuration. Every node then takes the steps of `main.rs`, which can end in
three ways other than a running engine:

- *exited*: an error or panic on the main thread;
- *refused*: the consensus thread does not take the configuration or the
  validators it is handed (`StartNetwork`, `StartEngine`);
- *failed*: its surroundings fail the consensus thread (`ConsensusFails`): the
  runtime and its storage directory, the p2p network, the listen address.

The last two are errors or caught panics that are only logged, and leave reth
running without consensus. `RefusedOnMainThread` is about *refused* alone: it
says that `validate`, on the main thread, implies all that the engine asserts
and that no empty validator set gets that far. A listen address that is taken is
met on the consensus thread only, in the model as in the code. `max_msg_size`
and `synchrony` are not validated and go to the network library, whose refusal
is a case of `ConsensusFails`.

u8 has four values in the instances. The file is read when `--chain` is parsed
and once more after the launch; `RewriteGenesis` runs the generator again in
between, which truncates the file before it is written. It is always the file
of one devnet: replacing it by another's is not modelled.

### Codec

A header is encoded, loses any number of bytes at its end, and is decoded. The
alloy_rlp operators are external, with lengths up to 65535, that is a length
byte, or none, or two after the first byte of an item; an Ethereum header is
some 600 bytes long. The context's `encode`, `length` and `decode`
are hand-written in `header.rs`, the codec of `AllegroHeader` is derived with
`trailing(no_gaps)` and uses `length` for the length of its list.
`ProposerKey::length` returns 32 although a key is encoded in 33
bytes; nothing calls it, because the context encodes the raw bytes, and the bug
variant `ContextLengthOfKey` shows what a caller would get. `DecodeContext`
does not compare the declared length of its list with what it consumed; the
check of the outer list is what makes cut headers fail.

## Runs

| run | instance | result |
|---|---|---|
| `bridge` | 3 views, tree g–a1–a2, g–b1, mailbox 1, sink 1, 2 attempts, faults, 1 restart; one block per view | `TypeOK`, `ForkchoiceConsistent`, `HeadExtendsTracker` hold |
| `bridge_rebuild` | as above, sink 2, blocks may repeat | `AnchorsFinal`, `ProposalsExtendParent`, `VouchedIsHeld`, `ImplementsNode` hold |
| `bridge_liveness` | 2 views, sink 2, 1 restart, blocks may repeat, no faults, fairness | `RequestsResolved`, `FinalizationLands` hold |
| `bridge_anchor_lost` | as `bridge` | `BuildsUseLastFinalized` violated |
| `bridge_off_chain` | 4 views, no faults, no restart, blocks may repeat; `FewCertificates` limits the search to behaviours with at most two notarized views and one finalized (a counterexample found there is one of the specification) | `HeadExtendsTracker` violated |
| `network` | 3 validators, certificates of 2, 2 views, the same tree, faults, timeouts, 1 restart | `TypeOK`, `AvailabilityBound`, `TrackersOnOneChain` hold |
| `network_race` | 4 validators, certificates of 3, 2 views; no fault, timeout or restart; fairness | `LeadersPropose` violated |
| `timestamps` | 2 nodes, u64 scaled down | `TypeOK`, `RecordsAgree`, `ProposerNeverRefused`, `TimesFollowClocks` hold |
| `timestamps_increase` | as `timestamps` | `TimesIncrease` violated |
| `startup` | up to 4 validators, 3 nodes, u8 of 4 values, debug build, counts and lists of sockets, 111 configurations, the file rewritten at any time, failures at every step | `TypeOK`, `AgreeOnValidators`, `PeersReachable`, `RefusedOnMainThread` hold |
| `startup_wraps` | 4 nodes, release build, the default configuration | `RefusedOnMainThread` violated |
| `codec` | 1302 headers, whole and cut at every byte | `DecodesOnlyWhole`, `LengthsExact` hold |

What the violated properties show (the `findings`):

1. After a restart the tracker is genesis again and builds present genesis as
   finalized to an execution layer that knows better.
2. A build reads the tracker once. If the block of an abandoned branch is
   proposed again in a later view and finalized while such a build is between
   its read and its FCU, the FCU moves the head off the finalized block. With
   distinct blocks per view this cannot happen (run `bridge`).
3. A node that is asked to verify a block before its bytes arrive answers false
   and is not asked again. If the others certify the block, this node holds its
   bytes later and still never records or executes it: it finalizes nothing
   above it and drops every proposal of its own. No failure is needed, only the
   order of two messages. `AvailabilityBound` limits the harm: without restarts
   a quorum holds every certified block, so fewer nodes are left behind than
   could stop the chain; with one restart on top of that they can.
4. With 255 peers the number of validators wraps to 0 in a release build; the
   engine then refuses to start on the consensus thread, and reth goes on alone.
5. A block may be of its parent's second: `handle_propose` rounds its
   milliseconds down and both rules of `allegro_consensus.rs` accept that, where
   `design.md` 7.5 says "strictly greater" and limits blocks to one per second,
   and the repository's README gives `max(now, parent_ts + 1)`.
6. Such a block is recorded with its parent's milliseconds, where the comments in
   `application.rs` and `header.rs` say "monotonically increasing" and "always >
   the parent's `timestamp_millis`". Same run, `timestamps_increase`.

One more disagreement needs no run: the comment on `spawn_finalizer` says that
a block this node never verified is skipped because the FCU returns SYNCING.
Such a block is not in `block_info`, and `FinalizerNext` skips its digest
before any FCU.

Bounds. Three views are the least in which a build on one branch is under way
while another view is finalized and a third follows; four, for the same block
to come back. Two branches, one of them with two blocks, give parents and
children, siblings and ancestors. A channel of one is full after one message;
the climbing of the tracker in `ImplementsNode` needs two for order to matter.
Two attempts have a retry in between. One restart is enough to lose each store, and everything after it runs
on surviving journal and database states.

In `network` two of three is the smallest certificate that leaves a validator
out, which is what separates a certified block from one everybody has; two
views give a block and a child or a sibling of it, each with its own leader.
With one restart the bound says that a node with the block is left. The race
uses the real quorum, three of four. In `codec` the numbers take 1, 1, 2, 4, 5
and 9 bytes, so that the payload of a context takes from 36 to 60 bytes, with
55 and 56 among them; with an Ethereum header of 200 bytes the payload of a
header lies on both sides of 255, so that its length takes one byte or two. In
`startup` three nodes are the least with one between two others, and the index
of one of them is out of range in smaller devnets; the timeouts take the values
around those they are compared with in every combination, for terms of none, one
and two views, and the other fields are zero one at a time. In `bridge_liveness`
two views have a parent and a child in the channel, or a request that waits
while the actor builds.

Fairness. `FairSpec` asks weak fairness of the actor and of the finalizer, as
tasks: each is a loop the runtime polls whenever it is ready, and each of its
engine calls is answered. The exception is `resolve_kind`, which is awaited
without a timeout (`builder.rs` has a todo there): nothing is assumed of
`ResolvePayload`. `RequestsResolved` is therefore about behaviours in which the
actor is not in that wait for ever, and says that nothing else keeps a request
from its answer; `FinalizationLands` is about all behaviours, that one included.
Nothing is assumed of the network, of certificates or of restarts. Both are
checked without faults: a failing FCU of the finalizer is skipped and never tried
again, so with faults `FinalizationLands` is false by design. Forkchoices are
refused and retried all the same, on unknown heads and on heads below the
canonical one. That a handler ends when other calls fail is what TLC's deadlock
check shows in `bridge`: each step there uses up a bound, and a behaviour may end
only where no request is under way.

`FairSpec` of `Network` asks more, because it is there to show that the race
needs no unfairness: every engine takes the views that are settled, every
request is handled, every relayed message arrives, and votes are collected.

## Proofs

Every invariant that a passing run checks, and the refinement, is a theorem for
all values of the constants; the run shows it on a small instance. The
assumptions are the named ones of the modules that declare the constants:

| module | assumed |
|---|---|
| `Chain` | `Parent` and `Ancestors` describe a tree of blocks above genesis |
| `Protocol`, `Simplex`, `Bridge` | channels hold at least one message, a build makes at least one attempt, bounds are numbers; Self is a validator |
| `Network` | finitely many validators, a quorum between one and all of them |
| `Timestamps` | a second has more than one millisecond |
| `Startup` | at most as many validators as a u8 has values; lists of sockets no longer than that; some configuration, with numbers for fields |
| `Codec` | keys of 2 to 55 bytes (they have 32), Ethereum headers of at most 4096 bytes; a refusal is not a value |

No quorum intersection is assumed: that no view is both finalized and
nullified is part of the external `Protocol`.

| module | theorems |
|---|---|
| `BridgeProofs` | `TypeCorrect`, `AnchorsAreFinal`, `ProposalsAreOnParent`, `VouchedBlocksHeld` |
| `BridgeRefinement` | `BridgeImplementsNode`: `Spec => ImplementsNode` |
| `ForkchoiceProofs` | `ForkchoicesConsistent`, `HeadsExtendTracker`, for `Rebuild = FALSE` |
| `NetworkProofs` | `NetworkTypeCorrect`, `BlocksAvailable`, `TrackersAgree` |
| `TimestampsProofs` | `TimestampsTypeCorrect`, `RecordsAlwaysAgree`, `ProposersNeverRefused`, `TimesFollow` |
| `StartupProofs` | `StartupTypeCorrect`, `NodesAgreeOnValidators`, `PeersAreReachable`, `RefusalsOnMainThread` |
| `CodecProofs` | `HeadersDecodeOnlyWhole`, `ContextLengthsExact` |

None of the properties is inductive alone. What each module adds, and why:

*Bridge.* `Inv` of `BridgeProofs` adds: parents are notarized and
notarized views have a payload, so that the actor looks up a digest and not
None (`ViewsInv`); a request is in the mailbox once or with the actor, and an
own view has no payload before the answer, so that an answer cannot change the
payload of a view that was finalized (`RequestsInv`); the head of a build is
the block of its parent or ZERO, an executed one once a payload job is started,
and a validation is of its view's block (`ActorInv`); a digest is recorded under its own hash, and what is in the
channel was finalized (`RecordsInv`). Each action has a lemma
`Inv /\ Action => Inv'`; `NextInv` joins them and PTL closes the argument.

*Protocol.* Finalized blocks are on one chain because a finalized view is never
nullified, and a view may be passed over only when it is. As an invariant this
has to be said of every view that is not nullified, finalized or not
(`OneChainInv`), since a view may be finalized after others were built above
it. The lemmas are about the actions of `Protocol`; the steps of `Bridge` and
of `Network` are shown to be among them.

*The refinement.* `Node` demands that the tracker climbs and that what is
recorded and executed was so when the handler began, although `Bridge` reads
and writes with awaits in between. `ElInv`: what reth executed is closed
downwards. `RecordedInv`: what a task looked up before an await is recorded and
executed after it. `PipelineInv`: tracker, finalizer and channel hold reported
blocks in the order of the chain. They are proved in layers, each with those
before it, and hold with rebuilt blocks too: along the reported views the order
is that of `OneChainInv`, whichever views carry the same block. Then each
action maps to one step of `Node` or to a stutter.

*Forkchoices.* The head of a build comes from the engine and its anchor from
the finalizer. They are related by the order of the actor's work: a recorded
block belongs to a view answered before all that is still to be done
(`OrderInv`), and if it is final every later proposal is above it. This needs
the view of a block to be unique (`DistinctInv`), and it has to: with rebuilt
blocks the run `bridge_off_chain` violates `HeadExtendsTracker`. The hypothesis
`Rebuild = FALSE` is that of the run `bridge`.

*Network.* `AvailabilityBound` counts holders, which does not say who they are.
`LossInv` names a set of nodes, no larger than the number of restarts, outside
of which every node holds all it voted for; with `QuorumInv` (a certificate is
made of votes) the bound is a subtraction of cardinalities. `TrackersOnOneChain`
follows from `TrackerInv` (a tracker's block was finalized) and `OneChainInv`.

*Timestamps.* The record of a block is a function of its header, whoever made it
(`RecordsInv`), and a header's milliseconds fit a u64 (`FitsInv`), so that no
multiplication saturates; the rest is arithmetic of quotients.

*Startup.* The genesis file is complete or empty at every step (`FileInv`), so
that a node that got past the validator set has the devnet's, or none if the
count wrapped (`WiredInv`), and one with a consensus thread has a configuration
that was validated (`ThreadInv`). `RefusalsOnMainThread` states the exact
exception: with overflow checks, or with any number of validators but the one at
which a u8 wraps, the consensus thread refuses nothing the main thread let
through, whatever the configuration. The exception is the violation of
`startup_wraps`.

*Codec.* Not an induction but a calculation: each encoder is shown to write an
item of a known length, and each decoder to take that item off whatever follows
(`StringRoundTrip`, `U64RoundTrip`, `KeyRoundTrip`, `ContextRoundTrip`,
`HeaderRoundTrip`); `ListRead` and `CutRefused` show that a list of which bytes
are missing is refused by its declared length. The invariant says that the wire
carries a beginning of the encoding (`WireInv`). The bound on Ethereum headers
keeps lengths within the two bytes the model has.

`Inv`, `NetworkInv`, `TimesInv` and `StartupInv` were checked with TLC, on the
instances of `bridge_rebuild`, `network`, `timestamps` and `startup`, before
they were proved. To check the proofs, run `tlapm` on each of the eight modules
above.

Only model-checked: the liveness properties `RequestsResolved`,
`FinalizationLands` and `LeadersPropose`, because reasoning with fairness and
ENABLED is out of the prover's reach. The violated properties are false, so
there is nothing to prove of them.

## Not modelled

The loopback channel, which only a test of a single node uses; metrics and
error types, which influence nothing; reth and commonware beyond the interface
above, reth's CLI and component wiring; the codec of `Block` in `block.rs`, which
only tests use (the relay and the receiver have their own); terms of several views and optimistic
views; peers that do not follow the protocol; shutdown. Accessors of headers
and validator sets that return a field are not definitions of their own.

## Plan

1. Every node of `Network` behaves as `Node`: `Network` uses the operators of
   `NodeSteps`, and the statement that each record `node[n]`, on its own, takes
   only steps of `Node` or none would close the chain from `Bridge` to
   `Network`; as a property of a run first, then as a theorem.
2. The votes of a node are never taken back, and what is finalized stays so,
   as action properties of `Network`, where they say more than `QuorumInv`.
3. `ForkchoiceConsistent` with rebuilt blocks: whether the weakest condition on
   repeated blocks under which it holds can be stated and proved.

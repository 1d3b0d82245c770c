------------------------------- MODULE Bridge -------------------------------
(***************************************************************************)
(* One allegro node: the code that joins the simplex engine to the         *)
(* execution layer.                                                        *)
(*                                                                         *)
(*   engine --propose/verify--> mailbox --> application actor --+          *)
(*   peers  --block channel---> block receiver                  |          *)
(*   engine --finalization----> MetricsReporter --> finalizer --+--> reth  *)
(*                                                                         *)
(* The actor, the block receiver, the reporter and the finalizer are tasks *)
(* that run concurrently; the actor handles one message at a time.  An     *)
(* action is what a task does between two awaits.  A reply of the engine   *)
(* and what the task does with it up to its next await are one step: no    *)
(* other task can tell the difference, except in the finalizer, whose FCU  *)
(* and whose update of the tracker are two steps.                          *)
(***************************************************************************)
EXTENDS ExecutionLayer, Simplex, Sequences

CONSTANTS
    MailboxSize,   \* capacity of the actor's mailbox
    SinkSize,      \* capacity of the finalization channel (a buffer of 32
                   \* and a slot per sender in main.rs)
    FcuAttempts,   \* forkchoice attempts of one build (5 in builder.rs)
    MaxRestarts,   \* bound on the number of restarts
    Rebuild        \* whether two views may carry the same block

ASSUME BridgeAssumption ==
    /\ MailboxSize \in Nat \ {0}
    /\ SinkSize \in Nat \ {0}
    /\ FcuAttempts \in Nat \ {0}
    /\ MaxRestarts \in Nat
    /\ Rebuild \in BOOLEAN
    /\ None \notin Hash

VARIABLES
    mailbox,         \* views whose propose or verify request is queued
    request,         \* [Views -> RequestState], what became of each request
    actor,           \* the application actor
    blockInfo,       \* BlockInfoMap: [Digest -> Hash \cup {None}]
    pendingBlocks,   \* PendingBlocks: digests of the blocks built here
    receivedBlocks,  \* ReceivedBlocks: digests of the blocks received
    sink,            \* the finalized_tx channel
    finalizer,       \* the finalizer task
    tracker,         \* ForkchoiceTracker: hash of the last finalized block
    restarts         \* number of restarts so far

bridgeVars == <<mailbox, request, actor, blockInfo, pendingBlocks,
                receivedBlocks, sink, finalizer, tracker, restarts>>
vars == <<bridgeVars, elVars, simplexVars>>

-----------------------------------------------------------------------------
(* State *)

(* What the engine knows of the request it made in a view:                 *)
(*   queued, running  no answer yet                                        *)
(*   yes              verify answered true, or propose answered a digest   *)
(*   no               verify answered false                                *)
(*   dropped          propose dropped its responder                        *)
(*   lost             made before the last restart                         *)
RequestState == {"none", "queued", "running", "yes", "no", "dropped", "lost"}

(* The actor between two messages. *)
IdleActor ==
    [pc |-> "idle", view |-> 0, head |-> EMPTY, anchor |-> Genesis,
     attempt |-> 0, block |-> None]

(* pc:      where the actor awaits: the mailbox, fork_choice_updated,      *)
(*          resolve_kind, or new_payload for its own or a peer's block     *)
(* head, anchor: the ForkchoiceState of a build, made once for all its     *)
(*          attempts; head is B256::ZERO when the parent is not recorded   *)
ActorState ==
    [pc : {"idle", "fcu", "resolve", "import", "validate"}, view : Views,
     head : Hash \cup {EMPTY}, anchor : Hash, attempt : 0..FcuAttempts,
     block : Blocks \cup {None}]

IdleFinalizer == [pc |-> "idle", hash |-> Genesis]
FinalizerState == [pc : {"idle", "fcu", "set"}, hash : Hash]

TypeOK ==
    /\ ElTypeOK
    /\ SimplexTypeOK
    /\ mailbox \in Seq(Views) /\ Len(mailbox) <= MailboxSize
    /\ request \in [Views -> RequestState]
    /\ actor \in ActorState
    /\ blockInfo \in [Digest -> Hash \cup {None}]
    /\ pendingBlocks \subseteq Blocks
    /\ receivedBlocks \subseteq Blocks
    /\ sink \in Seq(Digest) /\ Len(sink) <= SinkSize
    /\ finalizer \in FinalizerState
    /\ tracker \in Hash
    /\ restarts \in 0..MaxRestarts

(* Actor::new registers the genesis block under EMPTY. *)
GenesisInfo == [d \in Digest |-> IF d = EMPTY THEN Genesis ELSE None]

Init ==
    /\ ElInit
    /\ SimplexInit
    /\ mailbox = <<>>
    /\ request = [v \in Views |-> "none"]
    /\ actor = IdleActor
    /\ blockInfo = GenesisInfo
    /\ pendingBlocks = {}
    /\ receivedBlocks = {}
    /\ sink = <<>>
    /\ finalizer = IdleFinalizer
    /\ tracker = Genesis
    /\ restarts = 0

-----------------------------------------------------------------------------
(* The mailbox: propose and verify wait for room and enqueue. *)

Enqueue(v) ==
    /\ Len(mailbox) < MailboxSize
    /\ mailbox' = Append(mailbox, v)
    /\ request' = [request EXCEPT ![v] = "queued"]
    /\ UNCHANGED <<actor, blockInfo, pendingBlocks, receivedBlocks, sink,
                   finalizer, tracker, restarts, elVars>>

(* A block no other view carries, where blocks are assumed to differ. *)
Fresh(b) == Rebuild \/ (b # actor.block /\ \A v \in Views : payload[v] # b)

(* The engine enters a view this node leads and asks for a proposal.  The  *)
(* tree of blocks is finite: nothing is asked for above a leaf.            *)
Propose(p) ==
    /\ Children(HashOf(payload[p])) # {}
    /\ Lead(p)
    /\ Enqueue(view + 1)

(* The engine enters a view, gets its proposal and asks to verify it. *)
Verify(p, l, b) == Fresh(b) /\ Follow(p, l, b) /\ Enqueue(view + 1)

(* The proposal of a view does not reach this node. *)
MissProposal(p, l, b) ==
    Fresh(b) /\ Follow(p, l, b) /\ UNCHANGED <<bridgeVars, elVars>>

(* After a restart the engine asks again for the view it is in, unless its *)
(* journal already holds its own proposal of that view.                    *)
AskAgain ==
    /\ request[view] = "lost"
    /\ leader[view] = Self => payload[view] = None
    /\ Enqueue(view)
    /\ UNCHANGED simplexVars

-----------------------------------------------------------------------------
(* The application actor *)

Resolve(v, outcome) ==
    /\ actor' = IdleActor
    /\ request' = [request EXCEPT ![v] = outcome]

(* The build failed: the responder is dropped, nothing is proposed. *)
DropResponder ==
    /\ Resolve(actor.view, "dropped")
    /\ UNCHANGED <<blockInfo, pendingBlocks, simplexVars>>

(* A message of a view this node leads is a propose request. *)
IsPropose(v) == leader[v] = Self

(* Bug variant: an unrecorded parent is taken for genesis. *)
ParentHashOrGenesis(d) == IF blockInfo[d] # None THEN blockInfo[d] ELSE Genesis

(* B256::ZERO stands in for the hash of a parent that is not recorded. *)
ParentHash(d) == IF blockInfo[d] # None THEN blockInfo[d] ELSE EMPTY

(* Bug variant: the ForkchoiceState of build_payload_attributes_from_      *)
(* request, which finalizes the parent, is used as it is.                  *)
ForkchoiceOfRequest(v) ==
    [head |-> ParentHash(ParentDigest(v)),
     anchor |-> ParentHash(ParentDigest(v))]

(* Bug variant: head and finalized hash change places. *)
ForkchoiceSwapped(v) ==
    [head |-> tracker, anchor |-> ParentHash(ParentDigest(v))]

(* The ForkchoiceState of a build: the parent as head, the tracker's block *)
(* as safe and finalized.                                                  *)
ForkchoiceOf(v) ==
    [head |-> ParentHash(ParentDigest(v)), anchor |-> tracker]

(* handle_propose up to the first await of the build closure: look the     *)
(* parent up, read the tracker, fix the ForkchoiceState.                   *)
StartBuild ==
    /\ actor.pc = "idle"
    /\ mailbox # <<>>
    /\ IsPropose(Head(mailbox))
    /\ LET v == Head(mailbox) IN
         /\ actor' = [IdleActor EXCEPT !.pc = "fcu", !.view = v,
                        !.head = ForkchoiceOf(v).head,
                        !.anchor = ForkchoiceOf(v).anchor]
         /\ request' = [request EXCEPT ![v] = "running"]
    /\ mailbox' = Tail(mailbox)
    /\ UNCHANGED <<blockInfo, pendingBlocks, receivedBlocks, sink, finalizer,
                   tracker, restarts, elVars, simplexVars>>

(* Bug variant: attempts are not counted. *)
SameAttempt(n) == n

NextAttempt(n) == n + 1

(* One of the attempts to start a payload job.  Without an id it is tried  *)
(* again, with the same ForkchoiceState, until the attempts are used up.   *)
BuildFcu ==
    /\ actor.pc = "fcu"
    /\ \E status \in PayloadStatus, id \in BOOLEAN :
         /\ ForkchoiceUpdated(actor.head, actor.anchor, status, id)
         /\ IF id
              THEN /\ actor' = [actor EXCEPT !.pc = "resolve"]
                   /\ UNCHANGED <<request, blockInfo, pendingBlocks,
                                  simplexVars>>
            ELSE IF NextAttempt(actor.attempt) < FcuAttempts
              THEN /\ actor' = [actor EXCEPT !.attempt = NextAttempt(@)]
                   /\ UNCHANGED <<request, blockInfo, pendingBlocks,
                                  simplexVars>>
            ELSE DropResponder
    /\ UNCHANGED <<mailbox, receivedBlocks, sink, finalizer, tracker, restarts>>

(* resolve_kind: the job yields a block on top of the head, or fails. *)
ResolvePayload ==
    /\ actor.pc = "resolve"
    /\ \/ \E b \in Children(actor.head) :
             /\ Fresh(b)
             /\ actor' = [actor EXCEPT !.pc = "import", !.block = b]
             /\ UNCHANGED <<request, blockInfo, pendingBlocks, simplexVars>>
       \/ Faults /\ DropResponder
    /\ UNCHANGED <<mailbox, receivedBlocks, sink, finalizer, tracker, restarts,
                   elVars>>

(* The end of handle_propose: record the block, store its bytes for the    *)
(* relay and answer its digest.                                            *)
FinishPropose(b) ==
    /\ blockInfo' = [blockInfo EXCEPT ![b] = b]
    /\ pendingBlocks' = pendingBlocks \cup {b}
    /\ Resolve(actor.view, "yes")
    /\ Proposed(actor.view, b)
    /\ UNCHANGED reported

(* VALID and ACCEPTED both count as success. *)
Imported(status) == status \in {"VALID", "ACCEPTED"}

SelfImport ==
    /\ actor.pc = "import"
    /\ \E status \in PayloadStatus :
         /\ NewPayload(actor.block, status)
         /\ IF Imported(status)
              THEN FinishPropose(actor.block)
              ELSE DropResponder
    /\ UNCHANGED <<mailbox, receivedBlocks, sink, finalizer, tracker, restarts>>

(* handle_verify up to its await: an unknown proposer, or bytes that are   *)
(* neither pending nor received, are answered with false at once.          *)
Verifiable(v) ==
    /\ leader[v] \in Validators
    /\ payload[v] \in pendingBlocks \cup receivedBlocks

StartVerify ==
    /\ actor.pc = "idle"
    /\ mailbox # <<>>
    /\ ~IsPropose(Head(mailbox))
    /\ LET v == Head(mailbox) IN
         IF Verifiable(v)
           THEN /\ actor' = [IdleActor EXCEPT !.pc = "validate", !.view = v,
                               !.block = payload[v]]
                /\ request' = [request EXCEPT ![v] = "running"]
           ELSE Resolve(v, "no")
    /\ mailbox' = Tail(mailbox)
    /\ UNCHANGED <<blockInfo, pendingBlocks, receivedBlocks, sink, finalizer,
                   tracker, restarts, elVars, simplexVars>>

(* Bug variant: ACCEPTED is taken for valid, as in the self-import. *)
PassesAccepted(status) == Imported(status)

(* Only VALID makes a ValidationResult::Valid: INVALID, SYNCING, ACCEPTED  *)
(* and a failed call do not.                                               *)
Passes(status) == status = "VALID"

(* validate_block and the rest of handle_verify: a block that passes is    *)
(* recorded and answered with true.                                        *)
ValidateBlock ==
    /\ actor.pc = "validate"
    /\ \E status \in PayloadStatus :
         /\ NewPayload(actor.block, status)
         /\ IF Passes(status)
              THEN /\ blockInfo' = [blockInfo EXCEPT
                                      ![actor.block] = actor.block]
                   /\ Resolve(actor.view, "yes")
              ELSE /\ Resolve(actor.view, "no")
                   /\ UNCHANGED blockInfo
    /\ UNCHANGED <<mailbox, pendingBlocks, receivedBlocks, sink, finalizer,
                   tracker, restarts, simplexVars>>

-----------------------------------------------------------------------------
(* The block receiver, the reporter and the finalizer *)

(* The bytes of a block some other validator proposed arrive, if at all,   *)
(* before or after the proposal does.                                      *)
ReceiveBlock(b) ==
    /\ \E v \in 1..view : leader[v] # Self /\ payload[v] = b
    /\ b \notin receivedBlocks
    /\ receivedBlocks' = receivedBlocks \cup {b}
    /\ UNCHANGED <<mailbox, request, actor, blockInfo, pendingBlocks, sink,
                   finalizer, tracker, restarts, elVars, simplexVars>>

(* Bug variants: the channel is not bounded; the newest digest is first. *)
SendUnbounded(q, d) == Append(q, d)
SendFirst(q, d) == IF Len(q) < SinkSize THEN <<d>> \o q ELSE q

(* try_send: a full channel loses the digest. *)
TrySend(q, d) == IF Len(q) < SinkSize THEN Append(q, d) ELSE q

(* MetricsReporter::report for a finalization. *)
Report(v) ==
    /\ ReportedNow(v)
    /\ sink' = TrySend(sink, payload[v])
    /\ UNCHANGED <<mailbox, request, actor, blockInfo, pendingBlocks,
                   receivedBlocks, finalizer, tracker, restarts, elVars>>

(* Bug variant: only blocks built here are found. *)
LookupOwn(d) == IF d \in pendingBlocks THEN d ELSE None

Lookup(d) == blockInfo[d]

(* Take a digest and look its block up; one that is not recorded is        *)
(* skipped.                                                                *)
FinalizerNext ==
    /\ finalizer.pc = "idle"
    /\ sink # <<>>
    /\ sink' = Tail(sink)
    /\ finalizer' = IF Lookup(Head(sink)) # None
                      THEN [pc |-> "fcu", hash |-> Lookup(Head(sink))]
                      ELSE finalizer
    /\ UNCHANGED <<mailbox, request, actor, blockInfo, pendingBlocks,
                   receivedBlocks, tracker, restarts, elVars, simplexVars>>

(* Bug variant: the status of the reply is not looked at. *)
AnyStatus(status) == TRUE

FcuSucceeded(status) == status = "VALID"

(* FCU with head = safe = finalized; anything but VALID skips the digest. *)
FinalizerFcu ==
    /\ finalizer.pc = "fcu"
    /\ \E status \in PayloadStatus :
         /\ \E id \in BOOLEAN :
              ForkchoiceUpdated(finalizer.hash, finalizer.hash, status, id)
         /\ finalizer' = IF FcuSucceeded(status)
                           THEN [finalizer EXCEPT !.pc = "set"]
                           ELSE IdleFinalizer
    /\ UNCHANGED <<mailbox, request, actor, blockInfo, pendingBlocks,
                   receivedBlocks, sink, tracker, restarts, simplexVars>>

SetFinalized ==
    /\ finalizer.pc = "set"
    /\ tracker' = finalizer.hash
    /\ finalizer' = IdleFinalizer
    /\ UNCHANGED <<mailbox, request, actor, blockInfo, pendingBlocks,
                   receivedBlocks, sink, restarts, elVars, simplexVars>>

-----------------------------------------------------------------------------
(* The node stops at any point and starts again: every store of the        *)
(* consensus side is in memory and starts empty.                           *)
Restart ==
    /\ restarts < MaxRestarts
    /\ restarts' = restarts + 1
    /\ mailbox' = <<>>
    /\ request' = [v \in Views |->
                     IF request[v] = "none" THEN "none" ELSE "lost"]
    /\ actor' = IdleActor
    /\ blockInfo' = GenesisInfo
    /\ pendingBlocks' = {}
    /\ receivedBlocks' = {}
    /\ sink' = <<>>
    /\ finalizer' = IdleFinalizer
    /\ tracker' = Genesis
    /\ ElRestart
    /\ SimplexRestart

(* Steps of the protocol that this node takes no part in. *)
Certificate ==
    /\ \E v \in Views : Notarize(v) \/ Finalize(v)
    /\ UNCHANGED <<bridgeVars, elVars, reported>>

(* Nothing is under way: the bounds on views and blocks may end a          *)
(* behaviour here, and nowhere else.                                       *)
Quiescent ==
    /\ mailbox = <<>> /\ actor.pc = "idle"
    /\ sink = <<>> /\ finalizer.pc = "idle"
    /\ UNCHANGED vars

ActorStep == StartBuild \/ BuildFcu \/ SelfImport
               \/ StartVerify \/ ValidateBlock
FinalizerStep == FinalizerNext \/ FinalizerFcu \/ SetFinalized

Next ==
    \/ \E p \in Views : Propose(p)
    \/ \E p \in Views, l \in Validators, b \in Blocks :
          Verify(p, l, b) \/ MissProposal(p, l, b)
    \/ AskAgain
    \/ Certificate
    \/ StartBuild \/ BuildFcu \/ ResolvePayload \/ SelfImport
    \/ StartVerify \/ ValidateBlock
    \/ \E b \in Blocks : ReceiveBlock(b)
    \/ \E v \in Views : Report(v)
    \/ FinalizerNext \/ FinalizerFcu \/ SetFinalized
    \/ Restart
    \/ Quiescent

Spec == Init /\ [][Next]_vars

(* The tasks are polled by the runtime as long as they are ready, and the  *)
(* engine replies to fork_choice_updated and new_payload.  Nothing is      *)
(* assumed of resolve_kind: the code awaits it without a timeout.          *)
FairSpec == Spec /\ WF_vars(ActorStep) /\ WF_vars(FinalizerStep)

-----------------------------------------------------------------------------
(* Properties *)

FinalHashes == {HashOf(payload[v]) : v \in finalized}

(* Whatever this node presents to the execution layer as finalized, and    *)
(* whatever the execution layer holds as finalized, was finalized by       *)
(* consensus: the tracker, the anchor an unfinished build still carries,   *)
(* the block the finalizer is about to submit (finalizer.rs, builder.rs).  *)
AnchorsFinal ==
    {tracker, actor.anchor, finalizer.hash, elFinal} \subseteq FinalHashes

(* The forkchoice state of a build is consistent for as long as the build  *)
(* retries it: its finalized block is below its head.                      *)
ForkchoiceConsistent ==
    actor.pc = "fcu" /\ actor.head \in Hash =>
        actor.anchor \in Ancestors[actor.head]

(* No build moves the canonical chain off the last finalized block: once   *)
(* the finalizer recorded a block, the execution layer's head stays at or  *)
(* above it.                                                               *)
HeadExtendsTracker == tracker \in Ancestors[elHead]

(* handle_propose answers with a block on top of the block of the parent   *)
(* it was given, never with EMPTY and never with a block on another        *)
(* parent, also when the parent is not recorded after a restart.           *)
ProposalsExtendParent ==
    \A v \in 1..view : payload[v] # None =>
        payload[v] \in Children(HashOf(ParentDigest(v)))

(* What this node holds of a block it vouched for since it started; in     *)
(* both cases the block is recorded under its own hash.                    *)
(*   - A peer's block answered with true was executed here, not merely     *)
(*     kept: it can be built on and finalized on this node.  Its bytes are *)
(*     held.                                                               *)
(*   - An own block answered to propose is on an executed parent and is    *)
(*     where the relay looks for its bytes.  The engine executed it or, as *)
(*     the self-import takes ACCEPTED for success too, merely kept it.     *)
(* Both handlers make one call of the engine and use its reply after an    *)
(* await, in which finalizations and block bytes go on arriving.           *)
VouchedIsHeld ==
    \A v \in Views : request[v] = "yes" =>
        /\ blockInfo[payload[v]] = payload[v]
        /\ IF IsPropose(v)
             THEN /\ Parent[payload[v]] \in elValid
                  /\ payload[v] \in elValid \cup elAccepted
                  /\ payload[v] \in pendingBlocks
             ELSE /\ payload[v] \in elValid
                  /\ payload[v] \in pendingBlocks \cup receivedBlocks

(* The node as Node sees it: its stores, and what the execution layer      *)
(* executed.                                                               *)
NodeView ==
    [recorded |-> {d \in Blocks : blockInfo[d] # None},
     pending |-> pendingBlocks,
     received |-> receivedBlocks,
     executed |-> elValid,
     tracker |-> tracker]

N == INSTANCE Node WITH self <- NodeView

(* Through all awaits, retries, full channels and failing calls the node   *)
(* is one that handles every request in one step: it vouches only for      *)
(* blocks it holds on executed parents, its tracker moves only to executed *)
(* blocks and only up the chain, and it forgets only at a restart          *)
(* (application.rs, builder.rs and finalizer.rs together).                 *)
ImplementsNode == N!Spec

(* A build that starts while the finalizer has nothing under way anchors   *)
(* at the block the execution layer finalized last, not below it           *)
(* (design.md 4.4: builds "use the last-finalized hash").  The tracker     *)
(* starts at genesis again after a restart; the execution layer does not.  *)
BuildsUseLastFinalized ==
    [][actor.pc = "idle" /\ actor'.pc = "fcu" /\ finalizer.pc = "idle" =>
           ~StrictlyBelow(actor'.anchor, elFinal)]_vars

(* The await of resolve_kind, which has no timeout (builder.rs:107), is    *)
(* the one place where the actor can stay for ever.  Unless it does, every *)
(* request gets an answer or its responder is dropped, however often the   *)
(* forkchoice attempts of the builds before it fail.                       *)
RequestsResolved ==
    []<>(actor.pc # "resolve") =>
        \A v \in Views : request[v] \in {"queued", "running"} ~>
                           request[v] \in {"yes", "no", "dropped", "lost"}

(* A finalized block that is recorded and executed when its digest is in   *)
(* the channel ends up at or below the tracker unless the node restarts,   *)
(* also while the actor waits for ever for a payload.                      *)
FinalizationLands ==
    \A d \in Digest, r \in 0..MaxRestarts :
        (\E i \in 1..Len(sink) : sink[i] = d)
            /\ blockInfo[d] \in elValid /\ restarts = r
            ~> HashOf(d) \in Ancestors[tracker] \/ restarts > r
=============================================================================

-------------------------- MODULE BridgeRefinement --------------------------
(***************************************************************************)
(* Bridge implements Node, for every block tree, number of views, size of  *)
(* the channels and number of restarts.                                    *)
(*                                                                         *)
(* Everything rests on Inv of BridgeProofs and on ProtocolInv.  The        *)
(* invariants below are proved one after the other, each with the help of  *)
(* those before it:                                                        *)
(*   ElInv        what the execution layer holds is closed downwards       *)
(*   RecordedInv  what a task carries across its awaits is still recorded  *)
(*                and executed                                             *)
(*   PipelineInv  from the reporter to the tracker, finalizations are in   *)
(*                the order of the chain                                   *)
(***************************************************************************)
EXTENDS BridgeProofs, ProtocolProofs

(* With a block every block below it is executed, down to genesis.         *)
ElInv ==
    /\ elHead \in elValid
    /\ \A h \in elValid : Ancestors[h] \subseteq elValid /\ Genesis \in Ancestors[h]

Recorded(h) == h \in Blocks => blockInfo[h] # None

(* What was looked up before an await is there after it. *)
RecordedInv ==
    /\ Recorded(actor.head) /\ Recorded(actor.anchor)
    /\ Recorded(finalizer.hash) /\ Recorded(tracker)
    /\ actor.pc \in {"resolve", "import"} => actor.head \in elValid
    /\ finalizer.pc = "set" => finalizer.hash \in elValid

(* The blocks of the finalized views up to the last one reported. *)
ReportedHashes == {HashOf(payload[u]) : u \in {v \in finalized : v <= reported}}

(* Tracker, finalizer and channel hold reported blocks, in the order of    *)
(* the chain.                                                              *)
PipelineInv ==
    /\ {tracker, finalizer.hash, actor.anchor} \subseteq ReportedHashes
    /\ \A i \in 1..Len(sink) : HashOf(sink[i]) \in ReportedHashes
    /\ finalizer.pc # "idle" => tracker \in Ancestors[finalizer.hash]
    /\ \A i \in 1..Len(sink) :
          /\ tracker \in Ancestors[HashOf(sink[i])]
          /\ finalizer.pc # "idle" =>
                finalizer.hash \in Ancestors[HashOf(sink[i])]
    /\ \A i, j \in 1..Len(sink) :
          i < j => HashOf(sink[i]) \in Ancestors[HashOf(sink[j])]

-----------------------------------------------------------------------------
(* The protocol *)

(* The protocol's invariant in a state of Bridge. *)
LEMMA ProtocolStep == Inv /\ ProtocolInv /\ [Next]_vars => ProtocolInv'
<1> SUFFICES ASSUME Inv, ProtocolInv, [Next]_vars PROVE ProtocolInv'
  OBVIOUS
<1> USE ProtocolAssumption
<1>1. ASSUME NEW p \in Views, Propose(p) PROVE ProtocolInv'
  <2>1. EnterView(p, Self) /\ payload' = payload /\ view \in Nat /\ view < MaxView
    BY <1>1 DEF Propose, Lead, EnterView, ProtocolInv, ProtocolTypeOK, Views
  <2>2. payload[view + 1] = None
    BY <2>1 DEF ProtocolInv, CertificatesInv, Views
  <2>3. payload' = [payload EXCEPT ![view + 1] = None]
    BY <2>1, <2>2 DEF ProtocolInv, ProtocolTypeOK
  <2> QED
    BY <2>1, <2>3, EnterViewProtocol, SimplexAssumption
<1>2. ASSUME NEW p \in Views, NEW l \in Validators, NEW b \in Blocks,
             Verify(p, l, b) \/ MissProposal(p, l, b)
      PROVE  ProtocolInv'
  BY <1>2, EnterViewProtocol DEF Verify, MissProposal, Follow
<1>3. CASE Certificate
  BY <1>3, CertifiedProtocol DEF Certificate
<1>4. CASE SelfImport
  <2>1. CASE UNCHANGED protocolVars
    BY <2>1, UnchangedProtocol
  <2>2. CASE Proposed(actor.view, actor.block)
    <3>1. /\ actor.view \in Views /\ request[actor.view] = "running"
          /\ payload[actor.view] = None
          /\ actor.head \in {EMPTY, HashOf(ParentDigest(actor.view))}
          /\ actor.block \in Children(actor.head)
      BY <1>4 DEF SelfImport, Inv, TypeOK, ActorState, ActorInv, RequestsInv
    <3>2. actor.view \in 1..view
      <4>1. payload[0] = EMPTY /\ EMPTY # None /\ 0 \in Views
        BY DEF ProtocolInv, CertificatesInv, Digest, Views
      <4>2. actor.view # 0
        BY <3>1, <4>1
      <4>3. ~(actor.view > view)
        BY <3>1 DEF Inv, ViewsInv
      <4>4. actor.view \in Nat /\ view \in Nat
        BY <3>1 DEF ProtocolInv, ProtocolTypeOK, Views
      <4> QED
        BY <4>2, <4>3, <4>4
    <3>3. actor.head # EMPTY
      BY <3>1, ChainNames, ChainParents DEF Children
    <3> QED
      BY <2>2, <3>1, <3>2, <3>3, ProposedProtocol
  <2> QED
    BY <1>4, <2>1, <2>2
    DEF SelfImport, FinishPropose, DropResponder, simplexVars, protocolVars
<1>5. CASE \/ AskAgain \/ StartBuild \/ BuildFcu \/ ResolvePayload
           \/ StartVerify \/ ValidateBlock \/ FinalizerNext \/ FinalizerFcu
           \/ SetFinalized \/ Restart \/ Quiescent \/ UNCHANGED vars
           \/ (\E b \in Blocks : ReceiveBlock(b))
           \/ (\E v \in Views : Report(v))
  <2>1. UNCHANGED protocolVars
    BY <1>5
    DEF AskAgain, StartBuild, BuildFcu, ResolvePayload, StartVerify,
        ValidateBlock, FinalizerNext, FinalizerFcu, SetFinalized, Restart,
        SimplexRestart, Quiescent, vars, ReceiveBlock, Report, ReportedNow,
        DropResponder, simplexVars, protocolVars
  <2> QED
    BY <2>1, UnchangedProtocol
<1> QED
  BY <1>1, <1>2, <1>3, <1>4, <1>5 DEF Next

-----------------------------------------------------------------------------
(* The execution layer *)

(* Every step makes at most one call of the execution layer, or restarts   *)
(* it; a forkchoice call has a known finalized block.                      *)
LEMMA ElSteps ==
    ASSUME Inv, [Next]_vars
    PROVE  \/ UNCHANGED <<elValid, elAccepted, elHead, elFinal>>
           \/ \E b \in Blocks, status \in PayloadStatus : NewPayload(b, status)
           \/ \E h, f \in Hash \cup {EMPTY}, status \in PayloadStatus,
                 id \in BOOLEAN : ForkchoiceUpdated(h, f, status, id)
           \/ Restart /\ ElRestart
<1>1. CASE SelfImport \/ ValidateBlock
  <2>1. actor.block \in Blocks
    BY <1>1 DEF SelfImport, ValidateBlock, Inv, ActorInv, TypeOK, Children
  <2> QED
    BY <1>1, <2>1 DEF SelfImport, ValidateBlock
<1>2. CASE BuildFcu
  <2>1. actor.head \in Hash \cup {EMPTY} /\ actor.anchor \in Hash
    BY DEF Inv, TypeOK, ActorState
  <2> QED
    BY <1>2, <2>1 DEF BuildFcu
<1>3. CASE FinalizerFcu
  <2>1. finalizer.hash \in Hash
    BY DEF Inv, TypeOK, FinalizerState
  <2> QED
    BY <1>3, <2>1 DEF FinalizerFcu
<1>4. CASE Restart
  BY <1>4 DEF Restart
<1>5. CASE \/ (\E p \in Views : Propose(p))
           \/ (\E p \in Views, l \in Validators, b \in Blocks :
                  Verify(p, l, b) \/ MissProposal(p, l, b))
           \/ AskAgain \/ Certificate \/ StartBuild \/ ResolvePayload
           \/ StartVerify \/ (\E b \in Blocks : ReceiveBlock(b))
           \/ (\E v \in Views : Report(v)) \/ FinalizerNext \/ SetFinalized
           \/ Quiescent \/ UNCHANGED vars
  BY <1>5
  DEF Propose, Verify, MissProposal, Enqueue, AskAgain, Certificate, StartBuild,
      ResolvePayload, StartVerify, ReceiveBlock, Report, FinalizerNext,
      SetFinalized, Quiescent, vars, elVars
<1> QED
  BY <1>1, <1>2, <1>3, <1>4, <1>5 DEF Next

(* The execution layer keeps whole chains, also over a restart. *)
LEMMA ElStep == Inv /\ ElInv /\ [Next]_vars => ElInv'
<1> SUFFICES ASSUME Inv, ElInv, [Next]_vars PROVE ElInv'
  OBVIOUS
<1>0. elValid \subseteq Hash /\ elHead \in Hash
  BY DEF Inv, TypeOK, ElTypeOK
<1>1. CASE UNCHANGED <<elValid, elAccepted, elHead, elFinal>>
  BY <1>1 DEF ElInv
<1>2. ASSUME NEW b \in Blocks, NEW status, NewPayload(b, status)
      PROVE  ElInv'
  <2>1. elHead' = elHead
    BY <1>2 DEF NewPayload
  <2>2. CASE elValid' = elValid
    BY <2>1, <2>2 DEF ElInv
  <2>3. CASE Parent[b] \in elValid /\ elValid' = elValid \cup {b}
    BY <2>1, <2>3, ChainAncestors DEF ElInv
  <2> QED
    BY <1>2, <2>2, <2>3 DEF NewPayload
<1>3. ASSUME NEW h, NEW f, NEW status, NEW id,
             ForkchoiceUpdated(h, f, status, id)
      PROVE  ElInv'
  BY <1>3 DEF ForkchoiceUpdated, ElInv
<1>4. CASE ElRestart
  <2>1. PICK h \in Ancestors[elHead] : elValid' = Ancestors[h] /\ elHead' = h
    BY <1>4 DEF ElRestart
  <2>2. h \in elValid /\ h \in Hash /\ h \in Ancestors[h]
    BY <1>0, <2>1, AncestorsReflexive DEF ElInv
  <2>3. \A a \in Ancestors[h] :
           Ancestors[a] \subseteq Ancestors[h] /\ Genesis \in Ancestors[a]
    BY <1>0, <2>2, ChainAncestors DEF ElInv
  <2> QED
    BY <2>1, <2>2, <2>3 DEF ElInv
<1> QED
  BY <1>1, <1>2, <1>3, <1>4, ElSteps

-----------------------------------------------------------------------------
(* Records *)

(* Without a restart no record is lost, and no executed block. *)
LEMMA NothingForgotten ==
    ASSUME Inv, [Next]_vars, ~Restart
    PROVE  /\ \A h : Recorded(h) => Recorded(h)'
           /\ elValid \subseteq elValid'
<1>1. \/ blockInfo' = blockInfo
      \/ /\ actor.block \in Blocks
         /\ blockInfo' = [blockInfo EXCEPT ![actor.block] = actor.block]
  <2>1. CASE SelfImport \/ ValidateBlock
    <3>1. actor.block \in Blocks
      BY <2>1 DEF SelfImport, ValidateBlock, Inv, ActorInv, TypeOK, Children
    <3> QED
      BY <2>1, <3>1 DEF SelfImport, FinishPropose, DropResponder, ValidateBlock
  <2>2. CASE BuildFcu \/ ResolvePayload
    BY <2>2 DEF BuildFcu, ResolvePayload, DropResponder
  <2>3. CASE ~(SelfImport \/ ValidateBlock \/ BuildFcu \/ ResolvePayload)
    BY <2>3
    DEF Next, Propose, Verify, MissProposal, Enqueue, AskAgain, Certificate,
        StartBuild, StartVerify, ReceiveBlock, Report, FinalizerNext,
        FinalizerFcu, SetFinalized, Quiescent, vars, bridgeVars
  <2> QED
    BY <2>1, <2>2, <2>3
<1>2. \A h : Recorded(h) => Recorded(h)'
  <2>1. CASE blockInfo' = blockInfo
    BY <2>1 DEF Recorded
  <2>2. CASE /\ actor.block \in Blocks
             /\ blockInfo' = [blockInfo EXCEPT ![actor.block] = actor.block]
    BY <2>2, ProtocolAssumption DEF Recorded, Inv, TypeOK, Digest
  <2> QED
    BY <1>1, <2>1, <2>2
<1>3. elValid \subseteq elValid'
  BY ElSteps DEF NewPayload, ForkchoiceUpdated
<1> QED
  BY <1>2, <1>3

(* A recorded digest is recorded as its block. *)
LEMMA RecordedHash ==
    ASSUME Inv, NEW d \in Digest, blockInfo[d] # None
    PROVE  blockInfo[d] = HashOf(d) /\ Recorded(HashOf(d))
BY ChainNames DEF Inv, RecordsInv, Recorded, HashOf, Digest, Hash

(* The parent of a build in progress, the block the finalizer submits and  *)
(* the tracker's are recorded; a payload job has an executed parent.       *)
LEMMA RecordedStep == Inv /\ RecordedInv /\ [Next]_vars => RecordedInv'
<1> SUFFICES ASSUME Inv, RecordedInv, [Next]_vars PROVE RecordedInv'
  OBVIOUS
<1> USE ChainNames, ProtocolAssumption
<1>0. Recorded(EMPTY)' /\ Recorded(Genesis)'
  BY DEF Recorded, Hash
<1>1. CASE Restart
  BY <1>0, <1>1 DEF Restart, RecordedInv, IdleActor, IdleFinalizer
<1> SUFFICES ASSUME ~Restart PROVE RecordedInv'
  BY <1>1
<1>2. (\A h : Recorded(h) => Recorded(h)') /\ elValid \subseteq elValid'
  BY NothingForgotten
<1>3. CASE StartBuild
  <2>1. /\ actor'.pc = "fcu" /\ actor'.anchor = tracker
        /\ actor'.head = ParentHash(ParentDigest(Head(mailbox)))
        /\ UNCHANGED <<finalizer, tracker, blockInfo>>
    BY <1>3 DEF StartBuild, ForkchoiceOf, IdleActor
  <2>2. Head(mailbox) \in Views
    BY <1>3 DEF StartBuild, Inv, TypeOK
  <2>3. ParentDigest(Head(mailbox)) \in Digest
    BY <2>2 DEF Inv, ViewsInv, TypeOK, SimplexTypeOK, ProtocolTypeOK, ParentDigest
  <2>4. Recorded(actor'.head)
    BY <2>1, <2>3, RecordedHash DEF ParentHash, Recorded, Hash
  <2> QED
    BY <1>2, <2>1, <2>4 DEF RecordedInv
<1>4. CASE BuildFcu
  <2>1. UNCHANGED <<finalizer, tracker>> /\ actor \in ActorState
    BY <1>4 DEF BuildFcu, Inv, TypeOK
  <2>2. PICK status \in PayloadStatus, id \in BOOLEAN :
          /\ ForkchoiceUpdated(actor.head, actor.anchor, status, id)
          /\ \/ id /\ actor' = [actor EXCEPT !.pc = "resolve"]
             \/ actor' = [actor EXCEPT !.attempt = NextAttempt(actor.attempt)]
             \/ actor' = IdleActor
    BY <1>4 DEF BuildFcu, DropResponder, Resolve
  <2>3. id => actor.head \in elValid
    BY <2>2 DEF ForkchoiceUpdated
  <2>4. CASE id /\ actor' = [actor EXCEPT !.pc = "resolve"]
    BY <1>2, <2>1, <2>3, <2>4 DEF RecordedInv, ActorState
  <2>5. CASE actor' = [actor EXCEPT !.attempt = NextAttempt(actor.attempt)]
    BY <1>2, <2>1, <2>5 DEF RecordedInv, ActorState
  <2>6. CASE actor' = IdleActor
    BY <1>0, <1>2, <2>1, <2>6 DEF RecordedInv, IdleActor
  <2> QED
    BY <2>2, <2>4, <2>5, <2>6
<1>5. CASE ResolvePayload
  <2>1. UNCHANGED <<finalizer, tracker>> /\ actor \in ActorState
    BY <1>5 DEF ResolvePayload, Inv, TypeOK
  <2>2. CASE actor' = IdleActor
    BY <1>0, <1>2, <2>1, <2>2 DEF RecordedInv, IdleActor
  <2>3. ASSUME NEW b, actor' = [actor EXCEPT !.pc = "import", !.block = b]
        PROVE  RecordedInv'
    BY <1>2, <1>5, <2>1, <2>3 DEF RecordedInv, ActorState, ResolvePayload
  <2> QED
    BY <1>5, <2>2, <2>3 DEF ResolvePayload, DropResponder, Resolve
<1>6. CASE SelfImport \/ ValidateBlock \/ StartVerify
  <2>1. /\ UNCHANGED <<finalizer, tracker>>
        /\ actor'.head = EMPTY /\ actor'.anchor = Genesis
        /\ actor'.pc \in {"idle", "validate"}
    <3>1. CASE SelfImport \/ ValidateBlock
      BY <3>1
      DEF SelfImport, FinishPropose, DropResponder, Resolve, ValidateBlock,
          IdleActor
    <3>2. CASE StartVerify
      <4>1. /\ UNCHANGED <<finalizer, tracker>>
            /\ \/ actor' = IdleActor
               \/ actor' = [pc |-> "validate", view |-> Head(mailbox),
                             head |-> EMPTY, anchor |-> Genesis, attempt |-> 0,
                             block |-> payload[Head(mailbox)]]
        BY <3>2 DEF StartVerify, Resolve, IdleActor
      <4> QED
        BY <4>1 DEF IdleActor
    <3> QED
      BY <1>6, <3>1, <3>2
  <2> QED
    BY <1>0, <1>2, <2>1 DEF RecordedInv
<1>7. CASE FinalizerNext
  <2>1. UNCHANGED <<actor, tracker, blockInfo>> /\ Head(sink) \in Digest
    BY <1>7 DEF FinalizerNext, Inv, TypeOK
  <2>2. CASE finalizer' = finalizer
    BY <1>2, <2>1, <2>2 DEF RecordedInv
  <2>3. CASE /\ blockInfo[Head(sink)] # None
             /\ finalizer' = [pc |-> "fcu", hash |-> blockInfo[Head(sink)]]
    BY <1>2, <2>1, <2>3, RecordedHash DEF RecordedInv
  <2> QED
    BY <1>7, <2>2, <2>3 DEF FinalizerNext, Lookup
<1>8. CASE FinalizerFcu
  <2>1. UNCHANGED <<actor, tracker>> /\ finalizer \in FinalizerState
    BY <1>8 DEF FinalizerFcu, Inv, TypeOK
  <2>2. \/ finalizer' = IdleFinalizer
        \/ /\ finalizer' = [finalizer EXCEPT !.pc = "set"]
           /\ finalizer.hash \in elValid
    BY <1>8 DEF FinalizerFcu, FcuSucceeded, ForkchoiceUpdated
  <2> QED
    BY <1>0, <1>2, <2>1, <2>2 DEF RecordedInv, FinalizerState, IdleFinalizer
<1>9. CASE SetFinalized
  BY <1>0, <1>2, <1>9 DEF SetFinalized, RecordedInv, IdleFinalizer
<1>10. CASE \/ (\E p \in Views : Propose(p))
            \/ (\E p \in Views, l \in Validators, b \in Blocks :
                   Verify(p, l, b) \/ MissProposal(p, l, b))
            \/ AskAgain \/ Certificate \/ (\E b \in Blocks : ReceiveBlock(b))
            \/ (\E v \in Views : Report(v)) \/ Quiescent \/ UNCHANGED vars
  <2>1. UNCHANGED <<actor, finalizer, tracker>>
    BY <1>10
    DEF Propose, Verify, MissProposal, Enqueue, AskAgain, Certificate,
        ReceiveBlock, Report, Quiescent, vars, bridgeVars
  <2> QED
    BY <1>2, <2>1 DEF RecordedInv
<1> QED
  BY <1>3, <1>4, <1>5, <1>6, <1>7, <1>8, <1>9, <1>10 DEF Next

-----------------------------------------------------------------------------
(* The way of a finalization from the reporter to the tracker *)

(* The anchor of a build is the tracker's block when it starts. *)
LEMMA AnchorSteps ==
    ASSUME Inv, [Next]_vars
    PROVE  actor'.anchor \in {actor.anchor, tracker, Genesis}
<1>0. actor \in ActorState
  BY DEF Inv, TypeOK
<1>1. CASE StartBuild
  BY <1>1 DEF StartBuild, ForkchoiceOf, IdleActor
<1>2. CASE BuildFcu
  <2>1. \/ actor' = [actor EXCEPT !.pc = "resolve"]
        \/ actor' = [actor EXCEPT !.attempt = NextAttempt(actor.attempt)]
        \/ actor' = IdleActor
    BY <1>2 DEF BuildFcu, DropResponder, Resolve
  <2> QED
    BY <1>0, <2>1 DEF ActorState, IdleActor
<1>3. CASE ResolvePayload
  <2>1. ASSUME NEW b, actor' = [actor EXCEPT !.pc = "import", !.block = b]
        PROVE  actor'.anchor = actor.anchor
    BY <1>0, <2>1 DEF ActorState
  <2>2. CASE actor' = IdleActor
    BY <2>2 DEF IdleActor
  <2> QED
    BY <1>3, <2>1, <2>2 DEF ResolvePayload, DropResponder, Resolve
<1>4. CASE SelfImport \/ ValidateBlock \/ Restart
  <2>1. actor' = IdleActor
    BY <1>4
    DEF SelfImport, FinishPropose, DropResponder, Resolve, ValidateBlock, Restart
  <2> QED
    BY <2>1 DEF IdleActor
<1>5. CASE StartVerify
  <2>1. \/ actor' = IdleActor
        \/ actor' = [pc |-> "validate", view |-> Head(mailbox),
                      head |-> EMPTY, anchor |-> Genesis, attempt |-> 0,
                      block |-> payload[Head(mailbox)]]
    BY <1>5 DEF StartVerify, Resolve, IdleActor
  <2> QED
    BY <2>1 DEF IdleActor
<1>6. CASE \/ (\E p \in Views : Propose(p))
           \/ (\E p \in Views, l \in Validators, b \in Blocks :
                  Verify(p, l, b) \/ MissProposal(p, l, b))
           \/ AskAgain \/ Certificate \/ (\E b \in Blocks : ReceiveBlock(b))
           \/ (\E v \in Views : Report(v)) \/ FinalizerNext \/ FinalizerFcu
           \/ SetFinalized \/ Quiescent \/ UNCHANGED vars
  BY <1>6
  DEF Propose, Verify, MissProposal, Enqueue, AskAgain, Certificate,
      ReceiveBlock, Report, FinalizerNext, FinalizerFcu, SetFinalized,
      Quiescent, vars, bridgeVars
<1> QED
  BY <1>1, <1>2, <1>3, <1>4, <1>5, <1>6 DEF Next

(* A payload that is there never changes, and no certificate is lost. *)
LEMMA PayloadsKept ==
    ASSUME Inv, [Next]_vars
    PROVE  /\ finalized \subseteq finalized'
           /\ \A u \in Views : payload[u] # None => payload'[u] = payload[u]
<1> USE ProtocolAssumption
<1>1. CASE \/ (\E p \in Views : Propose(p)) \/ Certificate
  BY <1>1 DEF Propose, Lead, EnterView, Certificate, Notarize, Finalize
<1>2. ASSUME NEW p \in Views, NEW l \in Validators, NEW b \in Blocks,
             Verify(p, l, b) \/ MissProposal(p, l, b)
      PROVE  /\ finalized \subseteq finalized'
             /\ \A u \in Views : payload[u] # None => payload'[u] = payload[u]
  <2>1. /\ payload' = [payload EXCEPT ![view + 1] = b] /\ finalized' = finalized
        /\ view < MaxView
    BY <1>2 DEF Verify, MissProposal, Follow, EnterView
  <2>2. view \in Nat
    BY DEF Inv, TypeOK, SimplexTypeOK, ProtocolTypeOK, Views
  <2>3. payload[view + 1] = None
    BY <2>1, <2>2 DEF Inv, ViewsInv, Views
  <2> QED
    BY <2>1, <2>3 DEF Inv, TypeOK, SimplexTypeOK, ProtocolTypeOK
<1>3. CASE SelfImport
  <2>1. /\ finalized' = finalized
        /\ \/ payload' = payload
           \/ payload' = [payload EXCEPT ![actor.view] = actor.block]
    BY <1>3
    DEF SelfImport, FinishPropose, Proposed, DropResponder, simplexVars
  <2>2. payload[actor.view] = None
    BY <1>3 DEF SelfImport, Inv, RequestsInv, ActorInv, TypeOK, ActorState
  <2> QED
    BY <2>1, <2>2 DEF Inv, TypeOK, SimplexTypeOK, ProtocolTypeOK
<1>4. CASE \/ AskAgain \/ StartBuild \/ BuildFcu \/ ResolvePayload
           \/ StartVerify \/ ValidateBlock \/ FinalizerNext \/ FinalizerFcu
           \/ SetFinalized \/ Restart \/ Quiescent \/ UNCHANGED vars
           \/ (\E b \in Blocks : ReceiveBlock(b))
           \/ (\E v \in Views : Report(v))
  BY <1>4
  DEF AskAgain, StartBuild, BuildFcu, ResolvePayload, StartVerify,
      ValidateBlock, FinalizerNext, FinalizerFcu, SetFinalized, Restart,
      SimplexRestart, Quiescent, vars, ReceiveBlock, Report, ReportedNow,
      DropResponder, simplexVars, protocolVars
<1> QED
  BY <1>1, <1>2, <1>3, <1>4 DEF Next

(* Without a restart, what was reported stays reported. *)
LEMMA ReportedKept ==
    ASSUME Inv, [Next]_vars, ~Restart
    PROVE  ReportedHashes \subseteq ReportedHashes'
<1>1. reported \in Int /\ reported' \in Int /\ reported <= reported'
  <2>1. reported \in Int
    BY ProtocolAssumption DEF Inv, TypeOK, SimplexTypeOK, Views
  <2>2. ASSUME NEW v \in Views, Report(v)
        PROVE  reported' \in Int /\ reported <= reported'
    BY <2>1, <2>2, ProtocolAssumption DEF Report, ReportedNow, Views
  <2>3. CASE SelfImport \/ BuildFcu \/ ResolvePayload
    <3>1. reported' = reported
      BY <2>3
      DEF SelfImport, BuildFcu, ResolvePayload, FinishPropose, DropResponder,
          simplexVars
    <3> QED
      BY <2>1, <3>1
  <2>4. CASE \/ (\E p \in Views : Propose(p))
             \/ (\E p \in Views, l \in Validators, b \in Blocks :
                    Verify(p, l, b) \/ MissProposal(p, l, b))
             \/ AskAgain \/ Certificate \/ StartBuild \/ StartVerify
             \/ ValidateBlock \/ (\E b \in Blocks : ReceiveBlock(b))
             \/ FinalizerNext \/ FinalizerFcu \/ SetFinalized
             \/ Quiescent \/ UNCHANGED vars
    <3>1. reported' = reported
      BY <2>4
      DEF Propose, Lead, Verify, MissProposal, Follow, AskAgain, Certificate,
          StartBuild, StartVerify, ValidateBlock, ReceiveBlock, FinalizerNext,
          FinalizerFcu, SetFinalized, Quiescent, vars, simplexVars
    <3> QED
      BY <2>1, <3>1
  <2> QED
    BY <2>1, <2>2, <2>3, <2>4 DEF Next
<1>2. \A u \in finalized : u \in Int /\ u \in finalized' /\ payload'[u] = payload[u]
  <2>1. \A u \in finalized : u \in Views /\ u \in Int /\ payload[u] # None
    BY ProtocolAssumption
    DEF Inv, TypeOK, SimplexTypeOK, ProtocolTypeOK, ViewsInv, Views
  <2> QED
    BY <2>1, PayloadsKept
<1> QED
  BY <1>1, <1>2 DEF ReportedHashes, HashOf

(* Genesis counts as reported. *)
LEMMA GenesisReported == Inv => Genesis \in ReportedHashes
BY ProtocolAssumption
DEF Inv, TypeOK, SimplexTypeOK, ViewsInv, ReportedHashes, HashOf, Views

(* What was reported is on the chain of every finalization still to come.  *)
LEMMA ReportedBelow ==
    ASSUME Inv, ProtocolInv, NEW h \in ReportedHashes, NEW v \in finalized,
           v > reported
    PROVE  h \in Ancestors[HashOf(payload[v])]
<1>1. PICK u \in finalized : u <= reported /\ h = HashOf(payload[u])
  BY DEF ReportedHashes
<1>2. u <= v
  BY <1>1, ProtocolAssumption DEF Inv, TypeOK, SimplexTypeOK, ProtocolTypeOK, Views
<1> QED
  BY <1>1, <1>2, FinalizedOneChain

(* The channel, the finalizer and the tracker stay in the chain's order. *)
LEMMA PipelineStep ==
    Inv /\ ProtocolInv /\ PipelineInv /\ [Next]_vars => PipelineInv'
<1> SUFFICES ASSUME Inv, ProtocolInv, PipelineInv, [Next]_vars
             PROVE  PipelineInv'
  OBVIOUS
<1> USE ProtocolAssumption
<1>1. CASE Restart
  <2>1. /\ tracker' = Genesis /\ sink' = <<>> /\ finalizer' = IdleFinalizer
        /\ actor' = IdleActor /\ finalized' = finalized /\ payload' = payload
        /\ reported' \in 0..reported
    BY <1>1 DEF Restart, SimplexRestart, protocolVars
  <2>2. reported \in Nat /\ 0 \in finalized /\ payload[0] = EMPTY
    BY DEF Inv, TypeOK, SimplexTypeOK, ViewsInv, Views
  <2>3. Genesis \in ReportedHashes'
    BY <2>1, <2>2 DEF ReportedHashes, HashOf
  <2>4. \A i \in 1..Len(sink') : FALSE
    BY <2>1
  <2>5. /\ actor'.anchor = Genesis /\ finalizer'.hash = Genesis
        /\ finalizer'.pc = "idle"
    BY <2>1 DEF IdleActor, IdleFinalizer
  <2> QED
    BY <2>1, <2>3, <2>4, <2>5, Zenon DEF PipelineInv
<1> SUFFICES ASSUME ~Restart PROVE PipelineInv'
  BY <1>1
<1>2. /\ ReportedHashes \subseteq ReportedHashes'
      /\ actor'.anchor \in ReportedHashes'
      /\ Genesis \in ReportedHashes'
  BY ReportedKept, GenesisReported, AnchorSteps DEF PipelineInv
<1>3. ASSUME NEW v \in Views, Report(v) PROVE PipelineInv'
  <2>1. /\ UNCHANGED <<finalizer, tracker>>
        /\ finalized' = finalized /\ payload' = payload /\ reported' = v
        /\ v \in finalized /\ v > reported /\ v <= v
        /\ \/ sink' = sink
           \/ sink' = Append(sink, payload[v])
    BY <1>3 DEF Report, ReportedNow, TrySend, protocolVars, Views
  <2>2. CASE sink' = sink
    BY <1>2, <2>1, <2>2 DEF PipelineInv
  <2>3. CASE sink' = Append(sink, payload[v])
    <3>1. payload[v] \in Digest
      BY <2>1 DEF Inv, TypeOK, SimplexTypeOK, ProtocolTypeOK, ViewsInv
    <3>2. /\ Len(sink) \in Nat /\ Len(sink') = Len(sink) + 1
          /\ sink'[Len(sink) + 1] = payload[v]
          /\ \A i \in 1..Len(sink) : sink'[i] = sink[i]
      BY <2>3, <3>1 DEF Inv, TypeOK
    <3>3. HashOf(payload[v]) \in ReportedHashes'
      BY <2>1 DEF ReportedHashes, HashOf
    <3>4. \A h \in ReportedHashes : h \in Ancestors[HashOf(payload[v])]
      BY <2>1, ReportedBelow
    <3>5. \A i \in 1..Len(sink') : i \in 1..Len(sink) \/ i = Len(sink) + 1
      BY <3>2
    <3>6. ASSUME NEW i \in 1..Len(sink')
          PROVE  /\ HashOf(sink'[i]) \in ReportedHashes'
                 /\ tracker \in Ancestors[HashOf(sink'[i])]
                 /\ finalizer.pc # "idle" =>
                       finalizer.hash \in Ancestors[HashOf(sink'[i])]
      <4>1. CASE i \in 1..Len(sink)
        BY <1>2, <3>2, <4>1 DEF PipelineInv
      <4>2. CASE i = Len(sink) + 1
        BY <3>2, <3>3, <3>4, <4>2 DEF PipelineInv
      <4> QED
        BY <3>5, <4>1, <4>2
    <3>7. ASSUME NEW i \in 1..Len(sink'), NEW j \in 1..Len(sink'), i < j
          PROVE  HashOf(sink'[i]) \in Ancestors[HashOf(sink'[j])]
      <4>1. i \in 1..Len(sink)
        BY <3>2, <3>7
      <4>2. CASE j \in 1..Len(sink)
        BY <3>2, <3>7, <4>1, <4>2 DEF PipelineInv
      <4>3. CASE j = Len(sink) + 1
        BY <3>2, <3>4, <4>1, <4>3 DEF PipelineInv
      <4> QED
        BY <3>5, <4>2, <4>3
    <3> QED
      BY <1>2, <2>1, <3>6, <3>7 DEF PipelineInv, HashOf
  <2> QED
    BY <2>1, <2>2, <2>3
<1>4. CASE FinalizerNext
  <2>1. /\ sink # <<>> /\ sink' = Tail(sink) /\ finalizer.pc = "idle"
        /\ UNCHANGED tracker
    BY <1>4 DEF FinalizerNext
  <2>2. /\ Len(sink) \in Nat /\ Len(sink') = Len(sink) - 1
        /\ Head(sink) = sink[1] /\ 1 \in 1..Len(sink) /\ sink[1] \in Digest
        /\ \A i \in 1..Len(sink') : /\ sink'[i] = sink[i + 1] /\ i \in Int
                                    /\ i + 1 \in 1..Len(sink) /\ 1 < i + 1
    BY <2>1 DEF Inv, TypeOK
  <2>3. \A i \in 1..Len(sink') : /\ HashOf(sink'[i]) \in ReportedHashes'
                                 /\ tracker \in Ancestors[HashOf(sink'[i])]
    BY <1>2, <2>2 DEF PipelineInv
  <2>4. ASSUME NEW i \in 1..Len(sink'), NEW j \in 1..Len(sink'), i < j
        PROVE  HashOf(sink'[i]) \in Ancestors[HashOf(sink'[j])]
    <3>1. i + 1 < j + 1
      BY <2>2, <2>4
    <3> QED
      BY <2>2, <3>1 DEF PipelineInv
  <2>5. CASE finalizer' = finalizer
    BY <1>2, <2>1, <2>3, <2>4, <2>5 DEF PipelineInv, HashOf
  <2>6. CASE /\ blockInfo[Head(sink)] # None
             /\ finalizer' = [pc |-> "fcu", hash |-> blockInfo[Head(sink)]]
    <3>1. finalizer'.hash = HashOf(sink[1])
      BY <2>2, <2>6, RecordedHash
    <3>2. \A i \in 1..Len(sink') :
             finalizer'.hash \in Ancestors[HashOf(sink'[i])]
      BY <2>2, <3>1 DEF PipelineInv
    <3>3. /\ finalizer'.hash \in ReportedHashes'
          /\ tracker \in Ancestors[finalizer'.hash]
      BY <1>2, <2>2, <3>1 DEF PipelineInv
    <3> QED
      BY <1>2, <2>1, <2>3, <2>4, <3>2, <3>3 DEF PipelineInv, HashOf
  <2> QED
    BY <1>4, <2>5, <2>6 DEF FinalizerNext, Lookup
<1>5. CASE FinalizerFcu
  <2>1. /\ UNCHANGED <<sink, tracker>> /\ finalizer \in FinalizerState
        /\ finalizer.pc = "fcu"
        /\ \/ finalizer' = IdleFinalizer
           \/ finalizer' = [finalizer EXCEPT !.pc = "set"]
    BY <1>5 DEF FinalizerFcu, Inv, TypeOK
  <2>2. CASE finalizer' = IdleFinalizer
    BY <1>2, <2>1, <2>2 DEF PipelineInv, IdleFinalizer
  <2>3. CASE finalizer' = [finalizer EXCEPT !.pc = "set"]
    <3>1. finalizer'.hash = finalizer.hash
      BY <2>1, <2>3 DEF FinalizerState
    <3> QED
      BY <1>2, <2>1, <3>1 DEF PipelineInv
  <2> QED
    BY <2>1, <2>2, <2>3
<1>6. CASE SetFinalized
  <2>1. /\ UNCHANGED sink /\ tracker' = finalizer.hash /\ finalizer.pc = "set"
        /\ finalizer' = IdleFinalizer
    BY <1>6 DEF SetFinalized
  <2> QED
    BY <1>2, <2>1 DEF PipelineInv, IdleFinalizer
<1>7. CASE \/ (\E p \in Views : Propose(p))
           \/ (\E p \in Views, l \in Validators, b \in Blocks :
                  Verify(p, l, b) \/ MissProposal(p, l, b))
           \/ AskAgain \/ Certificate \/ StartBuild \/ BuildFcu
           \/ ResolvePayload \/ SelfImport \/ StartVerify \/ ValidateBlock
           \/ (\E b \in Blocks : ReceiveBlock(b)) \/ Quiescent
           \/ UNCHANGED vars
  <2>1. UNCHANGED <<sink, tracker, finalizer>>
    BY <1>7
    DEF Propose, Verify, MissProposal, Enqueue, AskAgain, Certificate,
        StartBuild, BuildFcu, ResolvePayload, SelfImport, StartVerify,
        ValidateBlock, ReceiveBlock, Quiescent, vars, bridgeVars
  <2> QED
    BY <1>2, <2>1 DEF PipelineInv
<1> QED
  BY <1>3, <1>4, <1>5, <1>6, <1>7 DEF Next

-----------------------------------------------------------------------------
(* The invariants hold from the start and for ever *)

(* Everything but the order of requests, in the first state. *)
LEMMA RefinementInit ==
    Init => ProtocolInv /\ ElInv /\ RecordedInv /\ PipelineInv
<1> SUFFICES ASSUME Init
             PROVE  ProtocolInv /\ ElInv /\ RecordedInv /\ PipelineInv
  OBVIOUS
<1> USE ChainNames, ProtocolAssumption
<1>1. ProtocolInv
  BY ProtocolInitInv, SimplexAssumption DEF Init, SimplexInit
<1>2. ElInv
  BY ChainAncestors DEF Init, ElInit, ElInv
<1>3. RecordedInv
  BY DEF Init, RecordedInv, Recorded, IdleActor, IdleFinalizer, Hash
<1>4. PipelineInv
  <2>1. Inv
    BY InitInv
  <2>2. Genesis \in ReportedHashes
    BY <2>1, GenesisReported
  <2>3. \A i \in 1..Len(sink) : FALSE
    BY DEF Init
  <2>4. /\ tracker = Genesis /\ actor.anchor = Genesis
        /\ finalizer.hash = Genesis /\ finalizer.pc = "idle"
    BY DEF Init, IdleActor, IdleFinalizer
  <2> QED
    BY <2>2, <2>3, <2>4 DEF PipelineInv
<1> QED
  BY <1>1, <1>2, <1>3, <1>4

(* What the refinement rests on. *)
RefinementInv == Inv /\ ProtocolInv /\ ElInv /\ RecordedInv /\ PipelineInv

(* It holds throughout every behaviour. *)
THEOREM RefinementInvariance == Spec => []RefinementInv
<1>1. Init => RefinementInv
  BY InitInv, RefinementInit DEF RefinementInv
<1>2. RefinementInv /\ [Next]_vars => RefinementInv'
  BY NextInv, ProtocolStep, ElStep, RecordedStep, PipelineStep
  DEF RefinementInv
<1> QED
  BY <1>1, <1>2, PTL DEF Spec

-----------------------------------------------------------------------------
(* Bridge implements Node *)

(* A step that leaves the stores and the executed blocks alone is none of  *)
(* the node's.                                                             *)
LEMMA NodeStutter ==
    ASSUME UNCHANGED <<blockInfo, pendingBlocks, receivedBlocks, elValid, tracker>>
    PROVE  UNCHANGED NodeView
BY DEF NodeView

(* The record of a block is that block's alone. *)
LEMMA RecordBlock ==
    ASSUME Inv, NEW b \in Blocks, blockInfo' = [blockInfo EXCEPT ![b] = b]
    PROVE  NodeView'.recorded = NodeView.recorded \cup {b}
<1>1. \A d \in Blocks : blockInfo'[d] # None <=> blockInfo[d] # None \/ d = b
  BY ProtocolAssumption DEF Inv, TypeOK, Digest
<1> QED
  BY <1>1 DEF NodeView

(* What the actor and the finalizer found recorded and executed is so for  *)
(* the node.                                                               *)
LEMMA NodeKnows ==
    ASSUME Inv, NEW d \in Digest, Recorded(HashOf(d)), HashOf(d) \in elValid
    PROVE  /\ N!Known(NodeView, d)
           /\ N!HashOf(d) = HashOf(d)
           /\ N!HashOf(d) \in NodeView.executed
BY DEF NodeView, Recorded, HashOf, Digest, N!Known, N!HashOf

(* A self-import that succeeds is the one step of a build. *)
LEMMA BuildRefines ==
    ASSUME RefinementInv, SelfImport
    PROVE  [N!Next]_NodeView
<1>1. PICK status \in PayloadStatus :
         /\ NewPayload(actor.block, status)
         /\ IF Imported(status)
              THEN FinishPropose(actor.block)
              ELSE DropResponder
  BY DEF SelfImport
<1>2. UNCHANGED <<receivedBlocks, tracker>> /\ actor.pc = "import"
  BY DEF SelfImport
<1>3. CASE ~Imported(status)
  <2>1. UNCHANGED <<blockInfo, pendingBlocks, elValid>>
    BY <1>1, <1>3 DEF Imported, DropResponder, NewPayload
  <2> QED
    BY <1>2, <2>1, NodeStutter
<1>4. CASE Imported(status)
  <2> DEFINE d == ParentDigest(actor.view)
             b == actor.block
  <2>1. /\ actor.view \in Views /\ actor.head \in {EMPTY, HashOf(d)}
        /\ b \in Children(actor.head) /\ b \in Blocks
        /\ actor.head \in elValid /\ Recorded(actor.head)
    BY <1>2
    DEF RefinementInv, Inv, TypeOK, ActorState, ActorInv, RecordedInv, Children
  <2>2. d \in Digest
    BY <2>1
    DEF RefinementInv, Inv, ViewsInv, TypeOK, SimplexTypeOK, ProtocolTypeOK,
        ParentDigest
  <2>3. actor.head = HashOf(d)
    BY <2>1, ChainNames DEF RefinementInv, Inv, TypeOK, ElTypeOK
  <2>4. N!CanBuild(NodeView, d, b)
    <3>1. Inv
      BY DEF RefinementInv
    <3> QED
      BY <2>1, <2>2, <2>3, <3>1, NodeKnows
      DEF N!CanBuild, Children, N!Children
  <2>5. /\ blockInfo' = [blockInfo EXCEPT ![b] = b]
        /\ pendingBlocks' = pendingBlocks \cup {b}
    BY <1>1, <1>4 DEF FinishPropose
  <2>6. NodeView'.recorded = NodeView.recorded \cup {b}
    BY <2>1, <2>5, RecordBlock DEF RefinementInv
  <2>7. \/ elValid' = elValid \cup {b}
        \/ Faults /\ elValid' = elValid
    BY <1>1, <1>4 DEF Imported, NewPayload
  <2>8. NodeView' \in N!AfterBuild(NodeView, b)
    <3> DEFINE S == [recorded : SUBSET Blocks, pending : SUBSET Blocks,
                     received : SUBSET Blocks, executed : SUBSET Hash,
                     tracker : Hash]
    <3>1. NodeView \in S /\ NodeView' \in S
      <4>1. Inv /\ Inv'
        BY SelfImportInv DEF RefinementInv
      <4> QED
        BY <4>1 DEF NodeView, Inv, TypeOK, ElTypeOK
    <3>2. /\ NodeView'.pending = NodeView.pending \cup {b}
          /\ NodeView'.received = NodeView.received
          /\ NodeView'.tracker = NodeView.tracker
          /\ \/ NodeView'.executed = NodeView.executed \cup {b}
             \/ Faults /\ NodeView'.executed = NodeView.executed
      BY <1>2, <2>5, <2>7 DEF NodeView
    <3> QED
      BY <2>6, <3>1, <3>2 DEF N!AfterBuild
  <2>9. N!Build(d, b)
    BY <2>4, <2>8 DEF N!Build
  <2> QED
    BY <2>1, <2>2, <2>9 DEF N!Next, N!Digest, Digest
<1> QED
  BY <1>3, <1>4

(* A validation that passes is the one step of a verification. *)
LEMMA VerifyRefines ==
    ASSUME RefinementInv, ValidateBlock
    PROVE  [N!Next]_NodeView
<1> DEFINE b == actor.block
<1>1. PICK status \in PayloadStatus :
         /\ NewPayload(b, status)
         /\ IF Passes(status)
              THEN /\ blockInfo' = [blockInfo EXCEPT ![b] = b]
                   /\ Resolve(actor.view, "yes")
              ELSE /\ Resolve(actor.view, "no")
                   /\ UNCHANGED blockInfo
  BY DEF ValidateBlock
<1>2. UNCHANGED <<pendingBlocks, receivedBlocks, tracker>> /\ actor.pc = "validate"
  BY DEF ValidateBlock
<1>3. CASE ~Passes(status)
  BY <1>1, <1>2, <1>3, NodeStutter DEF Passes, NewPayload
<1>4. CASE Passes(status)
  <2>1. b \in pendingBlocks \cup receivedBlocks /\ b \in Blocks
    BY <1>2 DEF RefinementInv, Inv, TypeOK, ActorInv
  <2>2. /\ Parent[b] \in elValid /\ elValid' = elValid \cup {b}
        /\ blockInfo' = [blockInfo EXCEPT ![b] = b]
    BY <1>1, <1>4 DEF Passes, NewPayload
  <2>3. NodeView'.recorded = NodeView.recorded \cup {b}
    BY <2>1, <2>2, RecordBlock DEF RefinementInv
  <2>4. N!CanVerify(NodeView, b)
    BY <2>1, <2>2 DEF NodeView, N!CanVerify, N!HasBytes
  <2>5. NodeView' = N!AfterVerify(NodeView, b)
    <3> DEFINE S == [recorded : SUBSET Blocks, pending : SUBSET Blocks,
                     received : SUBSET Blocks, executed : SUBSET Hash,
                     tracker : Hash]
    <3>1. NodeView \in S /\ NodeView' \in S
      <4>1. Inv /\ Inv'
        BY ValidateBlockInv DEF RefinementInv
      <4> QED
        BY <4>1 DEF NodeView, Inv, TypeOK, ElTypeOK
    <3>2. /\ NodeView'.pending = NodeView.pending
          /\ NodeView'.received = NodeView.received
          /\ NodeView'.tracker = NodeView.tracker
          /\ NodeView'.executed = NodeView.executed \cup {b}
      BY <1>2, <2>2 DEF NodeView
    <3> QED
      BY <2>3, <3>1, <3>2 DEF N!AfterVerify
  <2> QED
    BY <2>1, <2>4, <2>5 DEF N!Next, N!Verify
<1> QED
  BY <1>3, <1>4

(* The block receiver stores bytes and does nothing else. *)
LEMMA ReceiveRefines ==
    ASSUME RefinementInv, NEW b \in Blocks, ReceiveBlock(b)
    PROVE  [N!Next]_NodeView
<1>1. /\ UNCHANGED <<blockInfo, pendingBlocks, elValid, tracker>>
      /\ receivedBlocks' = receivedBlocks \cup {b}
  BY DEF ReceiveBlock, elVars
<1>2. NodeView' = N!AfterReceive(NodeView, b)
  <2> DEFINE S == [recorded : SUBSET Blocks, pending : SUBSET Blocks,
                   received : SUBSET Blocks, executed : SUBSET Hash,
                   tracker : Hash]
  <2>1. NodeView \in S /\ NodeView' \in S
    BY <1>1 DEF RefinementInv, NodeView, Inv, TypeOK, ElTypeOK
  <2>2. /\ NodeView'.recorded = NodeView.recorded
        /\ NodeView'.pending = NodeView.pending
        /\ NodeView'.received = NodeView.received \cup {b}
        /\ NodeView'.tracker = NodeView.tracker
        /\ NodeView'.executed = NodeView.executed
    BY <1>1 DEF NodeView
  <2> QED
    BY <2>1, <2>2 DEF N!AfterReceive
<1> QED
  BY <1>2 DEF N!Next, N!Receive

(* The tracker climbs to a block that is recorded and executed. *)
LEMMA ClimbRefines ==
    ASSUME RefinementInv, SetFinalized
    PROVE  [N!Next]_NodeView
<1> DEFINE h == finalizer.hash
           d == IF h = Genesis THEN EMPTY ELSE h
<1>1. /\ UNCHANGED <<blockInfo, pendingBlocks, receivedBlocks, elValid>>
      /\ tracker' = h /\ finalizer.pc = "set"
  BY DEF SetFinalized, elVars
<1>2. h \in Hash
  BY DEF RefinementInv, Inv, TypeOK, FinalizerState
<1>3. d \in Digest /\ HashOf(d) = h
  BY <1>2, ChainNames DEF Digest, Hash, HashOf
<1>4. Inv /\ Recorded(h) /\ h \in elValid /\ tracker \in Ancestors[h]
  BY <1>1 DEF RefinementInv, RecordedInv, PipelineInv
<1> HIDE DEF d
<1>5. N!CanFinalize(NodeView, d) /\ N!HashOf(d) = h
  BY <1>3, <1>4, NodeKnows DEF N!CanFinalize
<1>6. NodeView' = N!AfterFinalize(NodeView, d)
  BY <1>1, <1>5 DEF NodeView, N!AfterFinalize
<1>7. NodeView.tracker \in Ancestors[N!HashOf(d)]
  BY <1>4, <1>5 DEF NodeView
<1> QED
  BY <1>3, <1>5, <1>6, <1>7 DEF N!Next, N!Climb, N!Digest, Digest

(* A restart leaves a prefix of the canonical chain, which was executed. *)
LEMMA RestartRefines ==
    ASSUME RefinementInv, Restart
    PROVE  [N!Next]_NodeView
<1>1. PICK h \in Ancestors[elHead] : elValid' = Ancestors[h]
  BY DEF Restart, ElRestart
<1>2. h \in NodeView.executed
  BY DEF RefinementInv, ElInv, NodeView
<1>3. /\ blockInfo' = GenesisInfo /\ pendingBlocks' = {}
      /\ receivedBlocks' = {} /\ tracker' = Genesis
  BY DEF Restart
<1>4. {d \in Blocks : blockInfo'[d] # None} = {}
  BY <1>3, ChainNames DEF GenesisInfo, Digest, Hash
<1>5. NodeView' = N!StartState(Ancestors[h])
  BY <1>1, <1>3, <1>4 DEF NodeView, N!StartState
<1> QED
  BY <1>2, <1>5 DEF N!Next, N!Restart, N!AfterRestart

(* Every step of Bridge is a step of Node, or leaves the node alone. *)
LEMMA StepRefines == RefinementInv /\ [Next]_vars => [N!Next]_NodeView
<1> SUFFICES ASSUME RefinementInv, [Next]_vars PROVE [N!Next]_NodeView
  OBVIOUS
<1>1. CASE SelfImport \/ ValidateBlock \/ SetFinalized \/ Restart
  BY <1>1, BuildRefines, VerifyRefines, ClimbRefines, RestartRefines
<1>2. ASSUME NEW b \in Blocks, ReceiveBlock(b) PROVE [N!Next]_NodeView
  BY <1>2, ReceiveRefines
<1>3. CASE BuildFcu \/ FinalizerFcu
  BY <1>3, NodeStutter
  DEF BuildFcu, FinalizerFcu, ForkchoiceUpdated, DropResponder
<1>4. CASE \/ (\E p \in Views : Propose(p))
           \/ (\E p \in Views, l \in Validators, b \in Blocks :
                  Verify(p, l, b) \/ MissProposal(p, l, b))
           \/ AskAgain \/ Certificate \/ StartBuild \/ ResolvePayload
           \/ StartVerify \/ (\E v \in Views : Report(v)) \/ FinalizerNext
           \/ Quiescent \/ UNCHANGED vars
  <2>1. UNCHANGED <<blockInfo, pendingBlocks, receivedBlocks, elValid, tracker>>
    BY <1>4
    DEF Propose, Verify, MissProposal, Enqueue, AskAgain, Certificate,
        StartBuild, ResolvePayload, DropResponder, StartVerify, Report,
        FinalizerNext, Quiescent, vars, bridgeVars, elVars
  <2> QED
    BY <2>1, NodeStutter
<1> QED
  BY <1>1, <1>2, <1>3, <1>4 DEF Next

(* Through all awaits, retries, full channels, failing calls and restarts  *)
(* the node is one that handles every request in one step: it vouches only *)
(* for blocks it holds on executed parents, and its tracker only climbs,   *)
(* to recorded and executed blocks.                                        *)
THEOREM BridgeImplementsNode == Spec => ImplementsNode
<1>1. Init => N!Init
  <2>1. ASSUME Init PROVE {d \in Blocks : blockInfo[d] # None} = {}
    BY <2>1, ChainNames DEF Init, GenesisInfo, Digest, Hash
  <2> QED
    BY <2>1 DEF Init, ElInit, NodeView, N!Init, N!StartState
<1>2. RefinementInv /\ [Next]_vars => [N!Next]_NodeView
  BY StepRefines
<1> QED
  BY <1>1, <1>2, RefinementInvariance, PTL DEF Spec, ImplementsNode, N!Spec
=============================================================================

---------------------------- MODULE BridgeProofs ----------------------------
(***************************************************************************)
(* Proofs about Bridge, for every block tree, every number of views and    *)
(* every size of the mailbox and of the finalization channel.              *)
(*                                                                         *)
(* TypeOK is not inductive: the handlers apply block_info to the payload   *)
(* of a parent view, which must not be None.  AnchorsFinal is not          *)
(* inductive either: the answer to a propose request sets the payload of   *)
(* its view, which must not be a finalized view.  Inv adds what is         *)
(* missing, from which views are in the mailbox to what a build in         *)
(* progress carries.                                                       *)
(***************************************************************************)
EXTENDS Bridge, TLAPS

(* Views that have begun: notarized views have a payload, parents are      *)
(* notarized, and nothing is known of a view that has not begun.           *)
ViewsInv ==
    /\ 0 \in finalized /\ payload[0] = EMPTY
    /\ \A v \in notarized : payload[v] # None
    /\ \A v \in Views : parentView[v] \in notarized
    /\ finalized \subseteq notarized
    /\ \A v \in Views : v > view => payload[v] = None /\ request[v] = "none"

(* Requests under way: each is in the mailbox once or with the actor, and  *)
(* an own view has no payload before its request is answered.              *)
RequestsInv ==
    /\ \A i \in 1..Len(mailbox) : request[mailbox[i]] = "queued"
    /\ \A i, j \in 1..Len(mailbox) : mailbox[i] = mailbox[j] => i = j
    /\ actor.pc # "idle" => request[actor.view] = "running"
    /\ \A v \in Views :
          request[v] \in {"queued", "running"} /\ leader[v] = Self =>
              payload[v] = None

(* The actor's work: a build is for an own view and on top of the parent's *)
(* block, which the engine has executed once it started the payload job; a *)
(* validation is of the block of the view it is for.                       *)
ActorInv ==
    /\ actor.pc \in {"fcu", "resolve", "import"} =>
          /\ leader[actor.view] = Self
          /\ actor.head \in {EMPTY, HashOf(ParentDigest(actor.view))}
    /\ actor.pc \in {"resolve", "import"} => actor.head \in elValid
    /\ actor.pc = "import" => actor.block \in Children(actor.head)
    /\ actor.pc = "validate" =>
          /\ actor.block \in pendingBlocks \cup receivedBlocks
          /\ actor.block = payload[actor.view]

(* Records: a digest is recorded under its own hash; what waits for the    *)
(* finalizer was finalized.                                                *)
RecordsInv ==
    /\ \A d \in Digest : blockInfo[d] # None => blockInfo[d] = HashOf(d)
    /\ \A i \in 1..Len(sink) : \E v \in finalized : payload[v] = sink[i]

Inv ==
    /\ TypeOK
    /\ ViewsInv
    /\ RequestsInv
    /\ ActorInv
    /\ RecordsInv
    /\ AnchorsFinal
    /\ ProposalsExtendParent
    /\ VouchedIsHeld

-----------------------------------------------------------------------------
(* Calls of the execution layer keep its types and only add blocks. *)
LEMMA ForkchoiceType ==
    ASSUME NEW h, NEW f \in Hash, NEW status, NEW id, ElTypeOK,
           ForkchoiceUpdated(h, f, status, id)
    PROVE  /\ ElTypeOK'
           /\ elValid' = elValid
           /\ elAccepted' = elAccepted
           /\ elFinal' \in {elFinal, f}
           /\ id => h \in elValid
BY DEF ForkchoiceUpdated, ElTypeOK

(* new_payload only adds blocks, and adds the one it accepts. *)
LEMMA NewPayloadType ==
    ASSUME NEW b \in Blocks, NEW status, ElTypeOK, NewPayload(b, status)
    PROVE  /\ ElTypeOK'
           /\ elValid \subseteq elValid'
           /\ elAccepted \subseteq elAccepted'
           /\ elFinal' = elFinal
           /\ status \in {"VALID", "ACCEPTED"} => b \in elValid' \cup elAccepted'
           /\ status = "VALID" => b \in elValid'
BY DEF NewPayload, ElTypeOK, Hash

(* The initial states satisfy the invariant. *)
LEMMA InitInv == Init => Inv
<1> SUFFICES ASSUME Init PROVE Inv
  OBVIOUS
<1> USE ChainNames, SimplexAssumption, ProtocolAssumption, BridgeAssumption
    DEF Init, ElInit, SimplexInit, ProtocolInit, Views, Hash, Digest
<1>1. TypeOK
  <2>1. actor \in ActorState /\ finalizer \in FinalizerState
    BY DEF ActorState, IdleActor, FinalizerState, IdleFinalizer
  <2>2. blockInfo \in [Digest -> Hash \cup {None}]
    BY DEF GenesisInfo
  <2>3. ElTypeOK /\ SimplexTypeOK
    BY DEF ElTypeOK, SimplexTypeOK, ProtocolTypeOK
  <2> QED
    BY <2>1, <2>2, <2>3 DEF TypeOK, RequestState
<1>2. ViewsInv
  BY DEF ViewsInv
<1>3. RequestsInv /\ ActorInv
  BY DEF RequestsInv, ActorInv, IdleActor
<1>4. RecordsInv
  <2>1. \A d \in Digest : blockInfo[d] # None => blockInfo[d] = HashOf(d)
    BY DEF GenesisInfo, HashOf
  <2>2. \A i \in 1..Len(sink) : FALSE
    OBVIOUS
  <2> QED
    BY <2>1, <2>2, Zenon DEF RecordsInv
<1>5. AnchorsFinal
  BY DEF AnchorsFinal, FinalHashes, HashOf, IdleActor, IdleFinalizer
<1>6. ProposalsExtendParent /\ VouchedIsHeld
  BY DEF ProposalsExtendParent, VouchedIsHeld, IsPropose
<1> QED
  BY <1>1, <1>2, <1>3, <1>4, <1>5, <1>6 DEF Inv

(* The hash of a payload that is there. *)
LEMMA HashOfDigest == \A d \in Digest : HashOf(d) \in Hash
BY DEF HashOf, Digest, Hash

(* Genesis counts as finalized: view 0 carries it. *)
LEMMA GenesisFinal == Inv => Genesis \in FinalHashes
BY DEF Inv, ViewsInv, FinalHashes, HashOf

(* A build starts: its head is the parent's block or ZERO, its anchor final. *)
LEMMA StartBuildInv == Inv /\ StartBuild => Inv'
<1> SUFFICES ASSUME Inv, StartBuild PROVE Inv'
  OBVIOUS
<1> DEFINE v == Head(mailbox)
<1> USE ChainNames, SimplexAssumption, ProtocolAssumption, BridgeAssumption
<1>0. /\ UNCHANGED <<blockInfo, pendingBlocks, receivedBlocks, sink, finalizer,
                     tracker, restarts>>
      /\ UNCHANGED <<elValid, elAccepted, elHead, elFinal>>
      /\ UNCHANGED <<view, leader, parentView, payload, notarized, nullified,
                     finalized, reported>>
  BY DEF StartBuild, elVars, simplexVars
<1>1. v \in Views /\ ParentDigest(v) \in Digest /\ leader[v] = Self
  BY DEF Inv, TypeOK, SimplexTypeOK, ProtocolTypeOK, ViewsInv, ParentDigest,
      StartBuild, IsPropose
<1>2. /\ ParentHash(ParentDigest(v)) \in {EMPTY, HashOf(ParentDigest(v))}
      /\ ParentHash(ParentDigest(v)) \in Hash \cup {EMPTY}
  BY <1>1, HashOfDigest DEF Inv, TypeOK, RecordsInv, ParentHash
<1>3. actor' = [pc |-> "fcu", view |-> v, head |-> ParentHash(ParentDigest(v)),
                anchor |-> tracker, attempt |-> 0, block |-> None]
  BY DEF StartBuild, ForkchoiceOf, IdleActor
<1>4. mailbox' = Tail(mailbox) /\ request' = [request EXCEPT ![v] = "running"]
  BY DEF StartBuild
<1>5. /\ Len(mailbox') = Len(mailbox) - 1
      /\ \A i \in 1..Len(mailbox') : mailbox'[i] = mailbox[i + 1]
      /\ mailbox' \in Seq(Views)
      /\ v = mailbox[1] /\ Len(mailbox) \in Nat \ {0}
  BY <1>4 DEF Inv, TypeOK, StartBuild
<1>6. TypeOK'
  <2>1. actor' \in ActorState
    BY <1>1, <1>2, <1>3 DEF Inv, TypeOK, ActorState
  <2> QED
    BY <1>0, <1>4, <1>5, <2>1
    DEF Inv, TypeOK, ElTypeOK, SimplexTypeOK, ProtocolTypeOK, RequestState
<1>7. ViewsInv'
  <2>1. request[v] = "queued"
    BY <1>5 DEF Inv, RequestsInv
  <2> QED
    BY <1>0, <1>1, <1>4, <2>1 DEF Inv, TypeOK, ViewsInv
<1>8. RequestsInv'
  BY <1>0, <1>1, <1>3, <1>4, <1>5 DEF Inv, TypeOK, RequestsInv
<1>9. ActorInv'
  BY <1>0, <1>1, <1>2, <1>3 DEF ActorInv, ParentDigest
<1>10. RecordsInv' /\ ProposalsExtendParent'
  BY <1>0 DEF Inv, RecordsInv, ProposalsExtendParent, ParentDigest
<1>11. AnchorsFinal'
  BY <1>0, <1>3 DEF Inv, AnchorsFinal, FinalHashes
<1>12. VouchedIsHeld'
  BY <1>0, <1>1, <1>4 DEF Inv, TypeOK, VouchedIsHeld, IsPropose
<1> QED
  BY <1>6, <1>7, <1>8, <1>9, <1>10, <1>11, <1>12 DEF Inv

(* A build that has not ended leaves all but the actor alone; one that     *)
(* fails resolves its request and leaves the actor idle.                   *)
LEMMA ContinueInv ==
    ASSUME Inv, ElTypeOK', actor' \in ActorState,
           actor'.pc \in {"fcu", "resolve", "import"},
           actor.pc \in {"fcu", "resolve"},
           actor'.view = actor.view, actor'.head = actor.head,
           actor'.anchor = actor.anchor,
           actor'.pc \in {"resolve", "import"} => actor.head \in elValid,
           actor'.pc = "import" => actor'.block \in Children(actor.head),
           elValid' = elValid, elAccepted' = elAccepted,
           elFinal' \in {elFinal, actor.anchor},
           UNCHANGED <<mailbox, request, blockInfo, pendingBlocks,
                       receivedBlocks, sink, finalizer, tracker, restarts>>,
           UNCHANGED <<view, leader, parentView, payload, notarized, nullified,
                       finalized, reported>>
    PROVE  Inv'
<1>1. TypeOK'
  BY DEF Inv, TypeOK, SimplexTypeOK, ProtocolTypeOK
<1>2. ViewsInv' /\ RecordsInv' /\ ProposalsExtendParent' /\ VouchedIsHeld'
  BY DEF Inv, ViewsInv, RecordsInv, ProposalsExtendParent, VouchedIsHeld,
         IsPropose, ParentDigest
<1>3. RequestsInv' /\ ActorInv'
  BY DEF Inv, RequestsInv, ActorInv, ParentDigest
<1>4. AnchorsFinal'
  BY DEF Inv, AnchorsFinal, FinalHashes
<1> QED
  BY <1>1, <1>2, <1>3, <1>4 DEF Inv

(* A failed build drops its responder and leaves nothing behind. *)
LEMMA DropInv ==
    ASSUME Inv, ElTypeOK', DropResponder, actor.pc # "idle",
           elValid \subseteq elValid', elAccepted \subseteq elAccepted',
           elFinal' \in {elFinal, actor.anchor},
           UNCHANGED <<mailbox, receivedBlocks, sink, finalizer, tracker,
                       restarts>>
    PROVE  Inv'
<1> USE ChainNames, SimplexAssumption, ProtocolAssumption, BridgeAssumption
<1>0. /\ actor' = IdleActor
      /\ request' = [request EXCEPT ![actor.view] = "dropped"]
      /\ UNCHANGED <<blockInfo, pendingBlocks>>
      /\ UNCHANGED <<view, leader, parentView, payload, notarized, nullified,
                     finalized, reported>>
  BY DEF DropResponder, Resolve, simplexVars
<1>1. actor.view \in Views /\ request[actor.view] = "running"
  BY DEF Inv, TypeOK, ActorState, RequestsInv
<1>2. TypeOK'
  <2>1. actor' \in ActorState
    BY <1>0 DEF ActorState, IdleActor, Views, Hash
  <2> QED
    BY <1>0, <1>1, <2>1
    DEF Inv, TypeOK, SimplexTypeOK, ProtocolTypeOK, RequestState
<1>3. ViewsInv'
  BY <1>0, <1>1 DEF Inv, TypeOK, ViewsInv
<1>4. RequestsInv'
  BY <1>0, <1>1 DEF Inv, TypeOK, RequestsInv, IdleActor
<1>5. ActorInv'
  BY <1>0 DEF ActorInv, IdleActor
<1>6. RecordsInv' /\ ProposalsExtendParent'
  BY <1>0 DEF Inv, RecordsInv, ProposalsExtendParent, ParentDigest
<1>7. AnchorsFinal'
  <2>1. Genesis \in FinalHashes
    BY GenesisFinal
  <2> QED
    BY <1>0, <2>1 DEF Inv, AnchorsFinal, FinalHashes, IdleActor
<1>8. VouchedIsHeld'
  BY <1>0, <1>1 DEF Inv, TypeOK, VouchedIsHeld, IsPropose
<1> QED
  BY <1>2, <1>3, <1>4, <1>5, <1>6, <1>7, <1>8 DEF Inv

(* An attempt of a build may move the finalized pointer, to its anchor only. *)
LEMMA BuildFcuInv == Inv /\ BuildFcu => Inv'
<1> SUFFICES ASSUME Inv, BuildFcu PROVE Inv'
  OBVIOUS
<1>1. PICK status \in PayloadStatus, id \in BOOLEAN :
        /\ ForkchoiceUpdated(actor.head, actor.anchor, status, id)
        /\ \/ /\ id
              /\ actor' = [actor EXCEPT !.pc = "resolve"]
              /\ UNCHANGED <<request, blockInfo, pendingBlocks, simplexVars>>
           \/ /\ NextAttempt(actor.attempt) < FcuAttempts
              /\ actor' = [actor EXCEPT !.attempt = NextAttempt(actor.attempt)]
              /\ UNCHANGED <<request, blockInfo, pendingBlocks, simplexVars>>
           \/ DropResponder
  BY DEF BuildFcu
<1>2. /\ actor.pc = "fcu" /\ actor \in ActorState /\ actor.anchor \in Hash
      /\ UNCHANGED <<mailbox, receivedBlocks, sink, finalizer, tracker,
                     restarts>>
  BY DEF BuildFcu, Inv, TypeOK, ActorState
<1>3. /\ ElTypeOK' /\ elValid' = elValid /\ elAccepted' = elAccepted
      /\ elFinal' \in {elFinal, actor.anchor}
      /\ id => actor.head \in elValid
  BY <1>1, <1>2, ForkchoiceType DEF Inv, TypeOK
<1>4. CASE /\ id
           /\ actor' = [actor EXCEPT !.pc = "resolve"]
           /\ UNCHANGED <<request, blockInfo, pendingBlocks, simplexVars>>
  <2>1. /\ actor' \in ActorState /\ actor'.pc = "resolve"
        /\ actor'.view = actor.view /\ actor'.head = actor.head
        /\ actor'.anchor = actor.anchor
    BY <1>2, <1>4 DEF ActorState
  <2> QED
    BY <1>2, <1>3, <1>4, <2>1, ContinueInv DEF simplexVars
<1>5. CASE /\ NextAttempt(actor.attempt) < FcuAttempts
           /\ actor' = [actor EXCEPT !.attempt = NextAttempt(actor.attempt)]
           /\ UNCHANGED <<request, blockInfo, pendingBlocks, simplexVars>>
  <2>1. /\ actor' \in ActorState /\ actor'.pc = "fcu"
        /\ actor'.view = actor.view /\ actor'.head = actor.head
        /\ actor'.anchor = actor.anchor
    BY <1>2, <1>5, BridgeAssumption DEF ActorState, NextAttempt
  <2> QED
    BY <1>2, <1>3, <1>5, <2>1, ContinueInv DEF simplexVars
<1>6. CASE DropResponder
  BY <1>2, <1>3, <1>6, DropInv
<1> QED
  BY <1>1, <1>4, <1>5, <1>6

(* A resolved payload is a child of the head the build asked for. *)
LEMMA ResolvePayloadInv == Inv /\ ResolvePayload => Inv'
<1> SUFFICES ASSUME Inv, ResolvePayload PROVE Inv'
  OBVIOUS
<1>1. /\ actor.pc = "resolve" /\ actor \in ActorState
      /\ UNCHANGED <<mailbox, receivedBlocks, sink, finalizer, tracker,
                     restarts>>
      /\ UNCHANGED <<elValid, elAccepted, elHead, elFinal>>
  BY DEF ResolvePayload, Inv, TypeOK, elVars
<1>2. ElTypeOK'
  BY <1>1 DEF Inv, TypeOK, ElTypeOK
<1>3. CASE DropResponder
  BY <1>1, <1>2, <1>3, DropInv
<1>4. ASSUME NEW b \in Children(actor.head),
             actor' = [actor EXCEPT !.pc = "import", !.block = b],
             UNCHANGED <<request, blockInfo, pendingBlocks, simplexVars>>
      PROVE  Inv'
  <2>1. b \in Blocks
    BY DEF Children
  <2>2. /\ actor' \in ActorState /\ actor'.pc = "import"
        /\ actor'.view = actor.view /\ actor'.head = actor.head
        /\ actor'.anchor = actor.anchor /\ actor'.block = b
    BY <1>1, <1>4, <2>1 DEF ActorState
  <2>3. actor.head \in elValid
    BY <1>1 DEF Inv, ActorInv
  <2> QED
    BY <1>1, <1>2, <1>4, <2>2, <2>3, ContinueInv DEF simplexVars
<1> QED
  BY <1>3, <1>4 DEF ResolvePayload

(* A block answered to propose is held, imported and on its parent. *)
LEMMA SelfImportInv == Inv /\ SelfImport => Inv'
<1> SUFFICES ASSUME Inv, SelfImport PROVE Inv'
  OBVIOUS
<1> DEFINE v == actor.view
           b == actor.block
<1> USE ChainNames, SimplexAssumption, ProtocolAssumption, BridgeAssumption
<1>1. PICK status \in PayloadStatus :
        /\ NewPayload(b, status)
        /\ \/ status \in {"VALID", "ACCEPTED"} /\ FinishPropose(b)
           \/ DropResponder
  BY DEF SelfImport, Imported
<1>2. /\ actor.pc = "import" /\ v \in Views
      /\ UNCHANGED <<mailbox, receivedBlocks, sink, finalizer, tracker,
                     restarts>>
  BY DEF SelfImport, Inv, TypeOK, ActorState
<1>3. /\ b \in Blocks
      /\ actor.head = HashOf(ParentDigest(v))
      /\ b \in Children(HashOf(ParentDigest(v)))
      /\ Parent[b] \in elValid /\ leader[v] = Self
  BY <1>2, ChainParents DEF Inv, ActorInv, Children, Hash
<1>4. /\ ElTypeOK'
      /\ elValid \subseteq elValid' /\ elAccepted \subseteq elAccepted'
      /\ elFinal' = elFinal
      /\ status \in {"VALID", "ACCEPTED"} => b \in elValid' \cup elAccepted'
  BY <1>1, <1>3, NewPayloadType DEF Inv, TypeOK
<1>5. CASE DropResponder
  BY <1>2, <1>4, <1>5, DropInv
<1>6. CASE status \in {"VALID", "ACCEPTED"} /\ FinishPropose(b)
  <2>0. /\ blockInfo' = [blockInfo EXCEPT ![b] = b]
        /\ pendingBlocks' = pendingBlocks \cup {b}
        /\ actor' = IdleActor
        /\ request' = [request EXCEPT ![v] = "yes"]
        /\ payload' = [payload EXCEPT ![v] = b]
        /\ UNCHANGED <<view, leader, parentView, notarized, nullified,
                       finalized, reported>>
    BY <1>6 DEF FinishPropose, Resolve, Proposed
  <2>1. request[v] = "running" /\ payload[v] = None
    BY <1>2 DEF Inv, RequestsInv, ActorInv
  <2>2. \A u \in notarized : u # v /\ payload'[u] = payload[u]
    BY <2>0, <2>1 DEF Inv, TypeOK, SimplexTypeOK, ProtocolTypeOK, ViewsInv
  <2>3. b \in Digest /\ b # EMPTY /\ b # None /\ HashOf(b) = b
    BY <1>3 DEF Digest, Hash, HashOf
  <2>4. \A u \in Views : ParentDigest(u)' = ParentDigest(u)
    BY <2>0, <2>2 DEF Inv, ViewsInv, ParentDigest
  <2>5. TypeOK'
    <3>1. actor' \in ActorState
      BY <2>0 DEF ActorState, IdleActor, Views, Hash
    <3> QED
      BY <1>2, <1>3, <1>4, <2>0, <2>3, <3>1
      DEF Inv, TypeOK, SimplexTypeOK, ProtocolTypeOK, RequestState, Hash
  <2>6. ViewsInv'
    BY <1>2, <2>0, <2>1, <2>2
    DEF Inv, TypeOK, SimplexTypeOK, ProtocolTypeOK, ViewsInv
  <2>7. RequestsInv'
    BY <1>2, <2>0, <2>1
    DEF Inv, TypeOK, SimplexTypeOK, ProtocolTypeOK, RequestsInv, IdleActor
  <2>8. ActorInv'
    BY <2>0 DEF ActorInv, IdleActor
  <2>9. RecordsInv'
    <3>1. \A d \in Digest : blockInfo'[d] # None => blockInfo'[d] = HashOf(d)
      BY <2>0, <2>3 DEF Inv, TypeOK, RecordsInv
    <3>2. \A i \in 1..Len(sink) : \E u \in finalized : payload'[u] = sink[i]
      BY <2>2 DEF Inv, RecordsInv, ViewsInv
    <3> QED
      BY <1>2, <2>0, <3>1, <3>2 DEF RecordsInv, HashOf
  <2>10. AnchorsFinal'
    <3>1. FinalHashes' = FinalHashes
      BY <2>0, <2>2 DEF Inv, ViewsInv, FinalHashes
    <3> QED
      BY <1>2, <1>4, <2>0, <3>1, GenesisFinal DEF Inv, AnchorsFinal, IdleActor
  <2>11. ProposalsExtendParent'
    <3> SUFFICES ASSUME NEW u \in 1..view, payload'[u] # None
                 PROVE  payload'[u] \in Children(HashOf(ParentDigest(u)'))
      BY <2>0 DEF ProposalsExtendParent
    <3>1. /\ view \in Nat /\ 1..view \subseteq Views
          /\ payload \in [Views -> Digest \cup {None}]
      BY DEF Inv, TypeOK, SimplexTypeOK, ProtocolTypeOK, Views
    <3>2. ParentDigest(u)' = ParentDigest(u)
      BY <2>4, <3>1
    <3>3. CASE u = v
      BY <1>2, <1>3, <2>0, <3>1, <3>2, <3>3
    <3>4. CASE u # v
      <4>1. payload'[u] = payload[u]
        BY <2>0, <3>1, <3>4
      <4> QED
        BY <3>2, <4>1 DEF Inv, ProposalsExtendParent
    <3> QED
      BY <3>3, <3>4
  <2>12. VouchedIsHeld'
    BY <1>2, <1>3, <1>4, <1>6, <2>0, <2>1, <2>3
    DEF Inv, TypeOK, SimplexTypeOK, ProtocolTypeOK, VouchedIsHeld, IsPropose
  <2> QED
    BY <2>5, <2>6, <2>7, <2>8, <2>9, <2>10, <2>11, <2>12 DEF Inv
<1> QED
  BY <1>1, <1>5, <1>6

(* A verification starts with bytes that are held, or answers false. *)
LEMMA StartVerifyInv == Inv /\ StartVerify => Inv'
<1> SUFFICES ASSUME Inv, StartVerify PROVE Inv'
  OBVIOUS
<1> DEFINE v == Head(mailbox)
<1> USE ChainNames, SimplexAssumption, ProtocolAssumption, BridgeAssumption
<1>0. /\ UNCHANGED <<blockInfo, pendingBlocks, receivedBlocks, sink, finalizer,
                     tracker, restarts>>
      /\ UNCHANGED <<elValid, elAccepted, elHead, elFinal>>
      /\ UNCHANGED <<view, leader, parentView, payload, notarized, nullified,
                     finalized, reported>>
  BY DEF StartVerify, elVars, simplexVars
<1>1. mailbox' = Tail(mailbox) /\ mailbox # <<>>
  BY DEF StartVerify
<1>2. /\ Len(mailbox') = Len(mailbox) - 1
      /\ \A i \in 1..Len(mailbox') : /\ mailbox'[i] = mailbox[i + 1]
                                    /\ i + 1 \in 2..Len(mailbox)
      /\ mailbox' \in Seq(Views)
      /\ v = mailbox[1] /\ Len(mailbox) \in Nat \ {0} /\ v \in Views
  BY <1>1 DEF Inv, TypeOK
<1>3. request[v] = "queued"
  BY <1>2 DEF Inv, RequestsInv
<1>4. PICK s \in {"running", "no"} :
        /\ request' = [request EXCEPT ![v] = s]
        /\ \/ actor' = IdleActor
           \/ /\ s = "running"
              /\ actor' = [pc |-> "validate", view |-> v, head |-> EMPTY,
                           anchor |-> Genesis, attempt |-> 0,
                           block |-> payload[v]]
              /\ payload[v] \in pendingBlocks \cup receivedBlocks
  BY DEF StartVerify, Verifiable, Resolve, IdleActor
<1>5. leader[v] # Self
  BY DEF StartVerify, IsPropose
<1>6. TypeOK'
  <2>1. actor' \in ActorState
    BY <1>2, <1>4 DEF Inv, TypeOK, ActorState, IdleActor, Views, Hash
  <2> QED
    BY <1>0, <1>2, <1>4, <2>1
    DEF Inv, TypeOK, ElTypeOK, SimplexTypeOK, ProtocolTypeOK, RequestState
<1>7. ViewsInv'
  BY <1>0, <1>2, <1>3, <1>4 DEF Inv, TypeOK, ViewsInv
<1>8. RequestsInv'
  <2>1. \A i \in 1..Len(mailbox') : /\ mailbox'[i] \in Views
                                    /\ mailbox'[i] # v
                                    /\ request'[mailbox'[i]] = "queued"
    <3> SUFFICES ASSUME NEW i \in 1..Len(mailbox')
                 PROVE  /\ mailbox'[i] \in Views
                        /\ mailbox'[i] # v
                        /\ request'[mailbox'[i]] = "queued"
      OBVIOUS
    <3>1. i + 1 \in 1..Len(mailbox) /\ i + 1 # 1 /\ 1 \in 1..Len(mailbox)
      BY <1>2
    <3>2. mailbox[i + 1] \in Views /\ mailbox[i + 1] # v
      BY <1>2, <3>1 DEF Inv, TypeOK, RequestsInv
    <3> QED
      BY <1>2, <1>4, <3>1, <3>2 DEF Inv, TypeOK, RequestsInv
  <2>2. \A i, j \in 1..Len(mailbox') : mailbox'[i] = mailbox'[j] => i = j
    <3> SUFFICES ASSUME NEW i \in 1..Len(mailbox'), NEW j \in 1..Len(mailbox'),
                        mailbox'[i] = mailbox'[j]
                 PROVE  i = j
      OBVIOUS
    <3>1. i + 1 \in 1..Len(mailbox) /\ j + 1 \in 1..Len(mailbox)
      BY <1>2
    <3>2. i + 1 = j + 1
      BY <1>2, <3>1 DEF Inv, RequestsInv
    <3> QED
      BY <1>2, <3>2
  <2>3. actor'.pc # "idle" => request'[actor'.view] = "running"
    BY <1>2, <1>4 DEF Inv, TypeOK, IdleActor
  <2> QED
    BY <1>0, <1>2, <1>4, <1>5, <2>1, <2>2, <2>3 DEF Inv, TypeOK, RequestsInv
<1>9. ActorInv'
  BY <1>0, <1>4 DEF ActorInv, IdleActor
<1>10. RecordsInv' /\ ProposalsExtendParent'
  BY <1>0 DEF Inv, RecordsInv, ProposalsExtendParent, ParentDigest
<1>11. AnchorsFinal'
  BY <1>0, <1>4, GenesisFinal DEF Inv, AnchorsFinal, FinalHashes, IdleActor
<1>12. VouchedIsHeld'
  BY <1>0, <1>2, <1>4 DEF Inv, TypeOK, VouchedIsHeld, IsPropose
<1> QED
  BY <1>6, <1>7, <1>8, <1>9, <1>10, <1>11, <1>12 DEF Inv

(* A block answered with true was found VALID and is recorded. *)
LEMMA ValidateBlockInv == Inv /\ ValidateBlock => Inv'
<1> SUFFICES ASSUME Inv, ValidateBlock PROVE Inv'
  OBVIOUS
<1> DEFINE v == actor.view
           b == actor.block
<1> USE ChainNames, SimplexAssumption, ProtocolAssumption, BridgeAssumption
<1>0. /\ UNCHANGED <<mailbox, pendingBlocks, receivedBlocks, sink, finalizer,
                     tracker, restarts>>
      /\ UNCHANGED <<view, leader, parentView, payload, notarized, nullified,
                     finalized, reported>>
      /\ actor' = IdleActor
  BY DEF ValidateBlock, simplexVars, Resolve
<1>1. PICK status \in PayloadStatus :
        /\ NewPayload(b, status)
        /\ \/ /\ status = "VALID"
              /\ blockInfo' = [blockInfo EXCEPT ![b] = b]
              /\ request' = [request EXCEPT ![v] = "yes"]
           \/ /\ blockInfo' = blockInfo
              /\ request' = [request EXCEPT ![v] = "no"]
  BY DEF ValidateBlock, Passes, Resolve
<1>2. /\ v \in Views /\ request[v] = "running"
      /\ b \in pendingBlocks \cup receivedBlocks /\ b = payload[v]
      /\ b \in Blocks
  BY DEF ValidateBlock, Inv, TypeOK, ActorState, RequestsInv, ActorInv
<1>3. /\ ElTypeOK'
      /\ elValid \subseteq elValid' /\ elAccepted \subseteq elAccepted'
      /\ elFinal' = elFinal
      /\ status = "VALID" => b \in elValid'
  BY <1>1, <1>2, NewPayloadType DEF Inv, TypeOK
<1>4. b \in Digest /\ b # EMPTY /\ b # None /\ HashOf(b) = b /\ b \in Hash
  BY <1>2 DEF Digest, Hash, HashOf
<1>5. TypeOK'
  <2>1. actor' \in ActorState
    BY <1>0 DEF ActorState, IdleActor, Views, Hash
  <2> QED
    BY <1>0, <1>1, <1>2, <1>3, <1>4, <2>1
    DEF Inv, TypeOK, SimplexTypeOK, ProtocolTypeOK, RequestState
<1>6. ViewsInv'
  BY <1>0, <1>1, <1>2 DEF Inv, TypeOK, ViewsInv
<1>7. RequestsInv'
  BY <1>0, <1>1, <1>2 DEF Inv, TypeOK, RequestsInv, IdleActor
<1>8. ActorInv'
  BY <1>0 DEF ActorInv, IdleActor
<1>9. RecordsInv'
  BY <1>0, <1>1, <1>4 DEF Inv, TypeOK, RecordsInv
<1>10. AnchorsFinal'
  BY <1>0, <1>3, GenesisFinal DEF Inv, AnchorsFinal, FinalHashes, IdleActor
<1>11. ProposalsExtendParent'
  BY <1>0 DEF Inv, ProposalsExtendParent, ParentDigest
<1>12. VouchedIsHeld'
  <2> SUFFICES ASSUME NEW u \in Views, request'[u] = "yes"
               PROVE  /\ blockInfo'[payload[u]] = payload[u]
                      /\ IF leader[u] = Self
                           THEN /\ Parent[payload[u]] \in elValid'
                                /\ payload[u] \in elValid' \cup elAccepted'
                                /\ payload[u] \in pendingBlocks
                           ELSE /\ payload[u] \in elValid'
                                /\ payload[u] \in pendingBlocks
                                                     \cup receivedBlocks
    BY <1>0 DEF VouchedIsHeld, IsPropose
  <2>1. CASE u = v
    <3>1. leader[v] # Self
      BY <1>2, <1>4 DEF Inv, RequestsInv
    <3> QED
      BY <1>1, <1>2, <1>3, <1>4, <2>1, <3>1 DEF Inv, TypeOK
  <2>2. CASE u # v
    <3>1. request[u] = "yes"
      BY <1>1, <1>2, <2>2 DEF Inv, TypeOK
    <3>2. payload[u] \in Digest
      BY <3>1 DEF Inv, TypeOK, VouchedIsHeld, IsPropose, Digest
    <3> QED
      BY <1>1, <1>3, <1>4, <3>1, <3>2 DEF Inv, TypeOK, VouchedIsHeld, IsPropose
  <2> QED
    BY <2>1, <2>2
<1> QED
  BY <1>5, <1>6, <1>7, <1>8, <1>9, <1>10, <1>11, <1>12 DEF Inv

(* Bytes that arrive are added to what is held. *)
LEMMA ReceiveBlockInv ==
    ASSUME NEW b \in Blocks, Inv, ReceiveBlock(b)
    PROVE  Inv'
<1>1. /\ UNCHANGED <<mailbox, request, actor, blockInfo, pendingBlocks, sink,
                     finalizer, tracker, restarts>>
      /\ UNCHANGED <<elValid, elAccepted, elHead, elFinal>>
      /\ UNCHANGED <<view, leader, parentView, payload, notarized, nullified,
                     finalized, reported>>
      /\ receivedBlocks' = receivedBlocks \cup {b}
  BY DEF ReceiveBlock, elVars, simplexVars
<1>2. TypeOK'
  BY <1>1 DEF Inv, TypeOK, ElTypeOK, SimplexTypeOK, ProtocolTypeOK
<1>3. ViewsInv' /\ RequestsInv' /\ ActorInv' /\ RecordsInv'
  BY <1>1 DEF Inv, ViewsInv, RequestsInv, ActorInv, RecordsInv, ParentDigest
<1>4. AnchorsFinal' /\ ProposalsExtendParent' /\ VouchedIsHeld'
  BY <1>1 DEF Inv, AnchorsFinal, FinalHashes, ProposalsExtendParent,
              VouchedIsHeld, IsPropose, ParentDigest
<1> QED
  BY <1>2, <1>3, <1>4 DEF Inv

(* What the reporter sends, if there is room, was finalized. *)
LEMMA ReportInv ==
    ASSUME NEW v \in Views, Inv, Report(v)
    PROVE  Inv'
<1>1. /\ UNCHANGED <<mailbox, request, actor, blockInfo, pendingBlocks,
                     receivedBlocks, finalizer, tracker, restarts>>
      /\ UNCHANGED <<elValid, elAccepted, elHead, elFinal>>
      /\ UNCHANGED <<view, leader, parentView, payload, notarized, nullified,
                     finalized>>
      /\ reported' = v /\ v \in finalized
      /\ \/ sink' = sink
         \/ sink' = Append(sink, payload[v]) /\ Len(sink) < SinkSize
  BY DEF Report, ReportedNow, protocolVars, TrySend, elVars
<1>2. payload[v] \in Digest
  BY <1>1 DEF Inv, TypeOK, SimplexTypeOK, ProtocolTypeOK, ViewsInv
<1>3. TypeOK'
  <2>1. sink' \in Seq(Digest) /\ Len(sink') <= SinkSize
    BY <1>1, <1>2, BridgeAssumption DEF Inv, TypeOK
  <2> QED
    BY <1>1, <2>1 DEF Inv, TypeOK, ElTypeOK, SimplexTypeOK, ProtocolTypeOK
<1>4. RecordsInv'
  <2>1. \A i \in 1..Len(sink') : \E u \in finalized : payload[u] = sink'[i]
    <3>1. CASE sink' = sink
      BY <3>1 DEF Inv, RecordsInv
    <3>2. CASE sink' = Append(sink, payload[v])
      <4>1. /\ Len(sink) \in Nat /\ Len(sink') = Len(sink) + 1
            /\ sink'[Len(sink) + 1] = payload[v]
            /\ \A i \in 1..Len(sink) : sink'[i] = sink[i]
        BY <1>2, <3>2 DEF Inv, TypeOK
      <4> SUFFICES ASSUME NEW i \in 1..Len(sink')
                   PROVE  \E u \in finalized : payload[u] = sink'[i]
        OBVIOUS
      <4>2. CASE i \in 1..Len(sink)
        BY <4>1, <4>2 DEF Inv, RecordsInv
      <4>3. CASE i = Len(sink) + 1
        BY <1>1, <4>1, <4>3
      <4> QED
        BY <4>1, <4>2, <4>3
    <3> QED
      BY <1>1, <3>1, <3>2
  <2> QED
    BY <1>1, <2>1 DEF Inv, RecordsInv
<1>5. ViewsInv' /\ RequestsInv' /\ ActorInv'
  BY <1>1 DEF Inv, ViewsInv, RequestsInv, ActorInv, ParentDigest
<1>6. AnchorsFinal' /\ ProposalsExtendParent' /\ VouchedIsHeld'
  BY <1>1 DEF Inv, AnchorsFinal, FinalHashes, ProposalsExtendParent,
              VouchedIsHeld, IsPropose, ParentDigest
<1> QED
  BY <1>3, <1>4, <1>5, <1>6 DEF Inv

(* A step of the finalizer: whatever it takes up was finalized. *)
LEMMA FinalizerInv ==
    ASSUME Inv, ElTypeOK', finalizer' \in FinalizerState,
           finalizer'.hash \in FinalHashes,
           tracker' \in {tracker, finalizer.hash},
           elFinal' \in {elFinal, finalizer.hash},
           elValid' = elValid, elAccepted' = elAccepted,
           sink' \in {sink, Tail(sink)}, sink' = sink \/ sink # <<>>,
           UNCHANGED <<mailbox, request, actor, blockInfo, pendingBlocks,
                       receivedBlocks, restarts>>,
           UNCHANGED <<view, leader, parentView, payload, notarized, nullified,
                       finalized, reported>>
    PROVE  Inv'
<1>1. /\ sink' \in Seq(Digest) /\ Len(sink') <= SinkSize
      /\ \A i \in 1..Len(sink') : \E j \in 1..Len(sink) : sink'[i] = sink[j]
  <2>1. CASE sink' = sink
    BY <2>1 DEF Inv, TypeOK
  <2>2. CASE sink' = Tail(sink) /\ sink # <<>>
    <3>1. /\ sink' \in Seq(Digest) /\ Len(sink) \in Nat
          /\ Len(sink') = Len(sink) - 1
          /\ \A i \in 1..Len(sink') : sink'[i] = sink[i + 1]
      BY <2>2 DEF Inv, TypeOK
    <3> QED
      BY <3>1, BridgeAssumption DEF Inv, TypeOK
  <2> QED
    BY <2>1, <2>2
<1>2. finalizer.hash \in Hash
  BY DEF Inv, TypeOK, FinalizerState
<1>3. TypeOK'
  BY <1>1, <1>2 DEF Inv, TypeOK, SimplexTypeOK, ProtocolTypeOK
<1>4. RecordsInv'
  BY <1>1 DEF Inv, RecordsInv
<1>5. ViewsInv' /\ RequestsInv' /\ ActorInv'
  BY DEF Inv, ViewsInv, RequestsInv, ActorInv, ParentDigest
<1>6. AnchorsFinal' /\ ProposalsExtendParent' /\ VouchedIsHeld'
  BY DEF Inv, AnchorsFinal, FinalHashes, ProposalsExtendParent,
         VouchedIsHeld, IsPropose, ParentDigest
<1> QED
  BY <1>3, <1>4, <1>5, <1>6 DEF Inv

(* The finalizer takes up a finalized digest, or skips it. *)
LEMMA FinalizerNextInv == Inv /\ FinalizerNext => Inv'
<1> SUFFICES ASSUME Inv, FinalizerNext PROVE Inv'
  OBVIOUS
<1>1. /\ UNCHANGED <<mailbox, request, actor, blockInfo, pendingBlocks,
                     receivedBlocks, tracker, restarts>>
      /\ UNCHANGED <<elValid, elAccepted, elHead, elFinal>>
      /\ UNCHANGED <<view, leader, parentView, payload, notarized, nullified,
                     finalized, reported>>
      /\ sink # <<>> /\ sink' = Tail(sink)
  BY DEF FinalizerNext, elVars, simplexVars
<1>2. PICK v \in finalized : payload[v] = Head(sink)
  <2>1. Head(sink) = sink[1] /\ 1 \in 1..Len(sink)
    BY <1>1 DEF Inv, TypeOK
  <2> QED
    BY <2>1 DEF Inv, RecordsInv
<1>3. Head(sink) \in Digest
  BY <1>1 DEF Inv, TypeOK
<1>4. finalizer' \in FinalizerState /\ finalizer'.hash \in FinalHashes
  <2>1. CASE finalizer' = finalizer
    BY <2>1 DEF Inv, TypeOK, AnchorsFinal
  <2>2. CASE /\ blockInfo[Head(sink)] # None
             /\ finalizer' = [pc |-> "fcu", hash |-> blockInfo[Head(sink)]]
    <3>1. blockInfo[Head(sink)] = HashOf(payload[v])
      BY <1>2, <1>3, <2>2 DEF Inv, RecordsInv
    <3>2. HashOf(payload[v]) \in Hash
      BY <1>2, <1>3, HashOfDigest
    <3> QED
      BY <1>2, <2>2, <3>1, <3>2 DEF FinalHashes, FinalizerState
  <2> QED
    BY <2>1, <2>2 DEF FinalizerNext, Lookup
<1>5. ElTypeOK'
  BY <1>1 DEF Inv, TypeOK, ElTypeOK
<1> QED
  BY <1>1, <1>4, <1>5, FinalizerInv

(* The finalizer's FCU moves the finalized pointer to a final block. *)
LEMMA FinalizerFcuInv == Inv /\ FinalizerFcu => Inv'
<1> SUFFICES ASSUME Inv, FinalizerFcu PROVE Inv'
  OBVIOUS
<1>1. PICK status \in PayloadStatus, id \in BOOLEAN :
        ForkchoiceUpdated(finalizer.hash, finalizer.hash, status, id)
  BY DEF FinalizerFcu
<1>2. /\ UNCHANGED <<mailbox, request, actor, blockInfo, pendingBlocks,
                     receivedBlocks, sink, tracker, restarts>>
      /\ UNCHANGED <<view, leader, parentView, payload, notarized, nullified,
                     finalized, reported>>
  BY DEF FinalizerFcu, simplexVars
<1>3. finalizer \in FinalizerState /\ finalizer.hash \in Hash
  BY DEF Inv, TypeOK, FinalizerState
<1>4. /\ ElTypeOK' /\ elValid' = elValid /\ elAccepted' = elAccepted
      /\ elFinal' \in {elFinal, finalizer.hash}
  BY <1>1, <1>3, ForkchoiceType DEF Inv, TypeOK
<1>5. finalizer' \in FinalizerState /\ finalizer'.hash \in FinalHashes
  BY <1>3, GenesisFinal
  DEF FinalizerFcu, FcuSucceeded, FinalizerState, IdleFinalizer, Hash, Inv,
      AnchorsFinal
<1> QED
  BY <1>2, <1>4, <1>5, FinalizerInv

(* The tracker takes over what the FCU succeeded for. *)
LEMMA SetFinalizedInv == Inv /\ SetFinalized => Inv'
<1> SUFFICES ASSUME Inv, SetFinalized PROVE Inv'
  OBVIOUS
<1>1. /\ UNCHANGED <<mailbox, request, actor, blockInfo, pendingBlocks,
                     receivedBlocks, sink, restarts>>
      /\ UNCHANGED <<elValid, elAccepted, elHead, elFinal>>
      /\ UNCHANGED <<view, leader, parentView, payload, notarized, nullified,
                     finalized, reported>>
      /\ tracker' = finalizer.hash /\ finalizer' = IdleFinalizer
  BY DEF SetFinalized, elVars, simplexVars
<1>2. ElTypeOK'
  BY <1>1 DEF Inv, TypeOK, ElTypeOK
<1>3. finalizer' \in FinalizerState /\ finalizer'.hash \in FinalHashes
  BY <1>1, GenesisFinal DEF FinalizerState, IdleFinalizer, Hash
<1> QED
  BY <1>1, <1>2, <1>3, FinalizerInv

(* A view begins: with or without a request for it.                        *)
LEMMA EnterViewInv ==
    ASSUME NEW p \in Views, NEW l \in Validators, NEW d \in Digest \cup {None},
           Inv, EnterView(p, l), payload' = [payload EXCEPT ![view + 1] = d],
           l = Self => d = None,
           d # None => d \in Children(HashOf(payload[p])),
           \/ UNCHANGED <<mailbox, request>>
           \/ /\ Len(mailbox) < MailboxSize
              /\ mailbox' = Append(mailbox, view + 1)
              /\ request' = [request EXCEPT ![view + 1] = "queued"],
           UNCHANGED <<actor, blockInfo, pendingBlocks, receivedBlocks, sink,
                       finalizer, tracker, restarts>>,
           UNCHANGED <<elValid, elAccepted, elHead, elFinal, reported>>
    PROVE  Inv'
<1> USE ChainNames, SimplexAssumption, ProtocolAssumption, BridgeAssumption
<1> DEFINE w == view + 1
<1>0. /\ w \in Views /\ w # 0 /\ view' = w /\ p \in notarized
      /\ leader' = [leader EXCEPT ![w] = l]
      /\ parentView' = [parentView EXCEPT ![w] = p]
      /\ nullified' \subseteq Views
      /\ UNCHANGED <<notarized, finalized, reported>>
  <2>1. view \in Nat /\ view < MaxView /\ p \in Nat /\ nullified \subseteq Views
    BY DEF EnterView, Inv, TypeOK, SimplexTypeOK, ProtocolTypeOK, Views
  <2>2. w \in Views /\ w # 0 /\ ((p + 1)..view) \subseteq Views
    BY <2>1 DEF Views
  <2> QED
    BY <2>1, <2>2 DEF EnterView
<1>1. payload[w] = None /\ request[w] = "none"
  BY <1>0 DEF Inv, ViewsInv, TypeOK, SimplexTypeOK, ProtocolTypeOK, Views
<1>2. \A u \in Views \ {w} : /\ payload'[u] = payload[u]
                             /\ leader'[u] = leader[u]
                             /\ parentView'[u] = parentView[u]
                             /\ request'[u] = request[u]
  BY <1>0 DEF Inv, TypeOK, SimplexTypeOK, ProtocolTypeOK
<1>3. \A u \in notarized : u # w /\ payload'[u] = payload[u] /\ u \in Views
  BY <1>1, <1>2 DEF Inv, ViewsInv, TypeOK, SimplexTypeOK, ProtocolTypeOK
<1>4. \A u \in Views \ {w} : ParentDigest(u)' = ParentDigest(u)
  BY <1>2, <1>3 DEF Inv, ViewsInv, ParentDigest
<1>5. /\ payload'[w] = d /\ leader'[w] = l /\ parentView'[w] = p
      /\ request'[w] \in {"none", "queued"}
      /\ payload'[parentView'[w]] = payload[p]
  <2>1. payload'[w] = d /\ leader'[w] = l /\ parentView'[w] = p
    BY <1>0 DEF Inv, TypeOK, SimplexTypeOK, ProtocolTypeOK
  <2>2. request'[w] \in {"none", "queued"}
    BY <1>0, <1>1 DEF Inv, TypeOK
  <2>3. payload'[parentView'[w]] = payload[p]
    BY <1>0, <1>3, <2>1
  <2> QED
    BY <2>1, <2>2, <2>3
<1>6. /\ mailbox' \in Seq(Views) /\ Len(mailbox') <= MailboxSize
      /\ \A i \in 1..Len(mailbox) : mailbox[i] \in Views \ {w}
      /\ \/ UNCHANGED <<mailbox, request>>
         \/ /\ Len(mailbox) \in Nat /\ Len(mailbox') = Len(mailbox) + 1
            /\ mailbox'[Len(mailbox) + 1] = w
            /\ \A i \in 1..Len(mailbox) : mailbox'[i] = mailbox[i]
            /\ request'[w] = "queued"
  <2>1. \A i \in 1..Len(mailbox) : mailbox[i] \in Views \ {w}
    BY <1>1 DEF Inv, TypeOK, RequestsInv
  <2>2. CASE UNCHANGED <<mailbox, request>>
    BY <2>1, <2>2 DEF Inv, TypeOK
  <2>3. CASE /\ Len(mailbox) < MailboxSize
             /\ mailbox' = Append(mailbox, w)
             /\ request' = [request EXCEPT ![w] = "queued"]
    <3>1. mailbox \in Seq(Views) /\ Len(mailbox) \in Nat
      BY DEF Inv, TypeOK
    <3>2. request'[w] = "queued"
      BY <1>0, <2>3 DEF Inv, TypeOK
    <3> QED
      BY <1>0, <2>1, <2>3, <3>1, <3>2
  <2> QED
    BY <2>2, <2>3
<1>7. TypeOK'
  <2>1. SimplexTypeOK'
    BY <1>0 DEF Inv, TypeOK, SimplexTypeOK, ProtocolTypeOK
  <2>2. request' \in [Views -> RequestState]
    BY <1>0 DEF Inv, TypeOK, RequestState
  <2> QED
    BY <1>6, <2>1, <2>2 DEF Inv, TypeOK, ElTypeOK
<1>8. ViewsInv'
  <2>1. \A u \in Views : u > w => payload'[u] = None /\ request'[u] = "none"
    <3>1. \A u \in Views : u > w => u > view /\ u \in Views \ {w}
      BY DEF Inv, TypeOK, SimplexTypeOK, ProtocolTypeOK, Views
    <3> QED
      BY <1>2, <3>1 DEF Inv, ViewsInv
  <2>2. \A u \in Views : parentView'[u] \in notarized
    BY <1>0, <1>2, <1>5 DEF Inv, ViewsInv
  <2> QED
    BY <1>0, <1>3, <2>1, <2>2 DEF Inv, ViewsInv
<1>9. RequestsInv'
  <2>1. \A i \in 1..Len(mailbox') : request'[mailbox'[i]] = "queued"
    BY <1>2, <1>6 DEF Inv, RequestsInv
  <2>2. \A i, j \in 1..Len(mailbox') : mailbox'[i] = mailbox'[j] => i = j
    BY <1>6 DEF Inv, RequestsInv
  <2>3. actor'.pc # "idle" => request'[actor'.view] = "running"
    BY <1>1, <1>2 DEF Inv, RequestsInv, TypeOK, ActorState
  <2>4. \A u \in Views :
           request'[u] \in {"queued", "running"} /\ leader'[u] = Self =>
               payload'[u] = None
    BY <1>0, <1>2, <1>5 DEF Inv, RequestsInv
  <2> QED
    BY <2>1, <2>2, <2>3, <2>4 DEF RequestsInv
<1>10. ActorInv'
  <2>1. actor.pc # "idle" => actor.view \in Views \ {w}
    BY <1>1 DEF Inv, RequestsInv, TypeOK, ActorState
  <2> QED
    BY <1>2, <1>4, <2>1 DEF Inv, ActorInv
<1>11. RecordsInv'
  BY <1>0, <1>3 DEF Inv, RecordsInv, ViewsInv
<1>12. AnchorsFinal'
  <2>1. FinalHashes' = FinalHashes
    BY <1>0, <1>3 DEF Inv, ViewsInv, FinalHashes
  <2> QED
    BY <2>1 DEF Inv, AnchorsFinal
<1>13. ProposalsExtendParent'
  <2> SUFFICES ASSUME NEW u \in 1..w, payload'[u] # None
               PROVE  payload'[u] \in Children(HashOf(payload'[parentView'[u]]))
    BY <1>0 DEF ProposalsExtendParent, ParentDigest, HashOf, Children
  <2>1. CASE u = w
    BY <1>5, <2>1
  <2>2. CASE u # w
    <3>1. u \in 1..view /\ u \in Views \ {w}
      BY <1>0, <2>2 DEF Inv, TypeOK, SimplexTypeOK, ProtocolTypeOK, Views
    <3> QED
      BY <1>2, <1>4, <3>1 DEF Inv, ProposalsExtendParent, ParentDigest
  <2> QED
    BY <2>1, <2>2
<1>14. VouchedIsHeld'
  BY <1>0, <1>2, <1>5 DEF Inv, VouchedIsHeld, IsPropose
<1> QED
  BY <1>7, <1>8, <1>9, <1>10, <1>11, <1>12, <1>13, <1>14 DEF Inv

(* A view this node leads begins. *)
LEMMA ProposeInv ==
    ASSUME NEW p \in Views, Inv, Propose(p)
    PROVE  Inv'
<1>1. payload' = [payload EXCEPT ![view + 1] = None]
  <2>1. payload[view + 1] = None /\ view + 1 \in Views
    BY SimplexAssumption, ProtocolAssumption
    DEF Propose, Lead, EnterView, Inv, ViewsInv, TypeOK, SimplexTypeOK,
        ProtocolTypeOK, Views
  <2> QED
    BY <2>1 DEF Propose, Lead, Inv, TypeOK, SimplexTypeOK, ProtocolTypeOK
<1> QED
  BY <1>1, EnterViewInv, SimplexAssumption, ProtocolAssumption
  DEF Propose, Lead, Enqueue, elVars

(* A view another node leads begins, with or without a verify request. *)
LEMMA VerifyInv ==
    ASSUME NEW p \in Views, NEW l \in Validators, NEW b \in Blocks, Inv,
           Verify(p, l, b) \/ MissProposal(p, l, b)
    PROVE  Inv'
<1>1. b \in Digest \cup {None}
  BY DEF Digest
<1>2. CASE Verify(p, l, b)
  BY <1>1, <1>2, EnterViewInv DEF Verify, Follow, Enqueue, elVars
<1>3. CASE MissProposal(p, l, b)
  BY <1>1, <1>3, EnterViewInv DEF MissProposal, Follow, bridgeVars, elVars
<1> QED
  BY <1>2, <1>3

(* After a restart the request of the current view is made again. *)
LEMMA AskAgainInv == Inv /\ AskAgain => Inv'
<1> SUFFICES ASSUME Inv, AskAgain PROVE Inv'
  OBVIOUS
<1>0. /\ UNCHANGED <<actor, blockInfo, pendingBlocks, receivedBlocks, sink,
                     finalizer, tracker, restarts>>
      /\ UNCHANGED <<elValid, elAccepted, elHead, elFinal>>
      /\ UNCHANGED <<view, leader, parentView, payload, notarized, nullified,
                     finalized, reported>>
      /\ mailbox' = Append(mailbox, view) /\ Len(mailbox) < MailboxSize
      /\ request' = [request EXCEPT ![view] = "queued"]
      /\ request[view] = "lost" /\ (leader[view] = Self => payload[view] = None)
  BY DEF AskAgain, Enqueue, elVars, simplexVars
<1>1. view \in Views /\ Len(mailbox) \in Nat /\ mailbox \in Seq(Views)
  BY DEF Inv, TypeOK, SimplexTypeOK, ProtocolTypeOK
<1>2. /\ mailbox' \in Seq(Views) /\ Len(mailbox') = Len(mailbox) + 1
      /\ mailbox'[Len(mailbox) + 1] = view
      /\ \A i \in 1..Len(mailbox) : mailbox'[i] = mailbox[i]
  BY <1>0, <1>1
<1>3. \A i \in 1..Len(mailbox) : mailbox[i] \in Views \ {view}
  BY <1>0, <1>1 DEF Inv, RequestsInv
<1>4. TypeOK'
  BY <1>0, <1>1, <1>2, BridgeAssumption
  DEF Inv, TypeOK, ElTypeOK, SimplexTypeOK, ProtocolTypeOK, RequestState
<1>5. ViewsInv'
  BY <1>0, <1>1 DEF Inv, TypeOK, ViewsInv
<1>6. RequestsInv'
  <2>1. \A i \in 1..Len(mailbox') : request'[mailbox'[i]] = "queued"
    BY <1>0, <1>1, <1>2, <1>3 DEF Inv, TypeOK, RequestsInv
  <2>2. \A i, j \in 1..Len(mailbox') : mailbox'[i] = mailbox'[j] => i = j
    BY <1>1, <1>2, <1>3 DEF Inv, RequestsInv
  <2> QED
    BY <1>0, <1>1, <2>1, <2>2 DEF Inv, TypeOK, ActorState, RequestsInv
<1>7. ActorInv' /\ RecordsInv' /\ ProposalsExtendParent'
  BY <1>0 DEF Inv, ActorInv, RecordsInv, ProposalsExtendParent, ParentDigest
<1>8. AnchorsFinal' /\ VouchedIsHeld'
  BY <1>0, <1>1
  DEF Inv, TypeOK, AnchorsFinal, FinalHashes, VouchedIsHeld, IsPropose
<1> QED
  BY <1>4, <1>5, <1>6, <1>7, <1>8 DEF Inv

(* Certificates only add notarized and finalized views. *)
LEMMA CertificateInv == Inv /\ Certificate => Inv'
<1> SUFFICES ASSUME Inv, Certificate PROVE Inv'
  OBVIOUS
<1>0. /\ UNCHANGED <<mailbox, request, actor, blockInfo, pendingBlocks,
                     receivedBlocks, sink, finalizer, tracker, restarts>>
      /\ UNCHANGED <<elValid, elAccepted, elHead, elFinal>>
  BY DEF Certificate, bridgeVars, elVars
<1>1. /\ UNCHANGED <<view, leader, parentView, payload, nullified, reported>>
      /\ notarized \subseteq notarized' /\ finalized \subseteq finalized'
      /\ finalized' \subseteq notarized' /\ notarized' \subseteq Views
      /\ \A v \in notarized' : payload[v] # None
  BY SimplexAssumption, ProtocolAssumption
  DEF Certificate, Notarize, Finalize, Inv, ViewsInv, TypeOK, SimplexTypeOK,
      ProtocolTypeOK, Views
<1>2. TypeOK'
  BY <1>0, <1>1 DEF Inv, TypeOK, ElTypeOK, SimplexTypeOK, ProtocolTypeOK
<1>3. ViewsInv'
  BY <1>0, <1>1 DEF Inv, ViewsInv
<1>4. RequestsInv' /\ ActorInv' /\ ProposalsExtendParent' /\ VouchedIsHeld'
  BY <1>0, <1>1
  DEF Inv, RequestsInv, ActorInv, ProposalsExtendParent, VouchedIsHeld,
      IsPropose, ParentDigest
<1>5. RecordsInv' /\ AnchorsFinal'
  BY <1>0, <1>1 DEF Inv, RecordsInv, AnchorsFinal, FinalHashes
<1> QED
  BY <1>2, <1>3, <1>4, <1>5 DEF Inv

(* After a restart what survives is still finalized and on its parent. *)
LEMMA RestartInv == Inv /\ Restart => Inv'
<1> SUFFICES ASSUME Inv, Restart PROVE Inv'
  OBVIOUS
<1> USE ChainNames, SimplexAssumption, ProtocolAssumption, BridgeAssumption
<1>0. /\ mailbox' = <<>> /\ sink' = <<>> /\ restarts' \in 0..MaxRestarts
      /\ request' = [v \in Views |->
                       IF request[v] = "none" THEN "none" ELSE "lost"]
      /\ actor' = IdleActor /\ finalizer' = IdleFinalizer
      /\ blockInfo' = GenesisInfo /\ tracker' = Genesis
      /\ pendingBlocks' = {} /\ receivedBlocks' = {}
  BY DEF Restart, Inv, TypeOK
<1>1. /\ ElTypeOK' /\ elFinal' \in {elFinal, Genesis}
  BY ChainAncestors DEF Restart, ElRestart, Inv, TypeOK, ElTypeOK, Hash
<1>2. /\ UNCHANGED <<view, leader, parentView, payload, notarized, nullified,
                     finalized>>
      /\ reported' \in Views
  BY DEF Restart, SimplexRestart, protocolVars, Inv, TypeOK, SimplexTypeOK,
      ProtocolTypeOK, Views
<1>3. TypeOK'
  <2>1. actor' \in ActorState /\ finalizer' \in FinalizerState
    BY <1>0
    DEF ActorState, IdleActor, FinalizerState, IdleFinalizer, Views, Hash
  <2>2. blockInfo' \in [Digest -> Hash \cup {None}] /\ tracker' \in Hash
    BY <1>0 DEF GenesisInfo, Hash
  <2>3. mailbox' \in Seq(Views) /\ Len(mailbox') <= MailboxSize
    BY <1>0
  <2>4. sink' \in Seq(Digest) /\ Len(sink') <= SinkSize
    BY <1>0
  <2>5. request' \in [Views -> RequestState]
    BY <1>0 DEF RequestState
  <2> QED
    BY <1>0, <1>1, <1>2, <2>1, <2>2, <2>3, <2>4, <2>5
    DEF Inv, TypeOK, SimplexTypeOK, ProtocolTypeOK
<1>4. ViewsInv'
  BY <1>0, <1>2 DEF Inv, ViewsInv
<1>5. RequestsInv' /\ ActorInv'
  BY <1>0, <1>2 DEF RequestsInv, ActorInv, IdleActor
<1>6. RecordsInv'
  <2>1. \A d \in Digest : blockInfo'[d] # None => blockInfo'[d] = HashOf(d)
    BY <1>0 DEF GenesisInfo, HashOf
  <2>2. \A i \in 1..Len(sink') : FALSE
    BY <1>0
  <2> QED
    BY <2>1, <2>2, Zenon DEF RecordsInv, HashOf
<1>7. AnchorsFinal'
  BY <1>0, <1>1, <1>2, GenesisFinal
  DEF Inv, AnchorsFinal, FinalHashes, IdleActor, IdleFinalizer
<1>8. ProposalsExtendParent' /\ VouchedIsHeld'
  BY <1>0, <1>2
  DEF Inv, ProposalsExtendParent, VouchedIsHeld, IsPropose, ParentDigest
<1> QED
  BY <1>3, <1>4, <1>5, <1>6, <1>7, <1>8 DEF Inv

-----------------------------------------------------------------------------
(* Stuttering keeps the invariant. *)
LEMMA UnchangedInv == Inv /\ UNCHANGED vars => Inv'
<1> SUFFICES ASSUME Inv, UNCHANGED vars PROVE Inv'
  OBVIOUS
<1>1. /\ UNCHANGED <<mailbox, request, actor, blockInfo, pendingBlocks,
                     receivedBlocks, sink, finalizer, tracker, restarts>>
      /\ UNCHANGED <<elValid, elAccepted, elHead, elFinal>>
      /\ UNCHANGED <<view, leader, parentView, payload, notarized, nullified,
                     finalized, reported>>
  BY DEF vars, bridgeVars, elVars, simplexVars
<1>2. TypeOK' /\ ViewsInv' /\ RequestsInv'
  BY <1>1
  DEF Inv, TypeOK, ElTypeOK, SimplexTypeOK, ProtocolTypeOK, ViewsInv,
      RequestsInv
<1>3. ActorInv' /\ RecordsInv' /\ AnchorsFinal'
  BY <1>1
  DEF Inv, ActorInv, RecordsInv, AnchorsFinal, FinalHashes, ParentDigest
<1>4. ProposalsExtendParent' /\ VouchedIsHeld'
  BY <1>1
  DEF Inv, ProposalsExtendParent, VouchedIsHeld, IsPropose, ParentDigest
<1> QED
  BY <1>2, <1>3, <1>4 DEF Inv

(* Every step of the node and of its surroundings keeps the invariant. *)
LEMMA NextInv == Inv /\ [Next]_vars => Inv'
<1> SUFFICES ASSUME Inv, [Next]_vars PROVE Inv'
  OBVIOUS
<1>1. ASSUME NEW p \in Views, Propose(p) PROVE Inv'
  BY <1>1, ProposeInv
<1>2. ASSUME NEW p \in Views, NEW l \in Validators, NEW b \in Blocks,
             Verify(p, l, b) \/ MissProposal(p, l, b)
      PROVE  Inv'
  BY <1>2, VerifyInv
<1>3. CASE AskAgain
  BY <1>3, AskAgainInv
<1>4. CASE Certificate
  BY <1>4, CertificateInv
<1>5. CASE StartBuild
  BY <1>5, StartBuildInv
<1>6. CASE BuildFcu
  BY <1>6, BuildFcuInv
<1>7. CASE ResolvePayload
  BY <1>7, ResolvePayloadInv
<1>8. CASE SelfImport
  BY <1>8, SelfImportInv
<1>9. CASE StartVerify
  BY <1>9, StartVerifyInv
<1>10. CASE ValidateBlock
  BY <1>10, ValidateBlockInv
<1>11. ASSUME NEW b \in Blocks, ReceiveBlock(b) PROVE Inv'
  BY <1>11, ReceiveBlockInv
<1>12. ASSUME NEW v \in Views, Report(v) PROVE Inv'
  BY <1>12, ReportInv
<1>13. CASE FinalizerNext
  BY <1>13, FinalizerNextInv
<1>14. CASE FinalizerFcu
  BY <1>14, FinalizerFcuInv
<1>15. CASE SetFinalized
  BY <1>15, SetFinalizedInv
<1>16. CASE Restart
  BY <1>16, RestartInv
<1>17. CASE Quiescent \/ UNCHANGED vars
  BY <1>17, UnchangedInv DEF Quiescent
<1> QED
  BY <1>1, <1>2, <1>3, <1>4, <1>5, <1>6, <1>7, <1>8, <1>9, <1>10, <1>11,
     <1>12, <1>13, <1>14, <1>15, <1>16, <1>17 DEF Next

(* The inductive invariant holds throughout every behaviour. *)
THEOREM Invariance == Spec => []Inv
BY InitInv, NextInv, PTL DEF Spec

(* The node's state keeps its types: no handler looks up a payload that    *)
(* is not there, and no channel grows past its capacity.                   *)
THEOREM TypeCorrect == Spec => []TypeOK
<1>1. Inv => TypeOK
  BY DEF Inv
<1> QED
  BY <1>1, Invariance, PTL

(* Nothing but blocks finalized by consensus is ever presented to, or held *)
(* by, the execution layer as finalized, across retries and restarts.      *)
THEOREM AnchorsAreFinal == Spec => []AnchorsFinal
<1>1. Inv => AnchorsFinal
  BY DEF Inv
<1> QED
  BY <1>1, Invariance, PTL

(* handle_propose never answers EMPTY nor a block on another parent. *)
THEOREM ProposalsAreOnParent == Spec => []ProposalsExtendParent
<1>1. Inv => ProposalsExtendParent
  BY DEF Inv
<1> QED
  BY <1>1, Invariance, PTL

(* A peer's block the node answered with true since it started is recorded,*)
(* executed and held; an own block it answered is on an executed parent,   *)
(* known to the engine and where the relay looks for it.                   *)
THEOREM VouchedBlocksHeld == Spec => []VouchedIsHeld
<1>1. Inv => VouchedIsHeld
  BY DEF Inv
<1> QED
  BY <1>1, Invariance, PTL
=============================================================================

-------------------------- MODULE ForkchoiceProofs --------------------------
(***************************************************************************)
(* As long as no block is proposed twice, a build never moves the          *)
(* canonical chain off what was finalized, for every block tree, number of *)
(* views, size of the channels and number of restarts.                     *)
(*                                                                         *)
(* The parent of a build and the block it is anchored at come from two     *)
(* sources: the engine names the one, the finalizer records the other.     *)
(* What relates them is the order in which the actor works.  A recorded    *)
(* block belongs to a view answered before the views still to be dealt     *)
(* with (OrderInv); if the block is final, its view is not nullified, so   *)
(* that every later proposal is above it (OneChainInv of ProtocolProofs).  *)
(* The argument needs the view of a block to be unique (DistinctInv),      *)
(* which it is not when a block is rebuilt.                                *)
(***************************************************************************)
EXTENDS BridgeRefinement

(* No block is carried by two views, nor about to be. *)
DistinctInv ==
    /\ \A v, w \in Views :
          payload[v] # None /\ payload[v] = payload[w] => v = w
    /\ actor.pc = "import" => \A v \in Views : payload[v] # actor.block

(* View u was dealt with before anything the actor has still to do. *)
Before(u) ==
    /\ \A i \in 1..Len(mailbox) : u < mailbox[i]
    /\ actor.pc # "idle" => u < actor.view

(* Requests are in the order of views, and a recorded block is one the     *)
(* actor answered before those that are left.                              *)
OrderInv ==
    /\ \A i, j \in 1..Len(mailbox) : i < j => mailbox[i] < mailbox[j]
    /\ actor.pc # "idle" => \A i \in 1..Len(mailbox) : actor.view < mailbox[i]
    /\ \A d \in Blocks : blockInfo[d] # None =>
          \E u \in Views : payload[u] = d /\ request[u] = "yes" /\ Before(u)

(* The canonical chain goes through what was finalized. *)
HeadInv ==
    /\ HeadExtendsTracker
    /\ finalizer.pc = "set" => finalizer.hash \in Ancestors[elHead]

-----------------------------------------------------------------------------
(* The order of requests *)

(* A record outlives every step that neither revokes the answer it came    *)
(* with nor lets its view be asked for again.                              *)
LEMMA RecordsInOrder ==
    ASSUME OrderInv, blockInfo' = blockInfo,
           \A u \in Views : request[u] = "yes" /\ Before(u) =>
               /\ request'[u] = "yes" /\ Before(u)'
               /\ payload[u] \in Blocks => payload'[u] = payload[u]
    PROVE  \A d \in Blocks : blockInfo'[d] # None =>
               \E u \in Views :
                   payload'[u] = d /\ request'[u] = "yes" /\ Before(u)'
<1> SUFFICES ASSUME NEW d \in Blocks, blockInfo[d] # None
             PROVE  \E u \in Views :
                       payload'[u] = d /\ request'[u] = "yes" /\ Before(u)'
  OBVIOUS
<1>1. PICK u \in Views : payload[u] = d /\ request[u] = "yes" /\ Before(u)
  BY DEF OrderInv
<1> QED
  BY <1>1

(* Requests and the actor are in views that have begun. *)
LEMMA RequestsBegun ==
    ASSUME Inv
    PROVE  /\ view \in Nat
           /\ \A v \in Views : v \in Nat /\ (request[v] # "none" => v <= view)
           /\ Len(mailbox) \in Nat
           /\ \A i \in 1..Len(mailbox) :
                 /\ mailbox[i] \in Views /\ request[mailbox[i]] = "queued"
                 /\ mailbox[i] <= view
           /\ actor.view \in Views
           /\ actor.pc # "idle" =>
                 request[actor.view] = "running" /\ actor.view <= view
<1>1. view \in Nat /\ \A v \in Views : v \in Nat
  BY ProtocolAssumption DEF Inv, TypeOK, SimplexTypeOK, ProtocolTypeOK, Views
<1>2. \A v \in Views : request[v] # "none" => v <= view
  BY <1>1 DEF Inv, ViewsInv
<1>3. Len(mailbox) \in Nat /\ actor.view \in Views
  BY DEF Inv, TypeOK, ActorState
<1>4. \A i \in 1..Len(mailbox) :
         mailbox[i] \in Views /\ request[mailbox[i]] = "queued"
  BY DEF Inv, TypeOK, RequestsInv
<1>5. actor.pc # "idle" => request[actor.view] = "running"
  BY DEF Inv, RequestsInv
<1> QED
  BY <1>1, <1>2, <1>3, <1>4, <1>5

(* A request joins the mailbox behind everything that was asked before. *)
LEMMA EnqueueOrder ==
    ASSUME Inv, OrderInv, NEW v \in Views, Enqueue(v),
           \A u \in Views : request[u] \in {"queued", "running", "yes"} => u < v,
           \A u \in Views : u < v => payload'[u] = payload[u]
    PROVE  OrderInv'
<1>1. /\ mailbox' = Append(mailbox, v) /\ actor' = actor
      /\ blockInfo' = blockInfo
      /\ request' = [request EXCEPT ![v] = "queued"]
  BY DEF Enqueue
<1>2. /\ Len(mailbox) \in Nat /\ Len(mailbox') = Len(mailbox) + 1
      /\ mailbox'[Len(mailbox) + 1] = v
      /\ \A i \in 1..Len(mailbox) : mailbox'[i] = mailbox[i]
  BY <1>1 DEF Inv, TypeOK
<1>3. \A i \in 1..Len(mailbox') : i \in 1..Len(mailbox) \/ i = Len(mailbox) + 1
  BY <1>2
<1>4. \A i \in 1..Len(mailbox) : mailbox[i] < v
  BY RequestsBegun
<1>5. actor.pc # "idle" => actor.view < v
  BY RequestsBegun
<1>6. ASSUME NEW i \in 1..Len(mailbox'), NEW j \in 1..Len(mailbox'), i < j
      PROVE  mailbox'[i] < mailbox'[j]
  <2>1. i \in 1..Len(mailbox)
    BY <1>2, <1>6
  <2>2. CASE j \in 1..Len(mailbox)
    BY <1>2, <1>6, <2>1, <2>2 DEF OrderInv
  <2>3. CASE j = Len(mailbox) + 1
    BY <1>2, <1>4, <2>1, <2>3
  <2> QED
    BY <1>3, <2>2, <2>3
<1>7. actor.pc # "idle" => \A i \in 1..Len(mailbox') : actor.view < mailbox'[i]
  BY <1>2, <1>3, <1>5 DEF OrderInv
<1>8. ASSUME NEW u \in Views, request[u] = "yes", Before(u)
      PROVE  /\ request'[u] = "yes" /\ Before(u)'
             /\ payload'[u] = payload[u]
  <2>1. u < v /\ u \in Nat /\ v \in Nat
    BY <1>8, RequestsBegun
  <2>2. request'[u] = "yes"
    BY <1>1, <1>8, <2>1 DEF Inv, TypeOK
  <2>3. \A i \in 1..Len(mailbox') : u < mailbox'[i]
    BY <1>2, <1>3, <1>8, <2>1 DEF Before
  <2> QED
    BY <1>1, <1>8, <2>1, <2>2, <2>3 DEF Before
<1>9. \A d \in Blocks : blockInfo'[d] # None =>
         \E u \in Views : payload'[u] = d /\ request'[u] = "yes" /\ Before(u)'
  BY <1>1, <1>8, RecordsInOrder
<1> QED
  BY <1>1, <1>6, <1>7, <1>9 DEF OrderInv

(* The actor takes the first request. *)
LEMMA TakeOrder ==
    ASSUME Inv, OrderInv, mailbox # <<>>, actor.pc = "idle",
           mailbox' = Tail(mailbox), blockInfo' = blockInfo,
           payload' = payload,
           actor'.pc = "idle" \/ actor'.view = Head(mailbox),
           NEW answer,
           request' = [request EXCEPT ![Head(mailbox)] = answer]
    PROVE  OrderInv'
<1>1. /\ Len(mailbox) \in Nat /\ Len(mailbox') = Len(mailbox) - 1
      /\ Head(mailbox) = mailbox[1] /\ 1 \in 1..Len(mailbox)
      /\ \A i \in 1..Len(mailbox') :
            /\ mailbox'[i] = mailbox[i + 1] /\ i \in Int
            /\ i + 1 \in 1..Len(mailbox) /\ 1 < i + 1
  BY DEF Inv, TypeOK
<1>2. ASSUME NEW i \in 1..Len(mailbox'), NEW j \in 1..Len(mailbox'), i < j
      PROVE  mailbox'[i] < mailbox'[j]
  <2>1. i + 1 < j + 1
    BY <1>1, <1>2
  <2> QED
    BY <1>1, <2>1 DEF OrderInv
<1>3. \A i \in 1..Len(mailbox') : Head(mailbox) < mailbox'[i]
  BY <1>1 DEF OrderInv
<1>4. ASSUME NEW u \in Views, request[u] = "yes", Before(u)
      PROVE  request'[u] = "yes" /\ Before(u)'
  <2>1. request[Head(mailbox)] = "queued" /\ Head(mailbox) \in Views
    BY <1>1, RequestsBegun
  <2>2. request'[u] = "yes"
    BY <1>4, <2>1 DEF Inv, TypeOK
  <2>3. u < Head(mailbox) /\ \A i \in 1..Len(mailbox') : u < mailbox'[i]
    BY <1>1, <1>4 DEF Before
  <2> QED
    BY <2>2, <2>3 DEF Before
<1>5. \A d \in Blocks : blockInfo'[d] # None =>
         \E u \in Views : payload'[u] = d /\ request'[u] = "yes" /\ Before(u)'
  BY <1>4, RecordsInOrder
<1> QED
  BY <1>2, <1>3, <1>5 DEF OrderInv

(* The actor goes on with its request. *)
LEMMA ContinueOrder ==
    ASSUME OrderInv, actor.pc # "idle", actor'.view = actor.view,
           UNCHANGED <<mailbox, request, payload, blockInfo>>
    PROVE  OrderInv'
<1>1. \A u \in Views : Before(u) => Before(u)'
  BY DEF Before
<1>2. \A d \in Blocks : blockInfo'[d] # None =>
         \E u \in Views : payload'[u] = d /\ request'[u] = "yes" /\ Before(u)'
  BY <1>1, RecordsInOrder
<1> QED
  BY <1>2 DEF OrderInv

(* The actor ends its request without a record. *)
LEMMA EndOrder ==
    ASSUME Inv, OrderInv, actor.pc # "idle", actor' = IdleActor,
           UNCHANGED <<mailbox, payload, blockInfo>>, NEW answer,
           request' = [request EXCEPT ![actor.view] = answer]
    PROVE  OrderInv'
<1>1. ASSUME NEW u \in Views, request[u] = "yes", Before(u)
      PROVE  request'[u] = "yes" /\ Before(u)'
  <2>1. request'[u] = "yes"
    BY <1>1, RequestsBegun DEF Inv, TypeOK
  <2> QED
    BY <1>1, <2>1 DEF Before, IdleActor
<1>2. \A d \in Blocks : blockInfo'[d] # None =>
         \E u \in Views : payload'[u] = d /\ request'[u] = "yes" /\ Before(u)'
  BY <1>1, RecordsInOrder
<1> QED
  BY <1>2 DEF OrderInv, IdleActor

(* The actor ends its request with a record of the view's block. *)
LEMMA RecordOrder ==
    ASSUME Inv, OrderInv, actor.pc # "idle", actor' = IdleActor,
           UNCHANGED mailbox, NEW b \in Blocks,
           blockInfo' = [blockInfo EXCEPT ![b] = b],
           request' = [request EXCEPT ![actor.view] = "yes"],
           payload'[actor.view] = b,
           \A u \in Views : payload[u] \in Blocks => payload'[u] = payload[u]
    PROVE  OrderInv'
<1>1. ASSUME NEW u \in Views, request[u] = "yes", Before(u)
      PROVE  request'[u] = "yes" /\ Before(u)'
  <2>1. request'[u] = "yes"
    BY <1>1, RequestsBegun DEF Inv, TypeOK
  <2> QED
    BY <1>1, <2>1 DEF Before, IdleActor
<1>2. PICK v \in Views : v = actor.view /\ request'[v] = "yes" /\ Before(v)'
  BY RequestsBegun DEF Inv, TypeOK, OrderInv, Before, IdleActor
<1>3. ASSUME NEW d \in Blocks, blockInfo'[d] # None
      PROVE  \E u \in Views : payload'[u] = d /\ request'[u] = "yes" /\ Before(u)'
  <2>1. CASE d = b
    BY <1>2, <2>1
  <2>2. CASE d # b
    <3>1. blockInfo[d] # None
      BY <1>3, <2>2 DEF Inv, TypeOK, Digest
    <3>2. PICK u \in Views : payload[u] = d /\ request[u] = "yes" /\ Before(u)
      BY <3>1 DEF OrderInv
    <3> QED
      BY <1>1, <3>2
  <2> QED
    BY <2>1, <2>2
<1> QED
  BY <1>3 DEF OrderInv, IdleActor

(* The actor takes requests, and so records blocks, in the order of views. *)
LEMMA OrderStep == Inv /\ OrderInv /\ [Next]_vars => OrderInv'
<1> SUFFICES ASSUME Inv, OrderInv, [Next]_vars PROVE OrderInv'
  OBVIOUS
<1> USE ProtocolAssumption
<1>0. /\ actor \in ActorState /\ view \in Nat
      /\ payload \in [Views -> Digest \cup {None}]
  BY DEF Inv, TypeOK, SimplexTypeOK, ProtocolTypeOK, Views
<1>1. CASE \E p \in Views : \/ Propose(p)
                            \/ \E l \in Validators, b \in Blocks : Verify(p, l, b)
  <2>1. Enqueue(view + 1) /\ view < MaxView
    BY <1>1 DEF Propose, Lead, Verify, Follow, EnterView
  <2>2. view + 1 \in Views /\ \A u \in Views : u <= view => u < view + 1
    BY <1>0, <2>1 DEF Views
  <2>3. \/ payload' = payload
        \/ \E b \in Blocks : payload' = [payload EXCEPT ![view + 1] = b]
    BY <1>1 DEF Propose, Lead, Verify, Follow
  <2>4. \A u \in Views : u < view + 1 => payload'[u] = payload[u]
    BY <1>0, <2>3
  <2>5. \A u \in Views :
           request[u] \in {"queued", "running", "yes"} => u < view + 1
    BY <2>2, RequestsBegun
  <2> QED
    BY <2>1, <2>2, <2>4, <2>5, EnqueueOrder
<1>2. ASSUME NEW p \in Views, NEW l \in Validators, NEW b \in Blocks,
             MissProposal(p, l, b)
      PROVE  OrderInv'
  <2>1. /\ UNCHANGED <<mailbox, request, actor, blockInfo>>
        /\ payload' = [payload EXCEPT ![view + 1] = b] /\ view < MaxView
    BY <1>2 DEF MissProposal, Follow, EnterView, bridgeVars
  <2>2. payload[view + 1] = None
    BY <1>0, <2>1 DEF Inv, ViewsInv, Views
  <2>3. \A u \in Views : payload[u] \in Blocks => payload'[u] = payload[u]
    BY <1>0, <2>1, <2>2 DEF Digest
  <2>4. \A u \in Views : Before(u) => Before(u)'
    BY <2>1 DEF Before
  <2>5. \A d \in Blocks : blockInfo'[d] # None =>
           \E u \in Views : payload'[u] = d /\ request'[u] = "yes" /\ Before(u)'
    BY <2>1, <2>3, <2>4, RecordsInOrder
  <2> QED
    BY <2>1, <2>5 DEF OrderInv
<1>3. CASE AskAgain
  <2>1. Enqueue(view) /\ request[view] = "lost" /\ payload' = payload
    BY <1>3 DEF AskAgain, simplexVars
  <2>2. view \in Views
    BY DEF Inv, TypeOK, SimplexTypeOK, ProtocolTypeOK
  <2>3. \A u \in Views :
           request[u] \in {"queued", "running", "yes"} => u < view
    BY <2>1, RequestsBegun
  <2> QED
    BY <2>1, <2>2, <2>3, EnqueueOrder
<1>4. CASE StartBuild
  <2>1. /\ actor.pc = "idle" /\ mailbox # <<>> /\ mailbox' = Tail(mailbox)
        /\ actor'.view = Head(mailbox) /\ blockInfo' = blockInfo
        /\ payload' = payload
        /\ request' = [request EXCEPT ![Head(mailbox)] = "running"]
    BY <1>4 DEF StartBuild, IdleActor, simplexVars
  <2> QED
    BY <2>1, TakeOrder
<1>5. CASE StartVerify
  <2>1. /\ actor.pc = "idle" /\ mailbox # <<>> /\ mailbox' = Tail(mailbox)
        /\ blockInfo' = blockInfo /\ payload' = payload
    BY <1>5 DEF StartVerify, simplexVars
  <2>2. CASE /\ actor' = IdleActor
             /\ request' = [request EXCEPT ![Head(mailbox)] = "no"]
    BY <2>1, <2>2, TakeOrder DEF IdleActor
  <2>3. CASE /\ actor'.view = Head(mailbox)
             /\ request' = [request EXCEPT ![Head(mailbox)] = "running"]
    BY <2>1, <2>3, TakeOrder
  <2> QED
    BY <1>5, <2>2, <2>3 DEF StartVerify, Resolve, IdleActor
<1>6. CASE BuildFcu \/ ResolvePayload
  <2>1. actor.pc # "idle" /\ UNCHANGED <<mailbox, payload, blockInfo>>
    BY <1>6 DEF BuildFcu, ResolvePayload, DropResponder, simplexVars
  <2>2. CASE DropResponder
    BY <2>1, <2>2, EndOrder DEF DropResponder, Resolve
  <2>3. CASE request' = request /\ actor'.view = actor.view
    BY <2>1, <2>3, ContinueOrder
  <2>4. \/ DropResponder
        \/ /\ request' = request
           /\ \/ actor' = [actor EXCEPT !.pc = "resolve"]
              \/ actor' = [actor EXCEPT !.attempt = NextAttempt(actor.attempt)]
              \/ \E b \in Blocks :
                    actor' = [actor EXCEPT !.pc = "import", !.block = b]
    BY <1>6 DEF BuildFcu, ResolvePayload, Children
  <2> QED
    BY <1>0, <2>2, <2>3, <2>4 DEF ActorState
<1>7. CASE SelfImport \/ ValidateBlock
  <2>1. /\ actor.pc # "idle" /\ mailbox' = mailbox /\ actor.view \in Views
        /\ actor.block \in Blocks
    BY <1>0, <1>7
    DEF SelfImport, ValidateBlock, Inv, TypeOK, ActorInv, ActorState, Children
  <2>2. ASSUME NEW answer, Resolve(actor.view, answer), blockInfo' = blockInfo,
               payload' = payload
        PROVE  OrderInv'
    BY <2>1, <2>2, EndOrder DEF Resolve
  <2>3. CASE /\ Resolve(actor.view, "yes")
             /\ blockInfo' = [blockInfo EXCEPT ![actor.block] = actor.block]
    <3>1. /\ payload'[actor.view] = actor.block
          /\ \A u \in Views : payload[u] \in Blocks => payload'[u] = payload[u]
      <4>1. CASE SelfImport /\ Proposed(actor.view, actor.block)
        <5>1. payload[actor.view] = None
          BY <4>1 DEF SelfImport, Inv, RequestsInv, ActorInv, TypeOK, ActorState
        <5> QED
          BY <1>0, <2>1, <4>1, <5>1 DEF Proposed, Digest
      <4>2. CASE ValidateBlock
        BY <4>2 DEF ValidateBlock, Inv, ActorInv, simplexVars
      <4>3. CASE SelfImport /\ ~Proposed(actor.view, actor.block)
        <5>1. request'[actor.view] = "yes"
          BY <2>1, <2>3 DEF Resolve, Inv, TypeOK
        <5>2. request'[actor.view] = "dropped"
          BY <2>1, <4>3
          DEF SelfImport, FinishPropose, DropResponder, Resolve, Inv, TypeOK
        <5> QED
          BY <5>1, <5>2
      <4> QED
        BY <1>7, <4>1, <4>2, <4>3
    <3> QED
      BY <2>1, <2>3, <3>1, RecordOrder DEF Resolve
  <2> QED
    BY <1>7, <2>2, <2>3
    DEF SelfImport, FinishPropose, DropResponder, ValidateBlock, simplexVars
<1>8. CASE Restart
  <2>1. mailbox' = <<>> /\ actor'.pc = "idle" /\ blockInfo' = GenesisInfo
    BY <1>8 DEF Restart, IdleActor
  <2>2. \A d \in Blocks : blockInfo'[d] = None
    BY <2>1, ChainNames DEF GenesisInfo, Digest, Hash
  <2> QED
    BY <2>1, <2>2 DEF OrderInv
<1>9. CASE \/ Certificate \/ (\E b \in Blocks : ReceiveBlock(b))
           \/ (\E v \in Views : Report(v)) \/ FinalizerNext \/ FinalizerFcu
           \/ SetFinalized \/ Quiescent \/ UNCHANGED vars
  <2>1. UNCHANGED <<mailbox, request, actor, blockInfo, payload>>
    BY <1>9
    DEF Certificate, Notarize, Finalize, ReceiveBlock, Report, ReportedNow,
        FinalizerNext, FinalizerFcu, SetFinalized, Quiescent, vars, bridgeVars,
        simplexVars, protocolVars
  <2>2. \A u \in Views : Before(u) => Before(u)'
    BY <2>1 DEF Before
  <2>3. \A d \in Blocks : blockInfo'[d] # None =>
           \E u \in Views : payload'[u] = d /\ request'[u] = "yes" /\ Before(u)'
    BY <2>1, <2>2, RecordsInOrder
  <2> QED
    BY <2>1, <2>3 DEF OrderInv
<1> QED
  BY <1>1, <1>2, <1>3, <1>4, <1>5, <1>6, <1>7, <1>8, <1>9 DEF Next

-----------------------------------------------------------------------------
(* Distinct blocks *)

(* Where no block is rebuilt, none is ever carried by two views. *)
LEMMA DistinctStep ==
    ASSUME Rebuild = FALSE
    PROVE  Inv /\ DistinctInv /\ [Next]_vars => DistinctInv'
<1> SUFFICES ASSUME Inv, DistinctInv, [Next]_vars PROVE DistinctInv'
  OBVIOUS
<1> USE ProtocolAssumption
<1>0. /\ actor \in ActorState /\ view \in Nat
      /\ payload \in [Views -> Digest \cup {None}]
  BY DEF Inv, TypeOK, SimplexTypeOK, ProtocolTypeOK, Views
<1>1. ASSUME NEW p \in Views, NEW l \in Validators, NEW b \in Blocks,
             Verify(p, l, b) \/ MissProposal(p, l, b)
      PROVE  DistinctInv'
  <2>1. /\ actor' = actor /\ payload' = [payload EXCEPT ![view + 1] = b]
        /\ b # actor.block /\ \A v \in Views : payload[v] # b
    BY <1>1 DEF Verify, MissProposal, Follow, Enqueue, bridgeVars, Fresh
  <2>2. \A v \in Views : payload'[v] = IF v = view + 1 THEN b ELSE payload[v]
    BY <1>0, <2>1
  <2> QED
    BY <2>1, <2>2 DEF DistinctInv
<1>2. CASE ResolvePayload
  <2>1. payload' = payload
    BY <1>2 DEF ResolvePayload, DropResponder, simplexVars
  <2>2. CASE actor' = IdleActor
    BY <2>1, <2>2 DEF DistinctInv, IdleActor
  <2>3. ASSUME NEW b, Fresh(b),
               actor' = [actor EXCEPT !.pc = "import", !.block = b]
        PROVE  DistinctInv'
    <3>1. actor'.block = b /\ \A v \in Views : payload[v] # b
      BY <1>0, <2>3 DEF ActorState, Fresh
    <3> QED
      BY <2>1, <3>1 DEF DistinctInv
  <2> QED
    BY <1>2, <2>2, <2>3 DEF ResolvePayload, DropResponder, Resolve
<1>3. CASE SelfImport
  <2>1. /\ actor'.pc = "idle" /\ actor.pc = "import"
        /\ \/ payload' = payload
           \/ payload' = [payload EXCEPT ![actor.view] = actor.block]
    BY <1>3 DEF SelfImport, FinishPropose, Proposed, DropResponder, Resolve,
                IdleActor, simplexVars
  <2>2. CASE payload' = payload
    BY <2>1, <2>2 DEF DistinctInv
  <2>3. CASE payload' = [payload EXCEPT ![actor.view] = actor.block]
    <3>1. \A v \in Views :
             payload'[v] = IF v = actor.view THEN actor.block ELSE payload[v]
      BY <1>0, <2>3
    <3> QED
      BY <2>1, <3>1 DEF DistinctInv
  <2> QED
    BY <2>1, <2>2, <2>3
<1>4. CASE BuildFcu
  <2>1. /\ payload' = payload
        /\ \/ actor' = [actor EXCEPT !.pc = "resolve"]
           \/ actor.pc = "fcu" /\ actor' = [actor EXCEPT !.attempt = @ + 1]
           \/ actor' = IdleActor
    BY <1>4 DEF BuildFcu, NextAttempt, DropResponder, Resolve, simplexVars
  <2>2. actor'.pc # "import"
    BY <1>0, <2>1 DEF ActorState, IdleActor
  <2> QED
    BY <2>1, <2>2 DEF DistinctInv
<1>5. CASE StartBuild \/ StartVerify \/ ValidateBlock \/ Restart
  <2>1. payload' = payload
    BY <1>5 DEF StartBuild, StartVerify, ValidateBlock, Restart,
                SimplexRestart, simplexVars, protocolVars
  <2>2. CASE StartBuild
    BY <2>1, <2>2 DEF StartBuild, IdleActor, DistinctInv
  <2>3. CASE StartVerify
    <3>1. \/ actor' = IdleActor
          \/ actor' = [pc |-> "validate", view |-> Head(mailbox),
                        head |-> EMPTY, anchor |-> Genesis, attempt |-> 0,
                        block |-> payload[Head(mailbox)]]
      BY <2>3 DEF StartVerify, Resolve, IdleActor
    <3> QED
      BY <2>1, <3>1 DEF IdleActor, DistinctInv
  <2>4. CASE ValidateBlock \/ Restart
    BY <2>1, <2>4 DEF ValidateBlock, Restart, Resolve, IdleActor, DistinctInv
  <2> QED
    BY <1>5, <2>2, <2>3, <2>4
<1>6. CASE \/ (\E p \in Views : Propose(p)) \/ AskAgain \/ Certificate
           \/ (\E b \in Blocks : ReceiveBlock(b)) \/ (\E v \in Views : Report(v))
           \/ FinalizerNext \/ FinalizerFcu \/ SetFinalized \/ Quiescent
           \/ UNCHANGED vars
  <2>1. UNCHANGED <<actor, payload>>
    BY <1>6
    DEF Propose, Lead, Enqueue, AskAgain, Certificate, Notarize, Finalize,
        ReceiveBlock, Report, ReportedNow, FinalizerNext, FinalizerFcu,
        SetFinalized, Quiescent, vars, bridgeVars, simplexVars, protocolVars
  <2> QED
    BY <2>1 DEF DistinctInv
<1> QED
  BY <1>1, <1>2, <1>3, <1>4, <1>5, <1>6 DEF Next

-----------------------------------------------------------------------------
(* The head of a build is above what was finalized *)

(* A finalized view before the view of a build lies below its parent. *)
LEMMA FinalBelowParent ==
    ASSUME ProtocolInv, NEW v \in 1..view, NEW u \in finalized, u < v
    PROVE  HashOf(payload[u]) \in Ancestors[HashOf(ParentDigest(v))]
<1> DEFINE p == parentView[v]
<1>1. /\ v \in Views /\ v \in Nat /\ u \in Views /\ u \in Nat /\ u \notin nullified
      /\ p \in notarized /\ p \in Views /\ p \in Nat
      /\ ((p + 1)..(v - 1)) \subseteq nullified
  <2>1. v \in Views /\ v \in Nat
    BY ProtocolAssumption DEF ProtocolInv, ProtocolTypeOK, Views
  <2>2. u \in Views /\ u \in Nat /\ u \notin nullified
    BY ProtocolAssumption
    DEF ProtocolInv, ProtocolTypeOK, CertificatesInv, Views
  <2>3. p \in notarized /\ ((p + 1)..(v - 1)) \subseteq nullified
    BY <2>1 DEF ProtocolInv, ParentsInv
  <2>4. p \in Views /\ p \in Nat
    BY <2>3, ProtocolAssumption DEF ProtocolInv, ProtocolTypeOK, Views
  <2> QED
    BY <2>1, <2>2, <2>3, <2>4
<1>2. u <= p
  BY <1>1
<1>3. payload[p] # None /\ payload[p] \in Digest
  BY <1>1 DEF ProtocolInv, ProtocolTypeOK, CertificatesInv
<1>4. CASE u = p
  BY <1>3, <1>4, DigestHash, AncestorsReflexive DEF ParentDigest
<1>5. CASE u < p
  BY <1>1, <1>3, <1>5 DEF ProtocolInv, OneChainInv, ParentDigest
<1> QED
  BY <1>1, <1>2, <1>4, <1>5

(* What is recorded and final was dealt with before the build's view, and  *)
(* so is below its parent: the anchor it took, and just as well a block    *)
(* the finalizer took up or recorded since the build began.                *)
LEMMA AnchorsBelowHead ==
    ASSUME RefinementInv, OrderInv, DistinctInv,
           actor.pc \in {"fcu", "resolve", "import"}, actor.head \in Hash,
           NEW h \in {tracker, finalizer.hash, actor.anchor}
    PROVE  h \in Ancestors[actor.head]
<1> USE ProtocolAssumption
<1>1. /\ actor.view \in Views /\ request[actor.view] = "running"
      /\ leader[actor.view] = Self /\ actor.pc # "idle"
      /\ actor.head = HashOf(ParentDigest(actor.view))
  BY ChainNames DEF RefinementInv, Inv, TypeOK, ActorState, ActorInv, RequestsInv
<1>2. actor.view \in 1..view
  <2>1. payload[actor.view] = None
    BY <1>1 DEF RefinementInv, Inv, RequestsInv
  <2>2. actor.view # 0
    BY <2>1 DEF RefinementInv, ProtocolInv, CertificatesInv, Digest
  <2>3. actor.view <= view /\ actor.view \in Nat /\ view \in Nat
    BY <1>1, RequestsBegun DEF RefinementInv
  <2> QED
    BY <2>2, <2>3
<1>3. \E u \in finalized : h = HashOf(payload[u]) /\ u < actor.view
  <2>1. PICK u \in finalized : h = HashOf(payload[u])
    BY DEF RefinementInv, PipelineInv, ReportedHashes
  <2>2. u \in Views /\ payload[u] \in Digest
    BY DEF RefinementInv, ProtocolInv, ProtocolTypeOK, CertificatesInv
  <2>3. CASE h = Genesis
    <3>1. 0 \in finalized /\ HashOf(payload[0]) = Genesis /\ 0 < actor.view
      BY <1>2 DEF RefinementInv, ProtocolInv, CertificatesInv, HashOf
    <3> QED
      BY <2>3, <3>1
  <2>4. CASE h # Genesis
    <3>1. payload[u] = h /\ h \in Blocks
      BY <2>1, <2>2, <2>4 DEF HashOf, Digest
    <3>2. blockInfo[h] # None
      BY <3>1 DEF RefinementInv, RecordedInv, Recorded
    <3>3. PICK w \in Views : payload[w] = h /\ request[w] = "yes" /\ Before(w)
      BY <3>1, <3>2 DEF OrderInv
    <3>4. w = u
      BY <2>2, <3>1, <3>3 DEF DistinctInv, Digest
    <3> QED
      BY <1>1, <2>1, <3>3, <3>4 DEF Before
  <2> QED
    BY <2>3, <2>4
<1> QED
  BY <1>1, <1>2, <1>3, FinalBelowParent DEF RefinementInv

(* No call of the execution layer takes the canonical chain off the        *)
(* tracker, nor off the block whose forkchoice update just succeeded.      *)
LEMMA HeadStep ==
    RefinementInv /\ OrderInv /\ DistinctInv /\ HeadInv /\ [Next]_vars => HeadInv'
<1> SUFFICES ASSUME RefinementInv, OrderInv, DistinctInv, HeadInv, [Next]_vars
             PROVE  HeadInv'
  OBVIOUS
<1>1. CASE BuildFcu
  <2>1. actor.pc = "fcu" /\ UNCHANGED <<tracker, finalizer>>
    BY <1>1 DEF BuildFcu
  <2>2. \/ elHead' = elHead
        \/ actor.head \in elValid /\ elHead' = actor.head
    BY <1>1 DEF BuildFcu, ForkchoiceUpdated
  <2>3. CASE elHead' = elHead
    BY <2>1, <2>3 DEF HeadInv, HeadExtendsTracker
  <2>4. CASE actor.head \in elValid /\ elHead' = actor.head
    <3>1. actor.head \in Hash
      BY <2>4 DEF RefinementInv, Inv, TypeOK, ElTypeOK
    <3>2. {tracker, finalizer.hash} \subseteq Ancestors[actor.head]
      BY <2>1, <3>1, AnchorsBelowHead
    <3> QED
      BY <2>1, <2>4, <3>2 DEF HeadInv, HeadExtendsTracker
  <2> QED
    BY <2>2, <2>3, <2>4
<1>2. CASE FinalizerFcu
  <2>1. /\ finalizer.pc = "fcu" /\ tracker' = tracker
        /\ finalizer.hash \in Hash /\ finalizer \in FinalizerState
        /\ tracker \in Ancestors[finalizer.hash]
    BY <1>2
    DEF FinalizerFcu, RefinementInv, Inv, TypeOK, FinalizerState, PipelineInv
  <2>2. \/ elHead' = elHead /\ finalizer' = IdleFinalizer
        \/ /\ finalizer' = [finalizer EXCEPT !.pc = "set"]
           /\ \/ elHead' = elHead /\ finalizer.hash \in Ancestors[elHead]
              \/ elHead' = finalizer.hash
    BY <1>2
    DEF FinalizerFcu, FcuSucceeded, ForkchoiceUpdated, StrictlyBelow
  <2>3. CASE elHead' = elHead /\ finalizer' = IdleFinalizer
    BY <2>1, <2>3 DEF HeadInv, HeadExtendsTracker, IdleFinalizer
  <2>4. CASE /\ finalizer' = [finalizer EXCEPT !.pc = "set"]
             /\ \/ elHead' = elHead /\ finalizer.hash \in Ancestors[elHead]
                \/ elHead' = finalizer.hash
    <3>1. finalizer'.hash = finalizer.hash
      BY <2>1, <2>4 DEF FinalizerState
    <3>2. finalizer.hash \in Ancestors[finalizer.hash]
      BY <2>1, AncestorsReflexive
    <3> QED
      BY <2>1, <2>4, <3>1, <3>2 DEF HeadInv, HeadExtendsTracker
  <2> QED
    BY <2>2, <2>3, <2>4
<1>3. CASE SetFinalized
  BY <1>3 DEF SetFinalized, IdleFinalizer, elVars, HeadInv, HeadExtendsTracker
<1>4. CASE Restart
  <2>1. /\ tracker' = Genesis /\ finalizer'.pc = "idle"
        /\ elHead' \in Ancestors[elHead]
    BY <1>4 DEF Restart, ElRestart, IdleFinalizer
  <2>2. Genesis \in Ancestors[elHead']
    BY <2>1 DEF RefinementInv, ElInv
  <2> QED
    BY <2>1, <2>2 DEF HeadInv, HeadExtendsTracker
<1>5. CASE SelfImport \/ ValidateBlock
  <2>1. UNCHANGED <<tracker, elHead, finalizer>>
    BY <1>5 DEF SelfImport, ValidateBlock, NewPayload
  <2> QED
    BY <2>1 DEF HeadInv, HeadExtendsTracker
<1>6. CASE FinalizerNext
  <2>1. UNCHANGED <<tracker, elHead>> /\ finalizer'.pc # "set"
    BY <1>6 DEF FinalizerNext, elVars
  <2> QED
    BY <2>1 DEF HeadInv, HeadExtendsTracker
<1>7. CASE \/ (\E p \in Views : Propose(p))
           \/ (\E p \in Views, l \in Validators, b \in Blocks :
                  Verify(p, l, b) \/ MissProposal(p, l, b))
           \/ AskAgain \/ Certificate \/ StartBuild \/ ResolvePayload
           \/ StartVerify \/ (\E b \in Blocks : ReceiveBlock(b))
           \/ (\E v \in Views : Report(v)) \/ Quiescent \/ UNCHANGED vars
  <2>1. UNCHANGED <<tracker, elHead, finalizer>>
    BY <1>7
    DEF Propose, Verify, MissProposal, Enqueue, AskAgain, Certificate,
        StartBuild, ResolvePayload, DropResponder, StartVerify, ReceiveBlock,
        Report, Quiescent, vars, bridgeVars, elVars
  <2> QED
    BY <2>1 DEF HeadInv, HeadExtendsTracker
<1> QED
  BY <1>1, <1>2, <1>3, <1>4, <1>5, <1>6, <1>7 DEF Next

-----------------------------------------------------------------------------
(* What holds throughout every behaviour *)

ForkchoiceInv == RefinementInv /\ OrderInv /\ DistinctInv /\ HeadInv

(* The invariant, where no block is proposed twice. *)
LEMMA ForkchoiceInvariance ==
    ASSUME Rebuild = FALSE
    PROVE  Spec => []ForkchoiceInv
<1>1. Init => ForkchoiceInv
  <2> SUFFICES ASSUME Init PROVE ForkchoiceInv
    OBVIOUS
  <2>1. RefinementInv
    BY InitInv, RefinementInit DEF RefinementInv
  <2>2. \A d \in Blocks : blockInfo[d] = None
    BY ChainNames DEF Init, GenesisInfo, Digest, Hash
  <2>3. OrderInv
    BY <2>2 DEF Init, OrderInv, IdleActor
  <2>4. DistinctInv
    BY DEF Init, SimplexInit, ProtocolInit, DistinctInv, IdleActor
  <2>5. HeadInv
    BY ChainAncestors
    DEF Init, ElInit, HeadInv, HeadExtendsTracker, IdleFinalizer
  <2> QED
    BY <2>1, <2>3, <2>4, <2>5 DEF ForkchoiceInv
<1>2. ForkchoiceInv /\ [Next]_vars => ForkchoiceInv'
  <2>1. RefinementInv /\ [Next]_vars => RefinementInv'
    BY NextInv, ProtocolStep, ElStep, RecordedStep, PipelineStep
    DEF RefinementInv
  <2>2. RefinementInv => Inv
    BY DEF RefinementInv
  <2> QED
    BY <2>1, <2>2, OrderStep, DistinctStep, HeadStep DEF ForkchoiceInv
<1> QED
  BY <1>1, <1>2, PTL DEF Spec

(* The forkchoice state of a build is consistent for as long as it is      *)
(* retried, where no block is proposed twice: the engine's parent is above *)
(* the finalizer's block (builder.rs).                                     *)
THEOREM ForkchoicesConsistent ==
    ASSUME Rebuild = FALSE
    PROVE  Spec => []ForkchoiceConsistent
<1>1. ForkchoiceInv => ForkchoiceConsistent
  BY AnchorsBelowHead DEF ForkchoiceInv, ForkchoiceConsistent
<1> QED
  BY <1>1, ForkchoiceInvariance, PTL

(* No build moves the canonical chain off the last finalized block, where  *)
(* no block is proposed twice (builder.rs and finalizer.rs).               *)
THEOREM HeadsExtendTracker ==
    ASSUME Rebuild = FALSE
    PROVE  Spec => []HeadExtendsTracker
<1>1. ForkchoiceInv => HeadExtendsTracker
  BY DEF ForkchoiceInv, HeadInv
<1> QED
  BY <1>1, ForkchoiceInvariance, PTL
=============================================================================

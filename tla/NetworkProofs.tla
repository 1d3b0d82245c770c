---------------------------- MODULE NetworkProofs ----------------------------
(***************************************************************************)
(* Proofs about Network, for every set of validators, quorum, block tree,  *)
(* number of views and of restarts.                                        *)
(*                                                                         *)
(* AvailabilityBound counts holders and is not inductive: from their       *)
(* number alone it does not follow who they are, or that the voters of a   *)
(* later view are among them.  The invariant names the nodes that may have *)
(* lost blocks, one for each restart, and says that every other node holds *)
(* what it voted for.  TrackersOnOneChain follows from where a tracker's   *)
(* block comes from and from what the protocol finalizes (OneChainInv of   *)
(* ProtocolProofs).                                                        *)
(***************************************************************************)
EXTENDS Network, ProtocolProofs, FiniteSetTheorems

(* Only a view above 0 is proposed and voted for, with a block. *)
BallotsInv ==
    /\ \A v \in Views : v > 0 => payload[v] \in Blocks \cup {None}
    /\ \A n \in Validators, v \in Views :
          vote[n][v] = "yes" => v > 0 /\ payload[v] # None

(* With a block a node has executed every block below it. *)
ClosedInv ==
    \A n \in Validators : \A h \in node[n].executed :
        Ancestors[h] \subseteq node[n].executed

(* All but the nodes of L hold every block they voted for. *)
HeldBy(L) ==
    \A n \in Validators \ L, v \in Views :
        vote[n][v] = "yes" => Holds(node[n], payload[v])

(* There are at most as many nodes that lost blocks as there were restarts. *)
LossInv ==
    \E L \in SUBSET Validators : Cardinality(L) <= restarts /\ HeldBy(L)

(* A certificate is made of votes, which are never taken back. *)
QuorumInv ==
    \A v \in notarized \ {0} : Cardinality(Voters(v, "yes")) >= Quorum

(* What a node holds as finalized was finalized by consensus. *)
TrackerInv ==
    \A n \in Validators : \E u \in finalized : node[n].tracker = HashOf(payload[u])

NetworkInv ==
    /\ TypeOK
    /\ ProtocolInv
    /\ BallotsInv
    /\ ClosedInv
    /\ LossInv
    /\ QuorumInv
    /\ TrackerInv

-----------------------------------------------------------------------------
(* What the handlers do to a node *)

(* No handler forgets anything. *)
Keeps(s, t) ==
    /\ s.recorded \subseteq t.recorded /\ s.pending \subseteq t.pending
    /\ s.received \subseteq t.received /\ s.executed \subseteq t.executed

(* handle_propose adds its block, executed or not, and nothing else. *)
LEMMA BuildState ==
    ASSUME NEW s \in NodeState, NEW b \in Blocks, NEW t \in AfterBuild(s, b)
    PROVE  /\ t \in NodeState /\ Keeps(s, t) /\ t.tracker = s.tracker
           /\ b \in t.recorded /\ b \in t.pending
           /\ t.executed \subseteq s.executed \cup {b}
<1>1. \/ t = [recorded |-> s.recorded \cup {b}, pending |-> s.pending \cup {b},
              received |-> s.received, executed |-> s.executed \cup {b},
              tracker |-> s.tracker]
      \/ t = [recorded |-> s.recorded \cup {b}, pending |-> s.pending \cup {b},
              received |-> s.received, executed |-> s.executed,
              tracker |-> s.tracker]
  BY DEF AfterBuild, NodeState
<1>2. b \in Hash
  BY DEF Hash
<1> QED
  BY <1>1, <1>2 DEF NodeState, Keeps

(* handle_verify records and executes its block. *)
LEMMA VerifyState ==
    ASSUME NEW s \in NodeState, NEW b \in Blocks, NEW t, t = AfterVerify(s, b)
    PROVE  /\ t \in NodeState /\ Keeps(s, t) /\ t.tracker = s.tracker
           /\ b \in t.recorded /\ t.executed = s.executed \cup {b}
<1>1. b \in Hash
  BY DEF Hash
<1> QED
  BY <1>1 DEF AfterVerify, NodeState, Keeps

(* The block receiver touches one store. *)
LEMMA ReceiveState ==
    ASSUME NEW s \in NodeState, NEW b \in Blocks, NEW t, t = AfterReceive(s, b)
    PROVE  /\ t \in NodeState /\ Keeps(s, t) /\ t.tracker = s.tracker
           /\ t.executed = s.executed
BY DEF AfterReceive, NodeState, Keeps

(* The finalizer moves the tracker alone. *)
LEMMA FinalizeState ==
    ASSUME NEW s \in NodeState, NEW d \in Digest, NEW t, t = AfterFinalize(s, d)
    PROVE  /\ t \in NodeState /\ Keeps(s, t) /\ t.tracker = HashOf(d)
           /\ t.executed = s.executed
BY DigestHash DEF AfterFinalize, NodeState, Keeps

(* A restart leaves a chain of executed blocks and nothing else. *)
LEMMA RestartState ==
    ASSUME NEW s \in NodeState, NEW t \in AfterRestart(s)
    PROVE  /\ t \in NodeState /\ t.tracker = Genesis
           /\ \A h \in t.executed : Ancestors[h] \subseteq t.executed
<1>1. PICK h \in s.executed : t = StartState(Ancestors[h])
  BY DEF AfterRestart
<1>2. h \in Hash
  BY DEF NodeState
<1>3. Ancestors[h] \subseteq Hash
  BY <1>2, ChainAncestors
<1>4. \A a \in Ancestors[h] : Ancestors[a] \subseteq Ancestors[h]
  BY <1>2, <1>3, ChainAncestors
<1> QED
  BY <1>1, <1>3, <1>4 DEF StartState, NodeState, Hash

(* A node goes on holding what it holds. *)
LEMMA HoldsKept ==
    ASSUME NEW s, NEW t, Keeps(s, t), NEW b, Holds(s, b)
    PROVE  Holds(t, b)
BY DEF Keeps, Holds, HasBytes

-----------------------------------------------------------------------------
(* The protocol *)

(* Some validator leads every view. *)
LEMMA LeaderIsValidator == \A v \in Nat : Leader(v) \in Validators
<1> SUFFICES ASSUME NEW v \in Nat PROVE Leader(v) \in Validators
  OBVIOUS
<1>1. Len(Rotation) \in Nat /\ Len(Rotation) > 0
  BY NetworkAssumption
<1>2. (v % Len(Rotation)) + 1 \in 1..Len(Rotation)
  BY <1>1
<1> QED
  BY <1>2, NetworkAssumption DEF Leader

(* The protocol's invariant in a state of Network. *)
LEMMA ProtocolStep == ProtocolInv /\ [Next]_vars => ProtocolInv'
<1> SUFFICES ASSUME ProtocolInv, [Next]_vars PROVE ProtocolInv'
  OBVIOUS
<1> USE ProtocolAssumption
<1>1. ASSUME NEW p \in Views, StartView(p) PROVE ProtocolInv'
  <2>1. EnterView(p, Leader(view + 1)) /\ payload' = payload
    BY <1>1 DEF StartView
  <2>2. view \in Nat /\ view < MaxView
    BY <2>1 DEF EnterView, ProtocolInv, ProtocolTypeOK, Views
  <2>3. payload[view + 1] = None
    BY <2>2 DEF ProtocolInv, CertificatesInv, Views
  <2>4. payload' = [payload EXCEPT ![view + 1] = None]
    BY <2>1, <2>3 DEF ProtocolInv, ProtocolTypeOK
  <2>5. Leader(view + 1) \in Validators
    BY <2>2, LeaderIsValidator
  <2> QED
    BY <2>1, <2>4, <2>5, EnterViewProtocol
<1>2. ASSUME NEW v \in Views, NEW b \in Blocks, HandlePropose(v, b)
      PROVE  ProtocolInv'
  <2>1. /\ v = view /\ v > 0 /\ payload[v] = None /\ Proposed(v, b)
        /\ b \in Children(HashOf(ParentDigest(v)))
    BY <1>2 DEF HandlePropose, CanBuild
  <2>2. v \in 1..view
    BY <2>1 DEF Views
  <2> QED
    BY <2>1, <2>2, ProposedProtocol
<1>3. ASSUME NEW v \in Views, CollectVotes(v) \/ CollectFinalize(v)
      PROVE  ProtocolInv'
  BY <1>3, CertifiedProtocol DEF CollectVotes, CollectFinalize
<1>4. CASE \/ \E v \in Views : FailPropose(v) \/ Relay(v)
           \/ \E n \in Validators, v \in Views :
                 HandleVerify(n, v) \/ RefuseVerify(n, v) \/ HandleFinalization(n, v)
           \/ \E n, r \in Validators, v \in Views : Forward(n, v, r)
           \/ \E m \in channel : Deliver(m)
           \/ \E n \in Validators : Restart(n)
           \/ Quiescent \/ UNCHANGED vars
  <2>1. UNCHANGED protocolVars
    BY <1>4
    DEF FailPropose, Relay, Broadcast, HandleVerify, RefuseVerify,
        HandleFinalization, Forward, Deliver, Restart, Quiescent, vars
  <2> QED
    BY <2>1, UnchangedProtocol
<1> QED
  BY <1>1, <1>2, <1>3, <1>4 DEF Next, NodeStep

-----------------------------------------------------------------------------
(* Payloads, votes and nodes from one state to the next *)

(* A payload that is there never changes, and no certificate is lost. *)
LEMMA PayloadsKept ==
    ASSUME TypeOK, [Next]_vars
    PROVE  /\ finalized \subseteq finalized'
           /\ \A v \in Views : payload[v] # None => payload'[v] = payload[v]
<1>1. ASSUME NEW v \in Views, NEW b \in Blocks, HandlePropose(v, b)
      PROVE  /\ finalized' = finalized
             /\ \A u \in Views : payload[u] # None => payload'[u] = payload[u]
  BY <1>1 DEF HandlePropose, Proposed, TypeOK, ProtocolTypeOK
<1>2. ASSUME NEW v \in Views, CollectFinalize(v)
      PROVE  finalized \subseteq finalized' /\ payload' = payload
  BY <1>2 DEF CollectFinalize, Finalize
<1>3. CASE \/ \E p \in Views : StartView(p)
           \/ \E v \in Views : FailPropose(v) \/ Relay(v) \/ CollectVotes(v)
           \/ \E n \in Validators, v \in Views :
                 HandleVerify(n, v) \/ RefuseVerify(n, v) \/ HandleFinalization(n, v)
           \/ \E n, r \in Validators, v \in Views : Forward(n, v, r)
           \/ \E m \in channel : Deliver(m)
           \/ \E n \in Validators : Restart(n)
           \/ Quiescent \/ UNCHANGED vars
  <2>1. UNCHANGED <<finalized, payload>>
    BY <1>3
    DEF StartView, EnterView, FailPropose, Relay, Broadcast, CollectVotes,
        Notarize, HandleVerify, RefuseVerify, HandleFinalization, Forward,
        Deliver, Restart, Quiescent, vars, protocolVars
  <2> QED
    BY <2>1
<1> QED
  BY <1>1, <1>2, <1>3 DEF Next, NodeStep

(* An answer is given once, by a node that has given none: a vote for a    *)
(* block is never taken back, not even by a restart.                       *)
LEMMA VotesKept ==
    ASSUME TypeOK, [Next]_vars
    PROVE  /\ vote' \in [Validators -> [Views -> Vote]]
           /\ \A n \in Validators, v \in Views :
                 vote[n][v] = "yes" => vote'[n][v] = "yes"
<1>0. vote \in [Validators -> [Views -> Vote]] /\ leader \in [Views -> Validators]
  BY DEF TypeOK, ProtocolTypeOK
<1>1. ASSUME NEW n \in Validators, NEW v \in Views, NEW a \in {"yes", "no"},
             Answer(n, v, a), vote[n][v] = "none"
      PROVE  /\ vote' \in [Validators -> [Views -> Vote]]
             /\ \A m \in Validators, u \in Views :
                   vote[m][u] = "yes" => vote'[m][u] = "yes"
  BY <1>0, <1>1 DEF Answer, Vote
<1>2. ASSUME NEW v \in Views,
             (\E b \in Blocks : HandlePropose(v, b)) \/ FailPropose(v)
      PROVE  \E n \in Validators, a \in {"yes", "no"} :
                Answer(n, v, a) /\ vote[n][v] = "none"
  BY <1>0, <1>2 DEF HandlePropose, FailPropose
<1>3. ASSUME NEW n \in Validators, NEW v \in Views,
             HandleVerify(n, v) \/ RefuseVerify(n, v)
      PROVE  \E a \in {"yes", "no"} : Answer(n, v, a) /\ vote[n][v] = "none"
  BY <1>3 DEF HandleVerify, RefuseVerify
<1>4. ASSUME NEW n \in Validators, Restart(n)
      PROVE  /\ vote' \in [Validators -> [Views -> Vote]]
             /\ \A m \in Validators, u \in Views :
                   vote[m][u] = "yes" => vote'[m][u] = "yes"
  <2>1. vote' = [vote EXCEPT ![n] =
                   [v \in Views |-> IF vote[n][v] = "yes" THEN "yes" ELSE "none"]]
    BY <1>4 DEF Restart
  <2> QED
    BY <1>0, <2>1 DEF Vote
<1>5. CASE \/ \E p \in Views : StartView(p)
           \/ \E v \in Views : Relay(v) \/ CollectVotes(v) \/ CollectFinalize(v)
           \/ \E n \in Validators, v \in Views : HandleFinalization(n, v)
           \/ \E n, r \in Validators, v \in Views : Forward(n, v, r)
           \/ \E m \in channel : Deliver(m)
           \/ Quiescent \/ UNCHANGED vars
  <2>1. UNCHANGED vote
    BY <1>5
    DEF StartView, Relay, Broadcast, CollectVotes, CollectFinalize,
        HandleFinalization, Forward, Deliver, Quiescent, vars
  <2> QED
    BY <1>0, <2>1
<1> QED
  BY <1>1, <1>2, <1>3, <1>4, <1>5 DEF Next, NodeStep

(* The steps that change a node, and the node each of them changes. *)
LEMMA NodeChanges ==
    ASSUME TypeOK, ProtocolInv, BallotsInv, [Next]_vars, UNCHANGED restarts
    PROVE  \/ node' = node
           \/ \E n \in Validators : \E s \in NodeState :
                 /\ node' = [node EXCEPT ![n] = s]
                 /\ Keeps(node[n], s)
                 /\ \/ s.executed = node[n].executed
                    \/ \E b \in Blocks :
                          /\ s.executed \subseteq node[n].executed \cup {b}
                          /\ Parent[b] \in node[n].executed
                 /\ \/ s.tracker = node[n].tracker
                    \/ \E u \in finalized : s.tracker = HashOf(payload[u])
<1> DEFINE Changed ==
      \E n \in Validators : \E s \in NodeState :
         /\ node' = [node EXCEPT ![n] = s]
         /\ Keeps(node[n], s)
         /\ \/ s.executed = node[n].executed
            \/ \E b \in Blocks :
                  /\ s.executed \subseteq node[n].executed \cup {b}
                  /\ Parent[b] \in node[n].executed
         /\ \/ s.tracker = node[n].tracker
            \/ \E u \in finalized : s.tracker = HashOf(payload[u])
<1>0. /\ node \in [Validators -> NodeState] /\ leader \in [Views -> Validators]
      /\ restarts \in Nat
  BY NetworkAssumption DEF TypeOK, ProtocolTypeOK
<1>1. ASSUME NEW v \in Views, NEW b \in Blocks, HandlePropose(v, b) PROVE Changed
  <2>1. PICK s \in AfterBuild(node[leader[v]], b) :
           node' = [node EXCEPT ![leader[v]] = s]
    BY <1>1 DEF HandlePropose
  <2>2. Parent[b] \in node[leader[v]].executed
    BY <1>1 DEF HandlePropose, CanBuild, Children
  <2>3. leader[v] \in Validators /\ node[leader[v]] \in NodeState
    BY <1>0
  <2>4. /\ s \in NodeState /\ Keeps(node[leader[v]], s)
        /\ s.tracker = node[leader[v]].tracker
        /\ s.executed \subseteq node[leader[v]].executed \cup {b}
    BY <2>3, BuildState
  <2> QED
    BY <2>1, <2>2, <2>3, <2>4
<1>2. ASSUME NEW n \in Validators, NEW v \in Views, HandleVerify(n, v) PROVE Changed
  <2>1. /\ v > 0 /\ payload[v] # None
        /\ Parent[payload[v]] \in node[n].executed
        /\ node' = [node EXCEPT ![n] = AfterVerify(node[n], payload[v])]
    BY <1>2 DEF HandleVerify, CanVerify
  <2>2. payload[v] \in Blocks /\ node[n] \in NodeState
    BY <1>0, <2>1 DEF BallotsInv
  <2>3. PICK s : s = AfterVerify(node[n], payload[v])
    OBVIOUS
  <2>4. /\ s \in NodeState /\ Keeps(node[n], s) /\ s.tracker = node[n].tracker
        /\ s.executed = node[n].executed \cup {payload[v]}
    BY <2>2, <2>3, VerifyState
  <2> QED
    BY <2>1, <2>2, <2>3, <2>4
<1>3. ASSUME NEW m \in channel, Deliver(m) PROVE Changed
  <2>1. m.to \in Validators /\ m.block \in Blocks
    BY DEF TypeOK, Message
  <2>2. node' = [node EXCEPT ![m.to] = AfterReceive(node[m.to], m.block)]
    BY <1>3 DEF Deliver
  <2>3. PICK s : s = AfterReceive(node[m.to], m.block)
    OBVIOUS
  <2>4. /\ s \in NodeState /\ Keeps(node[m.to], s)
        /\ s.tracker = node[m.to].tracker /\ s.executed = node[m.to].executed
    BY <1>0, <2>1, <2>3, ReceiveState
  <2> QED
    BY <2>1, <2>2, <2>3, <2>4
<1>4. ASSUME NEW n \in Validators, NEW v \in Views, HandleFinalization(n, v)
      PROVE  node' = node \/ Changed
  <2>1. /\ v \in finalized
        /\ \/ node' = [node EXCEPT ![n] = node[n]]
           \/ node' = [node EXCEPT ![n] = AfterFinalize(node[n], payload[v])]
    BY <1>4 DEF HandleFinalization, Reportable
  <2>2. payload[v] \in Digest
    BY <2>1 DEF ProtocolInv, ProtocolTypeOK, CertificatesInv
  <2>3. CASE node' = [node EXCEPT ![n] = node[n]]
    BY <1>0, <2>3
  <2>4. CASE node' = [node EXCEPT ![n] = AfterFinalize(node[n], payload[v])]
    <3>1. PICK s : s = AfterFinalize(node[n], payload[v])
      OBVIOUS
    <3>2. /\ s \in NodeState /\ Keeps(node[n], s)
          /\ s.tracker = HashOf(payload[v]) /\ s.executed = node[n].executed
      BY <1>0, <2>2, <3>1, FinalizeState
    <3> QED
      BY <2>1, <2>4, <3>1, <3>2
  <2> QED
    BY <2>1, <2>3, <2>4
<1>5. CASE \/ \E p \in Views : StartView(p)
           \/ \E v \in Views : \/ FailPropose(v) \/ Relay(v)
                               \/ CollectVotes(v) \/ CollectFinalize(v)
           \/ \E n \in Validators, v \in Views : RefuseVerify(n, v)
           \/ \E n, r \in Validators, v \in Views : Forward(n, v, r)
           \/ Quiescent \/ UNCHANGED vars
  BY <1>5
  DEF StartView, FailPropose, Relay, Broadcast, CollectVotes, CollectFinalize,
      RefuseVerify, Forward, Quiescent, vars
<1>6. ASSUME NEW n \in Validators, Restart(n) PROVE FALSE
  BY <1>0, <1>6 DEF Restart
<1> QED
  BY <1>1, <1>2, <1>3, <1>4, <1>5, <1>6 DEF Next, NodeStep

(* A vote comes from an answer, and the node that gave it holds the block. *)
LEMMA VotersHold ==
    ASSUME TypeOK, ProtocolInv, BallotsInv, ClosedInv, [Next]_vars,
           NEW n \in Validators, NEW v \in Views, vote'[n][v] = "yes",
           vote[n][v] # "yes"
    PROVE  v > 0 /\ payload'[v] \in Blocks /\ Holds(node'[n], payload'[v])
<1>0. /\ vote \in [Validators -> [Views -> Vote]]
      /\ node \in [Validators -> NodeState] /\ leader \in [Views -> Validators]
      /\ payload \in [Views -> Digest \cup {None}]
  BY DEF TypeOK, ProtocolTypeOK
<1>1. ASSUME NEW w \in Views, NEW b \in Blocks, HandlePropose(w, b)
      PROVE  v > 0 /\ payload'[v] \in Blocks /\ Holds(node'[n], payload'[v])
  <2>1. /\ w > 0 /\ vote' = [vote EXCEPT ![leader[w]][w] = "yes"]
        /\ payload' = [payload EXCEPT ![w] = b]
        /\ Parent[b] \in node[leader[w]].executed
    BY <1>1 DEF HandlePropose, Answer, Proposed, CanBuild, Children
  <2>2. n = leader[w] /\ v = w
    BY <1>0, <2>1
  <2>3. PICK s \in AfterBuild(node[n], b) : node' = [node EXCEPT ![n] = s]
    BY <1>1, <2>2 DEF HandlePropose
  <2>4. Keeps(node[n], s) /\ b \in s.recorded /\ b \in s.pending
    BY <1>0, BuildState
  <2>5. Ancestors[Parent[b]] \subseteq node[n].executed
    BY <2>1, <2>2 DEF ClosedInv
  <2>6. Holds(s, b)
    BY <2>4, <2>5 DEF Keeps, Holds, HasBytes
  <2>7. node'[n] = s /\ payload'[v] = b
    BY <1>0, <2>1, <2>2, <2>3
  <2> QED
    BY <2>1, <2>2, <2>6, <2>7
<1>2. ASSUME NEW m \in Validators, NEW w \in Views, HandleVerify(m, w)
      PROVE  v > 0 /\ payload'[v] \in Blocks /\ Holds(node'[n], payload'[v])
  <2>1. /\ w > 0 /\ vote' = [vote EXCEPT ![m][w] = "yes"]
        /\ payload[w] # None /\ payload' = payload
        /\ HasBytes(node[m], payload[w])
        /\ Parent[payload[w]] \in node[m].executed
        /\ node' = [node EXCEPT ![m] = AfterVerify(node[m], payload[w])]
    BY <1>2 DEF HandleVerify, Answer, CanVerify, protocolVars
  <2>2. n = m /\ v = w
    BY <1>0, <2>1
  <2>3. payload[v] \in Blocks
    BY <2>1, <2>2 DEF BallotsInv
  <2>4. PICK s : s = AfterVerify(node[n], payload[v])
    OBVIOUS
  <2>5. Keeps(node[n], s) /\ payload[v] \in s.recorded
    BY <1>0, <2>3, <2>4, VerifyState
  <2>6. Ancestors[Parent[payload[v]]] \subseteq node[n].executed
    BY <2>1, <2>2 DEF ClosedInv
  <2>7. Holds(s, payload[v])
    BY <2>1, <2>2, <2>5, <2>6 DEF Keeps, Holds, HasBytes
  <2>8. node'[n] = s
    BY <1>0, <2>1, <2>2, <2>4
  <2> QED
    BY <2>1, <2>2, <2>3, <2>7, <2>8
<1>3. ASSUME NEW m \in Validators, NEW w \in Views, Answer(m, w, "no")
      PROVE  FALSE
  BY <1>0, <1>3 DEF Answer
<1>4. ASSUME NEW m \in Validators, Restart(m)
      PROVE  FALSE
  <2>1. vote' = [vote EXCEPT ![m] =
                   [u \in Views |-> IF vote[m][u] = "yes" THEN "yes" ELSE "none"]]
    BY <1>4 DEF Restart
  <2> QED
    BY <1>0, <2>1
<1>5. ASSUME UNCHANGED vote
      PROVE  FALSE
  BY <1>5
<1>6. CASE \/ \E w \in Views : FailPropose(w)
           \/ \E m \in Validators, w \in Views : RefuseVerify(m, w)
  BY <1>0, <1>3, <1>6 DEF FailPropose, RefuseVerify
<1>7. CASE \/ \E p \in Views : StartView(p)
           \/ \E w \in Views : Relay(w) \/ CollectVotes(w) \/ CollectFinalize(w)
           \/ \E m \in Validators, w \in Views : HandleFinalization(m, w)
           \/ \E m, r \in Validators, w \in Views : Forward(m, w, r)
           \/ \E m \in channel : Deliver(m)
           \/ Quiescent \/ UNCHANGED vars
  BY <1>5, <1>7
  DEF StartView, Relay, Broadcast, CollectVotes, CollectFinalize,
      HandleFinalization, Forward, Deliver, Quiescent, vars
<1> QED
  BY <1>1, <1>2, <1>4, <1>6, <1>7 DEF Next, NodeStep

(* Only a restart counts as one. *)
LEMMA RestartsCounted ==
    ASSUME [Next]_vars
    PROVE  UNCHANGED restarts \/ \E n \in Validators : Restart(n)
BY DEF Next, NodeStep, StartView, HandlePropose, FailPropose, Relay, Broadcast,
       CollectVotes, CollectFinalize, HandleVerify, RefuseVerify,
       HandleFinalization, Forward, Deliver, Quiescent, vars

-----------------------------------------------------------------------------
(* The invariant, part by part *)

(* Types: a node records blocks and digests that are there. *)
LEMMA TypeStep ==
    TypeOK /\ ProtocolInv /\ BallotsInv /\ [Next]_vars => TypeOK'
<1> SUFFICES ASSUME TypeOK, ProtocolInv, BallotsInv, [Next]_vars PROVE TypeOK'
  OBVIOUS
<1>0. /\ node \in [Validators -> NodeState] /\ leader \in [Views -> Validators]
      /\ channel \subseteq Message /\ reported \in [Validators -> Views]
      /\ restarts \in 0..MaxRestarts
  BY DEF TypeOK, ProtocolTypeOK
<1>1. ProtocolTypeOK'
  BY ProtocolStep DEF ProtocolInv
<1>2. vote' \in [Validators -> [Views -> Vote]]
  BY VotesKept
<1>3. node' \in [Validators -> NodeState]
  <2>1. CASE UNCHANGED restarts
    BY <1>0, <2>1, NodeChanges
  <2>2. ASSUME NEW n \in Validators, Restart(n)
        PROVE  node' \in [Validators -> NodeState]
    <3>1. PICK s \in AfterRestart(node[n]) : node' = [node EXCEPT ![n] = s]
      BY <2>2 DEF Restart
    <3>2. s \in NodeState
      BY <1>0, RestartState
    <3> QED
      BY <1>0, <3>1, <3>2
  <2> QED
    BY <2>1, <2>2, RestartsCounted
<1>4. channel' \subseteq Message
  <2>1. ASSUME NEW n \in Validators, NEW b, NEW R \in SUBSET Validators,
               Broadcast(n, b, R)
        PROVE  channel' \subseteq Message
    <3>1. b \in Blocks
      BY <1>0, <2>1 DEF Broadcast, NodeState
    <3>2. channel' = channel \cup
             [to : {r \in R : b \notin node[r].received}, block : {b}]
      BY <2>1 DEF Broadcast
    <3> QED
      BY <1>0, <3>1, <3>2 DEF Message
  <2>2. ASSUME NEW v \in Views, Relay(v) PROVE channel' \subseteq Message
    BY <1>0, <2>1, <2>2 DEF Relay
  <2>3. ASSUME NEW n \in Validators, NEW r \in Validators, NEW v \in Views,
               Forward(n, v, r)
        PROVE  channel' \subseteq Message
    BY <2>1, <2>3 DEF Forward
  <2>4. CASE \/ \E m \in channel : Deliver(m)
             \/ \E n \in Validators : Restart(n)
    BY <1>0, <2>4 DEF Deliver, Restart
  <2>5. CASE \/ \E p \in Views : StartView(p)
             \/ \E v \in Views, b \in Blocks : HandlePropose(v, b)
             \/ \E v \in Views : \/ FailPropose(v) \/ CollectVotes(v)
                                 \/ CollectFinalize(v)
             \/ \E n \in Validators, v \in Views :
                   HandleVerify(n, v) \/ RefuseVerify(n, v) \/ HandleFinalization(n, v)
             \/ Quiescent \/ UNCHANGED vars
    <3>1. channel' = channel
      BY <2>5
      DEF StartView, HandlePropose, FailPropose, CollectVotes, CollectFinalize,
          HandleVerify, RefuseVerify, HandleFinalization, Quiescent, vars
    <3> QED
      BY <1>0, <3>1
  <2> QED
    BY <2>2, <2>3, <2>4, <2>5 DEF Next, NodeStep
<1>5. reported' \in [Validators -> Views]
  <2>1. ASSUME NEW n \in Validators, NEW v \in Views, HandleFinalization(n, v)
        PROVE  reported' \in [Validators -> Views]
    BY <1>0, <2>1 DEF HandleFinalization
  <2>2. ASSUME NEW n \in Validators, Restart(n)
        PROVE  reported' \in [Validators -> Views]
    BY <1>0, <2>2, ProtocolAssumption DEF Restart, Views
  <2>3. CASE \/ \E p \in Views : StartView(p)
             \/ \E v \in Views, b \in Blocks : HandlePropose(v, b)
             \/ \E v \in Views : \/ FailPropose(v) \/ Relay(v) \/ CollectVotes(v)
                                 \/ CollectFinalize(v)
             \/ \E n \in Validators, v \in Views :
                   HandleVerify(n, v) \/ RefuseVerify(n, v)
             \/ \E n, r \in Validators, v \in Views : Forward(n, v, r)
             \/ \E m \in channel : Deliver(m)
             \/ Quiescent \/ UNCHANGED vars
    <3>1. reported' = reported
      BY <2>3
      DEF StartView, HandlePropose, FailPropose, Relay, Broadcast, CollectVotes,
          CollectFinalize, HandleVerify, RefuseVerify, Forward, Deliver,
          Quiescent, vars
    <3> QED
      BY <1>0, <3>1
  <2> QED
    BY <2>1, <2>2, <2>3 DEF Next, NodeStep
<1>6. restarts' \in 0..MaxRestarts
  <2>1. CASE UNCHANGED restarts
    BY <1>0, <2>1
  <2>2. ASSUME NEW n \in Validators, Restart(n) PROVE restarts' \in 0..MaxRestarts
    BY <1>0, <2>2, NetworkAssumption DEF Restart
  <2> QED
    BY <2>1, <2>2, RestartsCounted
<1> QED
  BY <1>1, <1>2, <1>3, <1>4, <1>5, <1>6 DEF TypeOK

(* Proposals and votes are for blocks. *)
LEMMA BallotsStep ==
    TypeOK /\ ProtocolInv /\ BallotsInv /\ ClosedInv /\ [Next]_vars => BallotsInv'
<1> SUFFICES ASSUME TypeOK, ProtocolInv, BallotsInv, ClosedInv, [Next]_vars
             PROVE  BallotsInv'
  OBVIOUS
<1>1. ASSUME NEW v \in Views, v > 0 PROVE payload'[v] \in Blocks \cup {None}
  <2>1. ASSUME NEW w \in Views, NEW b \in Blocks, HandlePropose(w, b)
        PROVE  payload'[v] \in Blocks \cup {None}
    <3>1. payload' = [payload EXCEPT ![w] = b]
      BY <2>1 DEF HandlePropose, Proposed
    <3> QED
      BY <1>1, <3>1 DEF TypeOK, ProtocolTypeOK, BallotsInv
  <2>2. CASE \/ \E p \in Views : StartView(p)
             \/ \E w \in Views : \/ FailPropose(w) \/ Relay(w) \/ CollectVotes(w)
                                 \/ CollectFinalize(w)
             \/ \E n \in Validators, w \in Views :
                   HandleVerify(n, w) \/ RefuseVerify(n, w) \/ HandleFinalization(n, w)
             \/ \E n, r \in Validators, w \in Views : Forward(n, w, r)
             \/ \E m \in channel : Deliver(m)
             \/ \E n \in Validators : Restart(n)
             \/ Quiescent \/ UNCHANGED vars
    <3>1. payload' = payload
      BY <2>2
      DEF StartView, FailPropose, Relay, Broadcast, CollectVotes, Notarize,
          CollectFinalize, Finalize, HandleVerify, RefuseVerify,
          HandleFinalization, Forward, Deliver, Restart, Quiescent, vars,
          protocolVars
    <3> QED
      BY <1>1, <3>1 DEF BallotsInv
  <2> QED
    BY <2>1, <2>2 DEF Next, NodeStep
<1>2. ASSUME NEW n \in Validators, NEW v \in Views, vote'[n][v] = "yes"
      PROVE  v > 0 /\ payload'[v] # None
  <2>1. CASE vote[n][v] = "yes"
    BY <2>1, PayloadsKept DEF BallotsInv
  <2>2. CASE vote[n][v] # "yes"
    BY <1>2, <2>2, VotersHold, ProtocolAssumption DEF Digest
  <2> QED
    BY <2>1, <2>2
<1> QED
  BY <1>1, <1>2 DEF BallotsInv

(* A block is executed on an executed parent, and a restart leaves a chain. *)
LEMMA ClosedStep ==
    TypeOK /\ ProtocolInv /\ BallotsInv /\ ClosedInv /\ [Next]_vars => ClosedInv'
<1> SUFFICES ASSUME TypeOK, ProtocolInv, BallotsInv, ClosedInv, [Next]_vars,
                    NEW m \in Validators, NEW h \in node'[m].executed
             PROVE  Ancestors[h] \subseteq node'[m].executed
  BY DEF ClosedInv
<1>0. node \in [Validators -> NodeState]
  BY DEF TypeOK
<1>1. ASSUME NEW n \in Validators, Restart(n)
      PROVE  Ancestors[h] \subseteq node'[m].executed
  <2>1. PICK s \in AfterRestart(node[n]) : node' = [node EXCEPT ![n] = s]
    BY <1>1 DEF Restart
  <2>2. \A a \in s.executed : Ancestors[a] \subseteq s.executed
    BY <1>0, RestartState
  <2> QED
    BY <1>0, <2>1, <2>2 DEF ClosedInv
<1>2. CASE UNCHANGED restarts
  <2>1. CASE node' = node
    BY <2>1 DEF ClosedInv
  <2>2. ASSUME NEW n \in Validators, NEW s \in NodeState,
               node' = [node EXCEPT ![n] = s], Keeps(node[n], s),
               \/ s.executed = node[n].executed
               \/ \E b \in Blocks :
                     /\ s.executed \subseteq node[n].executed \cup {b}
                     /\ Parent[b] \in node[n].executed
        PROVE  Ancestors[h] \subseteq node'[m].executed
    <3>1. CASE m # n
      BY <1>0, <2>2, <3>1 DEF ClosedInv
    <3>2. CASE m = n /\ h \in node[n].executed
      BY <1>0, <2>2, <3>2 DEF ClosedInv, Keeps
    <3>3. CASE m = n /\ h \notin node[n].executed
      <4>1. node'[m] = s
        BY <1>0, <2>2, <3>3
      <4>2. h \in Blocks /\ Parent[h] \in node[n].executed
        BY <2>2, <3>3, <4>1
      <4>3. Ancestors[Parent[h]] \subseteq node[n].executed
        BY <4>2 DEF ClosedInv
      <4> QED
        BY <2>2, <4>1, <4>2, <4>3, ChainAncestors DEF Keeps
    <3> QED
      BY <3>1, <3>2, <3>3
  <2> QED
    BY <1>2, <2>1, <2>2, NodeChanges
<1> QED
  BY <1>1, <1>2, RestartsCounted

(* Every restart adds one node to those that may have lost blocks. *)
LEMMA LossStep ==
    TypeOK /\ ProtocolInv /\ BallotsInv /\ ClosedInv /\ LossInv /\ [Next]_vars
        => LossInv'
<1> SUFFICES ASSUME TypeOK, ProtocolInv, BallotsInv, ClosedInv, LossInv,
                    [Next]_vars
             PROVE  LossInv'
  OBVIOUS
<1>0. node \in [Validators -> NodeState] /\ restarts \in Nat
  BY NetworkAssumption DEF TypeOK
<1>1. PICK L \in SUBSET Validators : Cardinality(L) <= restarts /\ HeldBy(L)
  BY DEF LossInv
<1>2. ASSUME NEW n \in Validators, Keeps(node[n], node'[n]), n \notin L,
             NEW v \in Views, vote'[n][v] = "yes"
      PROVE  Holds(node'[n], payload'[v])
  <2>1. CASE vote[n][v] = "yes"
    <3>1. Holds(node[n], payload[v]) /\ payload[v] # None
      BY <1>1, <1>2, <2>1 DEF HeldBy, BallotsInv
    <3>2. payload'[v] = payload[v]
      BY <3>1, PayloadsKept
    <3> QED
      BY <1>2, <3>1, <3>2, HoldsKept
  <2>2. CASE vote[n][v] # "yes"
    BY <1>2, <2>2, VotersHold
  <2> QED
    BY <2>1, <2>2
<1>3. CASE UNCHANGED restarts
  <2>1. \A n \in Validators : Keeps(node[n], node'[n])
    <3>1. \A n \in Validators : Keeps(node[n], node[n])
      BY DEF Keeps
    <3>2. ASSUME NEW m \in Validators, NEW s \in NodeState,
                 node' = [node EXCEPT ![m] = s], Keeps(node[m], s),
                 NEW n \in Validators
          PROVE  Keeps(node[n], node'[n])
      BY <1>0, <3>1, <3>2
    <3> QED
      BY <1>3, <3>1, <3>2, NodeChanges
  <2>2. HeldBy(L)'
    BY <1>2, <2>1 DEF HeldBy
  <2> QED
    BY <1>1, <1>3, <2>2 DEF LossInv
<1>4. ASSUME NEW m \in Validators, Restart(m) PROVE LossInv'
  <2>1. PICK s \in AfterRestart(node[m]) : node' = [node EXCEPT ![m] = s]
    BY <1>4 DEF Restart
  <2>2. \A n \in Validators \ {m} : node'[n] = node[n] /\ Keeps(node[n], node'[n])
    BY <1>0, <2>1 DEF Keeps
  <2>3. PICK M \in SUBSET Validators : M = L \cup {m}
    OBVIOUS
  <2>4. HeldBy(M)'
    BY <1>2, <2>2, <2>3 DEF HeldBy
  <2>5. Cardinality(M) <= restarts'
    <3>1. IsFiniteSet(L)
      BY NetworkAssumption, FS_Subset
    <3>2. Cardinality(L) \in Nat /\ Cardinality(M) <= Cardinality(L) + 1
      <4>1. Cardinality(L) \in Nat
        BY <3>1, FS_CardinalityType
      <4>2. Cardinality(M) = IF m \in L THEN Cardinality(L) ELSE Cardinality(L) + 1
        BY <2>3, <3>1, FS_AddElement
      <4> QED
        BY <4>1, <4>2
    <3>3. restarts' = restarts + 1
      BY <1>4 DEF Restart
    <3>4. Cardinality(M) \in Nat
      BY <2>3, <3>1, FS_AddElement, FS_CardinalityType
    <3> QED
      BY <1>0, <1>1, <3>2, <3>3, <3>4
  <2> QED
    BY <2>4, <2>5 DEF LossInv
<1> QED
  BY <1>3, <1>4, RestartsCounted

(* Every set of validators can be counted. *)
LEMMA CountVoters ==
    ASSUME NEW S \in SUBSET Validators
    PROVE  IsFiniteSet(S) /\ Cardinality(S) \in Nat
BY NetworkAssumption, FS_Subset, FS_CardinalityType

(* A certificate keeps its quorum. *)
LEMMA QuorumStep == TypeOK /\ QuorumInv /\ [Next]_vars => QuorumInv'
<1> SUFFICES ASSUME TypeOK, QuorumInv, [Next]_vars,
                    NEW v \in notarized' \ {0}
             PROVE  Cardinality(Voters(v, "yes")') >= Quorum
  BY DEF QuorumInv
<1>0. notarized \subseteq Views /\ Quorum \in Nat
  BY NetworkAssumption, CountVoters DEF TypeOK, ProtocolTypeOK
<1>1. CASE v \in notarized
  <2>1. v \in Views /\ Cardinality(Voters(v, "yes")) >= Quorum
    BY <1>0, <1>1 DEF QuorumInv
  <2>2. Voters(v, "yes") \subseteq Voters(v, "yes")'
    BY <2>1, VotesKept DEF Voters
  <2>3. /\ Voters(v, "yes") \in SUBSET Validators
        /\ Voters(v, "yes")' \in SUBSET Validators
    BY DEF Voters
  <2>4. Cardinality(Voters(v, "yes")) <= Cardinality(Voters(v, "yes")')
    BY <2>2, <2>3, CountVoters, FS_Subset
  <2>5. Cardinality(Voters(v, "yes")) \in Nat /\ Cardinality(Voters(v, "yes")') \in Nat
    BY <2>3, CountVoters
  <2> QED
    BY <1>0, <2>1, <2>4, <2>5
<1>2. ASSUME NEW w \in Views, CollectVotes(w), v = w
      PROVE  Cardinality(Voters(v, "yes")') >= Quorum
  <2>1. vote' = vote /\ Cardinality(Voters(v, "yes")) >= Quorum
    BY <1>2 DEF CollectVotes
  <2>2. Voters(v, "yes")' = Voters(v, "yes")
    BY <2>1 DEF Voters
  <2> QED
    BY <2>1, <2>2
<1>3. CASE v \notin notarized
  <2>1. \A w \in Views : CollectVotes(w) => notarized' = notarized \cup {w}
    BY DEF CollectVotes, Notarize
  <2>2. CASE \E w \in Views : CollectVotes(w)
    BY <1>2, <1>3, <2>1, <2>2
  <2>3. CASE ~\E w \in Views : CollectVotes(w)
    <3>1. notarized' = notarized
      BY <2>3
      DEF Next, NodeStep, StartView, EnterView, HandlePropose, Proposed,
          FailPropose, Relay, Broadcast, CollectFinalize, Finalize,
          HandleVerify, RefuseVerify, HandleFinalization, Forward, Deliver,
          Restart, Quiescent, vars, protocolVars
    <3> QED
      BY <1>3, <3>1
  <2> QED
    BY <2>2, <2>3
<1> QED
  BY <1>1, <1>3

(* A tracker moves to finalized blocks only. *)
LEMMA TrackerStep ==
    TypeOK /\ ProtocolInv /\ BallotsInv /\ TrackerInv /\ [Next]_vars => TrackerInv'
<1> SUFFICES ASSUME TypeOK, ProtocolInv, BallotsInv, TrackerInv, [Next]_vars,
                    NEW m \in Validators
             PROVE  \E u \in finalized' : node'[m].tracker = HashOf(payload'[u])
  BY DEF TrackerInv, HashOf
<1>0. node \in [Validators -> NodeState]
  BY DEF TypeOK
<1>1. \A u \in finalized : u \in finalized' /\ payload'[u] = payload[u]
  BY PayloadsKept DEF ProtocolInv, ProtocolTypeOK, CertificatesInv
<1>2. \E u \in finalized : node'[m].tracker = HashOf(payload[u])
  <2>1. ASSUME NEW n \in Validators, Restart(n)
        PROVE  \E u \in finalized : node'[m].tracker = HashOf(payload[u])
    <3>1. PICK s \in AfterRestart(node[n]) : node' = [node EXCEPT ![n] = s]
      BY <2>1 DEF Restart
    <3>2. s.tracker = Genesis
      BY <1>0, RestartState
    <3>3. 0 \in finalized /\ HashOf(payload[0]) = Genesis
      BY DEF ProtocolInv, CertificatesInv, HashOf
    <3> QED
      BY <1>0, <3>1, <3>2, <3>3 DEF TrackerInv
  <2>2. CASE UNCHANGED restarts
    <3>1. ASSUME NEW n \in Validators, NEW s \in NodeState,
                 node' = [node EXCEPT ![n] = s],
                 \/ s.tracker = node[n].tracker
                 \/ \E u \in finalized : s.tracker = HashOf(payload[u])
          PROVE  \E u \in finalized : node'[m].tracker = HashOf(payload[u])
      BY <1>0, <3>1 DEF TrackerInv
    <3>2. CASE node' = node
      BY <3>2 DEF TrackerInv
    <3> QED
      BY <2>2, <3>1, <3>2, NodeChanges
  <2> QED
    BY <2>1, <2>2, RestartsCounted
<1> QED
  BY <1>1, <1>2

-----------------------------------------------------------------------------
(* The theorems *)

(* All nodes start on genesis. *)
LEMMA NetworkInit == Init => NetworkInv
<1> SUFFICES ASSUME Init PROVE NetworkInv
  OBVIOUS
<1> USE ProtocolAssumption, NetworkAssumption
<1>1. 0 \in Views /\ Rotation[1] \in Validators
  BY DEF Views
<1>2. ProtocolInv
  BY <1>1, ProtocolInitInv DEF Init
<1>3. StartState({Genesis}) \in NodeState
  BY DEF StartState, NodeState, Hash
<1>4. TypeOK
  BY <1>1, <1>2, <1>3 DEF Init, TypeOK, ProtocolInv, Vote
<1>5. BallotsInv
  BY DEF Init, ProtocolInit, BallotsInv
<1>6. ClosedInv
  BY ChainAncestors DEF Init, ClosedInv, StartState
<1>7. LossInv
  <2>1. Cardinality({}) <= restarts
    BY FS_EmptySet DEF Init
  <2>2. HeldBy({})
    BY DEF Init, HeldBy
  <2> QED
    BY <2>1, <2>2 DEF LossInv
<1>8. QuorumInv
  BY DEF Init, ProtocolInit, QuorumInv
<1>9. TrackerInv
  BY <1>1 DEF Init, ProtocolInit, TrackerInv, StartState, HashOf
<1> QED
  BY <1>2, <1>4, <1>5, <1>6, <1>7, <1>8, <1>9 DEF NetworkInv

(* The inductive invariant holds throughout every behaviour. *)
THEOREM NetworkInvariance == Spec => []NetworkInv
<1>1. NetworkInv /\ [Next]_vars => NetworkInv'
  BY TypeStep, ProtocolStep, BallotsStep, ClosedStep, LossStep, QuorumStep,
     TrackerStep
  DEF NetworkInv
<1> QED
  BY <1>1, NetworkInit, PTL DEF Spec

(* The nodes, the votes and the channel keep their types: no handler       *)
(* records, sends or finalizes a digest that no view proposed.             *)
THEOREM NetworkTypeCorrect == Spec => []TypeOK
<1>1. NetworkInv => TypeOK
  BY DEF NetworkInv
<1> QED
  BY <1>1, NetworkInvariance, PTL

(* A notarized block is held, with its bytes, its record and an executed   *)
(* chain below it, by a quorum but for one node per restart: what was lost *)
(* to a restart is all that can be missing (application.rs, engine.rs).    *)
THEOREM BlocksAvailable == Spec => []AvailabilityBound
<1>1. NetworkInv => AvailabilityBound
  <2> SUFFICES ASSUME NetworkInv, NEW v \in notarized \ {0}
               PROVE  Cardinality(Holders(payload[v])) >= Quorum - restarts
    BY DEF AvailabilityBound
  <2> DEFINE Y == Voters(v, "yes")
             H == Holders(payload[v])
  <2>1. v \in Views /\ Cardinality(Y) >= Quorum
    BY DEF NetworkInv, TypeOK, ProtocolTypeOK, QuorumInv
  <2>2. PICK L \in SUBSET Validators : Cardinality(L) <= restarts /\ HeldBy(L)
    BY DEF NetworkInv, LossInv
  <2>3. Y \in SUBSET Validators /\ H \in SUBSET Validators
    BY DEF Voters, Holders
  <2>4. Y \subseteq H \cup L
    BY <2>1, <2>2 DEF Voters, Holders, HeldBy
  <2> HIDE DEF Y, H
  <2>5. /\ IsFiniteSet(H) /\ IsFiniteSet(L)
        /\ Cardinality(Y) \in Nat /\ Cardinality(H) \in Nat
        /\ Cardinality(L) \in Nat
    BY <2>2, <2>3, CountVoters
  <2>6. /\ IsFiniteSet(H \cup L)
        /\ Cardinality(H \cup L)
             = Cardinality(H) + Cardinality(L) - Cardinality(H \cap L)
    BY <2>5, FS_Union
  <2>7. Cardinality(H \cap L) \in Nat /\ Cardinality(H \cup L) \in Nat
    BY <2>3, CountVoters
  <2>8. Cardinality(Y) <= Cardinality(H \cup L)
    BY <2>4, <2>6, FS_Subset
  <2>9. Quorum \in Nat /\ restarts \in Nat
    BY NetworkAssumption, CountVoters DEF NetworkInv, TypeOK
  <2>10. Cardinality(H) >= Quorum - restarts
    BY <2>1, <2>2, <2>5, <2>6, <2>7, <2>8, <2>9
  <2> QED
    BY <2>10 DEF H
<1> QED
  BY <1>1, NetworkInvariance, PTL

(* The finalized blocks the nodes hold are on one chain, whatever each of  *)
(* them missed, skipped or forgot (finalizer.rs, MetricsReporter::report). *)
THEOREM TrackersAgree == Spec => []TrackersOnOneChain
<1>1. NetworkInv => TrackersOnOneChain
  <2> SUFFICES ASSUME NetworkInv, NEW m \in Validators, NEW n \in Validators
               PROVE  \/ node[m].tracker \in Ancestors[node[n].tracker]
                      \/ node[n].tracker \in Ancestors[node[m].tracker]
    BY DEF TrackersOnOneChain
  <2>1. PICK u \in finalized : node[m].tracker = HashOf(payload[u])
    BY DEF NetworkInv, TrackerInv
  <2>2. PICK w \in finalized : node[n].tracker = HashOf(payload[w])
    BY DEF NetworkInv, TrackerInv
  <2>3. u <= w \/ w <= u
    BY ProtocolAssumption DEF NetworkInv, ProtocolInv, ProtocolTypeOK, Views
  <2> QED
    BY <2>1, <2>2, <2>3, FinalizedOneChain DEF NetworkInv
<1> QED
  BY <1>1, NetworkInvariance, PTL
=============================================================================

--------------------------- MODULE ProtocolProofs ---------------------------
(***************************************************************************)
(* What the protocol keeps true, for every block tree and any number of    *)
(* views: a view that is not nullified lies below every later view that    *)
(* has a proposal.  Bridge and Network both rest on it.                    *)
(*                                                                         *)
(* A finalized view is never nullified, so finalized blocks are on one     *)
(* chain.  That alone is not inductive: a view may be finalized long after *)
(* others were built above or beside it, and a leader's answer may fill in *)
(* the payload of a view others have already passed.                       *)
(***************************************************************************)
EXTENDS Protocol, TLAPS

(* Certificates and payloads: view 0 is final, a certificate is for a      *)
(* payload, and nothing is known of a view that has not begun.             *)
CertificatesInv ==
    /\ 0 \in finalized /\ payload[0] = EMPTY
    /\ finalized \subseteq notarized
    /\ finalized \cap nullified = {}
    /\ \A v \in notarized : payload[v] # None
    /\ \A v \in Views : v > view => payload[v] = None

(* A view builds on an earlier notarized one, with all between nullified.  *)
ParentsInv ==
    /\ \A v \in Views : parentView[v] \in notarized
    /\ \A v \in 1..view :
          /\ parentView[v] < v
          /\ ((parentView[v] + 1)..(v - 1)) \subseteq nullified

(* A view that is not nullified is below every later proposal. *)
OneChainInv ==
    \A v, w \in Views :
        v < w /\ v \notin nullified /\ payload[w] # None =>
            /\ payload[v] # None
            /\ HashOf(payload[v]) \in Ancestors[HashOf(payload[w])]

ProtocolInv ==
    /\ ProtocolTypeOK
    /\ CertificatesInv
    /\ ParentsInv
    /\ OneChainInv

-----------------------------------------------------------------------------
(* The tree of blocks *)

(* A digest stands for a block. *)
LEMMA DigestHash == \A d \in Digest : HashOf(d) \in Hash
BY DEF HashOf, Digest, Hash

(* A block is on its own chain. *)
LEMMA AncestorsReflexive == \A h \in Hash : h \in Ancestors[h]
BY ChainAncestors DEF Hash

(* What is below a block is below everything above that block. *)
LEMMA AncestorsTransitive ==
    ASSUME NEW a \in Hash, NEW b \in Hash, NEW h \in Hash,
           a \in Ancestors[b], b \in Ancestors[h]
    PROVE  a \in Ancestors[h]
BY ChainAncestors

(* A child is on the chain of its parent. *)
LEMMA ChildAbove ==
    ASSUME NEW h \in Hash, NEW b \in Children(h)
    PROVE  /\ b \in Blocks /\ b \in Hash /\ b # EMPTY /\ HashOf(b) = b
           /\ Ancestors[h] \subseteq Ancestors[b]
BY ChainNames, ChainAncestors DEF Children, Hash, HashOf

(* Two finalized views: the earlier block is on the chain of the later.    *)
LEMMA FinalizedOneChain ==
    ASSUME ProtocolInv, NEW v \in finalized, NEW w \in finalized, v <= w
    PROVE  HashOf(payload[v]) \in Ancestors[HashOf(payload[w])]
<1>1. v \in Views /\ w \in Views /\ v \notin nullified /\ payload[w] # None
  BY DEF ProtocolInv, ProtocolTypeOK, CertificatesInv
<1>2. payload[w] \in Digest /\ v \in Int /\ w \in Int
  BY <1>1, ProtocolAssumption DEF ProtocolInv, ProtocolTypeOK, Views
<1>3. CASE v = w
  BY <1>2, <1>3, DigestHash, AncestorsReflexive
<1>4. CASE v < w
  BY <1>1, <1>4 DEF ProtocolInv, OneChainInv
<1> QED
  BY <1>2, <1>3, <1>4

-----------------------------------------------------------------------------
(* Steps *)

(* The protocol starts with genesis alone. *)
LEMMA ProtocolInitInv ==
    ASSUME NEW l \in Validators, ProtocolInit(l)
    PROVE  ProtocolInv
<1> USE ProtocolAssumption
<1>1. 0 \in Views
  BY DEF Views
<1>2. ProtocolTypeOK
  BY <1>1 DEF ProtocolInit, ProtocolTypeOK, Digest
<1>3. CertificatesInv
  BY <1>1 DEF ProtocolInit, CertificatesInv, Views, Digest
<1>4. ParentsInv
  BY <1>1 DEF ProtocolInit, ParentsInv, Views
<1>5. OneChainInv
  BY <1>1 DEF ProtocolInit, OneChainInv, Views
<1> QED
  BY <1>2, <1>3, <1>4, <1>5 DEF ProtocolInv

(* What is not nullified and not after the parent of a view lies below a   *)
(* child of the parent's block.                                            *)
LEMMA BelowParent ==
    ASSUME ProtocolInv, NEW p \in notarized, NEW v \in Views, v <= p,
           v \notin nullified, NEW b \in Children(HashOf(payload[p]))
    PROVE  /\ payload[v] # None
           /\ HashOf(payload[v]) \in Ancestors[HashOf(b)]
<1>1. p \in Views /\ payload[p] # None /\ payload[p] \in Digest
  BY DEF ProtocolInv, ProtocolTypeOK, CertificatesInv
<1>2. HashOf(payload[p]) \in Hash
  BY <1>1, DigestHash
<1>3. v \in Int /\ p \in Int
  BY <1>1, ProtocolAssumption DEF Views
<1>4. payload[v] # None /\ HashOf(payload[v]) \in Ancestors[HashOf(payload[p])]
  <2>1. CASE v = p
    BY <1>1, <1>2, <2>1, AncestorsReflexive
  <2>2. CASE v < p
    BY <1>1, <2>2 DEF ProtocolInv, OneChainInv
  <2> QED
    BY <1>3, <2>1, <2>2
<1> QED
  BY <1>2, <1>4, ChildAbove

(* A view begins, with the payload d of its leader or, for None, without.  *)
LEMMA EnterViewProtocol ==
    ASSUME ProtocolInv, NEW p \in Views, NEW l \in Validators, EnterView(p, l),
           NEW d \in {None} \cup Children(HashOf(payload[p])),
           payload' = [payload EXCEPT ![view + 1] = d]
    PROVE  ProtocolInv'
<1> DEFINE w == view + 1
<1> USE ProtocolAssumption
<1>1. /\ view \in Nat /\ view < MaxView /\ p \in notarized /\ p \in Nat
      /\ w \in Views /\ w # 0 /\ w > view /\ view' = w
      /\ leader' = [leader EXCEPT ![w] = l]
      /\ parentView' = [parentView EXCEPT ![w] = p]
      /\ nullified' = nullified \cup ((p + 1)..view)
      /\ notarized' = notarized /\ finalized' = finalized
      /\ ((p + 1)..view) \cap finalized = {}
  <2>1. view \in Nat /\ p \in Nat /\ view < MaxView
    BY DEF EnterView, ProtocolInv, ProtocolTypeOK, Views
  <2>2. w \in Views /\ w # 0 /\ w > view
    BY <2>1 DEF Views
  <2> QED
    BY <2>1, <2>2 DEF EnterView
<1>2. payload[w] = None /\ payload[p] # None /\ p <= view
  BY <1>1 DEF ProtocolInv, CertificatesInv, Views
<1>3. d \in Digest \cup {None}
  BY DEF Children, Digest
<1>4. \A u \in Views \ {w} : /\ payload'[u] = payload[u]
                             /\ parentView'[u] = parentView[u]
  BY <1>1 DEF ProtocolInv, ProtocolTypeOK
<1>5. payload'[w] = d /\ parentView'[w] = p
  BY <1>1 DEF ProtocolInv, ProtocolTypeOK
<1>6. \A u \in notarized : u \in Views \ {w}
  BY <1>2 DEF ProtocolInv, ProtocolTypeOK, CertificatesInv
<1>7. ProtocolTypeOK'
  <2>1. ((p + 1)..view) \subseteq Views
    BY <1>1 DEF Views
  <2> QED
    BY <1>1, <1>3, <2>1 DEF ProtocolInv, ProtocolTypeOK
<1>8. CertificatesInv'
  <2>1. \A u \in Views : u > w => payload'[u] = None
    BY <1>1, <1>4 DEF ProtocolInv, CertificatesInv, Views
  <2> QED
    BY <1>1, <1>4, <1>6, <2>1 DEF ProtocolInv, CertificatesInv
<1>9. ParentsInv'
  <2>1. \A u \in Views : parentView'[u] \in notarized
    BY <1>1, <1>4, <1>5 DEF ProtocolInv, ParentsInv
  <2>2. ASSUME NEW u \in 1..w
        PROVE  /\ parentView'[u] < u
               /\ ((parentView'[u] + 1)..(u - 1)) \subseteq nullified'
    <3>1. CASE u = w
      BY <1>1, <1>2, <1>5, <3>1
    <3>2. CASE u # w
      <4>1. u \in 1..view /\ u \in Views \ {w}
        BY <1>1, <3>2 DEF Views
      <4> QED
        BY <1>1, <1>4, <4>1 DEF ProtocolInv, ParentsInv
    <3> QED
      BY <3>1, <3>2
  <2> QED
    BY <1>1, <2>1, <2>2 DEF ParentsInv
<1>10. OneChainInv'
  <2> SUFFICES ASSUME NEW v \in Views, NEW u \in Views, v < u,
                      v \notin nullified', payload'[u] # None
               PROVE  /\ payload'[v] # None
                      /\ HashOf(payload'[v]) \in Ancestors[HashOf(payload'[u])]
    BY DEF OneChainInv, HashOf
  <2>1. u <= w
    BY <1>1, <1>4 DEF ProtocolInv, CertificatesInv, Views
  <2>2. v \in Views \ {w} /\ v \notin nullified
    BY <1>1, <2>1 DEF Views
  <2>3. CASE u = w
    <3>1. v <= p
      BY <1>1, <2>2, <2>3 DEF Views
    <3>2. d \in Children(HashOf(payload[p]))
      BY <1>5, <2>3
    <3> QED
      BY <1>1, <1>4, <1>5, <2>2, <2>3, <3>1, <3>2, BelowParent
  <2>4. CASE u # w
    BY <1>4, <2>2, <2>4 DEF ProtocolInv, OneChainInv
  <2> QED
    BY <2>3, <2>4
<1> QED
  BY <1>7, <1>8, <1>9, <1>10 DEF ProtocolInv

(* The leader's answer fills in the payload of a view that has begun. *)
LEMMA ProposedProtocol ==
    ASSUME ProtocolInv, NEW v \in 1..view, payload[v] = None,
           NEW b \in Children(HashOf(ParentDigest(v))), Proposed(v, b)
    PROVE  ProtocolInv'
<1> DEFINE p == parentView[v]
<1> USE ProtocolAssumption
<1>1. /\ payload' = [payload EXCEPT ![v] = b]
      /\ UNCHANGED <<view, leader, parentView, notarized, nullified, finalized>>
      /\ v \in Views /\ view \in Nat /\ p \in notarized
      /\ p \in Views /\ v \in Nat /\ p \in Nat /\ p < v
      /\ ((p + 1)..(v - 1)) \subseteq nullified
  BY DEF Proposed, ProtocolInv, ProtocolTypeOK, ParentsInv, Views
<1>2. b \in Blocks /\ b # None /\ b \in Digest \cup {None}
  BY DEF Children, Digest
<1>3. payload'[v] = b /\ \A u \in Views \ {v} : payload'[u] = payload[u]
  BY <1>1 DEF ProtocolInv, ProtocolTypeOK
<1>4. \A u \in notarized : u \in Views \ {v}
  BY DEF ProtocolInv, ProtocolTypeOK, CertificatesInv
<1>5. ProtocolTypeOK'
  BY <1>1, <1>2 DEF ProtocolInv, ProtocolTypeOK
<1>6. CertificatesInv'
  <2>1. \A u \in Views : u > view => u # v
    BY <1>1 DEF Views
  <2> QED
    BY <1>1, <1>3, <1>4, <2>1 DEF ProtocolInv, CertificatesInv
<1>7. ParentsInv'
  BY <1>1 DEF ProtocolInv, ParentsInv
<1>8. OneChainInv'
  <2> SUFFICES ASSUME NEW u \in Views, NEW w \in Views, u < w,
                      u \notin nullified, payload'[w] # None
               PROVE  /\ payload'[u] # None
                      /\ HashOf(payload'[u]) \in Ancestors[HashOf(payload'[w])]
    BY <1>1 DEF OneChainInv, HashOf
  <2>1. CASE w = v
    <3>1. u <= p /\ u # v
      BY <1>1, <2>1 DEF Views
    <3>2. b \in Children(HashOf(payload[p]))
      BY DEF ParentDigest
    <3> QED
      BY <1>1, <1>3, <2>1, <3>1, <3>2, BelowParent
  <2>2. CASE w # v
    <3>1. payload[w] # None
      BY <1>3, <2>2
    <3>2. /\ payload[u] # None
          /\ HashOf(payload[u]) \in Ancestors[HashOf(payload[w])]
      BY <3>1 DEF ProtocolInv, OneChainInv
    <3> QED
      BY <1>3, <2>2, <3>2
  <2> QED
    BY <2>1, <2>2
<1> QED
  BY <1>5, <1>6, <1>7, <1>8 DEF ProtocolInv

(* Certificates only add notarized and finalized views. *)
LEMMA CertifiedProtocol ==
    ASSUME ProtocolInv, NEW v \in Views, Notarize(v) \/ Finalize(v)
    PROVE  ProtocolInv'
<1>1. /\ UNCHANGED <<view, leader, parentView, payload, nullified>>
      /\ notarized \subseteq notarized' /\ finalized \subseteq finalized'
      /\ finalized' \subseteq notarized' /\ notarized' \subseteq Views
      /\ finalized' \cap nullified = {}
      /\ \A u \in notarized' : payload[u] # None
  BY DEF Notarize, Finalize, ProtocolInv, ProtocolTypeOK, CertificatesInv
<1>2. ProtocolTypeOK' /\ CertificatesInv'
  BY <1>1 DEF ProtocolInv, ProtocolTypeOK, CertificatesInv
<1>3. ParentsInv' /\ OneChainInv'
  BY <1>1 DEF ProtocolInv, ParentsInv, OneChainInv
<1> QED
  BY <1>2, <1>3 DEF ProtocolInv

(* Steps that leave the protocol alone. *)
LEMMA UnchangedProtocol ==
    ASSUME ProtocolInv, UNCHANGED protocolVars
    PROVE  ProtocolInv'
<1>1. UNCHANGED <<view, leader, parentView, payload, notarized, nullified,
                  finalized>>
  BY DEF protocolVars
<1>2. ProtocolTypeOK' /\ CertificatesInv' /\ ParentsInv' /\ OneChainInv'
  BY <1>1
  DEF ProtocolInv, ProtocolTypeOK, CertificatesInv, ParentsInv, OneChainInv
<1> QED
  BY <1>2 DEF ProtocolInv
=============================================================================

------------------------------ MODULE Protocol ------------------------------
(***************************************************************************)
(* The consensus protocol: views, proposals and certificates.              *)
(*                                                                         *)
(* commonware's simplex engine and the quorum of validators behind it are  *)
(* a library and a network; this module keeps what allegro relies on:      *)
(*   - views are entered in order, each with one leader and one proposal,  *)
(*     built on the payload of an earlier notarized view, and only when    *)
(*     every view in between is nullified;                                 *)
(*   - a view may be notarized and nullified, but never finalized and      *)
(*     nullified; a view can be finalized by a descendant alone.           *)
(* Leaders are honest: a proposal is a block on top of the parent's block. *)
(* Two views may carry the same payload: the payload attributes name       *)
(* neither view nor proposer, so a block rebuilt within one second on the  *)
(* same parent is the same block.                                          *)
(***************************************************************************)
EXTENDS Chain, Integers

CONSTANTS
    Validators,   \* public keys of the validator set
    None,         \* no payload yet
    MaxView       \* bound on the number of views

ASSUME ProtocolAssumption ==
    /\ None \notin Digest
    /\ MaxView \in Nat

VARIABLES
    view,         \* the current view, 0 before the first
    leader,       \* [Views -> Validators]
    parentView,   \* [Views -> Views], the view a proposal builds on
    payload,      \* [Views -> Digest \cup {None}], the digest a view proposes
    notarized,    \* views with a notarization certificate
    nullified,    \* views with a nullification certificate
    finalized     \* views with a finalization certificate

protocolVars == <<view, leader, parentView, payload, notarized, nullified,
                  finalized>>

Views == 0..MaxView

ProtocolTypeOK ==
    /\ view \in Views
    /\ leader \in [Views -> Validators]
    /\ parentView \in [Views -> Views]
    /\ payload \in [Views -> Digest \cup {None}]
    /\ notarized \subseteq Views
    /\ nullified \subseteq Views
    /\ finalized \subseteq Views

(* Floor::Genesis(EMPTY): view 0 is final from the start.  first stands    *)
(* for the leader of the views that have not started.                      *)
ProtocolInit(first) ==
    /\ view = 0
    /\ leader = [v \in Views |-> first]
    /\ parentView = [v \in Views |-> 0]
    /\ payload = [v \in Views |-> IF v = 0 THEN EMPTY ELSE None]
    /\ notarized = {0}
    /\ nullified = {}
    /\ finalized = {0}

ParentDigest(v) == payload[parentView[v]]

(* The next view starts on top of view p; what lies between is nullified.  *)
(* Its payload is left to the caller.                                      *)
EnterView(p, l) ==
    /\ view < MaxView
    /\ p \in notarized
    /\ ((p + 1)..view) \cap finalized = {}
    /\ view' = view + 1
    /\ leader' = [leader EXCEPT ![view + 1] = l]
    /\ parentView' = [parentView EXCEPT ![view + 1] = p]
    /\ nullified' = nullified \cup ((p + 1)..view)
    /\ UNCHANGED <<notarized, finalized>>

(* The leader's proposal of view v is known. *)
Proposed(v, d) ==
    /\ payload' = [payload EXCEPT ![v] = d]
    /\ UNCHANGED <<view, leader, parentView, notarized, nullified, finalized>>

Notarize(v) ==
    /\ v \in 1..view
    /\ v \notin notarized
    /\ payload[v] # None
    /\ notarized' = notarized \cup {v}
    /\ UNCHANGED <<view, leader, parentView, payload, nullified, finalized>>

Finalize(v) ==
    /\ v \in notarized \ (nullified \cup finalized)
    /\ finalized' = finalized \cup {v}
    /\ UNCHANGED <<view, leader, parentView, payload, notarized, nullified>>
=============================================================================

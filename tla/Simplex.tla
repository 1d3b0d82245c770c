------------------------------ MODULE Simplex ------------------------------
(***************************************************************************)
(* The simplex engine of one allegro node, as the node meets it: the       *)
(* views it leads and the ones it follows, the finalizations it is told    *)
(* of, and its journal.                                                    *)
(*   - finalization certificates are reported in view order; a view that   *)
(*     is finalized by a descendant alone is never reported;               *)
(*   - the journal survives a restart, and the reports the engine makes    *)
(*     while replaying it may repeat earlier ones.                         *)
(***************************************************************************)
EXTENDS Protocol

CONSTANT Self     \* this node's key

ASSUME SimplexAssumption == Self \in Validators

VARIABLE reported \* highest view reported as finalized to this node

simplexVars == <<view, leader, parentView, payload, notarized, nullified,
                 finalized, reported>>

SimplexTypeOK == ProtocolTypeOK /\ reported \in Views

SimplexInit == ProtocolInit(Self) /\ reported = 0

(* This node leads the next view; its payload comes with the answer. *)
Lead(p) == EnterView(p, Self) /\ UNCHANGED <<payload, reported>>

(* Another validator leads it and proposes block b. *)
Follow(p, l, b) ==
    /\ EnterView(p, l)
    /\ l # Self
    /\ b \in Children(HashOf(payload[p]))
    /\ payload' = [payload EXCEPT ![view + 1] = b]
    /\ UNCHANGED reported

(* A finalization certificate reaches this node's reporter.  Views may be  *)
(* passed over, never reported backwards.                                  *)
ReportedNow(v) ==
    /\ v \in finalized
    /\ v > reported
    /\ reported' = v
    /\ UNCHANGED protocolVars

(* Replaying the journal may repeat reports from any earlier point on. *)
SimplexRestart ==
    /\ reported' \in 0..reported
    /\ UNCHANGED protocolVars
=============================================================================

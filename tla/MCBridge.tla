------------------------------ MODULE MCBridge ------------------------------
(* A small block tree for Bridge: two branches above genesis, of which one *)
(* goes on.                                                                *)
EXTENDS Bridge, FiniteSets, TLC

CONSTANTS g, a1, a2, b1, me, peer

MCBlocks == {a1, a2, b1}
MCParent == (a1 :> g) @@ (a2 :> a1) @@ (b1 :> g)
MCAncestors ==
    (g :> {g}) @@ (a1 :> {g, a1}) @@ (a2 :> {g, a1, a2}) @@ (b1 :> {g, b1})
MCValidators == {me, peer}

(* Behaviours in which few views get certificates, genesis aside. *)
FewCertificates == Cardinality(notarized) <= 3 /\ Cardinality(finalized) <= 2
=============================================================================

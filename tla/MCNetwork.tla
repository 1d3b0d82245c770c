------------------------------ MODULE MCNetwork ------------------------------
(* Validators and two branches above genesis, of which one goes on.        *)
EXTENDS Network, TLC

CONSTANTS g, a1, a2, b1, n1, n2, n3, n4

MCBlocks == {a1, a2, b1}
MCParent == (a1 :> g) @@ (a2 :> a1) @@ (b1 :> g)
MCAncestors ==
    (g :> {g}) @@ (a1 :> {g, a1}) @@ (a2 :> {g, a1, a2}) @@ (b1 :> {g, b1})
ThreeValidators == {n1, n2, n3}
ThreeRotation == <<n1, n2, n3>>
FourValidators == {n1, n2, n3, n4}
FourRotation == <<n1, n2, n3, n4>>
=============================================================================

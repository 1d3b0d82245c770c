-------------------------------- MODULE Node --------------------------------
(***************************************************************************)
(* What one allegro node promises, whatever its tasks interleave:          *)
(*   - it answers a proposal only on a parent it recorded and executed,    *)
(*     and then keeps the bytes and the record of the block;               *)
(*   - it records a block of another validator only when it has its bytes  *)
(*     and executed it on top of its parent;                               *)
(*   - what it holds as finalized is recorded and executed, and only       *)
(*     climbs the chain;                                                   *)
(*   - all of that is lost at a restart, and nothing is at other times.    *)
(***************************************************************************)
EXTENDS NodeSteps

VARIABLE self   \* the node, in NodeState

Init == self = StartState({Genesis})

Build(d, b) == CanBuild(self, d, b) /\ self' \in AfterBuild(self, b)

Verify(b) == CanVerify(self, b) /\ self' = AfterVerify(self, b)

Receive(b) == self' = AfterReceive(self, b)

Climb(d) ==
    /\ CanFinalize(self, d)
    /\ self.tracker \in Ancestors[HashOf(d)]
    /\ self' = AfterFinalize(self, d)

Restart == self' \in AfterRestart(self)

Next ==
    \/ \E d \in Digest, b \in Blocks : Build(d, b)
    \/ \E b \in Blocks : Verify(b) \/ Receive(b)
    \/ \E d \in Digest : Climb(d)
    \/ Restart

Spec == Init /\ [][Next]_self
=============================================================================

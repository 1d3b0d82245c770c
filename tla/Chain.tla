------------------------------- MODULE Chain -------------------------------
(***************************************************************************)
(* The blocks of one allegro chain, as the consensus layer sees them.      *)
(*                                                                         *)
(* A block is known by its hash, and the consensus digest of a block IS    *)
(* that hash (AllegroDigest wraps a B256).  Block contents, numbers and    *)
(* timestamps are abstracted away: a block is its place in the tree.  The  *)
(* one digest that is not a block hash is EMPTY (all zeroes), which the    *)
(* consensus engine uses as the payload of its genesis.                    *)
(***************************************************************************)
CONSTANTS
    Blocks,     \* hashes of the blocks that may be built
    Genesis,    \* hash of the execution layer's genesis block
    EMPTY,      \* Digest::EMPTY = B256::ZERO
    Parent,     \* [Blocks -> Hash], the parent_hash of each header
    Ancestors   \* [Hash -> SUBSET Hash], a block and all blocks below it

(* Hashes of blocks, and digests as consensus uses them.                   *)
Hash == Blocks \cup {Genesis}
Digest == Blocks \cup {EMPTY}

ASSUME ChainNames ==
    /\ Genesis \notin Blocks
    /\ EMPTY \notin Hash

ASSUME ChainParents == Parent \in [Blocks -> Hash]

ASSUME ChainAncestors ==
    /\ Ancestors \in [Hash -> SUBSET Hash]
    /\ Ancestors[Genesis] = {Genesis}
    /\ \A b \in Blocks : Ancestors[b] = {b} \cup Ancestors[Parent[b]]
    /\ \A h \in Hash, a \in Hash :
          a \in Ancestors[h] => Ancestors[a] \subseteq Ancestors[h]

(* The execution-layer block a digest stands for: Actor::new registers     *)
(* EMPTY as the digest of the genesis block.                               *)
HashOf(d) == IF d = EMPTY THEN Genesis ELSE d

Children(h) == {b \in Blocks : Parent[b] = h}

(* h is a block strictly below g. *)
StrictlyBelow(h, g) == h \in Ancestors[g] /\ h # g
=============================================================================

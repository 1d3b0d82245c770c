----------------------------- MODULE NodeSteps -----------------------------
(***************************************************************************)
(* What an allegro node does with a request, a block or a finalization,    *)
(* with everything between the request and its answer taken as one step.   *)
(*                                                                         *)
(* A node is the record of its stores; the operators below say when a      *)
(* handler may succeed and what it leaves behind.  Node makes them the     *)
(* specification of one node, which Bridge implements with all its awaits; *)
(* Network puts several nodes together.                                    *)
(***************************************************************************)
EXTENDS Chain

CONSTANT Faults   \* whether calls of the execution layer may fail

NodeState ==
    [recorded : SUBSET Blocks,   \* digests in BlockInfoMap, EMPTY aside
     pending  : SUBSET Blocks,   \* PendingBlocks
     received : SUBSET Blocks,   \* ReceivedBlocks
     executed : SUBSET Hash,     \* blocks the execution layer found valid
     tracker  : Hash]            \* ForkchoiceTracker

(* A process starts with empty stores on top of a database. *)
StartState(database) ==
    [recorded |-> {}, pending |-> {}, received |-> {},
     executed |-> database, tracker |-> Genesis]

(* block_info has an entry for digest d; that of EMPTY is made at start. *)
Known(s, d) == d = EMPTY \/ d \in s.recorded

HasBytes(s, b) == b \in s.pending \cup s.received

(* The bytes and the record of a block, and every block below it executed: *)
(* the node can finalize the block or execute it, and serve it.            *)
Holds(s, b) ==
    /\ b \in s.recorded
    /\ HasBytes(s, b)
    /\ Ancestors[Parent[b]] \subseteq s.executed

(* handle_propose on parent digest d may answer block b: the parent is     *)
(* recorded, for its hash, and executed, for a payload job to start.       *)
CanBuild(s, d, b) ==
    /\ Known(s, d)
    /\ HashOf(d) \in s.executed
    /\ b \in Children(HashOf(d))

(* Bug variant: the bytes are stored before the block has its digest. *)
AfterBuildUnhashed(s, b) ==
    {[s EXCEPT !.recorded = @ \cup {b}, !.pending = @ \cup {EMPTY}]}

(* The block is recorded and its bytes are kept for the relay.  With       *)
(* faults its self-import may be ACCEPTED without an execution.            *)
AfterBuild(s, b) ==
    LET stored == [s EXCEPT !.recorded = @ \cup {b}, !.pending = @ \cup {b}]
    IN {[stored EXCEPT !.executed = @ \cup {b}]} \cup
       (IF Faults THEN {stored} ELSE {})

(* Bug variant: SYNCING is trusted, as an optimistic client would. *)
CanVerifyOptimistic(s, b) == HasBytes(s, b)

(* handle_verify may answer true: the bytes are here at the time of the    *)
(* request and the parent was executed, so that new_payload is VALID.      *)
CanVerify(s, b) == HasBytes(s, b) /\ Parent[b] \in s.executed

AfterVerify(s, b) ==
    [s EXCEPT !.recorded = @ \cup {b}, !.executed = @ \cup {b}]

(* spawn_block_receiver: the last message of a digest is kept. *)
AfterReceive(s, b) == [s EXCEPT !.received = @ \cup {b}]

(* The finalizer finds the block, and the FCU is VALID. *)
CanFinalize(s, d) == Known(s, d) /\ HashOf(d) \in s.executed

AfterFinalize(s, d) == [s EXCEPT !.tracker = HashOf(d)]

(* A prefix of some executed chain is left in the database. *)
AfterRestart(s) == {StartState(Ancestors[h]) : h \in s.executed}
=============================================================================

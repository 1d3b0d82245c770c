----------------------------- MODULE Timestamps -----------------------------
(***************************************************************************)
(* The timestamps of allegro blocks.                                       *)
(*                                                                         *)
(* A proposer picks milliseconds past its record of the parent, and the    *)
(* block carries them rounded down to seconds.  Every node then records    *)
(* for the block the seconds of its header and milliseconds derived from   *)
(* them: the proposer from the payload it built, a verifier from the       *)
(* header it validated.  Those records are what the next proposal starts   *)
(* from.  Arithmetic is that of u64, with the saturating operations the    *)
(* code uses.  Wall clocks are the proposers' own: they are not            *)
(* synchronised and may step back.                                         *)
(***************************************************************************)
EXTENDS Integers

CONSTANTS
    Nodes,        \* the validators
    PerSecond,    \* milliseconds in a second (1000)
    U64Max,       \* largest u64 (2^64 - 1)
    MaxBlocks,    \* bound on the number of blocks
    None          \* no record

ASSUME TimestampsAssumption ==
    /\ PerSecond \in Nat \ {0, 1}
    /\ U64Max \in Nat
    /\ MaxBlocks \in Nat

U64 == 0..U64Max
Index == 0..MaxBlocks   \* block 0 is genesis

Records == [time : U64, millis : U64]

VARIABLES
    height,    \* blocks 1..height exist
    parent,    \* [Index -> Index]
    time,      \* [Index -> U64], the seconds in each header
    info,      \* [Nodes -> [Index -> Records \cup {None}]], the block_info
    latest     \* history: the latest wall-clock reading of any proposer

vars == <<height, parent, time, info, latest>>

TypeOK ==
    /\ height \in Index
    /\ parent \in [Index -> Index]
    /\ time \in [Index -> U64]
    /\ info \in [Nodes -> [Index -> Records \cup {None}]]
    /\ latest \in U64

-----------------------------------------------------------------------------
SaturatingAdd(a, b) == IF a + b > U64Max THEN U64Max ELSE a + b
SaturatingMul(a, b) == IF a * b > U64Max THEN U64Max ELSE a * b

(* Bug variant: the last millisecond of the second, which may not fit. *)
RecordEndOfSecond(t) == [time |-> t, millis |-> t * PerSecond + PerSecond - 1]

(* What the build closure, the validate closure and the launch of the node *)
(* record for a header's seconds.                                          *)
RecordOf(t) == [time |-> t, millis |-> SaturatingMul(t, PerSecond)]

(* Bug variant: the rule of one block per second, max(now, parent + 1s). *)
NextSecond(rec, now) ==
    LET s == SaturatingAdd(rec.time, 1)
    IN IF now \div PerSecond > s THEN now ELSE SaturatingMul(s, PerSecond)

(* The milliseconds handle_propose asks for: now, but past the parent. *)
ProposedMillis(rec, now) ==
    LET past == SaturatingAdd(rec.millis, 1)
    IN IF now > past THEN now ELSE past

(* Bug variant: the proposer records the milliseconds it asked for. *)
WallClockRecord(t, millis) == [time |-> t, millis |-> millis]

(* The record the proposer makes for its own block.                        *)
ProposerRecord(t, millis) == RecordOf(t)

(* validate_payload_attributes_against_header: a job may be started for    *)
(* the parent's second.                                                    *)
AttributesAccepted(t, parentTime) == t >= parentTime

(* Bug variant: the rule of Ethereum, strictly after the parent. *)
HeaderAfterParent(t, parentTime) == t > parentTime

(* validate_header_against_parent: a header may be of the parent's second. *)
HeaderAccepted(t, parentTime) == t >= parentTime

(* The check handle_verify makes on a valid block's record. *)
MillisAgree(rec) == rec.millis \div PerSecond = rec.time

-----------------------------------------------------------------------------
(* Every node registers genesis; its timestamp comes from the chain spec,  *)
(* and is taken to be one whose milliseconds fit a u64.                    *)
Init ==
    /\ height = 0
    /\ parent = [b \in Index |-> 0]
    /\ \E t \in 0..(U64Max \div PerSecond) :
         /\ time = [b \in Index |-> t]
         /\ info = [n \in Nodes |-> [b \in Index |->
                      IF b = 0 THEN RecordOf(t) ELSE None]]
    /\ latest = 0

(* Node n, its clock at now, proposes a block on top of p. *)
Propose(n, p, now) ==
    /\ height < MaxBlocks
    /\ info[n][p] # None
    /\ LET millis == ProposedMillis(info[n][p], now)
           t == millis \div PerSecond
       IN /\ AttributesAccepted(t, time[p])
          /\ HeaderAccepted(t, time[p])
          /\ time' = [time EXCEPT ![height + 1] = t]
          /\ info' = [info EXCEPT ![n][height + 1] = ProposerRecord(t, millis)]
    /\ height' = height + 1
    /\ parent' = [parent EXCEPT ![height + 1] = p]
    /\ latest' = IF now > latest THEN now ELSE latest

(* Node n verifies block b; the execution layer has the parent. *)
Verify(n, b) ==
    /\ b \in 1..height
    /\ info[n][b] = None
    /\ info[n][parent[b]] # None
    /\ HeaderAccepted(time[b], time[parent[b]])
    /\ MillisAgree(RecordOf(time[b]))
    /\ info' = [info EXCEPT ![n][b] = RecordOf(time[b])]
    /\ UNCHANGED <<height, parent, time, latest>>

Next ==
    \/ \E n \in Nodes, p \in Index, now \in U64 : Propose(n, p, now)
    \/ \E n \in Nodes, b \in Index : Verify(n, b)

Spec == Init /\ [][Next]_vars

-----------------------------------------------------------------------------
(* Properties *)

(* Two nodes that both recorded a block recorded the same for it, whether  *)
(* they proposed or verified it.                                           *)
RecordsAgree ==
    \A n, m \in Nodes, b \in Index :
        info[n][b] # None /\ info[m][b] # None => info[n][b] = info[m][b]

(* No proposal is refused for its timestamp, whatever the clocks of the    *)
(* proposers were: not when the payload job is started, not when the       *)
(* header is imported, and not by the check of a verifier (two rules of    *)
(* allegro_consensus.rs and one of handle_verify, which must fit).         *)
ProposerNeverRefused ==
    \A n \in Nodes, p \in Index, now \in U64 : info[n][p] # None =>
        LET t == ProposedMillis(info[n][p], now) \div PerSecond
        IN /\ AttributesAccepted(t, time[p])
           /\ HeaderAccepted(t, time[p])
           /\ MillisAgree(RecordOf(t))

(* Proposing past the parent does not run ahead of the clocks: a header's  *)
(* seconds are those of genesis or were read from some proposer's clock.   *)
TimesFollowClocks ==
    \A b \in 1..height : \/ time[b] <= latest \div PerSecond
                         \/ time[b] = time[0]

(* Time increases from a block to its child, in its header and in the      *)
(* records of the nodes: the seconds "must be strictly greater than        *)
(* `parent_header.timestamp`" (design.md 7.5), the milliseconds are        *)
(* "monotonically increasing" (BlockInfo) and "always > the parent's       *)
(* `timestamp_millis`" (AllegroHeader).  The milliseconds a proposer asks  *)
(* for increase; the header keeps their seconds, which may be the parent's,*)
(* and what is recorded is derived from the header.                        *)
TimesIncrease ==
    \A n \in Nodes, b \in 1..height :
        info[n][b] # None /\ info[n][parent[b]] # None =>
            /\ time[b] > time[parent[b]]
            /\ info[n][b].millis > info[n][parent[b]].millis
=============================================================================

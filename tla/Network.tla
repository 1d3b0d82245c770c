------------------------------- MODULE Network -------------------------------
(***************************************************************************)
(* The nodes of one allegro network: the consensus they run and the block  *)
(* bytes they send each other.                                             *)
(*                                                                         *)
(* A block travels on a channel of its own, next to the proposal that      *)
(* names its digest: BlockRelay sends it, spawn_block_receiver stores it,  *)
(* and nothing orders the two or asks for a block that did not come.  Each *)
(* node is a record of NodeSteps, its handlers one step each (Bridge shows *)
(* their awaits); a certificate is a set of votes.                         *)
(***************************************************************************)
EXTENDS NodeSteps, Protocol, FiniteSets, Sequences

CONSTANTS
    Rotation,      \* the validators, in the order in which they lead
    Quorum,        \* votes a certificate needs
    Timeouts,      \* whether a view may end before its votes decide it
    MaxRestarts    \* bound on the number of restarts, of all nodes

ASSUME NetworkAssumption ==
    /\ IsFiniteSet(Validators)
    /\ Rotation \in Seq(Validators) /\ Len(Rotation) > 0
    /\ Quorum \in 1..Cardinality(Validators)
    /\ Timeouts \in BOOLEAN
    /\ MaxRestarts \in Nat

VARIABLES
    node,       \* [Validators -> NodeState]
    vote,       \* [Validators -> [Views -> Vote]]
    channel,    \* block messages under way
    reported,   \* [Validators -> Views], last finalization a node was told of
    restarts    \* number of restarts so far

vars == <<protocolVars, node, vote, channel, reported, restarts>>

(* What a node answered to the propose or verify request of a view. *)
Vote == {"none", "yes", "no"}

Message == [to : Validators, block : Blocks]

TypeOK ==
    /\ ProtocolTypeOK
    /\ node \in [Validators -> NodeState]
    /\ vote \in [Validators -> [Views -> Vote]]
    /\ channel \subseteq Message
    /\ reported \in [Validators -> Views]
    /\ restarts \in 0..MaxRestarts

Init ==
    /\ ProtocolInit(Rotation[1])
    /\ node = [n \in Validators |-> StartState({Genesis})]
    /\ vote = [n \in Validators |-> [v \in Views |-> "none"]]
    /\ channel = {}
    /\ reported = [n \in Validators |-> 0]
    /\ restarts = 0

-----------------------------------------------------------------------------
(* Views *)

(* RoundRobin, with a new leader in every view. *)
Leader(v) == Rotation[(v % Len(Rotation)) + 1]

Voters(v, answer) == {n \in Validators : vote[n][v] = answer}

(* No step but a timeout can end view v otherwise: it is notarized, its    *)
(* leader has no proposal, or too many voters refused it.                  *)
Settled(v) ==
    \/ v \in notarized
    \/ vote[Leader(v)][v] = "no"
    \/ Cardinality(Validators \ Voters(v, "no")) < Quorum

(* The tree of blocks is finite: no view starts above a leaf. *)
StartView(p) ==
    /\ Timeouts \/ Settled(view)
    /\ Children(HashOf(payload[p])) # {}
    /\ EnterView(p, Leader(view + 1))
    /\ UNCHANGED <<payload, node, vote, channel, reported, restarts>>

Answer(n, v, answer) == vote' = [vote EXCEPT ![n][v] = answer]

(* The leader's actor builds on the parent, records the block and keeps    *)
(* its bytes; its own vote comes with the proposal.                        *)
HandlePropose(v, b) ==
    LET n == leader[v] IN
    /\ v = view /\ v > 0 /\ payload[v] = None /\ vote[n][v] = "none"
    /\ CanBuild(node[n], ParentDigest(v), b)
    /\ \E s \in AfterBuild(node[n], b) : node' = [node EXCEPT ![n] = s]
    /\ Answer(n, v, "yes")
    /\ Proposed(v, b)
    /\ UNCHANGED <<channel, reported, restarts>>

(* It drops the responder: the parent is unknown or not executed here, or  *)
(* the build fails.                                                        *)
FailPropose(v) ==
    LET n == leader[v] IN
    /\ v = view /\ v > 0 /\ payload[v] = None /\ vote[n][v] = "none"
    /\ Faults \/ ~\E b \in Blocks : CanBuild(node[n], ParentDigest(v), b)
    /\ Answer(n, v, "no")
    /\ UNCHANGED <<protocolVars, node, channel, reported, restarts>>

(* A follower learns the digest of view v and its actor verifies it.       *)
HandleVerify(n, v) ==
    /\ v = view /\ v > 0 /\ payload[v] # None
    /\ n # leader[v] /\ vote[n][v] = "none"
    /\ CanVerify(node[n], payload[v])
    /\ node' = [node EXCEPT ![n] = AfterVerify(@, payload[v])]
    /\ Answer(n, v, "yes")
    /\ UNCHANGED <<protocolVars, channel, reported, restarts>>

(* Bytes that have not arrived are answered with false at once, like an    *)
(* unexecuted parent; nothing is recorded and the view is not asked for    *)
(* again.                                                                  *)
RefuseVerify(n, v) ==
    /\ v = view /\ v > 0 /\ payload[v] # None
    /\ n # leader[v] /\ vote[n][v] = "none"
    /\ Faults \/ ~CanVerify(node[n], payload[v])
    /\ Answer(n, v, "no")
    /\ UNCHANGED <<protocolVars, node, channel, reported, restarts>>

CollectVotes(v) ==
    /\ Cardinality(Voters(v, "yes")) >= Quorum
    /\ Notarize(v)
    /\ UNCHANGED <<node, vote, channel, reported, restarts>>

CollectFinalize(v) ==
    /\ Finalize(v)
    /\ UNCHANGED <<node, vote, channel, reported, restarts>>

-----------------------------------------------------------------------------
(* The block channel *)

(* BlockRelay::broadcast: only blocks this node built since it started are *)
(* found, for others it does nothing and answers Ok.  A message that the   *)
(* transport rejects is one that stays in the channel for ever.  A copy of *)
(* what a recipient has would change nothing there and is left out.        *)
Broadcast(n, b, recipients) ==
    /\ b \in node[n].pending
    /\ channel' = channel \cup
          [to : {r \in recipients : b \notin node[r].received}, block : {b}]
    /\ UNCHANGED <<protocolVars, node, vote, reported, restarts>>

(* Plan::Propose: the leader's engine relays its proposal to everyone,     *)
(* again when it replays its journal.                                      *)
Relay(v) ==
    /\ v = view /\ v > 0 /\ payload[v] # None
    /\ Broadcast(leader[v], payload[v], Validators \ {leader[v]})

(* Plan::Forward: a node whose peer has not voted for a notarized block    *)
(* sends it the block.  ForwardingPolicy::All is SilentVoters too.         *)
Forward(n, v, silent) ==
    /\ v \in notarized \ {0}
    /\ silent \in Validators \ Voters(v, "yes")
    /\ Broadcast(n, payload[v], {silent})

(* spawn_block_receiver. *)
Deliver(m) ==
    /\ m \in channel
    /\ channel' = channel \ {m}
    /\ node' = [node EXCEPT ![m.to] = AfterReceive(@, m.block)]
    /\ UNCHANGED <<protocolVars, vote, reported, restarts>>

-----------------------------------------------------------------------------
(* Finalizations and restarts *)

(* Bug variant: a notarization is reported as a finalization. *)
ReportableNotarized(n, v) == v \in notarized /\ v > reported[n]

(* Only Activity::Finalization is passed on, in the order of views. *)
Reportable(n, v) == v \in finalized /\ v > reported[n]

(* The reporter passes the digest on; the finalizer moves the tracker if   *)
(* the block is recorded and executed, and skips it if not.                *)
HandleFinalization(n, v) ==
    /\ Reportable(n, v)
    /\ reported' = [reported EXCEPT ![n] = v]
    /\ node' = [node EXCEPT ![n] =
                  IF CanFinalize(@, payload[v]) THEN AfterFinalize(@, payload[v])
                                                ELSE @]
    /\ UNCHANGED <<protocolVars, vote, channel, restarts>>

(* A node stops and starts: its votes are in the journal of its engine, a  *)
(* request without a vote is made again, a message to it is lost, and a    *)
(* finalization may be reported again.                                     *)
Restart(n) ==
    /\ restarts < MaxRestarts
    /\ restarts' = restarts + 1
    /\ \E s \in AfterRestart(node[n]) : node' = [node EXCEPT ![n] = s]
    /\ vote' = [vote EXCEPT ![n] =
                  [v \in Views |-> IF @[v] = "yes" THEN "yes" ELSE "none"]]
    /\ channel' = {m \in channel : m.to # n}
    /\ reported' = [reported EXCEPT ![n] = 0]
    /\ UNCHANGED protocolVars

(* The bounds on views and blocks end a behaviour when all is said. *)
Quiescent ==
    /\ channel = {}
    /\ \A n \in Validators :
          vote[n][view] = "none" => payload[view] = None /\ n # leader[view]
    /\ UNCHANGED vars

NodeStep ==
    \/ \E p \in Views : StartView(p)
    \/ \E v \in Views, b \in Blocks : HandlePropose(v, b)
    \/ \E v \in Views : FailPropose(v) \/ Relay(v)
    \/ \E v \in Views : CollectVotes(v) \/ CollectFinalize(v)
    \/ \E n \in Validators, v \in Views :
          HandleVerify(n, v) \/ RefuseVerify(n, v) \/ HandleFinalization(n, v)
    \/ \E n, r \in Validators, v \in Views : Forward(n, v, r)
    \/ \E m \in channel : Deliver(m)

Next == NodeStep \/ (\E n \in Validators : Restart(n)) \/ Quiescent

Spec == Init /\ [][Next]_vars

(* Every task is polled while it has something to do, every message that   *)
(* the transport accepted arrives, and the engines take every view.        *)
FairSpec ==
    /\ Spec
    /\ WF_vars(\E p \in Views : StartView(p))
    /\ \A v \in 1..MaxView :
         /\ WF_vars(\E b \in Blocks : HandlePropose(v, b) \/ FailPropose(v))
         /\ WF_vars(Relay(v))
         /\ WF_vars(CollectVotes(v))
         /\ \A n \in Validators :
              WF_vars(HandleVerify(n, v) \/ RefuseVerify(n, v))
    /\ \A n \in Validators, b \in Blocks :
         WF_vars(Deliver([to |-> n, block |-> b]))

-----------------------------------------------------------------------------
(* Properties *)

(* Nodes that could build on block b, finalize it and be asked for it. *)
Holders(b) == {n \in Validators : Holds(node[n], b)}

(* A certificate for a block means that the network has the block: of the  *)
(* quorum that voted for it, every node that did not restart since holds   *)
(* its bytes, its record and an executed chain below it.  This is all that *)
(* stands between the network and a chain nobody can extend, for a block   *)
(* that did not come is never asked for (application.rs:443, engine.rs:89). *)
AvailabilityBound ==
    \A v \in notarized \ {0} :
        Cardinality(Holders(payload[v])) >= Quorum - restarts

(* The finalized blocks the nodes hold are on one chain, whatever each of  *)
(* them missed, skipped or forgot (finalizer.rs, MetricsReporter::report). *)
TrackersOnOneChain ==
    \A m, n \in Validators :
        \/ node[m].tracker \in Ancestors[node[n].tracker]
        \/ node[n].tracker \in Ancestors[node[m].tracker]

(* Without a fault, a timeout or a restart the leader of every view        *)
(* proposes (design.md 5.4: a transaction of node A "gets included when    *)
(* node A is the leader (round-robin guarantees this within N views)").    *)
LeadersPropose ==
    \A v \in 1..MaxView : view = v ~> payload[v] # None
=============================================================================

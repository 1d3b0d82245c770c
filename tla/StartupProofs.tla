---------------------------- MODULE StartupProofs ----------------------------
(***************************************************************************)
(* Proofs about Startup, for every width of a node index, size of the      *)
(* devnet, set of started nodes and set of configurations.                 *)
(*                                                                         *)
(* The properties speak of nodes that run; the invariant follows a node    *)
(* from the moment it has validators, and the genesis file while it is     *)
(* rewritten.                                                              *)
(***************************************************************************)
EXTENDS Startup, TLAPS

(* The genesis file is complete or not there; whoever has validators has   *)
(* ports for them.                                                         *)
FileInv ==
    /\ source = "peers" => file = Empty /\ SocketsFit
    /\ file # Empty => file = sockets /\ SocketsFit

(* A node that got past the validator set has the devnet's, or, if the     *)
(* count of validators wrapped to zero, none at all.                       *)
WiredInv ==
    \A i \in Started : node[i].phase \in {"wired", "spawned", "networked",
                                          "running"} =>
        \/ node[i].validators = sockets
        \/ /\ node[i].validators = Empty /\ node[i].phase # "running"
           /\ ~OverflowChecks /\ size = U8Modulus

(* The consensus thread is spawned with a valid configuration only, and    *)
(* refuses its inputs only without validators.                             *)
ThreadInv ==
    \A i \in Started :
        /\ node[i].phase \in {"spawned", "networked"} => Validate(config)
        /\ node[i].phase = "refused" => ~OverflowChecks /\ size = U8Modulus

StartupInv == TypeOK /\ FileInv /\ WiredInv /\ ThreadInv

-----------------------------------------------------------------------------
(* The devnet *)

(* A devnet has validators, and sockets for them when they are checked.    *)
LEMMA DevnetType ==
    ASSUME size \in 1..MaxSize, sockets \in [0..(size - 1) -> Nat]
    PROVE  /\ sockets # Empty
           /\ SocketsFit => sockets \in ValidatorSets
<1>1. size \in Nat /\ size > 0 /\ size - 1 \in 0..(MaxSize - 1)
  BY StartupAssumption
<1>2. sockets # Empty
  <2>1. 0 \in DOMAIN sockets
    BY <1>1
  <2>2. DOMAIN Empty = {}
    BY DEF Empty
  <2> QED
    BY <2>1, <2>2
<1>3. ASSUME SocketsFit PROVE sockets \in ValidatorSets
  <2>1. \A i \in 0..(size - 1) : sockets[i] \in Ports
    BY <1>3, StartupAssumption DEF SocketsFit, Ports
  <2>2. sockets \in [0..(size - 1) -> Ports]
    BY <2>1
  <2> QED
    BY <1>1, <2>2 DEF ValidatorSets
<1> QED
  BY <1>2, <1>3

(* ConsensusConfig::validate refuses what the libraries would assert.      *)
LEMMA ValidatedIsAccepted ==
    ASSUME config \in [ConfigFields -> Nat], Validate(config)
    PROVE  EngineAccepts(config)
BY DEF Validate, EngineAccepts, ElectorOf, ConfigFields

(* What node i derives from its peers, if it does not panic. *)
LEMMA DerivedValidators ==
    ASSUME source = "peers",
           size \in 1..MaxSize, sockets \in [0..(size - 1) -> Nat],
           NEW i \in 0..(U8Modulus - 1), InBounds(i, PeersOf(i))
    PROVE  /\ size < U8Modulus => DeriveValidators(i, PeersOf(i)) = sockets
           /\ size = U8Modulus => DeriveValidators(i, PeersOf(i)) = Empty
           /\ OverflowPanics(Len(PeersOf(i))) <=>
                 OverflowChecks /\ size = U8Modulus
<1> DEFINE P == PeersOf(i)
<1>1. /\ size \in Nat /\ size > 0 /\ size - 1 \in Nat /\ U8Modulus \in Nat
      /\ U8Modulus > 0 /\ size <= U8Modulus /\ i \in Nat
  BY StartupAssumption
<1>2. P = [k \in 1..(size - 1) |-> sockets[IF k <= i THEN k - 1 ELSE k]]
  BY DEF PeersOf
<1>3. P \in Seq(Int) /\ Len(P) = size - 1
  <2>1. \A k \in 1..(size - 1) : sockets[IF k <= i THEN k - 1 ELSE k] \in Int
    BY <1>1
  <2>2. P \in [1..(size - 1) -> Int]
    BY <1>2, <2>1
  <2> QED
    BY <1>1, <2>2
<1>4. (size - 1) % U8Modulus = size - 1
  BY <1>1
<1>5. NumValidators(Len(P)) = IF size < U8Modulus THEN size ELSE 0
  <2>1. NumValidators(Len(P)) = size % U8Modulus
    BY <1>1, <1>3, <1>4 DEF NumValidators
  <2> QED
    BY <1>1, <2>1
<1>6. OverflowPanics(Len(P)) <=> OverflowChecks /\ size = U8Modulus
  BY <1>1, <1>3, <1>4 DEF OverflowPanics
<1>7. ASSUME size < U8Modulus PROVE DeriveValidators(i, P) = sockets
  <2>1. NumValidators(Len(P)) = size
    BY <1>5, <1>7
  <2>2. ASSUME NEW j \in 0..(size - 1)
        PROVE  (IF j = i THEN sockets[i] ELSE P[PeerPosition(i, j)])
                 = sockets[j]
    <3>1. CASE j = i
      BY <3>1
    <3>2. CASE j # i
      <4>1. PeerPosition(i, j) \in 1..(size - 1)
        BY <1>3, <2>1, <3>2 DEF InBounds
      <4>2. CASE j < i
        BY <1>1, <1>2, <3>2, <4>1, <4>2 DEF PeerPosition
      <4>3. CASE j > i
        BY <1>1, <1>2, <3>2, <4>1, <4>3 DEF PeerPosition
      <4> QED
        BY <1>1, <3>2, <4>2, <4>3
    <3> QED
      BY <3>1, <3>2
  <2>3. size # 0
    BY <1>1
  <2> QED
    BY <2>1, <2>2, <2>3 DEF DeriveValidators
<1>8. ASSUME size = U8Modulus PROVE DeriveValidators(i, P) = Empty
  BY <1>1, <1>5, <1>8 DEF DeriveValidators
<1> QED
  BY <1>6, <1>7, <1>8

-----------------------------------------------------------------------------
(* Steps *)

(* Before anything is started there is neither file nor validator. *)
LEMMA StartupInit == Init => StartupInv
<1> SUFFICES ASSUME Init PROVE StartupInv
  OBVIOUS
<1>1. Empty \in ValidatorSets
  BY DEF ValidatorSets
<1>2. TypeOK
  <2>1. sockets \in [0..(size - 1) -> Nat]
    <3>1. size \in 1..MaxSize /\ sockets \in Asked(size)
      BY DEF Init
    <3>2. CASE \E b \in BasePorts : sockets = [i \in 0..(size - 1) |-> b + i]
      BY <3>1, <3>2, StartupAssumption
    <3>3. CASE sockets \in Lists /\ DOMAIN sockets = 0..(size - 1)
      BY <3>3, StartupAssumption
    <3> QED
      BY <3>1, <3>2, <3>3 DEF Asked
  <2> QED
    BY <1>1, <2>1 DEF Init, TypeOK, Phase
<1>3. FileInv
  BY StartupAssumption DEF Init, FileInv, SocketsFit, Ports
<1>4. WiredInv /\ ThreadInv
  BY DEF Init, WiredInv, ThreadInv
<1> QED
  BY <1>2, <1>3, <1>4 DEF StartupInv

(* The generator writes the devnet's validators, or none. *)
LEMMA GeneratorInv ==
    ASSUME StartupInv, GenerateGenesis \/ RewriteGenesis
    PROVE  StartupInv'
<1>1. UNCHANGED <<size, sockets, source, config, node>>
  BY DEF GenerateGenesis, RewriteGenesis
<1>2. SocketsFit' = SocketsFit
  BY <1>1 DEF SocketsFit
<1>3. size \in 1..MaxSize /\ sockets \in [0..(size - 1) -> Nat]
  BY DEF StartupInv, TypeOK
<1>4. \/ file' = Empty
      \/ file' = sockets /\ source # "peers" /\ SocketsFit
  BY DEF GenerateGenesis, RewriteGenesis
<1>5. TypeOK'
  <2>1. file' \in ValidatorSets
    BY <1>3, <1>4, DevnetType DEF ValidatorSets
  <2> QED
    BY <1>1, <2>1 DEF StartupInv, TypeOK
<1>6. FileInv'
  BY <1>1, <1>2, <1>4 DEF StartupInv, FileInv
<1>7. WiredInv' /\ ThreadInv'
  BY <1>1, <1>2 DEF StartupInv, WiredInv, ThreadInv
<1> QED
  BY <1>5, <1>6, <1>7 DEF StartupInv

(* One node takes a step to another phase, with the validators vs. *)
LEMMA NodeMoves ==
    ASSUME StartupInv, NEW i \in Started, NEW phase \in Phase,
           NEW vs \in ValidatorSets,
           node' \in [Started -> [phase : Phase, validators : ValidatorSets]],
           node'[i].phase = phase, node'[i].validators = vs,
           \A j \in Started \ {i} : node'[j] = node[j],
           UNCHANGED <<size, sockets, source, config, file>>,
           phase \in {"wired", "spawned", "networked", "running"} =>
               \/ vs = sockets
               \/ /\ vs = Empty /\ phase # "running"
                  /\ ~OverflowChecks /\ size = U8Modulus,
           phase \in {"spawned", "networked"} => Validate(config),
           phase = "refused" => ~OverflowChecks /\ size = U8Modulus
    PROVE  StartupInv'
<1>1. SocketsFit' = SocketsFit
  BY DEF SocketsFit
<1>2. TypeOK'
  BY DEF StartupInv, TypeOK
<1>3. FileInv'
  BY <1>1 DEF StartupInv, FileInv
<1>4. WiredInv'
  BY <1>1 DEF StartupInv, WiredInv
<1>5. ThreadInv'
  BY DEF StartupInv, ThreadInv
<1> QED
  BY <1>2, <1>3, <1>4, <1>5 DEF StartupInv

(* A step that keeps the validators of the node. *)
LEMMA GotoKeeps ==
    ASSUME StartupInv, NEW i \in Started, NEW phase \in Phase, Goto(i, phase)
    PROVE  /\ node[i].validators \in ValidatorSets
           /\ node' \in [Started -> [phase : Phase, validators : ValidatorSets]]
           /\ node'[i].phase = phase
           /\ node'[i].validators = node[i].validators
           /\ \A j \in Started \ {i} : node'[j] = node[j]
<1>1. node \in [Started -> [phase : Phase, validators : ValidatorSets]]
  BY DEF StartupInv, TypeOK
<1>2. node' = [node EXCEPT ![i].phase = phase]
  BY DEF Goto
<1> QED
  BY <1>1, <1>2

(* build_validator_set gives a node the devnet's validators, or ends it,   *)
(* or wraps to none.                                                       *)
LEMMA BuildValidatorSetInv ==
    ASSUME StartupInv, NEW i \in Started, BuildValidatorSet(i)
    PROVE  StartupInv'
<1>0. /\ UNCHANGED <<size, sockets, source, config, file>>
      /\ size \in 1..MaxSize /\ sockets \in [0..(size - 1) -> Nat]
      /\ i \in 0..(U8Modulus - 1) /\ size \in Nat /\ size <= U8Modulus
      /\ U8Modulus \in Nat /\ source \in {"genesis", "peers", "both"}
  BY StartupAssumption DEF BuildValidatorSet, StartupInv, TypeOK
<1>1. CASE Goto(i, "exited")
  BY <1>0, <1>1, GotoKeeps, NodeMoves DEF Phase
<1>2. ASSUME NEW vs \in ValidatorSets,
             node' = [node EXCEPT ![i].phase = "wired", ![i].validators = vs],
             \/ vs = sockets
             \/ vs = Empty /\ ~OverflowChecks /\ size = U8Modulus
      PROVE  StartupInv'
  <2>0. node \in [Started -> [phase : Phase, validators : ValidatorSets]]
    BY DEF StartupInv, TypeOK
  <2>1. /\ node' \in [Started -> [phase : Phase, validators : ValidatorSets]]
        /\ node'[i].phase = "wired" /\ node'[i].validators = vs
        /\ \A j \in Started \ {i} : node'[j] = node[j]
    BY <1>2, <2>0 DEF Phase
  <2> QED
    BY <1>0, <1>2, <2>1, NodeMoves DEF Phase
<1>3. CASE LoadedValidators # Empty
  <2>1. LoadedValidators = sockets /\ LoadedValidators \in ValidatorSets
    BY <1>3 DEF LoadedValidators, StartupInv, FileInv, TypeOK
  <2> QED
    BY <1>1, <1>2, <1>3, <2>1 DEF BuildValidatorSet
<1>4. CASE LoadedValidators = Empty /\ ~RereadFails
  <2>1. source = "peers" /\ SocketsFit
    BY <1>0, <1>4 DEF LoadedValidators, RereadFails, StartupInv, FileInv
  <2>2. CASE OverflowPanics(Len(PeersOf(i))) \/ ~InBounds(i, PeersOf(i))
    BY <1>1, <1>4, <2>2 DEF BuildValidatorSet
  <2>3. CASE ~OverflowPanics(Len(PeersOf(i))) /\ InBounds(i, PeersOf(i))
    <3> DEFINE vs == DeriveValidators(i, PeersOf(i))
    <3>1. node' = [node EXCEPT ![i].phase = "wired", ![i].validators = vs]
      BY <1>4, <2>3 DEF BuildValidatorSet
    <3>2. \/ vs = sockets
          \/ vs = Empty /\ ~OverflowChecks /\ size = U8Modulus
      BY <1>0, <2>1, <2>3, DerivedValidators
    <3>3. vs \in ValidatorSets
      BY <1>0, <2>1, <3>2, DevnetType DEF ValidatorSets
    <3> QED
      BY <1>2, <3>1, <3>2, <3>3
  <2> QED
    BY <2>2, <2>3
<1>5. CASE RereadFails
  BY <1>1, <1>5 DEF BuildValidatorSet
<1> QED
  BY <1>3, <1>4, <1>5

(* The other steps of a node. *)
LEMMA NodeStepInv ==
    ASSUME StartupInv, NEW i \in Started,
           \/ Launch(i) \/ SpawnConsensusThread(i) \/ StartNetwork(i)
           \/ StartEngine(i) \/ ConsensusFails(i)
    PROVE  StartupInv'
<1> DEFINE vs == node[i].validators
<1>0. UNCHANGED <<size, sockets, source, config, file>>
  BY DEF Launch, SpawnConsensusThread, StartNetwork, StartEngine,
         ConsensusFails
<1>1. CASE Goto(i, "exited") \/ Goto(i, "launched") \/ Goto(i, "failed")
  BY <1>0, <1>1, GotoKeeps, NodeMoves DEF Phase
<1>2. CASE /\ node[i].phase = "wired" /\ Validate(config)
           /\ Goto(i, "spawned")
  <2>1. \/ vs = sockets
        \/ vs = Empty /\ ~OverflowChecks /\ size = U8Modulus
    BY <1>2 DEF StartupInv, WiredInv
  <2> QED
    BY <1>0, <1>2, <2>1, GotoKeeps, NodeMoves DEF Phase
<1>3. CASE StartNetwork(i)
  <2>1. node[i].phase = "spawned" /\ Validate(config)
    BY <1>3 DEF StartNetwork, StartupInv, ThreadInv
  <2>2. Goto(i, "networked")
    BY <1>3, <2>1 DEF StartNetwork, Validate
  <2>3. \/ vs = sockets
        \/ vs = Empty /\ ~OverflowChecks /\ size = U8Modulus
    BY <2>1 DEF StartupInv, WiredInv
  <2> QED
    BY <1>0, <2>1, <2>2, <2>3, GotoKeeps, NodeMoves DEF Phase
<1>4. CASE StartEngine(i)
  <2>1. /\ node[i].phase = "networked"
        /\ Validate(config) /\ EngineAccepts(config)
    <3>1. node[i].phase = "networked" /\ Validate(config)
      BY <1>4 DEF StartEngine, StartupInv, ThreadInv
    <3>2. config \in [ConfigFields -> Nat]
      BY ConfigsAssumption DEF StartupInv, TypeOK
    <3> QED
      BY <3>1, <3>2, ValidatedIsAccepted
  <2>2. \/ vs = sockets
        \/ vs = Empty /\ ~OverflowChecks /\ size = U8Modulus
    BY <2>1 DEF StartupInv, WiredInv
  <2>3. CASE vs # Empty
    <3>1. Goto(i, "running") /\ vs = sockets
      BY <1>4, <2>1, <2>2, <2>3 DEF StartEngine
    <3> QED
      BY <1>0, <3>1, GotoKeeps, NodeMoves DEF Phase
  <2>4. CASE vs = Empty
    <3>1. size \in 1..MaxSize /\ sockets \in [0..(size - 1) -> Nat]
      BY DEF StartupInv, TypeOK
    <3>2. ~OverflowChecks /\ size = U8Modulus
      BY <2>2, <2>4, <3>1, DevnetType
    <3>3. Goto(i, "refused")
      BY <1>4, <2>4 DEF StartEngine
    <3> QED
      BY <1>0, <3>2, <3>3, GotoKeeps, NodeMoves DEF Phase
  <2> QED
    BY <2>3, <2>4
<1> QED
  BY <1>1, <1>2, <1>3, <1>4 DEF Launch, SpawnConsensusThread, ConsensusFails

(* The inductive invariant holds throughout every behaviour. *)
THEOREM StartupInvariance == Spec => []StartupInv
<1>1. StartupInv /\ [Next]_vars => StartupInv'
  <2> SUFFICES ASSUME StartupInv, [Next]_vars PROVE StartupInv'
    OBVIOUS
  <2>1. CASE UNCHANGED vars
    BY <2>1
    DEF vars, StartupInv, TypeOK, FileInv, WiredInv, ThreadInv, SocketsFit
  <2>2. CASE Next
    BY <2>2, GeneratorInv, BuildValidatorSetInv, NodeStepInv DEF Next
  <2> QED
    BY <2>1, <2>2
<1> QED
  BY <1>1, StartupInit, PTL DEF Spec

-----------------------------------------------------------------------------
(* The theorems *)

(* No generated file, and no node, holds a socket out of range. *)
THEOREM StartupTypeCorrect == Spec => []TypeOK
<1>1. StartupInv => TypeOK
  BY DEF StartupInv
<1> QED
  BY <1>1, StartupInvariance, PTL

(* Nodes that run consensus use the devnet's validators, whether they read *)
(* them from the genesis file, with a rewrite between its two readings, or *)
(* derived them from their peers, with or without overflow checks.         *)
THEOREM NodesAgreeOnValidators == Spec => []AgreeOnValidators
<1>1. StartupInv => AgreeOnValidators
  <2> SUFFICES ASSUME StartupInv, NEW i \in Running
               PROVE  DOMAIN node[i].validators = 0..(size - 1)
    BY DEF AgreeOnValidators
  <2>1. node[i].validators = sockets
    BY DEF Running, StartupInv, WiredInv
  <2> QED
    BY <2>1 DEF StartupInv, TypeOK
<1> QED
  BY <1>1, StartupInvariance, PTL

(* Any two validators that run consensus dial each other where the other   *)
(* listens.                                                                *)
THEOREM PeersAreReachable == Spec => []PeersReachable
<1>1. StartupInv => PeersReachable
  <2> SUFFICES ASSUME StartupInv, NEW i \in Running,
                      NEW j \in Running \cap 0..(size - 1), i # j
               PROVE  j \in DOMAIN Tracked(i) /\ Tracked(i)[j] = sockets[j]
    BY DEF PeersReachable
  <2>1. node[i].validators = sockets
    BY DEF Running, StartupInv, WiredInv
  <2> QED
    BY <2>1 DEF Tracked, StartupInv, TypeOK
<1> QED
  BY <1>1, StartupInvariance, PTL

(* The consensus thread refuses what the main thread hands it in one case  *)
(* only: a build without overflow checks, in a devnet of exactly as many   *)
(* validators as a u8 has values.  In every other case validate and        *)
(* build_validator_set have refused, on the main thread, what              *)
(* start_simplex_engine and Engine::new would; failures of the runtime and *)
(* of the network are another matter (ConsensusFails).                     *)
THEOREM RefusalsOnMainThread ==
    Spec => [](OverflowChecks \/ size # U8Modulus => RefusedOnMainThread)
<1>1. StartupInv => (OverflowChecks \/ size # U8Modulus => RefusedOnMainThread)
  BY DEF StartupInv, ThreadInv, RefusedOnMainThread
<1> QED
  BY <1>1, StartupInvariance, PTL
=============================================================================

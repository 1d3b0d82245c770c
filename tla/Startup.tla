------------------------------ MODULE Startup ------------------------------
(***************************************************************************)
(* Bringing up a devnet: the genesis generator (xtask) writes a genesis    *)
(* file with the validators in it, or there is no such file and every node *)
(* derives the validators from its index and its list of peers; every node *)
(* then goes through the steps of bin/allegro/src/main.rs:                 *)
(*                                                                         *)
(*   main thread       parse --chain, launch reth, read the file again and *)
(*                     build the validator set, validate the               *)
(*                     configuration, spawn the thread                     *)
(*   consensus thread  open the runtime and its storage, start the p2p     *)
(*                     network, start the simplex engine                   *)
(*                                                                         *)
(* An error on the main thread ends the process.  One on the consensus     *)
(* thread, returned or caught as a panic, is logged and reth goes on       *)
(* without consensus: because the thread refuses what the main thread      *)
(* handed it, or because its surroundings fail it (a storage directory     *)
(* that cannot be used, a listen address that is taken).                   *)
(*                                                                         *)
(* Validator i signs with the key of seed i, so an index stands for a key. *)
(* A socket is its port.                                                   *)
(***************************************************************************)
EXTENDS Integers, Sequences

CONSTANTS
    U8Modulus,        \* 256: a node index is a u8
    OverflowChecks,   \* whether u8 overflow panics (debug) or wraps (release)
    Started,          \* the node indices that are started
    MaxSize,          \* bound on the number of validators of the devnet
    BasePorts,        \* the ports validator 0 may be given with a count
    Lists,            \* the explicit lists of sockets xtask may be given, by
                      \* index; a number above MaxPort is not a socket
    MaxPort,          \* 65535
    Configs           \* the configurations the nodes may be given

ASSUME StartupAssumption ==
    /\ U8Modulus \in Nat \ {0}
    /\ OverflowChecks \in BOOLEAN
    /\ Started \subseteq 0..(U8Modulus - 1)
    /\ MaxSize \in 1..U8Modulus
    /\ MaxPort \in Nat
    /\ BasePorts \subseteq Nat
    /\ \A s \in Lists : \E n \in 0..(MaxSize - 1) : s \in [0..n -> Nat]

Empty == <<>>   \* no validators

ConfigFields == {"mailbox", "leader", "certification", "retry", "fetch",
                 "retention", "term", "skip", "stall", "optimistic"}

ASSUME ConfigsAssumption ==
    /\ Configs \subseteq [ConfigFields -> Nat]
    /\ Configs # {}

VARIABLES
    size,    \* number of validators of the devnet
    sockets, \* where its validators listen, by index, as the operator asks
    source,  \* what tells nodes the validators: a "genesis" file, the lists
             \* of "peers", or "both"
    config,  \* the configuration every node is given
    file,    \* the validators in the genesis file, a map from index to
             \* socket; Empty when there is no file or it is being written
    node     \* [Started -> the state of a process]

vars == <<size, sockets, source, config, file, node>>

Ports == 0..MaxPort
ValidatorSets == {Empty} \cup UNION {[0..n -> Ports] : n \in 0..(MaxSize - 1)}

(*   launched   reth runs                                                  *)
(*   wired      the validator set is built                                 *)
(*   spawned    the consensus thread exists                                *)
(*   networked  its p2p network is started                                 *)
(*   running    its engine is started                                      *)
(*   refused    it refused its configuration or validators; reth goes on   *)
(*   failed     its surroundings failed it; reth goes on                   *)
(*   exited     the process ended                                          *)
Phase == {"off", "launched", "wired", "spawned", "networked", "running",
          "refused", "failed", "exited"}

(* No file generated by xtask holds a port out of range, and a node holds  *)
(* validators from the moment it has them.                                 *)
TypeOK ==
    /\ size \in 1..MaxSize
    /\ sockets \in [0..(size - 1) -> Nat]
    /\ source \in {"genesis", "peers", "both"}
    /\ config \in Configs
    /\ file \in ValidatorSets
    /\ node \in [Started -> [phase : Phase, validators : ValidatorSets]]

(* What --validators may ask for: n validators at the base port and up, or *)
(* a list of n sockets.                                                    *)
Asked(n) ==
    {[i \in 0..(n - 1) |-> b + i] : b \in BasePorts}
        \cup {s \in Lists : DOMAIN s = 0..(n - 1)}

(* Bug variant: neither the last port nor a list is checked. *)
SocketsUnchecked == TRUE

(* base_port.checked_add(n - 1) for a count; every entry of a list parses. *)
SocketsFit == \A i \in 0..(size - 1) : sockets[i] <= MaxPort

(* Every node listens at its socket (--consensus.listen-address); without a*)
(* genesis file, or with one that lists no validators, the sockets are     *)
(* ports that exist.                                                       *)
Init ==
    /\ size \in 1..MaxSize
    /\ sockets \in Asked(size)
    /\ source \in {"genesis", "peers", "both"}
    /\ source = "peers" => \A i \in 0..(size - 1) : sockets[i] \in Ports
    /\ config \in Configs
    /\ file = Empty
    /\ node = [i \in Started |-> [phase |-> "off", validators |-> Empty]]

-----------------------------------------------------------------------------
(* xtask genesis *)

(* The file holds one validator per index; without a socket for each there *)
(* is no file.                                                             *)
GenerateGenesis ==
    /\ source # "peers"
    /\ file = Empty
    /\ SocketsFit
    /\ file' = sockets
    /\ UNCHANGED <<size, sockets, source, config, node>>

(* The generator is run once more, on the same devnet: writing a file      *)
(* starts by truncating it.                                                *)
RewriteGenesis ==
    /\ file # Empty
    /\ file' = Empty
    /\ UNCHANGED <<size, sockets, source, config, node>>

-----------------------------------------------------------------------------
(* The validator set *)

(* The --consensus.peer list of node i: the sockets of all the others, in  *)
(* order of index, or none.  The devnet script gives it along with a       *)
(* genesis file, whose validators then win.                                *)
PeersOf(i) ==
    IF source = "genesis" THEN <<>>
    ELSE [k \in 1..(size - 1) |-> sockets[IF k <= i THEN k - 1 ELSE k]]

(* 1 + args.peers.len() as u8 *)
NumValidators(len) == (1 + (len % U8Modulus)) % U8Modulus

OverflowPanics(len) == OverflowChecks /\ len % U8Modulus = U8Modulus - 1

(* The position, from 1, in the peers of node index of the socket of       *)
(* validator i.                                                            *)
PeerPosition(index, i) == IF i < index THEN i + 1 ELSE i

InBounds(index, peers) ==
    \A i \in 0..(NumValidators(Len(peers)) - 1) :
        i # index => PeerPosition(index, i) \in 1..Len(peers)

(* Bug variant: the node comes first and its peers after it. *)
DeriveSelfFirst(index, peers) ==
    [i \in 0..Len(peers) |-> IF i = 0 THEN sockets[index] ELSE peers[i]]

DeriveValidators(index, peers) ==
    IF NumValidators(Len(peers)) = 0 THEN Empty
    ELSE [i \in 0..(NumValidators(Len(peers)) - 1) |->
            IF i = index THEN sockets[index] ELSE peers[PeerPosition(index, i)]]

-----------------------------------------------------------------------------
(* The configuration *)

(* Bug variant: the skip timeout is compared with one timeout only. *)
ValidateOneTimeout(c) ==
    /\ 0 \notin {c[f] : f \in {"mailbox", "leader", "retry", "fetch",
                               "retention", "term"}}
    /\ c["certification"] > c["leader"]
    /\ c["skip"] > c["certification"]
    /\ c["term"] > 1 => c["stall"] > c["certification"]

(* ConsensusConfig::validate *)
Validate(c) ==
    /\ 0 \notin {c[f] : f \in {"mailbox", "leader", "retry", "fetch",
                               "retention", "term"}}
    /\ c["certification"] > c["leader"]
    /\ c["skip"] > c["certification"]
    /\ c["skip"] > c["retry"]
    /\ c["term"] > 1 => c["stall"] > c["certification"]

(* The leader elector: terms of several views come with the stall timeout  *)
(* and the lookahead; a term of one view is the default, without either.   *)
ElectorOf(c) ==
    IF c["term"] > 1
      THEN [length |-> c["term"], stall |-> c["stall"],
            lookahead |-> c["optimistic"]]
      ELSE [length |-> 1, stall |-> 0, lookahead |-> 0]

(* What Engine::new asserts of the values it is handed: a mailbox, the     *)
(* timeouts ordered as the fields of ConsensusConfig say, and neither      *)
(* stall timeout nor lookahead for terms of one view.                      *)
EngineAccepts(c) ==
    LET elector == ElectorOf(c) IN
    /\ c["mailbox"] # 0
    /\ c["skip"] > c["certification"] /\ c["skip"] > c["retry"]
    /\ IF elector.length = 1
         THEN elector.stall = 0 /\ elector.lookahead = 0
         ELSE elector.stall > c["certification"]

-----------------------------------------------------------------------------
(* The steps of node i *)

Goto(i, phase) == node' = [node EXCEPT ![i].phase = phase]

(* Parse --chain, which must be there, and launch reth, which may fail. *)
Launch(i) ==
    /\ node[i].phase = "off"
    /\ \/ /\ source # "peers" => file # Empty
          /\ Goto(i, "launched")
       \/ Goto(i, "exited")
    /\ UNCHANGED <<size, sockets, source, config, file>>

(* The validators in the file --chain names; "dev" names none. *)
LoadedValidators == IF source # "peers" THEN file ELSE Empty

(* Bug variant: a file that cannot be read has no validators. *)
NeverFails == FALSE

(* The file was read when --chain was parsed, and is read once more after  *)
(* the launch: by now it may be gone or half written.                      *)
RereadFails == source # "peers" /\ file = Empty

(* build_validator_set: those of the genesis file, or else derived from    *)
(* the peers; an overflow or an index out of bounds is a panic.            *)
BuildValidatorSet(i) ==
    /\ node[i].phase = "launched"
    /\ IF RereadFails
         THEN Goto(i, "exited")
       ELSE IF LoadedValidators # Empty
         THEN node' = [node EXCEPT ![i].phase = "wired",
                         ![i].validators = LoadedValidators]
       ELSE IF OverflowPanics(Len(PeersOf(i))) \/ ~InBounds(i, PeersOf(i))
         THEN Goto(i, "exited")
       ELSE node' = [node EXCEPT ![i].phase = "wired",
                       ![i].validators = DeriveValidators(i, PeersOf(i))]
    /\ UNCHANGED <<size, sockets, source, config, file>>

(* spawn_consensus_thread: validate, then spawn, which may fail. *)
SpawnConsensusThread(i) ==
    /\ node[i].phase = "wired"
    /\ \/ Validate(config) /\ Goto(i, "spawned")
       \/ Goto(i, "exited")
    /\ UNCHANGED <<size, sockets, source, config, file>>

(* run_consensus up to network.start: NZUsize! panics on an empty mailbox. *)
StartNetwork(i) ==
    /\ node[i].phase = "spawned"
    /\ IF config["mailbox"] = 0
         THEN Goto(i, "refused")
         ELSE Goto(i, "networked")
    /\ UNCHANGED <<size, sockets, source, config, file>>

(* The rest of run_consensus, with start_simplex_engine: the configuration *)
(* is validated once more, an empty set is an error, and what Engine::new  *)
(* asserts panics.                                                         *)
StartEngine(i) ==
    /\ node[i].phase = "networked"
    /\ IF /\ Validate(config)
          /\ node[i].validators # Empty
          /\ EngineAccepts(config)
         THEN Goto(i, "running")
         ELSE Goto(i, "refused")
    /\ UNCHANGED <<size, sockets, source, config, file>>

(* What only the surroundings decide: the runtime or its storage directory *)
(* cannot be opened, the p2p network cannot be made, or its listener, a    *)
(* task of its own, cannot bind.  Errors and panics are caught and logged. *)
ConsensusFails(i) ==
    /\ node[i].phase \in {"spawned", "networked", "running"}
    /\ Goto(i, "failed")
    /\ UNCHANGED <<size, sockets, source, config, file>>

Next ==
    \/ GenerateGenesis
    \/ RewriteGenesis
    \/ \E i \in Started :
          Launch(i) \/ BuildValidatorSet(i) \/ SpawnConsensusThread(i)
            \/ StartNetwork(i) \/ StartEngine(i) \/ ConsensusFails(i)

Spec == Init /\ [][Next]_vars

-----------------------------------------------------------------------------
(* Properties *)

Running == {i \in Started : node[i].phase = "running"}

(* track_peers: node i dials every validator but itself. *)
Tracked(i) ==
    [j \in DOMAIN node[i].validators \ {i} |-> node[i].validators[j]]

(* All nodes that run consensus use the same set of validators, that of    *)
(* the devnet, wherever they took it from and whatever happened to the     *)
(* genesis file between its two readings (main.rs:248).                    *)
AgreeOnValidators ==
    \A i \in Running : DOMAIN node[i].validators = 0..(size - 1)

(* Any two validators that run consensus dial each other where the other   *)
(* listens (build_validator_set, track_peers).                             *)
PeersReachable ==
    \A i \in Running, j \in Running \cap 0..(size - 1) :
        i # j => j \in DOMAIN Tracked(i) /\ Tracked(i)[j] = sockets[j]

(* What the consensus thread would refuse of the configuration and the     *)
(* validators it is handed, by an error or a panic that leaves reth        *)
(* without consensus, was refused on the main thread before                *)
(* (spawn_consensus_thread: "Fail here rather than on the consensus        *)
(* thread").  Says nothing of ConsensusFails, which no check on the main   *)
(* thread comes before.                                                    *)
RefusedOnMainThread == \A i \in Started : node[i].phase # "refused"
=============================================================================

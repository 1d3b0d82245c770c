--------------------------- MODULE ExecutionLayer ---------------------------
(***************************************************************************)
(* The embedded reth node, as the closures of builder.rs and the finalizer *)
(* use it through ConsensusEngineHandle: new_payload and                   *)
(* fork_choice_updated.  reth itself is a library; this module is the      *)
(* weakest behaviour of those two calls that the code is written for.      *)
(*                                                                         *)
(* Each call is atomic inside the engine.  It is an action with the reply  *)
(* as a parameter; the caller conjoins what it does with the reply.        *)
(*                                                                         *)
(* Every forkchoice state the code submits has safe = finalized, so one    *)
(* variable stands for both pointers.                                      *)
(***************************************************************************)
EXTENDS Chain

CONSTANT Faults     \* whether calls may fail for reasons of the engine's own

ASSUME FaultsAssumption == Faults \in BOOLEAN

VARIABLES
    elValid,      \* blocks executed and found valid
    elAccepted,   \* blocks kept but not executed (PayloadStatusEnum::Accepted)
    elHead,       \* head of the canonical chain
    elFinal       \* safe and finalized block

elVars == <<elValid, elAccepted, elHead, elFinal>>

ElTypeOK ==
    /\ elValid \subseteq Hash
    /\ elAccepted \subseteq Blocks
    /\ elHead \in Hash
    /\ elFinal \in Hash

ElInit ==
    /\ elValid = {Genesis}
    /\ elAccepted = {}
    /\ elHead = Genesis
    /\ elFinal = Genesis

PayloadStatus == {"VALID", "ACCEPTED", "SYNCING", "ERROR"}

(* new_payload(b).  A block is executed only on top of an executed parent; *)
(* without one the engine answers SYNCING.  "ERROR" stands for INVALID and *)
(* for a failed call: no caller tells them apart.                          *)
NewPayload(b, status) ==
    /\ \/ /\ status = "VALID"
          /\ Parent[b] \in elValid
          /\ elValid' = elValid \cup {b}
          /\ UNCHANGED elAccepted
       \/ /\ status = "ACCEPTED"
          /\ Faults
          /\ elAccepted' = elAccepted \cup {b}
          /\ UNCHANGED elValid
       \/ /\ status = "SYNCING"
          /\ Parent[b] \notin elValid
          /\ UNCHANGED <<elValid, elAccepted>>
       \/ /\ status = "ERROR"
          /\ Faults
          /\ UNCHANGED <<elValid, elAccepted>>
    /\ UNCHANGED <<elHead, elFinal>>

(* fork_choice_updated(head = h, safe = finalized = f).  id says whether   *)
(* the reply carries a payload id.                                         *)
(*   - an unknown head (B256::ZERO too) answers SYNCING;                   *)
(*   - a finalized block that is not below the head is refused;            *)
(*   - a head strictly below the canonical head does not move it and       *)
(*     starts no payload job; the pointers may or may not be taken over;   *)
(*   - otherwise the head and the pointers move, and a payload job starts  *)
(*     unless the new head is not visible to the job generator yet.        *)
ForkchoiceUpdated(h, f, status, id) ==
    /\ \/ /\ status = "ERROR" /\ ~id
          /\ Faults \/ (h \in elValid /\ f \notin Ancestors[h])
          /\ UNCHANGED <<elHead, elFinal>>
       \/ /\ status = "SYNCING" /\ ~id
          /\ h \notin elValid
          /\ UNCHANGED <<elHead, elFinal>>
       \/ /\ status = "VALID" /\ ~id
          /\ h \in elValid
          /\ f \in Ancestors[h]
          /\ StrictlyBelow(h, elHead)
          /\ elFinal' \in {elFinal, f}
          /\ UNCHANGED elHead
       \/ /\ status = "VALID" /\ (id \/ Faults)
          /\ h \in elValid
          /\ f \in Ancestors[h]
          /\ ~StrictlyBelow(h, elHead)
          /\ elHead' = h
          /\ elFinal' = f
    /\ UNCHANGED <<elValid, elAccepted>>

(* The process stops and starts again.  Of the blocks only a persisted     *)
(* prefix of the canonical chain survives; the finalized pointer survives  *)
(* when its block does.                                                    *)
ElRestart ==
    \E h \in Ancestors[elHead] :
        /\ elValid' = Ancestors[h]
        /\ elAccepted' = {}
        /\ elHead' = h
        /\ elFinal' = IF elFinal \in Ancestors[h] THEN elFinal ELSE Genesis
=============================================================================

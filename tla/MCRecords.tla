----------------------------- MODULE MCRecords -----------------------------
(***************************************************************************)
(* Instances for TLC of the records the program leaves and reads again:    *)
(* the chain of the stage versions of an attempt, the change set of its    *)
(* repair rounds, the records of whole tasks with the audit chain, and the *)
(* evidence a stage stores.                                                *)
(* They share no variable: a behaviour of this module is a behaviour of    *)
(* one of them, chosen in the initial state and named by `component'.      *)
(***************************************************************************)
EXTENDS StageChain, RepairRounds, EvidenceChain, StageEvidence, TLC

VARIABLE component

recordsVars == <<component, chainVars, repairVars, evidenceVars, stageEvidenceVars>>

RecordsInit ==
    /\ component \in {"chain", "repair", "evidence", "artifacts"}
    /\ ChainInit /\ RepairInit /\ EvidenceInit /\ StageEvidenceInit
    /\ component # "repair" => base = [p \in Paths |-> Missing]
    /\ component # "evidence" => shown = [t \in Tasks |-> "active"]
    /\ component # "artifacts" => kind = "implement"

RecordsNext ==
    \/ /\ component = "chain" /\ ChainNext
       /\ UNCHANGED <<component, repairVars, evidenceVars, stageEvidenceVars>>
    \/ /\ component = "repair" /\ RepairNext
       /\ UNCHANGED <<component, chainVars, evidenceVars, stageEvidenceVars>>
    \/ /\ component = "evidence" /\ EvidenceNext
       /\ UNCHANGED <<component, chainVars, repairVars, stageEvidenceVars>>
    \/ /\ component = "artifacts" /\ StageEvidenceNext
       /\ UNCHANGED <<component, chainVars, repairVars, evidenceVars>>

RecordsSpec == RecordsInit /\ [][RecordsNext]_recordsVars

(* Callers, their keys and hashes, tasks and requests are interchangeable. *)
(* Callers and tasks never occur in the same component, nor do keys and    *)
(* requests, so that two of each are exchanged at once.                    *)
Moves(p) == \E x \in DOMAIN p : p[x] # x
Together(S, T) ==
    {pq[1] @@ pq[2] : pq \in {x \in Permutations(S) \X Permutations(T) :
                                  Moves(x[1]) <=> Moves(x[2])}}
CallerSymmetry ==
    {p @@ q @@ h : p \in Together(Callers, Tasks), q \in Together(ClientKeys, Requesters),
                   h \in Permutations(Hashes)}
=============================================================================

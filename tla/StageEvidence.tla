--------------------------- MODULE StageEvidence ---------------------------
(***************************************************************************)
(* What a stage leaves behind for the person: the evidence its container   *)
(* reported, the files it is stored in and the rows that name them         *)
(* (app/artifacts.py, sandbox_worker/verification.py, implementation.py,   *)
(* the success branch of execution_control.py complete).                   *)
(*                                                                         *)
(* Files are named by their content.  Two runs of Implement that make the  *)
(* same change store the same inventory and the same diff, and the first   *)
(* may still be at it when the second, its retry, runs.  Files are written *)
(* outside the database: a crash or a refusal leaves them behind.  The     *)
(* rows of one run are one transaction, which is opened by its first       *)
(* write and keeps every other writer out until it ends.                   *)
(***************************************************************************)
EXTENDS Naturals, Sequences

CONSTANTS
    MaxEvidenceRuns,  \* runs of the stage: 1..MaxEvidenceRuns, each with a job
    CommandCount      \* commands of a Verify

ASSUME StageEvidenceAssumption == MaxEvidenceRuns \in Nat \ {0} /\ CommandCount \in Nat \ {0}

VARIABLES
    kind,        \* the stage that runs
    runner,      \* the worker of each run: where it is, what it reported, its next file
    runJob,      \* the job of each run
    disk,        \* the files under the artifact root, by content
    artifactRows,
    manifests,   \* runs whose manifest, entries and links are committed
    inserted,    \* rows of the open transaction
    holder       \* the run whose transaction is open

stageEvidenceVars ==
    <<kind, runner, runJob, disk, artifactRows, manifests, inserted, holder>>

EvidenceRuns == 1..MaxEvidenceRuns
NoRun == 0
Roles == IF kind = "implement"
           THEN <<"stage-result", "file-inventory", "unified-diff">>
           ELSE <<"stage-result", "normalized-test-results">>

(* A result and its tests name the run; the rest depends on the change.    *)
Blob(r, role) ==
    [role |-> role, of |-> IF role \in {"file-inventory", "unified-diff"} THEN NoRun ELSE r]
Blobs ==
    [role : {"stage-result", "file-inventory", "unified-diff", "normalized-test-results"},
     of : EvidenceRuns \cup {NoRun}]
Bundle(r) == [i \in DOMAIN Roles |-> Blob(r, Roles[i])]

StageEvidenceInit ==
    /\ kind \in {"implement", "verify"}
    /\ runner = [r \in EvidenceRuns |-> [pc |-> "idle", evidence |-> <<>>, file |-> 1]]
    /\ runJob = [r \in EvidenceRuns |-> "absent"]
    /\ disk = [c \in Blobs |-> "absent"]
    /\ artifactRows = {} /\ manifests = {} /\ inserted = {} /\ holder = NoRun

Goes(r, pc) == runner' = [runner EXCEPT ![r].pc = pc]
MayWrite(r) == holder \in {NoRun, r}
Current(r) == Bundle(r)[runner[r].file]

(* Rollback, and the failure of the run where its job is still its own.    *)
Abandon(r) ==
    /\ Goes(r, "over")
    /\ runJob' = [runJob EXCEPT ![r] = IF @ = "running" THEN "failed" ELSE @]
    /\ IF holder = r THEN holder' = NoRun /\ inserted' = {} ELSE UNCHANGED <<holder, inserted>>
    /\ UNCHANGED <<kind, disk, artifactRows, manifests>>

-----------------------------------------------------------------------------
StartEvidenceRun(r) ==
    /\ runJob[r] = "absent"
    /\ r > 1 => runJob[r - 1] \in {"failed", "timed_out"}
    /\ runJob' = [runJob EXCEPT ![r] = "running"]
    /\ Goes(r, IF kind = "verify" THEN "commands" ELSE "completing")
    /\ UNCHANGED <<kind, disk, artifactRows, manifests, inserted, holder>>

Halts == {"timed_out", "output_limit", "not_run"}
Reported(r) == runner[r].evidence
AllReported(r) == Len(Reported(r)) = CommandCount

(* The commands of a Verify run in order until one exceeds its time or its *)
(* output.  A process a command leaves behind may write to its log between *)
(* the hash and the capture of it.                                         *)
RunCommand(r) ==
    /\ runner[r].pc = "commands" /\ ~AllReported(r)
    /\ \A k \in DOMAIN Reported(r) : Reported(r)[k].status \notin Halts
    /\ \E status \in {"passed", "failed", "timed_out", "output_limit"}, steady \in BOOLEAN :
          /\ status = "output_limit" => steady      \* its logs are omitted
          /\ runner' = [runner EXCEPT ![r].evidence =
                            Append(@, [status |-> status, steady |-> steady])]
    /\ UNCHANGED <<kind, runJob, disk, artifactRows, manifests, inserted, holder>>

SkipCommand(r) ==
    /\ runner[r].pc = "commands" /\ ~AllReported(r)
    /\ \E k \in DOMAIN Reported(r) : Reported(r)[k].status \in Halts
    /\ runner' = [runner EXCEPT ![r].evidence =
                      Append(@, [status |-> "not_run", steady |-> TRUE])]
    /\ UNCHANGED <<kind, runJob, disk, artifactRows, manifests, inserted, holder>>

(* The container fails: its time, its exit code, a changed inventory.      *)
ContainerFails(r) == runner[r].pc = "commands" /\ Abandon(r)

(* Mutant of Inspect: a capture is not compared with its hash. *)
InspectUncompared(r) ==
    /\ runner[r].pc = "commands" /\ AllReported(r)
    /\ Goes(r, "completing")
    /\ UNCHANGED <<kind, runJob, disk, artifactRows, manifests, inserted, holder>>

(* The report is read: one piece of evidence for each command, and every   *)
(* capture equal to what was hashed.                                       *)
Inspect(r) ==
    /\ runner[r].pc = "commands" /\ AllReported(r)
    /\ IF \A k \in DOMAIN Reported(r) : Reported(r)[k].steady
         THEN /\ Goes(r, "completing")
              /\ UNCHANGED <<kind, runJob, disk, artifactRows, manifests, inserted, holder>>
         ELSE Abandon(r)

-----------------------------------------------------------------------------
(* complete: refused at once when the job is no longer this worker's.      *)
Complete(r) ==
    /\ runner[r].pc = "completing"
    /\ IF runJob[r] = "running"
         THEN /\ Goes(r, "storing")
              /\ UNCHANGED <<kind, runJob, disk, artifactRows, manifests, inserted, holder>>
         ELSE Abandon(r)

(* store_bytes, for each content of the bundle: look at the file ...       *)
LookForFile(r) ==
    /\ runner[r].pc = "storing" /\ runner[r].file <= Len(Roles)
    /\ Goes(r, IF disk[Current(r)] = "absent" THEN "opening" ELSE "looking")
    /\ UNCHANGED <<kind, runJob, disk, artifactRows, manifests, inserted, holder>>

(* ... write a temporary file beside it, that no reader finds ...          *)
OpenFile(r) ==
    /\ runner[r].pc = "opening"
    /\ Goes(r, "replacing")
    /\ UNCHANGED <<kind, runJob, disk, artifactRows, manifests, inserted, holder>>

(* ... and rename it over the target.                                      *)
ReplaceFile(r) ==
    /\ runner[r].pc = "replacing"
    /\ disk' = [disk EXCEPT ![Current(r)] = "whole"]
    /\ Goes(r, "looking")
    /\ UNCHANGED <<kind, runJob, artifactRows, manifests, inserted, holder>>

NextFile(r) == runner' = [runner EXCEPT ![r].pc = "storing", ![r].file = @ + 1]

LookForRow(r) ==
    /\ runner[r].pc = "looking"
    /\ IF Current(r) \in artifactRows THEN NextFile(r) ELSE Goes(r, "inserting")
    /\ UNCHANGED <<kind, runJob, disk, artifactRows, manifests, inserted, holder>>

(* The row another run committed since is a conflict.                      *)
InsertRow(r) ==
    /\ runner[r].pc = "inserting" /\ MayWrite(r)
    /\ IF Current(r) \in artifactRows THEN Abandon(r)
       ELSE /\ inserted' = inserted \cup {Current(r)}
            /\ holder' = r
            /\ NextFile(r)
            /\ UNCHANGED <<kind, runJob, disk, artifactRows, manifests>>

(* Mutant of Finalize: the job is not asked whether it still runs. *)
FinalizeLate(r) ==
    /\ runner[r].pc = "storing" /\ runner[r].file > Len(Roles) /\ MayWrite(r)
    /\ runJob' = [runJob EXCEPT ![r] = "succeeded"]
    /\ artifactRows' = artifactRows \cup inserted
    /\ manifests' = manifests \cup {r}
    /\ inserted' = {} /\ holder' = NoRun
    /\ Goes(r, "over")
    /\ UNCHANGED <<kind, disk>>

(* The manifest, its entries and links, the success of the job and of the  *)
(* stage commit together, if the job is still running for this worker.     *)
Finalize(r) ==
    /\ runner[r].pc = "storing" /\ runner[r].file > Len(Roles) /\ MayWrite(r)
    /\ IF runJob[r] = "running"
         THEN /\ runJob' = [runJob EXCEPT ![r] = "succeeded"]
              /\ artifactRows' = artifactRows \cup inserted
              /\ manifests' = manifests \cup {r}
              /\ inserted' = {} /\ holder' = NoRun
              /\ Goes(r, "over")
              /\ UNCHANGED <<kind, disk>>
         ELSE Abandon(r)

-----------------------------------------------------------------------------
(* The worker dies; its transaction, if any, is rolled back.               *)
Die(r) ==
    /\ runner[r].pc \notin {"idle", "over"}
    /\ Goes(r, "over")
    /\ IF holder = r THEN holder' = NoRun /\ inserted' = {} ELSE UNCHANGED <<holder, inserted>>
    /\ UNCHANGED <<kind, runJob, disk, artifactRows, manifests>>

(* Its lease is recovered, whether it died or only fell silent.            *)
LoseRun(r) ==
    /\ runJob[r] = "running" /\ holder = NoRun
    /\ runJob' = [runJob EXCEPT ![r] = "timed_out"]
    /\ UNCHANGED <<kind, runner, disk, artifactRows, manifests, inserted, holder>>

RunStep(r) ==
    \/ StartEvidenceRun(r) \/ RunCommand(r) \/ SkipCommand(r) \/ ContainerFails(r) \/ Inspect(r)
    \/ Complete(r) \/ LookForFile(r) \/ OpenFile(r) \/ ReplaceFile(r) \/ LookForRow(r) \/ InsertRow(r)
    \/ Finalize(r)

StageEvidenceNext == \E r \in EvidenceRuns : RunStep(r) \/ Die(r) \/ LoseRun(r)

StageEvidenceSpec == StageEvidenceInit /\ [][StageEvidenceNext]_stageEvidenceVars

Manifest(r) == {Bundle(r)[i] : i \in DOMAIN Bundle(r)}

(* read_execution_artifact: the manifest names every role, every artifact  *)
(* has its row and its whole file, and the job of the run succeeded.       *)
RunReadable(r) ==
    /\ r \in manifests /\ runJob[r] = "succeeded"
    /\ \A blob \in Manifest(r) : blob \in artifactRows /\ disk[blob] = "whole"

(* The evidence of a run that succeeded can be read, whole, and shows what *)
(* was hashed, whatever an earlier run of the stage still writes or left   *)
(* behind; and only one run of a stage succeeded.                          *)
EvidenceIsReadable ==
    \A r \in EvidenceRuns : runJob[r] = "succeeded" =>
        /\ RunReadable(r)
        /\ \A k \in DOMAIN Reported(r) : Reported(r)[k].steady
        /\ \A other \in EvidenceRuns : runJob[other] = "succeeded" => other = r
=============================================================================

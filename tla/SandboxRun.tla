----------------------------- MODULE SandboxRun -----------------------------
(***************************************************************************)
(* The stages of one attempt in the sandbox worker (app/execution_worker,  *)
(* sandbox_worker/explore, implementation, verification): a run of a       *)
(* stage, the process that executes it, and what it leaves in Docker.      *)
(* Explore unpacks the archive in a temporary directory and inspects it;   *)
(* Implement unpacks it in a volume of its own and applies the change set; *)
(* Verify mounts the volume of the Implement that succeeded, read-only.    *)
(*                                                                         *)
(* Every Docker command is awaited, and an await is where a cancellation   *)
(* arrives: from the heartbeat, which has seen that the run was cancelled  *)
(* or lost, and from the timeout of the run.  A container outlives the     *)
(* client that is killed in its place until it is removed by its name, and *)
(* a volume cannot be removed while a container uses it.                   *)
(*                                                                         *)
(* A process that has stalled past the lease of its run goes on, beside    *)
(* the process that executes the retry.                                    *)
(***************************************************************************)
EXTENDS Naturals, FiniteSets

CONSTANTS
    MaxStageRuns, \* bound: the runs of the attempt (3 of each stage in the code)
    MaxFaults,    \* bound: Docker commands that fail
    MaxLosses,    \* bound: leases that expire, processes that die
    MaxCancels    \* bound: cancellations of the user

ASSUME SandboxAssumption ==
    {MaxStageRuns, MaxFaults, MaxLosses, MaxCancels} \subseteq Nat

VARIABLES
    stageRun, \* the runs: their stage, the state of their job, and the volume they record
    process,   \* where the process of each run is, what it has caught and been hit by
    volume,   \* the volume, or temporary directory, of each run
    tree,     \* what it holds
    boxes,    \* the containers that are up
    spent     \* the faults, losses and cancellations so far

sandboxVars == <<stageRun, process, volume, tree, boxes, spent>>

StageRuns  == 1 .. MaxStageRuns
Stages     == <<"explore", "implement", "verify">>
Held       == {"leased", "running"}
OverRun     == {"succeeded", "failed", "cancelled", "timed_out"}
Containers == {"chmod", "materialize", "inspect", "apply", "verify"}
Writers    == {"materialize", "apply"}
Awaiting   == {"volume", "remove", "destroy"} \cup Containers

NoStageRun == [stage |-> "explore", state |-> "none", cancel |-> FALSE, workspace |-> 0]
Nobody   == [at |-> "rest", caught |-> "none", left |-> "chmod", hits |-> {}]

SandboxInit ==
    /\ stageRun = [r \in StageRuns |-> NoStageRun]
    /\ process = [r \in StageRuns |-> Nobody]
    /\ volume = [r \in StageRuns |-> "none"]
    /\ tree = [r \in StageRuns |-> "empty"]
    /\ boxes = {}
    /\ spent = [faults |-> 0, losses |-> 0, cancels |-> 0]

Used       == {r \in StageRuns : stageRun[r].state # "none"}
Finished(stage) ==
    {r \in Used : stageRun[r].stage = stage /\ stageRun[r].state = "succeeded"}
Goes(r, phase) == process' = [process EXCEPT ![r].at = phase]
Throws(r, what, phase) ==
    process' = [process EXCEPT ![r].at = phase, ![r].caught = what]
Box(r, kind)  == [run |-> r, kind |-> kind]
Docker        == <<volume, tree, boxes>>
Fault ==
    /\ spent.faults < MaxFaults
    /\ spent' = [spent EXCEPT !.faults = @ + 1]

-----------------------------------------------------------------------------
(* The records.                                                            *)

(* The next stage, or a retry of the one that failed; Verify is given the  *)
(* workspace recorded by Implement.                                        *)
ScheduleStage ==
    /\ Used # StageRuns
    /\ \A r \in Used : stageRun[r].state \in OverRun \ {"cancelled"}
    /\ \E i \in DOMAIN Stages :
          /\ Finished(Stages[i]) = {}
          /\ \A j \in 1 .. i - 1 : Finished(Stages[j]) # {}
          /\ stageRun' = [stageRun EXCEPT ![Cardinality(Used) + 1] =
                [NoStageRun EXCEPT
                    !.stage = Stages[i], !.state = "queued",
                    !.workspace = IF Stages[i] # "verify" THEN 0
                                  ELSE CHOOSE w \in Finished("implement") : TRUE]]
    /\ UNCHANGED <<process, spent, Docker>>

(* lease_next; Implement creates its workspace before it begins.           *)
LeaseStage(r) ==
    /\ stageRun[r].state = "queued"
    /\ stageRun' = [stageRun EXCEPT ![r].state = "leased"]
    /\ Goes(r, IF stageRun[r].stage = "implement" THEN "volume" ELSE "begin")
    /\ UNCHANGED <<spent, Docker>>

CancelStage(r) ==
    /\ spent.cancels < MaxCancels
    /\ stageRun[r].state \in {"queued"} \cup Held /\ ~stageRun[r].cancel
    /\ spent' = [spent EXCEPT !.cancels = @ + 1]
    /\ stageRun' = [stageRun EXCEPT
          ![r].cancel = TRUE,
          ![r].state = IF @ = "queued" THEN "cancelled" ELSE @]
    /\ UNCHANGED <<process, Docker>>

(* The lease of a process that is dead, or has stalled, is recovered.      *)
ExpireStage(r) ==
    /\ stageRun[r].state \in Held
    /\ \/ /\ process[r].at = "dead"
          /\ UNCHANGED <<spent>>
       \/ /\ process[r].at # "dead" /\ spent.losses < MaxLosses
          /\ spent' = [spent EXCEPT !.losses = @ + 1]
    /\ stageRun' = [stageRun EXCEPT
          ![r].state = IF stageRun[r].cancel THEN "cancelled" ELSE "timed_out"]
    /\ UNCHANGED <<process, Docker>>

-----------------------------------------------------------------------------
(* Before the run has begun: DockerImplementRuntime.create_workspace.      *)

(* `docker volume create'.  One that fails, or times out, may have made    *)
(* the volume; nothing removes it.                                         *)
CreateVolume(r) ==
    /\ process[r].at = "volume"
    /\ \/ /\ volume' = [volume EXCEPT ![r] = "made"]
          /\ boxes' = boxes \cup {Box(r, "chmod")}
          /\ Goes(r, "chmod")
          /\ UNCHANGED <<spent>>
       \/ /\ Fault
          /\ \E made \in {"none", "made"} : volume' = [volume EXCEPT ![r] = made]
          /\ Throws(r, "error", "report")
          /\ UNCHANGED <<boxes>>
    /\ UNCHANGED <<stageRun, tree>>

(* control.begin records the workspace, unless the run is lost.            *)
BeginStage(r) ==
    /\ process[r].at = "begin"
    /\ IF stageRun[r].state = "leased"
       THEN /\ stageRun' = [stageRun EXCEPT ![r].state = "running",
                  ![r].workspace = IF stageRun[r].stage = "implement" THEN r ELSE @]
            /\ Goes(r, "load")
       ELSE /\ Throws(r, "error", "report")
            /\ UNCHANGED <<stageRun>>
    /\ UNCHANGED <<spent, Docker>>

-----------------------------------------------------------------------------
(* The inputs, and the containers.                                         *)

Up(r, kind) ==
    /\ boxes' = boxes \cup {Box(r, kind)}
    /\ Goes(r, kind)

(* The inputs are read and checked against the spec; what fails here has   *)
(* touched no volume, and leaves the one of Implement where it is.         *)
InputsRefused(r) ==
    /\ Throws(r, "error", "report")
    /\ UNCHANGED <<Docker>>

Unpack(r) ==
    /\ stageRun[r].stage # "verify"
    /\ Up(r, "materialize")
    /\ volume' = [volume EXCEPT ![r] = "made"]
    /\ tree' = [tree EXCEPT ![r] = "partial"]

MountForVerify(r) ==
    /\ stageRun[r].stage = "verify"
    /\ Up(r, "verify")
    /\ UNCHANGED <<volume, tree>>

LoadInputs(r) ==
    /\ process[r].at = "load"
    /\ Unpack(r) \/ MountForVerify(r) \/ InputsRefused(r)
    /\ UNCHANGED <<stageRun, spent>>

(* Where an exception of a container goes: Explore and Verify leave their  *)
(* temporary directory, Implement destroys its volume.                     *)
Cleanup(r) == IF stageRun[r].stage = "implement" THEN "destroy" ELSE "report"

Leaves(r) ==
    IF stageRun[r].stage = "explore" THEN [volume EXCEPT ![r] = "gone"] ELSE volume

(* A container ends, and its client reports how.  Verify compares what it  *)
(* mounts with the recorded inventory.                                     *)
ContainerEnds(r) ==
    LET kind == process[r].at IN
    /\ kind \in Containers
    /\ boxes' = boxes \ {Box(r, kind)}
    /\ \/ /\ kind = "chmod" /\ Goes(r, "begin")
          /\ UNCHANGED <<volume, tree, spent>>
       \/ /\ kind = "materialize"
          /\ tree' = [tree EXCEPT ![r] = "base"]
          /\ Goes(r, IF stageRun[r].stage = "explore" THEN "look" ELSE "patch")
          /\ UNCHANGED <<volume, spent>>
       \/ /\ kind = "apply"
          /\ tree' = [tree EXCEPT ![r] = "changed"]
          /\ Goes(r, "settle")
          /\ UNCHANGED <<volume, spent>>
       \/ /\ kind = "inspect"
          /\ volume' = Leaves(r)
          /\ Goes(r, "settle")
          /\ UNCHANGED <<tree, spent>>
       \/ /\ kind = "verify"
          /\ LET w == stageRun[r].workspace IN volume[w] = "made" /\ tree[w] = "changed"
          /\ Goes(r, "settle")
          /\ UNCHANGED <<volume, tree, spent>>
       \/ /\ kind = "verify"
          /\ LET w == stageRun[r].workspace IN ~(volume[w] = "made" /\ tree[w] = "changed")
          /\ Throws(r, "error", "report")
          /\ UNCHANGED <<volume, tree, spent>>
       \/ /\ Fault
          /\ Throws(r, "error", IF kind = "chmod" THEN "destroy" ELSE Cleanup(r))
          /\ volume' = Leaves(r)
          /\ UNCHANGED <<tree>>
    /\ UNCHANGED <<stageRun>>

(* The archive and the snapshot are verified between the containers.       *)
NextContainer(r) ==
    /\ process[r].at \in {"look", "patch"}
    /\ Up(r, IF process[r].at = "look" THEN "inspect" ELSE "apply")
    /\ tree' = IF process[r].at = "look" THEN tree ELSE [tree EXCEPT ![r] = "partial"]
    /\ UNCHANGED <<stageRun, volume, spent>>

(* The timeout of a container: its client is killed, and it is removed.    *)
(* The one that sets the mode of the volume has no name.                   *)
ContainerTimesOut(r) ==
    /\ process[r].at \in Containers /\ Fault
    /\ IF process[r].at = "chmod"
       THEN Throws(r, "error", "destroy")
       ELSE process' = [process EXCEPT ![r].at = "remove", ![r].left = process[r].at,
                                     ![r].caught = "error"]
    /\ UNCHANGED <<stageRun, Docker>>

-----------------------------------------------------------------------------
(* Cancellation.                                                           *)

(* Mutant of Unwinds: the cancellation of a container goes up without the  *)
(* container being removed.                                                *)
UnwindsBare(r) ==
    CASE process[r].at \in Containers \ {"chmod"} -> Cleanup(r)
      [] process[r].at = "remove" -> Cleanup(r)
      [] OTHER -> "report"

(* Where a cancellation goes: a container is removed first, what was being *)
(* cleaned up is left, and the volume of a run not begun has no handler.   *)
Unwinds(r) ==
    CASE process[r].at \in Containers \ {"chmod"} -> "remove"
      [] process[r].at = "remove" -> Cleanup(r)
      [] OTHER -> "report"

(* The heartbeat of the run has found it cancelled or lost; its timeout    *)
(* may come at any time.  Each cancels the work once.  The command that    *)
(* was cancelled may have been carried out.                                *)
Interrupt(r, by) ==
    LET at == process[r].at IN
    /\ at \in Awaiting /\ by \notin process[r].hits
    /\ by = "heartbeat" => stageRun[r].cancel \/ stageRun[r].state \notin Held
    /\ process' = [process EXCEPT
          ![r].at = Unwinds(r), ![r].caught = "cancelled",
          ![r].left = IF at \in Containers THEN at ELSE @,
          ![r].hits = @ \cup {by}]
    /\ \/ UNCHANGED <<volume>>
       \/ /\ at = "volume" /\ volume' = [volume EXCEPT ![r] = "made"]
       \/ /\ at = "destroy" /\ volume[r] = "made"
          /\ \A b \in boxes : b.run # r
          /\ volume' = [volume EXCEPT ![r] = "gone"]
       \/ /\ at = "remove" /\ volume' = Leaves(r)
    /\ UNCHANGED <<stageRun, tree, boxes, spent>>

(* _force_remove: its failure is not looked at.                            *)
RemoveContainer(r) ==
    /\ process[r].at = "remove"
    /\ \/ /\ boxes' = boxes \ {Box(r, process[r].left)}
          /\ UNCHANGED <<spent>>
       \/ /\ Fault
          /\ UNCHANGED <<boxes>>
    /\ Goes(r, Cleanup(r))
    /\ volume' = Leaves(r)
    /\ UNCHANGED <<stageRun, tree>>

(* destroy: a volume in use cannot be removed, and that is an error of its *)
(* own, which takes the place of the cancellation.                         *)
DestroyVolume(r) ==
    /\ process[r].at = "destroy"
    /\ \/ /\ \A b \in boxes : b.run # r
          /\ volume' = [volume EXCEPT ![r] = "gone"]
          /\ Goes(r, "report")
          /\ UNCHANGED <<spent>>
       \/ /\ \E b \in boxes : b.run = r
          /\ Throws(r, "error", "report")
          /\ UNCHANGED <<volume, spent>>
       \/ /\ Fault
          /\ Throws(r, "error", "report")
          /\ UNCHANGED <<volume>>
    /\ UNCHANGED <<stageRun, tree, boxes>>

-----------------------------------------------------------------------------
(* The end of a run.                                                       *)

Ends(r, state) == stageRun' = [stageRun EXCEPT ![r].state = state]

(* Mutant of FinishStage: the Implement whose success is refused, or whose     *)
(* Verify cannot be scheduled, is undone like one that failed.             *)
FinishStageUndone(r) ==
    /\ process[r].at = "settle"
    /\ \/ /\ stageRun[r].state = "running" /\ ~stageRun[r].cancel
          /\ Ends(r, "succeeded")
          /\ \/ Goes(r, "done")
             \/ Throws(r, "error", Cleanup(r))
       \/ /\ ~(stageRun[r].state = "running" /\ ~stageRun[r].cancel)
          /\ Throws(r, "error", Cleanup(r))
          /\ UNCHANGED <<stageRun>>
    /\ UNCHANGED <<spent, Docker>>

(* _succeed, and for Implement _schedule_verify, whose failure leaves the  *)
(* success as it is.  A success that is refused becomes a failure.         *)
FinishStage(r) ==
    /\ process[r].at = "settle"
    /\ \/ /\ stageRun[r].state = "running" /\ ~stageRun[r].cancel
          /\ Ends(r, "succeeded")
          /\ Goes(r, "done")
       \/ /\ ~(stageRun[r].state = "running" /\ ~stageRun[r].cancel)
          /\ Throws(r, "error", "report")
          /\ UNCHANGED <<stageRun>>
    /\ UNCHANGED <<spent, Docker>>

(* Mutant of ReportStage: a run whose cancellation was overtaken by an error is *)
(* not closed.                                                             *)
ReportStageSwallowed(r) ==
    /\ process[r].at = "report"
    /\ IF stageRun[r].state \in Held /\ ~(stageRun[r].cancel /\ process[r].caught = "error")
       THEN Ends(r, "failed")
       ELSE UNCHANGED <<stageRun>>
    /\ Goes(r, "done")
    /\ UNCHANGED <<spent, Docker>>

(* _fail for an exception of a run that has begun, run_once for the rest;  *)
(* a run that is closed, or was taken away, stays as it is.                *)
ReportStage(r) ==
    /\ process[r].at = "report"
    /\ IF stageRun[r].state \in Held
       THEN Ends(r, CASE stageRun[r].state = "leased" \/ process[r].caught = "error" -> "failed"
                      [] stageRun[r].cancel -> "cancelled"
                      [] "timeout" \in process[r].hits -> "timed_out"
                      [] OTHER -> "failed")
       ELSE UNCHANGED <<stageRun>>
    /\ Goes(r, "done")
    /\ UNCHANGED <<spent, Docker>>

(* The process dies: what it awaited goes on, and nobody will clean up.    *)
SandboxDies(r) ==
    /\ process[r].at \notin {"rest", "done", "dead"} /\ spent.losses < MaxLosses
    /\ spent' = [spent EXCEPT !.losses = @ + 1]
    /\ Goes(r, "dead")
    /\ volume' = [volume EXCEPT ![r] = IF process[r].at = "volume" THEN "made" ELSE @]
    /\ UNCHANGED <<stageRun, tree, boxes>>

Awaited(b) ==
    \/ process[b.run].at = b.kind
    \/ process[b.run].at = "remove" /\ process[b.run].left = b.kind

(* A container nobody awaits writes on, and may end.                       *)
StrayRuns(b) ==
    /\ b \in boxes /\ ~Awaited(b)
    /\ tree' = IF b.kind \in Writers
               THEN [tree EXCEPT ![b.run] = "partial"] ELSE tree
    /\ boxes' \in {boxes, boxes \ {b}}
    /\ UNCHANGED <<stageRun, process, volume, spent>>

StageStep(r) ==
    \/ CreateVolume(r) \/ BeginStage(r) \/ LoadInputs(r) \/ ContainerEnds(r)
    \/ NextContainer(r) \/ RemoveContainer(r) \/ DestroyVolume(r)
    \/ FinishStage(r) \/ ReportStage(r)

SandboxNext ==
    \/ ScheduleStage
    \/ \E r \in StageRuns :
          \/ LeaseStage(r) \/ CancelStage(r) \/ ExpireStage(r) \/ SandboxDies(r)
          \/ StageStep(r) \/ ContainerTimesOut(r)
          \/ \E by \in {"heartbeat", "timeout"} : Interrupt(r, by)
    \/ \E b \in boxes : StrayRuns(b)

(* The worker keeps polling, a Docker command ends, times out or fails,    *)
(* and an expired lease is recovered.                                      *)
Proceeds(r) ==
    \/ LeaseStage(r) \/ StageStep(r)
    \/ process[r].at = "dead" /\ ExpireStage(r)

SandboxFairness == \A r \in StageRuns : WF_sandboxVars(Proceeds(r))

SandboxSpec == SandboxInit /\ [][SandboxNext]_sandboxVars /\ SandboxFairness

-----------------------------------------------------------------------------
SandboxTypeOK ==
    /\ stageRun \in [StageRuns -> [stage : {Stages[i] : i \in DOMAIN Stages},
                                   state : {"none", "queued"} \cup Held \cup OverRun,
                                   cancel : BOOLEAN, workspace : 0 .. MaxStageRuns]]
    /\ process \in [StageRuns ->
          [at : {"rest", "begin", "load", "look", "patch", "settle", "report", "done", "dead"}
                \cup Awaiting,
           caught : {"none", "error", "cancelled"}, left : Containers,
           hits : SUBSET {"heartbeat", "timeout"}]]
    /\ volume \in [StageRuns -> {"none", "made", "gone"}]
    /\ tree \in [StageRuns -> {"empty", "partial", "base", "changed"}]
    /\ boxes \subseteq [run : StageRuns, kind : Containers]

(* The workspace an Implement succeeded with is there for Verify as it was *)
(* left, with the changes and nothing that could still write to it: not a  *)
(* container of its own run that timed out, not the process of a run that  *)
(* was lost and retried, not the cleanup of another.                       *)
RecordedIsQuiet ==
    \A r \in Finished("implement") :
        /\ volume[r] = "made" /\ tree[r] = "changed"
        /\ stageRun[r].workspace = r
        /\ \A b \in boxes : b.run # r

(* A container of a run that nobody awaits any more is there only because  *)
(* Docker failed, the process died, or its removal was cancelled by the    *)
(* second of the two cancellations; or it is the short-lived one that has  *)
(* no name to be removed by (implementation.py:1244-1264).                 *)
NoStrays ==
    \A b \in boxes :
        \/ Awaited(b)
        \/ b.kind = "chmod" /\ process[b.run].hits # {}
        \/ spent.faults > 0
        \/ process[b.run].at = "dead"
        \/ Cardinality(process[b.run].hits) = 2

(* No container works on after nobody waits for it: none touches a         *)
(* recorded workspace, none outlives its run without an excuse             *)
(* (_run_container, destroy, recover).                                     *)
NothingRunsOn == RecordedIsQuiet /\ NoStrays

(* Any provenance failure of an Implement removes its volume at once       *)
(* (docs/sandbox-implementation.md:63-64).                                 *)
FailureDeletesVolume ==
    \A r \in StageRuns :
        /\ stageRun[r].stage = "implement" /\ stageRun[r].state = "failed"
        /\ process[r].at = "done" /\ process[r].hits = {}
        /\ spent = [faults |-> 0, losses |-> 0, cancels |-> 0]
        => volume[r] # "made"

(* Where the runs that a process took should come to, whatever happens to  *)
(* the process, to its containers and to its cleanup.                      *)
RunsAtRest == \A r \in StageRuns : stageRun[r].state \notin Held
=============================================================================

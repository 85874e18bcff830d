---------------------- MODULE VerificationEnvironment ----------------------
(***************************************************************************)
(* The environment a change is verified in.  Before the code is changed    *)
(* the sandbox worker prepares the workspace: it freezes the dependencies  *)
(* in a volume, the bundle, runs the baseline in it and records both       *)
(* (sandbox_worker/workspace_jobs.py, dependencies.py).  The verification  *)
(* of the change names that bundle among its inputs and runs offline in    *)
(* it (execution_worker.py, verification.py).  The worker reclaims bundles *)
(* nobody needs (dependency_jobs.py); a verification that finds its bundle *)
(* gone is restored with a new one (execution_recovery.py).  One attempt   *)
(* of a task whose exploration has succeeded, one sandbox worker that does *)
(* one thing at a time and may die, a coordinator and a user.              *)
(***************************************************************************)
EXTENDS Naturals, Sequences, FiniteSets

CONSTANTS
    MaxVerifyRuns,      \* ExecutionStageRun.max_stage_runs of Verify
    MaxDeaths,          \* bound: deaths of the sandbox worker
    MaxHolds            \* bound: blockers from elsewhere, stuck removals and repairs

ASSUME EnvironmentBounds ==
    /\ MaxVerifyRuns \in Nat \ {0}
    /\ MaxDeaths \in Nat /\ MaxHolds \in Nat

VARIABLES
    change,     \* the current stage version; its bundle, once it names one
    verifies,   \* verify runs scheduled so far
    preps,      \* the preparation jobs, with their volumes and receipts
    hold,       \* the active automation_blocked event
    halt,       \* the stop request
    box,        \* what the sandbox worker does, and for which preparation
    deaths, holds

environmentVars == <<change, verifies, preps, hold, halt, box, deaths, holds>>

Ended == {"succeeded", "failed", "timed_out", "cancelled"}

NoHold == [reason |-> "none", over |-> 0]
Resting == [at |-> "idle", job |-> 0]

(* A preparation for the baseline (purpose 0) or for the verify run that   *)
(* failed: the job, its temporary copy of the repository, its bundle.      *)
NewPrep(purpose) ==
    [purpose |-> purpose, state |-> "queued", temp |-> "none", tempNoted |-> FALSE,
     volume |-> "none", noted |-> FALSE, ready |-> FALSE, outcome |-> "none",
     disposed |-> FALSE, invalid |-> FALSE, superseded |-> FALSE]

EnvironmentInit ==
    /\ change = [name |-> "explore", status |-> "succeeded", why |-> "none", bundle |-> 0]
    /\ verifies = 0 /\ preps = <<>> /\ hold = NoHold
    /\ halt = [on |-> FALSE, cancelled |-> FALSE, over |-> 0]
    /\ box = Resting /\ deaths = 0 /\ holds = 0

LastWhere(P(_)) ==
    LET found == {j \in DOMAIN preps : P(preps[j])}
    IN  IF found = {} THEN 0 ELSE CHOOSE j \in found : \A i \in found : i <= j

LastNoted == LastWhere(LAMBDA p : p.noted)

(* The latest receipts of a baseline and of its bundle: one transaction.   *)
Receipt == LastWhere(LAMBDA p : p.ready)

(* The bundle was reclaimed, or found unusable.                            *)
Lost(j) == j \in DOMAIN preps /\ (preps[j].disposed \/ preps[j].invalid)

Stale == change.name = "verify" /\ change.status = "failed" /\ change.why = "stale"

(* The inputs of the running preparation still stand.                      *)
Current(j) ==
    /\ preps[j].state = "running" /\ ~halt.on
    /\ IF preps[j].purpose = 0
       THEN change.name = "explore" /\ change.status = "succeeded"
       ELSE Stale /\ preps[j].purpose = verifies /\ Lost(Receipt)

----------------------------------------------------------------------------
(* The sandbox worker: preparing.                                          *)

LeasePrep(j) ==
    /\ box = Resting /\ j \in DOMAIN preps /\ preps[j].state = "queued"
    /\ preps' = [preps EXCEPT ![j].state = "running"]
    /\ box' = [at |-> "leased", job |-> j]
    /\ UNCHANGED <<change, verifies, hold, halt, deaths, holds>>

MakeTemp ==
    /\ box.at = "leased" /\ Current(box.job)
    /\ preps' = [preps EXCEPT ![box.job].temp = "there"]
    /\ box' = [box EXCEPT !.at = "made"]
    /\ UNCHANGED <<change, verifies, hold, halt, deaths, holds>>

NoteTemp ==
    /\ box.at = "made" /\ Current(box.job)
    /\ preps' = [preps EXCEPT ![box.job].tempNoted = TRUE]
    /\ box' = [box EXCEPT !.at = "copied"]
    /\ UNCHANGED <<change, verifies, hold, halt, deaths, holds>>

CreateBundle ==
    /\ box.at = "copied"
    /\ preps' = [preps EXCEPT ![box.job].volume = "there"]
    /\ box' = [box EXCEPT !.at = "bundling"]
    /\ UNCHANGED <<change, verifies, hold, halt, deaths, holds>>

NoteBundle ==
    /\ box.at = "bundling" /\ Current(box.job)
    /\ preps' = [preps EXCEPT ![box.job].noted = TRUE]
    /\ box' = [box EXCEPT !.at = "freezing"]
    /\ UNCHANGED <<change, verifies, hold, halt, deaths, holds>>

(* The frozen bundle, the baseline run in it and the success of the job    *)
(* are recorded together.                                                  *)
FinishPrep(outcome) ==
    /\ box.at = "freezing" /\ Current(box.job)
    /\ preps' = [preps EXCEPT ![box.job].ready = TRUE, ![box.job].outcome = outcome,
                              ![box.job].state = "succeeded"]
    /\ box' = [box EXCEPT !.at = "leaving"]
    /\ UNCHANGED <<change, verifies, hold, halt, deaths, holds>>

(* The removal of a bundle ignores the failures of Docker.                 *)
Removal(j) ==
    \/ /\ preps' = [preps EXCEPT ![j].volume = IF @ = "none" THEN "none" ELSE "gone"]
       /\ UNCHANGED holds
    \/ preps[j].volume \in {"there", "empty"} /\ holds < MaxHolds /\ holds' = holds + 1
       /\ UNCHANGED preps

(* The preparation fails, or its inputs no longer stand: the bundle goes.  *)
GiveUpPrep ==
    /\ box.at \in {"leased", "made", "copied", "bundling", "freezing"}
    /\ Removal(box.job)
    /\ box' = [box EXCEPT !.at = "leaving"]
    /\ UNCHANGED <<change, verifies, hold, halt, deaths>>

(* The temporary copy goes whatever happened; a failure is then settled.   *)
LeavePrep ==
    /\ box.at = "leaving"
    /\ preps' = [preps EXCEPT
         ![box.job].temp = IF @ = "none" THEN "none" ELSE "gone",
         ![box.job].state = IF @ = "succeeded" THEN @
                            ELSE IF halt.cancelled THEN "cancelled" ELSE "failed"]
    /\ box' = Resting
    /\ UNCHANGED <<change, verifies, hold, halt, deaths, holds>>

----------------------------------------------------------------------------
(* The sandbox worker: reclaiming, once no preparation is queued.          *)

Waiting == \E j \in DOMAIN preps : preps[j].state = "queued"

Consumed == change.status \in {"pending", "running"}

(* Mutant of Disposable: a stopped task keeps the bundle of its change. *)
DisposableUnstopped(j) ==
    LET stopped == halt.on /\ j <= halt.over
        blocked == hold # NoHold /\ hold.over >= j
    IN  /\ preps[j].noted /\ ~preps[j].disposed /\ preps[j].state \in Ended
        /\ \A i \in DOMAIN preps \ {j} : preps[i].state \in Ended
        /\ ~Consumed
        /\ ~(change.name = "implement" /\ change.status = "succeeded"
             /\ (~blocked \/ hold.reason = "workflow_failed"))
        /\ ~(preps[j].purpose > 0 /\ preps[j].purpose = verifies /\ Stale
             /\ preps[j].state = "succeeded" /\ ~stopped)
        /\ \/ change.name = "verify" /\ change.status \in Ended
           \/ stopped \/ blocked \/ preps[j].state # "succeeded"

(* Nobody needs the bundle any more: neither a job of the attempt, nor the *)
(* verification that follows a succeeded change, nor a restored one.       *)
Disposable(j) ==
    LET stopped == halt.on /\ j <= halt.over
        blocked == hold # NoHold /\ hold.over >= j
    IN  /\ preps[j].noted /\ ~preps[j].disposed /\ preps[j].state \in Ended
        /\ \A i \in DOMAIN preps \ {j} : preps[i].state \in Ended
        /\ ~Consumed
        /\ ~(~stopped /\ change.name = "implement" /\ change.status = "succeeded"
             /\ (~blocked \/ hold.reason = "workflow_failed"))
        /\ ~(preps[j].purpose > 0 /\ preps[j].purpose = verifies /\ Stale
             /\ preps[j].state = "succeeded" /\ ~stopped)
        /\ \/ change.name = "verify" /\ change.status \in Ended
           \/ stopped \/ blocked \/ preps[j].state # "succeeded"

DecideDisposal(j) ==
    /\ box = Resting /\ ~Waiting /\ j \in DOMAIN preps /\ Disposable(j)
    /\ box' = [at |-> "removing", job |-> j]
    /\ UNCHANGED <<change, verifies, preps, hold, halt, deaths, holds>>

RemoveBundle ==
    /\ box.at = "removing"
    /\ Removal(box.job)
    /\ box' = [box EXCEPT !.at = "recording"]
    /\ UNCHANGED <<change, verifies, hold, halt, deaths>>

RecordDisposal ==
    /\ box.at = "recording"
    /\ preps' = [preps EXCEPT ![box.job].disposed = TRUE]
    /\ box' = Resting
    /\ UNCHANGED <<change, verifies, hold, halt, deaths, holds>>

CleanTemp(j) ==
    /\ box = Resting /\ ~Waiting /\ j \in DOMAIN preps
    /\ preps[j].tempNoted /\ preps[j].temp = "there" /\ preps[j].state \in Ended
    /\ preps' = [preps EXCEPT ![j].temp = "gone"]
    /\ UNCHANGED <<change, verifies, hold, halt, box, deaths, holds>>

----------------------------------------------------------------------------
(* The sandbox worker: changing the code and verifying it.                 *)

(* The verification of the succeeded change, in the latest bundle.         *)
ScheduleVerification ==
    /\ change' = [name |-> "verify", status |-> "pending", why |-> "none", bundle |-> Receipt]
    /\ verifies' = verifies + 1

BeginImplement ==
    /\ box = Resting /\ ~Waiting /\ change.name = "implement" /\ change.status = "pending"
    /\ change' = [change EXCEPT !.status = "running"]
    /\ box' = [at |-> "implementing", job |-> 0]
    /\ UNCHANGED <<verifies, preps, hold, halt, deaths, holds>>

EndStage(status, why) == change' = [change EXCEPT !.status = status, !.why = why]

EndImplement(status) ==
    /\ box.at = "implementing"
    /\ status \in IF halt.cancelled THEN {"cancelled"} ELSE {"succeeded", "failed"}
    /\ EndStage(status, "none")
    /\ box' = IF status = "succeeded" THEN [box EXCEPT !.at = "implemented"] ELSE Resting
    /\ UNCHANGED <<verifies, preps, hold, halt, deaths, holds>>

(* The worker schedules the verification itself, whatever was stopped or   *)
(* blocked meanwhile.                                                      *)
FollowUp ==
    /\ box.at = "implemented"
    /\ IF change.name = "implement" /\ change.status = "succeeded"
       THEN ScheduleVerification ELSE UNCHANGED <<change, verifies>>
    /\ box' = Resting
    /\ UNCHANGED <<preps, hold, halt, deaths, holds>>

BeginVerify ==
    /\ box = Resting /\ ~Waiting /\ change.name = "verify" /\ change.status = "pending"
    /\ change' = [change EXCEPT !.status = "running"]
    /\ box' = [at |-> "loading", job |-> 0]
    /\ UNCHANGED <<verifies, preps, hold, halt, deaths, holds>>

(* The latest receipt is loaded; it must be the one the inputs name.       *)
LoadBundle ==
    /\ box.at = "loading"
    /\ IF Lost(Receipt) \/ Receipt # change.bundle
       THEN /\ EndStage("failed", IF Lost(Receipt) THEN "stale" ELSE "provenance")
            /\ box' = Resting
       ELSE box' = [at |-> "mounting", job |-> Receipt] /\ UNCHANGED change
    /\ UNCHANGED <<verifies, preps, hold, halt, deaths, holds>>

(* Docker creates the volume it is told to mount, when it is missing.      *)
MountBundle ==
    /\ box.at = "mounting"
    /\ preps' = [preps EXCEPT ![box.job].volume = IF @ = "gone" THEN "empty" ELSE @]
    /\ box' = [box EXCEPT !.at = "testing"]
    /\ UNCHANGED <<change, verifies, hold, halt, deaths, holds>>

(* Mutant of PassVerify: the inventory of the bundle is not compared. *)
PassAnyBundle ==
    /\ box.at = "testing" /\ ~halt.cancelled
    /\ EndStage("succeeded", "none")
    /\ box' = Resting
    /\ UNCHANGED <<verifies, preps, hold, halt, deaths, holds>>

(* The tests ran in the frozen bundle, whatever their results.             *)
PassVerify ==
    /\ box.at = "testing" /\ ~halt.cancelled /\ preps[box.job].volume = "there"
    /\ EndStage("succeeded", "none")
    /\ box' = Resting
    /\ UNCHANGED <<verifies, preps, hold, halt, deaths, holds>>

FailVerify ==
    /\ box.at \in {"loading", "mounting", "testing"}
    /\ EndStage(IF halt.cancelled THEN "cancelled" ELSE "failed", "verifyerror")
    /\ box' = Resting
    /\ UNCHANGED <<verifies, preps, hold, halt, deaths, holds>>

(* The supervisor exits with 91: the inventory is not the frozen one.  The *)
(* bundle is invalidated, then the stage fails, in two transactions.       *)
InvalidateBundle ==
    /\ box.at = "testing" /\ preps[box.job].volume = "empty"
    /\ preps' = [preps EXCEPT ![box.job].invalid = TRUE]
    /\ box' = [box EXCEPT !.at = "invalidated"]
    /\ UNCHANGED <<change, verifies, hold, halt, deaths, holds>>

FailStale ==
    /\ box.at = "invalidated"
    /\ EndStage(IF halt.cancelled THEN "cancelled" ELSE "failed", "stale")
    /\ box' = Resting
    /\ UNCHANGED <<verifies, preps, hold, halt, deaths, holds>>

Dies ==
    /\ box # Resting /\ deaths < MaxDeaths
    /\ deaths' = deaths + 1 /\ box' = Resting
    /\ UNCHANGED <<change, verifies, preps, hold, halt, holds>>

(* The lease of what a dead worker was doing expires.                      *)
ExpirePrep(j) ==
    /\ j \in DOMAIN preps /\ preps[j].state = "running" /\ box = Resting
    /\ preps' = [preps EXCEPT ![j].state = IF halt.cancelled THEN "cancelled" ELSE "timed_out"]
    /\ UNCHANGED <<change, verifies, hold, halt, box, deaths, holds>>

ExpireStageJob ==
    /\ change.status = "running" /\ box = Resting
    /\ EndStage(IF halt.cancelled THEN "cancelled" ELSE "timed_out", "none")
    /\ UNCHANGED <<verifies, preps, hold, halt, box, deaths, holds>>

----------------------------------------------------------------------------
(* The coordinator.                                                        *)

Block(reason) == hold' = [reason |-> reason, over |-> LastNoted]

(* The restorations requested for the failed verification.                 *)
Restores == {j \in DOMAIN preps : preps[j].purpose > 0 /\ preps[j].purpose = verifies}

RecoveryDue ==
    /\ Stale /\ ~halt.on /\ Receipt # 0
    /\ Restores # {} \/ (Receipt = change.bundle /\ Lost(Receipt))

LastRestore == CHOOSE j \in Restores : \A i \in Restores : i <= j

EnqueueRestore ==
    /\ RecoveryDue /\ verifies < MaxVerifyRuns /\ Restores = {}
    /\ preps' = Append(preps, NewPrep(verifies))
    /\ hold' = NoHold
    /\ UNCHANGED <<change, verifies, halt, box, deaths, holds>>

(* A proxy found working again earns a failed restoration another job, up  *)
(* to three for one verification.                                          *)
RetryTransport ==
    /\ RecoveryDue /\ verifies < MaxVerifyRuns /\ Restores # {}
    /\ preps[LastRestore].state = "failed" /\ Cardinality(Restores) < 3
    /\ holds < MaxHolds /\ holds' = holds + 1
    /\ preps' = Append(preps, NewPrep(verifies))
    /\ hold' = NoHold
    /\ UNCHANGED <<change, verifies, halt, box, deaths>>

Restored ==
    /\ RecoveryDue /\ verifies < MaxVerifyRuns /\ Restores # {}
    /\ LastRestore = Receipt /\ preps[Receipt].state = "succeeded"
    /\ preps[Receipt].outcome = "passed" /\ ~Lost(Receipt)

(* The verification is retried in the new bundle.                          *)
FinishRestore ==
    /\ Restored
    /\ ScheduleVerification
    /\ preps' = [j \in DOMAIN preps |->
         [preps[j] EXCEPT !.superseded = @ \/ j \in Restores \ {Receipt}]]
    /\ hold' = NoHold
    /\ UNCHANGED <<halt, box, deaths, holds>>

(* Mutant of RecoveryFails: a restoration whose lease expired is waited for. *)
RecoveryFailsAlone ==
    /\ RecoveryDue /\ hold = NoHold
    /\ \/ verifies >= MaxVerifyRuns
       \/ Restores # {} /\ preps[LastRestore].state \in Ended \ {"timed_out"} /\ ~Restored
    /\ Block("environment_stale")
    /\ UNCHANGED <<change, verifies, preps, halt, box, deaths, holds>>

RecoveryFails ==
    /\ RecoveryDue /\ hold = NoHold
    /\ \/ verifies >= MaxVerifyRuns
       \/ Restores # {} /\ preps[LastRestore].state \in Ended /\ ~Restored
    /\ Block("environment_stale")
    /\ UNCHANGED <<change, verifies, preps, halt, box, deaths, holds>>

FailedWork ==
    \/ \E j \in DOMAIN preps : preps[j].state \in Ended \ {"succeeded"} /\ ~preps[j].superseded
    \/ change.status \in Ended \ {"succeeded"}

(* A baseline that could not run at all blocks the task, once per receipt, *)
(* and nothing else of the attempt goes on.                                *)
Unready == change.name = "explore" /\ Receipt # 0 /\ preps[Receipt].outcome = "environment_blocked"

Free == ~halt.on /\ hold = NoHold /\ ~RecoveryDue /\ ~Unready

BlockFailed ==
    /\ Free /\ FailedWork
    /\ Block("failed")
    /\ UNCHANGED <<change, verifies, preps, halt, box, deaths, holds>>

Settled == ~FailedWork /\ \A j \in DOMAIN preps : preps[j].state \in Ended

Explored == Free /\ Settled /\ change.name = "explore"

BlockBaseline ==
    /\ Unready /\ ~halt.on /\ hold.reason # "environment_blocked"
    /\ Block("environment_blocked")
    /\ UNCHANGED <<change, verifies, preps, halt, box, deaths, holds>>

EnqueuePreparation ==
    /\ Explored /\ (Receipt = 0 \/ Lost(Receipt))
    /\ preps' = Append(preps, NewPrep(0))
    /\ UNCHANGED <<change, verifies, hold, halt, box, deaths, holds>>

AcceptChange ==
    /\ Explored /\ Receipt # 0 /\ ~Lost(Receipt)
    /\ change' = [change EXCEPT !.name = "implement", !.status = "pending"]
    /\ UNCHANGED <<verifies, preps, hold, halt, box, deaths, holds>>

ScheduleChange ==
    /\ Free /\ Settled /\ change.name = "implement" /\ change.status = "succeeded"
    /\ ScheduleVerification
    /\ UNCHANGED <<preps, hold, halt, box, deaths, holds>>

(* Something else blocks the task: a coding job that failed, a stale model *)
(* configuration, an error nobody expected.                                *)
BlockElsewhere(reason) ==
    /\ ~halt.on /\ hold = NoHold /\ holds < MaxHolds
    /\ reason = "coding_failed" => Explored /\ Receipt # 0 /\ ~Lost(Receipt)
    /\ holds' = holds + 1
    /\ Block(reason)
    /\ UNCHANGED <<change, verifies, preps, halt, box, deaths>>

CancelWork ==
    /\ halt.on /\ ~halt.cancelled
    /\ halt' = [halt EXCEPT !.cancelled = TRUE]
    /\ preps' = [j \in DOMAIN preps |->
         [preps[j] EXCEPT !.state = IF @ = "queued" THEN "cancelled" ELSE @]]
    /\ change' = [change EXCEPT !.status = IF @ = "pending" THEN "cancelled" ELSE @]
    /\ UNCHANGED <<verifies, hold, box, deaths, holds>>

----------------------------------------------------------------------------
(* The user and the operator.                                              *)

Stop ==
    /\ ~halt.on
    /\ halt' = [halt EXCEPT !.on = TRUE, !.over = LastNoted]
    /\ UNCHANGED <<change, verifies, preps, hold, box, deaths, holds>>

(* The user retries the coding job that failed.                            *)
Resume ==
    /\ ~halt.on /\ hold.reason = "coding_failed" /\ change.name = "explore"
    /\ hold' = NoHold
    /\ UNCHANGED <<change, verifies, preps, halt, box, deaths, holds>>

(* The operator proves that the runtime that failed the baseline is        *)
(* repaired: the failed preparation is replaced, at most twice.            *)
RepairPreparation(j) ==
    /\ ~halt.on /\ j \in DOMAIN preps
    /\ preps[j].state = "failed" /\ preps[j].purpose = 0 /\ ~preps[j].superseded
    /\ change.name = "explore" /\ Receipt = 0
    /\ \A i \in DOMAIN preps : preps[i].state \in Ended
    /\ Cardinality({i \in DOMAIN preps : preps[i].superseded}) < 2
    /\ holds < MaxHolds /\ holds' = holds + 1
    /\ preps' = Append([preps EXCEPT ![j].superseded = TRUE], NewPrep(0))
    /\ hold' = NoHold
    /\ UNCHANGED <<change, verifies, halt, box, deaths>>

BoxStep ==
    \/ \E j \in DOMAIN preps : LeasePrep(j) \/ DecideDisposal(j) \/ CleanTemp(j)
    \/ MakeTemp \/ NoteTemp \/ CreateBundle \/ NoteBundle
    \/ \E o \in {"passed", "failed", "environment_blocked"} : FinishPrep(o)
    \/ GiveUpPrep \/ LeavePrep \/ RemoveBundle \/ RecordDisposal
    \/ BeginImplement \/ (\E s \in {"succeeded", "failed", "cancelled"} : EndImplement(s))
    \/ FollowUp \/ BeginVerify \/ LoadBundle \/ MountBundle
    \/ PassVerify \/ FailVerify \/ InvalidateBundle \/ FailStale

CoordinatorStep ==
    \/ EnqueueRestore \/ FinishRestore \/ RecoveryFails \/ BlockFailed
    \/ EnqueuePreparation \/ BlockBaseline \/ AcceptChange \/ ScheduleChange \/ CancelWork

ExpireSome == ExpireStageJob \/ \E j \in DOMAIN preps : ExpirePrep(j)

EnvironmentNext ==
    \/ BoxStep \/ CoordinatorStep \/ ExpireSome \/ Dies
    \/ RetryTransport \/ Stop \/ Resume
    \/ \E r \in {"coding_failed", "model_stale", "workflow_failed"} : BlockElsewhere(r)
    \/ \E j \in DOMAIN preps : RepairPreparation(j)

(* The worker and the coordinator poll; expired leases are recovered.      *)
EnvironmentFairness ==
    /\ WF_environmentVars(BoxStep)
    /\ WF_environmentVars(CoordinatorStep)
    /\ WF_environmentVars(ExpireSome)

EnvironmentSpec ==
    EnvironmentInit /\ [][EnvironmentNext]_environmentVars /\ EnvironmentFairness

----------------------------------------------------------------------------
(* A change is reported verified only from a run in the very bundle its    *)
(* inputs name, still frozen; after a restoration the baseline passed in   *)
(* it again.                                                               *)
VerifiedInItsBundle ==
    [][change.status = "running" /\ change'.name = "verify" /\ change'.status = "succeeded" =>
         /\ preps[change.bundle].volume = "there" /\ ~Lost(change.bundle)
         /\ verifies > 1 => preps[change.bundle].outcome = "passed"]_environmentVars

(* Once the attempt is stopped, verified or failed, every volume that was  *)
(* recorded is reclaimed: the copies of the repository are gone and the    *)
(* bundles are disposed of.  The code keeps one exception, the bundle of a *)
(* restoration that succeeded for the failed verification.                 *)
BundlesAreReclaimed ==
    <>[](\A j \in DOMAIN preps :
           /\ preps[j].tempNoted => preps[j].temp # "there"
           /\ preps[j].noted /\ (halt.on \/ (change.name = "verify" /\ j # Receipt))
              => preps[j].disposed
           /\ preps[j].noted /\ change.name = "verify" /\ ~Stale => preps[j].disposed)

(* Where every attempt should come to: verified, blocked with a reason the *)
(* user can see, or stopped.                                               *)
AttemptAtRest ==
    halt.on \/ hold # NoHold \/ (change.name = "verify" /\ change.status = "succeeded")
=============================================================================

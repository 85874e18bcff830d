--------------------------- MODULE ExecutionStage ---------------------------
(***************************************************************************)
(* One ExecutionAttempt: its append-only chain of stage versions           *)
(* (app/executions.py), the stage runs that bind a pending version to a    *)
(* durable job (app/execution_control.py), and the sandbox workers that    *)
(* run them (app/execution_worker.py), next to everything else that        *)
(* touches those jobs: recover_expired of other processes, cancel and      *)
(* retry requests for any job, and the coordinator that schedules,         *)
(* advances and restores stages.                                           *)
(*                                                                         *)
(* A transaction that appends a version and changes a job is one action:   *)
(* the version's sequence number and the job's guarded UPDATE make it a    *)
(* compare-and-set, whatever was read before.  Writes to jobs that are not *)
(* guarded are split into their read and their commit, as in JobLease.     *)
(* A clock reading is taken up to MaxAge ticks before it is used.          *)
(***************************************************************************)
EXTENDS JobRows, Sequences, FiniteSets

CONSTANTS
    Reapers,       \* other processes that call recover_expired
    Clients,       \* requests about jobs in progress
    MaxStageRuns,  \* runs allowed for each stage
    MaxCrashes     \* bound: how many times sandbox workers are killed

ASSUME ExecutionStageAssumption ==
    /\ MaxAttempts = 1
    /\ MaxStageRuns \in Nat \ {0}
    /\ MaxCrashes \in Nat

VARIABLES
    versions,  \* the stage versions, oldest first
    runs,      \* the stage runs, oldest first; run k is bound to job k
    jobs,      \* the jobs of the stage runs
    worker,    \* what each sandbox worker knows
    reaper,    \* what each other process has read for recover_expired
    client,    \* what each request has read
    crashes

vars == <<versions, runs, jobs, worker, reaper, client, crashes>>

Stages  == {"explore", "implement", "verify"}
Failing == {"failed", "cancelled", "timed_out"}
Settled == Failing \cup {"succeeded"}

Version(stage, status) == [stage |-> stage, status |-> status, stale |-> FALSE]
Current == versions[Len(versions)]
RunIds  == DOMAIN runs

(* Run k is bound to the version at position runs[k].pending; the versions *)
(* it owns are that one and the running one appended to it.                *)
OwnsPending(k) ==
    Len(versions) = runs[k].pending /\ Current.status = "pending"
OwnsRunning(k) ==
    Len(versions) = runs[k].pending + 1 /\ Current.status = "running"
OwnsCurrent(k) == OwnsPending(k) \/ OwnsRunning(k)

(* known: jobs a worker found expired or stranded, with the state its      *)
(* session holds for them.                                                 *)
Idle == [pc |-> "read", phase |-> "poll", run |-> 0, known |-> {}, timeout |-> FALSE]
Down == [Idle EXCEPT !.pc = "down"]
NoRequest == [op |-> "none", run |-> 0, flag |-> FALSE]

Init ==
    /\ versions = <<Version("explore", "pending")>>
    /\ runs = <<>>
    /\ jobs = <<>>
    /\ worker = [w \in Workers |-> Idle]
    /\ reaper = [r \in Reapers |-> {}]
    /\ client = [c \in Clients |-> NoRequest]
    /\ crashes = 0

Extend(version) == versions' = Append(versions, version)
Close(status)   == Extend(Version(Current.stage, status))
WriteJob(k, row) == jobs' = [jobs EXCEPT ![k] = row]
Become(w, state) == worker' = [worker EXCEPT ![w] = state]

-----------------------------------------------------------------------------
(* The coordinator, which binds a pending version to a new run.            *)

RunsOf(stage) == {k \in RunIds : runs[k].stage = stage}
LastRunFailed(stage) ==
    \A k \in RunsOf(stage) :
        (\A j \in RunsOf(stage) : runs[j].number =< runs[k].number)
            => jobs[k].state \in {"failed", "timed_out"}

(* Mutant of MayRun: the budget is compared off by one.                    *)
MayRunOnceMore(stage) == /\ Cardinality(RunsOf(stage)) =< MaxStageRuns
                         /\ LastRunFailed(stage)

MayRun(stage) == /\ Cardinality(RunsOf(stage)) < MaxStageRuns
                 /\ LastRunFailed(stage)

Schedule(stage, position) ==
    /\ runs' = Append(runs, [stage |-> stage, pending |-> position,
                             number |-> Cardinality(RunsOf(stage)) + 1])
    /\ jobs' = Append(jobs, NewRow)

Others == <<worker, reaper, client, crashes>>

(* pending_stage_version_id is unique: a second request for the same       *)
(* pending version is refused at commit, whatever it read.                 *)
ScheduleCurrent ==
    /\ Current.status = "pending"
    /\ \A k \in RunIds : runs[k].pending # Len(versions)
    /\ MayRun(Current.stage)
    /\ Schedule(Current.stage, Len(versions))
    /\ UNCHANGED <<versions, Others>>

(* A change set accepted after Explore, and the verification that follows  *)
(* Implement, advance the chain and schedule the new version together.     *)
Advance(from, to) ==
    /\ Current = Version(from, "succeeded")
    /\ MayRun(to)
    /\ Extend(Version(to, "pending"))
    /\ Schedule(to, Len(versions) + 1)

AcceptChangeSet == Advance("explore", "implement") /\ UNCHANGED Others
ScheduleVerification == Advance("implement", "verify") /\ UNCHANGED Others

(* advance_environment_recovery: only for a stale environment.             *)
RestoreVerification ==
    /\ Current = [Version("verify", "failed") EXCEPT !.stale = TRUE]
    /\ MayRun("verify")
    /\ Extend(Version("verify", "pending"))
    /\ Schedule("verify", Len(versions) + 1)
    /\ UNCHANGED Others

(* prepare_retry: the new version is scheduled separately.                 *)
PrepareRetry(k) ==
    /\ runs[k].number < MaxStageRuns
    /\ jobs[k].state \in {"failed", "timed_out"}
    /\ Current.stage = runs[k].stage /\ Current.status \in {"failed", "timed_out"}
    /\ Extend(Version(Current.stage, "pending"))
    /\ UNCHANGED <<runs, jobs, Others>>

-----------------------------------------------------------------------------
(* Requests.  "job" is cancel_job of the API, which knows only the job;    *)
(* "run" is request_cancel of the stage control.                           *)

ReadForCancel(c, k) ==
    /\ client[c].op = "none"
    /\ jobs[k].state \in {"queued"} \cup Active
    /\ \E op \in {"cancel_job", "cancel_run"} :
          client' = [client EXCEPT ![c] =
                       [op |-> op, run |-> k, flag |-> jobs[k].state = "queued"]]
    /\ UNCHANGED <<versions, runs, jobs, worker, reaper, crashes>>

ReadForRetry(c, k) ==
    /\ client[c].op = "none"
    /\ jobs[k].state \in Retriable
    /\ jobs[k].attempt_count < MaxAttempts
    /\ client' = [client EXCEPT ![c] =
                    [op |-> "retry_job", run |-> k, flag |-> jobs[k].cancel_requested]]
    /\ UNCHANGED <<versions, runs, jobs, worker, reaper, crashes>>

Reply(c) == client' = [client EXCEPT ![c] = NoRequest]

CommitJob(c, row) ==
    /\ IF Consistent(row) THEN WriteJob(client[c].run, row) ELSE UNCHANGED jobs
    /\ Reply(c)
    /\ UNCHANGED <<versions, runs, worker, reaper, crashes>>

CancelJob(c) ==
    /\ client[c].op = "cancel_job"
    /\ CommitJob(c, CancelRequested(jobs[client[c].run], client[c].flag))

RetryJob(c) ==
    /\ client[c].op = "retry_job"
    /\ CommitJob(c, Retried(jobs[client[c].run], client[c].flag, Now))

(* A job read as queued is cancelled with its stage or not at all.         *)
CancelRun(c) ==
    LET k   == client[c].run
        row == CancelRequested(jobs[k], client[c].flag)
    IN  /\ client[c].op = "cancel_run"
        /\ \/ ~client[c].flag /\ WriteJob(k, row) /\ UNCHANGED versions
           \/ client[c].flag /\ Consistent(row) /\ OwnsPending(k)
                /\ WriteJob(k, row) /\ Close("cancelled")
           \/ client[c].flag /\ ~(Consistent(row) /\ OwnsPending(k))
                /\ UNCHANGED <<jobs, versions>>
        /\ Reply(c)
        /\ UNCHANGED <<runs, worker, reaper, crashes>>

-----------------------------------------------------------------------------
(* recover_expired, called by every process that leases jobs.              *)

ExpiredJobs == {k \in RunIds : Expired(jobs[k], 0)}
Found(K)    == {[run |-> k, state |-> RecoveryOf(jobs[k])] : k \in K}

Written(known) ==
    [k \in RunIds |-> IF \E x \in known : x.run = k
                      THEN Recovered(jobs[k], (CHOOSE x \in known : x.run = k).state)
                      ELSE jobs[k]]
Accepted(known) == \A k \in RunIds : Consistent(Written(known)[k])

ReapRead(r) ==
    /\ reaper[r] = {} /\ ExpiredJobs # {}
    /\ reaper' = [reaper EXCEPT ![r] = Found(ExpiredJobs)]
    /\ UNCHANGED <<versions, runs, jobs, worker, client, crashes>>

ReapWrite(r) ==
    /\ reaper[r] # {}
    /\ jobs' = IF Accepted(reaper[r]) THEN Written(reaper[r]) ELSE jobs
    /\ reaper' = [reaper EXCEPT ![r] = {}]
    /\ UNCHANGED <<versions, runs, worker, client, crashes>>

-----------------------------------------------------------------------------
(* reconcile_expired of a sandbox worker: recover expired jobs, look for   *)
(* stranded runs, close the stage of each.  It runs before a job is leased *)
(* (poll), after an interruption (settle), and after failing a job that    *)
(* never began (after); leasing then recovers expired jobs once more.      *)

Untouched == <<runs, reaper, client, crashes>>

ReadExpired(w) ==
    LET known == Found(ExpiredJobs)
    IN  /\ worker[w].pc = "read"
        /\ Become(w, [worker[w] EXCEPT !.known = known,
              !.pc = IF known # {} THEN "recover"
                     ELSE IF worker[w].phase = "lease" THEN "claim" ELSE "strand"])
        /\ UNCHANGED <<versions, jobs, Untouched>>

RecoverExpired(w) ==
    /\ worker[w].pc = "recover"
    /\ IF Accepted(worker[w].known)
       THEN /\ jobs' = Written(worker[w].known)
            /\ Become(w, IF worker[w].phase = "lease"
                         THEN [worker[w] EXCEPT !.pc = "claim", !.known = {}]
                         ELSE [worker[w] EXCEPT !.pc = "strand"])
       ELSE jobs' = jobs /\ Become(w, Down)
    /\ UNCHANGED <<versions, Untouched>>

(* Mutant of Stranded: only runs that never began are looked for.          *)
StrandedPending == {k \in RunIds : jobs[k].state \in Failing /\ OwnsPending(k)}

Stranded == {k \in RunIds : jobs[k].state \in Failing /\ OwnsCurrent(k)}

(* Mutant of ReadStranded: only the jobs this worker recovered are closed. *)
ReadRecovered(w) ==
    /\ worker[w].pc = "strand"
    /\ Become(w, [worker[w] EXCEPT !.pc = "reconcile"])
    /\ UNCHANGED <<versions, jobs, Untouched>>

ReadStranded(w) ==
    LET recovered == {x.run : x \in worker[w].known}
    IN  /\ worker[w].pc = "strand"
        /\ Become(w, [worker[w] EXCEPT !.pc = "reconcile",
              !.known = @ \cup {[run |-> k, state |-> jobs[k].state] :
                                   k \in Stranded \ recovered}])
        /\ UNCHANGED <<versions, jobs, Untouched>>

(* Mutant of Reconcile: the current stage is closed whoever it belongs to. *)
ReconcileBlind(w) ==
    /\ worker[w].pc = "reconcile"
    /\ \E x \in worker[w].known :
          /\ Become(w, [worker[w] EXCEPT !.known = @ \ {x}])
          /\ IF x.state \in Failing /\ Current.status \in {"pending", "running"}
             THEN Close(x.state) ELSE UNCHANGED versions
    /\ UNCHANGED <<jobs, Untouched>>

(* _reconcile_terminal of one run.  A job whose stage is neither its own   *)
(* nor already closed raises; the error leaves run_forever.                *)
Reconcile(w) ==
    /\ worker[w].pc = "reconcile"
    /\ \E x \in worker[w].known :
          LET rest == [worker[w] EXCEPT !.known = @ \ {x}]
          IN  \/ /\ \/ x.state \notin Failing
                    \/ Current.status \in Failing /\ Current.stage = runs[x.run].stage
                 /\ Become(w, rest) /\ UNCHANGED versions
              \/ /\ x.state \in Failing /\ OwnsCurrent(x.run)
                 /\ Close(x.state) /\ Become(w, rest)
              \/ /\ x.state \in Failing /\ ~OwnsCurrent(x.run)
                 /\ ~(Current.status \in Failing /\ Current.stage = runs[x.run].stage)
                 /\ Become(w, Down) /\ UNCHANGED versions
    /\ UNCHANGED <<jobs, Untouched>>

Reconciled(w) ==
    /\ worker[w].pc = "reconcile" /\ worker[w].known = {}
    /\ Become(w, CASE worker[w].phase = "poll"   -> [Idle EXCEPT !.phase = "lease"]
                   [] worker[w].phase = "settle" -> [worker[w] EXCEPT !.pc = "settle"]
                   [] worker[w].phase = "after"  -> Idle)
    /\ UNCHANGED <<versions, jobs, Untouched>>

-----------------------------------------------------------------------------
(* A leased run.                                                           *)

Mine(w, allowed) ==
    LET row == jobs[worker[w].run]
    IN  row.state \in allowed /\ row.lease_owner = w

ClaimJob(w) ==
    /\ worker[w].pc = "claim"
    /\ \/ /\ \A k \in RunIds : ~Eligible(jobs[k])
          /\ Become(w, Idle) /\ UNCHANGED jobs
       \/ \E k \in RunIds, age \in 0 .. MaxAge :
             LET row == Leased(jobs[k], w, age)
             IN  /\ Eligible(jobs[k])
                 /\ IF Consistent(row)
                    THEN WriteJob(k, row) /\ Become(w, [Idle EXCEPT !.pc = "granted",
                                                                    !.run = k])
                    ELSE UNCHANGED jobs /\ Become(w, Down)
    /\ UNCHANGED <<versions, Untouched>>

Interrupted(w, timeout) ==
    Become(w, [worker[w] EXCEPT !.pc = "read", !.phase = "settle", !.timeout = timeout])

(* Mutant of Begin: the pending version is not compared with the run's.    *)
BeginBlind(w) ==
    LET k == worker[w].run
    IN  /\ worker[w].pc = "granted"
        /\ IF Mine(w, {"leased"}) /\ Live(jobs[k], 0)
           THEN /\ WriteJob(k, Started(jobs[k])) /\ Close("running")
                /\ Become(w, [worker[w] EXCEPT !.pc = "working"])
           ELSE UNCHANGED <<jobs, versions>> /\ Interrupted(w, FALSE)
        /\ UNCHANGED Untouched

(* Job start and stage start commit together.                              *)
Begin(w) ==
    LET k == worker[w].run
    IN  /\ worker[w].pc = "granted"
        /\ \E age \in 0 .. MaxAge :
              IF Mine(w, {"leased"}) /\ Live(jobs[k], age) /\ OwnsPending(k)
              THEN /\ WriteJob(k, Started(jobs[k])) /\ Close("running")
                   /\ Become(w, [worker[w] EXCEPT !.pc = "working"])
              ELSE UNCHANGED <<jobs, versions>> /\ Interrupted(w, FALSE)
        /\ UNCHANGED Untouched

(* Mutant of Succeed: a cancellation request is not looked at.             *)
SucceedCancelled(w) ==
    LET k == worker[w].run
    IN  /\ worker[w].pc = "working"
        /\ IF Mine(w, {"running"}) /\ Live(jobs[k], 0) /\ OwnsRunning(k)
           THEN /\ WriteJob(k, Closed(jobs[k], "succeeded")) /\ Close("succeeded")
                /\ Become(w, Idle)
           ELSE /\ Become(w, [worker[w] EXCEPT !.pc = "failing"])
                /\ UNCHANGED <<jobs, versions>>
        /\ UNCHANGED Untouched

(* complete(succeeded), with the artifacts in the same transaction.  When  *)
(* it is refused the worker goes on to fail the stage.                     *)
Succeed(w) ==
    LET k == worker[w].run
    IN  /\ worker[w].pc = "working"
        /\ \E age \in 0 .. MaxAge :
              IF /\ Mine(w, {"running"}) /\ Live(jobs[k], age)
                 /\ ~jobs[k].cancel_requested /\ OwnsRunning(k)
              THEN /\ WriteJob(k, Closed(jobs[k], "succeeded")) /\ Close("succeeded")
                   /\ Become(w, [Idle EXCEPT
                         !.pc = IF runs[k].stage = "implement" THEN "follow" ELSE "read"])
              ELSE /\ Become(w, [worker[w] EXCEPT !.pc = "failing"])
                   /\ UNCHANGED <<jobs, versions>>
        /\ UNCHANGED Untouched

WorkFails(w) ==
    /\ worker[w].pc = "working"
    /\ Become(w, [worker[w] EXCEPT !.pc = "failing"])
    /\ UNCHANGED <<versions, jobs, Untouched>>

(* After Implement the worker tries to schedule Verify; an error is left   *)
(* to the coordinator.                                                     *)
FollowUp(w) ==
    /\ worker[w].pc = "follow"
    /\ Advance("implement", "verify") \/ UNCHANGED <<versions, runs, jobs>>
    /\ Become(w, Idle)
    /\ UNCHANGED <<reaper, client, crashes>>

(* Mutant of FailStage: the stage commits without its job.                 *)
FailStageAlone(w) ==
    LET k == worker[w].run
    IN  /\ worker[w].pc = "failing"
        /\ IF Mine(w, {"running"}) /\ OwnsRunning(k)
           THEN Close("failed") /\ UNCHANGED jobs /\ Become(w, Idle)
           ELSE UNCHANGED <<jobs, versions>> /\ Interrupted(w, FALSE)
        /\ UNCHANGED Untouched

(* complete(failed); a failed Verify may be due to a stale environment.    *)
FailStage(w) ==
    LET k == worker[w].run
    IN  /\ worker[w].pc = "failing"
        /\ IF Mine(w, {"running"}) /\ OwnsRunning(k)
           THEN /\ WriteJob(k, Closed(jobs[k], "failed"))
                /\ \E stale \in {FALSE, Current.stage = "verify"} :
                      Extend([Version(Current.stage, "failed") EXCEPT !.stale = stale])
                /\ Become(w, Idle)
           ELSE UNCHANGED <<jobs, versions>> /\ Interrupted(w, FALSE)
        /\ UNCHANGED Untouched

(* The heartbeat task, and asyncio.timeout around the whole run.           *)
Running(w) == worker[w].pc \in {"granted", "working"}

Heartbeat(w) ==
    LET k == worker[w].run
    IN  /\ Running(w)
        /\ \E age \in 0 .. MaxAge :
              IF ~jobs[k].cancel_requested /\ Mine(w, Active) /\ Live(jobs[k], age)
              THEN WriteJob(k, Extended(jobs[k], age)) /\ UNCHANGED worker
              ELSE UNCHANGED jobs /\ Interrupted(w, FALSE)
        /\ UNCHANGED <<versions, Untouched>>

TimeOut(w) ==
    /\ Running(w)
    /\ Interrupted(w, TRUE)
    /\ UNCHANGED <<versions, jobs, Untouched>>

(* The except clause of run_once, once expired runs are reconciled.        *)
Settle(w) ==
    LET k   == worker[w].run
        row == jobs[k]
        outcome == IF row.cancel_requested THEN "cancelled"
                   ELSE IF worker[w].timeout THEN "timed_out" ELSE "failed"
    IN  /\ worker[w].pc = "settle"
        /\ \/ /\ ~Mine(w, Active)
              /\ Become(w, Idle) /\ UNCHANGED <<jobs, versions>>
           \/ /\ Mine(w, {"leased"})
              /\ WriteJob(k, Closed(row, "failed")) /\ UNCHANGED versions
              /\ Become(w, [worker[w] EXCEPT !.pc = "read", !.phase = "after"])
           \/ /\ Mine(w, {"running"}) /\ OwnsRunning(k)
              /\ WriteJob(k, Closed(row, outcome)) /\ Close(outcome)
              /\ Become(w, Idle)
           \/ /\ Mine(w, {"running"}) /\ ~OwnsRunning(k)
              /\ Become(w, Down) /\ UNCHANGED <<jobs, versions>>
        /\ UNCHANGED Untouched

-----------------------------------------------------------------------------
Crash(w) ==
    /\ worker[w].pc # "down" /\ crashes < MaxCrashes
    /\ crashes' = crashes + 1
    /\ Become(w, Down)
    /\ UNCHANGED <<versions, runs, jobs, reaper, client>>

Restart(w) ==
    /\ worker[w].pc = "down"
    /\ Become(w, Idle)
    /\ UNCHANGED <<versions, jobs, Untouched>>

Tick ==
    /\ jobs' = [k \in RunIds |-> Aged(jobs[k])]
    /\ UNCHANGED <<versions, runs, Others>>

Protocol(w) ==
    \/ ReadExpired(w) \/ RecoverExpired(w) \/ ReadStranded(w)
    \/ Reconcile(w) \/ Reconciled(w) \/ ClaimJob(w) \/ Begin(w)
    \/ Succeed(w) \/ WorkFails(w) \/ FollowUp(w) \/ FailStage(w) \/ Settle(w)

Coordinator ==
    \/ ScheduleCurrent \/ AcceptChangeSet \/ ScheduleVerification
    \/ RestoreVerification \/ \E k \in RunIds : PrepareRetry(k)

Request ==
    \E c \in Clients :
        \/ \E k \in RunIds : ReadForCancel(c, k) \/ ReadForRetry(c, k)
        \/ CancelJob(c) \/ CancelRun(c) \/ RetryJob(c)

Next ==
    \/ Coordinator
    \/ Request
    \/ \E r \in Reapers : ReapRead(r) \/ ReapWrite(r)
    \/ \E w \in Workers :
          Protocol(w) \/ Heartbeat(w) \/ TimeOut(w) \/ Crash(w) \/ Restart(w)
    \/ Tick

Spec == Init /\ [][Next]_vars

(* A sandbox worker keeps polling and is restarted when it dies; time      *)
(* passes.  Nothing is asked of requests, of the coordinator, of other     *)
(* processes or of the heartbeat; a wedged container is ended by TimeOut.  *)
Fairness ==
    /\ \A w \in Workers : WF_vars(Protocol(w)) /\ WF_vars(Restart(w))
    /\ WF_vars(Tick)

FairSpec == Spec /\ Fairness
-----------------------------------------------------------------------------
(* Properties.                                                             *)

VersionRow == [stage : Stages, status : {"pending", "running"} \cup Settled,
               stale : BOOLEAN]
RunRow     == [stage : Stages, pending : Nat \ {0}, number : 1 .. MaxStageRuns]
KnownRow   == [run : Nat, state : Failing \cup {"queued"}]
WorkerState ==
    [ pc : {"read", "recover", "strand", "reconcile", "claim", "granted",
            "working", "failing", "follow", "settle", "down"},
      phase : {"poll", "lease", "settle", "after"}, run : Nat,
      known : SUBSET KnownRow, timeout : BOOLEAN ]
RequestState ==
    [op : {"none", "cancel_job", "cancel_run", "retry_job"}, run : Nat, flag : BOOLEAN]

(* Types, and the bindings the schema keeps: a job for every run, a        *)
(* pending version of the run's stage for every run, no version shared.    *)
TypeOK ==
    /\ versions \in Seq(VersionRow) /\ versions # <<>>
    /\ runs \in Seq(RunRow)
    /\ jobs \in Seq(JobRow) /\ Len(jobs) = Len(runs)
    /\ \A k \in RunIds :
          /\ runs[k].pending \in DOMAIN versions
          /\ versions[runs[k].pending] = Version(runs[k].stage, "pending")
          /\ \A i \in RunIds \ {k} : runs[i].pending # runs[k].pending
    /\ worker \in [Workers -> WorkerState]
    /\ reaper \in [Reapers -> SUBSET KnownRow]
    /\ client \in [Clients -> RequestState]
    /\ crashes \in 0 .. MaxCrashes

(* A job put back in the queue after its only attempt: no worker can lease *)
(* it again, ck_job_attempts refuses the claim.                            *)
Spent(k) == jobs[k].state = "queued" /\ jobs[k].attempt_count = MaxAttempts

(* The chain and the jobs disagree only in ways that reconciliation closes *)
(* or that stop the job for good: a running version is owned by a run      *)
(* whose job is running, has failed or is spent; a pending one is never    *)
(* owned by a job that runs or succeeded; and a job is active only for an  *)
(* open version of its own or for a stage that was cancelled under it      *)
(* (begin, complete, _reconcile_terminal).                                 *)
ChainMatchesJobs ==
    /\ Current.status = "running" =>
          \E k \in RunIds : /\ OwnsRunning(k)
                            /\ jobs[k].state \in {"running"} \cup Failing \/ Spent(k)
    /\ \A k \in RunIds :
          /\ OwnsPending(k) => jobs[k].state \notin {"running", "succeeded"}
          /\ jobs[k].state \in Active =>
                \/ OwnsCurrent(k)
                \/ Current.status = "cancelled" /\ Current.stage = runs[k].stage

(* A job runs only under the running version its own run appended: both    *)
(* start, and both end, in one transaction (begin, complete).  It rests on *)
(* there being one sandbox worker.                                         *)
RunningTogether ==
    \A k \in RunIds : jobs[k].state = "running" => OwnsRunning(k)

(* An open version is closed only on behalf of the run it is bound to: as  *)
(* succeeded by the worker that holds the run's job, over a live lease,    *)
(* with no cancellation requested, the job succeeding with it; otherwise   *)
(* together with the job, or after a worker found that the job had failed  *)
(* (complete, request_cancel, _reconcile_terminal).                        *)
ClosedByOwner ==
    [][Current.status \in {"pending", "running"} /\ Len(versions') > Len(versions)
         /\ versions'[Len(versions) + 1].status \in Settled =>
         \E k \in RunIds :
             /\ OwnsCurrent(k)
             /\ IF versions'[Len(versions) + 1].status = "succeeded"
                THEN \E w \in Workers :
                        /\ jobs[k].lease_owner = w /\ jobs[k].lease_expires_at > -MaxAge
                        /\ worker[w].pc = "working" /\ worker[w].run = k
                        /\ ~jobs[k].cancel_requested /\ jobs'[k].state = "succeeded"
                ELSE \/ jobs'[k].state \in Failing
                     \/ \E w \in Workers : \E x \in worker[w].known : x.run = k]_vars

(* A running stage always comes to an end, since its worker settles it or  *)
(* the lease expires and a later poll closes it, and no stage stays open   *)
(* behind a job that failed or was cancelled unless a retry revives the    *)
(* job first (reconcile_expired).                                          *)
StagesSettle == []<>(Current.status # "running" /\ Stranded = {})

(* The chain implements the ledger of stages: whatever the workers and     *)
(* requests do, a run is started and closed once, runs stay within the     *)
(* budget, and stages follow each other only as they may.                  *)
Ledger == INSTANCE StageLedger WITH
    stage  <- Current.stage,
    status <- Current.status,
    bound  <- \E k \in RunIds : OwnsPending(k),
    used   <- [s \in Stages |-> Cardinality(RunsOf(s))]
LedgerSpec == Ledger!Spec

(* Cancelling a queued job cancels its stage in the same commit.           *)
QueuedCancelIsAtomic ==
    [][\A k \in RunIds :
          jobs[k].state = "queued" /\ jobs'[k].state = "cancelled"
             => versions'[Len(versions')].status = "cancelled"]_vars
=============================================================================

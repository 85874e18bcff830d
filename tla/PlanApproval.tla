--------------------------- MODULE PlanApproval ---------------------------
(***************************************************************************)
(* From a plan to a running execution attempt.  A plan version is bound to *)
(* the planning state it was written in; a lock freezes the latest plan    *)
(* and a base commit (app/plan_locks.py); an approval appends the state    *)
(* plan_approved (app/approvals.py); an attempt appends executing          *)
(* (app/executions.py).  The user may do the three by the API, or confirm  *)
(* the plan once and leave them to a start job, which commits each one by  *)
(* itself (app/contribution_workflow.py).  A request to stop is an event   *)
(* the coordinator acts upon on its next tick.                             *)
(*                                                                         *)
(* A state version is appended under a unique sequence, so a transition    *)
(* whose reader was overtaken fails; a plan is read, checked and inserted  *)
(* without such a fence.                                                   *)
(***************************************************************************)
EXTENDS Naturals, Sequences

CONSTANTS
    MaxPlans,       \* bound: plan versions
    MaxHeads,       \* bound: commits pushed upstream
    MaxStates,      \* bound: state versions of the task
    MaxEvents,      \* bound: authorizations, stops and starts in the journal
    MaxStartRuns    \* max_attempts of a start job

ASSUME PlanAssumption ==
    /\ MaxPlans \in Nat \ {0} /\ MaxHeads \in Nat /\ MaxStates \in Nat \ {0}
    /\ MaxEvents \in Nat /\ MaxStartRuns \in Nat \ {0}

Plans == 1..MaxPlans
Heads == 0..MaxHeads

VARIABLES
    taskStates,   \* states of the task, oldest first
    planRows,     \* plan versions: the state they are bound to, their base commit
    planLock,     \* plan locks: the state and the base commit of each
    approvals,    \* by plan, the state version its approval appended; 0 for none
    attempts,     \* execution attempts: plan and executing state
    journal,      \* execution_authorized, stop_requested, automation_started
    startJob,     \* the start job of the latest authorization
    starter,      \* how far the worker that runs it has come
    author,       \* a revision that is being inserted, and the state it has read
    locker,       \* a lock that is being inserted, and the plan it has read
    head          \* the head of the upstream branch

planVars == <<taskStates, planRows, planLock, approvals, attempts, journal, startJob,
              starter, author, locker, head>>
jobVars == <<journal, startJob, starter>>

NoStart == [plan |-> 0, state |-> "none", runs |-> 0, cancel |-> FALSE, at |-> 0]
NoLock  == [state |-> 0, base |-> 0]
NoLocker == [plan |-> 0, state |-> 0, base |-> 0]
NoAuthor == NoLocker

PlanInit ==
    /\ taskStates = <<"planning">> /\ planRows = <<>>
    /\ planLock = [p \in Plans |-> NoLock] /\ approvals = [p \in Plans |-> 0]
    /\ attempts = <<>> /\ journal = <<>>
    /\ startJob = NoStart /\ starter = "idle"
    /\ author = NoAuthor /\ locker = NoLocker
    /\ head = 0

Now        == Len(taskStates)
InState(s) == taskStates[Now] = s
LatestPlan == Len(planRows)
StartBusy  == startJob.state \in {"queued", "running"}

(* The state versions are a chain: only the latest is extended.            *)
Extend(s) == Now < MaxStates /\ taskStates' = Append(taskStates, s)

Log(kind) == Len(journal) < MaxEvents /\ journal' = Append(journal, kind)

-----------------------------------------------------------------------------
(* Plans.  Reads come before the insert, and the insert only requires that *)
(* the version number is still free.                                       *)
ReadForRevision ==
    /\ author = NoAuthor /\ InState("planning") /\ LatestPlan < MaxPlans
    /\ author' = [plan |-> LatestPlan + 1, state |-> Now, base |-> head]
    /\ UNCHANGED <<taskStates, planRows, planLock, approvals, attempts, jobVars, locker, head>>

InsertRevision ==
    /\ author # NoAuthor
    /\ planRows' = IF author.plan = LatestPlan + 1
                   THEN Append(planRows, [state |-> author.state, base |-> author.base])
                   ELSE planRows
    /\ author' = NoAuthor
    /\ UNCHANGED <<taskStates, planLock, approvals, attempts, jobVars, locker, head>>

(* PlanLockService.create: one lock for each plan.  "old" is the base of   *)
(* the lock that is there already.                                         *)
Lockable(p) == /\ InState("planning") /\ p = LatestPlan /\ planRows[p].state = Now

ReadForLock(p, base) ==
    /\ locker = NoLocker /\ p \in 1..LatestPlan
    /\ planLock[p] = NoLock /\ Lockable(p)
    /\ locker' = [plan |-> p, state |-> Now, base |-> base]
    /\ UNCHANGED <<taskStates, planRows, planLock, approvals, attempts, jobVars, author, head>>

InsertLock ==
    /\ locker # NoLocker
    /\ planLock' = IF planLock[locker.plan] = NoLock
                   THEN [planLock EXCEPT ![locker.plan] =
                            [state |-> locker.state, base |-> locker.base]]
                   ELSE planLock
    /\ locker' = NoLocker
    /\ UNCHANGED <<taskStates, planRows, approvals, attempts, jobVars, author, head>>

Approvable(p) ==
    /\ planLock[p] # NoLock /\ approvals[p] = 0
    /\ Now = planLock[p].state /\ InState("planning")
Approval(p) ==
    /\ Approvable(p)
    /\ Extend("plan_approved")
    /\ approvals' = [approvals EXCEPT ![p] = Now + 1]

ApprovePlan(p) ==
    /\ Approval(p)
    /\ UNCHANGED <<planRows, planLock, attempts, jobVars, author, locker, head>>

(* ExecutionReadinessService.assert_ready and ExecutionAttemptService.start *)
(* Mutant of Approved: the state is plan_approved, whichever plan it is of. *)
ApprovedOnce(p) == approvals[p] # 0 /\ InState("plan_approved")
Approved(p) == approvals[p] = Now /\ InState("plan_approved")
Started(p, by) ==
    /\ Approved(p)
    /\ Extend("executing")
    /\ attempts' = Append(attempts, [plan |-> p, state |-> Now + 1, by |-> by])

StartExecution(p) ==
    /\ Started(p, "api")
    /\ UNCHANGED <<planRows, planLock, approvals, jobVars, author, locker, head>>

(* A start with another base commit, or a readiness check that finds a     *)
(* newer plan, revokes the approval.                                       *)
RevokeIfStale(p, base) ==
    /\ Approved(p)
    /\ base # planLock[p].base \/ p # LatestPlan
    /\ Extend("planning")
    /\ UNCHANGED <<planRows, planLock, approvals, attempts, jobVars, author, locker, head>>

-----------------------------------------------------------------------------
(* The user confirms the plan once.                                        *)
AuthorizeExecution ==
    /\ ~StartBusy /\ InState("planning") /\ LatestPlan > 0
    /\ planRows[LatestPlan].state = Now
    /\ Log("authorized")
    /\ startJob' = [plan |-> LatestPlan, state |-> "queued", runs |-> 0, cancel |-> FALSE,
                    at |-> Len(journal) + 1]
    /\ UNCHANGED <<taskStates, planRows, planLock, approvals, attempts, starter, author,
                   locker, head>>

LeaseStart ==
    /\ startJob.state = "queued" /\ ~startJob.cancel
    /\ startJob.runs < MaxStartRuns /\ starter = "idle"
    /\ startJob' = [startJob EXCEPT !.state = "running", !.runs = @ + 1]
    /\ starter' = "read"
    /\ UNCHANGED <<taskStates, planRows, planLock, approvals, attempts, journal, author,
                   locker, head>>

WorkerIs(step) == starter = step
Continue(step) == starter' = step
StopAfter(n)   == \E i \in n + 1..Len(journal) : journal[i] = "stop"

ReadAuthorization ==
    /\ WorkerIs("read") /\ startJob.plan = LatestPlan
    /\ Continue("fetch")
    /\ UNCHANGED <<taskStates, planRows, planLock, approvals, attempts, journal, startJob,
                   author, locker, head>>

(* await resolve_repository_head                                           *)
FetchHead ==
    /\ WorkerIs("fetch") /\ head = planRows[startJob.plan].base
    /\ Continue("check")
    /\ UNCHANGED <<taskStates, planRows, planLock, approvals, attempts, journal, startJob,
                   author, locker, head>>

(* After the await: the job is still ours and nobody has asked to stop.    *)
CheckStop ==
    /\ WorkerIs("check") /\ startJob.state = "running"
    /\ ~startJob.cancel /\ ~StopAfter(startJob.at)
    /\ Continue("lock")
    /\ UNCHANGED <<taskStates, planRows, planLock, approvals, attempts, journal, startJob,
                   author, locker, head>>

AutoLock ==
    /\ WorkerIs("lock")
    /\ LET p == startJob.plan
           base == planRows[p].base
       IN  IF planLock[p] = NoLock
           THEN Lockable(p) /\ planLock' = [planLock EXCEPT ![p] = [state |-> Now, base |-> base]]
           ELSE planLock[p].base = base /\ planLock' = planLock
    /\ Continue("approve")
    /\ UNCHANGED <<taskStates, planRows, approvals, attempts, journal, startJob, author,
                   locker, head>>

AutoApprove ==
    /\ WorkerIs("approve")
    /\ IF approvals[startJob.plan] = 0 THEN Approval(startJob.plan)
                                       ELSE UNCHANGED <<taskStates, approvals>>
    /\ Continue("start")
    /\ UNCHANGED <<planRows, planLock, attempts, journal, startJob, author, locker, head>>

(* start is replayed by its key only, so an attempt the API has started    *)
(* for the same approval makes this one fail.                              *)
AutoStarted == \E i \in DOMAIN attempts : attempts[i].plan = startJob.plan /\ attempts[i].by = "job"
AutoStart ==
    /\ WorkerIs("start")
    /\ IF AutoStarted THEN UNCHANGED <<taskStates, attempts>> ELSE Started(startJob.plan, "job")
    /\ Continue("announce")
    /\ UNCHANGED <<planRows, planLock, approvals, journal, startJob, author, locker, head>>

(* automation_started, then the first stage is scheduled.                  *)
Announce ==
    /\ WorkerIs("announce")
    /\ Log("started")
    /\ startJob' = IF startJob.cancel THEN [startJob EXCEPT !.state = "cancelled"]
                   ELSE [startJob EXCEPT !.state = "succeeded"]
    /\ Continue("idle")
    /\ UNCHANGED <<taskStates, planRows, planLock, approvals, attempts, author, locker, head>>

(* A check that fails, an exception, or a heartbeat that finds the request *)
(* to cancel.                                                              *)
FailStart ==
    /\ starter # "idle"
    /\ startJob' = [startJob EXCEPT !.state = IF startJob.cancel THEN "cancelled" ELSE "failed"]
    /\ Continue("idle")
    /\ UNCHANGED <<taskStates, planRows, planLock, approvals, attempts, journal, author,
                   locker, head>>

(* The process dies between two commits; the reaper requeues the job or    *)
(* closes it.                                                              *)
LoseStart ==
    /\ starter # "idle"
    /\ startJob' = [startJob EXCEPT !.state =
                       CASE startJob.cancel -> "cancelled"
                         [] startJob.runs < MaxStartRuns -> "queued"
                         [] OTHER -> "timed_out"]
    /\ Continue("idle")
    /\ UNCHANGED <<taskStates, planRows, planLock, approvals, attempts, journal, author,
                   locker, head>>

RetryStart ==
    /\ startJob.state \in {"failed", "cancelled", "timed_out"} /\ starter = "idle"
    /\ startJob.runs < MaxStartRuns
    /\ startJob' = [startJob EXCEPT !.state = "queued", !.cancel = FALSE]
    /\ UNCHANGED <<taskStates, planRows, planLock, approvals, attempts, journal, starter,
                   author, locker, head>>

-----------------------------------------------------------------------------
(* stop_workflow: the request and the cancellations are one commit.        *)
StopAuthorized ==
    /\ Log("stop")
    /\ startJob' = CASE startJob.state = "queued"  -> [startJob EXCEPT !.state = "cancelled"]
                     [] startJob.state = "running" -> [startJob EXCEPT !.cancel = TRUE]
                     [] OTHER -> startJob
    /\ UNCHANGED <<taskStates, planRows, planLock, approvals, attempts, starter, author,
                   locker, head>>

LastOf(kind) == IF \E i \in DOMAIN journal : journal[i] = kind
                THEN CHOOSE i \in DOMAIN journal :
                        journal[i] = kind /\ \A k \in i+1..Len(journal) : journal[k] # kind
                ELSE 0
StopPending == LastOf("stop") > LastOf("authorized") /\ LastOf("stop") > LastOf("started")

(* _advance: a stop later than the last authorization and the last start   *)
(* returns the task to planning once the cancelled jobs have ended.        *)
AdvanceStop ==
    /\ StopPending
    /\ ~StartBusy
    /\ ~InState("planning")
    /\ Extend("planning")
    /\ UNCHANGED <<planRows, planLock, approvals, attempts, jobVars, author, locker, head>>

Push ==
    /\ head < MaxHeads
    /\ head' = head + 1
    /\ UNCHANGED <<taskStates, planRows, planLock, approvals, attempts, jobVars, author, locker>>

PlanNext ==
    \/ ReadForRevision \/ InsertRevision \/ InsertLock
    \/ \E p \in Plans : \/ ApprovePlan(p) \/ StartExecution(p)
                        \/ \E base \in Heads : ReadForLock(p, base) \/ RevokeIfStale(p, base)
    \/ AuthorizeExecution \/ LeaseStart \/ ReadAuthorization \/ FetchHead \/ CheckStop
    \/ AutoLock \/ AutoApprove \/ AutoStart \/ Announce \/ FailStart \/ LoseStart \/ RetryStart
    \/ StopAuthorized \/ AdvanceStop \/ Push

PlanSpec == PlanInit /\ [][PlanNext]_planVars

-----------------------------------------------------------------------------

(* Every attempt runs a plan that was approved in the state just before    *)
(* its own: an approval that was revoked, or used once, starts nothing,    *)
(* whatever is retried after a crash.                                      *)
AttemptIsApproved ==
    \A i \in DOMAIN attempts :
        /\ attempts[i].state = approvals[attempts[i].plan] + 1
        /\ taskStates[attempts[i].state] = "executing"
        /\ \A k \in DOMAIN attempts : attempts[k].plan = attempts[i].plan => k = i

=============================================================================

-------------------------- MODULE AutomationLoop --------------------------
(***************************************************************************)
(* The coordinator that carries an authorized plan through its execution   *)
(* attempts (app/contribution_workflow.py).  On every tick it reads the    *)
(* journal, the latest attempt and its jobs, and does one thing: it asks   *)
(* for the next subtask, records that it is blocked, asks for a review,    *)
(* starts a repair, hands the result to the user, or, after a request to   *)
(* stop, returns the task to planning.  What it does is committed after    *)
(* what it has read, while workers finish jobs and the user stops,         *)
(* resumes, reviews by the API (app/reviews.py) and accepts                *)
(* (app/execution_acceptance.py).                                          *)
(*                                                                         *)
(* An attempt goes through its subtasks one by one; what each of them does *)
(* is left out.  Approving a plan and starting its first attempt is one    *)
(* step here: PlanApproval has its details.                                *)
(***************************************************************************)
EXTENDS Naturals, Sequences, FiniteSets

CONSTANTS
    MaxRuns,       \* max_attempts of a subtask's job
    MaxRepairs,    \* repairs the coordinator starts after the first attempt
    MaxApproved,   \* MAX_EXECUTION_ATTEMPTS: attempts of one approval
    MaxStarts,     \* bound: attempts after which no further plan is started
    MaxLog         \* bound: events in the journal

ASSUME AutomationAssumption ==
    /\ {MaxRuns, MaxApproved, MaxStarts, MaxLog} \subseteq Nat \ {0}
    /\ MaxRepairs \in Nat

(* "explore" also prepares the workspace and the context, "verify" also    *)
(* applies the accepted proposal.                                          *)
Subtasks == <<"explore", "proposal", "verify", "review">>
ModelSubtasks == {"proposal", "review"}
VerifyDone == 3

VARIABLES
    phase,      \* state of the task
    works,      \* attempts: plan, subtask, its job and its review
    log,        \* stop_requested, automation_started, _blocked, _resumed, ...
    tick,       \* what the coordinator has decided to do, and on which reading
    late        \* subtasks asked for since the last stop

autoVars == <<phase, works, log, tick, late>>

NewJob == [state |-> "queued", runs |-> 0, cancel |-> FALSE]
NoTick == [do |-> "nothing", work |-> 0, phase |-> "none"]

NewWork(plan) == [plan |-> plan, sub |-> 1, job |-> NewJob, review |-> "none"]

AutoInit ==
    /\ phase = "planning" /\ works = <<>> /\ log = <<>>
    /\ tick = NoTick /\ late = 0

Ongoing(job)    == job.state \in {"queued", "running"}
CurrentWork     == Len(works)
Here            == works[CurrentWork]
AnyOngoing      == \E i \in DOMAIN works : Ongoing(works[i].job)
LastEvent(kind) ==
    LET at == {i \in DOMAIN log : log[i].kind = kind}
    IN  IF at = {} THEN 0 ELSE CHOOSE i \in at : \A k \in at : k <= i
PlansStarted    == Cardinality({i \in DOMAIN log : log[i].kind = "started"})

Event(kind, jobs) == [kind |-> kind, jobs |-> jobs]
RecordEvent(kind, jobs) == log' = Append(log, Event(kind, jobs))
UserMay == Len(log) < MaxLog

Stopped  == LastEvent("stop") > LastEvent("started")
Awaiting == LastEvent("awaiting") > LastEvent("started")
Epoch    == IF LastEvent("resumed") > LastEvent("started") THEN LastEvent("resumed")
                                                           ELSE LastEvent("started")
Blocked  == ~Stopped /\ LastEvent("blocked") > Epoch

SetJob(i, job) == works' = [works EXCEPT ![i].job = job]

-----------------------------------------------------------------------------
(* A plan is approved, locked and started; a former stop ends here.        *)
StartPlan ==
    /\ tick = NoTick
    /\ phase = "planning" /\ ~AnyOngoing /\ CurrentWork < MaxStarts
    /\ RecordEvent("started", {})
    /\ works' = Append(works, NewWork(PlansStarted + 1))
    /\ phase' = "executing"
    /\ late' = 0
    /\ UNCHANGED tick

(* What a tick does, given what it reads.                                  *)
FirstWork == CHOOSE i \in DOMAIN works :
                works[i].plan = Here.plan /\ \A k \in 1..i - 1 : works[k].plan # Here.plan
(* Mutant of RepairsUsed: the attempt that is being repaired is the last.  *)
RepairsBefore == IF CurrentWork = FirstWork THEN 0 ELSE CurrentWork - FirstWork - 1
RepairsUsed == CurrentWork - FirstWork

InScope(i) == <<i, works[i].sub>> \in log[LastEvent("stop")].jobs

Decision ==
    CASE Stopped ->
            IF \/ \E i \in DOMAIN works : InScope(i) /\ Ongoing(works[i].job)
               \/ phase = "planning"
            THEN "nothing" ELSE "replan"
      [] ~Stopped /\ (Awaiting \/ Blocked \/ Ongoing(Here.job)) -> "nothing"
      [] OTHER ->
            CASE Here.job.state \in {"failed", "cancelled"}       -> "block"
              [] Here.sub < VerifyDone                            -> "next"
              [] Here.sub >= VerifyDone /\ Here.review = "none"   -> "next"
              [] Here.review = "pass"                             -> "await"
              [] Here.review = "block" /\ RepairsUsed >= MaxRepairs -> "block"
              [] OTHER                                            -> "repair"

(* Mutant of ReadTick: a stop is only seen by a task that has started      *)
(* nothing since.                                                          *)
ReadTickOnce ==
    /\ tick = NoTick /\ LastEvent("started") > 0
    /\ Decision # "nothing" \/ (Stopped /\ ~Ongoing(Here.job) /\ Here.sub < VerifyDone)
    /\ tick' = [do |-> IF Stopped /\ Here.sub < VerifyDone THEN "next" ELSE Decision,
                work |-> CurrentWork, phase |-> phase]
    /\ UNCHANGED <<phase, works, log, late>>
ReadTick ==
    /\ tick = NoTick /\ LastEvent("started") > 0
    /\ Decision # "nothing"
    /\ tick' = [do |-> Decision, work |-> CurrentWork, phase |-> phase]
    /\ UNCHANGED <<phase, works, log, late>>

(* advance_workflows: whatever is raised becomes one durable blocker for   *)
(* each start or resumption.                                               *)
(* Mutant of BlockOnce: the error is only logged.                          *)
BlockNever == UNCHANGED log
BlockOnce ==
    IF LastEvent("blocked") > Epoch THEN UNCHANGED log ELSE RecordEvent("blocked", {})

(* The next subtask is queued under a key of its own.  Only the review     *)
(* reads the task's state again.                                           *)
NextSubtask ==
    LET w == works[tick.work]
        k == IF w.sub >= VerifyDone THEN Len(Subtasks) ELSE w.sub + 1
    IN  IF Subtasks[k] = "review" /\ phase # "executing"
        THEN BlockOnce /\ UNCHANGED works
        ELSE /\ works' = IF w.sub = k THEN works
                         ELSE [works EXCEPT ![tick.work].sub = k, ![tick.work].job = NewJob]
             /\ UNCHANGED log

(* start_repair: from the latest attempt, in the state reviewing.          *)
ApprovedWorks(plan) == Cardinality({i \in DOMAIN works : works[i].plan = plan})
StartRepair ==
    IF /\ tick.work = CurrentWork /\ phase = "reviewing"
       /\ ApprovedWorks(Here.plan) < MaxApproved
    THEN works' = Append(works, NewWork(Here.plan)) /\ phase' = "executing" /\ UNCHANGED log
    ELSE BlockOnce /\ UNCHANGED <<phase, works>>

(* _advance after a stop: the state is compared and set.                   *)
ReturnToPlanning ==
    IF phase = tick.phase
    THEN phase' = "planning" /\ UNCHANGED log
    ELSE BlockOnce /\ UNCHANGED phase

CommitTick ==
    /\ tick # NoTick
    /\ \/ tick.do = "next"   /\ NextSubtask /\ UNCHANGED phase
       \/ tick.do = "block"  /\ BlockOnce /\ UNCHANGED <<phase, works>>
       \/ tick.do = "await"  /\ RecordEvent("awaiting", {}) /\ UNCHANGED <<phase, works>>
       \/ tick.do = "repair" /\ StartRepair
       \/ tick.do = "replan" /\ ReturnToPlanning /\ UNCHANGED works
    /\ late' = IF Stopped /\ works' # works THEN late + 1 ELSE late
    /\ tick' = NoTick

-----------------------------------------------------------------------------
(* Jobs of the workers.                                                    *)
RunSubtask(i) ==
    /\ works[i].job.state = "queued" /\ works[i].job.runs < MaxRuns
    /\ SetJob(i, [works[i].job EXCEPT !.state = "running", !.runs = @ + 1])
    /\ UNCHANGED <<phase, log, tick, late>>

(* ReviewRunService.create: an attempt is reviewed once, while its task    *)
(* executes.  Whether it is the latest attempt is not asked.               *)
Reviewable(i) == works[i].sub >= VerifyDone /\ works[i].review = "none" /\ phase = "executing"
Reviewed(i, verdict) == phase' = IF verdict = "pass" THEN "ready" ELSE "reviewing"

SubtaskSucceeds(i) ==
    /\ works[i].job.state = "running" /\ ~works[i].job.cancel
    /\ LET finished == [works[i].job EXCEPT !.state = "done"]
       IN  IF Subtasks[works[i].sub] = "review" /\ works[i].review = "none"
           THEN /\ Reviewable(i)
                /\ \E verdict \in {"pass", "block"} :
                      /\ Reviewed(i, verdict)
                      /\ works' = [works EXCEPT ![i].review = verdict, ![i].job = finished]
           ELSE SetJob(i, finished) /\ UNCHANGED phase
    /\ UNCHANGED <<log, tick, late>>

SubtaskFails(i) ==
    /\ works[i].job.state = "running"
    /\ SetJob(i, [works[i].job EXCEPT !.state = IF works[i].job.cancel THEN "cancelled"
                                                                      ELSE "failed"])
    /\ UNCHANGED <<phase, log, tick, late>>

SubtaskIsLost(i) ==
    /\ works[i].job.state = "running"
    /\ SetJob(i, [works[i].job EXCEPT !.state =
                     CASE works[i].job.cancel -> "cancelled"
                       [] ~works[i].job.cancel /\ works[i].job.runs < MaxRuns -> "queued"
                       [] OTHER -> "failed"])
    /\ UNCHANGED <<phase, log, tick, late>>

-----------------------------------------------------------------------------
(* The user.  stop_workflow freezes the jobs it cancels in one commit.     *)
RequestStop ==
    /\ UserMay
    /\ LastEvent("started") > 0
    /\ RecordEvent("stop", {<<i, works[i].sub>> : i \in {j \in DOMAIN works : Ongoing(works[j].job)}})
    /\ works' = [i \in DOMAIN works |->
                    [works[i] EXCEPT !.job.state = IF @ = "queued" THEN "cancelled" ELSE @,
                                     !.job.cancel = @ \/ works[i].job.state = "running"]]
    /\ late' = 0
    /\ UNCHANGED <<phase, tick>>

(* retry_execution_job: only the latest attempt's model subtask, in the    *)
(* epoch of the current start.  Without a blocker the job is retried and   *)
(* nothing is recorded.                                                    *)
Resume ==
    /\ UserMay
    /\ LastEvent("started") > 0 /\ ~Stopped /\ ~Awaiting
    /\ Subtasks[Here.sub] \in ModelSubtasks
    /\ Here.job.runs < MaxRuns
    /\ IF Blocked THEN Here.job.state = "failed" /\ RecordEvent("resumed", {})
                  ELSE Here.job.state \in {"failed", "cancelled"} /\ UNCHANGED log
    /\ SetJob(CurrentWork, [Here.job EXCEPT !.state = "queued", !.cancel = FALSE])
    /\ UNCHANGED <<phase, tick, late>>

(* POST /executions/{id}/reviews takes any attempt.                        *)
ReviewByHand(i, verdict) ==
    /\ Reviewable(i) /\ ~(works[i].sub = VerifyDone /\ works[i].job.state # "done")
    /\ Reviewed(i, verdict)
    /\ works' = [works EXCEPT ![i].review = verdict]
    /\ UNCHANGED <<log, tick, late>>

Acceptable == phase = "ready" /\ CurrentWork > 0 /\ Here.review = "pass"
Accept ==
    /\ Acceptable /\ ~AnyOngoing /\ ~Blocked
    /\ LastEvent("accepted") < LastEvent("started")
    /\ RecordEvent("accepted", {<<CurrentWork, 0>>})
    /\ UNCHANGED <<phase, works, tick, late>>

AutoNext ==
    \/ StartPlan \/ ReadTick \/ CommitTick \/ RequestStop \/ Resume \/ Accept
    \/ \E i \in DOMAIN works :
          \/ RunSubtask(i) \/ SubtaskSucceeds(i) \/ SubtaskFails(i) \/ SubtaskIsLost(i)
          \/ \E verdict \in {"pass", "block"} : ReviewByHand(i, verdict)

AutoSpec == AutoInit /\ [][AutoNext]_autoVars

-----------------------------------------------------------------------------
RunSome    == \E i \in DOMAIN works : RunSubtask(i)
FinishSome == \E i \in DOMAIN works : SubtaskSucceeds(i) \/ SubtaskFails(i)

AutoFairness ==
    /\ WF_autoVars(ReadTick) /\ WF_autoVars(CommitTick)
    /\ WF_autoVars(RunSome) /\ WF_autoVars(FinishSome)

AutoFairSpec == AutoSpec /\ AutoFairness

-----------------------------------------------------------------------------
(* A repair follows a blocking review of the attempt it repairs, whoever   *)
(* wrote the review and whatever is stopped, resumed or started meanwhile, *)
(* and one approval never pays for more than its repairs.                  *)
RepairsAreEarned ==
    \A i \in DOMAIN works :
        /\ i > 1 /\ works[i].plan = works[i - 1].plan => works[i - 1].review = "block"
        /\ ApprovedWorks(works[i].plan) <= MaxRepairs + 1

(* Once the user has asked to stop, at most one subtask is still asked     *)
(* for, the one the coordinator had already decided upon: a stop ends the  *)
(* automation even when it overtakes a tick.                               *)
LateWorkIsBounded == Stopped => late <= 1

(* Everything the automation asks for was earned by a review and not       *)
(* stopped.                                                                *)
WorkIsEarned == RepairsAreEarned /\ LateWorkIsBounded

(* An automation that was started does not hang: time and again it waits   *)
(* for the user, because it is finished, blocked or stopped.               *)
AutomationSettles == []<>(Awaiting \/ Blocked \/ Stopped \/ LastEvent("started") = 0)
=============================================================================

--------------------------- MODULE PlannerRounds ---------------------------
(***************************************************************************)
(* The planner of one task (app/planner.py, planning_budget.py,            *)
(* workbench.py, workbench_worker.py).  A request of the user becomes a    *)
(* chain of jobs: download the archive, read files from it, ask the model, *)
(* and, as the model's answer may be, read more files, ask it to repair    *)
(* its answer, or save a plan.  A job and its successor are one commit.    *)
(* Meanwhile the user stops the work, edits the plan, changes the budget   *)
(* or approves, workers stall or die, and other requests come in.          *)
(*                                                                         *)
(* `row' is the job of a request that is at the end of its chain; `at' is  *)
(* what the process that handles the request, or its job, has done: every  *)
(* handler looks at the records first and writes afterwards, and another   *)
(* transaction may commit in between.  A process that has stalled past its *)
(* lease goes on until its next look.                                      *)
(***************************************************************************)
EXTENDS Naturals, FiniteSets

CONSTANTS
    Requests,       \* the requests of the user, each with its idempotency key
    MaxReadRounds,  \* MAX_READ_ROUNDS, 4
    MaxPlanRepairs, \* MAX_PLAN_REPAIRS, 2
    Limits,         \* what the call budget may be set to (32 when it was not)
    MaxEdits,       \* bound: plans saved by the user
    MaxEpochs       \* bound: changes of the task's state

ASSUME PlannerAssumption ==
    /\ IsFiniteSet(Requests)
    /\ {MaxReadRounds, MaxPlanRepairs, MaxEdits, MaxEpochs} \subseteq Nat
    /\ Limits \subseteq Nat \ {0} /\ Limits # {}

VARIABLES
    epoch,    \* the state version of the task; planning when it is even
    plan,     \* its latest plan version, 0 when there is none
    context,  \* its latest context_ready, 0 when there is none
    calls,    \* the model_call events of the journal
    budget,   \* the calls allowed, and whether the tokens allowed are used up
    row,      \* the job of each request
    at,       \* what is being done for each request
    edits

plannerVars == <<epoch, plan, context, calls, budget, row, at, edits>>

Kinds  == {"archive", "context", "turn"}
ActiveRow == {"queued", "running"}
NoJobRow  == [state |-> "none", kind |-> "archive", cancel |-> FALSE, only |-> FALSE,
           epoch |-> 0, parent |-> 0, basis |-> 0, round |-> 0, repair |-> 0]

PlannerInit ==
    /\ epoch = 0 /\ plan = 0 /\ context = 0 /\ calls = 0 /\ edits = 0
    /\ budget \in [limit : Limits, spent : {FALSE}]
    /\ row = [r \in Requests |-> NoJobRow]
    /\ at = [r \in Requests |-> "rest"]

Planning == epoch % 2 = 0
Busy     == {r \in Requests : row[r].state \in ActiveRow}
BudgetLeft == calls < budget.limit /\ ~budget.spent

End(r, outcome)  == [row EXCEPT ![r].state = outcome]
Phase(r, phase)  == at' = [at EXCEPT ![r] = phase]

-----------------------------------------------------------------------------
(* PlanningService.request and refresh_context: the checks, and then the   *)
(* job and its event in one commit.                                        *)

Ask(r, only, kind) ==
    [NoJobRow EXCEPT !.state = "asked", !.kind = kind, !.only = only, !.epoch = epoch,
                  !.parent = plan, !.basis = IF kind = "turn" THEN context ELSE 0]

(* An answered question may have left files to read before the turn.       *)
RequestLook(r) ==
    /\ row[r].state = "none" /\ Planning /\ Busy = {} /\ calls < budget.limit
    /\ \E kind \in Kinds : \E only \in BOOLEAN :
          /\ kind \in {"context", "turn"} => context # 0
          /\ only => kind = "archive" /\ plan # 0 /\ context # 0
          /\ row' = [row EXCEPT ![r] = Ask(r, only, kind)]
    /\ UNCHANGED <<epoch, plan, context, calls, budget, at, edits>>

RequestCommit(r) ==
    /\ row[r].state = "asked"
    /\ row' = [row EXCEPT ![r].state = "queued"]
    /\ UNCHANGED <<epoch, plan, context, calls, budget, at, edits>>

-----------------------------------------------------------------------------
(* WorkbenchJobWorker.                                                     *)

(* lease_next and start                                                    *)
Lease(r) ==
    /\ row[r].state = "queued" /\ at[r] = "rest"
    /\ row' = [row EXCEPT ![r].state = "running"]
    /\ Phase(r, "started")
    /\ UNCHANGED <<epoch, plan, context, calls, budget, edits>>

(* check: the job is still running, and nobody asked it to stop.           *)
LiveRow(r) == row[r].state = "running" /\ ~row[r].cancel

(* The worker reports what became of the job, unless it is over already.   *)
Report(r) ==
    /\ row' = IF row[r].state # "running" THEN row
              ELSE End(r, IF row[r].cancel THEN "cancelled" ELSE "failed")
    /\ Phase(r, "rest")

(* An exception, a timeout, or the heartbeat that finds the stop.          *)
Break(r) ==
    /\ at[r] \notin {"rest", "dead"}
    /\ Report(r)
    /\ UNCHANGED <<epoch, plan, context, calls, budget, edits>>

Die(r) ==
    /\ at[r] \notin {"rest", "dead"} /\ Phase(r, "dead")
    /\ UNCHANGED <<epoch, plan, context, calls, budget, row, edits>>

(* recover_expired: these jobs have one attempt.                           *)
(* Mutant of Expire: a job that was asked to stop is left to its worker.   *)
ExpireUnlessStopped(r) ==
    /\ row[r].state = "running" /\ ~row[r].cancel
    /\ row' = End(r, "timed_out")
    /\ UNCHANGED <<epoch, plan, context, calls, budget, at, edits>>

Expire(r) ==
    /\ row[r].state = "running"
    /\ row' = End(r, IF row[r].cancel THEN "cancelled" ELSE "timed_out")
    /\ UNCHANGED <<epoch, plan, context, calls, budget, at, edits>>

(* finish is refused to a job that was stopped, or whose lease is gone.    *)
(* Mutant of Finishes: a job that was asked to stop may still succeed.     *)
FinishesStopped(r) == row[r].state = "running"

Finishes(r) == row[r].state = "running" /\ ~row[r].cancel

SucceedJob(r) == row' = End(r, "succeeded")
Child(r, changed) == row' = [row EXCEPT ![r] = [changed EXCEPT !.state = "queued"]]

-----------------------------------------------------------------------------
(* The handlers.  Each looks, after its await, at what it depends on.      *)

InEpoch(r) == Planning /\ row[r].epoch = epoch
CurrentRequest(r) == InEpoch(r) /\ row[r].parent = plan /\ row[r].basis = context /\ context # 0

Look(r) ==
    /\ \/ at[r] = "started" /\ row[r].kind # "turn" /\ InEpoch(r)
       \/ at[r] = "answered" /\ CurrentRequest(r)
    /\ LiveRow(r)
    /\ Phase(r, "looked")
    /\ UNCHANGED <<epoch, plan, context, calls, budget, row, edits>>

LookFails(r) ==
    /\ \/ at[r] = "started" /\ row[r].kind # "turn" /\ ~(InEpoch(r) /\ LiveRow(r))
       \/ at[r] = "answered" /\ ~(CurrentRequest(r) /\ LiveRow(r))
    /\ Report(r)
    /\ UNCHANGED <<epoch, plan, context, calls, budget, edits>>

(* PlanningArchiveWorker.execute                                           *)
CommitArchive(r) ==
    /\ at[r] = "looked" /\ row[r].kind = "archive" /\ Finishes(r)
    /\ Child(r, [row[r] EXCEPT !.kind = "context"])
    /\ Phase(r, "rest")
    /\ UNCHANGED <<epoch, plan, context, calls, budget, edits>>

(* PlanningContextWorker.execute                                           *)
CommitContext(r) ==
    /\ at[r] = "looked" /\ row[r].kind = "context" /\ Finishes(r)
    /\ context' = context + 1
    /\ IF row[r].only THEN SucceedJob(r)
       ELSE Child(r, [row[r] EXCEPT !.kind = "turn", !.basis = context'])
    /\ Phase(r, "rest")
    /\ UNCHANGED <<epoch, plan, calls, budget, edits>>

(* PlanningTurnWorker.execute, up to the model call.  The budget is read   *)
(* before the journal is locked to append the call.                        *)
(* Mutant of MayCall: the budget is only compared when the user asks.      *)
MayCallAlways(r) == CurrentRequest(r) /\ LiveRow(r)

MayCall(r) == CurrentRequest(r) /\ LiveRow(r) /\ BudgetLeft

BeginTurn(r) ==
    /\ at[r] = "started" /\ row[r].kind = "turn"
    /\ IF MayCall(r) THEN Phase(r, "asking") /\ UNCHANGED row ELSE Report(r)
    /\ UNCHANGED <<epoch, plan, context, calls, budget, edits>>

CallModel(r) ==
    /\ at[r] = "asking"
    /\ calls' = calls + 1
    /\ Phase(r, "calling")
    /\ UNCHANGED <<epoch, plan, context, budget, row, edits>>

Answer(r) ==
    /\ at[r] = "calling" /\ Phase(r, "answered")
    /\ UNCHANGED <<epoch, plan, context, calls, budget, row, edits>>

(* What the answer is once it was validated: the tokens it used count from *)
(* now on.  A question waits for the user; reads come before the plan; an  *)
(* answer, a request to read or a plan that does not hold is repaired.     *)
Recorded == \E spent \in BOOLEAN : budget' = [budget EXCEPT !.spent = @ \/ spent]

Turned(r) == at[r] = "looked" /\ row[r].kind = "turn" /\ Finishes(r)

AnswerEnds(r) ==
    /\ Turned(r) /\ Recorded
    /\ SucceedJob(r) /\ Phase(r, "rest")
    /\ UNCHANGED <<epoch, plan, context, calls, edits>>

(* persist_plan: create_revision takes the latest plan for its parent, or  *)
(* nothing changed since that plan.                                        *)
SavesPlan(r) ==
    /\ Turned(r) /\ Recorded
    /\ IF Planning /\ plan = row[r].parent
       THEN /\ plan' \in {plan + 1} \cup ({plan} \ {0})
            /\ SucceedJob(r) /\ Phase(r, "rest")
       ELSE Report(r) /\ UNCHANGED plan
    /\ UNCHANGED <<epoch, context, calls, edits>>

ReadsMore(r) ==
    /\ Turned(r) /\ Recorded /\ row[r].round < MaxReadRounds
    /\ \E kind \in {"context", "turn"} :
          Child(r, [row[r] EXCEPT !.kind = kind, !.round = @ + 1])
    /\ Phase(r, "rest")
    /\ UNCHANGED <<epoch, plan, context, calls, edits>>

Repairs(r) ==
    /\ Turned(r) /\ Recorded /\ row[r].repair < MaxPlanRepairs
    /\ Child(r, [row[r] EXCEPT !.repair = @ + 1])
    /\ Phase(r, "rest")
    /\ UNCHANGED <<epoch, plan, context, calls, edits>>

(* The commit of a job that was stopped meanwhile is rolled back.          *)
CommitRefused(r) ==
    /\ at[r] = "looked" /\ ~Finishes(r)
    /\ Report(r)
    /\ UNCHANGED <<epoch, plan, context, calls, budget, edits>>

-----------------------------------------------------------------------------
(* stop_workflow: the jobs to stop are found and marked in one locked      *)
(* transaction.                                                            *)
StopWork ==
    /\ Busy # {} /\ \E r \in Busy : ~row[r].cancel
    /\ row' = [r \in Requests |->
          IF r \notin Busy THEN row[r]
          ELSE [row[r] EXCEPT !.cancel = TRUE,
                              !.state = IF @ = "queued" THEN "cancelled" ELSE @]]
    /\ UNCHANGED <<epoch, plan, context, calls, budget, at, edits>>

(* PlanningService.save by the user                                        *)
SavePlan ==
    /\ edits < MaxEdits /\ Planning /\ Busy = {} /\ context # 0
    /\ plan' = plan + 1 /\ edits' = edits + 1
    /\ UNCHANGED <<epoch, context, calls, budget, row, at>>

(* configure_planning_budget, under the lock                               *)
ConfigureBudget ==
    /\ Busy = {}
    /\ \E limit \in Limits : limit >= calls /\ budget' = [limit |-> limit, spent |-> FALSE]
    /\ budget' # budget
    /\ UNCHANGED <<epoch, plan, context, calls, row, at, edits>>

(* The task is approved, abandoned, or taken back to planning.             *)
ChangeState ==
    /\ epoch < MaxEpochs /\ epoch' = epoch + 1
    /\ UNCHANGED <<plan, context, calls, budget, row, at, edits>>

Handle(r) ==
    \/ Look(r) \/ LookFails(r) \/ CommitArchive(r) \/ CommitContext(r)
    \/ BeginTurn(r) \/ CallModel(r) \/ AnswerEnds(r) \/ SavesPlan(r) \/ ReadsMore(r)
    \/ Repairs(r) \/ CommitRefused(r) \/ Break(r)

PlannerNext ==
    \/ \E r \in Requests :
          \/ RequestLook(r) \/ RequestCommit(r) \/ Lease(r) \/ Answer(r)
          \/ Handle(r) \/ Die(r) \/ Expire(r)
    \/ StopWork \/ SavePlan \/ ConfigureBudget \/ ChangeState

(* Workers poll; a handler ends, by its timeout if need be; the lease of a *)
(* worker that died runs out and is recovered.                             *)
PlannerFairness ==
    \A r \in Requests :
        /\ WF_plannerVars(RequestCommit(r))
        /\ WF_plannerVars(Lease(r))
        /\ WF_plannerVars(Handle(r))
        /\ WF_plannerVars(at[r] = "dead" /\ Expire(r))

PlannerSpec == PlannerInit /\ [][PlannerNext]_plannerVars /\ PlannerFairness

-----------------------------------------------------------------------------
PlannerTypeOK ==
    /\ epoch \in 0..MaxEpochs /\ edits \in 0..MaxEdits
    /\ {plan, context, calls} \subseteq Nat
    /\ budget \in [limit : Limits, spent : BOOLEAN]
    /\ at \in [Requests -> {"rest", "started", "asking", "calling", "answered",
                            "looked", "dead"}]
    /\ \A r \in Requests : row[r].round <= MaxReadRounds /\ row[r].repair <= MaxPlanRepairs

(* A stop reaches all the work there is (contribution_workflow.py:300-302, *)
(* jobs.py:315): once the user stopped a request, no handler that had      *)
(* looked before continues it with another job, saves its plan, or reports *)
(* success.                                                                *)
StoppedWorkEnds ==
    [][\A r \in Requests : row[r].cancel /\ row'[r] # row[r] =>
          row'[r].state = "cancelled" /\ plan' = plan]_plannerVars

(* The journal may count more calls than the budget (planner.py:726-743    *)
(* compares before it appends), by no more than the handlers that compare  *)
(* at the same time, one for each request, also when the budget is lowered *)
(* while the process of a job that was given up goes on.                   *)
CallsNearBudget == calls <= budget.limit + Cardinality(Requests)

(* Where every request should come to: a plan, a question, a message or a  *)
(* failure the user can see, however often the model asks for more.        *)
RequestsAtRest == \A r \in Requests : row[r].state \notin ActiveRow
=============================================================================

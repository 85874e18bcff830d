-------------------------- MODULE ProposalLineage --------------------------
(***************************************************************************)
(* How one attempt of the automation gets its change set proposed          *)
(* (app/coding.py, coding_reads.py, coding_budget.py, proposal_recovery.py,*)
(* and the part of contribution_workflow.py that applies the result).      *)
(*                                                                         *)
(* The proposal is asked of a model by a job.  The model answers with a    *)
(* proposal, or with a request to read sources, which ends the job and     *)
(* queues another one: all of them are a lineage that shares one budget of *)
(* calls.  A rejected proposal is retried by the job itself, corrected     *)
(* locally, or, when the budget is exhausted, resumed with an extension.   *)
(* The calls are counted by events that are committed before the model is  *)
(* called, after the worker has read what remains.                         *)
(*                                                                         *)
(* The plan and the conversation do not change here: every step compares   *)
(* them with what the job has frozen.                                      *)
(***************************************************************************)
EXTENDS Naturals, Sequences, FiniteSets

CONSTANTS
    Coders,        \* worker processes for the model jobs of coding
    NoCoder,
    CallLimit,     \* DEFAULT_LIMIT
    MoreCalls,     \* EXTENDED_LIMIT - DEFAULT_LIMIT
    MaxTries,      \* max_attempts of a job
    MaxResumes     \* bound: resumptions by the user

ASSUME LineageAssumption ==
    /\ IsFiniteSet(Coders) /\ NoCoder \notin Coders
    /\ {CallLimit, MaxTries} \subseteq Nat \ {0}
    /\ {MoreCalls, MaxResumes} \subseteq Nat

VARIABLES
    jobs,        \* the jobs of the lineage, the root first
    calls,       \* agent_code_call events
    granted,     \* coding_budget_extended
    proposals,   \* jobs that have stored a proposal
    correction,  \* the job whose proposal was corrected, or 0
    blocker,     \* the job of automation_blocked that nothing has resumed, or 0
    stopped,     \* a stop follows the authorization
    applied,     \* what the stage Implement was given: "none" or how it was made
    coder,       \* what each worker process is doing
    resumes

lineageVars == <<jobs, calls, granted, proposals, correction, blocker, stopped,
                 applied, coder, resumes>>

NewTry(kind) == [kind |-> kind, state |-> "queued", tries |-> 0, code |-> "none",
                 owner |-> NoCoder, cancel |-> FALSE]
AtRest == [at |-> "rest", job |-> 0, last |-> FALSE]

LineageInit ==
    /\ jobs = <<NewTry("propose")>>
    /\ calls = 0 /\ granted = FALSE /\ proposals = {} /\ correction = 0
    /\ blocker = 0 /\ stopped = FALSE /\ applied = "none"
    /\ coder = [c \in Coders |-> AtRest] /\ resumes = 0

Limit     == CallLimit + (IF granted THEN MoreCalls ELSE 0)
Remaining == IF calls < Limit THEN Limit - calls ELSE 0
Live(j)   == jobs[j].state \in {"queued", "running"}
NoJobRuns      == \A j \in DOMAIN jobs : ~Live(j)
(* require_session: the attempt still has its succeeded Explore stage.     *)
SessionCurrent == applied = "none"
CoderOwns(c)   == LET job == jobs[coder[c].job] IN job.state = "running" /\ job.owner = c
(* WorkbenchJobWorker.check                                                *)
CheckJob(c)  == CoderOwns(c) /\ ~jobs[coder[c].job].cancel

Goes(c, at) == coder' = [coder EXCEPT ![c].at = at]
Rests(c)    == coder' = [coder EXCEPT ![c] = AtRest]
EndedJob(j, state, code) == [jobs EXCEPT ![j].state = state, ![j].code = code,
                                      ![j].owner = NoCoder]

-----------------------------------------------------------------------------
LeaseJob(c) ==
    /\ coder[c].at = "rest"
    /\ \E j \in DOMAIN jobs :
          /\ jobs[j].state = "queued" /\ jobs[j].tries < MaxTries
          /\ jobs' = [jobs EXCEPT ![j].state = "running", ![j].owner = c,
                                  ![j].tries = @ + 1]
          /\ coder' = [coder EXCEPT ![c] = [at |-> jobs[j].kind, job |-> j, last |-> FALSE]]
    /\ UNCHANGED <<calls, granted, proposals, correction, blocker, stopped, applied, resumes>>

(* An error ends the job, unless it is no longer this worker's; a job that *)
(* was to be cancelled is cancelled.                                       *)
FailJob(c, code) ==
    /\ jobs' = IF CoderOwns(c)
               THEN LET j == coder[c].job
                    IN  EndedJob(j, IF jobs[j].cancel THEN "cancelled" ELSE "failed", code)
               ELSE jobs
    /\ Rests(c)

(* proposal_budget and check; the call is recorded by CountCall.           *)
(* Mutant of ReadBudget: the budget of each job of the lineage is its own. *)
ReadBudgetAnew(c) ==
    /\ coder[c].at = "propose"
    /\ IF SessionCurrent /\ CheckJob(c)
       THEN coder' = [coder EXCEPT ![c].at = "call", ![c].last = FALSE] /\ UNCHANGED jobs
       ELSE FailJob(c, "other")
    /\ UNCHANGED <<calls, granted, proposals, correction, blocker, stopped, applied, resumes>>
ReadBudget(c) ==
    /\ coder[c].at = "propose"
    /\ CASE SessionCurrent /\ Remaining > 0 /\ CheckJob(c) ->
               /\ coder' = [coder EXCEPT ![c].at = "call", ![c].last = Remaining = 1]
               /\ UNCHANGED jobs
         [] SessionCurrent /\ Remaining = 0 -> FailJob(c, "budget")
         [] OTHER                           -> FailJob(c, "other")
    /\ UNCHANGED <<calls, granted, proposals, correction, blocker, stopped, applied, resumes>>

CountCall(c) ==
    /\ coder[c].at = "call"
    /\ calls' = calls + 1
    /\ Goes(c, "answer")
    /\ UNCHANGED <<jobs, granted, proposals, correction, blocker, stopped, applied, resumes>>

(* A job that goes on in another one ends in the same commit.              *)
HandOver(c, kind) ==
    /\ jobs' = Append(EndedJob(coder[c].job, "succeeded", "none"), NewTry(kind))
    /\ Rests(c)

AnswerRead(c, kind) ==
    /\ coder[c].at = "answer" /\ ~coder[c].last
    /\ IF SessionCurrent /\ ~stopped /\ CheckJob(c)
       THEN HandOver(c, kind)
       ELSE FailJob(c, "other")
    /\ UNCHANGED <<calls, granted, proposals, correction, blocker, stopped, applied, resumes>>

(* complete_source_read                                                    *)
FinishRead(c) ==
    /\ coder[c].at = "read"
    /\ IF SessionCurrent /\ ~stopped /\ CheckJob(c)
       THEN HandOver(c, "propose")
       ELSE FailJob(c, "other")
    /\ UNCHANGED <<calls, granted, proposals, correction, blocker, stopped, applied, resumes>>

(* _reject_proposal: the rejection, the failure and, for a draft that can  *)
(* be mended, the retry are one commit.                                    *)
(* Mutant of AnswerRejected: the last run but one is not retried.          *)
AnswerRejectedEarly(c, code) ==
    /\ coder[c].at = "answer" /\ (code = "budget" => coder[c].last)
    /\ LET j == coder[c].job
       IN  IF SessionCurrent /\ CheckJob(c) /\ ~stopped
           THEN /\ jobs' = EndedJob(j, IF code = "draft" /\ jobs[j].tries + 1 < MaxTries
                                    THEN "queued" ELSE "failed", code)
                /\ Rests(c)
           ELSE FailJob(c, "other")
    /\ UNCHANGED <<calls, granted, proposals, correction, blocker, stopped, applied, resumes>>
AnswerRejected(c, code) ==
    /\ coder[c].at = "answer" /\ (code = "budget" => coder[c].last)
    /\ LET j == coder[c].job
       IN  IF SessionCurrent /\ CheckJob(c) /\ ~stopped
           THEN /\ jobs' = EndedJob(j, IF code = "draft" /\ jobs[j].tries < MaxTries
                                    THEN "queued" ELSE "failed", code)
                /\ Rests(c)
           ELSE FailJob(c, "other")
    /\ UNCHANGED <<calls, granted, proposals, correction, blocker, stopped, applied, resumes>>

(* _complete_proposal: the proposal and the success of its job are one     *)
(* commit, fenced by the job's row.                                        *)
AnswerProposal(c) ==
    /\ coder[c].at = "answer"
    /\ IF SessionCurrent /\ CheckJob(c)
       THEN /\ jobs' = EndedJob(coder[c].job, "succeeded", "none")
            /\ proposals' = proposals \union {coder[c].job}
            /\ Rests(c)
       ELSE FailJob(c, "other") /\ UNCHANGED proposals
    /\ UNCHANGED <<calls, granted, correction, blocker, stopped, applied, resumes>>

(* The gateway, a timeout or the sandbox fails.                            *)
StepFails(c) ==
    /\ coder[c].at \in {"answer", "read"}
    /\ FailJob(c, "other")
    /\ UNCHANGED <<calls, granted, proposals, correction, blocker, stopped, applied, resumes>>

(* A lease expires while its worker is suspended: the worker goes on       *)
(* afterwards with what it has read.                                       *)
LeaseExpires(j) ==
    /\ jobs[j].state = "running"
    /\ jobs' = [jobs EXCEPT ![j].owner = NoCoder, ![j].state =
                   CASE jobs[j].cancel -> "cancelled"
                     [] ~jobs[j].cancel /\ jobs[j].tries < MaxTries -> "queued"
                     [] OTHER -> "failed",
                   ![j].code = "lease"]
    /\ UNCHANGED <<calls, granted, proposals, correction, blocker, stopped, applied, coder, resumes>>

-----------------------------------------------------------------------------
(* The coordinator, in one tick.  A corrected job no longer counts as a    *)
(* failed one; its correction holds only while it is failed.               *)
Relevant == DOMAIN jobs \ {correction}
Broken   == {j \in Relevant : jobs[j].state \in {"failed", "cancelled"}}
CorrectionHolds == IF correction = 0 THEN TRUE ELSE jobs[correction].state = "failed"

(* Mutant of BlockLineage: only a failure that may be resumed is reported. *)
BlockIfResumable ==
    /\ applied = "none" /\ ~stopped /\ blocker = 0
    /\ \E j \in Broken : jobs[j].tries < MaxTries /\ jobs[j].code # "budget" /\ blocker' = j
    /\ UNCHANGED <<jobs, calls, granted, proposals, correction, stopped, applied, coder, resumes>>
BlockLineage ==
    /\ applied = "none" /\ ~stopped /\ blocker = 0
    /\ ~CorrectionHolds \/ Broken # {}
    /\ blocker' = IF CorrectionHolds THEN CHOOSE j \in Broken : \A k \in Broken : j <= k
                                     ELSE correction
    /\ UNCHANGED <<jobs, calls, granted, proposals, correction, stopped, applied, coder, resumes>>

Apply ==
    /\ applied = "none" /\ ~stopped /\ blocker = 0
    /\ CorrectionHolds /\ Broken = {} /\ \A j \in Relevant : ~Live(j)
    /\ IF correction # 0
       THEN applied' = "correction"
       ELSE proposals # {} /\ applied' = "proposal"
    /\ UNCHANGED <<jobs, calls, granted, proposals, correction, blocker, stopped, coder, resumes>>

-----------------------------------------------------------------------------
(* The user and the maintainer.                                            *)
StopLineage ==
    /\ ~stopped
    /\ stopped' = TRUE
    /\ jobs' = [j \in DOMAIN jobs |->
                   [jobs[j] EXCEPT !.state = IF @ = "queued" THEN "cancelled" ELSE @,
                                   !.cancel = jobs[j].state = "running"]]
    /\ UNCHANGED <<calls, granted, proposals, correction, blocker, applied, coder, resumes>>

(* retry_execution_job, and JobService.retry under it.                     *)
Resumable(j) ==
    /\ ~stopped /\ SessionCurrent /\ jobs[j].kind = "propose" /\ jobs[j].tries < MaxTries
    /\ IF blocker # 0
       THEN jobs[j].state = "failed"
            /\ {k \in DOMAIN jobs : jobs[k].state \in {"failed", "cancelled"}} = {j}
       ELSE jobs[j].state \in {"failed", "cancelled"}
Retried(j) == [jobs EXCEPT ![j].state = "queued", ![j].code = "none", ![j].cancel = FALSE]

ResumeJob(j) ==
    /\ resumes < MaxResumes
    /\ Resumable(j) /\ Remaining > 0
    /\ jobs' = Retried(j)
    /\ blocker' = 0 /\ resumes' = resumes + 1
    /\ UNCHANGED <<calls, granted, proposals, correction, stopped, applied, coder>>

(* extend_and_resume: once, when exactly the limit is used.                *)
ExtendBudget(j) ==
    /\ ~granted /\ calls = CallLimit
    /\ jobs[j].state = "failed" /\ jobs[j].code = "budget" /\ ~jobs[j].cancel
    /\ NoJobRuns /\ proposals = {} /\ MoreCalls > 0
    /\ Resumable(j)
    /\ granted' = TRUE
    /\ jobs' = Retried(j)
    /\ blocker' = 0
    /\ UNCHANGED <<calls, proposals, correction, stopped, applied, coder, resumes>>

(* record_corrected_proposal, on the draft the last run was rejected for.  *)
Correct(j) ==
    /\ correction = 0 /\ ~stopped /\ SessionCurrent
    /\ jobs[j].state = "failed" /\ jobs[j].code = "draft" /\ ~jobs[j].cancel
    /\ \A k \in DOMAIN jobs \ {j} : ~Live(k)
    /\ blocker \in {0, j}
    /\ correction' = j /\ blocker' = 0
    /\ UNCHANGED <<jobs, calls, granted, proposals, stopped, applied, coder, resumes>>

CoderStep(c) ==
    \/ LeaseJob(c) \/ ReadBudget(c) \/ CountCall(c)
    \/ \E kind \in {"propose", "read"} : AnswerRead(c, kind)
    \/ \E code \in {"draft", "scope", "budget"} : AnswerRejected(c, code)
    \/ AnswerProposal(c) \/ StepFails(c) \/ FinishRead(c)

LineageNext ==
    \/ BlockLineage \/ Apply \/ StopLineage
    \/ \E c \in Coders : CoderStep(c)
    \/ \E j \in DOMAIN jobs : LeaseExpires(j) \/ ResumeJob(j) \/ ExtendBudget(j) \/ Correct(j)

LineageSpec == LineageInit /\ [][LineageNext]_lineageVars

LineageFairness ==
    /\ WF_lineageVars(BlockLineage) /\ WF_lineageVars(Apply)
    /\ \A c \in Coders : WF_lineageVars(CoderStep(c))

LineageFairSpec == LineageSpec /\ LineageFairness

-----------------------------------------------------------------------------
(* "At most six calls including corrections" (docs/agent-runtime.md:70),   *)
(* reads, retries and lost leases: a worker that was overtaken between     *)
(* reading the budget and recording its call adds one at most.             *)
CallsAreBounded == calls <= Limit + Cardinality(Coders) - 1

(* "The failed job is not modified" (docs/conversation-agent-contract.md): *)
(* the draft that was corrected stays rejected, because a job whose draft  *)
(* can be mended fails only when its runs are used up.  Otherwise a second *)
(* change set could come to compete with the corrected one.                *)
CorrectionStands ==
    /\ correction # 0 => jobs[correction].state = "failed" /\ proposals = {}
    /\ Cardinality(proposals) <= 1

(* A lineage stays within its calls and ends in one change set.            *)
LineageIsBounded == CallsAreBounded /\ CorrectionStands

(* The automation of an attempt does not hang on its proposal: it is       *)
(* applied, or the user learns what blocks it, or the task is stopped.     *)
LineageSettled == applied # "none" \/ blocker # 0 \/ stopped
=============================================================================

-------------------------- MODULE ProviderAnalysis --------------------------
(***************************************************************************)
(* One analysis job: inspect, then analyze, run by any of several workers  *)
(* over several attempts under one frozen budget (app/providers/jobs.py,   *)
(* budgets.py, invocations.py, workflow.py, versions.py).                  *)
(*                                                                         *)
(* Each attempt rebuilds its ledger from the invocations that earlier      *)
(* attempts recorded, then keeps it in memory.  An invocation is recorded  *)
(* only after the model answered, and without asking whether the attempt   *)
(* still holds the lease: a lost attempt may spend what the next one does  *)
(* not see.                                                                *)
(***************************************************************************)
EXTENDS Naturals, FiniteSets, FiniteSetsExt

CONSTANTS
    Analysts,     \* worker IDs of ProviderAnalysisJobWorker
    NoAnalyst,
    MaxCalls,     \* budget.max_model_invocations
    MaxTokens,    \* one of the budget's usage limits
    MaxRetries,   \* budget.max_retries; the job has one attempt more
    Usages        \* what one call may use of that limit

ASSUME AnalysisAssumption ==
    /\ IsFiniteSet(Analysts) /\ NoAnalyst \notin Analysts
    /\ MaxCalls \in Nat /\ MaxCalls >= 2
    /\ MaxTokens \in Nat /\ MaxRetries \in Nat
    /\ Usages \subseteq Nat

VARIABLES
    analysis,     \* the job row
    analyst,      \* each worker: where it is and its ledger in memory
    invocations,  \* provider_invocations, unique by attempt and stage
    versions,     \* analysis_versions, by the attempt that made them
    modelCalls,   \* calls the provider has been asked, recorded or not
    hidden        \* history: calls a lost attempt had still to record

analysisVars == <<analysis, analyst, invocations, versions, modelCalls, hidden>>

Ended == {"succeeded", "failed", "timed_out", "cancelled"}
Away == [pc |-> "away", stage |-> "inspect", attempt |-> 0, calls |-> 0, tokens |-> 0]

AnalysisInit ==
    /\ analysis = [state |-> "absent", attempt |-> 0, owner |-> NoAnalyst, cancel |-> FALSE]
    /\ analyst = [w \in Analysts |-> Away]
    /\ invocations = {}
    /\ versions = {}
    /\ modelCalls = 0
    /\ hidden = 0

Before(attempt) == {i \in invocations : i.attempt < attempt}
TokensOf(is) == MapThenSumSet(LAMBDA i : i.tokens, is)
Holds(w) == analysis.state = "running" /\ analysis.owner = w
AnalystTo(w, pc) == analyst' = [analyst EXCEPT ![w].pc = pc]

-----------------------------------------------------------------------------
RequestAnalysis ==
    /\ analysis.state = "absent"
    /\ analysis' = [analysis EXCEPT !.state = "queued"]
    /\ UNCHANGED <<analyst, invocations, versions, modelCalls, hidden>>

CancelAnalysis ==
    /\ analysis.state \in {"queued", "running"} /\ ~analysis.cancel
    /\ analysis' = [analysis EXCEPT !.cancel = TRUE,
                        !.state = IF @ = "queued" THEN "cancelled" ELSE @]
    /\ UNCHANGED <<analyst, invocations, versions, modelCalls, hidden>>

(* ManualAnalysisService.retry: the recorded calls leave room for another  *)
(* inspect and analyze, and the recorded usage is within its limit.        *)
RetryAnalysis ==
    /\ analysis.state \in Ended \ {"succeeded"}
    /\ analysis.attempt =< MaxRetries
    /\ analysis.attempt > 0 => Cardinality(invocations) + 2 =< MaxCalls
    /\ TokensOf(invocations) =< MaxTokens
    /\ analysis' = [analysis EXCEPT !.state = "queued", !.cancel = FALSE]
    /\ UNCHANGED <<analyst, invocations, versions, modelCalls, hidden>>

LeaseAnalysis(w) ==
    /\ analysis.state = "queued" /\ analyst[w].pc = "away"
    /\ analysis' = [analysis EXCEPT !.state = "running", !.owner = w, !.attempt = @ + 1]
    /\ analyst' = [analyst EXCEPT ![w] = [Away EXCEPT !.pc = "restore",
                                              !.attempt = analysis.attempt + 1]]
    /\ UNCHANGED <<invocations, versions, modelCalls, hidden>>

(* Mutant of Restore: only the previous attempt is counted.                *)
RestoreLast(w) ==
    LET a == analyst[w].attempt
        seen == {i \in invocations : i.attempt = a - 1} IN
    /\ analyst[w].pc = "restore"
    /\ analyst' = [analyst EXCEPT ![w] =
            [@ EXCEPT !.pc = "call",
                      !.calls = Cardinality(seen), !.tokens = TokensOf(seen)]]
    /\ UNCHANGED <<analysis, invocations, versions, modelCalls, hidden>>

(* _restore_budget_ledger: every earlier invocation is started and its     *)
(* usage recorded again; what exceeds the budget fails the attempt.        *)
Restore(w) ==
    LET a == analyst[w].attempt
        seen == Before(a)
        within == Cardinality(seen) =< MaxCalls /\ TokensOf(seen) =< MaxTokens IN
    /\ analyst[w].pc = "restore"
    /\ analyst' = [analyst EXCEPT ![w] =
            [@ EXCEPT !.pc = IF within THEN "call" ELSE "fail",
                      !.calls = Cardinality(seen), !.tokens = TokensOf(seen)]]
    /\ UNCHANGED <<analysis, invocations, versions, modelCalls, hidden>>

(* start_invocation, then the provider is asked.                           *)
StartCall(w) ==
    /\ analyst[w].pc = "call"
    /\ IF analyst[w].calls < MaxCalls
         THEN /\ analyst' = [analyst EXCEPT ![w] = [@ EXCEPT !.calls = analyst[w].calls + 1,
                                                      !.pc = "await"]]
              /\ modelCalls' = modelCalls + 1
         ELSE AnalystTo(w, "fail") /\ UNCHANGED modelCalls
    /\ UNCHANGED <<analysis, invocations, versions, hidden>>

Record(w, status, tokens) ==
    invocations' = invocations \cup
        {[attempt |-> analyst[w].attempt, stage |-> analyst[w].stage,
          status |-> status, tokens |-> tokens]}

(* The answer is recorded, then counted against the limits.                *)
AnswerCall(w, tokens) ==
    /\ analyst[w].pc = "await"
    /\ Record(w, "succeeded", tokens)
    /\ LET total == analyst[w].tokens + tokens IN
       analyst' = [analyst EXCEPT ![w] = [@ EXCEPT
                     !.tokens = total,
                     !.pc = IF total =< MaxTokens THEN "progress" ELSE "fail"]]
    /\ UNCHANGED <<analysis, versions, modelCalls, hidden>>

(* The call fails or times out: what was observed of its usage is          *)
(* recorded, then the job is ended.                                        *)
FailCall(w, tokens) ==
    /\ analyst[w].pc = "await"
    /\ \/ AnalystTo(w, "fail") /\ Record(w, "failed", tokens)
       \/ AnalystTo(w, "time_out") /\ Record(w, "timed_out", tokens)
    /\ UNCHANGED <<analysis, versions, modelCalls, hidden>>

(* update_progress under the lease, then the request to cancel is read.    *)
Progress(w) ==
    /\ analyst[w].pc = "progress"
    /\ IF ~Holds(w) THEN AnalystTo(w, "fail")
       ELSE IF analysis.cancel THEN AnalystTo(w, "cancel")
       ELSE IF analyst[w].stage = "analyze" THEN AnalystTo(w, "succeed")
       ELSE analyst' = [analyst EXCEPT ![w] = [@ EXCEPT !.pc = "call", !.stage = "analyze"]]
    /\ UNCHANGED <<analysis, invocations, versions, modelCalls, hidden>>

Recorded(a, stage) ==
    \E i \in invocations : i.attempt = a /\ i.stage = stage /\ i.status = "succeeded"

(* JobService.succeed and create_from_succeeded_job, in one transaction.   *)
SucceedAnalysis(w) ==
    /\ analyst[w].pc = "succeed"
    /\ IF /\ Holds(w) /\ ~analysis.cancel
          /\ \A stage \in {"inspect", "analyze"} : Recorded(analysis.attempt, stage)
         THEN /\ analysis' = [analysis EXCEPT !.state = "succeeded", !.owner = NoAnalyst]
              /\ versions' = versions \cup {analysis.attempt}
              /\ analyst' = [analyst EXCEPT ![w] = Away]
         ELSE AnalystTo(w, "fail") /\ UNCHANGED <<analysis, versions>>
    /\ UNCHANGED <<invocations, modelCalls, hidden>>

(* fail, time_out and cancel ask only for the lease; refused, they raise.  *)
EndAnalysis(w) ==
    /\ analyst[w].pc \in {"fail", "time_out", "cancel"}
    /\ LET outcome == IF analyst[w].pc = "time_out" THEN "timed_out"
                      ELSE IF analyst[w].pc = "cancel" \/ analysis.cancel THEN "cancelled"
                      ELSE "failed" IN
       analysis' = IF Holds(w)
                     THEN [analysis EXCEPT !.state = outcome, !.owner = NoAnalyst]
                     ELSE analysis
    /\ analyst' = [analyst EXCEPT ![w] = Away]
    /\ UNCHANGED <<invocations, versions, modelCalls, hidden>>

-----------------------------------------------------------------------------
(* The lease of a running attempt expires and recover_expired finds it,    *)
(* while its worker is dead or merely stalled.                             *)
LoseLease(dies) ==
    /\ analysis.state = "running"
    /\ analysis' = [analysis EXCEPT !.owner = NoAnalyst,
            !.state = IF analysis.cancel THEN "cancelled"
                      ELSE IF analysis.attempt =< MaxRetries THEN "queued" ELSE "timed_out"]
    /\ LET w == analysis.owner IN
       /\ analyst' = IF dies THEN [analyst EXCEPT ![w] = Away] ELSE analyst
       /\ hidden' = IF \/ analyst[w].pc = "await"
                       \/ analyst[w].pc \in {"restore", "call"} /\ ~dies
                     THEN hidden + 1 ELSE hidden
    /\ UNCHANGED <<invocations, versions, modelCalls>>

AnalystStep(w) ==
    \/ LeaseAnalysis(w) \/ Restore(w) \/ StartCall(w) \/ Progress(w)
    \/ SucceedAnalysis(w) \/ EndAnalysis(w)
    \/ \E tokens \in Usages : AnswerCall(w, tokens) \/ FailCall(w, tokens)

AnalysisNext ==
    \/ RequestAnalysis \/ CancelAnalysis \/ RetryAnalysis
    \/ \E w \in Analysts : AnalystStep(w)
    \/ \E dies \in BOOLEAN : LoseLease(dies)

AnalysisSpec == AnalysisInit /\ [][AnalysisNext]_analysisVars

-----------------------------------------------------------------------------
(* The calls asked of the provider pass the budget by no more than the     *)
(* calls a lost attempt had not recorded yet: whatever else fails, times   *)
(* out, is lost or retried by hand, the restored ledger counts it          *)
(* (_restore_budget_ledger).                                               *)
OverspendIsHidden == modelCalls =< MaxCalls + hidden

=============================================================================

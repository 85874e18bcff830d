---------------------------- MODULE StageLedger ----------------------------
(***************************************************************************)
(* What an execution attempt promises of its stages, whoever schedules,    *)
(* runs, cancels or recovers them.  A stage is opened, bound to a run,     *)
(* started at most once for that run, and closed once; every run counts    *)
(* against the stage's budget; only a success leads on to the next stage,  *)
(* and only a failure or a timeout to another run of the same one.         *)
(***************************************************************************)
EXTENDS Naturals

CONSTANT MaxStageRuns

VARIABLES
    stage, status,   \* the latest stage version
    bound,           \* whether a pending version has its run
    used             \* runs scheduled so far, for each stage

lvars == <<stage, status, bound, used>>

Stages == {"explore", "implement", "verify"}
After  == [explore |-> "implement", implement |-> "verify"]

Init ==
    /\ stage = "explore" /\ status = "pending" /\ bound = FALSE
    /\ used = [s \in Stages |-> 0]

Bind(s) ==
    /\ used[s] < MaxStageRuns
    /\ used' = [used EXCEPT ![s] = @ + 1]
    /\ bound' = TRUE

Schedule ==
    /\ status = "pending" /\ ~bound
    /\ Bind(stage)
    /\ UNCHANGED <<stage, status>>

Start ==
    /\ status = "pending" /\ bound
    /\ status' = "running" /\ bound' = FALSE
    /\ UNCHANGED <<stage, used>>

Close(outcome) ==
    /\ \/ status = "running"
       \/ status = "pending" /\ bound /\ outcome # "succeeded"
    /\ status' = outcome /\ bound' = FALSE
    /\ UNCHANGED <<stage, used>>

Advance ==
    /\ status = "succeeded" /\ stage \in DOMAIN After
    /\ stage' = After[stage] /\ status' = "pending"
    /\ Bind(After[stage])

Reopen ==
    /\ status \in {"failed", "timed_out"}
    /\ status' = "pending" /\ UNCHANGED stage
    /\ \/ bound' = FALSE /\ UNCHANGED used
       \/ Bind(stage)

Next ==
    \/ Schedule \/ Start \/ Advance \/ Reopen
    \/ \E outcome \in {"succeeded", "failed", "cancelled", "timed_out"} : Close(outcome)

Spec == Init /\ [][Next]_lvars
=============================================================================

------------------------------ MODULE MCAgents ------------------------------
(***************************************************************************)
(* Instances for TLC of what keeps work moving: the job queue with one     *)
(* polling worker, the planner with its jobs, the calls of a model, the    *)
(* sandbox worker, and the preparation of the environment a change is      *)
(* verified in.  They share no variable: a behaviour of this module is a   *)
(* behaviour of one of them, chosen in the initial state and named by      *)
(* `component'.                                                            *)
(***************************************************************************)
EXTENDS JobLease, PlannerRounds, ModelCall, SandboxRun, VerificationEnvironment

VARIABLE component

agentsVars == <<component, vars, plannerVars, callVars, sandboxVars, environmentVars>>

AgentsInit ==
    /\ component \in {"queue", "planner", "model", "sandbox", "environment"}
    /\ Init /\ PlannerInit /\ CallsInit /\ SandboxInit /\ EnvironmentInit
    /\ component # "model" => route = "stream"

AgentsNext ==
    \/ /\ component = "queue" /\ Next
       /\ UNCHANGED <<component, plannerVars, callVars, sandboxVars, environmentVars>>
    \/ /\ component = "planner" /\ PlannerNext
       /\ UNCHANGED <<component, vars, callVars, sandboxVars, environmentVars>>
    \/ /\ component = "model" /\ CallsNext
       /\ UNCHANGED <<component, vars, plannerVars, sandboxVars, environmentVars>>
    \/ /\ component = "sandbox" /\ SandboxNext
       /\ UNCHANGED <<component, vars, plannerVars, callVars, environmentVars>>
    \/ /\ component = "environment" /\ EnvironmentNext
       /\ UNCHANGED <<component, vars, plannerVars, callVars, sandboxVars>>

(* The fairness of each component, while it is the one that runs.          *)
AgentsFairness ==
    /\ \A w \in Workers :
          /\ WF_vars(component = "queue" /\ Protocol(w))
          /\ WF_vars(component = "queue" /\ Restart(w))
    /\ WF_vars(component = "queue" /\ Tick)
    /\ \A r \in Requests :
          /\ WF_plannerVars(component = "planner" /\ RequestCommit(r))
          /\ WF_plannerVars(component = "planner" /\ Lease(r))
          /\ WF_plannerVars(component = "planner" /\ Handle(r))
          /\ WF_plannerVars(component = "planner" /\ at[r] = "dead" /\ Expire(r))
    /\ \A c \in Calls :
          /\ WF_callVars(component = "model" /\ WorkerStep(c))
          /\ WF_callVars(component = "model" /\ GatewayStep(c))
    /\ \A r \in StageRuns : WF_sandboxVars(component = "sandbox" /\ Proceeds(r))
    /\ WF_environmentVars(component = "environment" /\ BoxStep)
    /\ WF_environmentVars(component = "environment" /\ CoordinatorStep)
    /\ WF_environmentVars(component = "environment" /\ ExpireSome)

AgentsSpec == AgentsInit /\ [][AgentsNext]_agentsVars /\ AgentsFairness

(* Whatever was asked for comes to an end: the queue has no lease and no   *)
(* job waiting, no request of the planner is under way, no call of a model *)
(* is waited for, no run of a stage is open, and an attempt is verified,   *)
(* blocked with a reason or stopped.                                       *)
AgentsSettle ==
    []<>CASE component = "queue"       -> JobsAtRest
          [] component = "planner"     -> RequestsAtRest
          [] component = "model"       -> CallsAtRest
          [] component = "sandbox"     -> RunsAtRest
          [] component = "environment" -> AttemptAtRest
=============================================================================

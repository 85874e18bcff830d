---------------------------- MODULE ModelSelection ----------------------------
(***************************************************************************)
(* Which models work for a task (app/model_settings.py): the defaults, the *)
(* selection a task is bound to, the authorization that freezes it and the *)
(* jobs that are bound to a model when they are enqueued.                  *)
(*                                                                         *)
(* Requests are handled by threads that read, and write later in a         *)
(* transaction of their own.  The reading and the writing are two steps    *)
(* where the code does not repeat under the write lock what it read.  What *)
(* a stop cancels and what an attempt does besides asking models for       *)
(* changes and reviews is one step here; AutomationLoop and PlanApproval   *)
(* take it apart.                                                          *)
(***************************************************************************)
EXTENDS Naturals, FiniteSets, Sequences

CONSTANTS
    Handlers,      \* threads that handle requests
    Profiles,      \* versions of profiles; what they replace stays
    Offers,        \* what the pages offer
    Environment,   \* the model of a stage without a profile
    MaxSaves,      \* bound: changes of the settings
    MaxBindings,   \* bound: versions of a task's selection
    MaxHistory,    \* bound: events
    MaxRecords     \* bound: changes, versions, events and jobs together

ASSUME SelectionAssumption ==
    /\ IsFiniteSet(Handlers) /\ Environment \notin Profiles
    /\ Offers \subseteq [plan : Profiles \cup {Environment}, code : Profiles \cup {Environment}]
    /\ {MaxSaves, MaxBindings, MaxHistory, MaxRecords} \subseteq Nat

VARIABLES
    defaults,     \* latest version of the default selection
    saves,        \* how often the settings were changed
    bindings,     \* versions of the selection of the task
    history,      \* workbench events of the task
    mode,         \* planning, executing
    shifts,       \* transitions the state of the task has made
    taskJobs,     \* jobs of the task
    late,         \* who had read the task as idle when it was put to work
    handling,     \* where each request is
    advancing     \* where the coordinator is

selectionVars == <<defaults, saves, bindings, history, mode, shifts, taskJobs, late, handling,
                   advancing>>

(* The planning of a task is one stage, what implements and reviews        *)
(* another.                                                                *)
Unset == [plan |-> Environment, code |-> Environment]
Models == Profiles \cup {Environment}
Selection == [plan : Models, code : Models]

Bound == bindings # <<>>
Binding == IF Bound THEN bindings[Len(bindings)] ELSE Unset
(* task_profiles(bind=True).                                               *)
WithDefaults == IF ~Bound /\ defaults # Unset THEN <<defaults>> ELSE bindings

NoHandler == [pc |-> "free", to |-> Unset, seen |-> 0, plan |-> 0, target |-> Environment]
To(c, ask) == handling' = [handling EXCEPT ![c] = ask]
Leave(c) == To(c, NoHandler)

Event(kind, version) == [kind |-> kind, version |-> version, plan |-> 0, basis |-> 0,
                         code |-> Environment, seen |-> 0]
Log(event) == history' = Append(history, event)
IsLast(i, kind) ==
    /\ i \in DOMAIN history /\ history[i].kind = kind
    /\ \A k \in DOMAIN history : history[k].kind = kind => k <= i
HasRoom == /\ Len(history) < MaxHistory
           /\ saves + Len(bindings) + Len(history) + Len(taskJobs) < MaxRecords

Job(kind, model) == [kind |-> kind, model |-> model, active |-> TRUE, shift |-> shifts]
JobOver(j) == taskJobs' = [taskJobs EXCEPT ![j].active = FALSE]

AtRest == \A j \in DOMAIN taskJobs : ~taskJobs[j].active
Planning == mode = "planning"

(* Every change counts, whatever it changed.                               *)
ModelsChangedAfter(i) ==
    \E k \in DOMAIN history : k > i /\ history[k].kind = "model_changed"

(* In the second case a task authorized before there were model settings   *)
(* is still being executed, with the settings bootstrap derived.           *)
SelectionInit ==
    /\ saves = 0 /\ defaults \in Offers \ {Unset}
    /\ bindings = <<>> /\ shifts = 0 /\ taskJobs = <<>> /\ late = {}
    /\ \/ history = <<>> /\ mode = "planning"
       \/ /\ history = <<[Event("plan_bound", 0) EXCEPT !.plan = 1],
                         [Event("execution_authorized", 0) EXCEPT !.basis = 1]>>
          /\ mode = "executing"
    /\ handling = [c \in Handlers |-> NoHandler]
    /\ advancing = "idle"

-----------------------------------------------------------------------------
(* The settings page, refused if it did not show the latest version.       *)
SaveSettings(sel) ==
    /\ saves < MaxSaves /\ saves' = saves + 1
    /\ defaults' = sel
    /\ UNCHANGED <<bindings, history, mode, shifts, taskJobs, late, handling, advancing>>

(* Mutant of AskSelection: while the task is being executed.               *)
AskSelectionAnyTime(c, sel) ==
    /\ handling[c].pc = "free"
    /\ To(c, [NoHandler EXCEPT !.pc = "select", !.to = sel, !.seen = Len(bindings)])
    /\ UNCHANGED <<defaults, saves, bindings, history, mode, shifts, taskJobs, late,
                   advancing>>

(* task_models: a task that is planned and idle.  Neither is asked again   *)
(* when the selection is written.                                          *)
AskSelection(c, sel) ==
    /\ handling[c].pc = "free" /\ Planning /\ AtRest
    /\ To(c, [NoHandler EXCEPT !.pc = "select", !.to = sel, !.seen = Len(bindings)])
    /\ UNCHANGED <<defaults, saves, bindings, history, mode, shifts, taskJobs, late,
                   advancing>>

(* A version of the selection over the one the page showed; the selection  *)
(* that is bound already leaves a receipt only.                            *)
Select(c) ==
    LET a == handling[c] IN
    /\ a.pc = "select" /\ HasRoom /\ Len(bindings) < MaxBindings
    /\ \/ /\ a.seen # Len(bindings) /\ UNCHANGED <<bindings, history>>
       \/ /\ a.seen = Len(bindings) /\ Bound /\ a.to = Binding
          /\ Log(Event("model_selection_applied", a.seen))
          /\ UNCHANGED bindings
       \/ /\ a.seen = Len(bindings) /\ ~(Bound /\ a.to = Binding)
          /\ bindings' = Append(bindings, a.to)
          /\ Log(Event("model_changed", a.seen + 1))
    /\ Leave(c)
    /\ UNCHANGED <<defaults, saves, mode, shifts, taskJobs, late, advancing>>

(* message: a request to plan, with a profile it names or with the one     *)
(* that is bound.                                                          *)
AskPlan(c, target) ==
    /\ handling[c].pc = "free" /\ Planning /\ AtRest
    /\ To(c, [pc |-> "plan", seen |-> Len(bindings),
              to |-> IF Bound THEN Binding ELSE defaults,
              plan |-> 0, target |-> target])
    /\ UNCHANGED <<defaults, saves, bindings, history, mode, shifts, taskJobs, late,
                   advancing>>

(* The request, once it binds or switches, holds the write lock and is     *)
(* refused if the task is at work by then; otherwise its job is enqueued   *)
(* after what was read before.                                             *)
CommitPlan(c) ==
    LET a == handling[c]
        binds == a.seen = 0 /\ a.to # Unset
        switches == a.target \notin {Environment, a.to.plan}
        base == IF binds THEN Append(bindings, a.to) ELSE bindings
        next == IF switches THEN Append(base, [a.to EXCEPT !.plan = a.target]) ELSE base
        model == IF a.target # Environment THEN a.target
                 ELSE IF next = <<>> THEN Environment ELSE next[Len(next)].plan
    IN
    /\ a.pc = "plan" /\ HasRoom /\ Len(next) <= MaxBindings
    /\ \/ /\ binds => ~Bound
          /\ binds \/ switches => Planning /\ AtRest
          /\ bindings' = next
          /\ history' = IF switches THEN Append(history, Event("model_changed", Len(next)))
                        ELSE history
          /\ taskJobs' = Append(taskJobs, Job("plan", model))
       \/ /\ (binds /\ Bound) \/ ((binds \/ switches) /\ ~(Planning /\ AtRest))
          /\ UNCHANGED <<bindings, history, taskJobs>>
    /\ Leave(c)
    /\ UNCHANGED <<defaults, saves, mode, shifts, late, advancing>>

(* persist_plan: the plan is a new one, or the same and bound anew if the  *)
(* models did not change.                                                  *)
LatestPlan(p) ==
    IF \E i \in DOMAIN history : history[i].kind = "plan_bound"
    THEN \E i \in DOMAIN history : IsLast(i, "plan_bound") /\ p = history[i].plan
    ELSE p = 0

BindPlan ==
    /\ HasRoom
    /\ \E p \in 0..MaxRecords :
         /\ LatestPlan(p)
         /\ \/ Log([Event("plan_bound", Len(bindings)) EXCEPT !.plan = p + 1])
            \/ /\ \E i \in DOMAIN history : IsLast(i, "plan_bound") /\ ~ModelsChangedAfter(i)
               /\ Log([Event("plan_bound", Len(bindings)) EXCEPT !.plan = p])

(* The planner ends: with a plan, if the task is where it was, or without. *)
EndPlanning(j) ==
    /\ taskJobs[j].kind = "plan" /\ taskJobs[j].active
    /\ JobOver(j)
    /\ \/ Planning /\ taskJobs[j].shift = shifts /\ BindPlan
       \/ UNCHANGED history
    /\ UNCHANGED <<defaults, saves, bindings, mode, shifts, late, handling, advancing>>

(* A plan the user edited.                                                 *)
SavePlan ==
    /\ Planning /\ AtRest /\ \E j \in DOMAIN taskJobs : taskJobs[j].kind = "plan"
    /\ BindPlan
    /\ UNCHANGED <<defaults, saves, bindings, mode, shifts, taskJobs, late, handling,
                   advancing>>

(* execute: the selection the page showed is the one that is bound.        *)
AskExecution(c) ==
    /\ handling[c].pc = "free" /\ (Bound \/ defaults = Unset)
    /\ \E i \in DOMAIN history :
         /\ IsLast(i, "plan_bound")
         /\ To(c, [NoHandler EXCEPT !.pc = "execute", !.seen = Len(bindings),
                                    !.plan = history[i].plan])
    /\ UNCHANGED <<defaults, saves, bindings, history, mode, shifts, taskJobs, late,
                   advancing>>

(* Mutant of Authorizes: the models are not asked for.                     *)
AuthorizesAnyModels(a, i) ==
    /\ Planning /\ AtRest
    /\ IsLast(i, "plan_bound") /\ history[i].plan = a.plan

(* authorize_execution, under the write lock: a plan that is still the     *)
(* latest, a task that is idle, and no change of models since the plan was *)
(* bound.                                                                  *)
Authorizes(a, i) ==
    /\ Planning /\ AtRest
    /\ IsLast(i, "plan_bound") /\ history[i].plan = a.plan
    /\ ~ModelsChangedAfter(i)

Selecting == {c \in Handlers : handling[c].pc = "select"}

AuthorizeExecution(c) ==
    LET a == handling[c] IN
    /\ a.pc = "execute" /\ HasRoom
    /\ \/ \E i \in DOMAIN history :
            /\ Authorizes(a, i)
            /\ bindings' = WithDefaults
            /\ Log([Event("execution_authorized", Len(WithDefaults)) EXCEPT !.basis = i,
                    !.code = (IF Bound THEN Binding ELSE defaults).code, !.seen = a.seen])
            /\ taskJobs' = Append(taskJobs, Job("start", Environment))
            /\ late' = Selecting
       \/ /\ \A i \in DOMAIN history : ~Authorizes(a, i)
          /\ UNCHANGED <<bindings, history, taskJobs, late>>
    /\ Leave(c)
    /\ UNCHANGED <<defaults, saves, mode, shifts, advancing>>

(* The job that starts the execution, tried again by the user if it fails. *)
EndStart(j) ==
    /\ taskJobs[j].kind = "start" /\ taskJobs[j].active
    /\ JobOver(j)
    /\ \/ Planning /\ mode' = "executing" /\ shifts' = shifts + 1
       \/ UNCHANGED <<mode, shifts>>
    /\ UNCHANGED <<defaults, saves, bindings, history, late, handling, advancing>>

RetryStart(j) ==
    /\ taskJobs[j].kind = "start" /\ ~taskJobs[j].active /\ Planning /\ taskJobs[j].shift = shifts
    /\ \E k \in DOMAIN history :
         /\ IsLast(k, "execution_authorized")
         /\ \A i \in DOMAIN history : history[i].kind = "stop_requested" => i < k
    /\ \A i \in DOMAIN taskJobs : taskJobs[i].kind = "start" => i <= j
    /\ taskJobs' = [taskJobs EXCEPT ![j].active = TRUE]
    /\ late' = late \cup Selecting
    /\ UNCHANGED <<defaults, saves, bindings, history, mode, shifts, handling, advancing>>

(* A message of the conversation binds the defaults to the task, whatever  *)
(* the task is doing, so that a model can be asked what it means.          *)
BindForMessage ==
    /\ bindings # WithDefaults /\ HasRoom
    /\ bindings' = WithDefaults
    /\ UNCHANGED <<defaults, saves, history, mode, shifts, taskJobs, late, handling,
                   advancing>>

-----------------------------------------------------------------------------
(* The coordinator finds the models that were authorized, or blocks the    *)
(* execution (model_stale).                                                *)
IsBlocked == \E k \in DOMAIN history : /\ history[k].kind = "automation_blocked"
                                       /\ \A i \in DOMAIN history :
                                            history[i].kind = "execution_authorized" => i < k

(* Mutant of AsAuthorized: whatever is bound will do.                      *)
AnyIdentity(k) == history[k].kind = "execution_authorized"

(* task_identity.                                                          *)
AsAuthorized(k) == history[k].code = Binding.code

ReadTick ==
    /\ mode = "executing" /\ advancing = "idle" /\ ~IsBlocked /\ AtRest /\ HasRoom
    /\ \E k \in DOMAIN history :
         /\ IsLast(k, "execution_authorized")
         /\ \/ AsAuthorized(k) /\ advancing' = "enqueue" /\ UNCHANGED history
            \/ /\ ~AsAuthorized(k) /\ Log(Event("automation_blocked", Len(bindings)))
               /\ UNCHANGED advancing
    /\ UNCHANGED <<defaults, saves, bindings, mode, shifts, taskJobs, late, handling>>

(* bind_job_model: the job of a change or a review is bound to what the    *)
(* task is bound to when it is enqueued.                                   *)
EnqueueCode ==
    /\ advancing = "enqueue" /\ HasRoom
    /\ taskJobs' = Append(taskJobs, Job("code", Binding.code))
    /\ advancing' = "idle"
    /\ UNCHANGED <<defaults, saves, bindings, history, mode, shifts, late, handling>>

EndCode(j) ==
    /\ taskJobs[j].kind = "code" /\ taskJobs[j].active
    /\ JobOver(j)
    /\ UNCHANGED <<defaults, saves, bindings, history, mode, shifts, late, handling,
                   advancing>>

(* A stop, the cancellations it leads to and the return to planning.       *)
Stop ==
    /\ (~Planning \/ ~AtRest) /\ HasRoom
    /\ Log(Event("stop_requested", Len(bindings)))
    /\ taskJobs' = [j \in DOMAIN taskJobs |-> [taskJobs[j] EXCEPT !.active = FALSE]]
    /\ mode' = "planning" /\ shifts' = IF Planning THEN shifts ELSE shifts + 1
    /\ advancing' = "idle"
    /\ UNCHANGED <<defaults, saves, bindings, late, handling>>

SelectionNext ==
    \/ SavePlan \/ BindForMessage \/ ReadTick \/ EnqueueCode \/ Stop
    \/ \E c \in Handlers :
         \/ Select(c) \/ CommitPlan(c) \/ AskExecution(c) \/ AuthorizeExecution(c)
         \/ \E sel \in Offers : AskSelection(c, sel)
         \/ \E target \in Models : AskPlan(c, target)
    \/ \E sel \in Offers : SaveSettings(sel)
    \/ \E j \in DOMAIN taskJobs : EndPlanning(j) \/ EndStart(j) \/ RetryStart(j) \/ EndCode(j)

SelectionSpec == SelectionInit /\ [][SelectionNext]_selectionVars

-----------------------------------------------------------------------------
(* What was authorized is what the plan was bound under and what the page  *)
(* showed: nobody changed the models in between, there and back included.  *)
(* Only the defaults may have been bound in between, once, to a task that  *)
(* had no selection (authorize_execution, models_changed_after).           *)
AuthorizedAsConfirmed ==
    \A k \in DOMAIN history :
        history[k].kind = "execution_authorized" =>
            LET e == history[k]
                adopted == /\ e.version = 1
                           /\ \A i \in 1..k : history[i].kind # "model_changed"
            IN
            /\ e.code = IF e.version = 0 THEN Environment ELSE bindings[e.version].code
            /\ \/ history[e.basis].version = e.version
               \/ history[e.basis].version = 0 /\ adopted
            /\ \/ e.seen = e.version
               \/ e.seen = 0 /\ adopted

(* The jobs of one execution that another model runs than was authorized:  *)
(* one for each request that had read the task as idle before it was put   *)
(* to work and writes only now, and one if the task had no selection: the  *)
(* coordinator, which compares and then enqueues, finds the next one out   *)
(* (task_models, _advance, bind_job_model).                                *)
Strays(k) ==
    {j \in DOMAIN taskJobs : /\ taskJobs[j].kind = "code" /\ taskJobs[j].shift = shifts
                             /\ taskJobs[j].model # history[k].code}
StrayWorkIsBounded ==
    mode = "executing" =>
        \A k \in DOMAIN history : IsLast(k, "execution_authorized") =>
            Cardinality(Strays(k)) <=
                Cardinality(late) + (IF history[k].version = 0 THEN 1 ELSE 0)
=============================================================================

--------------------------- MODULE MCContribution ---------------------------
(***************************************************************************)
(* Instances for TLC of the components the main process coordinates: the   *)
(* approval of a plan, the automation of its execution, the proposals for  *)
(* a change set, the conversation of a task and its deletion.  They share  *)
(* no variable: a behaviour of this module is a behaviour of one of them,  *)
(* chosen in the initial state and named by `component'; the others rest.  *)
(***************************************************************************)
EXTENDS PlanApproval, AutomationLoop, ProposalLineage, Conversation, TaskErasure,
        TLC

CONSTANTS t1, t2, a, s

(* Both tasks may store s; only the first may store a.                     *)
MCStores == t1 :> {a, s} @@ t2 :> {s}

VARIABLE component

contributionVars == <<component, planVars, autoVars, lineageVars, conversationVars,
                      erasureVars>>

ContributionInit ==
    /\ component \in {"plan", "automation", "lineage", "conversation", "erasure"}
    /\ PlanInit /\ AutoInit /\ LineageInit /\ ConversationInit /\ ErasureInit

ContributionNext ==
    \/ /\ component = "plan" /\ PlanNext
       /\ UNCHANGED <<component, autoVars, lineageVars, conversationVars, erasureVars>>
    \/ /\ component = "automation" /\ AutoNext
       /\ UNCHANGED <<component, planVars, lineageVars, conversationVars, erasureVars>>
    \/ /\ component = "lineage" /\ LineageNext
       /\ UNCHANGED <<component, planVars, autoVars, conversationVars, erasureVars>>
    \/ /\ component = "conversation" /\ ConversationNext
       /\ UNCHANGED <<component, planVars, autoVars, lineageVars, erasureVars>>
    \/ /\ component = "erasure" /\ ErasureNext
       /\ UNCHANGED <<component, planVars, autoVars, lineageVars, conversationVars>>

(* The fairness of each component, for the behaviours of that component.   *)
ContributionFairness ==
    /\ WF_autoVars(component = "automation" /\ ReadTick)
    /\ WF_autoVars(component = "automation" /\ CommitTick)
    /\ WF_autoVars(component = "automation" /\ RunSome)
    /\ WF_autoVars(component = "automation" /\ FinishSome)
    /\ WF_lineageVars(component = "lineage" /\ BlockLineage)
    /\ WF_lineageVars(component = "lineage" /\ Apply)
    /\ \A c \in Coders : WF_lineageVars(component = "lineage" /\ CoderStep(c))
    /\ WF_conversationVars(component = "conversation" /\ ConversationTick)
    /\ WF_conversationVars(component = "conversation" /\ TurnStep)
    /\ \A i \in 1..MaxMessages :
          WF_conversationVars(component = "conversation" /\ i \in DOMAIN messages /\ Work(i))
    /\ \A t \in Tasks : WF_erasureVars(component = "erasure" /\ EraserStep(t))

ContributionSpec ==
    ContributionInit /\ [][ContributionNext]_contributionVars /\ ContributionFairness

(* Whatever happens on the way, a lineage ends with its proposal applied,  *)
(* with its failure reported to the user, or stopped.                      *)
LineagesSettle == <>[](component = "lineage" => LineageSettled)

(* Nothing that was started is left hanging: an automated attempt, a       *)
(* lineage of proposals, a message and a deletion all come to their end    *)
(* through deaths of workers, failures and stops.                          *)
ContributionSettles ==
    AutomationSettles /\ LineagesSettle /\ MessagesSettle /\ DeletionSettles
=============================================================================

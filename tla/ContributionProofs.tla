-------------------------- MODULE ContributionProofs --------------------------
(***************************************************************************)
(* Theorems about what the main process coordinates: the erasure of tasks  *)
(* (TaskErasure), the approval of a plan (PlanApproval), the calls and     *)
(* corrections of a proposal (ProposalLineage), the conversation of a task *)
(* (Conversation) and the automation of its attempts (AutomationLoop), for *)
(* every set of tasks, contents and workers and every bound.  The five     *)
(* modules share no variable.                                              *)
(***************************************************************************)
EXTENDS PlanApproval, AutomationLoop, ProposalLineage, Conversation, TaskErasure,
        FiniteSetTheorems, SequenceTheorems, TLAPS

-----------------------------------------------------------------------------
(* TaskErasure: a task is erased when it is deleted and nothing works on   *)
(* any task, and what is unlinked is named by no other task.               *)

ErasureTables ==
    /\ rows \subseteq Tasks
    /\ visible = [t \in Tasks |-> visible[t]] /\ taskWork = [t \in Tasks |-> taskWork[t]]
    /\ storing = [t \in Tasks |-> storing[t]] /\ named = [t \in Tasks |-> named[t]]
    /\ cleanup = [t \in Tasks |-> cleanup[t]]
    /\ \A t \in Tasks : cleanup[t] = [f \in {"state", "attempts"} |-> cleanup[t][f]]
    /\ eraser = [f \in {"task", "doomed", "locked"} |-> eraser[f]]
    /\ eraser.locked = TRUE \/ eraser.locked = FALSE

(* A content that is about to be committed is on disk.                     *)
WorkInv ==
    \A t \in Tasks :
        /\ taskWork[t] = "active" => t \in rows
        /\ taskWork[t] = "idle" => storing[t] = NoContent
        /\ taskWork[t] = "active" /\ storing[t] # NoContent => storing[t] \in files

(* The clean-up of a task is there while the task is deleted and exists;   *)
(* the eraser works on one that runs.                                      *)
CleanupInv ==
    /\ \A t \in Tasks : cleanup[t].state # "none" => t \in rows /\ visible[t].state = "deleted"
    /\ eraser.task # NoTask => eraser.task \in Tasks /\ cleanup[eraser.task].state = "running"

(* While it holds the write lock, nothing is active, and what is left to   *)
(* unlink no other task names.                                             *)
UnlinkInv ==
    eraser.locked =>
        /\ eraser.task # NoTask
        /\ ~JobsActive
        /\ eraser.doomed \subseteq Doomed(eraser.task)

ErasureInv ==
    /\ ErasureTables /\ WorkInv /\ CleanupInv /\ UnlinkInv
    /\ InactiveIsSettled /\ SurvivorsKeepFiles

LEMMA ErasureInitial == ErasureInit => ErasureInv
<1> SUFFICES ASSUME ErasureInit
             PROVE  ErasureInv
  OBVIOUS
<1>1. ErasureTables /\ UnlinkInv /\ eraser.task = NoTask
  BY DEF ErasureInit, ErasureTables, UnlinkInv, Resting
<1>2. WorkInv /\ CleanupInv /\ InactiveIsSettled /\ SurvivorsKeepFiles
  BY <1>1 DEF ErasureInit, WorkInv, CleanupInv, InactiveIsSettled, SurvivorsKeepFiles
<1> QED BY <1>1, <1>2 DEF ErasureInv

(* What a step makes of the clean-up job of task t.                        *)
CleanupTo(t, state) ==
    /\ cleanup' = [u \in Tasks |-> cleanup'[u]]
    /\ cleanup'[t] = [f \in {"state", "attempts"} |-> cleanup'[t][f]]
    /\ cleanup'[t].state = state
    /\ \A u \in Tasks : u # t => cleanup'[u] = cleanup[u]

LEMMA CleanupSet ==
    ASSUME ErasureTables, NEW t \in Tasks, NEW state, cleanup' = [cleanup EXCEPT ![t].state = state]
    PROVE  CleanupTo(t, state)
BY DEF ErasureTables, CleanupTo

(* The work on tasks, under the lock of the database or beside the eraser. *)
LEMMA WorkSteps ==
    ASSUME ErasureInv, NEW t \in Tasks,
           EnqueueWork(t) \/ Owe(t) \/ SettleDebt(t) \/ CommitWork(t) \/ LoseWork(t)
    PROVE  ErasureInv'
<1> USE DEF cleanupVars, diskVars, Unlocked
<1>1. ErasureTables /\ WorkInv /\ CleanupInv /\ UnlinkInv /\ InactiveIsSettled /\ SurvivorsKeepFiles
  BY DEF ErasureInv
<1>2. ~eraser.locked /\ eraser' = eraser /\ cleanup' = cleanup /\ rows' = rows /\ visible' = visible
  BY DEF EnqueueWork, Owe, SettleDebt, CommitWork, LoseWork
<1>3. UnlinkInv' /\ CleanupInv'
  BY <1>1, <1>2 DEF UnlinkInv, CleanupInv
<1>4. ASSUME NEW state, taskWork' = [taskWork EXCEPT ![t] = state]
      PROVE  /\ taskWork' = [u \in Tasks |-> taskWork'[u]] /\ taskWork'[t] = state
             /\ \A u \in Tasks : u # t => taskWork'[u] = taskWork[u]
  BY <1>1, <1>4 DEF ErasureTables
<1>5. CASE EnqueueWork(t)
  <2>1. /\ taskWork' = [taskWork EXCEPT ![t] = "active"] /\ ActiveTask(t) /\ taskWork[t] = "idle"
        /\ UNCHANGED <<owed, storing, named, artifacts, files>>
    BY <1>5 DEF EnqueueWork
  <2>2. SurvivorsKeepFiles'
    BY <1>1, <1>2, <2>1 DEF SurvivorsKeepFiles
  <2>3. WorkInv' /\ InactiveIsSettled'
    BY <1>1, <1>2, <1>4, <2>1 DEF ActiveTask, ErasureTables, WorkInv, InactiveIsSettled
  <2>4. ErasureTables'
    BY <1>1, <1>2, <1>4, <2>1 DEF ErasureTables
  <2> QED BY <1>3, <2>2, <2>3, <2>4 DEF ErasureInv
<1>6. CASE Owe(t) \/ SettleDebt(t)
  BY <1>1, <1>2, <1>3, <1>6 DEF Owe, SettleDebt, ActiveTask, ErasureInv, ErasureTables, WorkInv,
     InactiveIsSettled, SurvivorsKeepFiles
<1>7. CASE CommitWork(t)
  <2>1. /\ taskWork' = [taskWork EXCEPT ![t] = "idle"] /\ files' = files /\ owed' = owed
        /\ storing' = [storing EXCEPT ![t] = NoContent]
    BY <1>7 DEF CommitWork
  <2>2. taskWork' = [u \in Tasks |-> taskWork'[u]] /\ storing' = [u \in Tasks |-> storing'[u]]
    BY <1>1, <1>4, <2>1 DEF ErasureTables
  <2>3. ErasureTables' /\ SurvivorsKeepFiles'
    <3>1. CASE UNCHANGED <<artifacts, named>>
      <4>1. SurvivorsKeepFiles'
        BY <1>1, <1>2, <2>1, <3>1 DEF SurvivorsKeepFiles
      <4>2. ErasureTables'
        BY <1>1, <1>2, <2>2, <3>1 DEF ErasureTables
      <4> QED BY <4>1, <4>2
    <3>2. CASE /\ taskWork[t] = "active" /\ storing[t] # NoContent
               /\ artifacts' = artifacts \cup {storing[t]}
               /\ named' = [named EXCEPT ![t] = named[t] \cup {storing[t]}]
      <4>1. ErasureTables'
        <5>1. named' = [u \in Tasks |-> named'[u]]
          BY <1>1, <3>2 DEF ErasureTables
        <5> QED BY <1>1, <1>2, <2>2, <5>1 DEF ErasureTables
      <4>2. /\ storing[t] \in files /\ named'[t] = named[t] \cup {storing[t]}
            /\ \A u \in Tasks : u # t => named'[u] = named[u]
        BY <1>1, <3>2 DEF WorkInv, ErasureTables
      <4>3. SurvivorsKeepFiles'
        BY <1>1, <1>2, <2>1, <3>2, <4>2 DEF ErasureTables, SurvivorsKeepFiles
      <4> QED BY <4>1, <4>3
    <3> QED BY <1>7, <3>1, <3>2 DEF CommitWork
  <2>4. WorkInv' /\ InactiveIsSettled'
    BY <1>1, <1>2, <1>4, <2>1 DEF ErasureTables, WorkInv, InactiveIsSettled
  <2> QED BY <1>3, <2>3, <2>4 DEF ErasureInv
<1>8. CASE LoseWork(t)
  <2>1. /\ taskWork' = [taskWork EXCEPT ![t] = "lost"]
        /\ UNCHANGED <<owed, storing, named, artifacts, files>> /\ taskWork[t] = "active"
    BY <1>8 DEF LoseWork
  <2>2. SurvivorsKeepFiles'
    BY <1>1, <1>2, <2>1 DEF SurvivorsKeepFiles
  <2>3. WorkInv' /\ InactiveIsSettled'
    BY <1>1, <1>2, <1>4, <2>1 DEF ErasureTables, WorkInv, InactiveIsSettled
  <2>4. ErasureTables'
    BY <1>1, <1>2, <1>4, <2>1 DEF ErasureTables
  <2> QED BY <1>3, <2>2, <2>3, <2>4 DEF ErasureInv
<1> QED BY <1>5, <1>6, <1>7, <1>8

LEMMA StoreFileStep ==
    ASSUME ErasureInv, NEW t \in Tasks, NEW c, StoreFile(t, c)
    PROVE  ErasureInv'
<1>1. /\ ErasureTables /\ WorkInv /\ CleanupInv /\ UnlinkInv /\ InactiveIsSettled
      /\ SurvivorsKeepFiles
  BY DEF ErasureInv
<1>2. /\ taskWork[t] \in {"active", "lost"} /\ storing' = [storing EXCEPT ![t] = c]
      /\ files' = files \cup {c}
      /\ UNCHANGED <<rows, visible, taskWork, owed, named, artifacts, cleanup, eraser>>
  BY DEF StoreFile, cleanupVars
<1>3. UnlinkInv' /\ CleanupInv' /\ InactiveIsSettled' /\ SurvivorsKeepFiles'
  BY <1>1, <1>2 DEF UnlinkInv, CleanupInv, InactiveIsSettled, SurvivorsKeepFiles, JobsActive,
     Doomed
<1>4. ErasureTables' /\ WorkInv'
  BY <1>1, <1>2 DEF ErasureTables, WorkInv
<1> QED BY <1>3, <1>4 DEF ErasureInv

(* The visibility of a task, and the request to clean up.                  *)
LEMMA VisibilitySteps ==
    ASSUME ErasureInv, NEW t \in Tasks,
           Archive(t) \/ RestoreTask(t) \/ Delete(t) \/ DeleteAgain(t)
    PROVE  ErasureInv'
<1> USE DEF cleanupVars, diskVars, taskVars, Unlocked
<1>1. ErasureTables /\ WorkInv /\ CleanupInv /\ UnlinkInv /\ InactiveIsSettled /\ SurvivorsKeepFiles
  BY DEF ErasureInv
<1>2. /\ ~eraser.locked /\ eraser' = eraser /\ rows' = rows /\ taskWork' = taskWork /\ t \in rows
      /\ owed' = owed /\ storing' = storing /\ named' = named /\ artifacts' = artifacts
      /\ files' = files
  BY DEF Archive, RestoreTask, Delete, DeleteAgain, Change
<1>3. UnlinkInv' /\ WorkInv'
  BY <1>1, <1>2 DEF UnlinkInv, WorkInv
<1>4. ASSUME NEW from, NEW to, Change(t, from, to)
      PROVE  /\ visible[t].state = from /\ visible' = [u \in Tasks |-> visible'[u]]
             /\ visible'[t].state = to
             /\ \A u \in Tasks : u # t => visible'[u] = visible[u]
  BY <1>1, <1>4 DEF Change, ErasureTables
<1>5. CASE Archive(t) \/ RestoreTask(t)
  <2>1. PICK from \in {"active", "archived"}, to \in {"active", "archived"} :
           /\ Change(t, from, to) /\ cleanup' = cleanup
           /\ to # "active" => taskWork[t] # "active" /\ t \notin owed
    BY <1>5 DEF Archive, RestoreTask
  <2>2. InactiveIsSettled' /\ SurvivorsKeepFiles'
    BY <1>1, <1>2, <1>4, <2>1 DEF InactiveIsSettled, SurvivorsKeepFiles, ErasureTables
  <2>3. ErasureTables' /\ CleanupInv'
    BY <1>1, <1>2, <1>4, <2>1 DEF ErasureTables, CleanupInv
  <2> QED BY <1>3, <2>2, <2>3 DEF ErasureInv
<1>6. CASE Delete(t)
  <2>1. /\ Change(t, "archived", "deleted") /\ taskWork[t] # "active" /\ t \notin owed
        /\ cleanup' = [cleanup EXCEPT ![t].state = "queued"]
    BY <1>6 DEF Delete
  <2>2. cleanup[t].state = "none" /\ eraser.task # t
    BY <1>1, <1>4, <2>1, ErasureAssumption DEF CleanupInv
  <2>3. InactiveIsSettled' /\ SurvivorsKeepFiles'
    <3>1. rows \subseteq Tasks
      BY <1>1 DEF ErasureTables
    <3>2. visible'[t].state = "deleted" /\ \A u \in Tasks : u # t => visible'[u] = visible[u]
      BY <1>4, <2>1
    <3>3. InactiveIsSettled'
      BY <1>1, <1>2, <2>1, <3>1, <3>2 DEF InactiveIsSettled
    <3>4. SurvivorsKeepFiles'
      BY <1>1, <1>2, <3>1, <3>2 DEF SurvivorsKeepFiles
    <3> QED BY <3>3, <3>4
  <2>4. ErasureTables' /\ CleanupInv'
    <3>1. CleanupTo(t, "queued")
      BY <1>1, <2>1, CleanupSet
    <3>2. CleanupInv'
      BY <1>1, <1>2, <1>4, <2>1, <2>2, <3>1 DEF CleanupInv, CleanupTo
    <3>3. ErasureTables'
      BY SMTT(60), <1>1, <1>2, <1>4, <2>1, <3>1 DEF ErasureTables, CleanupTo
    <3> QED BY <3>2, <3>3
  <2> QED BY <1>3, <2>3, <2>4 DEF ErasureInv
<1>7. CASE DeleteAgain(t)
  <2>1. /\ visible[t].state = "deleted" /\ visible' = visible /\ cleanup[t].state = "ended"
        /\ cleanup' = [cleanup EXCEPT ![t].state = "queued"]
    BY <1>7 DEF DeleteAgain
  <2>2. InactiveIsSettled' /\ SurvivorsKeepFiles'
    BY <1>1, <1>2, <2>1 DEF InactiveIsSettled, SurvivorsKeepFiles
  <2>3. ErasureTables' /\ CleanupInv'
    <3>1. CleanupTo(t, "queued")
      BY <1>1, <2>1, CleanupSet
    <3>2. CleanupInv'
      BY <1>1, <1>2, <2>1, <3>1 DEF CleanupInv, CleanupTo
    <3>3. ErasureTables'
      BY <1>1, <1>2, <2>1, <3>1 DEF ErasureTables, CleanupTo
    <3> QED BY <3>2, <3>3
  <2> QED BY <1>3, <2>2, <2>3 DEF ErasureInv
<1> QED BY <1>5, <1>6, <1>7

(* The tables the eraser does not write.                                   *)
LEMMA TaskTablesKept ==
    ASSUME ErasureTables, UNCHANGED <<rows, visible, taskWork, storing, named>>,
           cleanup' = [t \in Tasks |-> cleanup'[t]],
           \A t \in Tasks : cleanup'[t] = [f \in {"state", "attempts"} |-> cleanup'[t][f]],
           eraser' = [f \in {"task", "doomed", "locked"} |-> eraser'[f]],
           eraser'.locked = TRUE \/ eraser'.locked = FALSE
    PROVE  ErasureTables'
BY DEF ErasureTables

LEMMA RestingIs ==
    /\ Resting = [f \in {"task", "doomed", "locked"} |-> Resting[f]]
    /\ Resting.task = NoTask /\ Resting.locked = FALSE
BY DEF Resting

(* A clean-up that is queued again, is leased or fails.                    *)
LEMMA CleanupSteps ==
    ASSUME ErasureInv, NEW t \in Tasks,
           LeaseCleanup(t) \/ RecoverCleanup(t) \/ (FailCleanup(t) /\ eraser.task = t)
    PROVE  ErasureInv'
<1> USE DEF taskVars
<1>1. ErasureTables /\ WorkInv /\ CleanupInv /\ UnlinkInv /\ InactiveIsSettled /\ SurvivorsKeepFiles
  BY DEF ErasureInv
<1>2. UNCHANGED <<rows, visible, taskWork, owed, storing, named, artifacts, files>>
  BY DEF LeaseCleanup, RecoverCleanup, FailCleanup
<1>3. WorkInv' /\ InactiveIsSettled' /\ SurvivorsKeepFiles'
  BY <1>1, <1>2 DEF WorkInv, InactiveIsSettled, SurvivorsKeepFiles
<1>4. CASE LeaseCleanup(t)
  <2>1. /\ cleanup[t].state = "queued" /\ eraser = Resting
        /\ cleanup' = [cleanup EXCEPT
                          ![t] = [state |-> "running", attempts |-> cleanup[t].attempts + 1]]
        /\ eraser' = [eraser EXCEPT !.task = t]
    BY <1>4 DEF LeaseCleanup
  <2>2. CleanupTo(t, "running")
    BY <1>1, <2>1 DEF ErasureTables, CleanupTo
  <2>3. /\ eraser' = [f \in {"task", "doomed", "locked"} |-> eraser'[f]]
        /\ eraser'.task = t /\ eraser'.locked = FALSE
    BY <1>1, <2>1, RestingIs DEF ErasureTables
  <2>4. CleanupInv' /\ UnlinkInv'
    BY <1>1, <1>2, <2>1, <2>2, <2>3 DEF CleanupInv, CleanupTo, UnlinkInv
  <2>5. ErasureTables'
    BY <1>1, <1>2, <2>2, <2>3, TaskTablesKept DEF CleanupTo, ErasureTables
  <2> QED BY <1>3, <2>4, <2>5 DEF ErasureInv
<1>5. CASE RecoverCleanup(t)
  <2>1. PICK state \in {"queued", "ended"} : cleanup' = [cleanup EXCEPT ![t].state = state]
    BY <1>5 DEF RecoverCleanup
  <2>2. /\ CleanupTo(t, state) /\ eraser' = eraser /\ eraser.task # t /\ ~eraser.locked
        /\ cleanup[t].state = "running"
    BY <1>1, <1>5, <2>1, CleanupSet DEF RecoverCleanup, Unlocked
  <2>3. CleanupInv' /\ UnlinkInv'
    BY <1>1, <1>2, <2>2 DEF CleanupInv, CleanupTo, UnlinkInv
  <2>4. ErasureTables'
    BY <1>1, <1>2, <2>2, TaskTablesKept DEF CleanupTo, ErasureTables
  <2> QED BY <1>3, <2>3, <2>4 DEF ErasureInv
<1>6. CASE FailCleanup(t) /\ eraser.task = t
  <2>1. CleanupTo(t, "ended") /\ eraser' = Resting /\ eraser.task = t
    BY <1>1, <1>6, CleanupSet DEF FailCleanup
  <2>2. cleanup[t].state = "running"
    BY <1>1, <2>1, ErasureAssumption DEF CleanupInv
  <2>3. CleanupInv' /\ UnlinkInv'
    BY <1>1, <1>2, <2>1, <2>2, RestingIs DEF CleanupInv, CleanupTo, UnlinkInv
  <2>4. ErasureTables'
    BY <1>1, <1>2, <2>1, RestingIs, TaskTablesKept DEF CleanupTo, ErasureTables
  <2> QED BY <1>3, <2>3, <2>4 DEF ErasureInv
<1> QED BY <1>4, <1>5, <1>6

LEMMA BeginErasureStep ==
    ASSUME ErasureInv, NEW t \in Tasks, BeginErasure(t)
    PROVE  ErasureInv'
<1>1. ErasureTables /\ WorkInv /\ CleanupInv /\ UnlinkInv /\ InactiveIsSettled /\ SurvivorsKeepFiles
  BY DEF ErasureInv
<1>2. CASE JobsActive
  BY <1>2, CleanupSteps DEF BeginErasure
<1>3. CASE ~JobsActive
  <2>1. /\ eraser.task = t /\ eraser' = [eraser EXCEPT !.locked = TRUE, !.doomed = Doomed(t)]
        /\ UNCHANGED <<rows, visible, taskWork, owed, storing, named, artifacts, files, cleanup>>
    BY <1>3 DEF BeginErasure, taskVars
  <2>2. /\ eraser' = [f \in {"task", "doomed", "locked"} |-> eraser'[f]]
        /\ eraser'.task = t /\ eraser'.locked = TRUE /\ eraser'.doomed = Doomed(t)
    BY <1>1, <2>1 DEF ErasureTables
  <2>3. JobsActive' = JobsActive /\ Doomed(t)' = Doomed(t)
    BY <2>1 DEF JobsActive, Doomed
  <2>4. UnlinkInv'
    BY <1>3, <2>2, <2>3, ErasureAssumption DEF UnlinkInv, JobsActive, Doomed
  <2>5. WorkInv' /\ InactiveIsSettled' /\ SurvivorsKeepFiles'
    BY <1>1, <2>1 DEF WorkInv, InactiveIsSettled, SurvivorsKeepFiles
  <2>6. CleanupInv'
    BY <1>1, <2>1, <2>2 DEF CleanupInv
  <2>7. ErasureTables'
    BY <1>1, <2>1, <2>2, TaskTablesKept DEF ErasureTables
  <2> QED BY <2>4, <2>5, <2>6, <2>7 DEF ErasureInv
<1> QED BY <1>2, <1>3

(* What is unlinked belongs to a deleted task only.                        *)
LEMMA UnlinkStep ==
    ASSUME ErasureInv, NEW c, Unlink(c)
    PROVE  ErasureInv'
<1>1. ErasureTables /\ WorkInv /\ CleanupInv /\ UnlinkInv /\ InactiveIsSettled /\ SurvivorsKeepFiles
  BY DEF ErasureInv
<1>2. /\ eraser.locked /\ c \in eraser.doomed /\ files' = files \ {c}
      /\ eraser' = [eraser EXCEPT !.doomed = eraser.doomed \ {c}]
      /\ UNCHANGED <<rows, visible, taskWork, owed, storing, named, artifacts, cleanup>>
  BY DEF Unlink, taskVars
<1>3. /\ eraser' = [f \in {"task", "doomed", "locked"} |-> eraser'[f]]
      /\ eraser'.task = eraser.task /\ eraser'.locked = eraser.locked
      /\ eraser'.doomed = eraser.doomed \ {c}
  BY <1>1, <1>2 DEF ErasureTables
<1> DEFINE t == eraser.task
<1>4. /\ t \in Tasks /\ visible[t].state = "deleted" /\ ~JobsActive /\ c \in Doomed(t)
      /\ eraser.doomed \subseteq Doomed(t)
  BY <1>1, <1>2 DEF UnlinkInv, CleanupInv
<1>5. \A u \in rows : u # t => c \notin named[u]
  BY <1>4 DEF Doomed
<1>6. SurvivorsKeepFiles'
  BY <1>1, <1>2, <1>4, <1>5 DEF SurvivorsKeepFiles
<1>7. \A u \in Tasks : taskWork[u] # "active"
  BY <1>1, <1>4 DEF WorkInv, JobsActive
<1>8. WorkInv'
  BY <1>1, <1>2, <1>7 DEF WorkInv
<1>9. UnlinkInv'
  BY <1>1, <1>2, <1>3 DEF UnlinkInv, JobsActive, Doomed
<1>10. InactiveIsSettled' /\ CleanupInv'
  BY <1>1, <1>2, <1>3 DEF InactiveIsSettled, CleanupInv
<1>11. ErasureTables'
  BY <1>1, <1>2, <1>3, TaskTablesKept DEF ErasureTables
<1> QED BY <1>6, <1>8, <1>9, <1>10, <1>11 DEF ErasureInv

LEMMA CommitErasureStep ==
    ASSUME ErasureInv, NEW t \in Tasks, CommitErasure(t)
    PROVE  ErasureInv'
<1>1. ErasureTables /\ WorkInv /\ CleanupInv /\ UnlinkInv /\ InactiveIsSettled /\ SurvivorsKeepFiles
  BY DEF ErasureInv
<1>2. /\ eraser.locked /\ eraser.task = t /\ rows' = rows \ {t}
      /\ artifacts' = artifacts \ Doomed(t) /\ named' = [named EXCEPT ![t] = {}]
      /\ owed' = owed \ {t} /\ cleanup' = [cleanup EXCEPT ![t].state = "none"]
      /\ eraser' = Resting /\ UNCHANGED <<visible, taskWork, storing, files>>
  BY DEF CommitErasure
<1>3. /\ CleanupTo(t, "none") /\ named' = [u \in Tasks |-> named'[u]]
      /\ \A u \in Tasks : u # t => named'[u] = named[u]
  BY <1>1, <1>2, CleanupSet DEF ErasureTables
<1>4. \A u \in Tasks : taskWork[u] # "active"
  BY <1>1, <1>2 DEF UnlinkInv, WorkInv, JobsActive
<1>5. WorkInv'
  BY <1>1, <1>2, <1>4 DEF WorkInv
<1>6. InactiveIsSettled'
  BY <1>1, <1>2, <1>4 DEF InactiveIsSettled
<1>7. SurvivorsKeepFiles'
  <2> SUFFICES ASSUME NEW u \in rows', visible'[u].state # "deleted"
               PROVE  named'[u] \subseteq artifacts' \cap files'
    BY DEF SurvivorsKeepFiles
  <2>1. u \in rows /\ u # t /\ u \in Tasks /\ named'[u] = named[u]
    BY <1>1, <1>2, <1>3 DEF ErasureTables
  <2>2. named[u] \cap Doomed(t) = {}
    BY <2>1 DEF Doomed
  <2>3. named[u] \subseteq artifacts \cap files
    BY <1>1, <1>2, <2>1 DEF SurvivorsKeepFiles
  <2> QED BY <1>2, <2>1, <2>2, <2>3
<1>8. CleanupInv' /\ UnlinkInv'
  BY <1>1, <1>2, <1>3, RestingIs DEF CleanupInv, CleanupTo, UnlinkInv
<1>9. ErasureTables'
  BY SMTT(60), <1>1, <1>2, <1>3, RestingIs DEF ErasureTables, CleanupTo
<1> QED BY <1>5, <1>6, <1>7, <1>8, <1>9 DEF ErasureInv

LEMMA KillEraserStep ==
    ASSUME ErasureInv, KillEraser
    PROVE  ErasureInv'
<1>1. ErasureTables /\ WorkInv /\ CleanupInv /\ UnlinkInv /\ InactiveIsSettled /\ SurvivorsKeepFiles
  BY DEF ErasureInv
<1>2. /\ eraser' = Resting
      /\ UNCHANGED <<rows, visible, taskWork, owed, storing, named, artifacts, files, cleanup>>
  BY DEF KillEraser, taskVars
<1>3. WorkInv' /\ InactiveIsSettled' /\ SurvivorsKeepFiles' /\ CleanupInv' /\ UnlinkInv'
  BY <1>1, <1>2, RestingIs
     DEF WorkInv, InactiveIsSettled, SurvivorsKeepFiles, CleanupInv, UnlinkInv
<1>4. ErasureTables'
  BY <1>1, <1>2, RestingIs, TaskTablesKept DEF ErasureTables
<1> QED BY <1>3, <1>4 DEF ErasureInv

LEMMA ErasureStep == ErasureInv /\ [ErasureNext]_erasureVars => ErasureInv'
<1> SUFFICES ASSUME ErasureInv, [ErasureNext]_erasureVars
             PROVE  ErasureInv'
  OBVIOUS
<1>1. ASSUME NEW t \in Tasks,
             \/ EnqueueWork(t) \/ Owe(t) \/ SettleDebt(t) \/ CommitWork(t) \/ LoseWork(t)
             \/ Archive(t) \/ RestoreTask(t) \/ Delete(t) \/ DeleteAgain(t)
      PROVE  ErasureInv'
  BY <1>1, WorkSteps, VisibilitySteps
<1>2. ASSUME NEW t \in Tasks, NEW c \in Contents, StoreFile(t, c)
      PROVE  ErasureInv'
  BY <1>2, StoreFileStep
<1>3. ASSUME NEW t \in Tasks, EraserStep(t) \/ AbortErasure(t)
      PROVE  ErasureInv'
  <2>1. CASE LeaseCleanup(t) \/ RecoverCleanup(t)
    BY <2>1, CleanupSteps
  <2>2. CASE AbortErasure(t)
    BY <2>2, CleanupSteps DEF AbortErasure
  <2>3. CASE BeginErasure(t)
    BY <2>3, BeginErasureStep
  <2>4. CASE CommitErasure(t)
    BY <2>4, CommitErasureStep
  <2>5. CASE eraser.task = t /\ \E c \in Contents : Unlink(c)
    BY <2>5, UnlinkStep
  <2> QED BY <1>3, <2>1, <2>2, <2>3, <2>4, <2>5 DEF EraserStep
<1>4. CASE KillEraser
  BY <1>4, KillEraserStep
<1>5. CASE UNCHANGED erasureVars
  <2>1. UNCHANGED <<rows, visible, taskWork, owed, storing, named, artifacts, files, cleanup,
                    eraser>>
    BY <1>5 DEF erasureVars
  <2>2. ErasureTables' /\ WorkInv'
    BY <2>1 DEF ErasureInv, ErasureTables, WorkInv
  <2>3. CleanupInv' /\ UnlinkInv'
    BY <2>1 DEF ErasureInv, CleanupInv, UnlinkInv, JobsActive, Doomed
  <2>4. InactiveIsSettled' /\ SurvivorsKeepFiles'
    BY <2>1 DEF ErasureInv, InactiveIsSettled, SurvivorsKeepFiles
  <2> QED BY <2>2, <2>3, <2>4 DEF ErasureInv
<1> QED BY <1>1, <1>2, <1>3, <1>4, <1>5 DEF ErasureNext

(* A task that is not active has no job and owes nothing.                  *)
THEOREM InactiveStaysSettled == ErasureSpec => []InactiveIsSettled
<1>1. ErasureInv => InactiveIsSettled
  BY DEF ErasureInv
<1> QED BY <1>1, ErasureInitial, ErasureStep, PTL DEF ErasureSpec

(* No erasure takes a file of a task that is not deleted: for every set of *)
(* tasks, whatever they share, and however often the eraser is killed.     *)
THEOREM SurvivorsStayWhole == ErasureSpec => []SurvivorsKeepFiles
<1>1. ErasureInv => SurvivorsKeepFiles
  BY DEF ErasureInv
<1> QED BY <1>1, ErasureInitial, ErasureStep, PTL DEF ErasureSpec

(* Both, for every value of the constants: hiding a task leaves no work    *)
(* behind and takes nothing from those that stay.                          *)
THEOREM HidingStaysSafe == ErasureSpec => []HidingIsSafe
<1>1. InactiveIsSettled /\ SurvivorsKeepFiles => HidingIsSafe
  BY DEF HidingIsSafe
<1> QED BY <1>1, InactiveStaysSettled, SurvivorsStayWhole, PTL

-----------------------------------------------------------------------------
(* PlanApproval: the states of a task are only ever appended, so a number  *)
(* that was the latest state when a plan was approved or an attempt began  *)
(* names that state for ever.                                              *)

TaskStates == {"planning", "plan_approved", "executing"}
Drafts == [plan : Nat, state : Nat, base : Nat]

StartJobTyped ==
    /\ startJob = [f \in {"plan", "state", "runs", "cancel", "at"} |-> startJob[f]]
    /\ startJob.state # "none" => startJob.plan \in Plans
    /\ starter # "idle" => startJob.state # "none"

PlanTables ==
    /\ taskStates \in Seq(TaskStates) /\ Len(taskStates) # 0
    /\ planRows \in Seq([state : Nat, base : Nat]) /\ Len(planRows) \in 0..MaxPlans
    /\ author \in Drafts /\ head \in Nat
    /\ author # NoAuthor => author.plan \in Plans
    /\ StartJobTyped

ApprovalInv ==
    /\ approvals = [p \in Plans |-> approvals[p]]
    /\ \A p \in Plans :
          \/ approvals[p] = 0
          \/ approvals[p] \in 1..Len(taskStates)

AttemptRows == [plan : Plans, state : Nat, by : {"api", "job"}]

(* Each attempt is of an approved plan and alone with it.                  *)
AttemptInv ==
    /\ attempts \in Seq(AttemptRows)
    /\ \A i \in DOMAIN attempts :
          /\ approvals[attempts[i].plan] # 0
          /\ attempts[i].state \in 1..Len(taskStates)
    /\ AttemptIsApproved

PlanInv == PlanTables /\ ApprovalInv /\ AttemptInv

LEMMA PlanInitial == PlanInit => PlanInv
<1> SUFFICES ASSUME PlanInit
             PROVE  PlanInv
  OBVIOUS
<1>1. /\ taskStates = <<"planning">> /\ planRows = <<>> /\ startJob = NoStart /\ starter = "idle"
      /\ author = NoAuthor /\ head = 0
  BY DEF PlanInit
<1>3. /\ taskStates \in Seq(TaskStates) /\ Len(taskStates) = 1
      /\ planRows \in Seq([state : Nat, base : Nat])
  BY <1>1 DEF TaskStates
<1>4. author \in Drafts /\ head \in Nat
  BY <1>1 DEF NoAuthor, NoLocker, Drafts
<1>5. PlanTables
  BY <1>1, <1>3, <1>4, PlanAssumption DEF PlanTables, StartJobTyped, NoStart
<1>2. ApprovalInv /\ AttemptInv
  BY DEF PlanInit, ApprovalInv, AttemptInv, AttemptIsApproved
<1> QED BY <1>2, <1>5 DEF PlanInv

(* The chain of states grows at its end or stays.                          *)
Grown(old, new) ==
    /\ Len(old) <= Len(new)
    /\ \A k \in 1..Len(old) : new[k] = old[k]

LEMMA StatesGrow ==
    ASSUME taskStates \in Seq(TaskStates), NEW s \in TaskStates, Extend(s)
    PROVE  /\ taskStates' \in Seq(TaskStates) /\ Len(taskStates') = Len(taskStates) + 1
           /\ taskStates'[Len(taskStates) + 1] = s
           /\ Grown(taskStates, taskStates')
BY AppendProperties DEF Extend, Now, Grown

LEMMA StatesStay ==
    ASSUME taskStates \in Seq(TaskStates), UNCHANGED taskStates
    PROVE  taskStates' \in Seq(TaskStates) /\ Grown(taskStates, taskStates')
BY DEF Grown

(* What is approved and attempted stays so when the chain grows.           *)
LEMMA GrowthKeepsAttempts ==
    ASSUME PlanInv, taskStates' \in Seq(TaskStates), Grown(taskStates, taskStates'),
           UNCHANGED <<approvals, attempts>>
    PROVE  ApprovalInv' /\ AttemptInv'
<1>1. /\ taskStates \in Seq(TaskStates) /\ ApprovalInv /\ AttemptInv /\ Len(taskStates) \in Nat
      /\ Len(taskStates') \in Nat
  BY DEF PlanInv, PlanTables
<1>2. ApprovalInv'
  BY <1>1 DEF ApprovalInv, Grown
<1>3. AttemptInv'
  BY <1>1 DEF AttemptInv, AttemptIsApproved, Grown
<1> QED BY <1>2, <1>3

LEMMA ApprovalKeeps ==
    ASSUME PlanInv, NEW p \in Plans, Approval(p), UNCHANGED attempts
    PROVE  /\ taskStates' \in Seq(TaskStates) /\ Grown(taskStates, taskStates')
           /\ ApprovalInv' /\ AttemptInv'
<1>1. taskStates \in Seq(TaskStates) /\ ApprovalInv /\ AttemptInv /\ Len(taskStates) \in Nat
  BY DEF PlanInv, PlanTables
<1>2. /\ Extend("plan_approved") /\ approvals[p] = 0
      /\ approvals' = [approvals EXCEPT ![p] = Len(taskStates) + 1]
  BY DEF Approval, Approvable, Now
<1>3. /\ taskStates' \in Seq(TaskStates) /\ Len(taskStates') = Len(taskStates) + 1
      /\ Grown(taskStates, taskStates')
  BY <1>1, <1>2, StatesGrow DEF TaskStates
<1>4. /\ approvals' = [q \in Plans |-> approvals'[q]] /\ approvals'[p] = Len(taskStates) + 1
      /\ \A q \in Plans : q # p => approvals'[q] = approvals[q]
  BY <1>1, <1>2 DEF ApprovalInv
<1>5. ApprovalInv'
  BY <1>1, <1>3, <1>4 DEF ApprovalInv, Grown
<1>6. ASSUME NEW i \in DOMAIN attempts
      PROVE  attempts[i].plan \in Plans /\ attempts[i].plan # p
  <2>1. attempts \in Seq(AttemptRows) /\ i \in 1..Len(attempts)
    BY <1>1 DEF AttemptInv
  <2>3. attempts[i] \in AttemptRows
    BY <2>1, ElementOfSeq
  <2>4. attempts[i].plan \in Plans
    BY <2>3 DEF AttemptRows
  <2>2. approvals[attempts[i].plan] # 0
    BY <1>1 DEF AttemptInv
  <2> QED BY <1>2, <2>2, <2>4
<1>7. ASSUME NEW i \in DOMAIN attempts
      PROVE  /\ approvals'[attempts[i].plan] # 0 /\ attempts[i].state \in 1..Len(taskStates')
             /\ attempts[i].state = approvals'[attempts[i].plan] + 1
             /\ taskStates'[attempts[i].state] = "executing"
  <2>1. /\ approvals[attempts[i].plan] # 0 /\ attempts[i].state \in 1..Len(taskStates)
        /\ attempts[i].state = approvals[attempts[i].plan] + 1
        /\ taskStates[attempts[i].state] = "executing"
    BY <1>1 DEF AttemptInv, AttemptIsApproved
  <2>2. approvals'[attempts[i].plan] = approvals[attempts[i].plan]
    BY <1>4, <1>6
  <2> QED BY <1>1, <1>3, <2>1, <2>2 DEF Grown
<1>8. AttemptInv'
  BY <1>1, <1>7 DEF AttemptInv, AttemptIsApproved
<1> QED BY <1>3, <1>5, <1>8

LEMMA StartKeeps ==
    ASSUME PlanInv, NEW p \in Plans, NEW by \in {"api", "job"}, Started(p, by),
           UNCHANGED approvals
    PROVE  /\ taskStates' \in Seq(TaskStates) /\ Grown(taskStates, taskStates')
           /\ ApprovalInv' /\ AttemptInv'
<1> DEFINE row == [plan |-> p, state |-> Len(taskStates) + 1, by |-> by]
           N   == Len(attempts) + 1
<1>1. taskStates \in Seq(TaskStates) /\ ApprovalInv /\ AttemptInv /\ Len(taskStates) \in Nat
  BY DEF PlanInv, PlanTables
<1>2. /\ Extend("executing") /\ approvals[p] = Len(taskStates)
      /\ attempts' = Append(attempts, row) /\ taskStates[Len(taskStates)] = "plan_approved"
  BY DEF Started, Approved, Now, InState
<1>3. /\ taskStates' \in Seq(TaskStates) /\ Len(taskStates') = Len(taskStates) + 1
      /\ Grown(taskStates, taskStates') /\ taskStates'[Len(taskStates) + 1] = "executing"
  BY <1>1, <1>2, StatesGrow DEF TaskStates
<1>4. ApprovalInv'
  BY <1>1, <1>3 DEF ApprovalInv, Grown
<1>5. attempts \in Seq(AttemptRows) /\ row \in AttemptRows /\ DOMAIN attempts = 1..Len(attempts)
  <2>1. attempts \in Seq(AttemptRows)
    BY <1>1 DEF AttemptInv
  <2>2. row \in AttemptRows
    BY <1>1 DEF AttemptRows
  <2> QED BY <2>1, <2>2
<1>6. /\ attempts' \in Seq(AttemptRows) /\ DOMAIN attempts' = 1..N /\ attempts'[N] = row
      /\ Len(attempts) \in Nat /\ \A i \in DOMAIN attempts : attempts'[i] = attempts[i]
  <2> HIDE DEF row
  <2>1. /\ attempts' \in Seq(AttemptRows) /\ Len(attempts') = N /\ attempts'[N] = row
        /\ \A i \in 1..Len(attempts) : attempts'[i] = attempts[i]
    BY <1>2, <1>5, AppendProperties
  <2>2. Len(attempts) \in Nat
    BY <1>5
  <2> QED BY <1>5, <2>1, <2>2
<1>7. \A i \in DOMAIN attempts : /\ attempts[i].plan # p /\ attempts[i].state \in 1..Len(taskStates)
                                 /\ approvals[attempts[i].plan] # 0
                                 /\ attempts[i].state = approvals[attempts[i].plan] + 1
                                 /\ taskStates[attempts[i].state] = "executing"
  BY <1>1, <1>2 DEF AttemptInv, AttemptIsApproved
<1>8. approvals[p] # 0
  <2>1. Len(taskStates) # 0
    BY DEF PlanInv, PlanTables
  <2> QED BY <1>2, <2>1
<1>9. ASSUME NEW i \in DOMAIN attempts'
      PROVE  /\ approvals'[attempts'[i].plan] # 0 /\ attempts'[i].state \in 1..Len(taskStates')
             /\ attempts'[i].state = approvals'[attempts'[i].plan] + 1
             /\ taskStates'[attempts'[i].state] = "executing"
  <2>1. CASE i = N
    BY <1>1, <1>2, <1>3, <1>6, <1>8, <2>1
  <2>2. CASE i \in DOMAIN attempts
    <3>1. attempts'[i] = attempts[i] /\ attempts[i].state \in 1..Len(taskStates)
      BY <1>6, <1>7, <2>2
    <3>2. taskStates'[attempts[i].state] = taskStates[attempts[i].state]
      BY <1>3, <3>1 DEF Grown
    <3> QED BY <1>1, <1>3, <1>7, <2>2, <3>1, <3>2
  <2> QED BY <1>5, <1>6, <2>1, <2>2
<1>10. ASSUME NEW i \in DOMAIN attempts', NEW k \in DOMAIN attempts',
              attempts'[k].plan = attempts'[i].plan
       PROVE  k = i
  BY <1>1, <1>5, <1>6, <1>7, <1>10 DEF AttemptInv, AttemptIsApproved
<1>11. AttemptInv'
  BY <1>6, <1>9, <1>10 DEF AttemptInv, AttemptIsApproved
<1> QED BY <1>3, <1>4, <1>11

(* The fields nothing of the approvals depends on.                         *)
LEMMA PlanTablesKept ==
    ASSUME PlanInv, taskStates' \in Seq(TaskStates), Grown(taskStates, taskStates'),
           UNCHANGED <<planRows, author, head, startJob, starter>>
    PROVE  PlanTables'
BY DEF PlanInv, PlanTables, StartJobTyped, Grown

(* A state that is appended without an approval or an attempt.             *)
LEMMA OtherStatesStep ==
    ASSUME PlanInv,
           \/ \E p \in Plans, base \in Heads : RevokeIfStale(p, base)
           \/ AdvanceStop
    PROVE  PlanInv'
<1>1. /\ Extend("planning")
      /\ UNCHANGED <<planRows, approvals, attempts, startJob, starter, author, head>>
  BY DEF RevokeIfStale, AdvanceStop, jobVars
<1>2. taskStates' \in Seq(TaskStates) /\ Grown(taskStates, taskStates')
  BY <1>1, StatesGrow DEF PlanInv, PlanTables, TaskStates
<1> QED BY <1>1, <1>2, PlanTablesKept, GrowthKeepsAttempts DEF PlanInv

(* The rows of plans, the start job and the requests of the user.          *)
LEMMA RequestsStep ==
    ASSUME PlanInv,
           \/ ReadForRevision \/ InsertRevision \/ InsertLock \/ AuthorizeExecution \/ LeaseStart
           \/ ReadAuthorization \/ FetchHead \/ CheckStop \/ AutoLock \/ Announce \/ FailStart
           \/ LoseStart \/ RetryStart \/ StopAuthorized \/ Push
           \/ \E p \in Plans, base \in Heads : ReadForLock(p, base)
    PROVE  PlanInv'
<1>1. PlanTables
  BY DEF PlanInv
<1>2. UNCHANGED <<taskStates, approvals, attempts>>
  BY DEF ReadForRevision, InsertRevision, InsertLock, AuthorizeExecution, LeaseStart,
     ReadAuthorization, FetchHead, CheckStop, AutoLock, Announce, FailStart, LoseStart, RetryStart,
     StopAuthorized, Push, ReadForLock, jobVars
<1>3. taskStates' \in Seq(TaskStates) /\ Grown(taskStates, taskStates')
  BY <1>1, <1>2, StatesStay DEF PlanTables
<1>4. ApprovalInv' /\ AttemptInv'
  BY <1>2, <1>3, GrowthKeepsAttempts
<1>5. CASE \/ InsertLock \/ \E p \in Plans, base \in Heads : ReadForLock(p, base)
  BY <1>3, <1>4, <1>5, PlanTablesKept DEF InsertLock, ReadForLock, jobVars, PlanInv
<1>6. CASE ReadForRevision \/ InsertRevision \/ Push
  <2>1. UNCHANGED <<startJob, starter>>
    BY <1>6 DEF ReadForRevision, InsertRevision, Push, jobVars
  <2>2. CASE ReadForRevision
    <3>1. /\ author' = [plan |-> Len(planRows) + 1, state |-> Len(taskStates), base |-> head]
          /\ Len(planRows) < MaxPlans /\ UNCHANGED <<planRows, head>>
      BY <2>2 DEF ReadForRevision, LatestPlan, Now
    <3>2. Len(planRows) + 1 \in Plans /\ Len(taskStates) \in Nat /\ head \in Nat
      BY <1>1, <3>1, PlanAssumption DEF PlanTables, Plans
    <3>3. author' \in Drafts /\ author'.plan \in Plans
      BY <3>1, <3>2 DEF Drafts, Plans
    <3>4. StartJobTyped'
      BY <1>1, <2>1 DEF PlanTables, StartJobTyped
    <3> QED BY <1>1, <1>2, <1>4, <3>1, <3>3, <3>4 DEF PlanTables, PlanInv
  <2>3. CASE InsertRevision
    <3> DEFINE row == [state |-> author.state, base |-> author.base]
    <3>1. /\ author' = NoAuthor /\ head' = head /\ author.plan \in Plans
          /\ row \in [state : Nat, base : Nat]
          /\ NoAuthor \in Drafts
      BY <1>1, <2>3 DEF InsertRevision, PlanTables, Drafts, NoAuthor, NoLocker
    <3>2. planRows' \in Seq([state : Nat, base : Nat]) /\ Len(planRows') \in 0..MaxPlans
      <4>1. CASE planRows' = planRows
        BY <1>1, <4>1 DEF PlanTables
      <4>2. CASE author.plan = LatestPlan + 1 /\ planRows' = Append(planRows, row)
        BY <1>1, <3>1, <4>2, AppendProperties, PlanAssumption DEF PlanTables, LatestPlan, Plans
      <4> QED BY <2>3, <4>1, <4>2 DEF InsertRevision
    <3>3. StartJobTyped'
      BY <1>1, <2>1 DEF PlanTables, StartJobTyped
    <3> QED BY <1>1, <1>2, <1>4, <3>1, <3>2, <3>3 DEF PlanTables, PlanInv
  <2>4. CASE Push
    <3>1. UNCHANGED <<planRows, author>> /\ head' = head + 1
      BY <2>4 DEF Push
    <3>2. StartJobTyped'
      BY <1>1, <2>1 DEF PlanTables, StartJobTyped
    <3> QED BY <1>1, <1>2, <1>4, <3>1, <3>2 DEF PlanTables, PlanInv
  <2> QED BY <1>4, <1>6, <2>2, <2>3, <2>4 DEF PlanInv
<1>7. CASE \/ AuthorizeExecution \/ LeaseStart \/ ReadAuthorization \/ FetchHead \/ CheckStop
           \/ AutoLock \/ Announce \/ FailStart \/ LoseStart \/ RetryStart \/ StopAuthorized
  <2>1. UNCHANGED <<planRows, author, head>>
    BY <1>7 DEF AuthorizeExecution, LeaseStart, ReadAuthorization, FetchHead, CheckStop, AutoLock,
       Announce, FailStart, LoseStart, RetryStart, StopAuthorized
  <2>2. StartJobTyped
    BY <1>1 DEF PlanTables
  <2>8. StartJobTyped'
    <3>3. CASE AuthorizeExecution
      <4>1. /\ startJob' = [plan |-> LatestPlan, state |-> "queued", runs |-> 0, cancel |-> FALSE,
                            at |-> Len(journal) + 1]
            /\ LatestPlan \in Plans
        BY <1>1, <3>3, PlanAssumption DEF AuthorizeExecution, PlanTables, LatestPlan, Plans
      <4> QED BY <4>1 DEF StartJobTyped
    <3>4. CASE LeaseStart \/ RetryStart
      BY <2>2, <3>4 DEF LeaseStart, RetryStart, StartJobTyped
    <3>5. CASE ReadAuthorization \/ FetchHead \/ CheckStop \/ AutoLock
      BY <2>2, <3>5
         DEF ReadAuthorization, FetchHead, CheckStop, AutoLock, Continue, WorkerIs, StartJobTyped
    <3>6. CASE \/ Announce \/ FailStart \/ LoseStart
      <4>1. PICK state \in {"cancelled", "succeeded", "failed", "queued", "timed_out"} :
               startJob' = [startJob EXCEPT !.state = state]
        <5>1. CASE Announce
          BY <5>1 DEF Announce
        <5>2. CASE FailStart
          BY <5>2 DEF FailStart
        <5>3. CASE LoseStart
          BY <5>3 DEF LoseStart
        <5> QED BY <3>6, <5>1, <5>2, <5>3
      <4>2. starter' = "idle" /\ startJob.state # "none"
        BY <2>2, <3>6 DEF Announce, FailStart, LoseStart, Continue, WorkerIs, StartJobTyped
      <4> QED BY <2>2, <4>1, <4>2 DEF StartJobTyped
    <3>7. CASE StopAuthorized
      <4>1. \/ startJob.state # "none" /\ startJob' = [startJob EXCEPT !.state = "cancelled"]
            \/ startJob' = [startJob EXCEPT !.cancel = TRUE]
            \/ startJob' = startJob
        BY <3>7 DEF StopAuthorized
      <4>2. starter' = starter
        BY <3>7 DEF StopAuthorized
      <4> QED BY <2>2, <4>1, <4>2 DEF StartJobTyped
    <3> QED BY <1>7, <3>3, <3>4, <3>5, <3>6, <3>7
  <2> QED BY <1>1, <1>2, <1>4, <2>1, <2>8 DEF PlanTables, PlanInv
<1> QED BY <1>5, <1>6, <1>7

LEMMA ApproveStep ==
    ASSUME PlanInv, AutoApprove \/ \E p \in Plans : ApprovePlan(p)
    PROVE  PlanInv'
<1>1. CASE \E p \in Plans : ApprovePlan(p)
  <2>1. PICK p \in Plans : ApprovePlan(p)
    BY <1>1
  <2>2. /\ Approval(p)
        /\ UNCHANGED <<attempts, planRows, author, head, startJob, starter>>
    BY <2>1 DEF ApprovePlan, jobVars
  <2> QED BY <2>2, ApprovalKeeps, PlanTablesKept DEF PlanInv
<1>2. CASE AutoApprove
  <2>1. /\ UNCHANGED <<attempts, planRows, author, head, startJob>> /\ starter' = "start"
        /\ starter = "approve"
    BY <1>2 DEF AutoApprove, Continue, WorkerIs
  <2>2. startJob.state # "none" /\ startJob.plan \in Plans /\ taskStates \in Seq(TaskStates)
    BY <2>1 DEF PlanInv, PlanTables, StartJobTyped
  <2>3. /\ taskStates' \in Seq(TaskStates) /\ Grown(taskStates, taskStates')
        /\ ApprovalInv' /\ AttemptInv'
    <3>1. CASE Approval(startJob.plan)
      BY <2>1, <2>2, <3>1, ApprovalKeeps
    <3>2. CASE UNCHANGED <<taskStates, approvals>>
      BY <2>1, <2>2, <3>2, StatesStay, GrowthKeepsAttempts
    <3> QED BY <1>2, <3>1, <3>2 DEF AutoApprove
  <2>4. PlanTables'
    BY <2>1, <2>2, <2>3 DEF PlanInv, PlanTables, StartJobTyped, Grown
  <2> QED BY <2>3, <2>4 DEF PlanInv
<1> QED BY <1>1, <1>2

LEMMA StartStep ==
    ASSUME PlanInv, AutoStart \/ \E p \in Plans : StartExecution(p)
    PROVE  PlanInv'
<1>1. CASE \E p \in Plans : StartExecution(p)
  <2>1. PICK p \in Plans : StartExecution(p)
    BY <1>1
  <2>2. /\ Started(p, "api")
        /\ UNCHANGED <<approvals, planRows, author, head, startJob, starter>>
    BY <2>1 DEF StartExecution, jobVars
  <2> QED BY <2>2, StartKeeps, PlanTablesKept DEF PlanInv
<1>2. CASE AutoStart
  <2>1. /\ UNCHANGED <<approvals, planRows, author, head, startJob>> /\ starter' = "announce"
        /\ starter = "start"
    BY <1>2 DEF AutoStart, Continue, WorkerIs
  <2>2. startJob.state # "none" /\ startJob.plan \in Plans /\ taskStates \in Seq(TaskStates)
    BY <2>1 DEF PlanInv, PlanTables, StartJobTyped
  <2>3. /\ taskStates' \in Seq(TaskStates) /\ Grown(taskStates, taskStates')
        /\ ApprovalInv' /\ AttemptInv'
    <3>1. CASE Started(startJob.plan, "job")
      BY <2>1, <2>2, <3>1, StartKeeps
    <3>2. CASE UNCHANGED <<taskStates, attempts>>
      BY <2>1, <2>2, <3>2, StatesStay, GrowthKeepsAttempts
    <3> QED BY <1>2, <3>1, <3>2 DEF AutoStart
  <2>4. PlanTables'
    BY <2>1, <2>2, <2>3 DEF PlanInv, PlanTables, StartJobTyped, Grown
  <2> QED BY <2>3, <2>4 DEF PlanInv
<1> QED BY <1>1, <1>2

LEMMA PlanStep == PlanInv /\ [PlanNext]_planVars => PlanInv'
<1> SUFFICES ASSUME PlanInv, [PlanNext]_planVars
             PROVE  PlanInv'
  OBVIOUS
<1>1. CASE UNCHANGED planVars
  <2>1. UNCHANGED <<taskStates, planRows, approvals, attempts, startJob, starter, author, head>>
    BY <1>1 DEF planVars
  <2>2. taskStates' \in Seq(TaskStates) /\ Grown(taskStates, taskStates')
    BY <2>1, StatesStay DEF PlanInv, PlanTables
  <2> QED BY <2>1, <2>2, PlanTablesKept, GrowthKeepsAttempts DEF PlanInv
<1> QED BY <1>1, OtherStatesStep, RequestsStep, ApproveStep, StartStep DEF PlanNext

(* Every attempt runs a plan approved in the state just before its own,    *)
(* for any number of plans, pushes, stops, crashes and retries.            *)
THEOREM AttemptsAreApproved == PlanSpec => []AttemptIsApproved
<1>1. PlanInv => AttemptIsApproved
  BY DEF PlanInv, AttemptInv
<1> QED BY <1>1, PlanInitial, PlanStep, PTL DEF PlanSpec

-----------------------------------------------------------------------------
(* ProposalLineage.  A worker about to record a call holds one place       *)
(* beyond what was counted, and read the budget when some was left; and    *)
(* all jobs of a lineage but the last one have succeeded, by handing over. *)

CallStates == {"queued", "running", "succeeded", "failed", "cancelled"}
Codes == {"none", "other", "budget", "draft", "scope", "lease"}
LineageJob == [kind : {"propose", "read"}, state : CallStates, tries : Nat, code : Codes,
               owner : Coders \cup {NoCoder}, cancel : BOOLEAN]
Last == Len(jobs)

LineageTables ==
    /\ jobs \in Seq(LineageJob) /\ Last # 0
    /\ coder = [c \in Coders |-> coder[c]]
    /\ \A c \in Coders :
          /\ coder[c] = [f \in {"at", "job", "last"} |-> coder[c][f]]
          /\ coder[c].at # "rest" => coder[c].job \in 1..Last
    /\ calls \in Nat /\ (granted = TRUE \/ granted = FALSE)

Calling == {c \in Coders : coder[c].at = "call"}
CallInv == calls + Cardinality(Calling) <= Limit + Cardinality(Coders) - 1

SpentDraft(job) == job.state = "failed" /\ job.code = "draft" => ~(job.tries < MaxTries)

TailInv ==
    /\ \A j \in 1..Last : j # Last => jobs[j].state = "succeeded"
    /\ \A j \in proposals : j = Last /\ jobs[j].state = "succeeded"
    /\ \A j \in 1..Last : SpentDraft(jobs[j])
    /\ correction # 0 => /\ correction = Last /\ jobs[Last].state = "failed"
                         /\ ~(jobs[Last].tries < MaxTries) /\ proposals = {}

LineageInv == LineageTables /\ CallInv /\ TailInv

LEMMA LineageInitial == LineageInit => LineageInv
<1> SUFFICES ASSUME LineageInit
             PROVE  LineageInv
  OBVIOUS
<1> DEFINE row == NewTry("propose")
<1>1. /\ jobs = <<row>> /\ calls = 0 /\ granted = FALSE /\ proposals = {} /\ correction = 0
      /\ coder = [c \in Coders |-> AtRest]
  BY DEF LineageInit
<1>2. row \in LineageJob /\ row.state = "queued"
  BY LineageAssumption DEF NewTry, LineageJob, CallStates, Codes
<1>3. /\ jobs \in Seq(LineageJob) /\ Last = 1 /\ jobs[1] = row
  <2> HIDE DEF row
  <2> QED BY <1>1, <1>2 DEF Last
<1>4. LineageTables
  BY <1>1, <1>3 DEF LineageTables, AtRest
<1>5. TailInv
  BY <1>1, <1>2, <1>3 DEF TailInv, SpentDraft
<1>6. CallInv
  <2>1. Calling = {} /\ Limit \in Nat /\ Limit >= 1
    BY <1>1, LineageAssumption DEF Calling, AtRest, Limit
  <2>2. Cardinality(Coders) \in Nat /\ Cardinality(Calling) = 0
    BY <2>1, LineageAssumption, FS_CardinalityType, FS_EmptySet
  <2> QED BY <1>1, <2>1, <2>2 DEF CallInv
<1> QED BY <1>4, <1>5, <1>6 DEF LineageInv

(* Only one job, or only one worker, is changed.                           *)
JobTo(new, j) ==
    /\ new \in Seq(LineageJob) /\ Len(new) = Last
    /\ \A k \in 1..Last : k # j => new[k] = jobs[k]

CoderTo(c, at, job) ==
    /\ coder' = [d \in Coders |-> coder'[d]]
    /\ coder'[c] = [f \in {"at", "job", "last"} |-> coder'[c][f]]
    /\ coder'[c].at = at /\ coder'[c].job = job
    /\ \A d \in Coders : d # c => coder'[d] = coder[d]

LEMMA JobSet ==
    ASSUME LineageTables, NEW j \in 1..Last, NEW row \in LineageJob,
           NEW new, new = [jobs EXCEPT ![j] = row]
    PROVE  JobTo(new, j) /\ new[j] = row
BY DEF LineageTables, JobTo, Last

LEMMA JobIs ==
    ASSUME LineageTables, NEW j \in 1..Last
    PROVE  jobs[j] \in LineageJob
BY ElementOfSeq DEF LineageTables, Last

LEMMA EndedIs ==
    ASSUME LineageTables, NEW j \in 1..Last, NEW state \in CallStates, NEW code \in Codes
    PROVE  /\ JobTo(EndedJob(j, state, code), j)
           /\ EndedJob(j, state, code)[j].state = state
           /\ EndedJob(j, state, code)[j].code = code
           /\ EndedJob(j, state, code)[j].tries = jobs[j].tries
<1> DEFINE row == [jobs[j] EXCEPT !.state = state, !.code = code, !.owner = NoCoder]
<1>1. jobs[j] \in LineageJob
  BY JobIs
<1>2. /\ row \in LineageJob /\ row.state = state /\ row.code = code
      /\ row.tries = jobs[j].tries
  BY <1>1 DEF LineageJob
<1>3. EndedJob(j, state, code) = [jobs EXCEPT ![j] = row]
  BY DEF EndedJob, LineageTables, Last
<1> HIDE DEF row
<1> QED BY <1>2, <1>3, JobSet

LEMMA GoesIs ==
    ASSUME LineageTables, NEW c \in Coders, NEW at, Goes(c, at)
    PROVE  CoderTo(c, at, coder[c].job)
BY DEF LineageTables, CoderTo, Goes

LEMMA RestsIs ==
    ASSUME LineageTables, NEW c \in Coders, Rests(c)
    PROVE  CoderTo(c, "rest", 0)
BY DEF LineageTables, CoderTo, Rests, AtRest

(* The frame of the tables.                                                *)
TablesGrow ==
    /\ calls' \in Nat /\ (granted' = TRUE \/ granted' = FALSE)
    /\ jobs' \in Seq(LineageJob) /\ Len(jobs') >= Last

LEMMA LineageTablesStep ==
    ASSUME LineageTables, TablesGrow, NEW c \in Coders, NEW at, NEW job, CoderTo(c, at, job),
           at # "rest" => job \in 1..Last
    PROVE  LineageTables'
<1>1. Last \in Nat /\ Last' \in Nat /\ 1..Last \subseteq 1..Last' /\ Last' # 0
  BY DEF LineageTables, Last, TablesGrow
<1>2. ASSUME NEW d \in Coders
      PROVE  /\ coder'[d] = [f \in {"at", "job", "last"} |-> coder'[d][f]]
             /\ coder'[d].at # "rest" => coder'[d].job \in 1..Last'
  BY <1>1 DEF LineageTables, CoderTo
<1>3. coder' = [d \in Coders |-> coder'[d]]
  BY DEF CoderTo
<1> QED BY <1>1, <1>2, <1>3 DEF LineageTables, TablesGrow

LEMMA LineageTablesStay ==
    ASSUME LineageTables, UNCHANGED <<calls, coder>>, granted' = granted \/ granted' = TRUE,
           jobs' \in Seq(LineageJob), Len(jobs') = Last
    PROVE  LineageTables'
BY DEF LineageTables, Last

LEMMA TablesAre ==
    ASSUME LineageTables
    PROVE  /\ jobs \in Seq(LineageJob) /\ Len(jobs) = Last /\ Last \in Nat /\ DOMAIN jobs = 1..Last
           /\ granted = TRUE \/ granted = FALSE
           /\ calls \in Nat
BY DEF LineageTables, Last

(* A job that is not over is the last one, and no proposal or correction   *)
(* is there before it ends.                                                *)
LEMMA TailStep ==
    ASSUME LineageInv, NEW j \in 1..Last, JobTo(jobs', j), jobs[j].state # "succeeded",
           jobs[j].state # "failed" \/ jobs[j].tries < MaxTries,
           SpentDraft(jobs'[j]), UNCHANGED correction,
           \/ UNCHANGED proposals
           \/ proposals' = proposals \cup {j} /\ jobs'[j].state = "succeeded"
    PROVE  TailInv'
<1>1. LineageTables /\ TailInv /\ Last \in Nat /\ Last' = Last
  BY DEF LineageInv, LineageTables, JobTo, Last
<1>2. j = Last /\ proposals = {} /\ correction = 0
  BY <1>1 DEF TailInv
<1> QED BY <1>1, <1>2 DEF TailInv, JobTo

LEMMA TailStays ==
    ASSUME LineageInv, UNCHANGED <<jobs, proposals, correction>>
    PROVE  TailInv'
BY DEF LineageInv, TailInv, Last

(* A call that is not about to be counted takes no place.                  *)
LEMMA CallingIs ==
    /\ IsFiniteSet(Calling) /\ Cardinality(Calling) \in Nat
    /\ Cardinality(Calling) <= Cardinality(Coders) /\ Cardinality(Coders) \in Nat
    /\ Limit \in Nat
<1>1. Calling \subseteq Coders /\ IsFiniteSet(Coders)
  BY LineageAssumption DEF Calling
<1>2. Limit \in Nat
  BY LineageAssumption DEF Limit
<1> QED BY <1>1, <1>2, FS_Subset, FS_CardinalityType

LEMMA CallStays ==
    ASSUME LineageInv, calls' = calls, granted' = granted \/ granted' = TRUE,
           \/ UNCHANGED coder
           \/ \E c \in Coders : \E at, job : CoderTo(c, at, job) /\ at # "call"
    PROVE  CallInv'
<1>1. LineageTables /\ CallInv /\ calls \in Nat
  BY DEF LineageInv, LineageTables
<1>2. Calling' \subseteq Calling
  BY DEF Calling, CoderTo
<1>3. Cardinality(Calling') <= Cardinality(Calling) /\ Cardinality(Calling') \in Nat
  BY <1>2, CallingIs, FS_Subset, FS_CardinalityType
<1>4. Limit' \in Nat /\ Limit' >= Limit
  BY LineageAssumption DEF Limit
<1>5. Limit \in Nat /\ Cardinality(Coders) \in Nat /\ Cardinality(Calling) \in Nat
  BY CallingIs
<1> QED BY <1>1, <1>3, <1>4, <1>5 DEF CallInv

(* An error of a worker.                                                   *)
LEMMA FailIs ==
    ASSUME LineageInv, NEW c \in Coders, NEW code \in Codes, code # "draft", FailJob(c, code),
           coder[c].at # "rest", UNCHANGED <<calls, granted, proposals, correction>>
    PROVE  LineageInv'
<1> DEFINE j == coder[c].job
<1>1. LineageTables /\ j \in 1..Last /\ calls \in Nat /\ Last \in Nat
  BY DEF LineageInv, LineageTables, Last
<1>2. CoderTo(c, "rest", 0)
  BY <1>1, RestsIs DEF FailJob
<1>3. CallInv'
  BY <1>2, CallStays
<1>4. CASE UNCHANGED jobs
  <2>1. LineageTables'
    <3>1. TablesGrow
      BY <1>1, <1>2, <1>4, TablesAre DEF TablesGrow
    <3> QED BY <1>1, <1>2, <1>4, <3>1, LineageTablesStep
  <2>2. TailInv'
    BY <1>4, TailStays
  <2> QED BY <1>3, <2>1, <2>2 DEF LineageInv
<1>5. CASE CoderOwns(c)
  <2>1. PICK state \in {"cancelled", "failed"} : jobs' = EndedJob(j, state, code)
    BY <1>5 DEF FailJob
  <2>2. jobs[j].state = "running"
    BY <1>5 DEF CoderOwns
  <2>3. JobTo(jobs', j) /\ jobs'[j].code = code
    BY <1>1, <2>1, EndedIs DEF CallStates
  <2>4. LineageTables'
    <3>1. TablesGrow
      BY <1>1, <1>2, <2>3, TablesAre DEF TablesGrow, JobTo
    <3> QED BY <1>1, <1>2, <2>3, <3>1, LineageTablesStep
  <2>5. TailInv'
    BY <1>1, <2>2, <2>3, TailStep DEF SpentDraft
  <2> QED BY <1>3, <2>4, <2>5 DEF LineageInv
<1> QED BY <1>4, <1>5 DEF FailJob

LEMMA LeaseJobStep ==
    ASSUME LineageInv, NEW c \in Coders, LeaseJob(c)
    PROVE  LineageInv'
<1>1. LineageTables /\ calls \in Nat /\ Last \in Nat
  BY DEF LineageInv, LineageTables, Last
<1>2. PICK j \in DOMAIN jobs :
         /\ jobs[j].state = "queued"
         /\ jobs' = [jobs EXCEPT ![j].state = "running", ![j].owner = c,
                                 ![j].tries = jobs[j].tries + 1]
         /\ coder' = [coder EXCEPT ![c] = [at |-> jobs[j].kind, job |-> j, last |-> FALSE]]
  BY DEF LeaseJob
<1> DEFINE row == [jobs[j] EXCEPT !.state = "running", !.owner = c, !.tries = jobs[j].tries + 1]
<1>3. j \in 1..Last /\ jobs[j] \in LineageJob
  BY <1>1, JobIs DEF LineageTables, Last
<1>4. row \in LineageJob /\ row.state = "running" /\ jobs' = [jobs EXCEPT ![j] = row]
  <2>1. row \in LineageJob /\ row.state = "running"
    <3>1. jobs[j].tries + 1 \in Nat /\ c \in Coders \cup {NoCoder}
      BY <1>3 DEF LineageJob
    <3> QED BY <1>3, <3>1 DEF LineageJob, CallStates
  <2>2. jobs' = [jobs EXCEPT ![j] = row]
    BY <1>2 DEF LineageTables
  <2> QED BY <2>1, <2>2
<1> HIDE DEF row
<1>5. JobTo(jobs', j) /\ jobs'[j].state = "running"
  BY <1>1, <1>3, <1>4, JobSet
<1>6. jobs[j].kind # "rest" /\ jobs[j].kind # "call"
  BY <1>3 DEF LineageJob
<1>7. CoderTo(c, jobs[j].kind, j)
  BY <1>1, <1>2 DEF LineageTables, CoderTo
<1>8. LineageTables'
  <2>1. TablesGrow
    BY <1>1, <1>3, <1>5, <1>6, <1>7, TablesAre DEF TablesGrow, JobTo, LeaseJob
  <2> QED BY <1>1, <1>3, <1>5, <1>6, <1>7, <2>1, LineageTablesStep
<1>9. TailInv'
  BY <1>2, <1>3, <1>5, TailStep DEF SpentDraft, LeaseJob
<1>10. CallInv'
  BY <1>6, <1>7, CallStays DEF LeaseJob
<1> QED BY <1>8, <1>9, <1>10 DEF LineageInv

(* The budget that was read, and the call that is counted.                 *)
LEMMA ReadBudgetStep ==
    ASSUME LineageInv, NEW c \in Coders, ReadBudget(c)
    PROVE  LineageInv'
<1>1. LineageTables /\ calls \in Nat /\ Last \in Nat /\ coder[c].at = "propose"
  BY DEF LineageInv, LineageTables, Last, ReadBudget
<1>2. UNCHANGED <<calls, granted, proposals, correction>>
  BY DEF ReadBudget
<1>3. CASE FailJob(c, "budget") \/ FailJob(c, "other")
  BY <1>1, <1>2, <1>3, FailIs DEF Codes
<1>4. CASE /\ Remaining > 0 /\ UNCHANGED jobs
           /\ coder' = [coder EXCEPT ![c].at = "call", ![c].last = Remaining = 1]
  <2>1. CoderTo(c, "call", coder[c].job) /\ coder[c].job \in 1..Last
    BY <1>1, <1>4 DEF LineageTables, CoderTo
  <2>2. LineageTables'
    <3>1. TablesGrow
      BY <1>1, <1>2, <1>4, <2>1, TablesAre DEF TablesGrow
    <3> QED BY <1>1, <1>2, <1>4, <2>1, <3>1, LineageTablesStep
  <2>3. TailInv'
    BY <1>2, <1>4, TailStays
  <2>4. CallInv'
    <3>1. calls < Limit
      BY <1>1, <1>4, CallingIs DEF Remaining
    <3>2. Limit' = Limit
      BY <1>2 DEF Limit
    <3>3. /\ Cardinality(Calling') <= Cardinality(Coders) /\ Cardinality(Calling') \in Nat
          /\ Cardinality(Coders) \in Nat /\ Limit \in Nat
      <4>1. Calling' \subseteq Coders /\ IsFiniteSet(Coders)
        BY LineageAssumption DEF Calling
      <4> QED BY <4>1, CallingIs, FS_Subset, FS_CardinalityType
    <3> QED BY <1>1, <1>2, <3>1, <3>2, <3>3 DEF CallInv
  <2> QED BY <2>2, <2>3, <2>4 DEF LineageInv
<1> QED BY <1>3, <1>4 DEF ReadBudget

LEMMA CountCallStep ==
    ASSUME LineageInv, NEW c \in Coders, CountCall(c)
    PROVE  LineageInv'
<1>1. LineageTables /\ CallInv /\ calls \in Nat /\ Last \in Nat /\ coder[c].at = "call"
  BY DEF LineageInv, LineageTables, Last, CountCall
<1>2. /\ calls' = calls + 1 /\ CoderTo(c, "answer", coder[c].job)
      /\ UNCHANGED <<jobs, granted, proposals, correction>> /\ coder[c].job \in 1..Last
  BY <1>1, GoesIs DEF CountCall, LineageTables
<1>3. LineageTables'
  <2>1. TablesGrow
    BY <1>1, <1>2, TablesAre DEF TablesGrow
  <2> QED BY <1>1, <1>2, <2>1, LineageTablesStep
<1>4. TailInv'
  BY <1>2, TailStays
<1>5. CallInv'
  <2>1. Calling' = Calling \ {c} /\ c \in Calling
    BY <1>1, <1>2 DEF Calling, CoderTo
  <2>2. Cardinality(Calling') = Cardinality(Calling) - 1 /\ Cardinality(Calling) \in Nat
    BY <2>1, CallingIs, FS_RemoveElement
  <2>3. Limit' = Limit
    BY <1>2 DEF Limit
  <2> QED BY <1>1, <1>2, <2>2, <2>3, CallingIs DEF CallInv
<1> QED BY <1>3, <1>4, <1>5 DEF LineageInv

(* A job that is handed over is the last, and the next one takes its place.*)
LEMMA HandOverStep ==
    ASSUME LineageInv, NEW c \in Coders, NEW kind \in {"propose", "read"}, HandOver(c, kind),
           CoderOwns(c), coder[c].at # "rest", UNCHANGED <<calls, granted, proposals, correction>>
    PROVE  LineageInv'
<1> DEFINE j == coder[c].job
           ended == EndedJob(j, "succeeded", "none")
           row == NewTry(kind)
<1>1. LineageTables /\ TailInv /\ j \in 1..Last /\ Last \in Nat /\ jobs[j].state = "running"
  BY DEF LineageInv, LineageTables, Last, CoderOwns
<1>2. CoderTo(c, "rest", 0) /\ jobs' = Append(ended, row)
  BY <1>1, RestsIs DEF HandOver
<1>3. JobTo(ended, j) /\ ended[j].state = "succeeded" /\ ended[j].code = "none"
  BY <1>1, EndedIs DEF CallStates, Codes
<1>4. row \in LineageJob /\ row.state = "queued"
  BY LineageAssumption DEF NewTry, LineageJob, CallStates, Codes
<1> HIDE DEF ended, row
<1>5. /\ jobs' \in Seq(LineageJob) /\ Last' = Last + 1 /\ jobs'[Last + 1] = row
      /\ \A k \in 1..Last : jobs'[k] = ended[k]
  BY <1>2, <1>3, <1>4, AppendProperties DEF JobTo, Last
<1>6. j = Last /\ proposals = {} /\ correction = 0
  BY <1>1 DEF TailInv
<1>7. \A k \in 1..Last : /\ jobs'[k].state = "succeeded"
  BY <1>1, <1>3, <1>5, <1>6 DEF TailInv, JobTo
<1>8. TailInv'
  BY <1>1, <1>4, <1>5, <1>6, <1>7 DEF TailInv, SpentDraft
<1>9. LineageTables'
  <2>1. TablesGrow
    BY <1>1, <1>5, TablesAre DEF TablesGrow, Last
  <2> QED BY <1>1, <1>2, <2>1, LineageTablesStep
<1>10. CallInv'
  BY <1>2, CallStays
<1> QED BY <1>8, <1>9, <1>10 DEF LineageInv

LEMMA ReadSteps ==
    ASSUME LineageInv, NEW c \in Coders,
           FinishRead(c) \/ \E kind \in {"propose", "read"} : AnswerRead(c, kind)
    PROVE  LineageInv'
<1>1. UNCHANGED <<calls, granted, proposals, correction>> /\ coder[c].at # "rest"
  BY DEF FinishRead, AnswerRead
<1>2. CASE FailJob(c, "other")
  BY <1>1, <1>2, FailIs DEF Codes
<1>3. CASE CoderOwns(c) /\ \E kind \in {"propose", "read"} : HandOver(c, kind)
  BY <1>1, <1>3, HandOverStep
<1> QED BY <1>2, <1>3 DEF FinishRead, AnswerRead, CheckJob

(* An answer that ends its job, or puts it back in the queue.              *)
LEMMA AnswerSteps ==
    ASSUME LineageInv, NEW c \in Coders,
           \/ AnswerProposal(c) \/ StepFails(c)
           \/ \E code \in {"draft", "scope", "budget"} : AnswerRejected(c, code)
    PROVE  LineageInv'
<1> DEFINE j == coder[c].job
<1>1. /\ LineageTables /\ j \in 1..Last /\ Last \in Nat /\ coder[c].at # "rest"
      /\ UNCHANGED <<calls, granted, correction>>
  BY DEF LineageInv, LineageTables, Last, AnswerProposal, StepFails, AnswerRejected
<1>2. CASE FailJob(c, "other") /\ UNCHANGED proposals
  BY <1>1, <1>2, FailIs DEF Codes
<1>3. ASSUME NEW state \in CallStates, NEW code \in Codes,
             jobs' = EndedJob(j, state, code), Rests(c), CoderOwns(c),
             state = "failed" /\ code = "draft" => ~(jobs[j].tries < MaxTries),
             \/ UNCHANGED proposals
             \/ state = "succeeded" /\ proposals' = proposals \cup {j}
      PROVE  LineageInv'
  <2>1. /\ JobTo(jobs', j) /\ jobs'[j].state = state /\ jobs'[j].code = code
        /\ jobs'[j].tries = jobs[j].tries
    BY <1>1, <1>3, EndedIs
  <2>2. CoderTo(c, "rest", 0) /\ jobs[j].state = "running"
    BY <1>1, <1>3, RestsIs DEF CoderOwns
  <2>3. TablesGrow
    BY <1>1, <2>1, TablesAre DEF TablesGrow, JobTo
  <2>4. LineageTables'
    BY <1>1, <2>2, <2>3, LineageTablesStep
  <2>5. CallInv'
    BY <1>1, <2>2, CallStays
  <2>6. TailInv'
    BY <1>1, <1>3, <2>1, <2>2, TailStep DEF SpentDraft
  <2> QED BY <2>4, <2>5, <2>6 DEF LineageInv
<1>4. CASE StepFails(c)
  BY <1>2, <1>4 DEF StepFails
<1>5. CASE AnswerProposal(c)
  BY <1>2, <1>3, <1>5 DEF AnswerProposal, CheckJob, CallStates, Codes
<1>6. ASSUME NEW code \in {"draft", "scope", "budget"}, AnswerRejected(c, code)
      PROVE  LineageInv'
  <2>1. UNCHANGED proposals /\ code \in Codes
    BY <1>6 DEF AnswerRejected, Codes
  <2>2. CASE FailJob(c, "other")
    BY <1>2, <2>1, <2>2
  <2>3. CASE /\ CoderOwns(c) /\ Rests(c)
             /\ jobs' = EndedJob(j, IF code = "draft" /\ jobs[j].tries < MaxTries
                                    THEN "queued" ELSE "failed", code)
    <3>1. PICK state \in CallStates :
             /\ jobs' = EndedJob(j, state, code)
             /\ state = "failed" /\ code = "draft" => ~(jobs[j].tries < MaxTries)
      BY <2>3 DEF CallStates
    <3> QED BY <1>3, <2>1, <2>3, <3>1
  <2> QED BY <1>6, <2>2, <2>3 DEF AnswerRejected, CheckJob
<1> QED BY <1>4, <1>5, <1>6

(* A job that changes while no worker does.                                *)
LEMMA JobSteps ==
    ASSUME LineageInv, NEW j \in 1..Last, JobTo(jobs', j), jobs[j].state # "succeeded",
           jobs[j].state # "failed" \/ jobs[j].tries < MaxTries, SpentDraft(jobs'[j]),
           UNCHANGED <<calls, coder, proposals, correction>>, granted' = granted \/ granted' = TRUE
    PROVE  LineageInv'
<1>1. LineageTables'
  BY LineageTablesStay DEF LineageInv, JobTo
<1>2. CallInv'
  BY CallStays
<1>3. TailInv'
  BY TailStep
<1> QED BY <1>1, <1>2, <1>3 DEF LineageInv

LEMMA LeaseExpiresStep ==
    ASSUME LineageInv, NEW j \in 1..Last, LeaseExpires(j)
    PROVE  LineageInv'
<1>1. LineageTables /\ jobs[j] \in LineageJob /\ jobs[j].state = "running"
  BY JobIs DEF LineageInv, LeaseExpires
<1>2. PICK state \in {"cancelled", "queued", "failed"} :
         jobs' = [jobs EXCEPT ![j].owner = NoCoder, ![j].state = state, ![j].code = "lease"]
  BY DEF LeaseExpires
<1> DEFINE row == [jobs[j] EXCEPT !.owner = NoCoder, !.state = state, !.code = "lease"]
<1>3. row \in LineageJob /\ row.code = "lease"
  BY <1>1 DEF LineageJob, CallStates, Codes
<1>4. jobs' = [jobs EXCEPT ![j] = row]
  BY <1>1, <1>2 DEF LineageTables, Last
<1> HIDE DEF row
<1>5. JobTo(jobs', j) /\ jobs'[j] = row
  BY <1>1, <1>3, <1>4, JobSet
<1> QED BY <1>1, <1>3, <1>5, JobSteps DEF LeaseExpires, SpentDraft

LEMMA RetrySteps ==
    ASSUME LineageInv, NEW j \in 1..Last, ResumeJob(j) \/ ExtendBudget(j)
    PROVE  LineageInv'
<1>1. /\ LineageTables /\ jobs[j] \in LineageJob /\ Resumable(j)
      /\ jobs' = [jobs EXCEPT ![j].state = "queued", ![j].code = "none", ![j].cancel = FALSE]
      /\ UNCHANGED <<calls, coder, proposals, correction>>
      /\ granted' = granted \/ granted' = TRUE
  BY JobIs DEF LineageInv, ResumeJob, ExtendBudget, Retried
<1>2. jobs[j].tries < MaxTries /\ jobs[j].state # "succeeded"
  BY <1>1 DEF Resumable
<1> DEFINE row == [jobs[j] EXCEPT !.state = "queued", !.code = "none", !.cancel = FALSE]
<1>3. row \in LineageJob /\ row.state = "queued"
  BY <1>1 DEF LineageJob, CallStates, Codes
<1>4. jobs' = [jobs EXCEPT ![j] = row]
  BY <1>1 DEF LineageTables, Last
<1> HIDE DEF row
<1>5. JobTo(jobs', j) /\ jobs'[j] = row
  BY <1>1, <1>3, <1>4, JobSet
<1>6. SpentDraft(jobs'[j])
  BY <1>3, <1>5 DEF SpentDraft
<1> QED BY <1>1, <1>2, <1>5, <1>6, JobSteps

(* A draft is corrected when its job has no run left, so it stays failed.  *)
LEMMA CorrectStep ==
    ASSUME LineageInv, NEW j \in 1..Last, Correct(j)
    PROVE  LineageInv'
<1>1. LineageTables /\ TailInv
  BY DEF LineageInv
<1>2. /\ jobs[j].state = "failed" /\ jobs[j].code = "draft" /\ correction' = j
      /\ UNCHANGED <<jobs, calls, granted, proposals, coder>>
  BY DEF Correct
<1>3. LineageTables' /\ CallInv'
  BY <1>1, <1>2, CallStays DEF LineageTables, Last
<1>4. TailInv'
  BY <1>1, <1>2 DEF TailInv, SpentDraft, Last
<1> QED BY <1>3, <1>4 DEF LineageInv

LEMMA StopLineageStep ==
    ASSUME LineageInv, StopLineage
    PROVE  LineageInv'
<1>1. LineageTables /\ TailInv
  BY DEF LineageInv
<1>2. /\ jobs' = [k \in DOMAIN jobs |->
                     [jobs[k] EXCEPT !.state = IF jobs[k].state = "queued" THEN "cancelled"
                                               ELSE jobs[k].state,
                                     !.cancel = jobs[k].state = "running"]]
      /\ UNCHANGED <<calls, granted, proposals, correction, coder>>
  BY DEF StopLineage
<1>3. /\ jobs \in Seq(LineageJob) /\ Last \in Nat /\ DOMAIN jobs = 1..Last /\ Last # 0
  BY <1>1 DEF LineageTables, Last
<1>4. ASSUME NEW k \in 1..Last
      PROVE  /\ jobs'[k] \in LineageJob
             /\ jobs'[k].tries = jobs[k].tries /\ jobs'[k].code = jobs[k].code
             /\ jobs[k].state # "queued" => jobs'[k].state = jobs[k].state
             /\ jobs[k].state = "queued" => jobs'[k].state = "cancelled"
  <2>1. jobs[k] \in LineageJob
    BY <1>1, JobIs
  <2> QED BY <1>2, <1>3, <2>1 DEF LineageJob, CallStates
<1>5. jobs' \in Seq(LineageJob) /\ Len(jobs') = Last
  <2>1. jobs' \in [1..Last -> LineageJob]
    BY <1>2, <1>3, <1>4
  <2> QED BY <1>3, <2>1
<1>6. LineageTables' /\ CallInv'
  BY <1>1, <1>2, <1>5, LineageTablesStay, CallStays
<1>7. TailInv'
  <2>1. Last' = Last /\ Last \in 1..Last
    BY <1>3, <1>5 DEF Last
  <2>2. \A k \in 1..Last : SpentDraft(jobs'[k])
    BY <1>1, <1>4 DEF TailInv, SpentDraft
  <2>3. \A k \in 1..Last :
           jobs[k].state \in {"succeeded", "failed"} => jobs'[k].state = jobs[k].state
    BY <1>4
  <2>4. \A k \in 1..Last : k # Last => jobs'[k].state = "succeeded"
    BY <1>1, <2>3 DEF TailInv
  <2>5. \A k \in proposals : k = Last /\ jobs'[k].state = "succeeded"
    BY <1>1, <2>1, <2>3 DEF TailInv
  <2>6. correction # 0 => /\ correction = Last /\ jobs'[Last].state = "failed"
                          /\ ~(jobs'[Last].tries < MaxTries) /\ proposals = {}
    BY <1>1, <1>4, <2>1, <2>3 DEF TailInv
  <2> QED BY <1>2, <2>1, <2>2, <2>4, <2>5, <2>6 DEF TailInv
<1> QED BY <1>6, <1>7 DEF LineageInv

LEMMA LineageStep == LineageInv /\ [LineageNext]_lineageVars => LineageInv'
<1> SUFFICES ASSUME LineageInv, [LineageNext]_lineageVars
             PROVE  LineageInv'
  OBVIOUS
<1>1. CASE BlockLineage \/ Apply \/ UNCHANGED lineageVars
  <2>1. UNCHANGED <<jobs, calls, granted, proposals, correction, coder>>
    BY <1>1 DEF BlockLineage, Apply, lineageVars
  <2>2. LineageTables' /\ CallInv'
    BY <2>1, CallStays DEF LineageInv, LineageTables, Last
  <2> QED BY <2>1, <2>2, TailStays DEF LineageInv
<1>2. ASSUME NEW c \in Coders, CoderStep(c)
      PROVE  LineageInv'
  BY <1>2, LeaseJobStep, ReadBudgetStep, CountCallStep, ReadSteps, AnswerSteps DEF CoderStep
<1>3. ASSUME NEW j \in DOMAIN jobs,
             LeaseExpires(j) \/ ResumeJob(j) \/ ExtendBudget(j) \/ Correct(j)
      PROVE  LineageInv'
  <2>1. j \in 1..Last
    BY TablesAre DEF LineageInv
  <2> QED BY <1>3, <2>1, LeaseExpiresStep, RetrySteps, CorrectStep
<1> QED BY <1>1, <1>2, <1>3, StopLineageStep DEF LineageNext

(* However many workers are overtaken, the calls of a lineage exceed its   *)
(* limit by one less than there are workers, for any limit and extension.  *)
THEOREM LineageCallsAreBounded == LineageSpec => []CallsAreBounded
<1>1. LineageInv => CallsAreBounded
  BY CallingIs DEF LineageInv, LineageTables, CallInv, CallsAreBounded
<1> QED BY <1>1, LineageInitial, LineageStep, PTL DEF LineageSpec

(* A corrected draft stays failed and no proposal competes with it.        *)
THEOREM CorrectionIsAlone == LineageSpec => []CorrectionStands
<1>1. ASSUME LineageInv
      PROVE  CorrectionStands
  <2>1. correction # 0 => jobs[correction].state = "failed" /\ proposals = {}
    BY <1>1 DEF LineageInv, TailInv
  <2>2. Cardinality(proposals) <= 1
    <3>1. proposals = {} \/ proposals = {Last}
      BY <1>1 DEF LineageInv, TailInv
    <3> QED BY <3>1, FS_EmptySet, FS_Singleton
  <2> QED BY <2>1, <2>2 DEF CorrectionStands
<1> QED BY <1>1, LineageInitial, LineageStep, PTL DEF LineageSpec

(* Both, for every value of the constants: a lineage stays within its      *)
(* calls and ends in one change set.                                       *)
THEOREM LineageStaysBounded == LineageSpec => []LineageIsBounded
<1>1. CallsAreBounded /\ CorrectionStands => LineageIsBounded
  BY DEF LineageIsBounded
<1> QED BY <1>1, LineageCallsAreBounded, CorrectionIsAlone, PTL

-----------------------------------------------------------------------------
(* Conversation.  What a paused conversation may do to the messages it     *)
(* has, none of which is put to work.                                      *)

MessageFields ==
    {"kind", "state", "decision", "current", "effect", "calls", "outcome", "job", "work"}
WorkFields == {"state", "tries", "cancel"}
MessageRow(m) == DOMAIN m = MessageFields /\ DOMAIN m.work = WorkFields

Said == Len(messages)

MessagesInv ==
    /\ \E S : messages \in Seq(S)
    /\ \A i \in 1..Said : MessageRow(messages[i])
    /\ pausedAt \in 0..Said

(* The same messages, of which none is queued for work that was not.       *)
Quieter(new) ==
    /\ new = [i \in 1..Said |-> new[i]]
    /\ \A i \in 1..Said :
          /\ MessageRow(new[i])
          /\ new[i].work.state = "queued" => messages[i].work.state = "queued"

LEMMA SaidIs ==
    ASSUME MessagesInv
    PROVE  Said \in Nat /\ DOMAIN messages = 1..Said /\ messages = [i \in 1..Said |-> messages[i]]
BY DEF MessagesInv, Said

LEMMA TableIsSequence ==
    ASSUME NEW n \in Nat, NEW f, f = [i \in 1..n |-> f[i]]
    PROVE  (\E S : f \in Seq(S)) /\ Len(f) = n
<1>1. f \in Seq({f[i] : i \in 1..n}) /\ Len(f) = n
  OBVIOUS
<1> QED BY <1>1

LEMMA QuietKeeps ==
    ASSUME MessagesInv, messages' = messages
    PROVE  Quieter(messages')
BY SaidIs DEF Quieter, MessagesInv

(* Messages that change otherwise than in the work they have asked for.    *)
SameWork(new) ==
    /\ new = [i \in 1..Said |-> new[i]]
    /\ \A i \in 1..Said : DOMAIN new[i] = DOMAIN messages[i] /\ new[i].work = messages[i].work

LEMMA SameWorkIsQuiet ==
    ASSUME MessagesInv, SameWork(messages')
    PROVE  Quieter(messages')
BY DEF SameWork, Quieter, MessagesInv, MessageRow

LEMMA TurnSteps ==
    ASSUME MessagesInv,
           \/ LeaseTurn \/ CallModel \/ TurnFails
           \/ \E decision \in {"respond", "read", "plan"} : AnswerModel(decision)
           \/ \E i \in DOMAIN messages : TurnIsLost(i)
    PROVE  Quieter(messages') /\ UNCHANGED pausedAt
<1> USE SaidIs
<1>1. UNCHANGED pausedAt
  BY DEF LeaseTurn, CallModel, TurnFails, AnswerModel, TurnIsLost
<1>2. ASSUME NEW i, NEW state, EndTurn(i, state)
      PROVE  Quieter(messages')
  BY <1>2 DEF EndTurn, Quieter, MessagesInv, MessageRow, MessageFields
<1>3. CASE LeaseTurn
  <2>1. PICK i \in 1..Said : messages' = [messages EXCEPT ![i].job.state = "running",
                                                         ![i].job.tries = @ + 1]
    BY <1>3 DEF LeaseTurn
  <2>3. DOMAIN messages'[i] = DOMAIN messages[i] /\ messages'[i].work = messages[i].work
    BY <2>1 DEF MessagesInv, MessageRow, MessageFields
  <2>4. messages' = [k \in 1..Said |-> messages'[k]]
    BY <2>1
  <2>5. \A k \in 1..Said : k # i => messages'[k] = messages[k]
    BY <2>1
  <2>6. SameWork(messages')
    BY <2>3, <2>4, <2>5 DEF SameWork
  <2> QED BY <1>1, <2>6, SameWorkIsQuiet
<1>4. CASE CallModel
  BY <1>2, <1>4 DEF CallModel, Quieter, MessagesInv, MessageRow, MessageFields
<1>5. CASE TurnFails
  BY <1>2, <1>5 DEF TurnFails
<1>6. ASSUME NEW i \in DOMAIN messages, TurnIsLost(i)
      PROVE  Quieter(messages')
  <2>1. PICK state : messages' = [messages EXCEPT ![i].job.state = state]
    BY <1>6 DEF TurnIsLost
  <2> QED BY <2>1, SameWorkIsQuiet DEF SameWork, MessagesInv, MessageRow, MessageFields
<1>7. ASSUME NEW decision \in {"respond", "read", "plan"}, AnswerModel(decision)
      PROVE  Quieter(messages')
  <2> DEFINE i == turn.message
  <2>1. ASSUME NEW e, i \in 1..Said, messages' = [messages EXCEPT ![i].effect = e]
        PROVE  Quieter(messages')
    BY <2>1, SameWorkIsQuiet DEF SameWork, MessagesInv, MessageRow, MessageFields
  <2>2. ASSUME NEW effect, i \in 1..Said,
               messages' = [messages EXCEPT ![i] = Decides(i, decision, effect)]
        PROVE  Quieter(messages')
    <3>1. /\ DOMAIN Decides(i, decision, effect) = DOMAIN messages[i]
          /\ Decides(i, decision, effect).work = messages[i].work
      BY <2>2 DEF Decides, MessagesInv, MessageRow, MessageFields
    <3> QED BY <2>2, <3>1, SameWorkIsQuiet DEF SameWork
  <2>3. CASE EndTurn(i, "failed")
    BY <1>2, <2>3
  <2>4. CASE Held /\ ~EndTurn(i, "failed")
    <3>1. i \in 1..Said
      BY <2>4 DEF Held
    <3>2. \/ \E e : messages' = [messages EXCEPT ![i].effect = e]
          \/ \E effect : messages' = [messages EXCEPT ![i] = Decides(i, decision, effect)]
      BY <1>7, <2>4 DEF AnswerModel
    <3> QED BY <2>1, <2>2, <3>1, <3>2
  <2> QED BY <1>7, <2>3, <2>4 DEF AnswerModel
<1> QED BY <1>1, <1>3, <1>4, <1>5, <1>6, <1>7

(* What the coordinator settles, and what it takes further.                *)
LEMMA SettledIs ==
    ASSUME MessagesInv
    PROVE  /\ Settled = [i \in 1..Said |-> Settled[i]]
           /\ \A i \in 1..Said : /\ DOMAIN Settled[i] = DOMAIN messages[i]
                                 /\ Settled[i].work = messages[i].work
BY SaidIs DEF Settled, Finish, MessagesInv, MessageRow, MessageFields

LEMMA UnderstandIsQuiet ==
    ASSUME MessagesInv, NEW i
    PROVE  SameWork(Understand(i))
<1> USE SettledIs
<1>1. SameWork(Settled)
  BY DEF SameWork
<1>2. SameWork([Settled EXCEPT ![i].state = "classifying", ![i].job = Queued])
  BY DEF SameWork, MessagesInv, MessageRow, MessageFields
<1>3. SameWork([Settled EXCEPT ![i].job.state = "queued", ![i].job.cancel = FALSE])
  BY DEF SameWork, MessagesInv, MessageRow, MessageFields
<1>4. SameWork([Settled EXCEPT ![i] = Finish(Settled[i], "failed")])
  BY DEF Finish, SameWork, MessagesInv, MessageRow, MessageFields
<1> QED BY <1>1, <1>2, <1>3, <1>4 DEF Understand

LEMMA StepIsQuiet ==
    ASSUME MessagesInv, NEW i
    PROVE  SameWork(Step(i)) \/ (~Paused /\ Step(i) = Dispatch(i))
<1> USE SettledIs
<1>1. SameWork(Settled) /\ SameWork(Understand(i))
  BY UnderstandIsQuiet DEF SameWork
<1>2. /\ SameWork([Settled EXCEPT ![i] = Finish(Settled[i], "ok")])
      /\ SameWork([Settled EXCEPT ![i] = Finish(Settled[i], "failed")])
  BY DEF Finish, SameWork, MessagesInv, MessageRow, MessageFields
<1>3. SameWork([Settled EXCEPT ![i].state = "classifying", ![i].decision = "none",
                               ![i].job = Queued])
  BY DEF SameWork, MessagesInv, MessageRow, MessageFields
<1>4. SameWork(Reobserve(i))
  BY <1>2, <1>3 DEF Reobserve
<1> QED BY <1>1, <1>2, <1>4 DEF Step

(* Messages of the right shape, whatever has become of them.               *)
Shaped(ms) ==
    /\ ms = [i \in 1..Said |-> ms[i]]
    /\ \A i \in 1..Said : MessageRow(ms[i])

LEMMA DispatchIsShaped ==
    ASSUME MessagesInv, NEW i
    PROVE  Shaped(Dispatch(i))
<1> USE SettledIs
<1>1. Dispatch(i) = [k \in 1..Said |-> Dispatch(i)[k]]
  BY DEF Dispatch
<1>2. ASSUME NEW k \in 1..Said
      PROVE  MessageRow(Dispatch(i)[k])
  <2>1. CASE k # i
    BY <2>1 DEF Dispatch, MessagesInv, MessageRow
  <2>2. CASE k = i
    BY <2>2 DEF Dispatch, MessagesInv, MessageRow, MessageFields, WorkFields, Queued
  <2> QED BY <2>1, <2>2
<1> QED BY <1>1, <1>2 DEF Shaped

LEMMA SameWorkIsShaped ==
    ASSUME MessagesInv, NEW ms, SameWork(ms)
    PROVE  Shaped(ms)
BY DEF SameWork, Shaped, MessagesInv, MessageRow

LEMMA ObservedIsShaped ==
    ASSUME NEW ms, Said \in Nat, Shaped(ms)
    PROVE  Shaped(Observed(ms))
BY DEF Shaped, Observed, MessageRow, MessageFields

LEMMA ShapedStep ==
    ASSUME MessagesInv, Shaped(messages'), pausedAt' = pausedAt \/ pausedAt' = 0
    PROVE  MessagesInv'
<1>1. (\E S : messages' \in Seq(S)) /\ Said' = Said
  BY SaidIs, TableIsSequence DEF Shaped, Said
<1>2. \A i \in 1..Said : MessageRow(messages'[i])
  BY DEF Shaped
<1>3. pausedAt' \in 0..Said /\ Said \in Nat
  BY SaidIs DEF MessagesInv
<1> QED BY <1>1, <1>2, <1>3 DEF MessagesInv

(* A message that is received, after what it does to the earlier ones.     *)
LEMMA Received ==
    ASSUME MessagesInv, NEW ms, Shaped(ms), NEW m, MessageRow(m), messages' = Append(ms, m),
           pausedAt' \in {0, pausedAt, Said + 1}
    PROVE  MessagesInv' /\ \A i \in 1..Said : messages'[i] = ms[i]
<1>1. Said \in Nat
  BY SaidIs
<1>2. PICK S : ms \in Seq(S)
  BY <1>1, TableIsSequence DEF Shaped
<1>3. Len(ms) = Said
  BY <1>1, TableIsSequence DEF Shaped
<1>4. ms \in Seq(S \cup {m}) /\ m \in S \cup {m}
  BY <1>2
<1>5. /\ messages' \in Seq(S \cup {m}) /\ Said' = Said + 1 /\ messages'[Said + 1] = m
      /\ \A i \in 1..Said : messages'[i] = ms[i]
  BY <1>3, <1>4, AppendProperties DEF Said
<1>6. \A i \in 1..Said' : MessageRow(messages'[i])
  BY <1>1, <1>5 DEF Shaped
<1>7. pausedAt' \in 0..Said'
  BY <1>1, <1>5 DEF MessagesInv
<1> QED BY <1>5, <1>6, <1>7 DEF MessagesInv

LEMMA ObservedIsQuiet ==
    ASSUME MessagesInv, NEW ms, SameWork(ms)
    PROVE  SameWork(Observed(ms))
BY DEF Observed, SameWork, MessagesInv, MessageRow, MessageFields

(* One step of work, by anybody: it is queued by the coordinator only.     *)
LEMMA WorkIsQuiet ==
    ASSUME MessagesInv, NEW i \in DOMAIN messages, Work(i)
    PROVE  Quieter(messages')
<1> USE SaidIs
<1>1. PICK state : /\ messages' = Observed([messages EXCEPT ![i].work.state = state])
                   /\ state # "queued"
  BY DEF Work
<1> DEFINE ms == [messages EXCEPT ![i].work.state = state]
<1>2. /\ ms = [k \in 1..Said |-> ms[k]]
      /\ \A k \in 1..Said : /\ MessageRow(ms[k])
                            /\ ms[k].work.state = "queued" => messages[k].work.state = "queued"
  <2>1. ms = [k \in 1..Said |-> ms[k]] /\ \A k \in 1..Said : k # i => ms[k] = messages[k]
    OBVIOUS
  <2>2. DOMAIN ms[i] = MessageFields /\ DOMAIN ms[i].work = WorkFields /\ ms[i].work.state = state
    BY DEF MessagesInv, MessageRow, MessageFields, WorkFields
  <2> QED BY <1>1, <2>1, <2>2 DEF MessagesInv, MessageRow
<1> HIDE DEF ms
<1>3. /\ messages' = [k \in 1..Said |-> messages'[k]]
      /\ \A k \in 1..Said : /\ DOMAIN messages'[k] = DOMAIN ms[k]
                            /\ messages'[k].work = ms[k].work
  BY <1>1, <1>2 DEF ms, Observed, MessageRow, MessageFields
<1> QED BY <1>2, <1>3 DEF Quieter, MessageRow

LEMMA TickIsQuiet ==
    ASSUME MessagesInv, ConversationTick
    PROVE  Shaped(messages') /\ (Paused => Quieter(messages'))
<1> DEFINE next == IF Waiting = {} THEN Settled ELSE Step(Chosen)
<1>1. SameWork(Settled)
  BY SettledIs DEF SameWork
<1>2. Shaped(next) /\ (Paused => SameWork(next))
  BY <1>1, StepIsQuiet, SameWorkIsShaped, DispatchIsShaped
<1>3. messages' = next \/ messages' = Observed(next)
  BY DEF ConversationTick
<1> HIDE DEF next
<1>4. Shaped(messages')
  BY <1>2, <1>3, SaidIs, ObservedIsShaped
<1>5. ASSUME Paused
      PROVE  SameWork(messages')
  BY <1>2, <1>3, <1>5, ObservedIsQuiet
<1> QED BY <1>4, <1>5, SameWorkIsQuiet

LEMMA MessagesAreShaped ==
    ASSUME MessagesInv
    PROVE  Shaped(messages) /\ SameWork(messages)
BY SaidIs DEF MessagesInv, Shaped, SameWork

LEMMA NewMessageIs ==
    ASSUME NEW kind
    PROVE  MessageRow(NewMessage(kind)) /\ DOMAIN NewMessage(kind) = MessageFields
BY DEF MessageRow, NewMessage, MessageFields, WorkFields, NoJob

LEMMA ReceiveSteps ==
    ASSUME MessagesInv, ReceiveNote \/ ReceiveStop \/ ReceiveContinue
    PROVE  /\ MessagesInv'
           /\ Paused /\ pausedAt' = pausedAt => \A i \in 1..Said : messages'[i] = messages[i]
<1> USE SaidIs, MessagesAreShaped
<1>1. CASE ReceiveNote
  <2>1. messages' = Append(messages, NewMessage("note")) /\ pausedAt' = pausedAt
    BY <1>1 DEF ReceiveNote
  <2> QED BY <2>1, NewMessageIs, Received
<1>2. CASE ReceiveStop
  <2> DEFINE ms == [i \in DOMAIN messages |->
                       [messages[i] EXCEPT !.job = StopJob(@), !.work = StopJob(@)]]
             m == Finish(NewMessage("stop"), "ok")
  <2>1. messages' = Append(Observed(ms), m) /\ pausedAt' = Said + 1
    BY <1>2 DEF ReceiveStop, Said
  <2>2. MessageRow(m)
    BY NewMessageIs DEF Finish, MessageRow, MessageFields
  <2>3. Shaped(ms)
    BY DEF MessagesInv, Shaped, MessageRow, MessageFields, WorkFields, StopJob
  <2>4. Shaped(Observed(ms))
    BY <2>3, ObservedIsShaped
  <2> HIDE DEF ms, m
  <2>5. pausedAt' # pausedAt
    <3>1. pausedAt \in 0..Said /\ Said \in Nat
      BY DEF MessagesInv
    <3> HIDE SaidIs, MessagesAreShaped
    <3> QED BY <2>1, <3>1
  <2> QED BY <2>1, <2>2, <2>4, <2>5, Received
<1>3. CASE ReceiveContinue
  <2>1. pausedAt' = 0 /\ (Paused => pausedAt' # pausedAt)
    <3>1. pausedAt' = 0
      BY <1>3 DEF ReceiveContinue
    <3> QED BY <3>1 DEF Paused
  <2>2. PICK m : /\ MessageRow(m)
                 /\ messages' = Append(messages, m) \/ messages' = Append(Observed(messages), m)
    <3> DEFINE new == NewMessage("continue")
    <3>1. MessageRow(new) /\ DOMAIN new = MessageFields
      BY NewMessageIs
    <3> HIDE DEF new
    <3>2. MessageRow(Finish(new, "ok"))
      BY <3>1 DEF Finish, MessageRow, MessageFields
    <3>3. \A e : MessageRow([new EXCEPT !.state = "classifying", !.job = Queued, !.effect = e])
      BY <3>1 DEF MessageRow, MessageFields
    <3>4. MessageRow([new EXCEPT !.state = "dispatched", !.decision = "plan", !.work = Queued])
      BY <3>1 DEF MessageRow, MessageFields, WorkFields, Queued
    <3> QED BY <1>3, <3>2, <3>3, <3>4 DEF ReceiveContinue, new
  <2>3. Shaped(Observed(messages))
    BY ObservedIsShaped
  <2> QED BY <2>1, <2>2, <2>3, Received
<1> QED BY <1>1, <1>2, <1>3

LEMMA MessagesStep ==
    ASSUME MessagesInv, [ConversationNext]_conversationVars
    PROVE  /\ MessagesInv'
           /\ Paused /\ pausedAt' = pausedAt =>
                 \A i \in 1..Said :
                    messages'[i].work.state = "queued" => messages[i].work.state = "queued"
<1> USE SaidIs
<1>1. ASSUME Quieter(messages'), UNCHANGED pausedAt
      PROVE  /\ MessagesInv'
             /\ \A i \in 1..Said :
                   messages'[i].work.state = "queued" => messages[i].work.state = "queued"
  <2>1. Shaped(messages')
    BY <1>1 DEF Quieter, Shaped
  <2>2. MessagesInv'
    BY <1>1, <2>1, ShapedStep
  <2> QED BY <1>1, <2>2 DEF Quieter
<1>2. CASE ReceiveNote \/ ReceiveStop \/ ReceiveContinue
  BY <1>2, ReceiveSteps
<1>3. CASE ConfirmTask
  <2>1. messages' = Observed(messages) /\ UNCHANGED pausedAt
    BY <1>3 DEF ConfirmTask
  <2>2. Quieter(messages')
    BY <2>1, MessagesAreShaped, ObservedIsQuiet, SameWorkIsQuiet
  <2> QED BY <1>1, <2>1, <2>2
<1>4. CASE \/ LeaseTurn \/ CallModel \/ TurnFails
           \/ \E decision \in {"respond", "read", "plan"} : AnswerModel(decision)
           \/ \E i \in DOMAIN messages : TurnIsLost(i)
  BY <1>1, <1>4, TurnSteps
<1>5. CASE \E i \in DOMAIN messages : Work(i)
  <2>1. UNCHANGED pausedAt
    BY <1>5 DEF Work
  <2> QED BY <1>1, <1>5, <2>1, WorkIsQuiet
<1>6. CASE ConversationTick
  <2>1. UNCHANGED pausedAt /\ Shaped(messages') /\ (Paused => Quieter(messages'))
    BY <1>6, TickIsQuiet DEF ConversationTick
  <2>2. MessagesInv'
    BY <2>1, ShapedStep
  <2> QED BY <1>1, <2>1, <2>2
<1>7. CASE UNCHANGED conversationVars
  BY <1>1, <1>7, QuietKeeps DEF conversationVars
<1> QED BY <1>2, <1>3, <1>4, <1>5, <1>6, <1>7 DEF ConversationNext

(* Nothing sent before a stop is put to work while the stop stands.        *)
THEOREM PauseHolds == ConversationSpec => PausedIsQuiet
<1>1. ConversationInit => MessagesInv
  BY DEF ConversationInit, MessagesInv, Said
<1>2. MessagesInv /\ [ConversationNext]_conversationVars => MessagesInv'
  BY MessagesStep
<1>3. ASSUME MessagesInv, [ConversationNext]_conversationVars
      PROVE  [Paused /\ pausedAt' = pausedAt =>
                 \A i \in 1..pausedAt : messages'[i].work.state = "queued"
                                    => messages[i].work.state = "queued"]_conversationVars
  <2>1. 1..pausedAt \subseteq 1..Said
    BY <1>3, SaidIs DEF MessagesInv
  <2> QED BY <1>3, <2>1, MessagesStep
<1> QED BY <1>1, <1>2, <1>3, PTL DEF ConversationSpec, PausedIsQuiet

-----------------------------------------------------------------------------
(* AutomationLoop.  A decision is taken on what is read and carried out    *)
(* later: what it rests on must still hold by then.                        *)

WorkRow(w) ==
    /\ DOMAIN w = {"plan", "sub", "job", "review"}
    /\ w.plan \in Nat /\ w.sub \in 1..4 /\ w.review \in {"none", "pass", "block"}

StartEvents == {i \in DOMAIN log : log[i].kind = "started"}
WorksOf(p) == {i \in DOMAIN works : works[i].plan = p}

AutoTables ==
    /\ \E S : log \in Seq(S)
    /\ \E S : works \in Seq(S)
    /\ \A i \in 1..CurrentWork : WorkRow(works[i])
    /\ late \in Nat
    /\ StartEvents # {} => CurrentWork > 0

(* A plan has a first attempt, and has been started.                       *)
PlansInv ==
    \A i \in 1..CurrentWork :
        /\ works[i].plan <= PlansStarted
        /\ \E f \in 1..i : /\ works[f].plan = works[i].plan
                           /\ \A k \in 1..f - 1 : works[k].plan # works[i].plan

(* A repair that was decided upon is still due if no attempt has followed. *)
RepairDue ==
    tick.do = "repair" /\ tick.work = CurrentWork =>
        /\ CurrentWork > 0 /\ Here.review = "block"
        /\ ApprovedWorks(Here.plan) <= MaxRepairs

(* What was decided before a stop is the only late work.                   *)
LateInv == Stopped => /\ late <= 1
                      /\ tick.do \in {"next", "repair"} => late = 0

AutoInv == AutoTables /\ PlansInv /\ RepairDue /\ RepairsAreEarned /\ LateInv

LEMMA TablesOfWork ==
    ASSUME AutoTables
    PROVE  /\ CurrentWork \in Nat /\ DOMAIN works = 1..CurrentWork
           /\ works = [i \in 1..CurrentWork |-> works[i]]
           /\ Len(log) \in Nat /\ DOMAIN log = 1..Len(log)
BY DEF AutoTables, CurrentWork

LEMMA SetsOfWork ==
    ASSUME AutoTables
    PROVE  /\ IsFiniteSet(StartEvents) /\ PlansStarted = Cardinality(StartEvents)
           /\ PlansStarted \in Nat
           /\ \A p : /\ IsFiniteSet(WorksOf(p)) /\ ApprovedWorks(p) = Cardinality(WorksOf(p))
                     /\ ApprovedWorks(p) \in Nat
<1>1. IsFiniteSet(DOMAIN log) /\ IsFiniteSet(DOMAIN works)
  <2>1. \A n \in Nat : IsFiniteSet(1..n)
    BY FS_Interval
  <2> QED BY <2>1, TablesOfWork
<1>2. StartEvents \subseteq DOMAIN log /\ \A p : WorksOf(p) \subseteq DOMAIN works
  BY DEF StartEvents, WorksOf
<1>3. IsFiniteSet(StartEvents) /\ \A p : IsFiniteSet(WorksOf(p))
  BY <1>1, <1>2, FS_Subset
<1>4. PlansStarted = Cardinality(StartEvents)
  BY DEF PlansStarted, StartEvents
<1>5. \A p : ApprovedWorks(p) = Cardinality(WorksOf(p))
  BY DEF ApprovedWorks, WorksOf
<1> QED BY <1>3, <1>4, <1>5, FS_CardinalityType

LEMMA AutoInitial == AutoInit => AutoInv
<1> SUFFICES ASSUME AutoInit
             PROVE  AutoInv
  OBVIOUS
<1>1. /\ works = <<>> /\ log = <<>> /\ tick = NoTick /\ late = 0
  BY DEF AutoInit
<1>2. CurrentWork = 0 /\ DOMAIN works = {} /\ StartEvents = {}
  BY <1>1 DEF CurrentWork, StartEvents
<1>3. AutoTables /\ PlansInv /\ RepairsAreEarned
  BY <1>1, <1>2 DEF AutoTables, PlansInv, RepairsAreEarned
<1>4. RepairDue /\ LateInv
  BY <1>1 DEF RepairDue, LateInv, NoTick
<1> QED BY <1>3, <1>4 DEF AutoInv

(* The journal gets an event, of which the others take no notice.          *)
LEMMA EventIs ==
    ASSUME AutoTables, NEW kind, NEW kinds, RecordEvent(kind, kinds)
    PROVE  /\ \E S : log' \in Seq(S)
           /\ Len(log') = Len(log) + 1 /\ log'[Len(log) + 1].kind = kind
           /\ \A i \in 1..Len(log) : log'[i] = log[i]
           /\ DOMAIN log' = 1..Len(log) + 1
<1> DEFINE e == Event(kind, kinds)
<1>1. PICK S : log \in Seq(S)
  BY DEF AutoTables
<1>2. log \in Seq(S \cup {e}) /\ e \in S \cup {e}
  BY <1>1
<1>3. e.kind = kind
  BY DEF Event
<1> HIDE DEF e
<1>4. /\ log' \in Seq(S \cup {e}) /\ Len(log') = Len(log) + 1
      /\ log'[Len(log) + 1] = e /\ \A i \in 1..Len(log) : log'[i] = log[i]
  BY <1>2, AppendProperties DEF RecordEvent, e
<1>5. DOMAIN log' = 1..Len(log) + 1
  BY <1>4
<1> QED BY <1>3, <1>4, <1>5

LatestOf(at) == IF at = {} THEN 0 ELSE CHOOSE i \in at : \A k \in at : k <= i

LEMMA OtherEventsStay ==
    ASSUME AutoTables, NEW kind, NEW kinds, RecordEvent(kind, kinds), NEW other, other # kind
    PROVE  LastEvent(other)' = LastEvent(other)
<1>1. {i \in DOMAIN log' : log'[i].kind = other} = {i \in DOMAIN log : log[i].kind = other}
  BY EventIs, TablesOfWork
<1>2. LastEvent(other) = LatestOf({i \in DOMAIN log : log[i].kind = other})
  BY DEF LastEvent, LatestOf
<1>3. LastEvent(other)' = LatestOf({i \in DOMAIN log' : log'[i].kind = other})
  BY DEF LastEvent, LatestOf
<1> QED BY <1>1, <1>2, <1>3

(* The tables of an action that adds no attempt and starts no plan.        *)
SamePlans ==
    /\ works' = [i \in 1..CurrentWork |-> works'[i]]
    /\ \A i \in 1..CurrentWork :
          /\ WorkRow(works'[i]) /\ works'[i].plan = works[i].plan
          /\ works[i].review = "block" => works'[i].review = "block"

SameStarts == UNCHANGED log \/ \E kind, kinds : RecordEvent(kind, kinds) /\ kind # "started"

LEMMA SameStartsIs ==
    ASSUME AutoTables, SameStarts
    PROVE  (\E S : log' \in Seq(S)) /\ StartEvents' = StartEvents
<1>1. CASE UNCHANGED log
  BY <1>1 DEF AutoTables, StartEvents
<1>2. ASSUME NEW kind, NEW kinds, RecordEvent(kind, kinds), kind # "started"
      PROVE  (\E S : log' \in Seq(S)) /\ StartEvents' = StartEvents
  BY <1>2, EventIs, TablesOfWork DEF StartEvents
<1> QED BY <1>1, <1>2 DEF SameStarts

LEMMA SamePlansStep ==
    ASSUME AutoInv, SamePlans, SameStarts, late' \in Nat
    PROVE  /\ AutoTables' /\ PlansInv' /\ RepairsAreEarned'
           /\ tick' = tick \/ tick'.do # "repair" => RepairDue'
<1> DEFINE N == CurrentWork
<1>1. AutoTables /\ PlansInv /\ RepairsAreEarned /\ N \in Nat /\ DOMAIN works = 1..N
  BY TablesOfWork DEF AutoInv
<1>2. (\E S : works' \in Seq(S)) /\ CurrentWork' = N /\ DOMAIN works' = 1..N
  BY <1>1, TableIsSequence DEF SamePlans, CurrentWork
<1>3. (\E S : log' \in Seq(S)) /\ StartEvents' = StartEvents
  BY <1>1, SameStartsIs
<1>4. PlansStarted' = PlansStarted
  BY <1>3 DEF PlansStarted, StartEvents
<1>5. ASSUME NEW p
      PROVE  ApprovedWorks(p)' = ApprovedWorks(p)
  BY <1>1, <1>2 DEF ApprovedWorks, SamePlans
<1>6. AutoTables'
  BY <1>1, <1>2, <1>3 DEF AutoTables, SamePlans
<1>7. PlansInv'
  BY SMTT(60), <1>1, <1>2, <1>4 DEF PlansInv, SamePlans
<1>8. RepairsAreEarned'
  BY <1>1, <1>2, <1>5 DEF RepairsAreEarned, SamePlans
<1>9. ASSUME tick' = tick
      PROVE  RepairDue'
  BY <1>1, <1>2, <1>5, <1>9 DEF AutoInv, RepairDue, SamePlans, Here
<1>10. ASSUME tick'.do # "repair"
       PROVE  RepairDue'
  BY <1>10 DEF RepairDue
<1> QED BY <1>6, <1>7, <1>8, <1>9, <1>10

Quiet ==
    \/ UNCHANGED log
    \/ \E kind, kinds : RecordEvent(kind, kinds) /\ kind \notin {"stop", "started"}

LEMMA QuietLog ==
    ASSUME AutoTables, Quiet
    PROVE  Stopped' = Stopped /\ SameStarts
<1>1. CASE UNCHANGED log
  BY <1>1 DEF Stopped, LastEvent, SameStarts
<1>2. ASSUME NEW kind, NEW kinds, RecordEvent(kind, kinds), kind \notin {"stop", "started"}
      PROVE  Stopped' = Stopped /\ SameStarts
  <2>1. LastEvent("stop")' = LastEvent("stop") /\ LastEvent("started")' = LastEvent("started")
    BY <1>2, OtherEventsStay
  <2>2. SameStarts
    BY <1>2 DEF SameStarts
  <2> QED BY <2>1, <2>2 DEF Stopped
<1> QED BY <1>1, <1>2 DEF Quiet

(* A step that only moves the jobs and the reviews of attempts.            *)
LEMMA WorkStep ==
    ASSUME AutoInv, SamePlans, Quiet, UNCHANGED <<tick, late>>
    PROVE  AutoInv'
<1>1. AutoTables /\ late \in Nat /\ LateInv
  BY DEF AutoInv, AutoTables
<1>2. Stopped' = Stopped /\ SameStarts
  BY <1>1, QuietLog
<1>3. AutoTables' /\ PlansInv' /\ RepairsAreEarned' /\ RepairDue'
  BY <1>1, <1>2, SamePlansStep
<1>4. LateInv'
  BY <1>1, <1>2 DEF LateInv
<1> QED BY <1>3, <1>4 DEF AutoInv

LEMMA SetJobIs ==
    ASSUME AutoTables, NEW i, NEW job, SetJob(i, job)
    PROVE  SamePlans
BY TablesOfWork DEF AutoTables, SetJob, SamePlans, WorkRow

LEMMA JobsOfWork ==
    ASSUME AutoInv, NEW i \in DOMAIN works,
           \/ RunSubtask(i) \/ SubtaskSucceeds(i) \/ SubtaskFails(i) \/ SubtaskIsLost(i)
           \/ \E verdict \in {"pass", "block"} : ReviewByHand(i, verdict)
    PROVE  AutoInv'
<1>1. AutoTables /\ i \in 1..CurrentWork
  BY TablesOfWork DEF AutoInv
<1>2. UNCHANGED <<log, tick, late>>
  BY DEF RunSubtask, SubtaskSucceeds, SubtaskFails, SubtaskIsLost, ReviewByHand
<1>3. CASE \E job : SetJob(i, job)
  BY <1>1, <1>2, <1>3, SetJobIs, WorkStep DEF Quiet
<1>4. ASSUME NEW verdict \in {"pass", "block"}, works[i].review = "none",
             \/ works' = [works EXCEPT ![i].review = verdict]
             \/ \E job : works' = [works EXCEPT ![i].review = verdict, ![i].job = job]
      PROVE  AutoInv'
  <2>1. works' = [k \in 1..CurrentWork |-> works'[k]]
    BY <1>1, <1>4, TablesOfWork
  <2>2. \A k \in 1..CurrentWork : k # i => works'[k] = works[k]
    BY <1>1, <1>4, TablesOfWork
  <2>3. WorkRow(works'[i]) /\ works'[i].plan = works[i].plan
    <3>1. WorkRow(works[i]) /\ i \in DOMAIN works
      BY <1>1, TablesOfWork DEF AutoTables
    <3>2. CASE works' = [works EXCEPT ![i].review = verdict]
      <4>1. works'[i] = [works[i] EXCEPT !.review = verdict]
        BY <3>1, <3>2
      <4> QED BY <1>4, <3>1, <4>1 DEF WorkRow
    <3>3. ASSUME NEW job, works' = [works EXCEPT ![i].review = verdict, ![i].job = job]
          PROVE  WorkRow(works'[i]) /\ works'[i].plan = works[i].plan
      <4>1. works'[i] = [works[i] EXCEPT !.review = verdict, !.job = job]
        BY <3>1, <3>3
      <4> QED BY <1>4, <3>1, <4>1 DEF WorkRow
    <3> QED BY <1>4, <3>2, <3>3
  <2>4. SamePlans
    BY <1>1, <1>4, <2>1, <2>2, <2>3 DEF AutoTables, SamePlans
  <2> QED BY <1>2, <2>4, WorkStep DEF Quiet
<1>5. CASE SubtaskSucceeds(i)
  BY <1>3, <1>4, <1>5 DEF SubtaskSucceeds
<1>6. CASE RunSubtask(i) \/ SubtaskFails(i) \/ SubtaskIsLost(i)
  BY <1>3, <1>6 DEF RunSubtask, SubtaskFails, SubtaskIsLost
<1>7. CASE \E verdict \in {"pass", "block"} : ReviewByHand(i, verdict)
  BY <1>4, <1>7 DEF ReviewByHand, Reviewable
<1> QED BY <1>5, <1>6, <1>7

LEMMA UserSteps ==
    ASSUME AutoInv, RequestStop \/ Resume \/ Accept
    PROVE  AutoInv'
<1>1. AutoTables /\ late \in Nat
  BY DEF AutoInv, AutoTables
<1>2. CASE Accept
  <2>1. Quiet /\ UNCHANGED <<works, tick, late>>
    BY <1>2 DEF Accept, Quiet
  <2>2. SamePlans
    BY <1>1, <2>1, TablesOfWork DEF SamePlans, AutoTables
  <2> QED BY <2>1, <2>2, WorkStep
<1>3. CASE Resume
  <2>1. Quiet /\ UNCHANGED <<tick, late>>
    BY <1>3 DEF Resume, Quiet
  <2>2. SamePlans
    BY <1>1, <1>3, SetJobIs DEF Resume
  <2> QED BY <2>1, <2>2, WorkStep
<1>4. CASE RequestStop
  <2> DEFINE held == {<<i, works[i].sub>> : i \in {j \in DOMAIN works : Ongoing(works[j].job)}}
  <2>a. UNCHANGED tick /\ late' = 0 /\ RecordEvent("stop", held)
    BY <1>4 DEF RequestStop
  <2> HIDE DEF held
  <2>b. SameStarts
    BY <2>a DEF SameStarts
  <2>1. UNCHANGED tick /\ late' = 0 /\ SameStarts
    BY <2>a, <2>b
  <2>2. SamePlans
    <3>1. works' = [i \in 1..CurrentWork |->
                      [works[i] EXCEPT !.job.state = IF @ = "queued" THEN "cancelled" ELSE @,
                                       !.job.cancel = @ \/ works[i].job.state = "running"]]
      BY <1>1, <1>4, TablesOfWork DEF RequestStop
    <3>2. ASSUME NEW i \in 1..CurrentWork
          PROVE  /\ WorkRow(works'[i]) /\ works'[i].plan = works[i].plan
                 /\ works'[i].review = works[i].review
      BY <1>1, <3>1, <3>2 DEF AutoTables, WorkRow
    <3>3. works' = [i \in 1..CurrentWork |-> works'[i]]
      BY <3>1
    <3> QED BY <3>2, <3>3 DEF SamePlans
  <2>3. AutoTables' /\ PlansInv' /\ RepairsAreEarned' /\ RepairDue'
    BY <2>1, <2>2, SamePlansStep
  <2>4. LateInv'
    BY <2>1 DEF LateInv
  <2> QED BY <2>3, <2>4 DEF AutoInv
<1> QED BY <1>2, <1>3, <1>4

(* An attempt is added.                                                    *)
LEMMA AttemptAdded ==
    ASSUME AutoTables, NEW plan \in Nat, works' = Append(works, NewWork(plan))
    PROVE  /\ \E S : works' \in Seq(S)
           /\ CurrentWork' = CurrentWork + 1 /\ DOMAIN works' = 1..CurrentWork + 1
           /\ works'[CurrentWork + 1].plan = plan /\ WorkRow(works'[CurrentWork + 1])
           /\ \A i \in 1..CurrentWork : works'[i] = works[i]
           /\ ApprovedWorks(plan)' = ApprovedWorks(plan) + 1
           /\ \A p : p # plan => ApprovedWorks(p)' = ApprovedWorks(p)
<1> DEFINE w == NewWork(plan)
           N == CurrentWork
<1>1. PICK S : works \in Seq(S)
  BY DEF AutoTables
<1>2. works \in Seq(S \cup {w}) /\ w \in S \cup {w}
  BY <1>1
<1>3. w.plan = plan /\ WorkRow(w)
  BY DEF NewWork, WorkRow
<1> HIDE DEF w
<1>4. /\ works' \in Seq(S \cup {w}) /\ CurrentWork' = N + 1
      /\ works'[N + 1] = w /\ \A i \in 1..N : works'[i] = works[i]
  BY <1>2, AppendProperties DEF w, CurrentWork
<1>5. DOMAIN works' = 1..N + 1 /\ N \in Nat /\ DOMAIN works = 1..N
  BY <1>4, TablesOfWork DEF CurrentWork
<1>6. ASSUME NEW p, p # plan
      PROVE  ApprovedWorks(p)' = ApprovedWorks(p)
  <2>1. {i \in DOMAIN works' : works'[i].plan = p} = {i \in DOMAIN works : works[i].plan = p}
    BY <1>3, <1>4, <1>5, <1>6
  <2> QED BY <2>1 DEF ApprovedWorks
<1>7. ApprovedWorks(plan)' = ApprovedWorks(plan) + 1
  <2>1. /\ {i \in DOMAIN works' : works'[i].plan = plan} = WorksOf(plan) \cup {N + 1}
        /\ N + 1 \notin WorksOf(plan)
    BY <1>3, <1>4, <1>5 DEF WorksOf
  <2>2. Cardinality(WorksOf(plan) \cup {N + 1}) = Cardinality(WorksOf(plan)) + 1
    BY <2>1, SetsOfWork, FS_AddElement
  <2> QED BY <2>1, <2>2, SetsOfWork DEF ApprovedWorks
<1> QED BY <1>3, <1>4, <1>5, <1>6, <1>7

(* A plan that is started is new: no attempt carries its number.           *)
LEMMA PlanIsStarted ==
    ASSUME AutoInv, StartPlan
    PROVE  AutoInv'
<1>p. PICK P : P = PlansStarted + 1
  OBVIOUS
<1>n. PICK N : N = CurrentWork
  OBVIOUS
<1>1. /\ AutoTables /\ PlansInv /\ RepairsAreEarned
      /\ N \in Nat /\ DOMAIN works = 1..N /\ CurrentWork = N
  BY <1>n, TablesOfWork DEF AutoInv
<1>2. /\ RecordEvent("started", {}) /\ works' = Append(works, NewWork(P))
      /\ tick' = NoTick /\ late' = 0
  BY <1>p DEF StartPlan
<1>3. PlansStarted \in Nat /\ P \in Nat /\ P = PlansStarted + 1
  BY <1>p, <1>1, SetsOfWork
<1>4. /\ \E S : works' \in Seq(S)
      /\ CurrentWork' = N + 1 /\ DOMAIN works' = 1..N + 1
      /\ works'[N + 1].plan = P /\ WorkRow(works'[N + 1])
      /\ \A i \in 1..N : works'[i] = works[i]
      /\ ApprovedWorks(P)' = ApprovedWorks(P) + 1
      /\ \A p : p # P => ApprovedWorks(p)' = ApprovedWorks(p)
  BY <1>1, <1>2, <1>3, AttemptAdded
<1>5. /\ \E S : log' \in Seq(S)
      /\ Len(log') = Len(log) + 1 /\ log'[Len(log) + 1].kind = "started"
      /\ \A i \in 1..Len(log) : log'[i] = log[i]
      /\ DOMAIN log' = 1..Len(log) + 1 /\ Len(log) \in Nat /\ DOMAIN log = 1..Len(log)
  BY <1>1, <1>2, EventIs, TablesOfWork
<1>6. PlansStarted' = P
  <2>1. StartEvents' = StartEvents \cup {Len(log) + 1} /\ Len(log) + 1 \notin StartEvents
    BY <1>5 DEF StartEvents
  <2>2. Cardinality(StartEvents \cup {Len(log) + 1}) = Cardinality(StartEvents) + 1
    BY <1>1, <2>1, SetsOfWork, FS_AddElement
  <2>3. PlansStarted' = Cardinality(StartEvents')
    BY DEF PlansStarted, StartEvents
  <2> QED BY <1>1, <1>3, <2>1, <2>2, <2>3, SetsOfWork
<1>7. \A i \in 1..N : WorkRow(works[i]) /\ works[i].plan \in Nat /\ works[i].plan <= PlansStarted
  BY <1>1 DEF AutoTables, WorkRow, PlansInv
<1>8. \A i \in 1..N : works'[i].plan < P /\ works'[i].plan # P
  BY <1>3, <1>4, <1>7
<1>9. ApprovedWorks(P) = 0
  <2>1. {i \in DOMAIN works : works[i].plan = P} = {}
    BY <1>1, <1>4, <1>8
  <2> QED BY <2>1, FS_EmptySet DEF ApprovedWorks
<1>10. AutoTables'
  BY <1>1, <1>2, <1>4, <1>5, <1>7 DEF AutoTables
<1>11. PlansInv'
  <2>1. ASSUME NEW i \in 1..N
        PROVE  /\ works'[i].plan <= P
               /\ \E f \in 1..i : /\ works'[f].plan = works'[i].plan
                                  /\ \A k \in 1..f - 1 : works'[k].plan # works'[i].plan
    <3>1. PICK f \in 1..i : /\ works[f].plan = works[i].plan
                            /\ \A k \in 1..f - 1 : works[k].plan # works[i].plan
      BY <1>1 DEF PlansInv
    <3>2. f \in 1..N /\ \A k \in 1..f - 1 : k \in 1..N
      BY <1>1
    <3>3. works'[i].plan <= P /\ works'[f].plan = works'[i].plan
      BY <1>3, <1>4, <1>7, <3>1, <3>2
    <3>4. \A k \in 1..f - 1 : works'[k].plan # works'[i].plan
      BY <1>4, <3>1, <3>2
    <3> QED BY <3>1, <3>3, <3>4
  <2>2. /\ works'[N + 1].plan <= P /\ N + 1 \in 1..N + 1
        /\ \A k \in 1..N : works'[k].plan # works'[N + 1].plan
    BY <1>1, <1>3, <1>4, <1>8
  <2>3. \A i \in 1..N + 1 : i \in 1..N \/ i = N + 1
    BY <1>1
  <2>4. \E f \in 1..N + 1 : /\ works'[f].plan = works'[N + 1].plan
                            /\ \A k \in 1..f - 1 : works'[k].plan # works'[N + 1].plan
    BY <1>1, <2>2
  <2>5. ASSUME NEW i \in 1..CurrentWork'
        PROVE  /\ works'[i].plan <= PlansStarted'
               /\ \E f \in 1..i : /\ works'[f].plan = works'[i].plan
                                  /\ \A k \in 1..f - 1 : works'[k].plan # works'[i].plan
    <3>1. CASE i \in 1..N
      BY <1>6, <2>1, <3>1
    <3>2. CASE i = N + 1
      BY <1>6, <2>2, <2>4, <3>2
    <3> QED BY <1>4, <2>3, <3>1, <3>2
  <2> QED BY <2>5 DEF PlansInv
<1>12. RepairsAreEarned'
  <2>1. ASSUME NEW i \in 1..N
        PROVE  /\ i > 1 /\ works'[i].plan = works'[i - 1].plan => works'[i - 1].review = "block"
               /\ ApprovedWorks(works[i].plan)' <= MaxRepairs + 1
    <3>1. i > 1 => i - 1 \in 1..N
      BY <1>1
    <3>2. /\ i > 1 /\ works[i].plan = works[i - 1].plan => works[i - 1].review = "block"
          /\ ApprovedWorks(works[i].plan) <= MaxRepairs + 1
      BY <1>1 DEF RepairsAreEarned
    <3> QED BY <1>4, <1>8, <3>1, <3>2
  <2>2. N + 1 > 1 => works'[N + 1].plan # works'[N + 1 - 1].plan
    BY <1>1, <1>4, <1>8
  <2>3. ApprovedWorks(works[N + 1].plan)' <= MaxRepairs + 1
    <3>1. ApprovedWorks(P)' <= MaxRepairs + 1
      BY <1>4, <1>9, AutomationAssumption
    <3> QED BY <1>4, <3>1 DEF ApprovedWorks
  <2>4. \A i \in 1..N + 1 : i \in 1..N \/ i = N + 1
    BY <1>1
  <2>5. N + 1 > 1 /\ works'[N + 1].plan = works'[N + 1 - 1].plan
          => works'[N + 1 - 1].review = "block"
    BY <2>2
  <2>6. \A i \in DOMAIN works' : i \in 1..N \/ i = N + 1
    BY <1>4, <2>4
  <2>7. ASSUME NEW i \in DOMAIN works'
        PROVE  /\ i > 1 /\ works'[i].plan = works'[i - 1].plan => works'[i - 1].review = "block"
               /\ ApprovedWorks(works[i].plan)' <= MaxRepairs + 1
    <3>1. CASE i \in 1..N
      BY <2>1, <3>1
    <3>2. CASE i = N + 1
      <4>1. ApprovedWorks(works[i].plan)' <= MaxRepairs + 1
        BY <2>3, <3>2
      <4>2. i > 1 /\ works'[i].plan = works'[i - 1].plan => works'[i - 1].review = "block"
        BY <1>1, <2>5, <3>2
      <4> QED BY <4>1, <4>2
    <3> QED BY <2>6, <3>1, <3>2
  <2> QED BY <2>7 DEF RepairsAreEarned
<1>13. RepairDue' /\ LateInv'
  BY <1>2 DEF RepairDue, LateInv, NoTick
<1> QED BY <1>10, <1>11, <1>12, <1>13 DEF AutoInv

(* A repair is decided upon while the attempts of the plan, which lie      *)
(* between its first and the last one, are fewer than it may have.         *)
LEMMA RepairIsDue ==
    ASSUME AutoInv, LastEvent("started") > 0, Decision = "repair"
    PROVE  /\ CurrentWork > 0 /\ Here.review = "block"
           /\ ApprovedWorks(Here.plan) <= MaxRepairs
<1> DEFINE N == CurrentWork
           F == FirstWork
<1>1. AutoTables /\ PlansInv /\ N \in Nat /\ DOMAIN works = 1..N
  BY TablesOfWork DEF AutoInv
<1>2. N > 0 /\ N \in 1..N
  <2>1. {i \in DOMAIN log : log[i].kind = "started"} # {}
    BY DEF LastEvent
  <2> QED BY <1>1, <2>1 DEF AutoTables, StartEvents
<1>3. WorkRow(Here)
  BY <1>1, <1>2 DEF AutoTables, Here
<1>4. /\ Here.review \notin {"none", "pass"}
      /\ ~(Here.review = "block" /\ RepairsUsed >= MaxRepairs)
  <2> DEFINE answer == CASE Here.job.state \in {"failed", "cancelled"}       -> "block"
                         [] Here.sub < VerifyDone                            -> "next"
                         [] Here.sub >= VerifyDone /\ Here.review = "none"   -> "next"
                         [] Here.review = "pass"                             -> "await"
                         [] Here.review = "block" /\ RepairsUsed >= MaxRepairs -> "block"
                         [] OTHER                                            -> "repair"
  <2>1. answer = "repair"
    <3>1. CASE Stopped
      BY <3>1 DEF Decision
    <3>2. CASE ~Stopped /\ (Awaiting \/ Blocked \/ Ongoing(Here.job))
      BY <3>2 DEF Decision
    <3>3. CASE ~Stopped /\ ~(Awaiting \/ Blocked \/ Ongoing(Here.job))
      BY <3>3 DEF Decision
    <3> QED BY <3>1, <3>2, <3>3
  <2>2. Here.sub \in Int /\ VerifyDone = 3
    BY <1>3 DEF WorkRow, VerifyDone
  <2>3. Here.sub < VerifyDone \/ Here.sub >= VerifyDone
    BY <2>2
  <2> QED BY <2>1, <2>3
<1>5. Here.review = "block" /\ ~(RepairsUsed >= MaxRepairs)
  BY <1>3, <1>4 DEF WorkRow
<1>6. /\ F \in 1..N /\ works[F].plan = Here.plan
      /\ \A k \in 1..F - 1 : works[k].plan # Here.plan
  <2>1. \E f \in 1..N : /\ works[f].plan = works[N].plan
                        /\ \A k \in 1..f - 1 : works[k].plan # works[N].plan
    BY <1>1, <1>2 DEF PlansInv
  <2>2. \E f \in DOMAIN works : /\ works[f].plan = Here.plan
                                /\ \A k \in 1..f - 1 : works[k].plan # Here.plan
    BY <1>1, <2>1 DEF Here
  <2> QED BY <1>1, <2>2 DEF FirstWork
<1> HIDE DEF F
<1>7. WorksOf(Here.plan) \subseteq F..N
  <2> SUFFICES ASSUME NEW i \in WorksOf(Here.plan)
               PROVE  i \in F..N
    OBVIOUS
  <2>1. i \in 1..N /\ works[i].plan = Here.plan
    BY <1>1 DEF WorksOf
  <2>2. i \notin 1..F - 1
    BY <1>6, <2>1
  <2> QED BY <1>1, <1>6, <2>1, <2>2
<1>8. IsFiniteSet(F..N) /\ Cardinality(F..N) = N - F + 1
  BY <1>1, <1>6, FS_Interval
<1>9. Cardinality(WorksOf(Here.plan)) <= N - F + 1
  BY <1>7, <1>8, FS_Subset
<1>10. N - F < MaxRepairs
  BY <1>1, <1>5, <1>6, AutomationAssumption DEF RepairsUsed, F
<1>11. /\ ApprovedWorks(Here.plan) = Cardinality(WorksOf(Here.plan))
       /\ ApprovedWorks(Here.plan) \in Nat
  BY <1>1, SetsOfWork
<1> QED BY <1>1, <1>2, <1>5, <1>6, <1>9, <1>10, <1>11, AutomationAssumption

LEMMA TickIsRead ==
    ASSUME AutoInv, ReadTick
    PROVE  AutoInv'
<1>1. /\ UNCHANGED <<works, log, late>> /\ LastEvent("started") > 0
      /\ tick'.do = Decision /\ tick'.work = CurrentWork
  BY DEF ReadTick
<1>2. AutoTables' /\ PlansInv' /\ RepairsAreEarned' /\ CurrentWork' = CurrentWork
  <2>1. CurrentWork' = CurrentWork /\ StartEvents' = StartEvents /\ PlansStarted' = PlansStarted
    BY <1>1 DEF CurrentWork, StartEvents, PlansStarted
  <2>2. AutoTables'
    BY <1>1, <2>1 DEF AutoInv, AutoTables
  <2>3. PlansInv'
    BY <1>1, <2>1 DEF AutoInv, PlansInv
  <2>4. RepairsAreEarned'
    BY <1>1 DEF AutoInv, RepairsAreEarned, ApprovedWorks
  <2> QED BY <2>1, <2>2, <2>3, <2>4
<1>3. RepairDue'
  <2> SUFFICES ASSUME tick'.do = "repair"
               PROVE  /\ CurrentWork' > 0 /\ Here'.review = "block"
                      /\ ApprovedWorks(Here.plan)' <= MaxRepairs
    BY DEF RepairDue
  <2>1. /\ CurrentWork > 0 /\ Here.review = "block"
        /\ ApprovedWorks(Here.plan) <= MaxRepairs
    BY <1>1, RepairIsDue
  <2>2. Here' = Here /\ ApprovedWorks(Here.plan)' = ApprovedWorks(Here.plan)
    BY <1>1, <1>2 DEF Here, ApprovedWorks
  <2> QED BY <1>2, <2>1, <2>2
<1>4. LateInv'
  <2>1. Stopped' = Stopped /\ late' = late
    BY <1>1 DEF Stopped, LastEvent
  <2>2. Stopped => Decision \in {"nothing", "replan"}
    BY DEF Decision
  <2> QED BY <1>1, <2>1, <2>2 DEF AutoInv, LateInv
<1> QED BY <1>2, <1>3, <1>4 DEF AutoInv

LEMMA BlockIsQuiet ==
    ASSUME BlockOnce
    PROVE  Quiet
BY DEF BlockOnce, Quiet

(* A step of the coordinator that adds no attempt.                         *)
LEMMA NoAttemptAdded ==
    ASSUME AutoInv, SamePlans, Quiet, tick' = NoTick,
           late' = (IF Stopped /\ works' # works THEN late + 1 ELSE late),
           works' = works \/ tick.do = "next"
    PROVE  AutoInv'
<1>1. AutoTables /\ late \in Nat /\ LateInv
  BY DEF AutoInv, AutoTables
<1>2. Stopped' = Stopped /\ SameStarts
  BY <1>1, QuietLog
<1>3. late' \in Nat /\ tick'.do = "nothing"
  BY <1>1 DEF NoTick
<1>4. AutoTables' /\ PlansInv' /\ RepairsAreEarned' /\ RepairDue'
  BY <1>2, <1>3, SamePlansStep
<1>5. LateInv'
  BY <1>1, <1>2, <1>3 DEF LateInv
<1> QED BY <1>4, <1>5 DEF AutoInv

(* The repair that was decided upon is started.                            *)
LEMMA RepairIsStarted ==
    ASSUME AutoInv, tick.do = "repair", tick.work = CurrentWork,
           works' = Append(works, NewWork(Here.plan)), UNCHANGED log, tick' = NoTick,
           late' = (IF Stopped /\ works' # works THEN late + 1 ELSE late)
    PROVE  AutoInv'
<1>n. PICK N : N = CurrentWork
  OBVIOUS
<1>p. PICK P : P = Here.plan
  OBVIOUS
<1>1. /\ AutoTables /\ PlansInv /\ RepairsAreEarned /\ RepairDue /\ LateInv
      /\ N \in Nat /\ DOMAIN works = 1..N /\ CurrentWork = N
  BY <1>n, TablesOfWork DEF AutoInv
<1>2. /\ N > 0 /\ N \in 1..N /\ works[N].review = "block" /\ works[N].plan = P
      /\ ApprovedWorks(P) <= MaxRepairs
  BY <1>1, <1>p DEF RepairDue, Here
<1>3. P \in Nat /\ P <= PlansStarted /\ PlansStarted \in Nat /\ ApprovedWorks(P) \in Nat
  BY <1>1, <1>2, SetsOfWork DEF AutoTables, WorkRow, PlansInv
<1>4. /\ \E S : works' \in Seq(S)
      /\ CurrentWork' = N + 1 /\ DOMAIN works' = 1..N + 1
      /\ works'[N + 1].plan = P /\ WorkRow(works'[N + 1])
      /\ \A i \in 1..N : works'[i] = works[i]
      /\ ApprovedWorks(P)' = ApprovedWorks(P) + 1
      /\ \A p : p # P => ApprovedWorks(p)' = ApprovedWorks(p)
  <2>1. works' = Append(works, NewWork(P))
    BY <1>p
  <2> QED BY <1>1, <1>3, <2>1, AttemptAdded
<1>5. StartEvents' = StartEvents /\ PlansStarted' = PlansStarted
  BY DEF StartEvents, PlansStarted
<1>6. \A i \in 1..N + 1 : i \in 1..N \/ i = N + 1
  BY <1>1
<1>7. late' \in Nat
  BY <1>1 DEF AutoTables
<1>8. AutoTables'
  <2>1. (\E S : log' \in Seq(S)) /\ (\A i \in 1..N : WorkRow(works[i]))
    BY <1>1 DEF AutoTables
  <2>2. \A i \in 1..N + 1 : WorkRow(works'[i])
    BY <1>4, <1>6, <2>1
  <2>3. CurrentWork' > 0
    BY <1>1, <1>4
  <2> QED BY <1>4, <1>7, <2>1, <2>2, <2>3 DEF AutoTables
<1>9. PlansInv'
  <2>1. ASSUME NEW i \in 1..N
        PROVE  /\ works'[i].plan <= PlansStarted
               /\ \E f \in 1..i : /\ works'[f].plan = works'[i].plan
                                  /\ \A k \in 1..f - 1 : works'[k].plan # works'[i].plan
    <3>1. PICK f \in 1..i : /\ works[f].plan = works[i].plan
                            /\ \A k \in 1..f - 1 : works[k].plan # works[i].plan
      BY <1>1 DEF PlansInv
    <3>2. f \in 1..N /\ \A k \in 1..f - 1 : k \in 1..N
      BY <1>1
    <3>3. works'[i].plan <= PlansStarted /\ works'[f].plan = works'[i].plan
      BY <1>1, <1>4, <3>1, <3>2 DEF PlansInv
    <3>4. \A k \in 1..f - 1 : works'[k].plan # works'[i].plan
      BY <1>4, <3>1, <3>2
    <3> QED BY <3>1, <3>3, <3>4
  <2>2. works'[N].plan = works'[N + 1].plan
    BY <1>2, <1>4
  <2>3. \E f \in 1..N + 1 : /\ works'[f].plan = works'[N + 1].plan
                            /\ \A k \in 1..f - 1 : works'[k].plan # works'[N + 1].plan
    <3>1. PICK f \in 1..N : /\ works'[f].plan = works'[N].plan
                            /\ \A k \in 1..f - 1 : works'[k].plan # works'[N].plan
      BY <1>2, <2>1
    <3>2. f \in 1..N + 1
      BY <1>1
    <3> QED BY <2>2, <3>1, <3>2
  <2>4. ASSUME NEW i \in 1..CurrentWork'
        PROVE  /\ works'[i].plan <= PlansStarted'
               /\ \E f \in 1..i : /\ works'[f].plan = works'[i].plan
                                  /\ \A k \in 1..f - 1 : works'[k].plan # works'[i].plan
    <3>1. CASE i \in 1..N
      BY <1>5, <2>1, <3>1
    <3>2. CASE i = N + 1
      BY <1>3, <1>4, <1>5, <2>3, <3>2
    <3> QED BY <1>4, <1>6, <3>1, <3>2
  <2> QED BY <2>4 DEF PlansInv
<1>10. RepairsAreEarned'
  <2>1. \A p : ApprovedWorks(p)' <= MaxRepairs + 1 \/ ApprovedWorks(p)' = ApprovedWorks(p)
    BY <1>2, <1>3, <1>4, AutomationAssumption
  <2>2. ASSUME NEW i \in 1..N
        PROVE  /\ i > 1 /\ works'[i].plan = works'[i - 1].plan => works'[i - 1].review = "block"
               /\ ApprovedWorks(works[i].plan)' <= MaxRepairs + 1
    <3>1. i > 1 => i - 1 \in 1..N
      BY <1>1
    <3>2. /\ i > 1 /\ works[i].plan = works[i - 1].plan => works[i - 1].review = "block"
          /\ ApprovedWorks(works[i].plan) <= MaxRepairs + 1
      BY <1>1 DEF RepairsAreEarned
    <3>3. PICK p : p = works[i].plan
      OBVIOUS
    <3>4. ApprovedWorks(p)' <= MaxRepairs + 1
      BY <2>1, <3>2, <3>3
    <3>5. ApprovedWorks(works[i].plan)' <= MaxRepairs + 1
      BY <1>4, <3>3, <3>4 DEF ApprovedWorks
    <3> QED BY <1>4, <3>1, <3>2, <3>5
  <2>3. works'[N].review = "block"
    BY <1>1, <1>2, <1>4
  <2>4. ApprovedWorks(works[N + 1].plan)' <= MaxRepairs + 1
    <3>1. ApprovedWorks(P)' <= MaxRepairs + 1
      BY <1>2, <1>3, <1>4, AutomationAssumption
    <3> QED BY <1>4, <3>1 DEF ApprovedWorks
  <2>5. ASSUME NEW i \in DOMAIN works'
        PROVE  /\ i > 1 /\ works'[i].plan = works'[i - 1].plan => works'[i - 1].review = "block"
               /\ ApprovedWorks(works[i].plan)' <= MaxRepairs + 1
    <3>1. CASE i \in 1..N
      BY <2>2, <3>1
    <3>2. CASE i = N + 1
      <4>1. ApprovedWorks(works[i].plan)' <= MaxRepairs + 1
        BY <2>4, <3>2
      <4>2. works'[i - 1].review = "block"
        <5>1. i - 1 = N
          BY <1>1, <3>2
        <5> QED BY <2>3, <5>1
      <4> QED BY <4>1, <4>2
    <3> QED BY <1>4, <1>6, <3>1, <3>2
  <2> QED BY <2>5 DEF RepairsAreEarned
<1>11. RepairDue'
  BY DEF RepairDue, NoTick
<1>12. LateInv'
  <2>1. Stopped' = Stopped
    BY DEF Stopped, LastEvent
  <2>2. Stopped => late = 0
    BY <1>1 DEF LateInv
  <2> QED BY <2>1, <2>2 DEF LateInv, NoTick
<1> QED BY <1>8, <1>9, <1>10, <1>11, <1>12 DEF AutoInv

LEMMA TickIsCommitted ==
    ASSUME AutoInv, CommitTick
    PROVE  AutoInv'
<1>1. AutoTables
  BY DEF AutoInv
<1>2. tick' = NoTick /\ late' = (IF Stopped /\ works' # works THEN late + 1 ELSE late)
  BY DEF CommitTick
<1>3. ASSUME UNCHANGED works, Quiet
      PROVE  AutoInv'
  <2>1. SamePlans
    BY <1>1, <1>3, TablesOfWork DEF SamePlans, AutoTables
  <2> QED BY <1>2, <1>3, <2>1, NoAttemptAdded
<1>4. CASE tick.do = "next" /\ NextSubtask
  <2> DEFINE w == works[tick.work]
             k == IF w.sub >= VerifyDone THEN Len(Subtasks) ELSE w.sub + 1
  <2>1. CASE BlockOnce /\ UNCHANGED works
    BY <1>3, <2>1, BlockIsQuiet
  <2>2. CASE UNCHANGED <<works, log>>
    BY <1>3, <2>2 DEF Quiet
  <2>3. CASE /\ w.sub # k /\ UNCHANGED log
             /\ works' = [works EXCEPT ![tick.work].sub = k, ![tick.work].job = NewJob]
    <3>1. works' = [i \in 1..CurrentWork |-> works'[i]]
      BY <1>1, <2>3, TablesOfWork
    <3>2. \A i \in 1..CurrentWork : i # tick.work => works'[i] = works[i]
      BY <1>1, <2>3, TablesOfWork
    <3>3. ASSUME tick.work \in 1..CurrentWork
          PROVE  /\ WorkRow(works'[tick.work]) /\ works'[tick.work].plan = w.plan
                 /\ works'[tick.work].review = w.review
      <4>1. WorkRow(w) /\ tick.work \in DOMAIN works
        BY <1>1, <3>3, TablesOfWork DEF AutoTables
      <4>2. k \in 1..4
        BY <4>1 DEF WorkRow, VerifyDone, Subtasks
      <4> HIDE DEF k
      <4>3. works'[tick.work] = [w EXCEPT !.sub = k, !.job = NewJob]
        BY <2>3, <4>1
      <4> QED BY <4>1, <4>2, <4>3 DEF WorkRow
    <3>4. SamePlans
      BY <1>1, <3>1, <3>2, <3>3 DEF AutoTables, SamePlans
    <3>5. Quiet
      BY <2>3 DEF Quiet
    <3> QED BY <1>2, <1>4, <3>4, <3>5, NoAttemptAdded
  <2> QED BY <1>4, <2>1, <2>2, <2>3 DEF NextSubtask
<1>5. CASE tick.do = "block" /\ BlockOnce /\ UNCHANGED <<phase, works>>
  BY <1>3, <1>5, BlockIsQuiet
<1>6. CASE tick.do = "await" /\ RecordEvent("awaiting", {}) /\ UNCHANGED <<phase, works>>
  <2>1. Quiet
    BY <1>6 DEF Quiet
  <2> QED BY <1>3, <1>6, <2>1
<1>7. CASE tick.do = "repair" /\ StartRepair
  <2>1. CASE /\ tick.work = CurrentWork /\ works' = Append(works, NewWork(Here.plan))
             /\ UNCHANGED log
    BY <1>2, <1>7, <2>1, RepairIsStarted
  <2>2. CASE BlockOnce /\ UNCHANGED works
    BY <1>3, <2>2, BlockIsQuiet
  <2> QED BY <1>7, <2>1, <2>2 DEF StartRepair
<1>8. CASE tick.do = "replan" /\ ReturnToPlanning /\ UNCHANGED works
  <2>1. Quiet
    BY <1>8, BlockIsQuiet DEF ReturnToPlanning, Quiet
  <2> QED BY <1>3, <1>8, <2>1
<1> QED BY <1>4, <1>5, <1>6, <1>7, <1>8 DEF CommitTick

LEMMA AutoStep == AutoInv /\ [AutoNext]_autoVars => AutoInv'
<1> SUFFICES ASSUME AutoInv, [AutoNext]_autoVars
             PROVE  AutoInv'
  OBVIOUS
<1>1. CASE UNCHANGED autoVars
  <2>1. UNCHANGED <<tick, late>> /\ Quiet /\ UNCHANGED works
    BY <1>1 DEF autoVars, Quiet
  <2>2. SamePlans
    BY <2>1, TablesOfWork DEF SamePlans, AutoTables, AutoInv
  <2> QED BY <2>1, <2>2, WorkStep
<1>2. CASE AutoNext
  BY <1>2, PlanIsStarted, TickIsRead, TickIsCommitted, UserSteps, JobsOfWork DEF AutoNext
<1> QED BY <1>1, <1>2

LEMMA AutomationIsSound == AutoSpec => []AutoInv
<1>1. AutoInit => AutoInv
  BY AutoInitial
<1>2. AutoInv /\ [AutoNext]_autoVars => AutoInv'
  BY AutoStep
<1> QED BY <1>1, <1>2, PTL DEF AutoSpec

(* A repair follows a blocking review of the attempt it repairs, and one   *)
(* approval pays for at most its repairs (contribution_workflow.py,        *)
(* start_repair of execution_attempts.py), in every order of ticks,        *)
(* reviews, stops and resumptions.                                         *)
THEOREM RepairsStayEarned == AutoSpec => []RepairsAreEarned
<1>1. AutoInv => RepairsAreEarned
  BY DEF AutoInv
<1> QED BY <1>1, AutomationIsSound, PTL

(* After a stop at most one subtask or repair is still asked for, the one  *)
(* that had been decided upon (stop_workflow, advance_workflows).          *)
THEOREM LateWorkStaysBounded == AutoSpec => []LateWorkIsBounded
<1>1. AutoInv => LateWorkIsBounded
  BY DEF AutoInv, LateInv, LateWorkIsBounded
<1> QED BY <1>1, AutomationIsSound, PTL

(* Both, for every value of the constants: everything the automation asks  *)
(* for was earned by a review and not stopped.                             *)
THEOREM WorkStaysEarned == AutoSpec => []WorkIsEarned
<1>1. RepairsAreEarned /\ LateWorkIsBounded => WorkIsEarned
  BY DEF WorkIsEarned
<1> QED BY <1>1, RepairsStayEarned, LateWorkStaysBounded, PTL
=============================================================================

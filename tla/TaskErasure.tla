---------------------------- MODULE TaskErasure ----------------------------
(***************************************************************************)
(* Archiving, restoring and permanently erasing contribution tasks         *)
(* (app/task_visibility.py, app/task_erasure.py), together with the store  *)
(* of content-addressed files that tasks share (app/artifacts.py).         *)
(*                                                                         *)
(* Visibility changes and erasure run under BEGIN IMMEDIATE; triggers of   *)
(* migration v0031 keep jobs and events of an inactive task from being     *)
(* written.  Files are outside the database: a worker writes a file before *)
(* the transaction that names it, and the eraser unlinks files one by one  *)
(* before the commit that removes the rows naming them.                    *)
(***************************************************************************)
EXTENDS Naturals, FiniteSets

CONSTANTS
    Tasks,
    Contents,      \* what artifact files hold, named by their hash
    Stores,        \* Stores[t]: the contents work on t may store
    NoContent,
    NoTask,
    MaxErasures,   \* attempts of a clean-up job (enqueue_erasure)
    MaxVisibilityChanges,    \* bound: visibility versions of a task
    MaxKills       \* bound: how many times the eraser is killed

ASSUME ErasureAssumption ==
    /\ Stores \in [Tasks -> SUBSET Contents]
    /\ NoContent \notin Contents
    /\ NoTask \notin Tasks
    /\ MaxErasures \in Nat \ {0}
    /\ MaxVisibilityChanges \in Nat
    /\ MaxKills \in Nat

VARIABLES
    rows,       \* contribution_tasks: the tasks that exist
    visible,    \* the current version of each task's visibility chain
    taskWork,   \* the jobs of each task and the process that runs them
    owed,       \* tasks with a message or a remote write not settled
    storing,    \* the content the worker of a task is about to commit
    named,      \* the contents each task's rows name
    artifacts,  \* rows of the artifacts table
    files,      \* artifact files on disk
    cleanup,    \* the task_erasure job of each task
    eraser,     \* the erasure under way, and the files still to unlink
    kills

erasureVars == <<rows, visible, taskWork, owed, storing, named, artifacts, files,
                 cleanup, eraser, kills>>
taskVars == <<rows, visible, taskWork, owed, storing, named, artifacts>>
diskVars == <<storing, named, artifacts, files>>
cleanupVars == <<cleanup, eraser, kills>>

Resting == [task |-> NoTask, doomed |-> {}, locked |-> FALSE]

ErasureInit ==
    /\ rows = Tasks
    /\ visible = [t \in Tasks |-> [state |-> "active", sequence |-> 0]]
    /\ taskWork = [t \in Tasks |-> "idle"]
    /\ owed = {}
    /\ storing = [t \in Tasks |-> NoContent]
    /\ named = [t \in Tasks |-> {}]
    /\ artifacts = {}
    /\ files = {}
    /\ cleanup = [t \in Tasks |-> [state |-> "none", attempts |-> 0]]
    /\ eraser = Resting
    /\ kills = 0

(* While the eraser is in its exclusive transaction nobody else writes.    *)
Unlocked == ~eraser.locked
ActiveTask(t) == t \in rows /\ visible[t].state = "active"

-----------------------------------------------------------------------------
(* Work on a task.  "active" is a job queued or under lease; "lost" is a   *)
(* job recovered as failed whose process is still running.                 *)

(* Mutant of EnqueueWork: the task's visibility is not looked at.          *)
EnqueueAnyway(t) ==
    /\ Unlocked /\ t \in rows
    /\ taskWork[t] = "idle"
    /\ taskWork' = [taskWork EXCEPT ![t] = "active"]
    /\ UNCHANGED <<rows, visible, owed, cleanupVars, diskVars>>

(* The task must be active when the job row is inserted or put back in the *)
(* queue: require_active_payload_task, then trigger jobs_inactive_task.    *)
EnqueueWork(t) ==
    /\ Unlocked /\ ActiveTask(t)
    /\ taskWork[t] = "idle"
    /\ taskWork' = [taskWork EXCEPT ![t] = "active"]
    /\ UNCHANGED <<rows, visible, owed, cleanupVars, diskVars>>

(* A message arrives or a remote write begins, and is settled later.  Both *)
(* are events, which trigger workbench_events_task_active refuses once the *)
(* task is archived.                                                       *)
Owe(t) ==
    /\ Unlocked /\ ActiveTask(t) /\ t \notin owed
    /\ owed' = owed \cup {t}
    /\ UNCHANGED <<rows, visible, taskWork, cleanupVars, diskVars>>

SettleDebt(t) ==
    /\ Unlocked /\ ActiveTask(t) /\ t \in owed
    /\ owed' = owed \ {t}
    /\ UNCHANGED <<rows, visible, taskWork, cleanupVars, diskVars>>

(* store_bytes up to the file: an existing one is verified, a missing one  *)
(* is written to a temporary file and renamed.  No lock is needed.         *)
StoreFile(t, c) ==
    /\ taskWork[t] \in {"active", "lost"}
    /\ storing[t] = NoContent
    /\ c \in Stores[t]
    /\ storing' = [storing EXCEPT ![t] = c]
    /\ files' = files \cup {c}
    /\ UNCHANGED <<rows, visible, taskWork, owed, named, artifacts, cleanupVars>>

(* The rows that name the file are committed with the end of the job,      *)
(* which a job that was recovered meanwhile refuses: its rows roll back.   *)
CommitWork(t) ==
    /\ Unlocked
    /\ taskWork[t] \in {"active", "lost"}
    /\ LET c == storing[t] IN
       IF taskWork[t] = "active" /\ c # NoContent
         THEN /\ artifacts' = artifacts \cup {c}
              /\ named' = [named EXCEPT ![t] = @ \cup {c}]
         ELSE UNCHANGED <<artifacts, named>>
    /\ taskWork' = [taskWork EXCEPT ![t] = "idle"]
    /\ storing' = [storing EXCEPT ![t] = NoContent]
    /\ UNCHANGED <<rows, visible, owed, files, cleanupVars>>

(* The lease of the job expires for good while its process still runs.     *)
LoseWork(t) ==
    /\ Unlocked
    /\ taskWork[t] = "active"
    /\ taskWork' = [taskWork EXCEPT ![t] = "lost"]
    /\ UNCHANGED <<rows, visible, owed, cleanupVars, diskVars>>

-----------------------------------------------------------------------------
(* TaskVisibilityService.change, one transaction.  A request names the     *)
(* sequence its page showed: the current one, or the change is refused.    *)
Change(t, from, to) ==
    /\ Unlocked /\ t \in rows
    /\ visible[t].state = from
    /\ visible[t].sequence < MaxVisibilityChanges
    /\ visible' = [visible EXCEPT ![t] = [state |-> to, sequence |-> @.sequence + 1]]

(* Mutant of Archive: jobs are looked for, unsettled results are not.      *)
ArchiveUnsettled(t) ==
    /\ Change(t, "active", "archived")
    /\ taskWork[t] # "active"
    /\ UNCHANGED <<rows, taskWork, owed, cleanupVars, diskVars>>

Archive(t) ==
    /\ Change(t, "active", "archived")
    /\ taskWork[t] # "active" /\ t \notin owed
    /\ UNCHANGED <<rows, taskWork, owed, cleanupVars, diskVars>>

RestoreTask(t) ==
    /\ Change(t, "archived", "active")
    /\ UNCHANGED <<rows, taskWork, owed, cleanupVars, diskVars>>

(* DELETE /tasks/{id}: enqueue_erasure deletes and queues in one commit.   *)
Delete(t) ==
    /\ Change(t, "archived", "deleted")
    /\ taskWork[t] # "active" /\ t \notin owed
    /\ cleanup' = [cleanup EXCEPT ![t].state = "queued"]
    /\ UNCHANGED <<rows, taskWork, owed, eraser, kills, diskVars>>

(* The same request again retries a clean-up that ended without success.   *)
DeleteAgain(t) ==
    /\ Unlocked /\ t \in rows
    /\ visible[t].state = "deleted"
    /\ cleanup[t].state = "ended"
    /\ cleanup[t].attempts < MaxErasures
    /\ cleanup' = [cleanup EXCEPT ![t].state = "queued"]
    /\ UNCHANGED <<taskVars, files, eraser, kills>>

-----------------------------------------------------------------------------
(* TaskErasureWorker.                                                      *)

LeaseCleanup(t) ==
    /\ Unlocked /\ eraser = Resting
    /\ cleanup[t].state = "queued"
    /\ cleanup' = [cleanup EXCEPT ![t] = [state |-> "running", attempts |-> @.attempts + 1]]
    /\ eraser' = [eraser EXCEPT !.task = t]
    /\ UNCHANGED <<taskVars, files, kills>>

FailCleanup(t) ==
    /\ cleanup' = [cleanup EXCEPT ![t].state = "ended"]
    /\ eraser' = Resting
    /\ UNCHANGED <<taskVars, files, kills>>

JobsActive == \E u \in rows : taskWork[u] = "active"

(* Mutant of Doomed: whether another task names a content is not asked.    *)
DoomedUnshared(t) == named[t]

(* The contents no surviving row names.                                    *)
Doomed(t) == named[t] \ UNION {named[u] : u \in rows \ {t}}

(* erase_task, from BEGIN IMMEDIATE to the first unlink: any active job of *)
(* another kind, of whatever task, makes this attempt fail.                *)
BeginErasure(t) ==
    /\ Unlocked /\ eraser.task = t
    /\ IF JobsActive
         THEN FailCleanup(t)
         ELSE /\ eraser' = [eraser EXCEPT !.locked = TRUE, !.doomed = Doomed(t)]
              /\ UNCHANGED <<taskVars, files, cleanup, kills>>

(* path.unlink(missing_ok=True).                                           *)
Unlink(c) ==
    /\ eraser.locked /\ c \in eraser.doomed
    /\ files' = files \ {c}
    /\ eraser' = [eraser EXCEPT !.doomed = @ \ {c}]
    /\ UNCHANGED <<taskVars, cleanup, kills>>

(* A file, a backup or the time budget stops it: rollback, then fail.      *)
AbortErasure(t) ==
    /\ eraser.locked /\ eraser.task = t
    /\ FailCleanup(t)

(* The commit removes the task, what descends from it and its own job.     *)
CommitErasure(t) ==
    /\ eraser.locked /\ eraser.task = t /\ eraser.doomed = {}
    /\ rows' = rows \ {t}
    /\ artifacts' = artifacts \ Doomed(t)
    /\ named' = [named EXCEPT ![t] = {}]
    /\ owed' = owed \ {t}
    /\ cleanup' = [cleanup EXCEPT ![t].state = "none"]
    /\ eraser' = Resting
    /\ UNCHANGED <<visible, taskWork, storing, files, kills>>

(* The process dies: SQLite rolls its transaction back, unlinked files     *)
(* stay unlinked, and the job waits under its lease for recover_expired.   *)
KillEraser ==
    /\ eraser # Resting /\ kills < MaxKills
    /\ eraser' = Resting
    /\ kills' = kills + 1
    /\ UNCHANGED <<taskVars, files, cleanup>>

(* Mutant of RecoverCleanup: a lost clean-up is never queued again.        *)
RecoverNever(t) ==
    /\ Unlocked
    /\ cleanup[t].state = "running" /\ eraser.task # t
    /\ cleanup[t].attempts > MaxErasures
    /\ cleanup' = [cleanup EXCEPT ![t].state = "ended"]
    /\ UNCHANGED <<taskVars, files, eraser, kills>>

RecoverCleanup(t) ==
    /\ Unlocked
    /\ cleanup[t].state = "running" /\ eraser.task # t
    /\ cleanup' = [cleanup EXCEPT ![t].state =
                      IF cleanup[t].attempts < MaxErasures THEN "queued" ELSE "ended"]
    /\ UNCHANGED <<taskVars, files, eraser, kills>>

EraserStep(t) ==
    \/ LeaseCleanup(t) \/ BeginErasure(t) \/ CommitErasure(t)
    \/ RecoverCleanup(t)
    \/ eraser.task = t /\ \E c \in Contents : Unlink(c)

ErasureNext ==
    \/ \E t \in Tasks :
          \/ EnqueueWork(t) \/ Owe(t) \/ SettleDebt(t) \/ CommitWork(t) \/ LoseWork(t)
          \/ \E c \in Contents : StoreFile(t, c)
          \/ Archive(t) \/ RestoreTask(t) \/ Delete(t) \/ DeleteAgain(t)
          \/ EraserStep(t) \/ AbortErasure(t)
    \/ KillEraser

ErasureFairness == \A t \in Tasks : WF_erasureVars(EraserStep(t))
ErasureSpec == ErasureInit /\ [][ErasureNext]_erasureVars
ErasureFairSpec == ErasureSpec /\ ErasureFairness

-----------------------------------------------------------------------------
(* An archived or deleted task has no job waiting or under lease and owes  *)
(* no remote result or answer, however the requests, the job that was      *)
(* being created and the expiry of leases interleave                       *)
(* (TaskVisibilityService.change and the triggers of v0031).               *)
InactiveIsSettled ==
    \A t \in rows : visible[t].state # "active" => taskWork[t] # "active" /\ t \notin owed

(* Whatever a task that is not deleted names has its row and its file: an  *)
(* erasure, finished, failed half-way or killed, never takes a file that a *)
(* surviving task shares (erase_task).                                     *)
SurvivorsKeepFiles ==
    \A t \in rows : visible[t].state # "deleted" => named[t] \subseteq artifacts \cap files

(* Hiding a task leaves no work behind and takes nothing from those that   *)
(* stay.                                                                   *)
HidingIsSafe == InactiveIsSettled /\ SurvivorsKeepFiles

(* A deletion does not hang: time and again every clean-up has erased its  *)
(* task or ended, and can then be asked for again, however often the       *)
(* process dies meanwhile (enqueue_erasure, recover_expired).              *)
DeletionSettles ==
    []<>(\A t \in rows : visible[t].state = "deleted" => cleanup[t].state = "ended")
=============================================================================

------------------------- MODULE WorkspaceDisposal -------------------------
(***************************************************************************)
(* The disposal of an execution's workspace (app/workspace_disposals.py):  *)
(* an append-only chain of versions, one chain per execution attempt, and  *)
(* the calls of ExecutionWorkspaceDisposalService.destroy that extend it.  *)
(*                                                                         *)
(* Every write appends version current + 1 under a unique (disposal,       *)
(* sequence) and commits alone, so an append is a compare-and-set on the   *)
(* version it read: the loser of a race gets an IntegrityError, which is a *)
(* step that changes nothing but the caller.  Between its appends destroy  *)
(* awaits the sandbox worker, and a process may die anywhere.              *)
(***************************************************************************)
EXTENDS Naturals, Sequences, FiniteSets

CONSTANTS
    Calls,                \* calls of destroy in progress
    CleanupWorkers,       \* cleanup worker IDs
    WorkerOf,             \* the ID each call passes; two calls may share one
    NoCleaner,
    MaxDisposalAttempts,  \* MAX_WORKSPACE_DISPOSAL_ATTEMPTS
    MaxLosses             \* bound: calls killed or declared lost

ASSUME DisposalAssumption ==
    /\ WorkerOf \in [Calls -> CleanupWorkers]
    /\ NoCleaner \notin CleanupWorkers
    /\ MaxDisposalAttempts \in Nat \ {0}
    /\ MaxLosses \in Nat

VARIABLES
    disposals,  \* the chain of versions; <<>> before prepare
    volume,     \* the workspace volume on the sandbox host
    call,       \* where each call of destroy is
    losses      \* how many calls were killed or declared lost

disposalVars == <<disposals, volume, call, losses>>

DisposalVersion == [status : {"pending", "running", "succeeded", "failed"},
                    cleaner : CleanupWorkers \cup {NoCleaner}]
CallPC == {"idle", "retry", "claim", "destroy", "succeed", "fail"}

Prepared == disposals # <<>>
CurrentDisposal == disposals[Len(disposals)]
RunningVersions == {i \in DOMAIN disposals : disposals[i].status = "running"}
Exhausted == Cardinality(RunningVersions) >= MaxDisposalAttempts
OwnedBy(w) == CurrentDisposal.status = "running" /\ CurrentDisposal.cleaner = w

DisposalInit ==
    /\ disposals = <<>>
    /\ volume = "present"
    /\ call = [c \in Calls |-> "idle"]
    /\ losses = 0

AppendDisposal(status, w) ==
    disposals' = Append(disposals, [status |-> status, cleaner |-> w])
CallTo(c, pc) == call' = [call EXCEPT ![c] = pc]

-----------------------------------------------------------------------------
(* The disposal is recorded by the transaction that lets Verify succeed.   *)
Prepare ==
    /\ ~Prepared
    /\ AppendDisposal("pending", NoCleaner)
    /\ UNCHANGED <<volume, call, losses>>

(* destroy: a disposal that succeeded is returned as it is.                *)
CallDestroy(c) ==
    /\ call[c] = "idle"
    /\ Prepared
    /\ CurrentDisposal.status # "succeeded"
    /\ CallTo(c, IF CurrentDisposal.status = "failed" THEN "retry" ELSE "claim")
    /\ UNCHANGED <<disposals, volume, losses>>

RetryDisposal(c) ==
    /\ call[c] = "retry"
    /\ IF CurrentDisposal.status = "failed" /\ ~Exhausted
         THEN AppendDisposal("pending", NoCleaner) /\ CallTo(c, "claim")
         ELSE CallTo(c, "idle") /\ UNCHANGED disposals
    /\ UNCHANGED <<volume, losses>>

(* A running version of the same worker ID is taken over as it stands.     *)
Claim(c) ==
    /\ call[c] = "claim"
    /\ \/ /\ OwnedBy(WorkerOf[c])
          /\ CallTo(c, "destroy")
          /\ UNCHANGED disposals
       \/ /\ CurrentDisposal.status = "pending" /\ ~Exhausted
          /\ AppendDisposal("running", WorkerOf[c])
          /\ CallTo(c, "destroy")
       \/ /\ ~OwnedBy(WorkerOf[c])
          /\ CurrentDisposal.status # "pending" \/ Exhausted
          /\ CallTo(c, "idle")
          /\ UNCHANGED disposals
    /\ UNCHANGED <<volume, losses>>

(* Mutant of RemoveVolume: the removal is confirmed before it is done.     *)
RemoveLater(c) ==
    /\ call[c] = "destroy"
    /\ volume' \in {volume, "removed"}
    /\ CallTo(c, "succeed") \/ CallTo(c, "fail")
    /\ UNCHANGED <<disposals, losses>>

(* The sandbox worker removes the volume; one already missing is removed.  *)
(* The answer may be lost after the removal, or the removal may fail.      *)
RemoveVolume(c) ==
    /\ call[c] = "destroy"
    /\ \/ volume' = "removed" /\ CallTo(c, "succeed")
       \/ volume' \in {volume, "removed"} /\ CallTo(c, "fail")
    /\ UNCHANGED <<disposals, losses>>

(* _finish: only the owner of the running version ends it; a repetition of *)
(* what the same worker recorded is accepted, anything else is refused.    *)
FinishDisposal(c, pc, status) ==
    /\ call[c] = pc
    /\ IF OwnedBy(WorkerOf[c])
         THEN AppendDisposal(status, WorkerOf[c])
         ELSE UNCHANGED disposals
    /\ CallTo(c, "idle")
    /\ UNCHANGED <<volume, losses>>

SucceedDisposal(c) == FinishDisposal(c, "succeed", "succeeded")
FailDisposal(c) == FinishDisposal(c, "fail", "failed")

(* Evidence that the owner of the running version is gone; it may be wrong *)
(* about a call that is still waiting for the sandbox worker.              *)
MarkWorkerLost(w) ==
    /\ losses < MaxLosses
    /\ Prepared
    /\ OwnedBy(w)
    /\ AppendDisposal("failed", w)
    /\ losses' = losses + 1
    /\ UNCHANGED <<volume, call>>

(* The process dies; what it asked of the sandbox worker stays done.       *)
KillCall(c) ==
    /\ losses < MaxLosses
    /\ call[c] # "idle"
    /\ CallTo(c, "idle")
    /\ losses' = losses + 1
    /\ UNCHANGED <<disposals, volume>>

DisposalNext ==
    \/ Prepare
    \/ \E c \in Calls :
          \/ CallDestroy(c) \/ RetryDisposal(c) \/ Claim(c) \/ RemoveVolume(c)
          \/ SucceedDisposal(c) \/ FailDisposal(c) \/ KillCall(c)
    \/ \E w \in CleanupWorkers : MarkWorkerLost(w)

DisposalSpec == DisposalInit /\ [][DisposalNext]_disposalVars

-----------------------------------------------------------------------------

(* A disposal recorded as succeeded is one whose volume is really gone,    *)
(* whoever was declared lost, killed or late on the way                    *)
(* (destroy, _finish).                                                     *)
SuccessIsReal ==
    Prepared /\ CurrentDisposal.status = "succeeded" => volume = "removed"

=============================================================================

------------------------------ MODULE JobRows ------------------------------
(***************************************************************************)
(* The rows of the durable job table and the writes JobService makes to    *)
(* them: constant operators only, shared by every module whose component   *)
(* keeps its work in this table.                                           *)
(*                                                                         *)
(* Times are relative to the present: lease_expires_at is the number of    *)
(* ticks a lease still has (negative once it is over), run_after the       *)
(* number of ticks a queued job still waits.  A caller compares them with  *)
(* a clock reading taken `age' ticks ago, as the code does when it reads   *)
(* the clock, waits for the database and only then executes.               *)
(***************************************************************************)
EXTENDS Integers

CONSTANTS
    Workers,      \* the processes that lease jobs
    NoWorker,     \* the NULL of lease_owner
    MaxAttempts,  \* max_attempts of every job
    LeaseTicks,   \* lease_seconds of lease_next
    WorkTicks,    \* timeout_seconds + 30, the lease a running job is given
    RetryDelay,   \* the largest run_after a retry asks for
    MaxAge        \* bound: how far back an expired lease is told apart

ASSUME JobRowsAssumption ==
    /\ NoWorker \notin Workers
    /\ MaxAttempts \in Nat \ {0}
    /\ LeaseTicks \in Nat \ {0}
    /\ WorkTicks \in Nat
    /\ LeaseTicks =< WorkTicks
    /\ RetryDelay \in Nat
    /\ MaxAge \in Nat

Active   == {"leased", "running"}
Terminal == {"succeeded", "failed", "cancelled", "timed_out"}
Retriable == {"failed", "cancelled", "timed_out"}
States   == {"absent", "queued"} \cup Active \cup Terminal

NoLease == 0          \* the NULL of lease_expires_at
Now == 0              \* the present, as a relative time

Ages == 0 .. (MaxAge + 1)

JobRow == [ state            : States,
            lease_owner      : Workers \cup {NoWorker},
            lease_expires_at : Int,
            attempt_count    : 0 .. MaxAttempts,
            cancel_requested : BOOLEAN,
            completed        : BOOLEAN,
            run_after        : 0 .. RetryDelay ]

NoRow == [ state |-> "absent", lease_owner |-> NoWorker,
           lease_expires_at |-> NoLease, attempt_count |-> 0,
           cancel_requested |-> FALSE, completed |-> FALSE, run_after |-> Now ]

NewRow == [NoRow EXCEPT !.state = "queued"]

(***************************************************************************)
(* ck_job_state_fields and ck_job_attempts: a statement that would leave a *)
(* row outside them raises IntegrityError and its transaction is rolled    *)
(* back.  A row that does not exist has nothing to update.                 *)
(***************************************************************************)
Consistent(row) ==
    /\ row.attempt_count =< MaxAttempts
    /\ \/ /\ row.state = "absent" /\ row.lease_owner = NoWorker /\ ~row.completed
          /\ row.attempt_count = 0 /\ ~row.cancel_requested
       \/ row.state = "queued" /\ row.lease_owner = NoWorker /\ ~row.completed
       \/ row.state \in Active /\ row.lease_owner # NoWorker /\ ~row.completed
       \/ row.state \in Terminal /\ row.lease_owner = NoWorker /\ row.completed

Eligible(row) ==
    row.state = "queued" /\ row.run_after = Now /\ ~row.cancel_requested

(* Mutant of Expired: only running jobs are recovered.                     *)
ExpiredRunning(row, age) == row.state = "running" /\ row.lease_expires_at =< -age

Live(row, age)    == row.lease_expires_at > -age
Expired(row, age) == row.state \in Active /\ row.lease_expires_at =< -age

-----------------------------------------------------------------------------
(* Compare-and-set writes: the new values are written by the UPDATE that   *)
(* tests the row, so they apply to the row as it is.                       *)

(* Mutant of Leased: the attempt is not counted.                           *)
LeasedUncounted(row, w, age) ==
    [row EXCEPT !.state = "leased", !.lease_owner = w,
                !.lease_expires_at = LeaseTicks - age]

Leased(row, w, age) ==
    [row EXCEPT !.state = "leased", !.lease_owner = w,
                !.lease_expires_at = LeaseTicks - age,
                !.attempt_count = @ + 1]

Started(row) == [row EXCEPT !.state = "running"]

Extended(row, age) == [row EXCEPT !.lease_expires_at = WorkTicks - age]

Closed(row, outcome) ==
    [row EXCEPT !.state = outcome, !.lease_owner = NoWorker,
                !.lease_expires_at = NoLease, !.completed = TRUE,
                !.cancel_requested = IF outcome = "cancelled" THEN TRUE ELSE @]

-----------------------------------------------------------------------------
(* Read-modify-write: the session read the row earlier, decided, and the   *)
(* UPDATE ... WHERE id = ? carries only the attributes it changed.         *)

(* Mutant of RecoveryOf: the final attempt is requeued as well.            *)
RecoveryOffByOne(row) ==
    IF row.cancel_requested THEN "cancelled"
    ELSE IF row.attempt_count =< MaxAttempts THEN "queued" ELSE "timed_out"

RecoveryOf(row) ==
    IF row.cancel_requested THEN "cancelled"
    ELSE IF row.attempt_count < MaxAttempts THEN "queued" ELSE "timed_out"

Recovered(row, decision) ==
    [row EXCEPT !.state = decision, !.lease_owner = NoWorker,
                !.lease_expires_at = NoLease,
                !.run_after = IF decision = "queued" THEN Now ELSE @,
                !.completed = IF decision = "queued" THEN @ ELSE TRUE]

CancelRequested(row, wasQueued) ==
    IF wasQueued
    THEN [row EXCEPT !.state = "cancelled", !.cancel_requested = TRUE,
                     !.completed = TRUE]
    ELSE [row EXCEPT !.cancel_requested = TRUE]

(* Mutant of Retried: a retry starts counting attempts afresh.             *)
RetriedAfresh(row, hadCancel, wait) ==
    [row EXCEPT !.state = "queued", !.run_after = wait, !.completed = FALSE,
                !.attempt_count = 0,
                !.cancel_requested = IF hadCancel THEN FALSE ELSE @]

Retried(row, hadCancel, wait) ==
    [row EXCEPT !.state = "queued", !.run_after = wait, !.completed = FALSE,
                !.cancel_requested = IF hadCancel THEN FALSE ELSE @]

-----------------------------------------------------------------------------
Larger(x, y) == IF x > y THEN x ELSE y

(* One tick of wall-clock time over a row.                                 *)
Aged(row) ==
    [row EXCEPT
        !.lease_expires_at = IF row.state \in Active THEN Larger(@ - 1, -MaxAge)
                                                     ELSE @,
        !.run_after = Larger(@ - 1, 0)]
=============================================================================

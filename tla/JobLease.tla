------------------------------ MODULE JobLease ------------------------------
(***************************************************************************)
(* The durable job queue of app/jobs.py together with the processes that   *)
(* use it: workers that lease, run and settle jobs (the protocol of        *)
(* DiscoveryJobWorker, which the other job workers repeat), and API        *)
(* requests that enqueue, cancel and retry.                                *)
(*                                                                         *)
(* SQLite serialises statements, not sessions: under the driver's legacy   *)
(* transaction mode a SELECT opens no transaction.  A compare-and-set      *)
(* UPDATE is therefore one action here, while an operation that reads      *)
(* through the session and writes at commit is two, with every other       *)
(* process free to act in between.                                         *)
(***************************************************************************)
EXTENDS JobRows

CONSTANTS
    Jobs,         \* job identities, one per (kind, idempotency_key)
    NoJob,
    Clients,      \* API requests in progress
    MaxCrashes    \* bound: how many times processes are killed

ASSUME JobLeaseAssumption ==
    /\ NoJob \notin Jobs
    /\ MaxCrashes \in Nat

VARIABLES
    jobs,      \* the jobs table
    worker,    \* what each worker process knows
    client,    \* what each API request has read
    accepted,  \* history: the attempts whose success was committed
    crashes    \* number of processes killed so far

vars == <<jobs, worker, client, accepted, crashes>>

Idle == [pc |-> "idle", job |-> NoJob, attempt |-> 0, age |-> 0,
         plan |-> [j \in Jobs |-> "none"], beating |-> FALSE]
Down == [Idle EXCEPT !.pc = "down"]
NoRequest == [op |-> "none", job |-> NoJob, flag |-> FALSE]

(* Where a worker runs on behalf of a job it was granted.                  *)
HoldingPC == {"leased", "started", "working", "done", "succeed", "cancel",
              "error", "fail", "cancel_error", "timeout"}
Holding(w) == worker[w].pc \in HoldingPC

Init ==
    /\ jobs = [j \in Jobs |-> NoRow]
    /\ worker = [w \in Workers |-> Idle]
    /\ client = [c \in Clients |-> NoRequest]
    /\ accepted = [j \in Jobs |-> {}]
    /\ crashes = 0

-----------------------------------------------------------------------------
(* API requests.                                                           *)

(* A repeated (kind, idempotency_key) finds the row and changes nothing.   *)
Enqueue(j) ==
    /\ jobs[j].state = "absent"
    /\ jobs' = [jobs EXCEPT ![j] = NewRow]
    /\ UNCHANGED <<worker, client, accepted, crashes>>

ReadForCancel(c, j) ==
    /\ client[c].op = "none"
    /\ jobs[j].state \in {"queued"} \cup Active
    /\ client' = [client EXCEPT ![c] =
                    [op |-> "cancel", job |-> j, flag |-> jobs[j].state = "queued"]]
    /\ UNCHANGED <<jobs, worker, accepted, crashes>>

ReadForRetry(c, j) ==
    /\ client[c].op = "none"
    /\ jobs[j].state \in Retriable
    /\ jobs[j].attempt_count < MaxAttempts
    /\ client' = [client EXCEPT ![c] =
                    [op |-> "retry", job |-> j, flag |-> jobs[j].cancel_requested]]
    /\ UNCHANGED <<jobs, worker, accepted, crashes>>

(* The commit of a request: a row the constraints refuse is left alone.    *)
CommitRequest(c, row) ==
    /\ jobs' = IF Consistent(row) THEN [jobs EXCEPT ![client[c].job] = row] ELSE jobs
    /\ client' = [client EXCEPT ![c] = NoRequest]
    /\ UNCHANGED <<worker, accepted, crashes>>

RequestCancel(c) ==
    /\ client[c].op = "cancel"
    /\ CommitRequest(c, CancelRequested(jobs[client[c].job], client[c].flag))

Retry(c) ==
    /\ client[c].op = "retry"
    /\ \E wait \in 0 .. RetryDelay :
          CommitRequest(c, Retried(jobs[client[c].job], client[c].flag, wait))

-----------------------------------------------------------------------------
(* lease_next: recover expired leases, choose a job, claim it.             *)

Become(w, state) == worker' = [worker EXCEPT ![w] = state]

(* run_once reads the clock, and recover_expired reads the expired rows.   *)
ReadExpired(w) ==
    /\ worker[w].pc = "idle"
    /\ Become(w, [Idle EXCEPT
            !.pc = IF \E j \in Jobs : Expired(jobs[j], 0) THEN "recover" ELSE "select",
            !.plan = [j \in Jobs |-> IF Expired(jobs[j], 0) THEN RecoveryOf(jobs[j])
                                                            ELSE "none"]])
    /\ UNCHANGED <<jobs, client, accepted, crashes>>

(* One commit for all the rows read; a rejected row rolls all of them back *)
(* and the error leaves run_forever, which ends the process.               *)
RecoverExpired(w) ==
    LET plan    == worker[w].plan
        written == [j \in Jobs |-> IF plan[j] = "none" THEN jobs[j]
                                   ELSE Recovered(jobs[j], plan[j])]
    IN  /\ worker[w].pc = "recover"
        /\ IF \A j \in Jobs : Consistent(written[j])
           THEN jobs' = written /\ Become(w, [Idle EXCEPT !.pc = "select",
                                                          !.age = worker[w].age])
           ELSE jobs' = jobs /\ Become(w, Down)
        /\ UNCHANGED <<client, accepted, crashes>>

(* The order (run_after, created_at, id) is abstracted to a free choice.   *)
SelectJob(w) ==
    /\ worker[w].pc = "select"
    /\ IF \E j \in Jobs : Eligible(jobs[j])
       THEN \E j \in Jobs : /\ Eligible(jobs[j])
                            /\ Become(w, [worker[w] EXCEPT !.pc = "claim", !.job = j])
       ELSE Become(w, Idle)
    /\ UNCHANGED <<jobs, client, accepted, crashes>>

(* Mutant of ClaimJob: the UPDATE does not repeat the conditions.          *)
ClaimUnchecked(w) ==
    LET j   == worker[w].job
        row == Leased(jobs[j], w, worker[w].age)
    IN  /\ worker[w].pc = "claim"
        /\ IF Consistent(row)
           THEN /\ jobs' = [jobs EXCEPT ![j] = row]
                /\ Become(w, [worker[w] EXCEPT !.pc = "leased",
                                               !.attempt = row.attempt_count])
           ELSE Become(w, Down) /\ UNCHANGED jobs
        /\ UNCHANGED <<client, accepted, crashes>>

ClaimJob(w) ==
    LET j   == worker[w].job
        row == Leased(jobs[j], w, worker[w].age)
    IN  /\ worker[w].pc = "claim"
        /\ \/ /\ ~Eligible(jobs[j])
              /\ Become(w, Idle) /\ UNCHANGED jobs
           \/ /\ Eligible(jobs[j]) /\ ~Consistent(row)
              /\ Become(w, Down) /\ UNCHANGED jobs
           \/ /\ Eligible(jobs[j]) /\ Consistent(row)
              /\ jobs' = [jobs EXCEPT ![j] = row]
              /\ Become(w, [worker[w] EXCEPT !.pc = "leased",
                                             !.attempt = row.attempt_count])
        /\ UNCHANGED <<client, accepted, crashes>>

-----------------------------------------------------------------------------
(* _transition: an UPDATE guarded by state and owner, by the lease when    *)
(* live, and by the absence of a cancel request when uncancelled.          *)

Owns(w, allowed) ==
    LET row == jobs[worker[w].job]
    IN  row.state \in allowed /\ row.lease_owner = w

LeaseLive(w, age) == Live(jobs[worker[w].job], age)

Write(w, row) == jobs' = [jobs EXCEPT ![worker[w].job] = row]

(* A transition that moves the worker to ok, or to rejected when the       *)
(* UPDATE matches no row and JobTransitionError is raised.                 *)
Transition(w, accepts, row, ok, rejected) ==
    /\ IF accepts THEN Write(w, row) /\ Become(w, ok)
                  ELSE UNCHANGED jobs /\ Become(w, rejected)
    /\ UNCHANGED <<client, accepted, crashes>>

StartJob(w) ==
    /\ worker[w].pc = "leased"
    /\ Transition(w, Owns(w, {"leased"}) /\ LeaseLive(w, worker[w].age),
                  Started(jobs[worker[w].job]),
                  [worker[w] EXCEPT !.pc = "started"], Down)

(* The first heartbeat covers the whole run; the heartbeat task starts.    *)
ExtendForWork(w) ==
    /\ worker[w].pc = "started"
    /\ Transition(w, Owns(w, Active) /\ LeaseLive(w, worker[w].age),
                  Extended(jobs[worker[w].job], worker[w].age),
                  [worker[w] EXCEPT !.pc = "working", !.age = 0, !.beating = TRUE],
                  Down)

(* _heartbeat_loop: a rejected heartbeat ends the task and not the work.   *)
Heartbeat(w) ==
    /\ worker[w].pc = "working" /\ worker[w].beating
    /\ \E age \in 0 .. MaxAge :
          Transition(w, Owns(w, Active) /\ LeaseLive(w, age),
                     Extended(jobs[worker[w].job], age),
                     worker[w], [worker[w] EXCEPT !.beating = FALSE])

(* The scan returns, raises, or is stopped by asyncio.timeout.             *)
FinishWork(w) ==
    /\ worker[w].pc = "working"
    /\ \E end \in {"done", "error", "timeout"} :
          Become(w, [worker[w] EXCEPT !.pc = end, !.beating = FALSE])
    /\ UNCHANGED <<jobs, client, accepted, crashes>>

(* The row is read again, and so is the clock, before the job is settled.  *)
ReadCancellation(w) ==
    LET cancel == jobs[worker[w].job].cancel_requested
    IN  /\ \/ /\ worker[w].pc = "done"
              /\ Become(w, [worker[w] EXCEPT
                      !.age = 0, !.pc = IF cancel THEN "cancel" ELSE "succeed"])
           \/ /\ worker[w].pc = "error"
              /\ Become(w, [worker[w] EXCEPT
                      !.age = 0, !.pc = IF cancel THEN "cancel_error" ELSE "fail"])
        /\ UNCHANGED <<jobs, client, accepted, crashes>>

(* Mutant of Succeed: the lease need not be live.                         *)
SucceedLate(w) ==
    LET j       == worker[w].job
        accepts == Owns(w, {"running"}) /\ ~jobs[j].cancel_requested
    IN  /\ worker[w].pc = "succeed"
        /\ IF accepts
           THEN /\ Write(w, Closed(jobs[j], "succeeded"))
                /\ accepted' = [accepted EXCEPT ![j] = @ \cup {jobs[j].attempt_count}]
                /\ Become(w, Idle)
           ELSE /\ Become(w, [worker[w] EXCEPT !.pc = "error"])
                /\ UNCHANGED <<jobs, accepted>>
        /\ UNCHANGED <<client, crashes>>

(* Mutant of Succeed: a cancel request is not looked at.                   *)
SucceedCancelled(w) ==
    LET j       == worker[w].job
        accepts == Owns(w, {"running"}) /\ LeaseLive(w, worker[w].age)
    IN  /\ worker[w].pc = "succeed"
        /\ IF accepts
           THEN /\ Write(w, Closed(jobs[j], "succeeded"))
                /\ accepted' = [accepted EXCEPT ![j] = @ \cup {jobs[j].attempt_count}]
                /\ Become(w, Idle)
           ELSE /\ Become(w, [worker[w] EXCEPT !.pc = "error"])
                /\ UNCHANGED <<jobs, accepted>>
        /\ UNCHANGED <<client, crashes>>

Succeed(w) ==
    LET j       == worker[w].job
        accepts == /\ Owns(w, {"running"})
                   /\ LeaseLive(w, worker[w].age)
                   /\ ~jobs[j].cancel_requested
    IN  /\ worker[w].pc = "succeed"
        /\ IF accepts
           THEN /\ Write(w, Closed(jobs[j], "succeeded"))
                /\ accepted' = [accepted EXCEPT ![j] = @ \cup {jobs[j].attempt_count}]
                /\ Become(w, Idle)
           ELSE /\ Become(w, [worker[w] EXCEPT !.pc = "error"])
                /\ UNCHANGED <<jobs, accepted>>
        /\ UNCHANGED <<client, crashes>>

(* fail, time_out and cancel ask for ownership, not for a live lease.  An  *)
(* error raised by the first settlement is handled by the except clause;   *)
(* one raised inside an except clause leaves run_forever.                  *)
Settle(w, outcome, rejected) ==
    Transition(w, Owns(w, Active), Closed(jobs[worker[w].job], outcome),
               Idle, rejected)

Cancel(w) ==
    \/ /\ worker[w].pc = "cancel"
       /\ Settle(w, "cancelled", [worker[w] EXCEPT !.pc = "error"])
    \/ /\ worker[w].pc = "cancel_error"
       /\ Settle(w, "cancelled", Down)

Fail(w) ==
    /\ worker[w].pc = "fail"
    /\ Settle(w, "failed", Down)

TimeOut(w) ==
    /\ worker[w].pc = "timeout"
    /\ Settle(w, "timed_out", Down)

-----------------------------------------------------------------------------
(* Processes die at any moment and are started again by the supervisor.    *)
(* A restarted process takes a fresh worker_id; keeping the name is sound  *)
(* because it acts only on jobs it has been granted since.                 *)

Crash(w) ==
    /\ worker[w].pc # "down"
    /\ crashes < MaxCrashes
    /\ crashes' = crashes + 1
    /\ Become(w, Down)
    /\ UNCHANGED <<jobs, client, accepted>>

Restart(w) ==
    /\ worker[w].pc = "down"
    /\ Become(w, Idle)
    /\ UNCHANGED <<jobs, client, accepted, crashes>>

(* Clock readings are followed only where a later step compares with them. *)
ReadingKept == {"recover", "select", "claim", "leased", "started", "succeed"}

Tick ==
    /\ jobs' = [j \in Jobs |-> Aged(jobs[j])]
    /\ worker' = [w \in Workers |->
            [worker[w] EXCEPT !.age = IF worker[w].pc \in ReadingKept /\ @ =< MaxAge
                                      THEN @ + 1 ELSE @]]
    /\ UNCHANGED <<client, accepted, crashes>>

-----------------------------------------------------------------------------
Protocol(w) ==
    \/ ReadExpired(w) \/ RecoverExpired(w) \/ SelectJob(w) \/ ClaimJob(w)
    \/ StartJob(w) \/ ExtendForWork(w) \/ FinishWork(w) \/ ReadCancellation(w)
    \/ Succeed(w) \/ Cancel(w) \/ Fail(w) \/ TimeOut(w)

Request ==
    \/ \E j \in Jobs : Enqueue(j)
    \/ \E c \in Clients : \/ \E j \in Jobs : ReadForCancel(c, j) \/ ReadForRetry(c, j)
                          \/ RequestCancel(c) \/ Retry(c)

Next ==
    \/ Request
    \/ \E w \in Workers : Protocol(w) \/ Heartbeat(w) \/ Crash(w) \/ Restart(w)
    \/ Tick

Spec == Init /\ [][Next]_vars

(* A live process keeps executing its loop (run_forever), a dead one is    *)
(* restarted (restart: unless-stopped), time passes.  Nothing is asked of  *)
(* API clients, of heartbeats, or of crashes.                              *)
Fairness ==
    /\ \A w \in Workers : WF_vars(Protocol(w)) /\ WF_vars(Restart(w))
    /\ WF_vars(Tick)

FairSpec == Spec /\ Fairness
-----------------------------------------------------------------------------
(* Properties.                                                             *)

WorkerState ==
    [ pc : {"idle", "down", "recover", "select", "claim"} \cup HoldingPC,
      job : Jobs \cup {NoJob},
      attempt : 0 .. MaxAttempts,
      age : Ages,
      plan : [Jobs -> {"none", "queued", "cancelled", "timed_out"}],
      beating : BOOLEAN ]

RequestState ==
    [op : {"none", "cancel", "retry"}, job : Jobs \cup {NoJob}, flag : BOOLEAN]

(* The type of every variable: rows are rows of the jobs table and         *)
(* processes know what their program counters say they know.               *)
TypeOK ==
    /\ jobs \in [Jobs -> JobRow]
    /\ worker \in [Workers -> WorkerState]
    /\ client \in [Clients -> RequestState]
    /\ accepted \in [Jobs -> SUBSET (0 .. MaxAttempts)]
    /\ crashes \in 0 .. MaxCrashes

OnJob(w, j) == Holding(w) /\ worker[w].job = j

(* Two processes may come to run the same job, but never on the same       *)
(* attempt, and the one the row names as lease_owner is always the one     *)
(* holding the row's current attempt: a process whose lease was taken away *)
(* cannot be mistaken for the owner (lease_next, recover_expired, retry).  *)
AttemptsFence ==
    \A j \in Jobs, w \in Workers : OnJob(w, j) =>
        /\ worker[w].attempt =< jobs[j].attempt_count
        /\ jobs[j].lease_owner = w => worker[w].attempt = jobs[j].attempt_count
        /\ \A v \in Workers \ {w} :
              OnJob(v, j) => worker[v].attempt # worker[w].attempt

(* However stale the write that reopened a job, an attempt whose success   *)
(* was committed is never running again: only a new lease makes a row      *)
(* active, and a new lease is a new attempt.                               *)
AcceptedIsClosed ==
    \A j \in Jobs :
        /\ \A n \in accepted[j] : n =< jobs[j].attempt_count
        /\ jobs[j].state \in Active => jobs[j].attempt_count \notin accepted[j]

(* A success is recorded only in a step of the process that owns the row   *)
(* and holds its current attempt, under a lease live at the clock it read, *)
(* and only once for that attempt (succeed).                               *)
ResultIsCurrent ==
    [][\A j \in Jobs : accepted'[j] # accepted[j] =>
          \E w \in Workers :
              /\ OnJob(w, j) /\ ~OnJob(w, j)'
              /\ jobs[j].lease_owner = w
              /\ worker[w].attempt = jobs[j].attempt_count
              /\ Live(jobs[j], worker[w].age)
              /\ worker[w].attempt \notin accepted[j]
              /\ accepted'[j] = accepted[j] \cup {worker[w].attempt}]_vars

(* A cancellation requested while an attempt holds the job survives every  *)
(* step that follows, stale writes included, until the job has left its    *)
(* lease, and keeps the attempt from being recorded as a success           *)
(* (request_cancel, succeed, recover_expired).                             *)
CancelIsDurable ==
    [][\A j \in Jobs :
          jobs[j].state \in Active /\ jobs[j].cancel_requested =>
              /\ jobs'[j].cancel_requested
              /\ jobs'[j].state # "succeeded"
              /\ accepted'[j] = accepted[j]]_vars

(* The queue implements the fenced attempts: whatever is read stale, each  *)
(* commit is a grant, a revocation, an acceptance, or none of these.       *)
Fence == INSTANCE AttemptFence WITH
    granted <- [j \in Jobs |-> jobs[j].attempt_count],
    holder <- [j \in Jobs |-> jobs[j].lease_owner]
FenceSpec == Fence!Spec

(* Where the queue should come to: no job is leased or running, since its  *)
(* holder settles it or some worker's next poll takes back an expired      *)
(* lease (recover_expired), and none is queued that nobody asked to cancel.*)
JobsAtRest ==
    \A j \in Jobs :
        /\ jobs[j].state \notin Active
        /\ jobs[j].state = "queued" => jobs[j].cancel_requested

(* A terminal state is final: a settled job changes again only when a      *)
(* retry puts one that did not succeed back into the queue.                *)
TerminalIsFinal ==
    [][\A j \in Jobs : jobs[j].state \in Terminal =>
          \/ jobs'[j].state = jobs[j].state
          \/ jobs[j].state \in Retriable /\ jobs'[j].state = "queued"]_vars
=============================================================================

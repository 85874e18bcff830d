--------------------------- MODULE JobLeaseProofs ---------------------------
(***************************************************************************)
(* Theorems about JobLease, for any number of jobs, workers, requests,     *)
(* attempts and crashes and any lease lengths.                             *)
(***************************************************************************)
EXTENDS JobLease, JobRowsProofs

USE JobRowsAssumption, JobLeaseAssumption

(* Process states that name a job where they act on one.                   *)
GoodWorker == {s \in WorkerState : s.pc \in HoldingPC \cup {"claim"} => s.job \in Jobs}
GoodRequest == {q \in RequestState : q.op # "none" => q.job \in Jobs}

Basic ==
    /\ jobs \in [Jobs -> GoodRow]
    /\ worker \in [Workers -> GoodWorker]
    /\ client \in [Clients -> GoodRequest]
    /\ accepted \in [Jobs -> SUBSET (0 .. MaxAttempts)]
    /\ crashes \in 0 .. MaxCrashes

-----------------------------------------------------------------------------
(* Where a worker can be after a step.                                     *)

LEMMA RestingWorker == Idle \in GoodWorker /\ Down \in GoodWorker
<1>1. 0 \in Ages /\ 0 \in 0 .. MaxAttempts
  BY DEF Ages
<1>2. Idle \in WorkerState
  BY <1>1 DEF WorkerState, Idle
<1>3. Down \in WorkerState
  BY <1>2 DEF WorkerState, Down
<1>4. Idle.pc = "idle" /\ Down.pc = "down"
  BY DEF Idle, Down
<1> QED BY <1>2, <1>3, <1>4 DEF GoodWorker, HoldingPC

LEMMA MovedWorker ==
    ASSUME NEW s \in GoodWorker, s.job \in Jobs, NEW pc \in HoldingPC
    PROVE  /\ [s EXCEPT !.pc = pc] \in GoodWorker
           /\ \A b \in BOOLEAN : [s EXCEPT !.pc = pc, !.beating = b] \in GoodWorker
           /\ [s EXCEPT !.age = 0, !.pc = pc] \in GoodWorker
           /\ [s EXCEPT !.pc = pc, !.age = 0, !.beating = TRUE] \in GoodWorker
<1>1. 0 \in Ages
  BY DEF Ages
<1>2. /\ \A age \in Ages : [s EXCEPT !.age = age, !.pc = pc] \in GoodWorker
      /\ \A age \in Ages :
            [s EXCEPT !.pc = pc, !.age = age, !.beating = TRUE] \in GoodWorker
  BY DEF GoodWorker, WorkerState
<1>3. /\ [s EXCEPT !.age = 0, !.pc = pc] \in GoodWorker
      /\ [s EXCEPT !.pc = pc, !.age = 0, !.beating = TRUE] \in GoodWorker
  BY <1>1, <1>2, Zenon
<1> QED BY <1>3 DEF GoodWorker, WorkerState

LEMMA HeldJob ==
    ASSUME Basic, NEW w \in Workers, worker[w].pc \in HoldingPC \cup {"claim"}
    PROVE  /\ worker[w] \in GoodWorker
           /\ worker[w].job \in Jobs
           /\ jobs[worker[w].job] \in GoodRow
           /\ worker[w].age \in Ages
           /\ worker[w].attempt \in 0 .. MaxAttempts
BY DEF Basic, GoodWorker, WorkerState

LEMMA TransitionBasic ==
    ASSUME Basic, NEW w \in Workers, worker[w].job \in Jobs,
           NEW accepts \in BOOLEAN, NEW row, accepts => row \in GoodRow,
           NEW ok \in GoodWorker, NEW rejected \in GoodWorker,
           Transition(w, accepts, row, ok, rejected)
    PROVE  Basic'
BY DEF Basic, Transition, Write, Become

-----------------------------------------------------------------------------
(* The basic invariant: types, well-named jobs, rows as the table's        *)
(* constraints want them.                                                  *)

LEMMA BasicInit == Init => Basic
<1> SUFFICES ASSUME Init PROVE Basic
  OBVIOUS
<1>1. NoRequest \in GoodRequest
  BY DEF NoRequest, GoodRequest, RequestState
<1> QED BY <1>1, NewRowGood, RestingWorker DEF Init, Basic

LEMMA RequestBasic == Basic /\ Request => Basic'
<1> SUFFICES ASSUME Basic, Request PROVE Basic'
  OBVIOUS
<1> USE DEF Basic
<1>1. ASSUME NEW j \in Jobs, Enqueue(j) PROVE Basic'
  BY <1>1, NewRowGood DEF Enqueue
<1>2. ASSUME NEW c \in Clients, NEW j \in Jobs, ReadForCancel(c, j) PROVE Basic'
  <2>1. [op |-> "cancel", job |-> j, flag |-> jobs[j].state = "queued"] \in GoodRequest
    BY DEF GoodRequest, RequestState
  <2> QED BY <1>2, <2>1 DEF ReadForCancel
<1>3. ASSUME NEW c \in Clients, NEW j \in Jobs, ReadForRetry(c, j) PROVE Basic'
  <2>1. [op |-> "retry", job |-> j, flag |-> jobs[j].cancel_requested] \in GoodRequest
    BY DEF GoodRequest, RequestState, GoodRow, JobRow
  <2> QED BY <1>3, <2>1 DEF ReadForRetry
<1>4. ASSUME NEW c \in Clients, client[c].op # "none", NEW row \in JobRow,
             CommitRequest(c, row)
      PROVE  Basic'
  <2>1. NoRequest \in GoodRequest
    BY DEF NoRequest, GoodRequest, RequestState
  <2>2. client' \in [Clients -> GoodRequest]
    BY <1>4, <2>1 DEF CommitRequest
  <2>3. jobs' \in [Jobs -> GoodRow]
    <3>1. CASE Consistent(row)
      BY <1>4, <3>1 DEF CommitRequest, GoodRow
    <3>2. CASE ~Consistent(row)
      BY <1>4, <3>2 DEF CommitRequest
    <3> QED BY <3>1, <3>2
  <2> QED BY <1>4, <2>2, <2>3 DEF CommitRequest
<1>5. ASSUME NEW c \in Clients, RequestCancel(c) PROVE Basic'
  <2>1. client[c].op # "none" /\ client[c].job \in Jobs /\ client[c].flag \in BOOLEAN
    BY <1>5 DEF RequestCancel, GoodRequest, RequestState
  <2>2. CancelRequested(jobs[client[c].job], client[c].flag) \in JobRow
    BY <2>1, CancelRequestedRow DEF GoodRow
  <2> QED BY <1>4, <1>5, <2>1, <2>2 DEF RequestCancel
<1>6. ASSUME NEW c \in Clients, Retry(c) PROVE Basic'
  <2>1. client[c].op # "none" /\ client[c].job \in Jobs /\ client[c].flag \in BOOLEAN
    BY <1>6 DEF Retry, GoodRequest, RequestState
  <2>2. PICK wait \in 0 .. RetryDelay :
            CommitRequest(c, Retried(jobs[client[c].job], client[c].flag, wait))
    BY <1>6 DEF Retry
  <2>3. Retried(jobs[client[c].job], client[c].flag, wait) \in JobRow
    BY <2>1, RetriedRow DEF GoodRow
  <2> QED BY <1>4, <2>1, <2>2, <2>3
<1> QED BY <1>1, <1>2, <1>3, <1>5, <1>6 DEF Request

LEMMA RecoveryPlanned ==
    ASSUME NEW row \in JobRow
    PROVE  RecoveryOf(row) \in {"queued", "cancelled", "timed_out"}
BY DEF RecoveryOf

LEMMA LeaseNextBasic ==
    ASSUME Basic, NEW w \in Workers,
           \/ ReadExpired(w) \/ RecoverExpired(w) \/ SelectJob(w) \/ ClaimJob(w)
    PROVE  Basic'
<1> USE DEF Basic
<1>0. worker[w] \in GoodWorker /\ worker[w].age \in Ages
  BY DEF GoodWorker, WorkerState
<1>1. CASE ReadExpired(w)
  <2> DEFINE pc == IF \E j \in Jobs : Expired(jobs[j], 0) THEN "recover" ELSE "select"
             plan == [j \in Jobs |-> IF Expired(jobs[j], 0) THEN RecoveryOf(jobs[j])
                                                            ELSE "none"]
  <2>1. plan \in [Jobs -> {"none", "queued", "cancelled", "timed_out"}]
    BY RecoveryPlanned DEF GoodRow
  <2>2. pc \in {"recover", "select"}
    OBVIOUS
  <2> HIDE DEF plan, pc
  <2>3. [Idle EXCEPT !.pc = pc, !.plan = plan] \in GoodWorker
    BY <2>1, <2>2, RestingWorker DEF GoodWorker, WorkerState, HoldingPC
  <2>4. worker' = [worker EXCEPT ![w] = [Idle EXCEPT !.pc = pc, !.plan = plan]]
    BY <1>1 DEF ReadExpired, Become, pc, plan
  <2> QED BY <1>1, <2>3, <2>4 DEF ReadExpired
<1>2. CASE RecoverExpired(w)
  <2> DEFINE written == [j \in Jobs |-> IF worker[w].plan[j] = "none" THEN jobs[j]
                                        ELSE Recovered(jobs[j], worker[w].plan[j])]
  <2>1. worker[w].plan \in [Jobs -> {"none", "queued", "cancelled", "timed_out"}]
    BY <1>0 DEF GoodWorker, WorkerState
  <2>2. \A j \in Jobs : written[j] \in JobRow
    BY <2>1, RecoveredRow DEF GoodRow
  <2>3. [Idle EXCEPT !.pc = "select", !.age = worker[w].age] \in GoodWorker
    BY <1>0, RestingWorker DEF GoodWorker, WorkerState, HoldingPC
  <2>4. CASE \A j \in Jobs : Consistent(written[j])
    <3>1. jobs' = written
      BY <1>2, <2>4 DEF RecoverExpired
    <3>2. jobs' \in [Jobs -> GoodRow]
      BY <3>1, <2>2, <2>4 DEF GoodRow
    <3>3. worker' = [worker EXCEPT ![w] = [Idle EXCEPT !.pc = "select",
                                                       !.age = worker[w].age]]
      BY <1>2, <2>4 DEF RecoverExpired, Become
    <3> QED BY <1>2, <2>3, <3>2, <3>3 DEF RecoverExpired
  <2>5. CASE ~(\A j \in Jobs : Consistent(written[j]))
    <3>1. jobs' = jobs /\ worker' = [worker EXCEPT ![w] = Down]
      BY <1>2, <2>5 DEF RecoverExpired, Become
    <3> QED BY <1>2, <3>1, RestingWorker DEF RecoverExpired
  <2> QED BY <2>4, <2>5
<1>3. CASE SelectJob(w)
  <2>1. \A j \in Jobs : [worker[w] EXCEPT !.pc = "claim", !.job = j] \in GoodWorker
    BY <1>0 DEF GoodWorker, WorkerState
  <2>2. PICK s \in GoodWorker : worker' = [worker EXCEPT ![w] = s]
    BY <1>3, <2>1, RestingWorker DEF SelectJob, Become
  <2>3. worker' \in [Workers -> GoodWorker]
    BY <2>2
  <2> QED BY <1>3, <2>3 DEF SelectJob
<1>4. CASE ClaimJob(w)
  <2> DEFINE j == worker[w].job
             row == Leased(jobs[j], w, worker[w].age)
  <2>1. j \in Jobs /\ jobs[j] \in JobRow
    BY <1>4, HeldJob DEF ClaimJob, GoodRow
  <2>2. CASE Eligible(jobs[j]) /\ Consistent(row)
    <3>1. row \in GoodRow
      BY <1>0, <2>1, <2>2, LeasedRow
    <3>2. row.attempt_count \in 0 .. MaxAttempts
      BY <3>1 DEF GoodRow, JobRow
    <3>3. [worker[w] EXCEPT !.pc = "leased", !.attempt = row.attempt_count] \in GoodWorker
      BY <1>0, <2>1, <3>2 DEF GoodWorker, WorkerState, HoldingPC
    <3>4. /\ jobs' = [jobs EXCEPT ![j] = row]
          /\ worker' = [worker EXCEPT ![w] =
                [worker[w] EXCEPT !.pc = "leased", !.attempt = row.attempt_count]]
      BY <1>4, <2>2 DEF ClaimJob, Become
    <3> QED BY <1>4, <2>1, <3>1, <3>3, <3>4 DEF ClaimJob
  <2>3. CASE ~(Eligible(jobs[j]) /\ Consistent(row))
    <3>1. jobs' = jobs /\ (worker' = [worker EXCEPT ![w] = Idle] \/
                           worker' = [worker EXCEPT ![w] = Down])
      BY <1>4, <2>3 DEF ClaimJob, Become
    <3> QED BY <1>4, <3>1, RestingWorker DEF ClaimJob
  <2> QED BY <2>2, <2>3
<1> QED BY <1>1, <1>2, <1>3, <1>4

LEMMA RunBasic ==
    ASSUME Basic, NEW w \in Workers,
           StartJob(w) \/ ExtendForWork(w) \/ Heartbeat(w) \/ FinishWork(w)
    PROVE  Basic'
<1>0. /\ worker[w] \in GoodWorker /\ worker[w].job \in Jobs
      /\ jobs[worker[w].job] \in GoodRow /\ worker[w].age \in Ages
  BY HeldJob DEF StartJob, ExtendForWork, Heartbeat, FinishWork, HoldingPC
<1> DEFINE row == jobs[worker[w].job]
<1>1. CASE StartJob(w)
  <2>1. [worker[w] EXCEPT !.pc = "started"] \in GoodWorker
    BY <1>0, MovedWorker DEF HoldingPC
  <2>2. Owns(w, {"leased"}) => Started(row) \in GoodRow
    BY <1>0, StartedRow DEF Owns, Active
  <2> QED BY <1>0, <1>1, <2>1, <2>2, RestingWorker, TransitionBasic DEF StartJob
<1>2. CASE ExtendForWork(w)
  <2>1. [worker[w] EXCEPT !.pc = "working", !.age = 0, !.beating = TRUE] \in GoodWorker
    BY <1>0, MovedWorker DEF HoldingPC
  <2>2. Owns(w, Active) => Extended(row, worker[w].age) \in GoodRow
    BY <1>0, ExtendedRow DEF Owns
  <2> QED BY <1>0, <1>2, <2>1, <2>2, RestingWorker, TransitionBasic DEF ExtendForWork
<1>3. CASE Heartbeat(w)
  <2>1. [worker[w] EXCEPT !.beating = FALSE] \in GoodWorker
    BY <1>0 DEF GoodWorker, WorkerState
  <2>2. PICK age \in 0 .. MaxAge :
            Transition(w, Owns(w, Active) /\ LeaseLive(w, age), Extended(row, age),
                       worker[w], [worker[w] EXCEPT !.beating = FALSE])
    BY <1>3 DEF Heartbeat
  <2>3. Owns(w, Active) => Extended(row, age) \in GoodRow
    BY <1>0, ExtendedRow DEF Ages, Owns
  <2> QED BY <1>0, <2>1, <2>2, <2>3, TransitionBasic
<1>4. CASE FinishWork(w)
  <2>1. \A end \in {"done", "error", "timeout"} :
            [worker[w] EXCEPT !.pc = end, !.beating = FALSE] \in GoodWorker
    BY <1>0, MovedWorker DEF HoldingPC
  <2> QED BY <1>4, <2>1 DEF FinishWork, Become, Basic
<1> QED BY <1>1, <1>2, <1>3, <1>4

LEMMA SettleBasic ==
    ASSUME Basic, NEW w \in Workers,
           ReadCancellation(w) \/ Succeed(w) \/ Cancel(w) \/ Fail(w) \/ TimeOut(w)
    PROVE  Basic'
<1>0. /\ worker[w] \in GoodWorker /\ worker[w].job \in Jobs
      /\ jobs[worker[w].job] \in GoodRow
  BY HeldJob DEF ReadCancellation, Succeed, Cancel, Fail, TimeOut, HoldingPC
<1>1. \A outcome \in Terminal : Closed(jobs[worker[w].job], outcome) \in GoodRow
  BY <1>0, ClosedRow DEF GoodRow
<1>2. [worker[w] EXCEPT !.pc = "error"] \in GoodWorker
  BY <1>0, MovedWorker DEF HoldingPC
<1>3. CASE ReadCancellation(w)
  <2>1. \A pc \in {"cancel", "succeed", "cancel_error", "fail"} :
            [worker[w] EXCEPT !.age = 0, !.pc = pc] \in GoodWorker
    BY <1>0, MovedWorker DEF HoldingPC
  <2> QED BY <1>3, <2>1 DEF ReadCancellation, Become, Basic
<1>4. CASE Succeed(w)
  <2> DEFINE n == jobs[worker[w].job].attempt_count
  <2>1. CASE accepted' = accepted
    BY <1>0, <1>1, <1>2, <1>4, <2>1, RestingWorker
       DEF Succeed, Write, Become, Basic, Terminal
  <2>2. CASE accepted' # accepted
    <3>1. /\ accepted' = [accepted EXCEPT ![worker[w].job] = @ \cup {n}]
          /\ worker' = [worker EXCEPT ![w] = Idle]
          /\ Write(w, Closed(jobs[worker[w].job], "succeeded"))
          /\ Owns(w, {"running"})
      BY <1>4, <2>2 DEF Succeed, Become
    <3>2. n \in 0 .. MaxAttempts
      BY <1>0 DEF GoodRow, JobRow
    <3> QED BY <1>0, <1>1, <1>4, <3>1, <3>2, RestingWorker
            DEF Succeed, Write, Basic, Terminal
  <2> QED BY <2>1, <2>2
<1>5. ASSUME NEW outcome \in Terminal, NEW rejected \in GoodWorker,
             Settle(w, outcome, rejected)
      PROVE  Basic'
  <2>1. Owns(w, Active) \in BOOLEAN
    BY DEF Owns
  <2> QED BY <1>0, <1>1, <1>5, <2>1, RestingWorker, TransitionBasic DEF Settle
<1>6. CASE Cancel(w)
  BY <1>2, <1>5, <1>6, RestingWorker DEF Cancel, Terminal
<1>7. CASE Fail(w)
  BY <1>5, <1>7, RestingWorker DEF Fail, Terminal
<1>8. CASE TimeOut(w)
  BY <1>5, <1>8, RestingWorker DEF TimeOut, Terminal
<1> QED BY <1>3, <1>4, <1>6, <1>7, <1>8

LEMMA ProcessBasic ==
    ASSUME Basic, \E w \in Workers : Crash(w) \/ Restart(w)
    PROVE  Basic'
BY RestingWorker DEF Basic, Crash, Restart, Become

LEMMA TickBasic == Basic /\ Tick => Basic'
<1> SUFFICES ASSUME Basic, Tick PROVE Basic'
  OBVIOUS
<1>1. jobs' \in [Jobs -> GoodRow]
  BY AgedRow DEF Basic, Tick, GoodRow
<1>2. ASSUME NEW w \in Workers
      PROVE  [worker[w] EXCEPT !.age = IF worker[w].pc \in ReadingKept /\ @ =< MaxAge
                                       THEN @ + 1 ELSE @] \in GoodWorker
  <2> DEFINE age == IF worker[w].pc \in ReadingKept /\ worker[w].age =< MaxAge
                    THEN worker[w].age + 1 ELSE worker[w].age
  <2>1. worker[w] \in GoodWorker /\ worker[w].age \in Ages
    BY DEF Basic, GoodWorker, WorkerState
  <2>2. age \in Ages
    BY <2>1 DEF Ages
  <2>3. \A a \in Ages : [worker[w] EXCEPT !.age = a] \in GoodWorker
    BY <2>1 DEF GoodWorker, WorkerState
  <2> QED BY <2>2, <2>3, Zenon
<1>3. worker' \in [Workers -> GoodWorker]
  BY <1>2 DEF Tick
<1> QED BY <1>1, <1>3 DEF Basic, Tick

LEMMA BasicNext == Basic /\ [Next]_vars => Basic'
<1> SUFFICES ASSUME Basic, [Next]_vars PROVE Basic'
  OBVIOUS
<1>1. CASE UNCHANGED vars
  BY <1>1 DEF Basic, vars
<1>2. CASE Request
  BY <1>2, RequestBasic
<1>3. CASE Tick
  BY <1>3, TickBasic
<1>4. ASSUME NEW w \in Workers, Protocol(w) \/ Heartbeat(w) \/ Crash(w) \/ Restart(w)
      PROVE  Basic'
  BY <1>4, LeaseNextBasic, RunBasic, SettleBasic, ProcessBasic DEF Protocol
<1> QED BY <1>1, <1>2, <1>3, <1>4 DEF Next

LEMMA BasicAlways == Spec => []Basic
BY BasicInit, BasicNext, PTL DEF Spec

(* Every variable keeps its type: in particular no stale write ever leaves *)
(* a row outside the states the jobs table allows.                         *)
THEOREM TypeCorrect == Spec => []TypeOK
<1>1. Basic => TypeOK
  BY DEF Basic, TypeOK, GoodRow, GoodWorker, GoodRequest
<1> QED BY <1>1, BasicAlways, PTL

-----------------------------------------------------------------------------
(* A step either grants an attempt, accepts a result, or keeps both.  What *)
(* a keeping step may do to a row is release it; what it may do to a       *)
(* process is take it off its job.                                         *)

KeepsRow(r, s) ==
    /\ s.attempt_count = r.attempt_count
    /\ s.lease_owner \in {r.lease_owner, NoWorker}
    /\ s.state \in Active => r.state \in Active
    /\ r.state \in Active /\ r.cancel_requested =>
          s.cancel_requested /\ s.state # "succeeded"

KeepsWorker(s, t) ==
    t.pc \in HoldingPC => s.pc \in HoldingPC /\ t.job = s.job /\ t.attempt = s.attempt

Keeps ==
    /\ \A j \in Jobs : KeepsRow(jobs[j], jobs'[j])
    /\ \A w \in Workers : KeepsWorker(worker[w], worker'[w])
    /\ accepted' = accepted

Grants(w, j) ==
    /\ worker[w].pc \notin HoldingPC
    /\ Eligible(jobs[j])
    /\ jobs[j].attempt_count < MaxAttempts
    /\ \E age \in Ages : jobs' = [jobs EXCEPT ![j] = Leased(jobs[j], w, age)]
    /\ worker' = [worker EXCEPT ![w] = [worker[w] EXCEPT
            !.pc = "leased", !.attempt = jobs[j].attempt_count + 1]]
    /\ worker[w].job = j
    /\ accepted' = accepted

Accepts(w, j) ==
    /\ OnJob(w, j)
    /\ jobs[j].state = "running" /\ jobs[j].lease_owner = w
    /\ Live(jobs[j], worker[w].age) /\ ~jobs[j].cancel_requested
    /\ jobs' = [jobs EXCEPT ![j] = Closed(jobs[j], "succeeded")]
    /\ worker' = [worker EXCEPT ![w] = Idle]
    /\ accepted' = [accepted EXCEPT ![j] = @ \cup {jobs[j].attempt_count}]

LEMMA SameKept ==
    /\ \A r \in GoodRow : KeepsRow(r, r)
    /\ \A s \in GoodWorker : KeepsWorker(s, s)
    /\ \A s \in GoodWorker : KeepsWorker(s, Idle) /\ KeepsWorker(s, Down)
<1>1. \A r \in GoodRow : KeepsRow(r, r)
  BY DEF GoodRow, JobRow, KeepsRow, Active
<1>2. Idle.pc = "idle" /\ Down.pc = "down"
  BY DEF Idle, Down
<1> QED BY <1>1, <1>2 DEF KeepsWorker, HoldingPC

LEMMA StartedKept ==
    ASSUME NEW r \in GoodRow, r.state \in Active
    PROVE  KeepsRow(r, Started(r))
BY DEF GoodRow, JobRow, KeepsRow, Started, Active

LEMMA ExtendedKept ==
    ASSUME NEW r \in GoodRow, NEW age \in Ages
    PROVE  KeepsRow(r, Extended(r, age))
BY DEF GoodRow, JobRow, KeepsRow, Extended, Active

LEMMA ClosedKept ==
    ASSUME NEW r \in GoodRow, NEW outcome \in Terminal, outcome # "succeeded"
    PROVE  KeepsRow(r, Closed(r, outcome))
<1>1. /\ Closed(r, outcome).attempt_count = r.attempt_count
      /\ Closed(r, outcome).lease_owner = NoWorker
      /\ Closed(r, outcome).state = outcome
      /\ r.cancel_requested => Closed(r, outcome).cancel_requested
  BY DEF GoodRow, JobRow, Closed
<1> QED BY <1>1 DEF KeepsRow, Active, Terminal

LEMMA RecoveredKept ==
    ASSUME NEW r \in GoodRow, NEW d \in {"queued", "cancelled", "timed_out"}
    PROVE  KeepsRow(r, Recovered(r, d))
<1>1. /\ Recovered(r, d).attempt_count = r.attempt_count
      /\ Recovered(r, d).lease_owner = NoWorker
      /\ Recovered(r, d).state = d
      /\ Recovered(r, d).cancel_requested = r.cancel_requested
  BY DEF GoodRow, JobRow, Recovered
<1> QED BY <1>1 DEF KeepsRow, Active

LEMMA CancelRequestedKept ==
    ASSUME NEW r \in GoodRow, NEW b \in BOOLEAN, Consistent(CancelRequested(r, b))
    PROVE  KeepsRow(r, CancelRequested(r, b))
<1>1. CASE b
  <2>1. /\ CancelRequested(r, b).attempt_count = r.attempt_count
        /\ CancelRequested(r, b).lease_owner = r.lease_owner
        /\ CancelRequested(r, b).state = "cancelled"
        /\ CancelRequested(r, b).cancel_requested
    BY <1>1 DEF GoodRow, JobRow, CancelRequested
  <2> QED BY <2>1 DEF KeepsRow, Active
<1>2. CASE ~b
  <2>1. /\ CancelRequested(r, b).attempt_count = r.attempt_count
        /\ CancelRequested(r, b).lease_owner = r.lease_owner
        /\ CancelRequested(r, b).state = r.state
        /\ CancelRequested(r, b).cancel_requested
    BY <1>2 DEF GoodRow, JobRow, CancelRequested
  <2> QED BY <2>1 DEF KeepsRow, Active
<1> QED BY <1>1, <1>2

(* A retry that read the row before it was leased finds its write        *)
(* refused: the row it would produce still has an owner.                   *)
LEMMA RetriedKept ==
    ASSUME NEW r \in GoodRow, NEW b \in BOOLEAN, NEW wait \in 0 .. RetryDelay,
           Consistent(Retried(r, b, wait))
    PROVE  KeepsRow(r, Retried(r, b, wait))
<1>1. /\ Retried(r, b, wait).attempt_count = r.attempt_count
      /\ Retried(r, b, wait).lease_owner = r.lease_owner
      /\ Retried(r, b, wait).state = "queued"
  BY DEF GoodRow, JobRow, Retried
<1>2. r.lease_owner = NoWorker
  BY <1>1 DEF Consistent, Active, Terminal
<1>3. r.state \notin Active
  BY <1>2 DEF GoodRow, Consistent, Active, Terminal
<1> QED BY <1>1, <1>3 DEF KeepsRow, Active

LEMMA TransitionKept ==
    ASSUME Basic, NEW w \in Workers, worker[w].job \in Jobs,
           NEW accepts \in BOOLEAN, NEW row,
           accepts => KeepsRow(jobs[worker[w].job], row),
           NEW ok, KeepsWorker(worker[w], ok),
           NEW rejected, KeepsWorker(worker[w], rejected),
           Transition(w, accepts, row, ok, rejected)
    PROVE  Keeps
<1>1. \A j \in Jobs : KeepsRow(jobs[j], jobs'[j])
  BY SameKept DEF Transition, Write, Basic
<1>2. \A v \in Workers : KeepsWorker(worker[v], worker'[v])
  BY SameKept DEF Transition, Become, Basic
<1> QED BY <1>1, <1>2 DEF Keeps, Transition

LEMMA WorkerMoveKept ==
    ASSUME Basic, NEW w \in Workers, NEW s, KeepsWorker(worker[w], s),
           Become(w, s), UNCHANGED <<jobs, accepted>>
    PROVE  Keeps
BY SameKept DEF Basic, Become, Keeps

LEMMA RequestKept == Basic /\ Request => Keeps
<1> SUFFICES ASSUME Basic, Request PROVE Keeps
  OBVIOUS
<1>1. ASSUME UNCHANGED worker, UNCHANGED accepted,
             \A j \in Jobs : KeepsRow(jobs[j], jobs'[j])
      PROVE  Keeps
  BY <1>1, SameKept DEF Keeps, Basic
<1>2. ASSUME NEW j \in Jobs, Enqueue(j) PROVE Keeps
  <2>1. jobs[j] \in GoodRow /\ jobs[j].state = "absent"
    BY <1>2 DEF Basic, Enqueue
  <2>2. jobs[j].attempt_count = 0 /\ jobs[j].lease_owner = NoWorker
    <3>1. Consistent(jobs[j])
      BY <2>1 DEF GoodRow
    <3>2. /\ jobs[j].state \notin Active /\ jobs[j].state \notin Terminal
          /\ jobs[j].state # "queued"
      BY <2>1 DEF Active, Terminal
    <3> QED BY <3>1, <3>2, Zenon DEF Consistent
  <2>3. /\ NewRow.attempt_count = 0 /\ NewRow.lease_owner = NoWorker
        /\ NewRow.state = "queued"
    BY DEF NewRow, NoRow
  <2>4. KeepsRow(jobs[j], NewRow)
    BY <2>1, <2>2, <2>3 DEF KeepsRow, Active
  <2> QED BY <1>1, <1>2, <2>4, SameKept DEF Enqueue, Basic
<1>3. ASSUME NEW c \in Clients, NEW j \in Jobs, ReadForCancel(c, j) \/ ReadForRetry(c, j)
      PROVE  Keeps
  BY <1>1, <1>3, SameKept DEF ReadForCancel, ReadForRetry, Basic
<1>4. ASSUME NEW c \in Clients, NEW row, CommitRequest(c, row), client[c].job \in Jobs,
             Consistent(row) => KeepsRow(jobs[client[c].job], row)
      PROVE  Keeps
  BY <1>1, <1>4, SameKept DEF CommitRequest, Basic
<1>5. ASSUME NEW c \in Clients, RequestCancel(c) PROVE Keeps
  <2>1. client[c].job \in Jobs /\ client[c].flag \in BOOLEAN
    BY <1>5 DEF RequestCancel, Basic, GoodRequest, RequestState
  <2> QED BY <1>4, <1>5, <2>1, CancelRequestedKept DEF RequestCancel, Basic
<1>6. ASSUME NEW c \in Clients, Retry(c) PROVE Keeps
  <2>1. client[c].job \in Jobs /\ client[c].flag \in BOOLEAN
    BY <1>6 DEF Retry, Basic, GoodRequest, RequestState
  <2>2. PICK wait \in 0 .. RetryDelay :
            CommitRequest(c, Retried(jobs[client[c].job], client[c].flag, wait))
    BY <1>6 DEF Retry
  <2> QED BY <1>4, <2>1, <2>2, RetriedKept DEF Basic
<1> QED BY <1>2, <1>3, <1>5, <1>6 DEF Request

LEMMA LeaseNextKept ==
    ASSUME Basic, NEW w \in Workers,
           ReadExpired(w) \/ RecoverExpired(w) \/ SelectJob(w) \/ ClaimJob(w)
    PROVE  Keeps \/ \E j \in Jobs : Grants(w, j)
<1>0. worker[w] \in GoodWorker /\ worker[w].age \in Ages
  BY DEF Basic, GoodWorker, WorkerState
<1>1. CASE ReadExpired(w)
  <2>1. ASSUME NEW pc \in {"recover", "select"}, NEW plan
        PROVE  KeepsWorker(worker[w], [Idle EXCEPT !.pc = pc, !.plan = plan])
    BY DEF KeepsWorker, Idle, HoldingPC
  <2> QED BY <1>1, <2>1, WorkerMoveKept DEF ReadExpired
<1>2. CASE RecoverExpired(w)
  <2> DEFINE written == [j \in Jobs |-> IF worker[w].plan[j] = "none" THEN jobs[j]
                                        ELSE Recovered(jobs[j], worker[w].plan[j])]
  <2>1. worker[w].plan \in [Jobs -> {"none", "queued", "cancelled", "timed_out"}]
    BY <1>0 DEF GoodWorker, WorkerState
  <2>2. \A j \in Jobs : KeepsRow(jobs[j], written[j])
    BY <2>1, RecoveredKept, SameKept DEF Basic
  <2>3. jobs' \in {jobs, written} /\ accepted' = accepted
    BY <1>2 DEF RecoverExpired
  <2>4. KeepsWorker(worker[w], [Idle EXCEPT !.pc = "select", !.age = worker[w].age])
    BY DEF KeepsWorker, Idle, HoldingPC
  <2>5. \A v \in Workers : KeepsWorker(worker[v], worker'[v])
    BY <1>2, <2>4, SameKept DEF RecoverExpired, Become, Basic
  <2> QED BY <2>2, <2>3, <2>5, SameKept DEF Keeps, Basic
<1>3. CASE SelectJob(w)
  <2>1. \A j \in Jobs : KeepsWorker(worker[w], [worker[w] EXCEPT !.pc = "claim", !.job = j])
    BY <1>0 DEF KeepsWorker, GoodWorker, WorkerState, HoldingPC
  <2> QED BY <1>0, <1>3, <2>1, SameKept, WorkerMoveKept DEF SelectJob
<1>4. CASE ClaimJob(w)
  <2> DEFINE j == worker[w].job
             row == Leased(jobs[j], w, worker[w].age)
  <2>1. j \in Jobs /\ jobs[j] \in GoodRow
    BY <1>4, HeldJob DEF ClaimJob
  <2>2. CASE Eligible(jobs[j]) /\ Consistent(row)
    <3>1. row.attempt_count = jobs[j].attempt_count + 1
      BY <2>1 DEF GoodRow, JobRow, Leased
    <3>2. jobs[j].attempt_count < MaxAttempts
      BY <2>1, <2>2, <3>1 DEF Consistent, GoodRow, JobRow
    <3>3. /\ jobs' = [jobs EXCEPT ![j] = row]
          /\ worker' = [worker EXCEPT ![w] =
                [worker[w] EXCEPT !.pc = "leased", !.attempt = row.attempt_count]]
          /\ accepted' = accepted /\ worker[w].pc = "claim"
      BY <1>4, <2>2 DEF ClaimJob, Become
    <3>4. Grants(w, j)
      BY <1>0, <2>2, <3>1, <3>2, <3>3 DEF Grants, HoldingPC
    <3> QED BY <2>1, <3>4
  <2>3. CASE ~(Eligible(jobs[j]) /\ Consistent(row))
    <3>1. UNCHANGED <<jobs, accepted>> /\ (Become(w, Idle) \/ Become(w, Down))
      BY <1>4, <2>3 DEF ClaimJob
    <3> QED BY <1>0, <3>1, SameKept, WorkerMoveKept
  <2> QED BY <2>2, <2>3
<1> QED BY <1>1, <1>2, <1>3, <1>4

LEMMA RunKept ==
    ASSUME Basic, NEW w \in Workers,
           StartJob(w) \/ ExtendForWork(w) \/ Heartbeat(w) \/ FinishWork(w)
    PROVE  Keeps
<1>0. /\ worker[w] \in GoodWorker /\ worker[w].job \in Jobs
      /\ jobs[worker[w].job] \in GoodRow /\ worker[w].age \in Ages
      /\ worker[w].pc \in HoldingPC
  BY HeldJob DEF StartJob, ExtendForWork, Heartbeat, FinishWork, HoldingPC
<1> DEFINE row == jobs[worker[w].job]
<1>1. KeepsWorker(worker[w], Down) /\ KeepsWorker(worker[w], worker[w])
  BY <1>0, SameKept
<1>2. CASE StartJob(w)
  <2>1. KeepsWorker(worker[w], [worker[w] EXCEPT !.pc = "started"])
    BY <1>0 DEF KeepsWorker, GoodWorker, WorkerState
  <2>2. Owns(w, {"leased"}) => KeepsRow(row, Started(row))
    BY <1>0, StartedKept DEF Owns, Active
  <2> QED BY <1>0, <1>1, <1>2, <2>1, <2>2, TransitionKept DEF StartJob
<1>3. CASE ExtendForWork(w)
  <2>1. KeepsWorker(worker[w],
            [worker[w] EXCEPT !.pc = "working", !.age = 0, !.beating = TRUE])
    BY <1>0 DEF KeepsWorker, GoodWorker, WorkerState
  <2>2. KeepsRow(row, Extended(row, worker[w].age))
    BY <1>0, ExtendedKept
  <2> QED BY <1>0, <1>1, <1>3, <2>1, <2>2, TransitionKept DEF ExtendForWork
<1>4. CASE Heartbeat(w)
  <2>1. KeepsWorker(worker[w], [worker[w] EXCEPT !.beating = FALSE])
    BY <1>0 DEF KeepsWorker, GoodWorker, WorkerState
  <2>2. PICK age \in 0 .. MaxAge :
            Transition(w, Owns(w, Active) /\ LeaseLive(w, age), Extended(row, age),
                       worker[w], [worker[w] EXCEPT !.beating = FALSE])
    BY <1>4 DEF Heartbeat
  <2>3. KeepsRow(row, Extended(row, age))
    BY <1>0, ExtendedKept DEF Ages
  <2> QED BY <1>0, <1>1, <2>1, <2>2, <2>3, TransitionKept
<1>5. CASE FinishWork(w)
  <2>1. \A end : KeepsWorker(worker[w], [worker[w] EXCEPT !.pc = end, !.beating = FALSE])
    BY <1>0 DEF KeepsWorker, GoodWorker, WorkerState
  <2> QED BY <1>5, <2>1, WorkerMoveKept DEF FinishWork
<1> QED BY <1>2, <1>3, <1>4, <1>5

LEMMA SettleKept ==
    ASSUME Basic, NEW w \in Workers,
           ReadCancellation(w) \/ Succeed(w) \/ Cancel(w) \/ Fail(w) \/ TimeOut(w)
    PROVE  Keeps \/ \E j \in Jobs : Accepts(w, j)
<1>0. /\ worker[w] \in GoodWorker /\ worker[w].job \in Jobs
      /\ jobs[worker[w].job] \in GoodRow /\ worker[w].pc \in HoldingPC
  BY HeldJob DEF ReadCancellation, Succeed, Cancel, Fail, TimeOut, HoldingPC
<1>1. /\ KeepsWorker(worker[w], Down) /\ KeepsWorker(worker[w], Idle)
      /\ KeepsWorker(worker[w], [worker[w] EXCEPT !.pc = "error"])
      /\ \A pc : KeepsWorker(worker[w], [worker[w] EXCEPT !.age = 0, !.pc = pc])
  <2>1. /\ KeepsWorker(worker[w], [worker[w] EXCEPT !.pc = "error"])
        /\ \A pc : KeepsWorker(worker[w], [worker[w] EXCEPT !.age = 0, !.pc = pc])
    BY <1>0 DEF KeepsWorker, GoodWorker, WorkerState
  <2> QED BY <1>0, <2>1, SameKept
<1>2. CASE ReadCancellation(w)
  BY <1>1, <1>2, WorkerMoveKept DEF ReadCancellation
<1>3. CASE Succeed(w)
  <2> DEFINE j == worker[w].job
  <2>1. CASE /\ Owns(w, {"running"}) /\ LeaseLive(w, worker[w].age)
             /\ ~jobs[j].cancel_requested
    BY <1>0, <1>3, <2>1 DEF Succeed, Accepts, Owns, LeaseLive, Write, Become, OnJob, Holding
  <2>2. CASE ~(/\ Owns(w, {"running"}) /\ LeaseLive(w, worker[w].age)
               /\ ~jobs[j].cancel_requested)
    <3>1. Become(w, [worker[w] EXCEPT !.pc = "error"]) /\ UNCHANGED <<jobs, accepted>>
      BY <1>3, <2>2 DEF Succeed
    <3> QED BY <1>1, <3>1, WorkerMoveKept
  <2> QED BY <2>1, <2>2
<1>4. ASSUME NEW outcome \in Terminal, outcome # "succeeded",
             NEW rejected, KeepsWorker(worker[w], rejected), Settle(w, outcome, rejected)
      PROVE  Keeps
  <2>1. Owns(w, Active) \in BOOLEAN
    BY DEF Owns
  <2>2. KeepsRow(jobs[worker[w].job], Closed(jobs[worker[w].job], outcome))
    BY <1>0, <1>4, ClosedKept
  <2> QED BY <1>0, <1>1, <1>4, <2>1, <2>2, TransitionKept DEF Settle
<1>5. CASE Cancel(w)
  BY <1>1, <1>4, <1>5 DEF Cancel, Terminal
<1>6. CASE Fail(w)
  BY <1>1, <1>4, <1>6 DEF Fail, Terminal
<1>7. CASE TimeOut(w)
  BY <1>1, <1>4, <1>7 DEF TimeOut, Terminal
<1> QED BY <1>2, <1>3, <1>5, <1>6, <1>7

LEMMA TickKept == Basic /\ Tick => Keeps
<1> SUFFICES ASSUME Basic, Tick PROVE Keeps
  OBVIOUS
<1>1. \A j \in Jobs : KeepsRow(jobs[j], jobs'[j])
  BY AgedRow DEF Tick, Basic, GoodRow, KeepsRow, Active
<1>2. \A w \in Workers : /\ worker'[w].pc = worker[w].pc
                         /\ worker'[w].job = worker[w].job
                         /\ worker'[w].attempt = worker[w].attempt
  BY DEF Tick, Basic, GoodWorker, WorkerState
<1> QED BY <1>1, <1>2 DEF Keeps, KeepsWorker, Tick

(* Every step of the system is of one of the three kinds.                  *)
LEMMA StepKinds ==
    ASSUME Basic, [Next]_vars
    PROVE  \/ Keeps
           \/ \E w \in Workers, j \in Jobs : Grants(w, j) \/ Accepts(w, j)
<1>1. CASE UNCHANGED vars
  BY <1>1, SameKept DEF vars, Keeps, Basic
<1>2. CASE Request
  BY <1>2, RequestKept
<1>3. CASE Tick
  BY <1>3, TickKept
<1>4. ASSUME NEW w \in Workers, Protocol(w) \/ Heartbeat(w)
      PROVE  Keeps \/ \E j \in Jobs : Grants(w, j) \/ Accepts(w, j)
  BY <1>4, LeaseNextKept, RunKept, SettleKept DEF Protocol
<1>5. ASSUME NEW w \in Workers, Crash(w) \/ Restart(w) PROVE Keeps
  <2>1. KeepsWorker(worker[w], Down) /\ KeepsWorker(worker[w], Idle)
    BY SameKept DEF Basic
  <2> QED BY <1>5, <2>1, WorkerMoveKept DEF Crash, Restart
<1> QED BY <1>1, <1>2, <1>3, <1>4, <1>5 DEF Next

-----------------------------------------------------------------------------
(* The fencing of attempts.                                                *)

Inv == Basic /\ AttemptsFence /\ AcceptedIsClosed

LEMMA FenceInit == Init => AttemptsFence /\ AcceptedIsClosed
BY DEF Init, AttemptsFence, AcceptedIsClosed, OnJob, Holding, HoldingPC, Idle,
       NoRow, Active

LEMMA GrantedRow ==
    ASSUME NEW r \in GoodRow, NEW w \in Workers, NEW age \in Ages, Eligible(r)
    PROVE  /\ Leased(r, w, age).attempt_count = r.attempt_count + 1
           /\ Leased(r, w, age).lease_owner = w
           /\ Leased(r, w, age).state = "leased"
           /\ r.attempt_count \in Nat
           /\ r.lease_owner = NoWorker
           /\ r.state \notin Active
<1>1. Consistent(r) /\ r.state = "queued"
  BY DEF GoodRow, Eligible
<1>2. r.lease_owner = NoWorker /\ r.state \notin Active
  BY <1>1 DEF Consistent, Active, Terminal
<1> QED BY <1>2 DEF GoodRow, JobRow, Leased

LEMMA AcceptedRow ==
    ASSUME NEW r \in GoodRow
    PROVE  /\ Closed(r, "succeeded").attempt_count = r.attempt_count
           /\ Closed(r, "succeeded").lease_owner = NoWorker
           /\ Closed(r, "succeeded").state = "succeeded"
           /\ r.attempt_count \in Nat
BY DEF GoodRow, JobRow, Closed

LEMMA AttemptsFenceStep == Inv /\ [Next]_vars => AttemptsFence'
<1> SUFFICES ASSUME Inv, [Next]_vars PROVE AttemptsFence'
  OBVIOUS
<1> USE DEF Inv
<1>0. /\ \A w \in Workers : worker[w] \in GoodWorker /\ worker[w].attempt \in Nat
      /\ \A j \in Jobs : jobs[j] \in GoodRow /\ jobs[j].attempt_count \in Nat
  BY DEF Basic, GoodWorker, WorkerState, GoodRow, JobRow
<1>1. CASE Keeps
  <2>1. \A j \in Jobs, w \in Workers : OnJob(w, j)' =>
            OnJob(w, j) /\ worker'[w].attempt = worker[w].attempt
    BY <1>1 DEF Keeps, KeepsWorker, OnJob, Holding
  <2>2. \A j \in Jobs : /\ jobs'[j].attempt_count = jobs[j].attempt_count
                        /\ jobs'[j].lease_owner \in {jobs[j].lease_owner, NoWorker}
    BY <1>1 DEF Keeps, KeepsRow
  <2> QED BY <2>1, <2>2 DEF AttemptsFence
<1>2. ASSUME NEW u \in Workers, NEW i \in Jobs, Grants(u, i) PROVE AttemptsFence'
  <2>1. PICK age \in Ages : jobs' = [jobs EXCEPT ![i] = Leased(jobs[i], u, age)]
    BY <1>2 DEF Grants
  <2>2. /\ jobs'[i].attempt_count = jobs[i].attempt_count + 1
        /\ jobs'[i].lease_owner = u
        /\ \A j \in Jobs \ {i} : jobs'[j] = jobs[j]
    BY <1>0, <1>2, <2>1, GrantedRow DEF Grants, Basic
  <2>3. /\ worker'[u].job = i /\ worker'[u].attempt = jobs[i].attempt_count + 1
        /\ \A w \in Workers \ {u} : worker'[w] = worker[w]
    BY <1>0, <1>2 DEF Grants, Basic, GoodWorker, WorkerState
  <2>4. \A w \in Workers, j \in Jobs : w # u => (OnJob(w, j)' <=> OnJob(w, j))
    BY <2>3 DEF OnJob, Holding
  <2>5. \A j \in Jobs : OnJob(u, j)' => j = i
    BY <2>3 DEF OnJob
  <2>6. ASSUME NEW j \in Jobs, NEW w \in Workers, OnJob(w, j)'
        PROVE  /\ worker'[w].attempt =< jobs'[j].attempt_count
               /\ jobs'[j].lease_owner = w => worker'[w].attempt = jobs'[j].attempt_count
               /\ \A v \in Workers \ {w} :
                     OnJob(v, j)' => worker'[v].attempt # worker'[w].attempt
    <3>1. CASE w = u
      <4>1. j = i
        BY <2>5, <2>6, <3>1
      <4>2. \A v \in Workers \ {u} :
                OnJob(v, i)' => worker'[v].attempt =< jobs[i].attempt_count
        BY <2>3, <2>4 DEF AttemptsFence
      <4>3. \A v \in Workers \ {u} : worker'[v].attempt \in Nat
        BY <1>0, <2>3
      <4> QED BY <1>0, <2>2, <2>3, <3>1, <4>1, <4>2, <4>3
    <3>2. CASE w # u /\ j = i
      <4>1. OnJob(w, i) /\ worker'[w].attempt = worker[w].attempt
        BY <2>3, <2>4, <2>6, <3>2
      <4>2. worker[w].attempt =< jobs[i].attempt_count
        BY <4>1 DEF AttemptsFence
      <4>3. \A v \in Workers \ {w} :
                OnJob(v, i)' => worker'[v].attempt # worker'[w].attempt
        <5>1. \A v \in Workers \ {w, u} :
                OnJob(v, i)' => worker'[v].attempt # worker'[w].attempt
          BY <2>3, <2>4, <4>1 DEF AttemptsFence
        <5>2. worker'[u].attempt # worker'[w].attempt
          BY <1>0, <2>3, <4>1, <4>2
        <5> QED BY <5>1, <5>2
      <4> QED BY <1>0, <2>2, <3>2, <4>1, <4>2, <4>3
    <3>3. CASE w # u /\ j # i
      <4>1. \A v \in Workers : OnJob(v, j)' => v # u
        BY <2>5, <3>3
      <4> QED BY <2>2, <2>3, <2>4, <2>6, <3>3, <4>1 DEF AttemptsFence
    <3> QED BY <3>1, <3>2, <3>3
  <2> QED BY <2>6 DEF AttemptsFence
<1>3. ASSUME NEW u \in Workers, NEW i \in Jobs, Accepts(u, i) PROVE AttemptsFence'
  <2>1. \A j \in Jobs : /\ jobs'[j].attempt_count = jobs[j].attempt_count
                        /\ jobs'[j].lease_owner \in {jobs[j].lease_owner, NoWorker}
    BY <1>0, <1>3, AcceptedRow DEF Accepts, Basic
  <2>2. worker'[u].pc \notin HoldingPC /\ \A w \in Workers \ {u} : worker'[w] = worker[w]
    BY <1>3 DEF Accepts, Basic, Idle, HoldingPC
  <2>3. \A j \in Jobs, w \in Workers : OnJob(w, j)' =>
            OnJob(w, j) /\ worker'[w].attempt = worker[w].attempt
    BY <2>2 DEF OnJob, Holding
  <2> QED BY <2>1, <2>3 DEF AttemptsFence
<1> QED BY <1>1, <1>2, <1>3, StepKinds

LEMMA AcceptedIsClosedStep == Inv /\ [Next]_vars => AcceptedIsClosed'
<1> SUFFICES ASSUME Inv, [Next]_vars PROVE AcceptedIsClosed'
  OBVIOUS
<1> USE DEF Inv
<1>0. /\ \A j \in Jobs : jobs[j] \in GoodRow /\ jobs[j].attempt_count \in Nat
      /\ \A j \in Jobs : accepted[j] \subseteq Nat
  BY DEF Basic, GoodRow, JobRow
<1>1. CASE Keeps
  BY <1>1 DEF Keeps, KeepsRow, AcceptedIsClosed
<1>2. ASSUME NEW u \in Workers, NEW i \in Jobs, Grants(u, i) PROVE AcceptedIsClosed'
  <2>1. PICK age \in Ages : jobs' = [jobs EXCEPT ![i] = Leased(jobs[i], u, age)]
    BY <1>2 DEF Grants
  <2>2. /\ jobs'[i].attempt_count = jobs[i].attempt_count + 1
        /\ \A j \in Jobs \ {i} : jobs'[j] = jobs[j]
    BY <1>0, <1>2, <2>1, GrantedRow DEF Grants, Basic
  <2>3. accepted' = accepted
    BY <1>2 DEF Grants
  <2>4. \A n \in accepted[i] : n =< jobs'[i].attempt_count /\ n # jobs'[i].attempt_count
    BY <1>0, <2>2 DEF AcceptedIsClosed
  <2> QED BY <2>2, <2>3, <2>4 DEF AcceptedIsClosed
<1>3. ASSUME NEW u \in Workers, NEW i \in Jobs, Accepts(u, i) PROVE AcceptedIsClosed'
  <2>1. /\ jobs'[i].attempt_count = jobs[i].attempt_count
        /\ jobs'[i].state \notin Active
        /\ \A j \in Jobs \ {i} : jobs'[j] = jobs[j] /\ accepted'[j] = accepted[j]
        /\ accepted'[i] = accepted[i] \cup {jobs[i].attempt_count}
    BY <1>0, <1>3, AcceptedRow DEF Accepts, Basic, Active
  <2> QED BY <1>0, <2>1 DEF AcceptedIsClosed
<1> QED BY <1>1, <1>2, <1>3, StepKinds

LEMMA InvAlways == Spec => []Inv
<1>1. Init => Inv
  BY BasicInit, FenceInit DEF Inv
<1>2. Inv /\ [Next]_vars => Inv'
  BY BasicNext, AttemptsFenceStep, AcceptedIsClosedStep DEF Inv
<1> QED BY <1>1, <1>2, PTL DEF Spec

(* However many processes run, recover, cancel and retry at once, two of   *)
(* them never hold the same attempt, and the owner named by a row holds    *)
(* the row's current one.                                                  *)
THEOREM AttemptsAreFenced == Spec => []AttemptsFence
BY InvAlways, PTL DEF Inv

(* An attempt whose success was committed never runs again.                *)
THEOREM AcceptedStaysClosed == Spec => []AcceptedIsClosed
BY InvAlways, PTL DEF Inv

(* A result is recorded by the owner, for its own and current attempt, in  *)
(* time, and once.                                                         *)
THEOREM ResultsAreCurrent == Spec => ResultIsCurrent
<1> DEFINE Current(j) ==
      \E w \in Workers :
          /\ OnJob(w, j) /\ ~OnJob(w, j)'
          /\ jobs[j].lease_owner = w
          /\ worker[w].attempt = jobs[j].attempt_count
          /\ Live(jobs[j], worker[w].age)
          /\ worker[w].attempt \notin accepted[j]
          /\ accepted'[j] = accepted[j] \cup {worker[w].attempt}
<1>1. ASSUME Inv, [Next]_vars, NEW j \in Jobs, accepted'[j] # accepted[j]
      PROVE  Current(j)
  <2>1. PICK u \in Workers, i \in Jobs : Accepts(u, i)
    BY <1>1, StepKinds DEF Inv, Keeps, Grants
  <2>2. i = j
    BY <1>1, <2>1 DEF Accepts, Inv, Basic
  <2>3. ~OnJob(u, j)'
    BY <1>1, <2>1 DEF Accepts, Inv, Basic, OnJob, Holding, HoldingPC, Idle
  <2>4. /\ worker[u].attempt = jobs[j].attempt_count
        /\ worker[u].attempt \notin accepted[j]
    BY <1>1, <2>1, <2>2 DEF Accepts, Inv, AttemptsFence, AcceptedIsClosed, Active
  <2>5. accepted'[j] = accepted[j] \cup {worker[u].attempt}
    BY <1>1, <2>1, <2>2, <2>4 DEF Accepts, Inv, Basic
  <2> QED BY <2>1, <2>2, <2>3, <2>4, <2>5 DEF Accepts
<1>2. Inv /\ [Next]_vars =>
        [\A j \in Jobs : accepted'[j] # accepted[j] => Current(j)]_vars
  BY <1>1
<1> QED BY <1>2, InvAlways, PTL DEF Spec, ResultIsCurrent

(* A cancellation requested of a job under lease is neither lost nor       *)
(* overtaken by a success.                                                 *)
THEOREM CancellationIsDurable == Spec => CancelIsDurable
<1> DEFINE Durable(j) ==
      jobs[j].state \in Active /\ jobs[j].cancel_requested =>
          /\ jobs'[j].cancel_requested
          /\ jobs'[j].state # "succeeded"
          /\ accepted'[j] = accepted[j]
<1>1. ASSUME Inv, [Next]_vars, NEW j \in Jobs PROVE Durable(j)
  <2>1. CASE Keeps
    BY <2>1 DEF Keeps, KeepsRow
  <2>2. ASSUME NEW u \in Workers, NEW i \in Jobs, Grants(u, i) \/ Accepts(u, i)
        PROVE  Durable(j)
    <3>1. CASE i = j
      BY <2>2, <3>1 DEF Grants, Accepts, Eligible, Active
    <3>2. CASE i # j
      <4>1. jobs'[j] = jobs[j] /\ accepted'[j] = accepted[j]
        BY <1>1, <2>2, <3>2 DEF Grants, Accepts, Inv, Basic
      <4> QED BY <4>1 DEF Active
    <3> QED BY <3>1, <3>2
  <2> QED BY <1>1, <2>1, <2>2, StepKinds DEF Inv
<1>2. Inv /\ [Next]_vars => [\A j \in Jobs : Durable(j)]_vars
  BY <1>1
<1> QED BY <1>2, InvAlways, PTL DEF Spec, CancelIsDurable

-----------------------------------------------------------------------------
(* The queue implements the fenced attempts: a lease is a grant, a success *)
(* an acceptance, and every other step revokes what it releases.           *)
THEOREM QueueImplementsFence == Spec => FenceSpec
<1>1. Init => Fence!Init
  BY DEF Init, Fence!Init, NoRow
<1>2. ASSUME Inv, [Next]_vars PROVE [Fence!Next]_Fence!fvars
  <2> USE DEF Inv
  <2>0. /\ jobs \in [Jobs -> GoodRow] /\ jobs' \in [Jobs -> GoodRow]
        /\ accepted \in [Jobs -> SUBSET (0 .. MaxAttempts)]
    BY <1>2, BasicNext DEF Basic
  <2>1. CASE Keeps
    <3>0. PICK S \in SUBSET Jobs :
              S = {j \in Jobs : jobs'[j].lease_owner # jobs[j].lease_owner}
      OBVIOUS
    <3>1. \A j \in S : jobs[j].lease_owner # NoWorker /\ jobs'[j].lease_owner = NoWorker
      BY <2>1, <3>0 DEF Keeps, KeepsRow
    <3>2. [j \in Jobs |-> jobs'[j].attempt_count] = [j \in Jobs |-> jobs[j].attempt_count]
      BY <2>1 DEF Keeps, KeepsRow
    <3>3. [j \in Jobs |-> jobs'[j].lease_owner] =
            [j \in Jobs |-> IF j \in S THEN NoWorker ELSE jobs[j].lease_owner]
      BY <3>0, <3>1
    <3>4. Fence!Revoke(S)
      BY <2>1, <3>1, <3>2, <3>3 DEF Fence!Revoke, Keeps
    <3> QED BY <3>4 DEF Fence!Next
  <2>2. ASSUME NEW u \in Workers, NEW i \in Jobs, Grants(u, i)
        PROVE  [Fence!Next]_Fence!fvars
    <3>1. PICK age \in Ages : jobs' = [jobs EXCEPT ![i] = Leased(jobs[i], u, age)]
      BY <2>2 DEF Grants
    <3>2. /\ jobs'[i].attempt_count = jobs[i].attempt_count + 1
          /\ jobs'[i].lease_owner = u
          /\ jobs[i].lease_owner = NoWorker
          /\ \A j \in Jobs \ {i} : jobs'[j] = jobs[j]
      BY <2>0, <2>2, <3>1, GrantedRow DEF Grants
    <3>3. Fence!Grant(i, u)
      BY <2>2, <3>2 DEF Fence!Grant, Grants
    <3> QED BY <3>3 DEF Fence!Next
  <2>3. ASSUME NEW u \in Workers, NEW i \in Jobs, Accepts(u, i)
        PROVE  [Fence!Next]_Fence!fvars
    <3>1. /\ jobs'[i].attempt_count = jobs[i].attempt_count
          /\ jobs'[i].lease_owner = NoWorker
          /\ jobs[i].lease_owner # NoWorker
          /\ jobs[i].attempt_count \notin accepted[i]
          /\ \A j \in Jobs \ {i} : jobs'[j] = jobs[j]
      BY <1>2, <2>0, <2>3, AcceptedRow DEF Accepts, AcceptedIsClosed, Active
    <3>2. accepted' = [accepted EXCEPT ![i] = @ \cup {jobs[i].attempt_count}]
      BY <2>3 DEF Accepts
    <3>3. Fence!Accept(i)
      BY <3>1, <3>2 DEF Fence!Accept
    <3> QED BY <3>3 DEF Fence!Next
  <2> QED BY <1>2, <2>1, <2>2, <2>3, StepKinds
<1> QED BY <1>1, <1>2, InvAlways, PTL DEF Spec, FenceSpec, Fence!Spec
=============================================================================

------------------------ MODULE ExecutionStageProofs ------------------------
(***************************************************************************)
(* Theorems about ExecutionStage, for any number of workers, other         *)
(* processes, requests, runs per stage and crashes.                        *)
(*                                                                         *)
(* The invariant speaks of two fields of a job, its state and its attempt  *)
(* count.  So every step is first shown to be one of five moves of the     *)
(* chain of versions and of those two fields; that a move keeps the        *)
(* invariant, and that it is a step of the ledger, is then a matter of a   *)
(* few lines each.                                                         *)
(***************************************************************************)
EXTENDS ExecutionStage, JobRowsProofs, SequenceTheorems, FiniteSetTheorems

USE JobRowsAssumption, ExecutionStageAssumption

(* Rows of jobs that exist.                                                *)
StageRow == {r \in GoodRow : r.state # "absent"}

Bound ==
    /\ versions \in Seq(VersionRow) /\ versions # <<>>
    /\ Current.stale => Current.status = "failed"
    /\ runs \in Seq(RunRow)
    /\ jobs \in Seq(StageRow) /\ Len(jobs) = Len(runs)
    /\ \A k \in RunIds :
          /\ runs[k].pending \in DOMAIN versions
          /\ versions[runs[k].pending] = Version(runs[k].stage, "pending")
          /\ \A i \in RunIds \ {k} : runs[i].pending # runs[k].pending

Fresh(k) == jobs[k].attempt_count = 0
Dead(k)  == Current.status = "cancelled" /\ Current.stage = runs[k].stage

(* A job has no attempt only while its version is pending, or was          *)
(* cancelled, which nothing reopens; so a job whose stage failed or timed  *)
(* out has used its attempt and cannot become active again.                *)
Chain ==
    /\ Current.status = "running" => \E k \in RunIds : OwnsRunning(k)
    /\ \A k \in RunIds :
          /\ OwnsRunning(k) => /\ Current.stage = runs[k].stage
                               /\ ~Fresh(k)
                               /\ jobs[k].state \in {"queued", "running"} \cup Failing
          /\ OwnsPending(k) => jobs[k].state \notin {"running", "succeeded"}
          /\ Fresh(k) => /\ jobs[k].state \in {"queued", "cancelled"}
                         /\ OwnsPending(k) \/ Dead(k)
          /\ jobs[k].state \in Active => OwnsCurrent(k) \/ Dead(k)

(* What a process knows of a job it found expired, and of a run it is      *)
(* about to reconcile.                                                     *)
Claimed(x) == x.run \in RunIds /\ x.state \in Failing /\ ~Fresh(x.run)
Ended(x) ==
    /\ x.run \in RunIds /\ x.state \in Failing
    /\ x.state # "cancelled" => ~Fresh(x.run) /\ jobs[x.run].state \notin Active

Holding == {"granted", "working", "failing", "settle"}
Procs ==
    /\ worker \in [Workers -> WorkerState]
    /\ \A w \in Workers :
          /\ worker[w].pc \in Holding \/ worker[w].phase = "settle"
                => worker[w].run \in RunIds
          /\ worker[w].pc = "recover" => \A x \in worker[w].known : Claimed(x)
          /\ worker[w].pc \in {"strand", "reconcile"} =>
                worker[w].phase # "lease" /\ \A x \in worker[w].known : Ended(x)
    /\ reaper \in [Reapers -> SUBSET KnownRow]
    /\ \A r \in Reapers : \A x \in reaper[r] : Claimed(x)
    /\ client \in [Clients -> RequestState]
    /\ \A c \in Clients : client[c].op # "none" => client[c].run \in RunIds
    /\ crashes \in 0 .. MaxCrashes

Inv == Bound /\ Chain /\ Procs

-----------------------------------------------------------------------------
(* The moves.                                                              *)

Kept(k) == /\ jobs'[k].state = jobs[k].state
           /\ jobs'[k].attempt_count = jobs[k].attempt_count

(* Cancelled, requeued, recovered or failed by a write to the job alone.   *)
LetGo(k) == /\ jobs'[k].attempt_count = jobs[k].attempt_count
            /\ jobs'[k].state \in {"queued"} \cup Failing
            /\ Fresh(k) => jobs'[k].state \in {"queued", "cancelled"}

Taken(k) == /\ jobs[k].state = "queued" /\ Fresh(k)
            /\ jobs'[k].state = "leased" /\ jobs'[k].attempt_count # 0

OthersKept(k) == \A i \in RunIds \ {k} : Kept(i)
SameJobs == jobs' \in Seq(StageRow) /\ Len(jobs') = Len(jobs)

JobsMove ==
    /\ UNCHANGED <<versions, runs>> /\ SameJobs
    /\ \A k \in RunIds : Kept(k) \/ LetGo(k) \/ Taken(k)

StartMove(k) ==
    /\ OwnsPending(k) /\ jobs[k].state = "leased"
    /\ versions' = Append(versions, Version(Current.stage, "running"))
    /\ jobs'[k].state = "running" /\ jobs'[k].attempt_count = jobs[k].attempt_count
    /\ OthersKept(k) /\ SameJobs /\ UNCHANGED runs

(* With its job, or from what a worker knows of the job.                   *)
CloseMove(k, version) ==
    /\ OwnsCurrent(k) /\ version \in VersionRow
    /\ version.stage = Current.stage /\ version.status \in Settled
    /\ version.stale => version.status = "failed"
    /\ versions' = Append(versions, version)
    /\ jobs'[k].attempt_count = jobs[k].attempt_count
    /\ \/ version.status = "succeeded" /\ OwnsRunning(k) /\ jobs'[k].state = "succeeded"
       \/ version.status \in Failing /\ jobs'[k].state = version.status
            /\ (Fresh(k) => version.status = "cancelled")
       \/ version.status = "cancelled" /\ Kept(k)
       \/ version.status \in Failing /\ Kept(k) /\ ~Fresh(k) /\ jobs[k].state \notin Active
    /\ OthersKept(k) /\ SameJobs /\ UNCHANGED runs

BindMove(stage, position) ==
    /\ Cardinality(RunsOf(stage)) < MaxStageRuns
    /\ runs' = Append(runs, [stage |-> stage, pending |-> position,
                             number |-> Cardinality(RunsOf(stage)) + 1])
    /\ jobs' = Append(jobs, NewRow)

ScheduleMove ==
    /\ Current.status = "pending" /\ \A k \in RunIds : ~OwnsPending(k)
    /\ BindMove(Current.stage, Len(versions))
    /\ UNCHANGED versions

OpenMove(from, to) ==
    /\ from \in Stages /\ to \in Stages
    /\ Current.stage = from
    /\ \/ Current.status = "succeeded" /\ from = "explore" /\ to = "implement"
       \/ Current.status = "succeeded" /\ from = "implement" /\ to = "verify"
       \/ Current.status \in {"failed", "timed_out"} /\ from = to
    /\ versions' = Append(versions, Version(to, "pending"))
    /\ \/ BindMove(to, Len(versions) + 1)
       \/ UNCHANGED <<runs, jobs>> /\ from = to

Move == \/ JobsMove
        \/ \E k \in RunIds : StartMove(k) \/ \E version \in VersionRow : CloseMove(k, version)
        \/ ScheduleMove
        \/ \E from, to \in Stages : OpenMove(from, to)

-----------------------------------------------------------------------------
(* Sequences of the model, as functions.                                   *)

LEMMA Chained ==
    ASSUME Bound
    PROVE  /\ Len(versions) \in Nat \ {0} /\ DOMAIN versions = 1 .. Len(versions)
           /\ \A i \in 1 .. Len(versions) : versions[i] \in VersionRow
           /\ Current \in VersionRow /\ Current = versions[Len(versions)]
           /\ Len(runs) \in Nat /\ RunIds = 1 .. Len(runs)
           /\ DOMAIN jobs = RunIds /\ Len(jobs) \in Nat
           /\ \A k \in RunIds : runs[k] \in RunRow /\ jobs[k] \in StageRow
<1> USE DEF Bound
<1>1. Len(versions) \in Nat \ {0} /\ DOMAIN versions = 1 .. Len(versions)
  BY EmptySeq, LenProperties
<1>2. \A i \in 1 .. Len(versions) : versions[i] \in VersionRow
  BY ElementOfSeq
<1>3. Current \in VersionRow /\ Current = versions[Len(versions)]
  BY <1>1, <1>2 DEF Current
<1>4. Len(runs) \in Nat /\ RunIds = 1 .. Len(runs)
  BY LenProperties DEF RunIds
<1>5. DOMAIN jobs = RunIds /\ Len(jobs) \in Nat
  BY <1>4, LenProperties
<1>6. \A k \in RunIds : runs[k] \in RunRow /\ jobs[k] \in StageRow
  BY <1>4, ElementOfSeq
<1> QED BY <1>1, <1>2, <1>3, <1>4, <1>5, <1>6

(* The versions a run owns, by position: one pending, then one running.    *)
LEMMA Owned ==
    ASSUME Bound, NEW k \in RunIds
    PROVE  /\ runs[k].pending \in 1 .. Len(versions) /\ runs[k].stage \in Stages
           /\ OwnsPending(k) <=> Len(versions) = runs[k].pending
           /\ OwnsPending(k) => Current = Version(runs[k].stage, "pending")
           /\ OwnsPending(k) => ~OwnsRunning(k)
           /\ OwnsCurrent(k) => Current.status \in {"pending", "running"}
           /\ \A i \in RunIds : OwnsCurrent(i) /\ OwnsCurrent(k) => i = k
<1>1. /\ runs[k].pending \in 1 .. Len(versions) /\ runs[k].stage \in Stages
      /\ versions[runs[k].pending] = Version(runs[k].stage, "pending")
  BY Chained DEF Bound, RunRow
<1>2. OwnsPending(k) <=> Len(versions) = runs[k].pending
  BY <1>1 DEF OwnsPending, Current, Version
<1>3. OwnsPending(k) => Current = Version(runs[k].stage, "pending")
  BY <1>1 DEF OwnsPending, Current
<1>4. OwnsPending(k) => ~OwnsRunning(k)
  BY <1>3 DEF OwnsRunning, Version
<1>5. OwnsCurrent(k) => Current.status \in {"pending", "running"}
  BY DEF OwnsCurrent, OwnsPending, OwnsRunning
<1>6. ASSUME NEW i \in RunIds, OwnsCurrent(i), OwnsCurrent(k) PROVE i = k
  <2>1. runs[i].pending \in 1 .. Len(versions)
    BY Chained DEF Bound
  <2>2. runs[i].pending = runs[k].pending
    BY SMTT(60), <1>1, <1>6, <2>1, Chained DEF OwnsCurrent, OwnsPending, OwnsRunning
  <2> QED BY <2>2 DEF Bound
<1> QED BY <1>1, <1>2, <1>3, <1>4, <1>5, <1>6

LEMMA Extended_Chain ==
    ASSUME Bound, NEW version \in VersionRow, versions' = Append(versions, version)
    PROVE  /\ versions' \in Seq(VersionRow) /\ versions' # <<>>
           /\ Len(versions') = Len(versions) + 1 /\ Current' = version
           /\ DOMAIN versions' = 1 .. Len(versions) + 1
           /\ \A i \in 1 .. Len(versions) : versions'[i] = versions[i]
<1>1. /\ versions' \in Seq(VersionRow) /\ Len(versions') = Len(versions) + 1
      /\ versions'[Len(versions) + 1] = version
      /\ \A i \in 1 .. Len(versions) : versions'[i] = versions[i]
  BY AppendProperties DEF Bound
<1>2. Current' = version
  BY <1>1 DEF Current
<1>3. DOMAIN versions' = 1 .. Len(versions) + 1
  BY <1>1, LenProperties
<1>4. versions' # <<>>
  BY <1>1, EmptySeq, Chained
<1> QED BY <1>1, <1>2, <1>3, <1>4

LEMMA CountedRuns ==
    ASSUME Bound, NEW stage
    PROVE  /\ IsFiniteSet(RunsOf(stage)) /\ Cardinality(RunsOf(stage)) \in Nat
           /\ RunsOf(stage) \subseteq RunIds
<1>1. IsFiniteSet(RunIds)
  BY Chained, FS_Interval
<1>2. RunsOf(stage) \subseteq RunIds
  BY DEF RunsOf
<1> QED BY <1>1, <1>2, FS_Subset, FS_CardinalityType

LEMMA BoundRun ==
    ASSUME Bound, NEW stage \in Stages, NEW position \in Nat \ {0},
           BindMove(stage, position)
    PROVE  /\ runs' \in Seq(RunRow) /\ jobs' \in Seq(StageRow)
           /\ Len(runs') = Len(runs) + 1 /\ Len(jobs') = Len(jobs) + 1
           /\ RunIds' = RunIds \cup {Len(runs) + 1} /\ Len(runs) + 1 \notin RunIds
           /\ \A k \in RunIds : runs'[k] = runs[k] /\ jobs'[k] = jobs[k]
           /\ runs'[Len(runs) + 1].stage = stage
           /\ runs'[Len(runs) + 1].pending = position
           /\ jobs'[Len(runs) + 1] = NewRow
<1> DEFINE run == [stage |-> stage, pending |-> position,
                   number |-> Cardinality(RunsOf(stage)) + 1]
<1>1. Cardinality(RunsOf(stage)) + 1 \in 1 .. MaxStageRuns
  BY CountedRuns DEF BindMove
<1>2. run \in RunRow
  BY <1>1 DEF RunRow
<1>3. NewRow \in StageRow
  BY NewRowGood DEF StageRow, NewRow, NoRow
<1>4. runs' = Append(runs, run) /\ jobs' = Append(jobs, NewRow)
  BY DEF BindMove
<1>5. run.stage = stage /\ run.pending = position
  OBVIOUS
<1> HIDE DEF run
<1>6. /\ runs' \in Seq(RunRow) /\ Len(runs') = Len(runs) + 1
      /\ runs'[Len(runs) + 1] = run
      /\ \A k \in 1 .. Len(runs) : runs'[k] = runs[k]
  BY <1>2, <1>4, AppendProperties DEF Bound
<1>7. /\ jobs' \in Seq(StageRow) /\ Len(jobs') = Len(jobs) + 1
      /\ jobs'[Len(jobs) + 1] = NewRow
      /\ \A k \in 1 .. Len(jobs) : jobs'[k] = jobs[k]
  BY <1>3, <1>4, AppendProperties DEF Bound
<1>8. RunIds' = 1 .. (Len(runs) + 1)
  BY <1>6, LenProperties DEF RunIds
<1>9. /\ RunIds = 1 .. Len(runs) /\ Len(runs) \in Nat /\ Len(jobs) = Len(runs)
  BY Chained DEF Bound
<1>10. RunIds' = RunIds \cup {Len(runs) + 1} /\ Len(runs) + 1 \notin RunIds
  BY <1>8, <1>9
<1> QED BY <1>5, <1>6, <1>7, <1>9, <1>10

-----------------------------------------------------------------------------
(* A move keeps the bindings and the agreement of chain and jobs.          *)

(* A version is appended and no run is bound: the bindings stand.          *)
LEMMA ExtendBound ==
    ASSUME Bound, NEW version \in VersionRow, versions' = Append(versions, version),
           version.stale => version.status = "failed", UNCHANGED runs, SameJobs
    PROVE  Bound'
<1>1. \A k \in RunIds : runs[k].pending \in 1 .. Len(versions)
  BY Chained DEF Bound
<1>2. RunIds' = RunIds
  BY DEF RunIds
<1>3. \A k \in RunIds : /\ runs[k].pending \in DOMAIN versions'
                        /\ versions'[runs[k].pending] = versions[runs[k].pending]
  BY <1>1, Extended_Chain, Chained
<1> QED BY <1>2, <1>3, Extended_Chain DEF Bound, SameJobs

(* A new run is bound to a pending version that has none.                  *)
LEMMA BindBound ==
    ASSUME Bound, NEW stage \in Stages, NEW position \in Nat \ {0},
           BindMove(stage, position),
           versions' \in Seq(VersionRow), versions' # <<>>,
           Current'.stale => Current'.status = "failed",
           position \in DOMAIN versions', versions'[position] = Version(stage, "pending"),
           \A i \in DOMAIN versions : i \in DOMAIN versions' /\ versions'[i] = versions[i],
           \A k \in RunIds : runs[k].pending # position
    PROVE  Bound'
<1> DEFINE new == Len(runs) + 1
<1>1. /\ RunIds' = RunIds \cup {new} /\ new \notin RunIds
      /\ \A k \in RunIds : runs'[k] = runs[k]
      /\ runs'[new].stage = stage /\ runs'[new].pending = position
      /\ runs' \in Seq(RunRow) /\ jobs' \in Seq(StageRow) /\ Len(jobs') = Len(runs')
  BY BoundRun DEF Bound
<1> HIDE DEF new
<1>2. ASSUME NEW k \in RunIds'
      PROVE  /\ runs'[k].pending \in DOMAIN versions'
             /\ versions'[runs'[k].pending] = Version(runs'[k].stage, "pending")
             /\ \A i \in RunIds' \ {k} : runs'[i].pending # runs'[k].pending
  <2>1. CASE k \in RunIds
    BY <1>1, <2>1 DEF Bound
  <2>2. CASE k = new
    BY <1>1, <2>2
  <2> QED BY <1>1, <2>1, <2>2
<1> QED BY <1>1, <1>2 DEF Bound

LEMMA ScheduleBound == Bound /\ ScheduleMove => Bound'
<1> SUFFICES ASSUME Bound, ScheduleMove PROVE Bound'
  OBVIOUS
<1>1. Current \in VersionRow /\ Current.status = "pending" /\ ~Current.stale
  BY Chained DEF ScheduleMove, Bound
<1>2. Current = Version(Current.stage, "pending") /\ Current.stage \in Stages
  BY <1>1 DEF VersionRow, Version
<1>3. \A k \in RunIds : runs[k].pending # Len(versions)
  BY Owned DEF ScheduleMove
<1>4. /\ versions' = versions /\ Current' = Current
      /\ BindMove(Current.stage, Len(versions))
      /\ Len(versions) \in Nat \ {0} /\ Len(versions) \in DOMAIN versions
      /\ versions[Len(versions)] = Version(Current.stage, "pending")
  BY <1>2, Chained DEF ScheduleMove, Current
<1> QED BY <1>2, <1>3, <1>4, BindBound DEF Bound

LEMMA OpenBound ==
    ASSUME Bound, NEW from \in Stages, NEW to \in Stages, OpenMove(from, to)
    PROVE  Bound'
<1>1. Version(to, "pending") \in VersionRow
  BY DEF VersionRow, Version
<1>2. versions' = Append(versions, Version(to, "pending"))
  BY DEF OpenMove
<1>3. ~Version(to, "pending").stale
  BY DEF Version
<1>4. CASE UNCHANGED <<runs, jobs>>
  BY <1>1, <1>2, <1>3, <1>4, ExtendBound DEF Bound, SameJobs
<1>5. CASE BindMove(to, Len(versions) + 1)
  <2>1. /\ versions' \in Seq(VersionRow) /\ versions' # <<>>
        /\ Len(versions') = Len(versions) + 1 /\ Current' = Version(to, "pending")
        /\ DOMAIN versions' = 1 .. Len(versions) + 1
        /\ \A i \in 1 .. Len(versions) : versions'[i] = versions[i]
    BY <1>1, <1>2, Extended_Chain
  <2>2. /\ Len(versions) + 1 \in Nat \ {0} /\ Len(versions) + 1 \in DOMAIN versions'
        /\ \A i \in DOMAIN versions : i \in DOMAIN versions' /\ versions'[i] = versions[i]
    BY <2>1, Chained
  <2>3. versions'[Len(versions) + 1] = Version(to, "pending")
    BY <2>1 DEF Current
  <2>4. \A k \in RunIds : runs[k].pending # Len(versions) + 1
    BY Owned, Chained
  <2> QED BY <1>3, <1>5, <2>1, <2>2, <2>3, <2>4, BindBound
<1> QED BY <1>4, <1>5 DEF OpenMove

LEMMA MoveBound == Bound /\ Move => Bound'
<1> SUFFICES ASSUME Bound, Move PROVE Bound'
  OBVIOUS
<1>1. CASE JobsMove
  BY <1>1 DEF JobsMove, SameJobs, Bound, Current, RunIds
<1>2. ASSUME NEW k \in RunIds, StartMove(k) PROVE Bound'
  <2>1. /\ Version(Current.stage, "running") \in VersionRow
        /\ ~Version(Current.stage, "running").stale
    BY Chained DEF VersionRow, Version
  <2> QED BY <1>2, <2>1, ExtendBound DEF StartMove
<1>3. ASSUME NEW k \in RunIds, NEW version \in VersionRow, CloseMove(k, version)
      PROVE  Bound'
  BY <1>3, ExtendBound DEF CloseMove
<1> QED BY <1>1, <1>2, <1>3, ScheduleBound, OpenBound DEF Move

(* What a run owns once a version has been appended.                       *)
LEMMA OwnedAfter ==
    ASSUME Bound, NEW version \in VersionRow, versions' = Append(versions, version),
           NEW k \in RunIds, runs'[k] = runs[k]
    PROVE  /\ Current' = version
           /\ ~OwnsPending(k)'
           /\ OwnsRunning(k)' <=> version.status = "running" /\ OwnsPending(k)
<1>1. /\ Len(versions') = Len(versions) + 1 /\ Current' = version
      /\ Len(versions) \in Nat
  BY Extended_Chain, Chained
<1>2. /\ runs[k].pending \in 1 .. Len(versions)
      /\ OwnsPending(k) <=> Len(versions) = runs[k].pending
  BY Owned
<1> QED BY <1>1, <1>2 DEF OwnsPending, OwnsRunning

LEMMA JobsChain == Bound /\ Chain /\ JobsMove => Chain'
<1> SUFFICES ASSUME Bound, Chain, JobsMove PROVE Chain'
  OBVIOUS
<1>1. RunIds' = RunIds /\ Current' = Current
  BY DEF JobsMove, RunIds, Current
<1>2. \A k \in RunIds : /\ OwnsPending(k)' <=> OwnsPending(k)
                        /\ OwnsRunning(k)' <=> OwnsRunning(k)
                        /\ OwnsCurrent(k)' <=> OwnsCurrent(k)
                        /\ Dead(k)' <=> Dead(k)
  BY <1>1 DEF JobsMove, OwnsCurrent, OwnsPending, OwnsRunning, Dead
<1>3. ASSUME NEW k \in RunIds
      PROVE  /\ OwnsRunning(k) => /\ ~Fresh(k)'
                                  /\ jobs'[k].state \in {"queued", "running"} \cup Failing
             /\ OwnsPending(k) => jobs'[k].state \notin {"running", "succeeded"}
             /\ Fresh(k)' => /\ jobs'[k].state \in {"queued", "cancelled"}
                             /\ OwnsPending(k) \/ Dead(k)
             /\ jobs'[k].state \in Active => OwnsCurrent(k) \/ Dead(k)
  <2>1. CASE Kept(k)
    BY <2>1 DEF Kept, Chain, Fresh
  <2>2. CASE LetGo(k)
    BY <2>2 DEF LetGo, Chain, Fresh, Active, Failing
  <2>3. CASE Taken(k)
    <3>1. OwnsPending(k) \/ Dead(k)
      BY <2>3 DEF Taken, Chain
    <3>2. ~OwnsRunning(k)
      BY <2>3 DEF Taken, Chain
    <3> QED BY <2>3, <3>1, <3>2 DEF Taken, Fresh, OwnsCurrent
  <2> QED BY <2>1, <2>2, <2>3 DEF JobsMove
<1>4. Current.status = "running" => \E k \in RunIds : OwnsRunning(k)
  BY DEF Chain
<1>5. \A k \in RunIds : OwnsRunning(k) => Current.stage = runs[k].stage
  BY DEF Chain
<1>6. runs' = runs
  BY DEF JobsMove
<1> QED BY <1>1, <1>2, <1>3, <1>4, <1>5, <1>6 DEF Chain

LEMMA StartChain ==
    ASSUME Bound, Chain, NEW k \in RunIds, StartMove(k)
    PROVE  Chain'
<1> DEFINE version == Version(Current.stage, "running")
<1>1. version \in VersionRow /\ version.status = "running" /\ version.stage = Current.stage
  BY Chained DEF VersionRow, Version
<1>2. versions' = Append(versions, version) /\ runs' = runs /\ RunIds' = RunIds
  BY DEF StartMove, RunIds
<1> HIDE DEF version
<1>3. \A i \in RunIds : /\ Current' = version
                        /\ ~OwnsPending(i)'
                        /\ OwnsRunning(i)' <=> OwnsPending(i)
  BY <1>1, <1>2, OwnedAfter
<1>4. OwnsPending(k) /\ \A i \in RunIds : OwnsPending(i) => i = k
  BY Owned DEF StartMove, OwnsCurrent
<1>5. Current.status = "pending" /\ Current.stage = runs[k].stage
  BY <1>4, Owned DEF Version
<1>6. ~Fresh(k)' /\ jobs'[k].state = "running"
  BY DEF StartMove, Chain, Fresh
<1>7. ASSUME NEW i \in RunIds, i # k
      PROVE  ~OwnsCurrent(i) /\ ~Dead(i) /\ ~Fresh(i)' /\ jobs'[i].state \notin Active
  <2>1. ~OwnsCurrent(i)
    BY <1>4, <1>7, Owned DEF OwnsCurrent
  <2>2. ~Dead(i)
    BY <1>5 DEF Dead
  <2>3. Kept(i)
    BY <1>7 DEF StartMove, OthersKept
  <2> QED BY <2>1, <2>2, <2>3 DEF Chain, Kept, Fresh, OwnsCurrent
<1>8. OwnsRunning(k)' /\ OwnsCurrent(k)'
  BY <1>3, <1>4 DEF OwnsCurrent
<1> QED BY <1>1, <1>2, <1>3, <1>4, <1>5, <1>6, <1>7, <1>8 DEF Chain

LEMMA CloseChain ==
    ASSUME Bound, Chain, NEW k \in RunIds, NEW version \in VersionRow,
           CloseMove(k, version)
    PROVE  Chain'
<1>1. versions' = Append(versions, version) /\ runs' = runs /\ RunIds' = RunIds
  BY DEF CloseMove, RunIds
<1>2. /\ version.status \in Settled /\ version.status # "running"
      /\ version.stage = Current.stage
  BY DEF CloseMove, Settled, Failing
<1>3. \A i \in RunIds : /\ Current' = version
                        /\ ~OwnsPending(i)' /\ ~OwnsRunning(i)'
  BY <1>1, <1>2, OwnedAfter
<1>4. OwnsCurrent(k) /\ Current.status \in {"pending", "running"}
  BY Owned DEF CloseMove
<1>5. Current.stage = runs[k].stage
  BY <1>4, Owned DEF OwnsCurrent, Version, Chain
<1>6. ASSUME NEW i \in RunIds, i # k
      PROVE  ~Fresh(i)' /\ jobs'[i].state \notin Active
  <2>1. ~OwnsCurrent(i)
    BY <1>4, <1>6, Owned
  <2>2. ~Dead(i)
    BY <1>4 DEF Dead
  <2>3. Kept(i)
    BY <1>6 DEF CloseMove, OthersKept
  <2> QED BY <2>1, <2>2, <2>3 DEF Chain, Kept, Fresh, OwnsCurrent
<1>7. Dead(k)' <=> version.status = "cancelled"
  BY <1>1, <1>2, <1>3, <1>5 DEF Dead
<1>8. Fresh(k)' <=> Fresh(k)
  BY DEF CloseMove, Fresh
<1>9. /\ Fresh(k)' => jobs'[k].state \in {"queued", "cancelled"} /\ Dead(k)'
      /\ jobs'[k].state \in Active => Dead(k)'
  <2>1. CASE version.status = "succeeded" /\ OwnsRunning(k) /\ jobs'[k].state = "succeeded"
    BY <1>8, <2>1 DEF Chain, Active
  <2>2. CASE version.status \in Failing /\ jobs'[k].state = version.status
             /\ (Fresh(k) => version.status = "cancelled")
    BY <1>7, <1>8, <2>2 DEF Active, Failing
  <2>3. CASE version.status = "cancelled" /\ Kept(k)
    BY <1>7, <1>8, <2>3 DEF Kept, Chain
  <2>4. CASE Kept(k) /\ ~Fresh(k) /\ jobs[k].state \notin Active
    BY <1>8, <2>4 DEF Kept
  <2> QED BY <2>1, <2>2, <2>3, <2>4 DEF CloseMove
<1> QED BY <1>1, <1>2, <1>3, <1>6, <1>9 DEF Chain

(* Nothing is fresh or active when a version without a run is current.     *)
LEMMA Unowned ==
    ASSUME Bound, Chain, \A k \in RunIds : ~OwnsCurrent(k), Current.status # "cancelled"
    PROVE  /\ \A k \in RunIds : ~Fresh(k) /\ jobs[k].state \notin Active
           /\ Current.status # "running"
BY DEF Chain, Dead, OwnsCurrent

LEMMA ScheduleChain == Bound /\ Chain /\ ScheduleMove => Chain'
<1> SUFFICES ASSUME Bound, Chain, ScheduleMove PROVE Chain'
  OBVIOUS
<1>0. PICK new \in Nat : new = Len(runs) + 1
  BY Chained
<1>1. /\ Current.stage \in Stages /\ Len(versions) \in Nat \ {0}
      /\ BindMove(Current.stage, Len(versions))
      /\ Current.status = "pending" /\ versions' = versions /\ Current' = Current
  BY Chained DEF ScheduleMove, VersionRow, Current
<1>2. /\ RunIds' = RunIds \cup {new} /\ new \notin RunIds
      /\ \A k \in RunIds : runs'[k] = runs[k] /\ jobs'[k] = jobs[k]
      /\ runs'[new].pending = Len(versions) /\ jobs'[new] = NewRow
  BY <1>0, <1>1, BoundRun
<1>3. \A k \in RunIds : ~OwnsPending(k) /\ ~OwnsRunning(k)
  BY <1>1 DEF ScheduleMove, OwnsRunning
<1>4. \A k \in RunIds : ~Fresh(k) /\ jobs[k].state \notin Active
  BY <1>1, <1>3, Unowned DEF OwnsCurrent
<1>5. \A k \in RunIds : /\ ~OwnsPending(k)' /\ ~OwnsRunning(k)' /\ ~Fresh(k)'
                        /\ jobs'[k].state \notin Active
  BY <1>1, <1>2, <1>3, <1>4 DEF OwnsPending, OwnsRunning, Fresh
<1>6. OwnsPending(new)' /\ ~OwnsRunning(new)'
  BY <1>1, <1>2 DEF OwnsPending, OwnsRunning
<1>7. jobs'[new].state = "queued"
  BY <1>2 DEF NewRow, NoRow
<1> QED BY <1>1, <1>2, <1>5, <1>6, <1>7 DEF Chain, Active

LEMMA OpenChain ==
    ASSUME Bound, Chain, NEW from \in Stages, NEW to \in Stages, OpenMove(from, to)
    PROVE  Chain'
<1> DEFINE version == Version(to, "pending")
<1>1. version \in VersionRow /\ version.status = "pending"
  BY DEF VersionRow, Version
<1>2. versions' = Append(versions, version)
  BY DEF OpenMove
<1> HIDE DEF version
<1>3. Current.status \notin {"pending", "running", "cancelled"}
  BY DEF OpenMove
<1>4. \A k \in RunIds : ~Fresh(k) /\ jobs[k].state \notin Active
  BY <1>3, Owned, Unowned
<1>5. \A k \in RunIds : runs'[k] = runs[k] =>
            Current' = version /\ ~OwnsPending(k)' /\ ~OwnsRunning(k)'
  BY <1>1, <1>2, <1>3, Owned, OwnedAfter DEF OwnsCurrent
<1>6. CASE UNCHANGED <<runs, jobs>>
  <2>1. RunIds' = RunIds /\ Current' = version
    BY <1>1, <1>2, <1>6, Extended_Chain DEF RunIds
  <2> QED BY <1>1, <1>4, <1>5, <1>6, <2>1 DEF Chain, Fresh
<1>7. CASE BindMove(to, Len(versions) + 1)
  <2>0. PICK new \in Nat : new = Len(runs) + 1
    BY Chained
  <2>1. Len(versions) + 1 \in Nat \ {0}
    BY Chained
  <2>2. /\ RunIds' = RunIds \cup {new}
        /\ \A k \in RunIds : runs'[k] = runs[k] /\ jobs'[k] = jobs[k]
        /\ runs'[new].pending = Len(versions) + 1 /\ jobs'[new] = NewRow
    BY <1>7, <2>0, <2>1, BoundRun
  <2>3. \A k \in RunIds : /\ ~OwnsPending(k)' /\ ~OwnsRunning(k)' /\ ~Fresh(k)'
                          /\ jobs'[k].state \notin Active
    BY <1>4, <1>5, <2>2 DEF Fresh
  <2>4. Len(versions') = Len(versions) + 1 /\ Current' = version
    BY <1>1, <1>2, Extended_Chain
  <2>5. OwnsPending(new)' /\ ~OwnsRunning(new)'
    BY <1>1, <2>2, <2>4 DEF OwnsPending, OwnsRunning
  <2>6. jobs'[new].state = "queued"
    BY <2>2 DEF NewRow, NoRow
  <2> QED BY <1>1, <2>2, <2>3, <2>4, <2>5, <2>6 DEF Chain, Active
<1> QED BY <1>6, <1>7 DEF OpenMove

LEMMA MoveChain == Bound /\ Chain /\ Move => Chain'
BY JobsChain, StartChain, CloseChain, ScheduleChain, OpenChain DEF Move

(* No move takes back an attempt, or gives a second one.                   *)
LEMMA MoveKeepsAttempts ==
    ASSUME Bound, Chain, Move
    PROVE  /\ RunIds \subseteq RunIds'
           /\ \A k \in RunIds : ~Fresh(k) => ~Fresh(k)'
           /\ \A k \in RunIds : ~Fresh(k) /\ jobs[k].state \notin Active
                                 => jobs'[k].state \notin Active
<1>1. CASE JobsMove
  BY <1>1 DEF JobsMove, Kept, LetGo, Taken, Fresh, Active, Failing, RunIds
<1>2. ASSUME NEW j \in RunIds,
             StartMove(j) \/ \E version \in VersionRow : CloseMove(j, version)
      PROVE  /\ RunIds' = RunIds
             /\ \A k \in RunIds :
                   /\ jobs'[k].attempt_count = jobs[k].attempt_count
                   /\ jobs[k].state \notin Active => jobs'[k].state \notin Active
  <2>1. RunIds' = RunIds /\ OthersKept(j)
    BY <1>2 DEF StartMove, CloseMove, RunIds
  <2>2. jobs'[j].attempt_count = jobs[j].attempt_count
    BY <1>2 DEF StartMove, CloseMove
  <2>3. jobs[j].state \notin Active => jobs'[j].state \notin Active
    BY <1>2 DEF StartMove, CloseMove, Kept, Active, Failing
  <2> QED BY <2>1, <2>2, <2>3 DEF OthersKept, Kept
<1>3. ASSUME NEW stage \in Stages, NEW position \in Nat \ {0}, BindMove(stage, position)
      PROVE  RunIds \subseteq RunIds' /\ \A k \in RunIds : jobs'[k] = jobs[k]
  BY <1>3, BoundRun
<1>4. CASE ScheduleMove
  BY <1>3, <1>4, Chained DEF ScheduleMove, Fresh, VersionRow
<1>5. ASSUME NEW from \in Stages, NEW to \in Stages, OpenMove(from, to)
      PROVE  RunIds \subseteq RunIds' /\ \A k \in RunIds : jobs'[k] = jobs[k]
  BY <1>3, <1>5, Chained DEF OpenMove, RunIds
<1> QED BY <1>1, <1>2, <1>4, <1>5 DEF Move, Fresh

-----------------------------------------------------------------------------
(* Writes to jobs.                                                         *)

LEMMA WrittenJob ==
    ASSUME Bound, NEW k \in RunIds, NEW row \in StageRow, WriteJob(k, row)
    PROVE  /\ SameJobs /\ jobs'[k] = row
           /\ OthersKept(k)
<1>1. k \in 1 .. Len(jobs) /\ jobs \in Seq(StageRow) /\ RunIds = 1 .. Len(jobs)
  BY Chained DEF Bound
<1>2. /\ jobs' \in Seq(StageRow) /\ Len(jobs') = Len(jobs) /\ jobs'[k] = row
      /\ \A j \in RunIds \ {k} : jobs'[j] = jobs[j]
  BY <1>1, ExceptSeq DEF WriteJob
<1> QED BY <1>2 DEF SameJobs, OthersKept, Kept

(* Fields of the rows a write yields.                                      *)
LEMMA RowsWritten ==
    ASSUME NEW row \in StageRow
    PROVE  /\ row \in JobRow /\ Consistent(row)
           /\ row.attempt_count \in {0, 1}
           /\ row.state \in Active => Started(row) \in StageRow
           /\ Started(row).state = "running" /\ Started(row).attempt_count = row.attempt_count
           /\ \A age \in Ages : /\ row.state \in Active => Extended(row, age) \in StageRow
                                /\ Extended(row, age).state = row.state
                                /\ Extended(row, age).attempt_count = row.attempt_count
           /\ \A outcome \in Terminal : /\ Closed(row, outcome) \in StageRow
                 /\ Closed(row, outcome).state = outcome
                 /\ Closed(row, outcome).attempt_count = row.attempt_count
           /\ \A d \in Failing : Recovered(row, d) \in JobRow
                 /\ Recovered(row, d).state = d
                 /\ Recovered(row, d).attempt_count = row.attempt_count
<1>1. row \in JobRow /\ Consistent(row) /\ row \in GoodRow
  BY DEF StageRow, GoodRow
<1>2. row.attempt_count \in {0, 1}
  BY <1>1 DEF JobRow
<1>3. /\ row.state \in Active => Started(row) \in StageRow
      /\ Started(row).state = "running" /\ Started(row).attempt_count = row.attempt_count
  <2>1. /\ Started(row).state = "running" /\ Started(row).attempt_count = row.attempt_count
    BY <1>1 DEF Started, JobRow
  <2> QED BY <1>1, <2>1, StartedRow DEF StageRow
<1>4. ASSUME NEW age \in Ages
      PROVE  /\ row.state \in Active => Extended(row, age) \in StageRow
             /\ Extended(row, age).state = row.state
             /\ Extended(row, age).attempt_count = row.attempt_count
  <2>1. /\ Extended(row, age).state = row.state
        /\ Extended(row, age).attempt_count = row.attempt_count
    BY <1>1 DEF Extended, JobRow
  <2> QED BY <1>1, <2>1, ExtendedRow DEF StageRow
<1>5. ASSUME NEW outcome \in Terminal
      PROVE  /\ Closed(row, outcome) \in StageRow
             /\ Closed(row, outcome).state = outcome
             /\ Closed(row, outcome).attempt_count = row.attempt_count
  <2>1. /\ Closed(row, outcome).state = outcome
        /\ Closed(row, outcome).attempt_count = row.attempt_count
    BY <1>1 DEF Closed, JobRow
  <2> QED BY <1>1, <2>1, ClosedRow DEF StageRow, Terminal
<1>6. ASSUME NEW d \in Failing
      PROVE  /\ Recovered(row, d) \in JobRow
             /\ Recovered(row, d).state = d
             /\ Recovered(row, d).attempt_count = row.attempt_count
  BY <1>1, Times DEF Recovered, JobRow, Failing, States, Terminal
<1> QED BY <1>1, <1>2, <1>3, <1>4, <1>5, <1>6

LEMMA RowsRequested ==
    ASSUME NEW row \in StageRow, NEW flag \in BOOLEAN
    PROVE  /\ CancelRequested(row, flag) \in JobRow
           /\ CancelRequested(row, flag).attempt_count = row.attempt_count
           /\ CancelRequested(row, flag).state = IF flag THEN "cancelled" ELSE row.state
           /\ ~flag => CancelRequested(row, flag) \in StageRow
           /\ Retried(row, flag, Now) \in JobRow
           /\ Retried(row, flag, Now).attempt_count = row.attempt_count
           /\ Retried(row, flag, Now).state = "queued"
<1>1. row \in JobRow /\ Consistent(row) /\ row.state # "absent"
  BY DEF StageRow, GoodRow
<1>2. /\ CancelRequested(row, flag) \in JobRow
      /\ Retried(row, flag, Now) \in JobRow
  BY <1>1, CancelRequestedRow, RetriedRow, Times
<1>3. /\ CancelRequested(row, flag).attempt_count = row.attempt_count
      /\ CancelRequested(row, flag).state = IF flag THEN "cancelled" ELSE row.state
  BY <1>1 DEF CancelRequested, JobRow
<1>4. ~flag => CancelRequested(row, flag) \in StageRow
  BY <1>1, <1>2 DEF CancelRequested, Consistent, StageRow, GoodRow, JobRow
<1>5. /\ Retried(row, flag, Now).attempt_count = row.attempt_count
      /\ Retried(row, flag, Now).state = "queued"
  BY <1>1 DEF Retried, JobRow
<1> QED BY <1>2, <1>3, <1>4, <1>5

LEMMA OneJobMoves ==
    ASSUME Bound, UNCHANGED <<versions, runs>>,
           NEW k \in RunIds, NEW row \in StageRow, WriteJob(k, row),
           \/ row.state = jobs[k].state /\ row.attempt_count = jobs[k].attempt_count
           \/ /\ row.attempt_count = jobs[k].attempt_count
              /\ row.state \in {"queued"} \cup Failing
              /\ Fresh(k) => row.state \in {"queued", "cancelled"}
           \/ /\ jobs[k].state = "queued" /\ Fresh(k)
              /\ row.state = "leased" /\ row.attempt_count # 0
    PROVE  JobsMove
<1>1. SameJobs /\ jobs'[k] = row /\ OthersKept(k)
  BY WrittenJob
<1>2. Kept(k) \/ LetGo(k) \/ Taken(k)
  BY <1>1 DEF Kept, LetGo, Taken
<1> QED BY <1>1, <1>2 DEF JobsMove, OthersKept

LEMMA StillMoves == Bound /\ UNCHANGED <<versions, runs, jobs>> => JobsMove
BY Chained DEF JobsMove, SameJobs, Kept, Bound

(* recover_expired, in one commit.                                         *)
LEMMA RecoveryMoves ==
    ASSUME Bound, NEW known, \A x \in known : Claimed(x), Accepted(known),
           jobs' = Written(known), UNCHANGED <<versions, runs>>
    PROVE  /\ JobsMove
           /\ \A x \in known : jobs'[x.run].state \in Failing
<1>1. \A k \in RunIds : jobs[k] \in StageRow /\ Consistent(jobs'[k])
  BY Chained DEF Accepted
<1>2. ASSUME NEW k \in RunIds, \A x \in known : x.run # k
      PROVE  jobs'[k] = jobs[k]
  BY <1>2 DEF Written
<1>3. ASSUME NEW k \in RunIds, NEW x \in known, x.run = k
      PROVE  /\ jobs'[k] \in StageRow /\ jobs'[k].state \in Failing
             /\ jobs'[k].attempt_count = jobs[k].attempt_count /\ ~Fresh(k)
  <2> DEFINE y == CHOOSE y \in known : y.run = k
  <2>1. y \in known /\ y.run = k
    BY <1>3
  <2>2. jobs'[k] = Recovered(jobs[k], y.state)
    BY <1>3 DEF Written
  <2>3. y.state \in Failing /\ ~Fresh(k)
    BY <2>1 DEF Claimed
  <2> HIDE DEF y
  <2>4. /\ jobs'[k] \in JobRow /\ jobs'[k].state = y.state
        /\ jobs'[k].attempt_count = jobs[k].attempt_count
    BY <1>1, <2>2, <2>3, RowsWritten
  <2> QED BY <1>1, <2>3, <2>4 DEF StageRow, GoodRow, Failing
<1>4. \A k \in RunIds : jobs'[k] \in StageRow /\ (Kept(k) \/ LetGo(k))
  BY <1>1, <1>2, <1>3 DEF Kept, LetGo
<1>5. RunIds = 1 .. Len(jobs) /\ Len(jobs) \in Nat
  BY Chained DEF Bound
<1>6. jobs' \in [1 .. Len(jobs) -> StageRow]
  BY <1>4, <1>5 DEF Written
<1>7. jobs' \in Seq(StageRow) /\ Len(jobs') = Len(jobs)
  BY <1>5, <1>6
<1>8. \A x \in known : jobs'[x.run].state \in Failing
  BY <1>3 DEF Claimed
<1> QED BY <1>4, <1>7, <1>8 DEF JobsMove, SameJobs

-----------------------------------------------------------------------------
(* Every step is a move.                                                   *)

LEMMA CoordinatorMoves == Inv /\ Coordinator => Move
<1> SUFFICES ASSUME Inv, Coordinator PROVE Move
  OBVIOUS
<1>1. Bound
  BY DEF Inv
<1>2. CASE ScheduleCurrent
  BY <1>2 DEF ScheduleCurrent, MayRun, Schedule, BindMove, ScheduleMove, OwnsPending, Move
<1>3. CASE Advance("explore", "implement")
  <2>1. Current.stage = "explore" /\ Current.status = "succeeded"
    BY <1>3 DEF Advance, Version
  <2>2. OpenMove("explore", "implement")
    BY <1>3, <2>1 DEF Advance, OpenMove, Extend, MayRun, Schedule, BindMove, Stages
  <2> QED BY <2>2 DEF Move, Stages
<1>4. CASE Advance("implement", "verify")
  <2>1. Current.stage = "implement" /\ Current.status = "succeeded"
    BY <1>4 DEF Advance, Version
  <2>2. OpenMove("implement", "verify")
    BY <1>4, <2>1 DEF Advance, OpenMove, Extend, MayRun, Schedule, BindMove, Stages
  <2> QED BY <2>2 DEF Move, Stages
<1>5. CASE RestoreVerification
  <2>1. Current.stage = "verify" /\ Current.status = "failed"
    BY <1>5 DEF RestoreVerification, Version
  <2>2. OpenMove("verify", "verify")
    BY <1>5, <2>1 DEF RestoreVerification, OpenMove, Extend, MayRun, Schedule, BindMove,
                      Stages
  <2> QED BY <2>2 DEF Move, Stages
<1>6. ASSUME NEW k \in RunIds, PrepareRetry(k) PROVE Move
  <2>1. Current.stage \in Stages
    BY <1>1, Chained DEF VersionRow
  <2>2. OpenMove(Current.stage, Current.stage)
    BY <1>6, <2>1 DEF PrepareRetry, OpenMove, Extend
  <2> QED BY <2>1, <2>2 DEF Move
<1> QED BY <1>2, <1>3, <1>4, <1>5, <1>6
        DEF Coordinator, AcceptChangeSet, ScheduleVerification

LEMMA RequestMoves == Inv /\ Request => Move
<1> SUFFICES ASSUME Inv, Request PROVE Move
  OBVIOUS
<1>1. Bound /\ Chain /\ Procs
  BY DEF Inv
<1>2. ASSUME NEW c \in Clients, NEW k \in RunIds, ReadForCancel(c, k) \/ ReadForRetry(c, k)
      PROVE  Move
  BY <1>1, <1>2, StillMoves DEF ReadForCancel, ReadForRetry, Move
<1>3. ASSUME NEW c \in Clients, client[c].op # "none"
      PROVE  /\ client[c].run \in RunIds /\ client[c].flag \in BOOLEAN
             /\ jobs[client[c].run] \in StageRow
  BY <1>1, <1>3, Chained DEF Procs, RequestState
<1>4. ASSUME NEW c \in Clients, CancelJob(c) \/ RetryJob(c) PROVE Move
  <2> DEFINE k == client[c].run
             row == IF client[c].op = "cancel_job"
                    THEN CancelRequested(jobs[k], client[c].flag)
                    ELSE Retried(jobs[k], client[c].flag, Now)
  <2>1. /\ client[c].op # "none" /\ CommitJob(c, row)
    BY <1>4 DEF CancelJob, RetryJob
  <2>2. k \in RunIds /\ client[c].flag \in BOOLEAN /\ jobs[k] \in StageRow
    BY <1>3, <2>1
  <2>3. /\ row \in JobRow /\ row.attempt_count = jobs[k].attempt_count
        /\ row.state \in {jobs[k].state, "queued", "cancelled"}
    BY <2>2, RowsRequested
  <2> HIDE DEF row
  <2>4. CASE Consistent(row)
    <3>1. row \in StageRow
      BY <2>2, <2>3, <2>4 DEF StageRow, GoodRow
    <3>2. WriteJob(k, row) /\ UNCHANGED <<versions, runs>>
      BY <2>1, <2>4 DEF CommitJob
    <3>3. JobsMove
      BY <1>1, <2>2, <2>3, <3>1, <3>2, OneJobMoves DEF Failing
    <3> QED BY <3>3 DEF Move
  <2>5. CASE ~Consistent(row)
    BY <1>1, <2>1, <2>5, StillMoves DEF CommitJob, Move
  <2> QED BY <2>4, <2>5
<1>5. ASSUME NEW c \in Clients, CancelRun(c) PROVE Move
  <2> DEFINE k == client[c].run
             row == CancelRequested(jobs[k], client[c].flag)
  <2>1. k \in RunIds /\ client[c].flag \in BOOLEAN /\ jobs[k] \in StageRow
    BY <1>3, <1>5 DEF CancelRun
  <2>2. /\ row \in JobRow /\ row.attempt_count = jobs[k].attempt_count
        /\ row.state = IF client[c].flag THEN "cancelled" ELSE jobs[k].state
        /\ ~client[c].flag => row \in StageRow
    BY <2>1, RowsRequested
  <2>3. UNCHANGED runs
    BY <1>5 DEF CancelRun
  <2>4. CASE ~client[c].flag /\ WriteJob(k, row) /\ UNCHANGED versions
    BY <1>1, <2>1, <2>2, <2>3, <2>4, OneJobMoves DEF Move
  <2>5. CASE client[c].flag /\ Consistent(row) /\ OwnsPending(k)
             /\ WriteJob(k, row) /\ Close("cancelled")
    <3> DEFINE version == Version(Current.stage, "cancelled")
    <3>1. row \in StageRow /\ row.state = "cancelled"
      BY <2>2, <2>5 DEF StageRow, GoodRow
    <3>2. SameJobs /\ jobs'[k] = row /\ OthersKept(k)
      BY <1>1, <2>1, <2>5, <3>1, WrittenJob
    <3>3. /\ version \in VersionRow /\ version.stage = Current.stage
          /\ version.status = "cancelled" /\ ~version.stale
      BY <1>1, Chained DEF VersionRow, Version, Settled, Failing
    <3>4. versions' = Append(versions, version)
      BY <2>5 DEF Close, Extend
    <3> HIDE DEF version, row
    <3>5. CloseMove(k, version)
      BY <2>2, <2>3, <2>5, <3>1, <3>2, <3>3, <3>4 DEF CloseMove, OwnsCurrent, Settled, Failing
    <3> QED BY <2>1, <3>3, <3>5 DEF Move
  <2>6. CASE UNCHANGED <<jobs, versions>>
    BY <1>1, <2>3, <2>6, StillMoves DEF Move
  <2> QED BY <1>5, <2>4, <2>5, <2>6 DEF CancelRun
<1> QED BY <1>2, <1>4, <1>5 DEF Request

LEMMA Held ==
    ASSUME Inv, NEW w \in Workers, worker[w].pc \in Holding
    PROVE  /\ worker[w].run \in RunIds
           /\ jobs[worker[w].run] \in StageRow
           /\ Mine(w, Active) => ~Fresh(worker[w].run)
           /\ Mine(w, {"leased"}) => Mine(w, Active)
           /\ Mine(w, {"running"}) => Mine(w, Active)
<1>1. worker[w].run \in RunIds /\ jobs[worker[w].run] \in StageRow
  BY Chained DEF Inv, Procs
<1>2. Mine(w, Active) => ~Fresh(worker[w].run)
  BY <1>1 DEF Mine, Active, Inv, Chain
<1> QED BY <1>1, <1>2 DEF Mine, Active

(* A job and its version closed together.                                  *)
LEMMA ClosedTogether ==
    ASSUME Bound, NEW k \in RunIds, NEW version \in VersionRow, OwnsCurrent(k),
           version.stage = Current.stage, version.status \in Settled,
           version.stale => version.status = "failed",
           version.status = "succeeded" => OwnsRunning(k),
           Fresh(k) => version.status \in {"succeeded", "cancelled"},
           WriteJob(k, Closed(jobs[k], version.status)), Extend(version), UNCHANGED runs
    PROVE  Move
<1>1. jobs[k] \in StageRow /\ version.status \in Terminal
  BY Chained DEF Settled, Failing, Terminal
<1>2. /\ Closed(jobs[k], version.status) \in StageRow
      /\ Closed(jobs[k], version.status).state = version.status
      /\ Closed(jobs[k], version.status).attempt_count = jobs[k].attempt_count
  BY <1>1, RowsWritten
<1>3. SameJobs /\ OthersKept(k) /\ jobs'[k] = Closed(jobs[k], version.status)
  BY <1>2, WrittenJob
<1>4. CloseMove(k, version)
  BY <1>2, <1>3 DEF CloseMove, Extend, Settled, Failing
<1> QED BY <1>4 DEF Move

LEMMA PollMoves ==
    ASSUME Inv, NEW w \in Workers,
           \/ ReadExpired(w) \/ RecoverExpired(w) \/ ReadStranded(w)
           \/ Reconcile(w) \/ Reconciled(w) \/ ClaimJob(w)
    PROVE  Move
<1>1. Bound /\ Chain /\ Procs
  BY DEF Inv
<1>2. CASE UNCHANGED <<versions, runs, jobs>>
  BY <1>1, <1>2, StillMoves DEF Move
<1>3. CASE ReadExpired(w) \/ ReadStranded(w) \/ Reconciled(w)
  BY <1>2, <1>3 DEF ReadExpired, ReadStranded, Reconciled, Untouched
<1>4. CASE RecoverExpired(w)
  <2>1. \A x \in worker[w].known : Claimed(x)
    BY <1>1, <1>4 DEF RecoverExpired, Procs
  <2>2. CASE Accepted(worker[w].known)
    BY <1>1, <1>4, <2>1, <2>2, RecoveryMoves DEF RecoverExpired, Untouched, Move
  <2>3. CASE ~Accepted(worker[w].known)
    BY <1>2, <1>4, <2>3 DEF RecoverExpired, Untouched
  <2> QED BY <2>2, <2>3
<1>5. CASE Reconcile(w)
  <2>1. CASE versions' = versions
    BY <1>2, <1>5, <2>1 DEF Reconcile, Untouched
  <2>2. CASE versions' # versions
    <3>1. PICK x \in worker[w].known :
              x.state \in Failing /\ OwnsCurrent(x.run) /\ Close(x.state)
      BY <1>5, <2>2 DEF Reconcile
    <3>2. Ended(x) /\ x.run \in RunIds
      BY <1>1, <1>5 DEF Reconcile, Procs, Ended
    <3> DEFINE version == Version(Current.stage, x.state)
    <3>3. /\ version \in VersionRow /\ version.stage = Current.stage
          /\ version.status = x.state /\ ~version.stale
      BY <1>1, <3>1, Chained DEF Version, VersionRow, Settled
    <3>4. versions' = Append(versions, version) /\ jobs' = jobs /\ runs' = runs
      BY <1>5, <3>1 DEF Close, Extend, Reconcile, Untouched
    <3> HIDE DEF version
    <3>5. SameJobs /\ OthersKept(x.run) /\ Kept(x.run)
      BY <1>1, <3>4, Chained DEF SameJobs, OthersKept, Kept, Bound
    <3>6. CloseMove(x.run, version)
      BY <3>1, <3>2, <3>3, <3>4, <3>5 DEF CloseMove, Ended, Kept, Settled
    <3> QED BY <3>2, <3>3, <3>6 DEF Move
  <2> QED BY <2>1, <2>2
<1>6. CASE ClaimJob(w)
  <2>1. CASE jobs' = jobs
    BY <1>2, <1>6, <2>1 DEF ClaimJob, Untouched
  <2>2. CASE jobs' # jobs
    <3>1. PICK k \in RunIds, age \in 0 .. MaxAge :
              /\ Eligible(jobs[k]) /\ Consistent(Leased(jobs[k], w, age))
              /\ WriteJob(k, Leased(jobs[k], w, age))
      BY <1>6, <2>2 DEF ClaimJob
    <3> DEFINE row == Leased(jobs[k], w, age)
    <3>2. jobs[k] \in StageRow /\ jobs[k] \in JobRow
      BY <1>1, Chained DEF StageRow, GoodRow
    <3>3. row.state = "leased" /\ row.attempt_count = jobs[k].attempt_count + 1
      BY <3>2 DEF Leased, JobRow
    <3>4. row \in StageRow
      BY <3>1, <3>2, <3>3, LeasedRow DEF Ages, StageRow
    <3>5. jobs[k].attempt_count \in 0 .. 1 /\ row.attempt_count =< 1
      BY <3>1, <3>2 DEF JobRow, Consistent
    <3> HIDE DEF row
    <3>6. Fresh(k) /\ row.attempt_count # 0
      BY <3>3, <3>5 DEF Fresh
    <3>7. WriteJob(k, row) /\ jobs[k].state = "queued" /\ UNCHANGED <<versions, runs>>
      BY <1>6, <3>1 DEF row, Eligible, ClaimJob, Untouched
    <3>8. JobsMove
      BY <1>1, <3>3, <3>4, <3>6, <3>7, OneJobMoves
    <3> QED BY <3>8 DEF Move
  <2> QED BY <2>1, <2>2
<1> QED BY <1>3, <1>4, <1>5, <1>6

LEMMA RunMoves ==
    ASSUME Inv, NEW w \in Workers,
           \/ Begin(w) \/ Succeed(w) \/ WorkFails(w) \/ FollowUp(w) \/ FailStage(w)
           \/ Heartbeat(w) \/ TimeOut(w) \/ Settle(w)
    PROVE  Move
<1> DEFINE k == worker[w].run
<1>1. Bound /\ Chain /\ Procs
  BY DEF Inv
<1>2. CASE UNCHANGED <<versions, runs, jobs>>
  BY <1>1, <1>2, StillMoves DEF Move
<1>3. CASE FollowUp(w)
  <2>1. CASE Advance("implement", "verify")
    <3>1. Current.stage = "implement" /\ Current.status = "succeeded"
      BY <2>1 DEF Advance, Version
    <3>2. OpenMove("implement", "verify")
      BY <2>1, <3>1 DEF Advance, OpenMove, Extend, MayRun, Schedule, BindMove, Stages
    <3> QED BY <3>2 DEF Move, Stages
  <2> QED BY <1>2, <1>3, <2>1 DEF FollowUp
<1>4. CASE ~FollowUp(w) /\ ~(versions' = versions /\ jobs' = jobs)
  <2>1. /\ worker[w].pc \in Holding /\ UNCHANGED runs
    BY <1>4 DEF Begin, Succeed, WorkFails, FailStage, Heartbeat, TimeOut, Settle,
                Running, Holding, Untouched
  <2>2. /\ k \in RunIds /\ jobs[k] \in StageRow /\ (Mine(w, Active) => ~Fresh(k))
        /\ Mine(w, {"leased"}) => Mine(w, Active)
        /\ Mine(w, {"running"}) => Mine(w, Active)
    BY <2>1, Held
  <2>3. /\ Current.stage \in Stages
        /\ \A status \in Settled \cup {"running"} :
              LET v == Version(Current.stage, status)
              IN  v \in VersionRow /\ v.stage = Current.stage /\ v.status = status
                    /\ ~v.stale
    BY <1>1, Chained DEF VersionRow, Version
  <2>4. ASSUME NEW outcome \in Settled, Mine(w, {"running"}), OwnsRunning(k),
               WriteJob(k, Closed(jobs[k], outcome)), Close(outcome)
        PROVE  Move
    <3> DEFINE v == Version(Current.stage, outcome)
    <3>1. /\ v \in VersionRow /\ v.stage = Current.stage /\ v.status = outcome /\ ~v.stale
      BY <2>3
    <3>2. Extend(v)
      BY <2>4 DEF Close
    <3> HIDE DEF v
    <3> QED BY <1>1, <2>1, <2>2, <2>4, <3>1, <3>2, ClosedTogether DEF OwnsCurrent
  <2>5. CASE Begin(w)
    <3>1. /\ Mine(w, {"leased"}) /\ OwnsPending(k)
          /\ WriteJob(k, Started(jobs[k])) /\ Close("running")
      BY <1>4, <2>5 DEF Begin
    <3>2. jobs[k].state = "leased" /\ jobs[k].state \in Active
      BY <3>1 DEF Mine, Active
    <3>3. /\ Started(jobs[k]) \in StageRow /\ Started(jobs[k]).state = "running"
          /\ Started(jobs[k]).attempt_count = jobs[k].attempt_count
      BY <2>2, <3>2, RowsWritten
    <3>4. SameJobs /\ OthersKept(k) /\ jobs'[k] = Started(jobs[k])
      BY <1>1, <2>2, <3>1, <3>3, WrittenJob
    <3>5. StartMove(k)
      BY <2>1, <3>1, <3>2, <3>3, <3>4 DEF StartMove, Close, Extend
    <3> QED BY <2>2, <3>5 DEF Move
  <2>6. CASE Succeed(w)
    <3>1. /\ Mine(w, {"running"}) /\ OwnsRunning(k)
          /\ WriteJob(k, Closed(jobs[k], "succeeded")) /\ Close("succeeded")
      BY <1>4, <2>6 DEF Succeed
    <3> QED BY <2>4, <3>1 DEF Settled
  <2>7. CASE FailStage(w)
    <3>1. PICK stale \in {FALSE, Current.stage = "verify"} :
              /\ Mine(w, {"running"}) /\ OwnsRunning(k)
              /\ WriteJob(k, Closed(jobs[k], "failed"))
              /\ Extend([Version(Current.stage, "failed") EXCEPT !.stale = stale])
      BY <1>4, <2>7 DEF FailStage
    <3> DEFINE v == [Version(Current.stage, "failed") EXCEPT !.stale = stale]
    <3>2. /\ v \in VersionRow /\ v.stage = Current.stage /\ v.status = "failed"
      BY <2>3 DEF Version, VersionRow, Settled, Failing
    <3> HIDE DEF v
    <3> QED BY <1>1, <2>1, <2>2, <3>1, <3>2, ClosedTogether DEF v, OwnsCurrent, Settled, Failing
  <2>8. CASE Heartbeat(w)
    <3>1. PICK age \in 0 .. MaxAge :
              Mine(w, Active) /\ WriteJob(k, Extended(jobs[k], age)) /\ versions' = versions
      BY <1>4, <2>8 DEF Heartbeat
    <3>2. age \in Ages /\ jobs[k].state \in Active
      BY <3>1 DEF Ages, Mine
    <3>3. /\ Extended(jobs[k], age) \in StageRow
          /\ Extended(jobs[k], age).state = jobs[k].state
          /\ Extended(jobs[k], age).attempt_count = jobs[k].attempt_count
      BY <2>2, <3>2, RowsWritten
    <3>4. JobsMove
      BY <1>1, <2>1, <2>2, <3>1, <3>3, OneJobMoves
    <3> QED BY <3>4 DEF Move
  <2>9. CASE Settle(w)
    <3> DEFINE outcome == IF jobs[k].cancel_requested THEN "cancelled"
                          ELSE IF worker[w].timeout THEN "timed_out" ELSE "failed"
    <3>1. CASE Mine(w, {"leased"}) /\ WriteJob(k, Closed(jobs[k], "failed"))
               /\ versions' = versions
      <4>1. /\ Closed(jobs[k], "failed") \in StageRow
            /\ Closed(jobs[k], "failed").state = "failed"
            /\ Closed(jobs[k], "failed").attempt_count = jobs[k].attempt_count
        BY <2>2, RowsWritten DEF Terminal
      <4>2. ~Fresh(k)
        BY <2>2, <3>1
      <4>3. JobsMove
        BY <1>1, <2>1, <2>2, <3>1, <4>1, <4>2, OneJobMoves DEF Failing
      <4> QED BY <4>3 DEF Move
    <3>2. CASE Mine(w, {"running"}) /\ OwnsRunning(k)
               /\ WriteJob(k, Closed(jobs[k], outcome)) /\ Close(outcome)
      <4>1. outcome \in Settled
        BY DEF Settled, Failing
      <4> QED BY <2>4, <3>2, <4>1
    <3> QED BY <1>4, <2>9, <3>1, <3>2 DEF Settle
  <2> QED BY <1>4, <2>5, <2>6, <2>7, <2>8, <2>9 DEF WorkFails, TimeOut
<1>5. UNCHANGED runs \/ FollowUp(w)
  BY DEF Begin, Succeed, WorkFails, FailStage, Heartbeat, TimeOut, Settle, Untouched
<1> QED BY <1>2, <1>3, <1>4, <1>5

LEMMA ReaperMoves ==
    ASSUME Inv, NEW r \in Reapers, ReapRead(r) \/ ReapWrite(r)
    PROVE  Move
<1>1. Bound /\ \A x \in reaper[r] : Claimed(x)
  BY DEF Inv, Procs
<1>2. CASE jobs' = jobs
  BY <1>1, <1>2, StillMoves DEF ReapRead, ReapWrite, Move
<1>3. CASE jobs' # jobs
  BY <1>1, <1>3, RecoveryMoves DEF ReapRead, ReapWrite, Move
<1> QED BY <1>2, <1>3

LEMMA TickMoves == Inv /\ Tick => Move
<1> SUFFICES ASSUME Inv, Tick PROVE Move
  OBVIOUS
<1>1. \A k \in RunIds : jobs[k] \in StageRow /\ jobs'[k] = Aged(jobs[k])
  BY Chained DEF Inv, Tick
<1>2. \A k \in RunIds : jobs'[k] \in StageRow /\ Kept(k)
  BY <1>1, AgedRow DEF StageRow, GoodRow, Kept
<1>3. RunIds = 1 .. Len(jobs) /\ Len(jobs) \in Nat
  BY Chained DEF Inv, Bound
<1>4. jobs' \in [1 .. Len(jobs) -> StageRow]
  BY <1>2, <1>3 DEF Tick
<1>5. jobs' \in Seq(StageRow) /\ Len(jobs') = Len(jobs)
  BY <1>3, <1>4
<1> QED BY <1>2, <1>5 DEF Tick, Move, JobsMove, SameJobs

LEMMA StepsAreMoves == Inv /\ [Next]_vars => Move
<1> SUFFICES ASSUME Inv, [Next]_vars PROVE Move
  OBVIOUS
<1>1. CASE UNCHANGED vars
  BY <1>1, StillMoves DEF vars, Inv, Move
<1>2. ASSUME NEW w \in Workers, Crash(w) \/ Restart(w) PROVE Move
  BY <1>2, StillMoves DEF Crash, Restart, Untouched, Inv, Move
<1>3. ASSUME NEW w \in Workers, Protocol(w) \/ Heartbeat(w) \/ TimeOut(w) PROVE Move
  BY <1>3, PollMoves, RunMoves DEF Protocol
<1> QED BY <1>1, <1>2, <1>3, CoordinatorMoves, RequestMoves, ReaperMoves, TickMoves DEF Next

-----------------------------------------------------------------------------
(* What the processes know stays true.                                     *)

GoodWorker(w) ==
    /\ worker[w] \in WorkerState
    /\ worker[w].pc \in Holding \/ worker[w].phase = "settle" => worker[w].run \in RunIds
    /\ worker[w].pc = "recover" => \A x \in worker[w].known : Claimed(x)
    /\ worker[w].pc \in {"strand", "reconcile"} =>
          worker[w].phase # "lease" /\ \A x \in worker[w].known : Ended(x)

Sound ==
    /\ RunIds \subseteq RunIds'
    /\ \A k \in RunIds : ~Fresh(k) => ~Fresh(k)'
    /\ \A k \in RunIds : ~Fresh(k) /\ jobs[k].state \notin Active
                              => jobs'[k].state \notin Active

LEMMA KnowledgeKept ==
    ASSUME Sound, NEW x
    PROVE  (Claimed(x) => Claimed(x)') /\ (Ended(x) => Ended(x)')
BY DEF Sound, Claimed, Ended

LEMMA WorkerKept ==
    ASSUME Sound, NEW w \in Workers, GoodWorker(w), worker'[w] = worker[w]
    PROVE  GoodWorker(w)'
BY KnowledgeKept DEF Sound, GoodWorker

LEMMA ProcsByWorker ==
    Procs <=> /\ worker \in [Workers -> WorkerState]
              /\ \A w \in Workers : GoodWorker(w)
              /\ reaper \in [Reapers -> SUBSET KnownRow]
              /\ \A r \in Reapers : \A x \in reaper[r] : Claimed(x)
              /\ client \in [Clients -> RequestState]
              /\ \A c \in Clients : client[c].op # "none" => client[c].run \in RunIds
              /\ crashes \in 0 .. MaxCrashes
BY DEF Procs, GoodWorker

(* One worker moves, the other processes do not.                           *)
LEMMA WorkerMoved ==
    ASSUME Procs, Sound, NEW w \in Workers, NEW state \in WorkerState, Become(w, state),
           reaper' = reaper, client' = client, crashes' \in 0 .. MaxCrashes,
           GoodWorker(w)'
    PROVE  Procs'
<1>1. worker' \in [Workers -> WorkerState]
  BY DEF Procs, Become
<1>2. \A u \in Workers : GoodWorker(u)'
  BY WorkerKept, ProcsByWorker DEF Procs, Become
<1>3. /\ \A r \in Reapers : \A x \in reaper'[r] : Claimed(x)'
      /\ \A c \in Clients : client'[c].op # "none" => client'[c].run \in RunIds'
  BY KnowledgeKept DEF Procs, Sound
<1>4. reaper' \in [Reapers -> SUBSET KnownRow] /\ client' \in [Clients -> RequestState]
  BY DEF Procs
<1> QED BY <1>1, <1>2, <1>3, <1>4 DEF Procs, GoodWorker

LEMMA Resting ==
    /\ Idle \in WorkerState /\ Down \in WorkerState
    /\ Idle.pc = "read" /\ Idle.phase = "poll"
    /\ Down.pc = "down" /\ Down.phase = "poll"
    /\ [Idle EXCEPT !.phase = "lease"] \in WorkerState
BY DEF Idle, Down, WorkerState

(* A worker that forgets its run and what it knows.                        *)
LEMMA Rested ==
    ASSUME NEW w \in Workers, NEW state \in WorkerState, worker'[w] = state,
           state.pc \in {"read", "down", "claim", "follow"}, state.phase # "settle"
    PROVE  GoodWorker(w)'
BY DEF GoodWorker, Holding

(* A worker that goes on with its run, or turns to what is expired.        *)
LEMMA WentOn ==
    ASSUME NEW w \in Workers, NEW state \in WorkerState, worker'[w] = state,
           state.pc \in Holding \cup {"read", "claim"}, state.run \in RunIds'
    PROVE  GoodWorker(w)'
BY DEF GoodWorker, Holding

LEMMA PlannedRecovery ==
    ASSUME Inv
    PROVE  /\ Found(ExpiredJobs) \subseteq KnownRow
           /\ \A x \in Found(ExpiredJobs) : Claimed(x)
<1> SUFFICES ASSUME NEW k \in ExpiredJobs,
                    NEW x, x = [run |-> k, state |-> RecoveryOf(jobs[k])]
             PROVE  x \in KnownRow /\ Claimed(x)
  BY DEF Found
<1>1. /\ k \in RunIds /\ k \in Nat /\ jobs[k] \in StageRow /\ jobs[k].state \in Active
  BY Chained DEF Inv, ExpiredJobs, Expired
<1>2. ~Fresh(k)
  BY <1>1 DEF Inv, Chain, Active
<1>3. jobs[k].attempt_count = MaxAttempts
  BY <1>1, <1>2, RowsWritten DEF Fresh
<1>4. RecoveryOf(jobs[k]) \in Failing
  BY <1>3 DEF RecoveryOf, Failing
<1> QED BY <1>1, <1>2, <1>4 DEF KnownRow, Claimed

LEMMA FoundStranded ==
    ASSUME Inv, NEW k \in Stranded, NEW x, x = [run |-> k, state |-> jobs[k].state]
    PROVE  x \in KnownRow /\ Ended(x)
<1>1. k \in RunIds /\ k \in Nat /\ jobs[k].state \in Failing
  BY Chained DEF Inv, Stranded
<1>2. x.state # "cancelled" => ~Fresh(k)
  BY <1>1 DEF Inv, Chain, Failing
<1>3. jobs[k].state \notin Active
  BY <1>1 DEF Failing, Active
<1> QED BY <1>1, <1>2, <1>3 DEF KnownRow, Ended

LEMMA PollProcs ==
    ASSUME Inv, Sound, NEW w \in Workers,
           \/ ReadExpired(w) \/ RecoverExpired(w) \/ ReadStranded(w)
           \/ Reconcile(w) \/ Reconciled(w) \/ ClaimJob(w)
    PROVE  Procs'
<1> DEFINE s == worker[w]
<1>1. /\ Procs /\ Bound /\ s \in WorkerState /\ GoodWorker(w)
      /\ s.known \subseteq KnownRow /\ s.run \in Nat /\ s.timeout \in BOOLEAN
      /\ s.phase \in {"poll", "lease", "settle", "after"}
      /\ worker \in [Workers -> WorkerState] /\ crashes \in 0 .. MaxCrashes
  BY ProcsByWorker DEF Inv, Procs, WorkerState
<1>2. UNCHANGED <<reaper, client, crashes>>
  BY DEF ReadExpired, RecoverExpired, ReadStranded, Reconcile, Reconciled, ClaimJob, Untouched
<1>3. ASSUME NEW state \in WorkerState, Become(w, state),
             worker'[w] = state => GoodWorker(w)'
      PROVE  Procs'
  <2>1. worker'[w] = state
    BY <1>1, <1>3 DEF Become
  <2> QED BY <1>1, <1>2, <1>3, <2>1, WorkerMoved
<1>4. CASE ReadExpired(w)
  <2>1. PICK known \in SUBSET KnownRow, pc \in {"recover", "claim", "strand"} :
            /\ \A x \in known : Claimed(x)
            /\ pc # "recover" => known = {}
            /\ pc = "strand" => s.phase # "lease"
            /\ Become(w, [s EXCEPT !.known = known, !.pc = pc])
    BY <1>4, PlannedRecovery DEF ReadExpired
  <2> DEFINE state == [s EXCEPT !.known = known, !.pc = pc]
  <2>2. state \in WorkerState /\ state.pc = pc /\ state.known = known /\ state.run = s.run
        /\ state.phase = s.phase
    BY <1>1 DEF WorkerState
  <2> HIDE DEF state
  <2>3. ASSUME worker'[w] = state PROVE GoodWorker(w)'
    BY <1>1, <2>1, <2>2, <2>3, KnowledgeKept DEF GoodWorker, Holding, Sound
  <2> QED BY <1>3, <2>1, <2>2, <2>3 DEF state
<1>5. CASE RecoverExpired(w)
  <2>1. CASE Accepted(s.known)
    <3>1. jobs' = Written(s.known) /\ UNCHANGED <<versions, runs>>
          /\ \A x \in s.known : Claimed(x)
      BY <1>1, <1>5, <2>1 DEF RecoverExpired, Untouched, GoodWorker
    <3>2. \A x \in s.known : jobs'[x.run].state \in Failing
      BY <1>1, <2>1, <3>1, RecoveryMoves
    <3>3. \A x \in s.known : Ended(x)'
      BY <3>1, <3>2, KnowledgeKept DEF Claimed, Ended, Active, Failing
    <3>4. CASE s.phase = "lease"
      <4> DEFINE state == [s EXCEPT !.pc = "claim", !.known = {}]
      <4>1. state \in WorkerState /\ state.pc = "claim" /\ state.phase = "lease"
        BY <1>1, <3>4 DEF WorkerState
      <4>2. Become(w, state)
        BY <1>5, <2>1, <3>4 DEF RecoverExpired
      <4> HIDE DEF state
      <4> QED BY <1>3, <4>1, <4>2, Rested
    <3>5. CASE s.phase # "lease"
      <4> DEFINE state == [s EXCEPT !.pc = "strand"]
      <4>1. /\ state \in WorkerState /\ state.pc = "strand" /\ state.known = s.known
            /\ state.run = s.run /\ state.phase = s.phase /\ state.phase # "lease"
        BY <1>1, <3>5 DEF WorkerState
      <4>2. Become(w, state)
        BY <1>5, <2>1, <3>5 DEF RecoverExpired
      <4> HIDE DEF state
      <4>3. ASSUME worker'[w] = state PROVE GoodWorker(w)'
        BY <1>1, <3>3, <4>1, <4>3 DEF GoodWorker, Holding, Sound
      <4> QED BY <1>3, <4>1, <4>2, <4>3
    <3> QED BY <3>4, <3>5
  <2>2. CASE ~Accepted(s.known)
    BY <1>3, <1>5, <2>2, Resting, Rested DEF RecoverExpired
  <2> QED BY <2>1, <2>2
<1>6. CASE ReadStranded(w)
  <2> DEFINE found == {[run |-> k, state |-> jobs[k].state] :
                          k \in Stranded \ {x.run : x \in s.known}}
             state == [s EXCEPT !.pc = "reconcile", !.known = @ \cup found]
  <2>1. found \subseteq KnownRow /\ \A x \in found : Ended(x)
    BY FoundStranded
  <2>2. \A x \in s.known : Ended(x)
    BY <1>1, <1>6 DEF ReadStranded, GoodWorker
  <2>3. Become(w, state)
    BY <1>6 DEF ReadStranded
  <2> HIDE DEF found
  <2>4. /\ state \in WorkerState /\ state.pc = "reconcile" /\ state.run = s.run
        /\ state.known = s.known \cup found /\ state.phase = s.phase
        /\ state.phase # "lease"
    BY <1>1, <1>6, <2>1 DEF WorkerState, GoodWorker, ReadStranded
  <2> HIDE DEF state
  <2>5. ASSUME worker'[w] = state PROVE GoodWorker(w)'
    BY <1>1, <2>1, <2>2, <2>4, <2>5, KnowledgeKept DEF GoodWorker, Holding, Sound
  <2> QED BY <1>3, <2>3, <2>4, <2>5
<1>7. CASE Reconcile(w)
  <2>1. PICK x \in s.known :
            Become(w, [s EXCEPT !.known = @ \ {x}]) \/ Become(w, Down)
    BY <1>7 DEF Reconcile
  <2> DEFINE state == [s EXCEPT !.known = @ \ {x}]
  <2>2. /\ state \in WorkerState /\ state.pc = s.pc /\ state.run = s.run
        /\ state.known \subseteq s.known /\ state.phase = s.phase /\ s.pc = "reconcile"
    BY <1>1, <1>7 DEF WorkerState, Reconcile
  <2> HIDE DEF state
  <2>3. ASSUME worker'[w] = state PROVE GoodWorker(w)'
    BY <1>1, <2>2, <2>3, KnowledgeKept DEF GoodWorker, Holding, Sound
  <2>4. CASE Become(w, state)
    BY <1>3, <2>2, <2>3, <2>4
  <2>5. CASE Become(w, Down)
    BY <1>3, <2>5, Resting, Rested
  <2> QED BY <2>1, <2>4, <2>5 DEF state
<1>8. CASE Reconciled(w)
  <2>1. CASE s.phase = "poll"
    <3> DEFINE state == [Idle EXCEPT !.phase = "lease"]
    <3>1. state \in WorkerState /\ state.pc = "read" /\ state.phase = "lease"
      BY Resting DEF Idle
    <3>2. Become(w, state)
      BY <1>8, <2>1 DEF Reconciled
    <3> HIDE DEF state
    <3> QED BY <1>3, <3>1, <3>2, Rested
  <2>2. CASE s.phase = "settle"
    <3> DEFINE state == [s EXCEPT !.pc = "settle"]
    <3>1. /\ state \in WorkerState /\ state.pc = "settle" /\ state.run = s.run
          /\ s.run \in RunIds'
      BY <1>1, <2>2 DEF WorkerState, GoodWorker, Sound
    <3>2. Become(w, state)
      BY <1>8, <2>2 DEF Reconciled
    <3> HIDE DEF state
    <3> QED BY <1>3, <3>1, <3>2, WentOn DEF Holding
  <2>3. CASE s.phase = "after"
    BY <1>3, <1>8, <2>3, Resting, Rested DEF Reconciled
  <2>4. s.phase # "lease"
    BY <1>1, <1>8 DEF Reconciled, GoodWorker
  <2> QED BY <1>1, <2>1, <2>2, <2>3, <2>4
<1>9. CASE ClaimJob(w)
  <2>1. CASE \E k \in RunIds : Become(w, [Idle EXCEPT !.pc = "granted", !.run = k])
    <3>1. PICK k \in RunIds : Become(w, [Idle EXCEPT !.pc = "granted", !.run = k])
      BY <2>1
    <3> DEFINE state == [Idle EXCEPT !.pc = "granted", !.run = k]
    <3>2. k \in Nat /\ k \in RunIds'
      BY <1>1, Chained DEF Sound
    <3>3. state \in WorkerState /\ state.pc = "granted" /\ state.run = k
      BY <3>2, Resting DEF Idle, WorkerState
    <3> HIDE DEF state
    <3> QED BY <1>3, <3>1, <3>2, <3>3, WentOn DEF state, Holding
  <2>2. CASE Become(w, Idle) \/ Become(w, Down)
    BY <1>3, <2>2, Resting, Rested
  <2> QED BY <1>9, <2>1, <2>2 DEF ClaimJob
<1> QED BY <1>4, <1>5, <1>6, <1>7, <1>8, <1>9

LEMMA RunProcs ==
    ASSUME Inv, Sound, NEW w \in Workers,
           \/ Begin(w) \/ Succeed(w) \/ WorkFails(w) \/ FollowUp(w) \/ FailStage(w)
           \/ Heartbeat(w) \/ TimeOut(w) \/ Settle(w)
    PROVE  Procs'
<1> DEFINE s == worker[w]
<1>1. /\ Procs /\ s \in WorkerState /\ GoodWorker(w) /\ crashes \in 0 .. MaxCrashes
      /\ worker \in [Workers -> WorkerState]
  BY ProcsByWorker DEF Inv, Procs
<1>2. UNCHANGED <<reaper, client, crashes>>
  BY DEF Begin, Succeed, WorkFails, FollowUp, FailStage, Heartbeat, TimeOut, Settle, Untouched
<1>3. FollowUp(w) \/ (s.pc \in Holding /\ s.run \in RunIds')
  BY <1>1 DEF Begin, Succeed, WorkFails, FailStage, Heartbeat, TimeOut, Settle,
              Running, Holding, GoodWorker, Sound
<1>4. ASSUME NEW state \in WorkerState, Become(w, state),
             worker'[w] = state => GoodWorker(w)'
      PROVE  Procs'
  <2>1. worker'[w] = state
    BY <1>1, <1>4 DEF Become
  <2> QED BY <1>1, <1>2, <1>4, <2>1, WorkerMoved
<1>5. CASE Become(w, Idle) \/ Become(w, Down)
  BY <1>4, <1>5, Resting, Rested
<1>6. CASE FollowUp(w)
  BY <1>5, <1>6 DEF FollowUp
<1>7. ASSUME NEW pc \in {"working", "failing"}, Become(w, [s EXCEPT !.pc = pc]),
             ~FollowUp(w)
      PROVE  Procs'
  <2> DEFINE state == [s EXCEPT !.pc = pc]
  <2>1. state \in WorkerState /\ state.pc \in Holding /\ state.run = s.run
    BY <1>1 DEF WorkerState, Holding
  <2> HIDE DEF state
  <2> QED BY <1>3, <1>4, <1>7, <2>1, WentOn DEF state
<1>8. ASSUME NEW timeout \in BOOLEAN, Interrupted(w, timeout), ~FollowUp(w)
      PROVE  Procs'
  <2> DEFINE state == [s EXCEPT !.pc = "read", !.phase = "settle", !.timeout = timeout]
  <2>1. state \in WorkerState /\ state.pc = "read" /\ state.run = s.run
    BY <1>1 DEF WorkerState
  <2>2. Become(w, state)
    BY <1>8 DEF Interrupted
  <2> HIDE DEF state
  <2> QED BY <1>3, <1>4, <1>8, <2>1, <2>2, WentOn
<1>9. CASE Become(w, [s EXCEPT !.pc = "read", !.phase = "after"])
  <2> DEFINE state == [s EXCEPT !.pc = "read", !.phase = "after"]
  <2>1. state \in WorkerState /\ state.pc = "read" /\ state.phase = "after"
    BY <1>1 DEF WorkerState
  <2> HIDE DEF state
  <2> QED BY <1>4, <1>9, <2>1, Rested DEF state
<1>10. CASE worker' = worker
  <2>1. \A u \in Workers : GoodWorker(u)'
    BY <1>1, <1>10, WorkerKept, ProcsByWorker
  <2>2. /\ \A r \in Reapers : \A x \in reaper'[r] : Claimed(x)'
        /\ \A c \in Clients : client'[c].op # "none" => client'[c].run \in RunIds'
    BY <1>1, <1>2, KnowledgeKept DEF Procs, Sound
  <2> QED BY <1>1, <1>2, <1>10, <2>1, <2>2 DEF Procs, GoodWorker
<1>11. ASSUME NEW pc \in {"follow", "read"}, Become(w, [Idle EXCEPT !.pc = pc])
       PROVE  Procs'
  <2> DEFINE state == [Idle EXCEPT !.pc = pc]
  <2>1. state \in WorkerState /\ state.pc = pc /\ state.phase = "poll"
    BY Resting DEF Idle, WorkerState
  <2> HIDE DEF state
  <2> QED BY <1>4, <1>11, <2>1, Rested DEF state
<1>12. CASE ~FollowUp(w) /\ (Begin(w) \/ FailStage(w))
  BY <1>5, <1>7, <1>8, <1>12 DEF Begin, FailStage
<1>13. CASE ~FollowUp(w) /\ Succeed(w)
  <2>1. CASE Become(w, [s EXCEPT !.pc = "failing"])
    BY <1>7, <1>13, <2>1
  <2>2. CASE ~Become(w, [s EXCEPT !.pc = "failing"])
    <3>1. PICK pc \in {"follow", "read"} : Become(w, [Idle EXCEPT !.pc = pc])
      BY <1>13, <2>2 DEF Succeed
    <3> QED BY <1>11, <3>1
  <2> QED BY <2>1, <2>2
<1>14. CASE ~FollowUp(w) /\ (WorkFails(w) \/ Heartbeat(w) \/ TimeOut(w))
  BY <1>7, <1>8, <1>10, <1>14 DEF WorkFails, Heartbeat, TimeOut
<1>15. CASE ~FollowUp(w) /\ Settle(w)
  BY <1>5, <1>9, <1>15 DEF Settle
<1> QED BY <1>6, <1>12, <1>13, <1>14, <1>15

LEMMA RequestProcs ==
    ASSUME Inv, Sound, Request
    PROVE  Procs'
<1>1. Procs /\ Bound
  BY DEF Inv
<1>2. UNCHANGED <<worker, reaper, crashes>>
  BY DEF Request, ReadForCancel, ReadForRetry, CancelJob, RetryJob, CancelRun, CommitJob
<1>3. PICK c \in Clients, request \in RequestState :
          /\ client' = [client EXCEPT ![c] = request]
          /\ request.op # "none" => request.run \in RunIds
  <2>1. CASE \E c \in Clients : CancelJob(c) \/ RetryJob(c) \/ CancelRun(c)
    <3>1. NoRequest \in RequestState /\ NoRequest.op = "none"
      BY DEF NoRequest, RequestState
    <3> QED BY <2>1, <3>1 DEF CancelJob, RetryJob, CancelRun, CommitJob, Reply
  <2>2. ASSUME NEW c \in Clients, NEW k \in RunIds, ReadForCancel(c, k)
        PROVE  \E request \in RequestState :
                  /\ client' = [client EXCEPT ![c] = request] /\ request.run \in RunIds
    <3>1. PICK op \in {"cancel_job", "cancel_run"} : client' = [client EXCEPT ![c] =
              [op |-> op, run |-> k, flag |-> jobs[k].state = "queued"]]
      BY <2>2 DEF ReadForCancel
    <3>2. k \in Nat
      BY <1>1, Chained
    <3>3. [op |-> op, run |-> k, flag |-> jobs[k].state = "queued"] \in RequestState
      BY <3>2 DEF RequestState
    <3> QED BY <3>1, <3>3
  <2>3. ASSUME NEW c \in Clients, NEW k \in RunIds, ReadForRetry(c, k)
        PROVE  \E request \in RequestState :
                  /\ client' = [client EXCEPT ![c] = request] /\ request.run \in RunIds
    <3>1. k \in Nat /\ jobs[k].cancel_requested \in BOOLEAN
      BY <1>1, Chained, RowsWritten DEF JobRow
    <3>2. [op |-> "retry_job", run |-> k, flag |-> jobs[k].cancel_requested]
              \in RequestState
      BY <3>1 DEF RequestState
    <3> QED BY <2>3, <3>2 DEF ReadForRetry
  <2> QED BY <2>1, <2>2, <2>3 DEF Request
<1>4. \A d \in Clients : client'[d].op # "none" => client'[d].run \in RunIds'
  BY <1>1, <1>3 DEF Procs, Sound
<1>5. client' \in [Clients -> RequestState]
  BY <1>1, <1>3 DEF Procs
<1>6. /\ \A u \in Workers : GoodWorker(u)'
      /\ \A r \in Reapers : \A x \in reaper'[r] : Claimed(x)'
  BY <1>1, <1>2, WorkerKept, KnowledgeKept, ProcsByWorker DEF Procs
<1> QED BY <1>1, <1>2, <1>4, <1>5, <1>6 DEF Procs, GoodWorker

LEMMA ReaperProcs ==
    ASSUME Inv, Sound, NEW r \in Reapers, ReapRead(r) \/ ReapWrite(r)
    PROVE  Procs'
<1>1. Procs
  BY DEF Inv
<1>2. PICK known \in SUBSET KnownRow :
          /\ reaper' = [reaper EXCEPT ![r] = known] /\ \A x \in known : Claimed(x)
  BY PlannedRecovery DEF ReapRead, ReapWrite
<1>3. UNCHANGED <<worker, client, crashes>>
  BY DEF ReapRead, ReapWrite
<1>4. /\ reaper' \in [Reapers -> SUBSET KnownRow]
      /\ \A p \in Reapers : \A x \in reaper'[p] : Claimed(x)'
  BY <1>1, <1>2, KnowledgeKept DEF Procs
<1>5. /\ \A u \in Workers : GoodWorker(u)'
      /\ \A c \in Clients : client'[c].op # "none" => client'[c].run \in RunIds'
  BY <1>1, <1>3, WorkerKept, ProcsByWorker DEF Procs, Sound
<1> QED BY <1>1, <1>3, <1>4, <1>5 DEF Procs, GoodWorker

(* Steps of no process: the coordinator and the clock.                     *)
LEMMA OthersProcs ==
    ASSUME Inv, Sound, UNCHANGED Others
    PROVE  Procs'
<1>1. Procs /\ UNCHANGED <<worker, reaper, client, crashes>>
  BY DEF Inv, Others
<1>2. /\ \A u \in Workers : GoodWorker(u)'
      /\ \A r \in Reapers : \A x \in reaper'[r] : Claimed(x)'
      /\ \A c \in Clients : client'[c].op # "none" => client'[c].run \in RunIds'
  BY <1>1, WorkerKept, KnowledgeKept, ProcsByWorker DEF Procs, Sound
<1> QED BY <1>1, <1>2 DEF Procs, GoodWorker

LEMMA ProcsNext == Inv /\ Sound /\ [Next]_vars => Procs'
<1> SUFFICES ASSUME Inv, Sound, [Next]_vars PROVE Procs'
  OBVIOUS
<1>1. CASE UNCHANGED vars
  BY <1>1, OthersProcs DEF vars, Others
<1>2. CASE Coordinator \/ Tick
  BY <1>2, OthersProcs DEF Coordinator, ScheduleCurrent, AcceptChangeSet,
       ScheduleVerification, RestoreVerification, PrepareRetry, Tick
<1>3. ASSUME NEW w \in Workers, Crash(w) \/ Restart(w) PROVE Procs'
  <2>1. /\ worker \in [Workers -> WorkerState] /\ crashes \in 0 .. MaxCrashes
        /\ Procs
    BY DEF Inv, Procs
  <2>2. /\ crashes' \in 0 .. MaxCrashes /\ reaper' = reaper /\ client' = client
        /\ Become(w, Idle) \/ Become(w, Down)
    BY <1>3, <2>1 DEF Crash, Restart, Untouched
  <2>3. worker'[w] = Idle \/ worker'[w] = Down
    BY <2>1, <2>2 DEF Become
  <2>4. GoodWorker(w)'
    BY <2>3, Resting, Rested
  <2> QED BY <2>1, <2>2, <2>4, Resting, WorkerMoved
<1>4. ASSUME NEW w \in Workers, Protocol(w) \/ Heartbeat(w) \/ TimeOut(w) PROVE Procs'
  BY <1>4, PollProcs, RunProcs DEF Protocol
<1> QED BY <1>1, <1>2, <1>3, <1>4, RequestProcs, ReaperProcs DEF Next

-----------------------------------------------------------------------------
LEMMA InvInit == Init => Inv
<1> SUFFICES ASSUME Init PROVE Inv
  OBVIOUS
<1> DEFINE first == Version("explore", "pending")
<1>1. first \in VersionRow /\ first.status = "pending" /\ ~first.stale
  BY DEF VersionRow, Version, Stages
<1>2. versions = <<first>> /\ runs = <<>> /\ jobs = <<>>
  BY DEF Init
<1> HIDE DEF first
<1>3. versions \in Seq(VersionRow) /\ versions # <<>> /\ Len(versions) = 1 /\ Current = first
  BY <1>1, <1>2 DEF Current
<1>4. /\ runs \in Seq(RunRow) /\ jobs \in Seq(StageRow) /\ Len(jobs) = Len(runs)
      /\ RunIds = {}
  BY <1>2, EmptySeq DEF RunIds
<1>5. Bound
  BY <1>1, <1>3, <1>4 DEF Bound
<1>6. Chain
  BY <1>1, <1>3, <1>4 DEF Chain
<1>7. Procs
  <2>1. NoRequest \in RequestState /\ NoRequest.op = "none"
    BY DEF NoRequest, RequestState
  <2>2. worker \in [Workers -> WorkerState] /\ \A w \in Workers : worker[w] = Idle
    BY Resting DEF Init
  <2>3. client \in [Clients -> RequestState] /\ \A c \in Clients : client[c].op = "none"
    BY <2>1 DEF Init
  <2> QED BY <2>2, <2>3, Resting DEF Init, Procs, Holding
<1> QED BY <1>5, <1>6, <1>7 DEF Inv

LEMMA InvNext == Inv /\ [Next]_vars => Inv'
<1> SUFFICES ASSUME Inv, [Next]_vars PROVE Inv'
  OBVIOUS
<1>1. Move /\ Bound /\ Chain
  BY StepsAreMoves DEF Inv
<1>2. Bound' /\ Chain' /\ Sound
  BY <1>1, MoveBound, MoveChain, MoveKeepsAttempts DEF Sound
<1> QED BY <1>2, ProcsNext DEF Inv

LEMMA InvAlways == Spec => []Inv
BY InvInit, InvNext, PTL DEF Spec

(* Every variable keeps its type, every run has its job, its own pending   *)
(* version and no other run's: the foreign keys and unique constraints of  *)
(* execution_stage_runs hold whatever the processes do.                    *)
THEOREM TypeCorrect == Spec => []TypeOK
<1>1. Inv => TypeOK
  <2> SUFFICES ASSUME Inv PROVE TypeOK
    OBVIOUS
  <2>1. jobs \in Seq(JobRow)
    BY SeqMonotonic DEF Inv, Bound, StageRow, GoodRow
  <2> QED BY <2>1 DEF Inv, Bound, Procs, TypeOK
<1> QED BY <1>1, InvAlways, PTL

(* The chain of stages and the jobs of its runs never contradict each      *)
(* other but in the ways ChainMatchesJobs allows, for any number of        *)
(* sandbox workers, recovering processes and requests.                     *)
THEOREM ChainAgreesWithJobs == Spec => []ChainMatchesJobs
<1>1. Inv => ChainMatchesJobs
  <2> SUFFICES ASSUME Inv PROVE ChainMatchesJobs
    OBVIOUS
  <2>1. ASSUME NEW k \in RunIds, OwnsRunning(k)
        PROVE  jobs[k].state \in {"running"} \cup Failing \/ Spent(k)
    <3>1. jobs[k].state \in {"queued", "running"} \cup Failing /\ ~Fresh(k)
      BY <2>1 DEF Inv, Chain
    <3>2. jobs[k].attempt_count = MaxAttempts
      BY <3>1, Chained, RowsWritten DEF Inv, Fresh
    <3> QED BY <3>1, <3>2 DEF Spent
  <2> QED BY <2>1 DEF Inv, Chain, ChainMatchesJobs, Dead
<1> QED BY <1>1, InvAlways, PTL

-----------------------------------------------------------------------------
(* The ledger.                                                             *)

LEMMA RunsUsed ==
    ASSUME Bound, NEW stage \in Stages, NEW position \in Nat \ {0},
           BindMove(stage, position)
    PROVE  /\ Cardinality(RunsOf(stage))' = Cardinality(RunsOf(stage)) + 1
           /\ \A s \in Stages \ {stage} : RunsOf(s)' = RunsOf(s)
<1>0. PICK new \in Nat : new = Len(runs) + 1
  BY Chained
<1>1. /\ RunIds' = RunIds \cup {new} /\ new \notin RunIds
      /\ \A k \in RunIds : runs'[k] = runs[k]
      /\ runs'[new].stage = stage
  BY <1>0, BoundRun
<1>2. RunsOf(stage)' = RunsOf(stage) \cup {new} /\ new \notin RunsOf(stage)
  BY <1>1 DEF RunsOf
<1>3. ASSUME NEW s \in Stages \ {stage} PROVE RunsOf(s)' = RunsOf(s)
  BY <1>1 DEF RunsOf
<1> QED BY ZenonT(60), <1>2, <1>3, CountedRuns, FS_AddElement

LEMMA LedgerBind ==
    ASSUME Bound, NEW stage \in Stages, NEW position \in Nat \ {0},
           BindMove(stage, position), (\E k \in RunIds : OwnsPending(k))'
    PROVE  Ledger!Bind(stage)
<1>1. PICK used \in [Stages -> Nat] :
          used = [s \in Stages |-> Cardinality(RunsOf(s))]
  BY CountedRuns
<1>2. PICK after : after = [s \in Stages |-> Cardinality(RunsOf(s)')]
  OBVIOUS
<1>3. /\ after[stage] = used[stage] + 1 /\ used[stage] < MaxStageRuns
      /\ \A s \in Stages \ {stage} : after[s] = used[s]
  BY <1>1, <1>2, RunsUsed DEF BindMove
<1>4. after = [used EXCEPT ![stage] = @ + 1]
  BY <1>1, <1>2, <1>3
<1>5. (\E k \in RunIds : OwnsPending(k))' = TRUE
  OBVIOUS
<1>6. used[stage] < MaxStageRuns
  BY <1>3
<1> QED BY <1>1, <1>2, <1>4, <1>5, <1>6, Zenon DEF Ledger!Bind

(* Every move is a step of the ledger, or no step at all.                  *)
LEMMA MoveInLedger ==
    ASSUME Bound, Bound', Move
    PROVE  [Ledger!Next]_(Ledger!lvars)
<1>1. CASE JobsMove
  <2>1. /\ RunIds' = RunIds /\ Current' = Current
        /\ \A s \in Stages : RunsOf(s)' = RunsOf(s)
        /\ \A k \in RunIds : OwnsPending(k)' <=> OwnsPending(k)
    BY <1>1 DEF JobsMove, RunIds, Current, RunsOf, OwnsPending
  <2>2. (\E k \in RunIds : OwnsPending(k))' = (\E k \in RunIds : OwnsPending(k))
    BY <2>1
  <2> QED BY <2>1, <2>2 DEF Ledger!lvars
<1>2. ASSUME NEW version \in VersionRow, versions' = Append(versions, version),
             version.stage = Current.stage, UNCHANGED runs
      PROVE  /\ Current'.stage = Current.stage /\ Current'.status = version.status
             /\ (\E k \in RunIds : OwnsPending(k))' = FALSE
             /\ [s \in Stages |-> Cardinality(RunsOf(s))]' =
                   [s \in Stages |-> Cardinality(RunsOf(s))]
  <2>1. Current' = version /\ RunIds' = RunIds
    BY <1>2, Extended_Chain DEF RunIds
  <2>2. \A k \in RunIds : ~OwnsPending(k)'
    BY <1>2, OwnedAfter
  <2>3. \A s : RunsOf(s)' = RunsOf(s)
    BY <1>2, <2>1 DEF RunsOf
  <2> QED BY <1>2, <2>1, <2>2, <2>3
<1>3. ASSUME NEW k \in RunIds, StartMove(k) PROVE Ledger!Start
  <2> DEFINE version == Version(Current.stage, "running")
  <2>1. version \in VersionRow /\ version.stage = Current.stage /\ version.status = "running"
    BY Chained DEF VersionRow, Version
  <2>2. versions' = Append(versions, version) /\ UNCHANGED runs
    BY <1>3 DEF StartMove
  <2> HIDE DEF version
  <2>3. Current.status = "pending" /\ \E j \in RunIds : OwnsPending(j)
    BY <1>3 DEF StartMove, OwnsPending
  <2> QED BY <1>2, <2>1, <2>2, <2>3, Zenon DEF Ledger!Start
<1>4. ASSUME NEW k \in RunIds, NEW version \in VersionRow, CloseMove(k, version)
      PROVE  Ledger!Close(version.status)
  <2>1. /\ versions' = Append(versions, version) /\ UNCHANGED runs
        /\ version.stage = Current.stage
    BY <1>4 DEF CloseMove
  <2>2. \/ Current.status = "running"
        \/ /\ Current.status = "pending" /\ \E j \in RunIds : OwnsPending(j)
           /\ version.status # "succeeded"
    BY <1>4 DEF CloseMove, OwnsCurrent, OwnsPending, OwnsRunning, Failing
  <2> QED BY <1>2, <2>1, <2>2, Zenon DEF Ledger!Close
<1>5. ASSUME ScheduleMove PROVE Ledger!Schedule
  <2>1. /\ Current.stage \in Stages /\ Len(versions) \in Nat \ {0}
        /\ BindMove(Current.stage, Len(versions))
        /\ Current.status = "pending" /\ Current' = Current /\ versions' = versions
    BY <1>5, Chained DEF ScheduleMove, VersionRow, Current
  <2>2. PICK new \in Nat : new = Len(runs) + 1
    BY Chained
  <2>3. new \in RunIds' /\ runs'[new].pending = Len(versions)
    BY <2>1, <2>2, BoundRun
  <2>4. OwnsPending(new)'
    BY <2>1, <2>3 DEF OwnsPending
  <2>5. Ledger!Bind(Current.stage)
    BY <2>1, <2>3, <2>4, LedgerBind
  <2>6. ~(\E k \in RunIds : OwnsPending(k))
    BY <1>5 DEF ScheduleMove
  <2> QED BY <2>1, <2>5, <2>6, Zenon DEF Ledger!Schedule
<1>6. ASSUME NEW from \in Stages, NEW to \in Stages, OpenMove(from, to)
      PROVE  Ledger!Advance \/ Ledger!Reopen
  <2> DEFINE version == Version(to, "pending")
  <2>1. version \in VersionRow /\ version.stage = to /\ version.status = "pending"
    BY DEF VersionRow, Version
  <2>2. versions' = Append(versions, version) /\ Current.stage = from
    BY <1>6 DEF OpenMove
  <2> HIDE DEF version
  <2>3. Current' = version /\ Len(versions') = Len(versions) + 1
    BY <2>1, <2>2, Extended_Chain
  <2>4. ASSUME BindMove(to, Len(versions) + 1) PROVE Ledger!Bind(to)
    <3>1. PICK new \in Nat : new = Len(runs) + 1
      BY Chained
    <3>2. Len(versions) + 1 \in Nat \ {0}
      BY Chained
    <3>3. new \in RunIds' /\ runs'[new].pending = Len(versions) + 1
      BY <2>4, <3>1, <3>2, BoundRun
    <3>4. OwnsPending(new)'
      BY <2>1, <2>3, <3>3 DEF OwnsPending
    <3> QED BY <2>4, <3>2, <3>3, <3>4, LedgerBind
  <2>5. CASE Current.status = "succeeded"
    <3>1. /\ \/ from = "explore" /\ to = "implement"
             \/ from = "implement" /\ to = "verify"
          /\ BindMove(to, Len(versions) + 1)
      BY <1>6, <2>5 DEF OpenMove
    <3>2. from \in DOMAIN Ledger!After /\ Ledger!After[from] = to
      BY <3>1 DEF Ledger!After
    <3> QED BY <2>1, <2>2, <2>3, <2>4, <2>5, <3>1, <3>2 DEF Ledger!Advance
  <2>6. CASE Current.status \in {"failed", "timed_out"} /\ from = to
    <3>1. CASE BindMove(to, Len(versions) + 1)
      BY <2>1, <2>2, <2>3, <2>4, <2>6, <3>1 DEF Ledger!Reopen
    <3>2. CASE UNCHANGED <<runs, jobs>>
      BY <1>2, <2>1, <2>2, <2>6, <3>2, Zenon DEF Ledger!Reopen
    <3> QED BY <1>6, <3>1, <3>2 DEF OpenMove
  <2> QED BY <1>6, <2>5, <2>6 DEF OpenMove
<1>7. \A version \in VersionRow : Ledger!Close(version.status) /\ version.status \in Settled
                                => Ledger!Next
  BY DEF Ledger!Next, Settled, Failing
<1>8. CASE \E k \in RunIds : StartMove(k) \/ \E version \in VersionRow : CloseMove(k, version)
  BY <1>3, <1>4, <1>7, <1>8 DEF Ledger!Next, CloseMove
<1> QED BY <1>1, <1>5, <1>6, <1>8 DEF Move, Ledger!Next

(* Whatever the workers, requests and other processes do, the chain of     *)
(* versions is a StageLedger: a run is started and closed once, a stage    *)
(* never gets more runs than its budget, only a success leads on and only  *)
(* a failure or a timeout is tried again.                                  *)
THEOREM ChainImplementsLedger == Spec => LedgerSpec
<1>1. Init => Ledger!Init
  <2> SUFFICES ASSUME Init PROVE Ledger!Init
    OBVIOUS
  <2>1. Current = Version("explore", "pending") /\ RunIds = {}
    BY DEF Init, Current, RunIds
  <2>2. (\E k \in RunIds : OwnsPending(k)) = FALSE
    BY <2>1
  <2>3. \A s \in Stages : RunsOf(s) = {} /\ Cardinality(RunsOf(s)) = 0
    BY <2>1, FS_EmptySet DEF RunsOf
  <2>4. Stages = Ledger!Stages
    BY DEF Stages, Ledger!Stages
  <2>5. Current.stage = "explore" /\ Current.status = "pending"
    BY <2>1 DEF Version
  <2> QED BY <2>2, <2>3, <2>4, <2>5 DEF Ledger!Init
<1>2. Inv /\ Inv' /\ [Next]_vars => [Ledger!Next]_(Ledger!lvars)
  BY StepsAreMoves, MoveInLedger DEF Inv
<1> QED BY <1>1, <1>2, InvAlways, PTL DEF Spec, LedgerSpec, Ledger!Spec
-----------------------------------------------------------------------------
(* What closes a version.                                                  *)

Closing == /\ Current.status \in {"pending", "running"}
           /\ Len(versions') > Len(versions)
           /\ versions'[Len(versions) + 1].status \in Settled

OwnerCloses ==
    \E k \in RunIds :
        /\ OwnsCurrent(k)
        /\ IF versions'[Len(versions) + 1].status = "succeeded"
           THEN \E w \in Workers :
                   /\ jobs[k].lease_owner = w /\ jobs[k].lease_expires_at > -MaxAge
                   /\ worker[w].pc = "working" /\ worker[w].run = k
                   /\ ~jobs[k].cancel_requested /\ jobs'[k].state = "succeeded"
           ELSE \/ jobs'[k].state \in Failing
                \/ \E w \in Workers : \E x \in worker[w].known : x.run = k

(* All but the reconciliation of what a worker knows close the version     *)
(* together with the job.                                                  *)
JobCloses ==
    \E k \in RunIds :
        /\ OwnsCurrent(k)
        /\ IF versions'[Len(versions) + 1].status = "succeeded"
           THEN \E w \in Workers :
                   /\ jobs[k].lease_owner = w /\ jobs[k].lease_expires_at > -MaxAge
                   /\ worker[w].pc = "working" /\ worker[w].run = k
                   /\ ~jobs[k].cancel_requested /\ jobs'[k].state = "succeeded"
           ELSE jobs'[k].state \in Failing

LEMMA JobClosesForOwner == JobCloses => OwnerCloses
BY DEF JobCloses, OwnerCloses

LEMMA ClosesAs ==
    ASSUME Bound, NEW version \in VersionRow, Extend(version)
    PROVE  versions'[Len(versions) + 1] = version
BY Extended_Chain DEF Current, Extend

LEMMA OpensNothingClosed ==
    ASSUME Bound, NEW stage \in Stages, NEW status \in {"pending", "running"},
           Extend(Version(stage, status))
    PROVE  ~Closing
<1>1. Version(stage, status) \in VersionRow /\ Version(stage, status).status = status
  BY DEF Version, VersionRow
<1> QED BY <1>1, ClosesAs DEF Closing, Settled, Failing

(* A job written with its failing version: the run is the version's own.   *)
LEMMA ClosesWithJob ==
    ASSUME Bound, NEW k \in RunIds, NEW version \in VersionRow, OwnsCurrent(k),
           NEW row \in StageRow, WriteJob(k, row), Extend(version),
           version.status \in Failing, row.state \in Failing
    PROVE  JobCloses
<1>1. jobs'[k] = row
  BY WrittenJob
<1>2. versions'[Len(versions) + 1].status # "succeeded"
  BY ClosesAs DEF Failing
<1> QED BY <1>1, <1>2 DEF JobCloses

LEMMA CoordinatorClosesNothing ==
    ASSUME Inv, Coordinator
    PROVE  ~Closing
<1>1. Bound /\ Current.stage \in Stages
  BY Chained DEF Inv, VersionRow
<1>2. ASSUME NEW from, NEW to \in Stages, Advance(from, to) PROVE ~Closing
  BY <1>1, <1>2, OpensNothingClosed DEF Advance
<1>3. CASE ScheduleCurrent
  BY <1>1, <1>3, Chained DEF ScheduleCurrent, Closing
<1>4. CASE RestoreVerification
  BY <1>1, <1>4, OpensNothingClosed DEF RestoreVerification, Stages
<1>5. CASE \E k \in RunIds : PrepareRetry(k)
  BY <1>1, <1>5, OpensNothingClosed DEF PrepareRetry
<1> QED BY <1>2, <1>3, <1>4, <1>5 DEF Coordinator, AcceptChangeSet,
           ScheduleVerification, Stages

LEMMA RequestCloses ==
    ASSUME Inv, Request, versions' # versions
    PROVE  JobCloses
<1>1. Bound /\ Procs
  BY DEF Inv
<1>2. PICK c \in Clients : CancelRun(c)
  BY DEF Request, ReadForCancel, ReadForRetry, CancelJob, RetryJob, CommitJob
<1> DEFINE k == client[c].run
           row == CancelRequested(jobs[k], client[c].flag)
<1>3. /\ client[c].flag /\ Consistent(row) /\ OwnsPending(k)
      /\ WriteJob(k, row) /\ Close("cancelled") /\ client[c].op = "cancel_run"
  BY <1>2 DEF CancelRun
<1>4. k \in RunIds /\ jobs[k] \in StageRow /\ client[c].flag \in BOOLEAN
  BY <1>1, <1>3, Chained DEF Procs, RequestState
<1>5. row \in StageRow /\ row.state = "cancelled"
  BY <1>3, <1>4, RowsRequested DEF CancelRequested, StageRow, GoodRow, JobRow
<1>6. /\ Version(Current.stage, "cancelled") \in VersionRow
      /\ Version(Current.stage, "cancelled").status = "cancelled"
      /\ Extend(Version(Current.stage, "cancelled"))
  BY <1>1, <1>3, Chained DEF Version, VersionRow, Settled, Failing, Close
<1> HIDE DEF k, row
<1> QED BY <1>1, <1>3, <1>4, <1>5, <1>6, ClosesWithJob DEF OwnsCurrent, Failing

LEMMA ReconcileCloses ==
    ASSUME Inv, NEW w \in Workers, Reconcile(w), versions' # versions
    PROVE  OwnerCloses
<1>1. Bound /\ Procs
  BY DEF Inv
<1>2. PICK x \in worker[w].known :
          x.state \in Failing /\ OwnsCurrent(x.run) /\ Close(x.state)
  BY DEF Reconcile
<1>3. x.run \in RunIds
  BY <1>1 DEF Reconcile, Procs, Ended
<1>4. versions'[Len(versions) + 1] = Version(Current.stage, x.state)
  <2>1. Version(Current.stage, x.state) \in VersionRow
    BY <1>1, <1>2, Chained DEF Version, VersionRow, Settled
  <2> QED BY <1>1, <1>2, <2>1, ClosesAs DEF Close
<1>5. versions'[Len(versions) + 1].status # "succeeded"
  BY <1>2, <1>4 DEF Version, Failing
<1> QED BY <1>2, <1>3, <1>5 DEF OwnerCloses

LEMMA RunCloses ==
    ASSUME Inv, NEW w \in Workers, Closing,
           Begin(w) \/ Succeed(w) \/ FailStage(w) \/ Settle(w)
    PROVE  JobCloses
<1> DEFINE k == worker[w].run
<1>1. Bound /\ worker[w].pc \in Holding
  BY DEF Inv, Begin, Succeed, FailStage, Settle, Holding
<1>2. k \in RunIds /\ jobs[k] \in StageRow
  BY <1>1, Held
<1>3. versions' # versions
  BY <1>1, Chained DEF Closing
<1>4. /\ Current.stage \in Stages
      /\ \A status \in Settled : LET v == Version(Current.stage, status)
                                 IN  v \in VersionRow /\ v.status = status
  BY <1>1, Chained DEF VersionRow, Version
<1>5. \A outcome \in Settled : /\ Closed(jobs[k], outcome) \in StageRow
                               /\ Closed(jobs[k], outcome).state = outcome
  BY <1>2, RowsWritten DEF Settled, Failing, Terminal
<1>6. CASE Begin(w)
  BY <1>1, <1>3, <1>4, <1>6, OpensNothingClosed DEF Begin, Close
<1>7. CASE Succeed(w)
  <2>1. PICK age \in 0 .. MaxAge :
            /\ Mine(w, {"running"}) /\ Live(jobs[k], age)
            /\ ~jobs[k].cancel_requested /\ OwnsRunning(k)
            /\ WriteJob(k, Closed(jobs[k], "succeeded")) /\ Close("succeeded")
    BY <1>3, <1>7 DEF Succeed
  <2>2. jobs'[k].state = "succeeded"
    BY <1>1, <1>2, <1>5, <2>1, WrittenJob DEF Settled
  <2>3. versions'[Len(versions) + 1].status = "succeeded"
    BY <1>1, <1>4, <2>1, ClosesAs DEF Close, Settled
  <2>4. jobs[k].lease_expires_at > -MaxAge
    BY <1>2, <2>1 DEF Live, StageRow, GoodRow, JobRow
  <2>5. jobs[k].lease_owner = w /\ worker[w].pc = "working"
    BY <1>7, <2>1 DEF Mine, Succeed
  <2> QED BY <1>2, <2>1, <2>2, <2>3, <2>4, <2>5 DEF JobCloses, OwnsCurrent
<1>8. CASE FailStage(w)
  <2>1. PICK stale \in {FALSE, Current.stage = "verify"} :
            /\ OwnsRunning(k) /\ WriteJob(k, Closed(jobs[k], "failed"))
            /\ Extend([Version(Current.stage, "failed") EXCEPT !.stale = stale])
    BY <1>3, <1>8 DEF FailStage
  <2> DEFINE v == [Version(Current.stage, "failed") EXCEPT !.stale = stale]
  <2>2. v \in VersionRow /\ v.status = "failed"
    BY <1>4 DEF Version, VersionRow, Settled, Failing
  <2> HIDE DEF v
  <2> QED BY <1>1, <1>2, <1>5, <2>1, <2>2, ClosesWithJob
          DEF v, OwnsCurrent, Settled, Failing
<1>9. CASE Settle(w)
  <2>1. PICK outcome \in Failing :
            OwnsRunning(k) /\ WriteJob(k, Closed(jobs[k], outcome)) /\ Close(outcome)
    BY <1>3, <1>9 DEF Settle, Failing
  <2>2. OwnsCurrent(k) /\ outcome \in Settled
    BY <2>1 DEF OwnsCurrent, Settled
  <2> QED BY <1>1, <1>2, <1>4, <1>5, <2>1, <2>2, ClosesWithJob DEF Close
<1> QED BY <1>6, <1>7, <1>8, <1>9

LEMMA ClosedWithItsJob ==
    ASSUME Inv, Next, Closing, \A w \in Workers : ~Reconcile(w)
    PROVE  JobCloses
<1>1. versions' # versions
  BY Chained DEF Inv, Closing
<1>2. CASE Coordinator
  BY <1>2, CoordinatorClosesNothing
<1>3. CASE Request
  BY <1>1, <1>3, RequestCloses
<1>4. CASE \E r \in Reapers : ReapRead(r) \/ ReapWrite(r)
  BY <1>1, <1>4 DEF ReapRead, ReapWrite
<1>5. CASE Tick
  BY <1>1, <1>5 DEF Tick
<1>6. ASSUME NEW w \in Workers,
             Protocol(w) \/ Heartbeat(w) \/ TimeOut(w) \/ Crash(w) \/ Restart(w)
      PROVE  JobCloses
  <2>1. CASE Begin(w) \/ Succeed(w) \/ FailStage(w) \/ Settle(w)
    BY <2>1, RunCloses
  <2>2. CASE FollowUp(w)
    <3>1. Extend(Version("verify", "pending"))
      BY <1>1, <2>2 DEF FollowUp, Advance
    <3> QED BY <3>1, OpensNothingClosed DEF Inv, Stages
  <2> QED BY <1>1, <1>6, <2>1, <2>2 DEF Protocol, ReadExpired, RecoverExpired,
             ReadStranded, Reconciled, ClaimJob, WorkFails, Heartbeat, TimeOut,
             Crash, Restart
<1> QED BY <1>2, <1>3, <1>4, <1>5, <1>6 DEF Next

(* Whoever closes an open version does so for the run the version is bound *)
(* to: a success over a live lease and no cancellation, anything else with *)
(* the job or for a job known to have ended.                               *)
THEOREM ClosedForItsRun == Spec => ClosedByOwner
<1>1. ASSUME Inv, Next, Closing PROVE OwnerCloses
  <2>1. versions' # versions
    BY <1>1, Chained DEF Inv, Closing
  <2>2. CASE \E w \in Workers : Reconcile(w)
    BY <1>1, <2>1, <2>2, ReconcileCloses
  <2>3. CASE \A w \in Workers : ~Reconcile(w)
    BY <1>1, <2>3, ClosedWithItsJob, JobClosesForOwner
  <2> QED BY <2>2, <2>3
<1>2. Inv /\ [Next]_vars => [Closing => OwnerCloses]_vars
  BY <1>1
<1>3. Spec => [][Closing => OwnerCloses]_vars
  BY <1>2, InvAlways, PTL DEF Spec
<1> QED BY <1>3, PTL DEF ClosedByOwner, Closing, OwnerCloses

-----------------------------------------------------------------------------
(* One worker.  A version may be closed under a running job only by a      *)
(* worker that reconciles what it knew of the job before; a single worker  *)
(* begins nothing meanwhile, and nobody else makes a job active.           *)

Quiet(w) == worker[w].pc \in {"strand", "reconcile"} =>
                \A x \in worker[w].known : jobs[x.run].state \notin Active

Calm == \A w \in Workers : Quiet(w)

NoneActivated == \A k \in RunIds : /\ k \in RunIds'
                                   /\ jobs[k].state \notin Active => jobs'[k].state \notin Active

LEMMA OneWrite ==
    ASSUME Bound, runs' = runs, NEW k \in RunIds, NEW row, WriteJob(k, row),
           row.state \in {jobs[k].state, "queued"} \cup Failing
    PROVE  NoneActivated
<1>1. /\ DOMAIN jobs = RunIds /\ RunIds' = RunIds
      /\ \A i \in RunIds : jobs'[i] = IF i = k THEN row ELSE jobs[i]
  BY Chained DEF WriteJob, RunIds
<1> QED BY <1>1 DEF NoneActivated, Active, Failing

LEMMA NothingWritten == UNCHANGED <<runs, jobs>> => NoneActivated
BY DEF NoneActivated, RunIds

LEMMA CoordinatorActivates == Inv /\ Coordinator => NoneActivated
<1> SUFFICES ASSUME Inv, Coordinator PROVE NoneActivated
  OBVIOUS
<1>1. Bound
  BY DEF Inv
<1>2. ASSUME NEW stage, NEW position, Schedule(stage, position)
      PROVE  NoneActivated
  <2> DEFINE run == [stage |-> stage, pending |-> position,
                     number |-> Cardinality(RunsOf(stage)) + 1]
  <2>1. runs' = Append(runs, run) /\ jobs' = Append(jobs, NewRow)
    BY <1>2 DEF Schedule
  <2> HIDE DEF run
  <2>2. /\ DOMAIN runs' = 1 .. Len(runs) + 1
        /\ \A k \in 1 .. Len(jobs) : jobs'[k] = jobs[k]
    BY <1>1, <2>1 DEF Bound
  <2>3. RunIds = 1 .. Len(runs) /\ Len(jobs) = Len(runs) /\ Len(runs) \in Nat
    BY <1>1, Chained DEF Bound
  <2> QED BY <2>2, <2>3 DEF NoneActivated, RunIds
<1>3. CASE \E k \in RunIds : PrepareRetry(k)
  BY <1>3, NothingWritten DEF PrepareRetry
<1> QED BY <1>2, <1>3 DEF Coordinator, ScheduleCurrent, AcceptChangeSet, ScheduleVerification,
           RestoreVerification, Advance

LEMMA RequestActivates == Inv /\ Request => NoneActivated
<1> SUFFICES ASSUME Inv, Request PROVE NoneActivated
  OBVIOUS
<1>1. Bound /\ Procs
  BY DEF Inv
<1>2. PICK c \in Clients : \/ \E k \in RunIds : ReadForCancel(c, k) \/ ReadForRetry(c, k)
                           \/ CancelJob(c) \/ CancelRun(c) \/ RetryJob(c)
  BY DEF Request
<1>3. CASE UNCHANGED <<runs, jobs>>
  BY <1>3, NothingWritten
<1>4. CASE CancelJob(c) \/ CancelRun(c) \/ RetryJob(c)
  <2> DEFINE k == client[c].run
  <2>1. /\ k \in RunIds /\ client[c].flag \in BOOLEAN /\ jobs[k] \in StageRow /\ runs' = runs
    BY <1>1, <1>4, Chained
       DEF CancelJob, CancelRun, RetryJob, CommitJob, Procs, RequestState
  <2>2. CASE ~(jobs' = jobs)
    <3>1. PICK row \in {CancelRequested(jobs[k], client[c].flag),
                        Retried(jobs[k], client[c].flag, Now)} : WriteJob(k, row)
      BY <1>4, <2>2 DEF CancelJob, CancelRun, RetryJob, CommitJob
    <3>2. row.state \in {jobs[k].state, "queued", "cancelled"}
      BY <2>1, <3>1, RowsRequested
    <3> QED BY <1>1, <2>1, <3>1, <3>2, OneWrite DEF Failing
  <2> QED BY <2>1, <2>2, NothingWritten
<1> QED BY <1>2, <1>3, <1>4 DEF ReadForCancel, ReadForRetry

LEMMA OtherActivates ==
    ASSUME Inv, Tick \/ \E r \in Reapers : ReapRead(r) \/ ReapWrite(r)
    PROVE  NoneActivated
<1>1. Bound /\ Procs /\ runs' = runs
  BY DEF Inv, Tick, ReapRead, ReapWrite
<1>2. CASE Tick
  <2>1. \A k \in RunIds : jobs[k] \in JobRow /\ jobs'[k] = Aged(jobs[k])
    BY <1>1, <1>2, Chained DEF Tick, StageRow, GoodRow
  <2>2. \A k \in RunIds : jobs'[k].state = jobs[k].state
    BY <2>1, AgedRow
  <2> QED BY <1>1, <2>2 DEF NoneActivated, RunIds
<1>3. ASSUME NEW r \in Reapers, ReapRead(r) \/ ReapWrite(r)
      PROVE  NoneActivated
  <2>1. CASE jobs' = jobs
    BY <1>1, <2>1, NothingWritten
  <2>2. CASE jobs' # jobs
    <3> DEFINE known == reaper[r]
    <3>1. /\ Accepted(known) /\ jobs' = Written(known) /\ UNCHANGED <<versions, runs>>
          /\ \A x \in known : Claimed(x)
      BY <1>1, <1>3, <2>2 DEF ReapRead, ReapWrite, Procs
    <3> HIDE DEF known
    <3>2. \A x \in known : jobs'[x.run].state \in Failing
      BY <1>1, <3>1, RecoveryMoves
    <3>3. \A k \in RunIds : jobs'[k] = jobs[k] \/ \E x \in known : x.run = k
      BY <3>1 DEF Written
    <3> QED BY <1>1, <3>2, <3>3 DEF NoneActivated, RunIds, Failing, Active
  <2> QED BY <2>1, <2>2
<1> QED BY <1>2, <1>3

(* What every other process does leaves the worker's knowledge true.       *)
LEMMA CalmStays ==
    ASSUME Inv, Calm, NoneActivated, worker' = worker
    PROVE  Calm'
<1> SUFFICES ASSUME NEW w \in Workers, worker[w].pc \in {"strand", "reconcile"},
                    NEW x \in worker[w].known
             PROVE  jobs'[x.run].state \notin Active
  BY DEF Calm, Quiet
<1>1. x.run \in RunIds /\ jobs[x.run].state \notin Active
  BY DEF Inv, Procs, Ended, Calm, Quiet
<1> QED BY <1>1 DEF NoneActivated

(* What the worker itself does, while nobody else is at work.              *)
LEMMA CalmWorker ==
    ASSUME Inv, Calm, \A u, v \in Workers : u = v, NEW w \in Workers,
           Protocol(w) \/ Heartbeat(w) \/ TimeOut(w) \/ Crash(w) \/ Restart(w)
    PROVE  Calm'
<1>1. Bound /\ Procs /\ worker \in [Workers -> WorkerState] /\ worker[w] \in WorkerState
  BY DEF Inv, Procs
<1>2. Calm' <=> Quiet(w)'
  BY DEF Calm
<1>3. ASSUME NEW state, Become(w, state), state.pc \notin {"strand", "reconcile"}
      PROVE  Quiet(w)'
  BY <1>1, <1>3 DEF Become, Quiet
<1>4. Idle.pc = "read" /\ Down.pc = "down"
  BY Resting
<1>5. \A pc, phase, known, timeout :
         /\ [worker[w] EXCEPT !.pc = pc].pc = pc
         /\ [worker[w] EXCEPT !.pc = pc, !.phase = phase].pc = pc
         /\ [worker[w] EXCEPT !.pc = pc, !.phase = phase, !.timeout = timeout].pc = pc
         /\ [worker[w] EXCEPT !.pc = pc, !.known = known].pc = pc
         /\ [worker[w] EXCEPT !.pc = pc, !.known = known].known = known
         /\ [worker[w] EXCEPT !.known = known, !.pc = pc].pc = pc
         /\ [worker[w] EXCEPT !.known = known, !.pc = pc].known = known
         /\ [worker[w] EXCEPT !.pc = pc].known = worker[w].known
         /\ [worker[w] EXCEPT !.known = known].known = known
         /\ [Idle EXCEPT !.pc = pc].pc = pc
         /\ \A run : [Idle EXCEPT !.pc = pc, !.run = run].pc = pc
         /\ [Idle EXCEPT !.phase = phase].pc = "read"
  BY <1>1 DEF WorkerState, Idle
<1>6. CASE ReadExpired(w)
  <2>1. PICK known, pc : /\ Become(w, [worker[w] EXCEPT !.known = known, !.pc = pc])
                         /\ pc = "recover" \/ known = {}
    BY <1>6 DEF ReadExpired
  <2>2. worker'[w] = [worker[w] EXCEPT !.known = known, !.pc = pc]
    BY <1>1, <2>1 DEF Become
  <2>3. worker'[w].pc = pc /\ worker'[w].known = known
    BY <1>5, <2>2
  <2> QED BY <1>2, <2>1, <2>3 DEF Quiet
<1>7. CASE RecoverExpired(w)
  <2>1. CASE Accepted(worker[w].known) /\ worker[w].phase # "lease"
    <3>1. /\ jobs' = Written(worker[w].known) /\ UNCHANGED <<versions, runs>>
          /\ \A x \in worker[w].known : Claimed(x)
          /\ Become(w, [worker[w] EXCEPT !.pc = "strand"])
      BY <1>1, <1>7, <2>1 DEF RecoverExpired, Untouched, Procs
    <3>2. \A x \in worker[w].known : jobs'[x.run].state \in Failing
      BY <1>1, <2>1, <3>1, RecoveryMoves
    <3>3. worker'[w] = [worker[w] EXCEPT !.pc = "strand"]
      BY <1>1, <3>1 DEF Become
    <3>4. worker'[w].known = worker[w].known
      BY <1>5, <3>3
    <3> QED BY <1>2, <3>2, <3>4 DEF Quiet, Failing, Active
  <2>2. CASE ~(Accepted(worker[w].known) /\ worker[w].phase # "lease")
    <3>1. \/ Become(w, [worker[w] EXCEPT !.pc = "claim", !.known = {}])
          \/ Become(w, Down)
      BY <1>7, <2>2 DEF RecoverExpired
    <3>2. CASE Become(w, Down)
      BY <1>2, <1>3, <1>4, <3>2
    <3> DEFINE state == [worker[w] EXCEPT !.pc = "claim", !.known = {}]
    <3>3. state.pc = "claim"
      BY <1>5
    <3>4. CASE Become(w, state)
      <4> HIDE DEF state
      <4> QED BY <1>2, <1>3, <3>3, <3>4
    <3> QED BY <3>1, <3>2, <3>4
  <2> QED BY <2>1, <2>2
<1>8. CASE ReadStranded(w)
  <2> DEFINE found == {[run |-> k, state |-> jobs[k].state] :
                          k \in Stranded \ {x.run : x \in worker[w].known}}
             known == worker[w].known \cup found
  <2>1. Become(w, [worker[w] EXCEPT !.pc = "reconcile", !.known = known]) /\ jobs' = jobs
    BY <1>8 DEF ReadStranded
  <2>2. \A x \in found : jobs[x.run].state \in Failing
    BY DEF Stranded
  <2>3. \A x \in worker[w].known : jobs[x.run].state \notin Active
    BY <1>8 DEF Calm, Quiet, ReadStranded
  <2> HIDE DEF found
  <2>4. \A x \in known : jobs'[x.run].state \notin Active
    BY <2>1, <2>2, <2>3 DEF Failing, Active
  <2> HIDE DEF known
  <2>5. worker'[w] = [worker[w] EXCEPT !.pc = "reconcile", !.known = known]
    BY <1>1, <2>1 DEF Become
  <2>6. worker'[w].known = known
    BY <1>5, <2>5
  <2> QED BY <1>2, <2>4, <2>6 DEF Quiet
<1>9. CASE Reconcile(w)
  <2>1. jobs' = jobs /\ \A x \in worker[w].known : jobs[x.run].state \notin Active
    BY <1>9 DEF Calm, Quiet, Reconcile
  <2>2. PICK x : \/ Become(w, [worker[w] EXCEPT !.known = worker[w].known \ {x}])
                 \/ Become(w, Down)
    BY <1>9 DEF Reconcile
  <2>3. CASE Become(w, Down)
    BY <1>2, <1>3, <1>4, <2>3
  <2>4. CASE Become(w, [worker[w] EXCEPT !.known = worker[w].known \ {x}])
    <3>1. worker'[w] = [worker[w] EXCEPT !.known = worker[w].known \ {x}]
      BY <1>1, <2>4 DEF Become
    <3>2. worker'[w].known \subseteq worker[w].known
      BY <1>5, <3>1
    <3> QED BY <1>2, <2>1, <3>2 DEF Quiet
  <2> QED BY <2>2, <2>3, <2>4
<1>10. CASE Reconciled(w)
  <2>1. /\ worker[w].pc = "reconcile" /\ worker[w].known = {}
        /\ worker[w].phase \in {"poll", "settle", "after"}
    BY <1>1, <1>10 DEF Reconciled, Procs, WorkerState
  <2>2. \/ Become(w, [Idle EXCEPT !.phase = "lease"])
        \/ Become(w, [worker[w] EXCEPT !.pc = "settle"]) \/ Become(w, Idle)
    BY <1>10, <2>1 DEF Reconciled
  <2> DEFINE leasing == [Idle EXCEPT !.phase = "lease"]
             settling == [worker[w] EXCEPT !.pc = "settle"]
  <2>3. leasing.pc = "read" /\ settling.pc = "settle"
    BY <1>5
  <2>4. Become(w, leasing) \/ Become(w, settling) \/ Become(w, Idle)
    BY <2>2
  <2> HIDE DEF leasing, settling
  <2>5. \E state : Become(w, state) /\ state.pc \notin {"strand", "reconcile"}
    BY <1>4, <2>3, <2>4
  <2> QED BY <1>2, <1>3, <2>5
<1>11. CASE ClaimJob(w)
  <2>1. \/ Become(w, Idle) \/ Become(w, Down)
        \/ \E k \in RunIds : Become(w, [Idle EXCEPT !.pc = "granted", !.run = k])
    BY <1>11 DEF ClaimJob
  <2>2. CASE Become(w, Idle) \/ Become(w, Down)
    BY <1>2, <1>3, <1>4, <2>2
  <2>3. ASSUME NEW k \in RunIds, Become(w, [Idle EXCEPT !.pc = "granted", !.run = k])
        PROVE  Calm'
    <3> DEFINE granted == [Idle EXCEPT !.pc = "granted", !.run = k]
    <3>1. granted.pc = "granted" /\ Become(w, granted)
      BY <1>5, <2>3
    <3> HIDE DEF granted
    <3> QED BY <1>2, <1>3, <3>1
  <2> QED BY <2>1, <2>2, <2>3
<1>12. ASSUME NEW timeout, Interrupted(w, timeout)
       PROVE  Calm'
  BY <1>2, <1>3, <1>5, <1>12 DEF Interrupted
<1>13. CASE Begin(w) \/ WorkFails(w) \/ FailStage(w) \/ TimeOut(w)
  <2>1. \/ \E pc \in {"working", "failing"} : Become(w, [worker[w] EXCEPT !.pc = pc])
        \/ Become(w, Idle) \/ \E timeout \in BOOLEAN : Interrupted(w, timeout)
    BY <1>13 DEF Begin, WorkFails, FailStage, TimeOut
  <2>2. CASE Become(w, Idle)
    BY <1>2, <1>3, <1>4, <2>2
  <2>3. ASSUME NEW pc \in {"working", "failing"}, Become(w, [worker[w] EXCEPT !.pc = pc])
        PROVE  Calm'
    <3> DEFINE state == [worker[w] EXCEPT !.pc = pc]
    <3>1. state.pc = pc /\ Become(w, state)
      BY <1>5, <2>3
    <3> HIDE DEF state
    <3> QED BY <1>2, <1>3, <3>1
  <2> QED BY <1>12, <2>1, <2>2, <2>3
<1>14. CASE Succeed(w)
  <2>1. \/ Become(w, [worker[w] EXCEPT !.pc = "failing"])
        \/ \E pc \in {"follow", "read"} : Become(w, [Idle EXCEPT !.pc = pc])
    BY <1>14 DEF Succeed
  <2> DEFINE failed == [worker[w] EXCEPT !.pc = "failing"]
             onward(pc) == [Idle EXCEPT !.pc = pc]
  <2>2. failed.pc = "failing"
    BY <1>5
  <2>3. onward("follow").pc = "follow" /\ onward("read").pc = "read"
    BY <1>5
  <2>4. Become(w, failed) \/ Become(w, onward("follow")) \/ Become(w, onward("read"))
    BY <2>1
  <2> HIDE DEF failed, onward
  <2>5. CASE Become(w, failed)
    BY <1>2, <1>3, <2>2, <2>5
  <2>6. CASE Become(w, onward("follow"))
    BY <1>2, <1>3, <2>3, <2>6
  <2>7. CASE Become(w, onward("read"))
    BY <1>2, <1>3, <2>3, <2>7
  <2> QED BY <2>4, <2>5, <2>6, <2>7
<1>15. CASE FollowUp(w) \/ Settle(w)
  <2> DEFINE after == [worker[w] EXCEPT !.pc = "read", !.phase = "after"]
  <2>1. Become(w, Idle) \/ Become(w, Down) \/ Become(w, after)
    BY <1>15 DEF FollowUp, Settle
  <2>2. after.pc = "read"
    BY <1>5
  <2> HIDE DEF after
  <2>3. CASE Become(w, Idle) \/ Become(w, Down)
    BY <1>2, <1>3, <1>4, <2>3
  <2>4. CASE Become(w, after)
    BY <1>2, <1>3, <2>2, <2>4
  <2> QED BY <2>1, <2>3, <2>4
<1>16. CASE Heartbeat(w)
  <2>1. CASE worker' = worker
    BY <1>2, <1>16, <2>1 DEF Heartbeat, Running, Quiet
  <2>2. CASE worker' # worker
    BY <1>12, <1>16, <2>2 DEF Heartbeat
  <2> QED BY <2>1, <2>2
<1>17. CASE Crash(w) \/ Restart(w)
  BY <1>2, <1>3, <1>4, <1>17 DEF Crash, Restart
<1> QED BY <1>6, <1>7, <1>8, <1>9, <1>10, <1>11, <1>13, <1>14, <1>15, <1>16, <1>17 DEF Protocol

LEMMA CalmNext ==
    ASSUME Inv, Calm, \A u, v \in Workers : u = v, [Next]_vars
    PROVE  Calm'
<1>1. CASE UNCHANGED vars
  BY <1>1, CalmStays, NothingWritten DEF vars
<1>2. CASE Coordinator
  BY <1>2, CalmStays, CoordinatorActivates DEF Coordinator, ScheduleCurrent, AcceptChangeSet,
     ScheduleVerification, RestoreVerification, PrepareRetry, Others
<1>3. CASE Request
  BY <1>3, CalmStays, RequestActivates DEF Request, ReadForCancel, ReadForRetry, CancelJob,
     CancelRun, RetryJob, CommitJob
<1>4. CASE Tick \/ \E r \in Reapers : ReapRead(r) \/ ReapWrite(r)
  BY <1>4, CalmStays, OtherActivates DEF Tick, ReapRead, ReapWrite, Others
<1> QED BY <1>1, <1>2, <1>3, <1>4, CalmWorker DEF Next

(* A move keeps jobs and versions together unless it closes a version and  *)
(* leaves its job running, which no move of a calm worker does.            *)
LEMMA TogetherNext ==
    ASSUME Inv, Calm, RunningTogether, [Next]_vars
    PROVE  RunningTogether'
<1>1. Bound /\ Chain /\ Procs
  BY DEF Inv
<1>2. Move
  BY StepsAreMoves
<1>3. CASE JobsMove
  <2>1. RunIds' = RunIds /\ \A k \in RunIds : OwnsRunning(k)' <=> OwnsRunning(k)
    BY <1>3 DEF JobsMove, RunIds, OwnsRunning, Current
  <2> QED BY <1>3, <2>1 DEF JobsMove, RunningTogether, Kept, LetGo, Taken, Failing
<1>4. ASSUME NEW j \in RunIds, StartMove(j)
      PROVE  RunningTogether'
  <2> DEFINE version == Version(Current.stage, "running")
  <2>1. /\ RunIds' = RunIds /\ version \in VersionRow /\ version.status = "running"
        /\ versions' = Append(versions, version) /\ OwnsPending(j) /\ runs' = runs
    BY <1>1, <1>4, Chained DEF StartMove, RunIds, Version, VersionRow
  <2> HIDE DEF version
  <2>2. OwnsRunning(j)'
    BY <1>1, <2>1, OwnedAfter
  <2>3. ASSUME NEW k \in RunIds, k # j
        PROVE  jobs'[k].state # "running"
    <3>1. ~OwnsRunning(k)
      BY <1>1, <2>1, <2>3, Owned DEF OwnsCurrent
    <3> QED BY <1>4, <2>3, <3>1 DEF StartMove, OthersKept, Kept, RunningTogether
  <2> QED BY <2>1, <2>2, <2>3 DEF RunningTogether
<1>5. ASSUME NEW stage \in Stages, NEW position \in Nat \ {0}, BindMove(stage, position),
             Current.status # "running"
      PROVE  RunningTogether'
  <2>1. \A k \in RunIds : jobs[k].state # "running"
    BY <1>5 DEF RunningTogether, OwnsRunning
  <2>2. /\ RunIds' = RunIds \cup {Len(runs) + 1}
        /\ \A k \in RunIds : jobs'[k] = jobs[k]
        /\ jobs'[Len(runs) + 1] = NewRow
    BY <1>1, <1>5, BoundRun
  <2>3. NewRow.state = "queued"
    BY DEF NewRow, NoRow
  <2> QED BY <2>1, <2>2, <2>3 DEF RunningTogether
<1>6. CASE ScheduleMove
  <2>1. Len(versions) \in Nat \ {0} /\ Current.stage \in Stages
    BY <1>1, Chained DEF VersionRow
  <2> QED BY <1>5, <1>6, <2>1 DEF ScheduleMove
<1>7. ASSUME NEW from \in Stages, NEW to \in Stages, OpenMove(from, to)
      PROVE  RunningTogether'
  <2>1. Current.status # "running" /\ Len(versions) + 1 \in Nat \ {0}
    BY <1>1, <1>7, Chained DEF OpenMove
  <2>2. CASE UNCHANGED <<runs, jobs>>
    <3>1. \A k \in RunIds : jobs[k].state # "running"
      BY <2>1 DEF RunningTogether, OwnsRunning
    <3> QED BY <2>2, <3>1 DEF RunningTogether, RunIds
  <2> QED BY <1>5, <1>7, <2>1, <2>2 DEF OpenMove
<1>8. ASSUME NEW j \in RunIds, NEW version \in VersionRow, CloseMove(j, version)
      PROVE  RunningTogether'
  <2>1. /\ RunIds' = RunIds /\ OwnsCurrent(j) /\ OthersKept(j)
        /\ versions' = Append(versions, version) /\ version.status \in Settled
    BY <1>8 DEF CloseMove, RunIds
  <2>2. \A k \in RunIds \ {j} : jobs'[k].state # "running"
    BY <1>1, <2>1, Owned DEF RunningTogether, OthersKept, Kept, OwnsCurrent
  <2>3. Closing
    <3>1. Current.status \in {"pending", "running"}
      BY <2>1 DEF OwnsCurrent, OwnsPending, OwnsRunning
    <3>2. /\ Len(versions') = Len(versions) + 1 /\ Len(versions) \in Nat
          /\ versions'[Len(versions) + 1] = version
      BY <1>1, <2>1, Extended_Chain, Chained DEF Current
    <3> QED BY <2>1, <3>1, <3>2 DEF Closing
  <2>4. versions' # versions /\ Next
    BY <1>1, <2>3, Chained DEF Closing, vars
  <2>5. jobs'[j].state # "running"
    <3>1. CASE \A w \in Workers : ~Reconcile(w)
      <4>1. PICK k \in RunIds : OwnsCurrent(k) /\ jobs'[k].state \in {"succeeded"} \cup Failing
        BY <2>3, <2>4, <3>1, ClosedWithItsJob DEF JobCloses
      <4>2. k = j
        BY <1>1, <2>1, <4>1, Owned
      <4> QED BY <4>1, <4>2 DEF Failing
    <3>2. ASSUME NEW w \in Workers, Reconcile(w)
          PROVE  jobs'[j].state # "running"
      <4>1. PICK x \in worker[w].known : OwnsCurrent(x.run)
        BY <2>4, <3>2 DEF Reconcile
      <4>2. /\ worker[w].pc = "reconcile" /\ jobs' = jobs
            /\ x.run \in RunIds /\ jobs[x.run].state \notin Active
        BY <1>1, <3>2 DEF Reconcile, Procs, Ended, Calm, Quiet
      <4>3. x.run = j
        BY <1>1, <2>1, <4>1, <4>2, Owned
      <4> QED BY <4>2, <4>3 DEF Active
    <3> QED BY <3>1, <3>2
  <2> QED BY <2>1, <2>2, <2>5 DEF RunningTogether
<1> QED BY <1>2, <1>3, <1>4, <1>6, <1>7, <1>8 DEF Move

(* No requests.  Without them no job is ever cancelled, so that what a     *)
(* worker knows to have ended has used its only attempt and stays ended.   *)

Spared(row) == row.state # "cancelled" /\ ~row.cancel_requested
Spares(known) == \A x \in known : x.state # "cancelled"

NotCancelled ==
    /\ \A k \in RunIds : Spared(jobs[k])
    /\ \A w \in Workers : Spares(worker[w].known)
    /\ \A r \in Reapers : Spares(reaper[r])

LEMMA SparedRows ==
    ASSUME NEW row \in JobRow, Spared(row)
    PROVE  /\ \A w \in Workers, age \in Int : Spared(Leased(row, w, age))
           /\ \A age \in Int : Spared(Extended(row, age))
           /\ Spared(Started(row)) /\ Spared(Aged(row))
           /\ \A outcome \in {"succeeded", "failed", "timed_out"} : Spared(Closed(row, outcome))
           /\ \A decision : decision # "cancelled" => Spared(Recovered(row, decision))
           /\ RecoveryOf(row) # "cancelled"
<1>1. \A w \in Workers, age \in Int : Spared(Leased(row, w, age))
  BY DEF JobRow, Spared, Leased
<1>2. \A age \in Int : Spared(Extended(row, age))
  BY DEF JobRow, Spared, Extended
<1>3. Spared(Started(row)) /\ Spared(Aged(row))
  BY DEF JobRow, Spared, Started, Aged
<1>4. \A outcome \in {"succeeded", "failed", "timed_out"} : Spared(Closed(row, outcome))
  BY DEF JobRow, Spared, Closed
<1>5. \A decision : decision # "cancelled" => Spared(Recovered(row, decision))
  BY DEF JobRow, Spared, Recovered
<1>6. RecoveryOf(row) # "cancelled"
  BY DEF JobRow, Spared, RecoveryOf
<1> QED BY <1>1, <1>2, <1>3, <1>4, <1>5, <1>6

(* What a step that is no request may do to the jobs.                      *)
SparingWrite ==
    \/ UNCHANGED <<runs, jobs>>
    \/ \E stage, position : Schedule(stage, position)
    \/ /\ runs' = runs
       /\ \/ \E k \in RunIds : \E row : Spared(row) /\ WriteJob(k, row)
          \/ \E known : Spares(known) /\ jobs' = Written(known)
          \/ jobs' = [k \in RunIds |-> Aged(jobs[k])]

LEMMA WritesSpare ==
    ASSUME Bound, NotCancelled, SparingWrite
    PROVE  \A k \in RunIds' : Spared(jobs'[k])
<1>1. \A k \in RunIds : jobs[k] \in JobRow /\ Spared(jobs[k])
  BY Chained DEF StageRow, GoodRow, NotCancelled
<1>2. DOMAIN jobs = RunIds /\ RunIds = 1 .. Len(runs) /\ Len(jobs) = Len(runs)
      /\ Len(runs) \in Nat
  BY Chained DEF Bound
<1>3. CASE UNCHANGED <<runs, jobs>>
  BY <1>1, <1>3 DEF RunIds
<1>4. ASSUME NEW stage, NEW position, Schedule(stage, position)
      PROVE  \A k \in RunIds' : Spared(jobs'[k])
  <2> DEFINE run == [stage |-> stage, pending |-> position,
                     number |-> Cardinality(RunsOf(stage)) + 1]
  <2>1. runs' = Append(runs, run) /\ jobs' = Append(jobs, NewRow)
    BY <1>4 DEF Schedule
  <2> HIDE DEF run
  <2>2. /\ DOMAIN runs' = 1 .. Len(runs) + 1
        /\ \A k \in 1 .. Len(jobs) : jobs'[k] = jobs[k]
        /\ jobs'[Len(jobs) + 1] = NewRow
    BY <2>1 DEF Bound
  <2>3. Spared(NewRow)
    BY DEF Spared, NewRow, NoRow
  <2> QED BY <1>1, <1>2, <2>2, <2>3 DEF RunIds
<1>5. ASSUME runs' = runs, NEW i \in RunIds, NEW row, Spared(row), WriteJob(i, row)
      PROVE  \A k \in RunIds' : Spared(jobs'[k])
  BY <1>1, <1>2, <1>5 DEF WriteJob, RunIds
<1>6. ASSUME runs' = runs, NEW known, Spares(known), jobs' = Written(known)
      PROVE  \A k \in RunIds' : Spared(jobs'[k])
  <2> SUFFICES ASSUME NEW k \in RunIds
               PROVE  Spared(jobs'[k])
    BY <1>6 DEF RunIds
  <2>1. CASE \E x \in known : x.run = k
    <3> DEFINE y == CHOOSE x \in known : x.run = k
    <3>1. y \in known
      BY <2>1
    <3>2. y.state # "cancelled"
      BY <1>6, <3>1 DEF Spares
    <3>3. jobs'[k] = Recovered(jobs[k], y.state)
      BY <1>6, <2>1 DEF Written
    <3> QED BY <1>1, <3>2, <3>3, SparedRows
  <2>2. CASE ~\E x \in known : x.run = k
    BY <1>1, <1>6, <2>2 DEF Written
  <2> QED BY <2>1, <2>2
<1>7. ASSUME runs' = runs, jobs' = [k \in RunIds |-> Aged(jobs[k])]
      PROVE  \A k \in RunIds' : Spared(jobs'[k])
  BY <1>1, <1>7, SparedRows DEF RunIds
<1> QED BY <1>3, <1>4, <1>5, <1>6, <1>7 DEF SparingWrite

(* Whatever a worker does, it learns of no cancellation.                   *)
LEMMA WorkerSpares ==
    ASSUME Inv, NotCancelled, NEW w \in Workers,
           Protocol(w) \/ Heartbeat(w) \/ TimeOut(w) \/ Crash(w) \/ Restart(w)
    PROVE  SparingWrite /\ \A v \in Workers : Spares(worker'[v].known)
<1> DEFINE k == worker[w].run
<1>1. Bound /\ Procs /\ worker \in [Workers -> WorkerState] /\ worker[w] \in WorkerState
  BY DEF Inv, Procs
<1>2. \A i \in RunIds : jobs[i] \in JobRow /\ Spared(jobs[i])
  BY <1>1, Chained DEF StageRow, GoodRow, NotCancelled
<1>3. MaxAge \in Nat /\ \A age \in 0 .. MaxAge : age \in Int
  BY JobRowsAssumption
<1>4. worker[w].pc \in Holding => k \in RunIds
  BY <1>1 DEF Procs
<1>5. SparingWrite
  <2>1. CASE \/ ReadExpired(w) \/ ReadStranded(w) \/ Reconcile(w) \/ Reconciled(w)
             \/ WorkFails(w) \/ TimeOut(w) \/ Crash(w) \/ Restart(w)
    BY <2>1 DEF ReadExpired, ReadStranded, Reconcile, Reconciled, WorkFails, TimeOut,
                Crash, Restart, Untouched, SparingWrite
  <2>2. CASE RecoverExpired(w)
    BY <2>2 DEF RecoverExpired, Untouched, NotCancelled, SparingWrite
  <2>3. CASE ClaimJob(w)
    <3>1. runs' = runs
      BY <2>3 DEF ClaimJob, Untouched
    <3>2. \/ jobs' = jobs
          \/ \E i \in RunIds, age \in 0 .. MaxAge : WriteJob(i, Leased(jobs[i], w, age))
      BY <2>3 DEF ClaimJob
    <3> QED BY <1>2, <1>3, <3>1, <3>2, SparedRows DEF SparingWrite
  <2>4. CASE Begin(w)
    <3>1. runs' = runs /\ k \in RunIds /\ (jobs' = jobs \/ WriteJob(k, Started(jobs[k])))
      BY <1>4, <2>4 DEF Begin, Untouched, Holding
    <3> QED BY <1>2, <3>1, SparedRows DEF SparingWrite
  <2>5. CASE Succeed(w)
    <3>1. /\ runs' = runs /\ k \in RunIds
          /\ (jobs' = jobs \/ WriteJob(k, Closed(jobs[k], "succeeded")))
      BY <1>4, <2>5 DEF Succeed, Untouched, Holding
    <3> QED BY <1>2, <3>1, SparedRows DEF SparingWrite
  <2>6. CASE FollowUp(w)
    BY <2>6 DEF FollowUp, Advance, SparingWrite
  <2>7. CASE FailStage(w)
    <3>1. /\ runs' = runs /\ k \in RunIds
          /\ (jobs' = jobs \/ WriteJob(k, Closed(jobs[k], "failed")))
      BY <1>4, <2>7 DEF FailStage, Untouched, Holding
    <3> QED BY <1>2, <3>1, SparedRows DEF SparingWrite
  <2>8. CASE Settle(w)
    <3>1. runs' = runs /\ k \in RunIds
      BY <1>4, <2>8 DEF Settle, Untouched, Holding
    <3>2. ~jobs[k].cancel_requested
      BY <1>2, <3>1 DEF Spared
    <3>3. \/ jobs' = jobs \/ WriteJob(k, Closed(jobs[k], "failed"))
          \/ WriteJob(k, Closed(jobs[k], "timed_out"))
      BY <2>8, <3>2 DEF Settle
    <3> QED BY <1>2, <3>1, <3>3, SparedRows DEF SparingWrite
  <2>9. CASE Heartbeat(w)
    <3>1. /\ runs' = runs /\ k \in RunIds
          /\ (jobs' = jobs \/ \E age \in 0 .. MaxAge : WriteJob(k, Extended(jobs[k], age)))
      BY <1>4, <2>9 DEF Heartbeat, Running, Untouched, Holding
    <3> QED BY <1>2, <1>3, <3>1, SparedRows DEF SparingWrite
  <2> QED BY <2>1, <2>2, <2>3, <2>4, <2>5, <2>6, <2>7, <2>8, <2>9 DEF Protocol
<1>6. \A v \in Workers : Spares(worker'[v].known)
  <2> DEFINE seen == {[run |-> i, state |-> jobs[i].state] : i \in RunIds}
             may == worker[w].known \cup Found(ExpiredJobs) \cup seen
  <2>1. Spares(may)
    <3>1. \A i \in RunIds : RecoveryOf(jobs[i]) # "cancelled" /\ jobs[i].state # "cancelled"
      BY <1>2, SparedRows DEF Spared
    <3>2. \A i \in ExpiredJobs : i \in RunIds
      BY DEF ExpiredJobs
    <3> QED BY <3>1, <3>2 DEF Spares, Found, NotCancelled
  <2> HIDE DEF seen, may
  <2>2. ASSUME NEW state, Become(w, state), state.known \subseteq may
        PROVE  \A v \in Workers : Spares(worker'[v].known)
    BY <1>1, <2>1, <2>2 DEF Become, Spares, NotCancelled
  <2>3. {} \subseteq may /\ worker[w].known \subseteq may
    BY DEF may
  <2>4. Idle.known = {} /\ Down.known = {} /\ Idle \in WorkerState
    BY Resting DEF Idle, Down
  <2>5. \A pc, known :
           /\ [worker[w] EXCEPT !.known = known, !.pc = pc].known = known
           /\ [worker[w] EXCEPT !.pc = pc, !.known = known].known = known
           /\ [worker[w] EXCEPT !.known = known].known = known
    BY <1>1 DEF WorkerState
  <2>6. ASSUME NEW state, Become(w, state),
               \/ state \in {Idle, Down}
               \/ \E pc : \/ state = [worker[w] EXCEPT !.pc = pc]
                          \/ state = [Idle EXCEPT !.pc = pc]
                          \/ \E phase : state = [worker[w] EXCEPT !.pc = pc, !.phase = phase]
                          \/ \E run : state = [Idle EXCEPT !.pc = pc, !.run = run]
               \/ \E phase : state = [Idle EXCEPT !.phase = phase]
               \/ \E timeout : state = [worker[w] EXCEPT !.pc = "read", !.phase = "settle",
                                                         !.timeout = timeout]
        PROVE  \A v \in Workers : Spares(worker'[v].known)
    <3>1. CASE state \in {Idle, Down}
      BY <2>2, <2>3, <2>4, <2>6, <3>1
    <3>2. CASE \/ \E pc : state = [Idle EXCEPT !.pc = pc]
               \/ \E phase : state = [Idle EXCEPT !.phase = phase]
               \/ \E pc, run : state = [Idle EXCEPT !.pc = pc, !.run = run]
      <4>1. state.known = {}
        BY <3>2 DEF Idle
      <4> QED BY <2>2, <2>3, <2>6, <4>1
    <3>3. CASE \/ \E pc : state = [worker[w] EXCEPT !.pc = pc]
               \/ \E pc, phase : state = [worker[w] EXCEPT !.pc = pc, !.phase = phase]
               \/ \E timeout : state = [worker[w] EXCEPT !.pc = "read", !.phase = "settle",
                                                         !.timeout = timeout]
      <4>1. state.known = worker[w].known
        BY <1>1, <3>3 DEF WorkerState
      <4> QED BY <2>2, <2>3, <2>6, <4>1
    <3> QED BY <2>6, <3>1, <3>2, <3>3
  <2>7. ASSUME NEW timeout, Interrupted(w, timeout)
        PROVE  \A v \in Workers : Spares(worker'[v].known)
    BY <2>6, <2>7 DEF Interrupted
  <2>8. CASE worker' = worker
    BY <2>8 DEF NotCancelled
  <2>9. CASE ReadExpired(w)
    <3>1. PICK pc : Become(w, [worker[w] EXCEPT !.known = Found(ExpiredJobs), !.pc = pc])
      BY <2>9 DEF ReadExpired
    <3> DEFINE state == [worker[w] EXCEPT !.known = Found(ExpiredJobs), !.pc = pc]
    <3>2. state.known = Found(ExpiredJobs) /\ Become(w, state)
      BY <2>5, <3>1
    <3> HIDE DEF state
    <3> QED BY <2>2, <3>2 DEF may
  <2>10. CASE RecoverExpired(w)
    <3> DEFINE state == [worker[w] EXCEPT !.pc = "claim", !.known = {}]
    <3>1. Become(w, state) \/ Become(w, [worker[w] EXCEPT !.pc = "strand"]) \/ Become(w, Down)
      BY <2>10 DEF RecoverExpired
    <3>2. state.known = {}
      BY <2>5
    <3>3. CASE Become(w, state)
      <4> HIDE DEF state
      <4> QED BY <2>2, <2>3, <3>2, <3>3
    <3> QED BY <2>6, <3>1, <3>3
  <2>11. CASE ReadStranded(w)
    <3> DEFINE found == {[run |-> i, state |-> jobs[i].state] :
                            i \in Stranded \ {x.run : x \in worker[w].known}}
               known == worker[w].known \cup found
               state == [worker[w] EXCEPT !.pc = "reconcile", !.known = known]
    <3>1. Become(w, state)
      BY <2>11 DEF ReadStranded
    <3>2. known \subseteq may
      BY DEF may, seen, Stranded
    <3> HIDE DEF known
    <3>3. state.known = known
      BY <2>5
    <3> HIDE DEF state
    <3> QED BY <2>2, <3>1, <3>2, <3>3
  <2>12. CASE Reconcile(w)
    <3>1. PICK x : \/ Become(w, [worker[w] EXCEPT !.known = worker[w].known \ {x}])
                   \/ Become(w, Down)
      BY <2>12 DEF Reconcile
    <3> DEFINE known == worker[w].known \ {x}
               state == [worker[w] EXCEPT !.known = known]
    <3>2. known \subseteq may
      BY <2>3
    <3> HIDE DEF known
    <3>3. state.known = known
      BY <2>5
    <3>4. Become(w, state) \/ Become(w, Down)
      BY <3>1 DEF known
    <3> HIDE DEF state
    <3> QED BY <2>2, <2>6, <3>2, <3>3, <3>4
  <2>13. CASE Reconciled(w)
    <3>1. worker[w].phase \in {"poll", "settle", "after"}
      BY <1>1, <2>13 DEF Reconciled, Procs, WorkerState
    <3>2. \/ Become(w, [Idle EXCEPT !.phase = "lease"])
          \/ Become(w, [worker[w] EXCEPT !.pc = "settle"]) \/ Become(w, Idle)
      BY <2>13, <3>1 DEF Reconciled
    <3> QED BY <2>6, <3>2
  <2>14. CASE ClaimJob(w)
    <3>1. \/ Become(w, Idle) \/ Become(w, Down)
          \/ \E i \in RunIds : Become(w, [Idle EXCEPT !.pc = "granted", !.run = i])
      BY <2>14 DEF ClaimJob
    <3> QED BY <2>6, <3>1
  <2>15. CASE Begin(w) \/ WorkFails(w) \/ FailStage(w) \/ TimeOut(w) \/ Succeed(w)
    <3>1. \/ \E pc : \/ Become(w, [worker[w] EXCEPT !.pc = pc])
                    \/ Become(w, [Idle EXCEPT !.pc = pc])
          \/ Become(w, Idle) \/ \E timeout \in BOOLEAN : Interrupted(w, timeout)
      BY <2>15 DEF Begin, WorkFails, FailStage, TimeOut, Succeed
    <3> QED BY <2>6, <2>7, <3>1
  <2>16. CASE FollowUp(w) \/ Settle(w) \/ Crash(w) \/ Restart(w)
    <3>1. \/ Become(w, Idle) \/ Become(w, Down)
          \/ Become(w, [worker[w] EXCEPT !.pc = "read", !.phase = "after"])
      BY <2>16 DEF FollowUp, Settle, Crash, Restart
    <3> QED BY <2>6, <3>1
  <2>17. CASE Heartbeat(w)
    <3>1. worker' = worker \/ Interrupted(w, FALSE)
      BY <2>17 DEF Heartbeat
    <3> QED BY <2>7, <2>8, <3>1
  <2> QED BY <2>9, <2>10, <2>11, <2>12, <2>13, <2>14, <2>15, <2>16, <2>17 DEF Protocol
<1> QED BY <1>5, <1>6

LEMMA NobodyCancels ==
    ASSUME Clients = {}, Inv, NotCancelled, [Next]_vars
    PROVE  NotCancelled'
<1>1. Bound /\ Procs /\ reaper \in [Reapers -> SUBSET KnownRow]
  BY DEF Inv, Procs
<1>2. ASSUME SparingWrite, UNCHANGED <<worker, reaper>>
      PROVE  NotCancelled'
  BY <1>1, <1>2, WritesSpare DEF NotCancelled
<1>3. CASE UNCHANGED vars
  BY <1>2, <1>3 DEF vars, SparingWrite
<1>4. CASE Coordinator
  BY <1>2, <1>4 DEF Coordinator, ScheduleCurrent, AcceptChangeSet, ScheduleVerification,
     RestoreVerification, PrepareRetry, Advance, Others, SparingWrite
<1>5. CASE Request
  BY <1>5 DEF Request
<1>6. ASSUME NEW r \in Reapers, ReapRead(r)
      PROVE  NotCancelled'
  <2>1. \A i \in RunIds : RecoveryOf(jobs[i]) # "cancelled"
    BY <1>1, Chained, SparedRows DEF StageRow, GoodRow, NotCancelled
  <2>2. Spares(Found(ExpiredJobs))
    BY <2>1 DEF Spares, Found, ExpiredJobs
  <2>3. SparingWrite /\ worker' = worker
    BY <1>6 DEF ReapRead, SparingWrite
  <2>4. \A q \in Reapers : Spares(reaper'[q])
    BY <1>1, <1>6, <2>2 DEF ReapRead, NotCancelled
  <2> QED BY <1>1, <2>3, <2>4, WritesSpare DEF NotCancelled
<1>7. ASSUME NEW r \in Reapers, ReapWrite(r)
      PROVE  NotCancelled'
  <2>1. SparingWrite /\ worker' = worker
    BY <1>7 DEF ReapWrite, NotCancelled, SparingWrite
  <2>2. \A q \in Reapers : Spares(reaper'[q])
    BY <1>1, <1>7 DEF ReapWrite, NotCancelled, Spares
  <2> QED BY <1>1, <2>1, <2>2, WritesSpare DEF NotCancelled
<1>8. ASSUME NEW w \in Workers,
             Protocol(w) \/ Heartbeat(w) \/ TimeOut(w) \/ Crash(w) \/ Restart(w)
      PROVE  NotCancelled'
  <2>1. SparingWrite /\ \A v \in Workers : Spares(worker'[v].known)
    BY <1>8, WorkerSpares
  <2>2. reaper' = reaper
    BY <1>8 DEF Protocol, ReadExpired, RecoverExpired, ReadStranded, Reconcile, Reconciled,
       ClaimJob, Begin, Succeed, WorkFails, FollowUp, FailStage, Settle, Heartbeat, TimeOut,
       Crash, Restart, Untouched
  <2> QED BY <1>1, <2>1, <2>2, WritesSpare DEF NotCancelled
<1>9. CASE Tick
  BY <1>2, <1>9 DEF Tick, Others, SparingWrite
<1> QED BY <1>3, <1>4, <1>5, <1>6, <1>7, <1>8, <1>9 DEF Next

LEMMA UncancelledIsCalm == Inv /\ NotCancelled => Calm
BY DEF Inv, Procs, Ended, NotCancelled, Spares, Calm, Quiet

(* A job runs only under the running version its own run appended: with    *)
(* one sandbox worker, as it is deployed, for any number of requests, and  *)
(* for any number of workers while nobody cancels or retries; in both      *)
(* cases for any other processes, crashes and runs per stage (begin,       *)
(* complete, _reconcile_terminal).                                         *)
THEOREM RunsTogether ==
    ASSUME (\A u, v \in Workers : u = v) \/ Clients = {}
    PROVE  Spec => []RunningTogether
<1>1. Init => Calm /\ NotCancelled /\ RunningTogether
  <2> SUFFICES ASSUME Init PROVE Calm /\ NotCancelled /\ RunningTogether
    OBVIOUS
  <2>1. \A w \in Workers : worker[w].pc = "read" /\ worker[w].known = {}
    BY Resting DEF Init, Idle
  <2>2. RunIds = {}
    BY EmptySeq DEF Init, RunIds
  <2>3. \A r \in Reapers : reaper[r] = {}
    BY DEF Init
  <2> QED BY <2>1, <2>2, <2>3 DEF Calm, Quiet, NotCancelled, Spares, RunningTogether
<1>2. CASE \A u, v \in Workers : u = v
  <2>1. Inv /\ Calm /\ RunningTogether /\ [Next]_vars => Calm' /\ RunningTogether'
    BY <1>2, CalmNext, TogetherNext
  <2> QED BY <1>1, <2>1, InvAlways, PTL DEF Spec
<1>3. CASE Clients = {}
  <2>1. Inv /\ NotCancelled /\ RunningTogether /\ [Next]_vars
            => NotCancelled' /\ RunningTogether'
    BY <1>3, NobodyCancels, UncancelledIsCalm, TogetherNext
  <2> QED BY <1>1, <2>1, InvAlways, PTL DEF Spec
<1> QED BY <1>2, <1>3
=============================================================================

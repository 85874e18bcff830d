--------------------------- MODULE ServicesProofs ---------------------------
(***************************************************************************)
(* Theorems about WorkspaceDisposal, ProviderAnalysis, Discovery,          *)
(* ModelSelection and CodingChat, for any number of processes, attempts,   *)
(* scans and losses.  The modules share no variable.                       *)
(***************************************************************************)
EXTENDS WorkspaceDisposal, ProviderAnalysis, Discovery, ModelSelection, CodingChat,
        FiniteSetTheorems, SequenceTheorems, TLAPS

-----------------------------------------------------------------------------
(* WorkspaceDisposal: whoever is about to record a success has seen the    *)
(* volume go, and a volume that is gone does not come back.                *)

DisposalType ==
    /\ disposals \in Seq(DisposalVersion)
    /\ call \in [Calls -> CallPC]
    /\ volume \in {"present", "removed"}

DisposalInv ==
    /\ DisposalType
    /\ \A c \in Calls : call[c] = "succeed" => volume = "removed"
    /\ \A i \in DOMAIN disposals : disposals[i].status = "succeeded" => volume = "removed"

LEMMA DisposalInitial == DisposalInit => DisposalInv
BY DEF DisposalInit, DisposalInv, DisposalType, CallPC

(* What an append may record, and by whom.                                 *)
LEMMA DisposalAppends ==
    ASSUME DisposalInv, NEW status \in {"pending", "running", "succeeded", "failed"},
           NEW w \in CleanupWorkers \cup {NoCleaner}, AppendDisposal(status, w), volume' = volume,
           status = "succeeded" => volume = "removed"
    PROVE  /\ disposals' \in Seq(DisposalVersion)
           /\ \A i \in DOMAIN disposals' : disposals'[i].status = "succeeded" => volume' = "removed"
<1> DEFINE version == [status |-> status, cleaner |-> w]
<1>1. version \in DisposalVersion /\ version.status = status
  BY DEF DisposalVersion
<1>2. disposals' = Append(disposals, version)
  BY DEF AppendDisposal
<1> HIDE DEF version
<1>3. disposals \in Seq(DisposalVersion)
  BY DEF DisposalInv, DisposalType
<1>4. disposals' \in Seq(DisposalVersion)
  BY <1>1, <1>2, <1>3
<1>5. ASSUME NEW i \in DOMAIN disposals'
      PROVE  \/ disposals'[i] = version
             \/ i \in DOMAIN disposals /\ disposals'[i] = disposals[i]
  BY <1>1, <1>2, <1>3, AppendProperties
<1> QED BY <1>1, <1>4, <1>5 DEF DisposalInv

LEMMA DisposalStep == DisposalInv /\ [DisposalNext]_disposalVars => DisposalInv'
<1> SUFFICES ASSUME DisposalInv, [DisposalNext]_disposalVars
             PROVE  DisposalInv'
  OBVIOUS
<1>0. DisposalAssumption
  BY DisposalAssumption
<1>1. ASSUME NEW status \in {"pending", "running", "failed"},
             NEW w \in CleanupWorkers \cup {NoCleaner}, AppendDisposal(status, w),
             UNCHANGED volume, call' \in [Calls -> CallPC],
             \A c \in Calls : call'[c] = "succeed" => call[c] = "succeed"
      PROVE  DisposalInv'
  BY <1>1, DisposalAppends DEF DisposalInv, DisposalType
<1>2. ASSUME UNCHANGED disposals, volume' = volume \/ volume' = "removed",
             call' \in [Calls -> CallPC],
             \A c \in Calls : call'[c] = "succeed" => call[c] = "succeed" \/ volume' = "removed"
      PROVE  DisposalInv'
  BY <1>2 DEF DisposalInv, DisposalType
<1>3. ASSUME NEW c \in Calls, NEW pc \in CallPC, CallTo(c, pc)
      PROVE  /\ call' \in [Calls -> CallPC] /\ call'[c] = pc
             /\ \A d \in Calls : d # c => call'[d] = call[d]
  BY <1>3 DEF CallTo, DisposalInv, DisposalType
<1>4. {"idle", "retry", "claim", "destroy", "succeed", "fail"} \subseteq CallPC
  BY DEF CallPC
<1>5. CASE Prepare
  BY <1>1, <1>5 DEF Prepare, DisposalInv, DisposalType
<1>6. ASSUME NEW c \in Calls, CallDestroy(c)
      PROVE  DisposalInv'
  BY <1>2, <1>3, <1>4, <1>6 DEF CallDestroy
<1>7. ASSUME NEW c \in Calls, RetryDisposal(c)
      PROVE  DisposalInv'
  BY <1>1, <1>2, <1>3, <1>4, <1>7 DEF RetryDisposal
<1>8. ASSUME NEW c \in Calls, Claim(c)
      PROVE  DisposalInv'
  <2>1. WorkerOf[c] \in CleanupWorkers
    BY <1>0 DEF DisposalAssumption
  <2> QED BY <1>1, <1>2, <1>3, <1>4, <1>8, <2>1 DEF Claim
<1>9. ASSUME NEW c \in Calls, RemoveVolume(c)
      PROVE  DisposalInv'
  BY <1>2, <1>3, <1>4, <1>9 DEF RemoveVolume
<1>10. ASSUME NEW c \in Calls, SucceedDisposal(c) \/ FailDisposal(c)
       PROVE  DisposalInv'
  <2>1. WorkerOf[c] \in CleanupWorkers
    BY <1>0 DEF DisposalAssumption
  <2>2. CallTo(c, "idle") /\ volume' = volume
    BY <1>10 DEF SucceedDisposal, FailDisposal, FinishDisposal
  <2>3. CASE UNCHANGED disposals
    BY <1>2, <1>3, <1>4, <2>2, <2>3
  <2>4. CASE AppendDisposal("failed", WorkerOf[c])
    BY <1>1, <1>3, <1>4, <2>1, <2>2, <2>4
  <2>5. CASE AppendDisposal("succeeded", WorkerOf[c]) /\ call[c] = "succeed"
    BY <1>3, <1>4, <2>1, <2>2, <2>5, DisposalAppends DEF DisposalInv, DisposalType
  <2> QED BY <1>10, <2>3, <2>4, <2>5 DEF SucceedDisposal, FailDisposal, FinishDisposal
<1>11. ASSUME NEW w \in CleanupWorkers, MarkWorkerLost(w)
       PROVE  DisposalInv'
  BY <1>1, <1>11 DEF MarkWorkerLost, DisposalInv, DisposalType
<1>12. ASSUME NEW c \in Calls, KillCall(c)
       PROVE  DisposalInv'
  BY <1>2, <1>3, <1>4, <1>12 DEF KillCall
<1>13. CASE UNCHANGED disposalVars
  BY <1>2, <1>13 DEF disposalVars, DisposalInv, DisposalType
<1> QED BY <1>5, <1>6, <1>7, <1>8, <1>9, <1>10, <1>11, <1>12, <1>13 DEF DisposalNext

(* A disposal recorded as succeeded is one whose volume is really gone,    *)
(* for any number of calls of destroy, worker IDs, whether calls share     *)
(* them or not, and losses (destroy, _finish).                             *)
THEOREM DisposalIsReal == DisposalSpec => []SuccessIsReal
<1>1. DisposalInv => SuccessIsReal
  BY DEF DisposalInv, DisposalType, SuccessIsReal, Prepared, CurrentDisposal
<1> QED BY DisposalInitial, DisposalStep, <1>1, PTL DEF DisposalSpec

-----------------------------------------------------------------------------
(* ProviderAnalysis: what the worker holding the lease has counted, or,    *)
(* when nobody holds it, what is recorded, falls short of the calls made   *)
(* by no more than what lost attempts hide.                                *)

AnalysisStates == {"absent", "queued", "running"} \cup Ended
AnalystPC == {"away", "restore", "call", "await", "progress",
              "succeed", "fail", "time_out", "cancel"}
AnalysisStages == {"inspect", "analyze"}

(* A worker's record.  Its tokens are a sum over a set, which has no type  *)
(* that can be proved.                                                     *)
IsAnalyst(r) ==
    /\ r = [pc |-> r.pc, stage |-> r.stage, attempt |-> r.attempt,
            calls |-> r.calls, tokens |-> r.tokens]
    /\ r.pc \in AnalystPC
    /\ r.stage \in AnalysisStages
    /\ r.attempt \in Nat
    /\ r.calls \in Nat

IsAnalysis(r) ==
    /\ r = [state |-> r.state, attempt |-> r.attempt, owner |-> r.owner, cancel |-> r.cancel]
    /\ r.state \in AnalysisStates
    /\ r.attempt \in Nat

AnalysisType ==
    /\ IsAnalysis(analysis)
    /\ analyst = [w \in Analysts |-> analyst[w]]
    /\ \A w \in Analysts : IsAnalyst(analyst[w])
    /\ IsFiniteSet(invocations)
    /\ \A i \in invocations : i.attempt \in Nat /\ i.stage \in AnalysisStages
    /\ modelCalls \in Nat
    /\ hidden \in Nat

Made(attempt, stage) == \E i \in invocations : i.attempt = attempt /\ i.stage = stage

(* Whoever is not the holder works for an attempt before the running one.  *)
AttemptsPass ==
    /\ \A i \in invocations : i.attempt =< analysis.attempt
    /\ \A w \in Analysts : analyst[w].pc # "away" =>
          /\ analyst[w].attempt =< analysis.attempt
          /\ analysis.state = "running" /\ ~Holds(w) =>
                analyst[w].attempt < analysis.attempt

(* The holder's next invocation is a new one, and what it counted is       *)
(* recorded, but for the call it awaits.                                   *)
HolderCounts ==
    analysis.state = "running" =>
        /\ analysis.owner \in Analysts
        /\ LET o == analyst[analysis.owner] IN
           /\ o.pc # "away"
           /\ o.attempt = analysis.attempt
           /\ o.pc = "restore" => o.stage = "inspect"
           /\ o.pc \in {"restore", "call", "await"} => ~Made(o.attempt, o.stage)
           /\ o.stage = "inspect" => ~Made(o.attempt, "analyze")
           /\ o.pc \notin {"restore", "await"} => o.calls =< Cardinality(invocations)
           /\ o.pc = "await" => o.calls =< Cardinality(invocations) + 1

(* Workers that lost the lease and may still ask the provider once.        *)
LateCallers == {w \in Analysts : ~Holds(w) /\ analyst[w].pc \in {"restore", "call"}}

Counted == IF analysis.state = "running" /\ analyst[analysis.owner].pc # "restore"
             THEN analyst[analysis.owner].calls
             ELSE Cardinality(invocations)

BudgetCounts ==
    /\ modelCalls + Cardinality(LateCallers) =< Counted + hidden
    /\ modelCalls + Cardinality(LateCallers) =< MaxCalls + hidden

AnalysisInv == AnalysisType /\ AttemptsPass /\ HolderCounts /\ BudgetCounts

LEMMA AnalysisInitial == AnalysisInit => AnalysisInv
<1> SUFFICES ASSUME AnalysisInit
             PROVE  AnalysisInv
  OBVIOUS
<1>0. MaxCalls \in Nat /\ IsFiniteSet({}) /\ Cardinality({}) = 0
  BY AnalysisAssumption, FS_EmptySet
<1>1. analysis.state = "absent" /\ analysis.attempt = 0 /\ IsAnalysis(analysis)
  BY DEF AnalysisInit, IsAnalysis, AnalysisStates
<1>2. IsAnalyst(Away)
  BY DEF IsAnalyst, Away, AnalystPC, AnalysisStages
<1>3. \A w \in Analysts : analyst[w] = Away
  BY DEF AnalysisInit
<1>4. AnalysisType
  BY <1>0, <1>1, <1>2, <1>3 DEF AnalysisInit, AnalysisType
<1>5. \A w \in Analysts : analyst[w].pc = "away"
  BY <1>3 DEF Away
<1>6. AttemptsPass /\ HolderCounts
  BY <1>1, <1>5 DEF AttemptsPass, HolderCounts, AnalysisInit
<1>7. LateCallers = {}
  BY <1>5 DEF LateCallers
<1>8. Counted = 0 /\ modelCalls = 0 /\ hidden = 0
  BY <1>0, <1>1 DEF Counted, AnalysisInit
<1>9. BudgetCounts
  BY <1>0, <1>7, <1>8 DEF BudgetCounts
<1> QED BY <1>4, <1>6, <1>9 DEF AnalysisInv

(* A step of one worker leaves the records of the others.                  *)
Moves(w) ==
    /\ analyst' = [v \in Analysts |-> analyst'[v]]
    /\ IsAnalyst(analyst'[w])
    /\ \A v \in Analysts : v # w => analyst'[v] = analyst[v]

LEMMA AnalystMoves ==
    ASSUME AnalysisType, NEW w \in Analysts, NEW r, IsAnalyst(r),
           analyst' = [analyst EXCEPT ![w] = r]
    PROVE  Moves(w) /\ analyst'[w] = r
<1>1. analyst = [v \in Analysts |-> analyst[v]]
  BY DEF AnalysisType
<1> QED BY <1>1 DEF Moves

LEMMA AnalystTypes ==
    ASSUME AnalysisType, NEW w \in Analysts, Moves(w)
    PROVE  /\ analyst' = [v \in Analysts |-> analyst'[v]]
           /\ \A v \in Analysts : IsAnalyst(analyst'[v])
BY DEF AnalysisType, Moves

LEMMA TypeStays ==
    ASSUME AnalysisType, NEW w \in Analysts, Moves(w), analysis' = analysis,
           invocations' = invocations, modelCalls' \in Nat, hidden' = hidden
    PROVE  AnalysisType'
<1>1. IsAnalysis(analysis') /\ hidden' \in Nat /\ IsFiniteSet(invocations')
  BY DEF AnalysisType
<1> QED BY <1>1, AnalystTypes DEF AnalysisType

(* One field of a worker's record changed.                                 *)
LEMMA AmendPc ==
    ASSUME NEW r, IsAnalyst(r), NEW pc \in AnalystPC,
           NEW q, q = [r EXCEPT !.pc = pc]
    PROVE  /\ IsAnalyst(q) /\ q.pc = pc /\ q.stage = r.stage
           /\ q.attempt = r.attempt /\ q.calls = r.calls
BY DEF IsAnalyst

LEMMA AmendStage ==
    ASSUME NEW r, IsAnalyst(r), NEW stage \in AnalysisStages,
           NEW q, q = [r EXCEPT !.stage = stage]
    PROVE  /\ IsAnalyst(q) /\ q.pc = r.pc /\ q.stage = stage
           /\ q.attempt = r.attempt /\ q.calls = r.calls
BY DEF IsAnalyst

LEMMA AmendCalls ==
    ASSUME NEW r, IsAnalyst(r), NEW calls \in Nat,
           NEW q, q = [r EXCEPT !.calls = calls]
    PROVE  /\ IsAnalyst(q) /\ q.pc = r.pc /\ q.stage = r.stage
           /\ q.attempt = r.attempt /\ q.calls = calls
BY DEF IsAnalyst

LEMMA AmendAttempt ==
    ASSUME NEW r, IsAnalyst(r), NEW attempt \in Nat,
           NEW q, q = [r EXCEPT !.attempt = attempt]
    PROVE  /\ IsAnalyst(q) /\ q.pc = r.pc /\ q.stage = r.stage
           /\ q.attempt = attempt /\ q.calls = r.calls
BY DEF IsAnalyst

LEMMA AmendTokens ==
    ASSUME NEW r, IsAnalyst(r), NEW tokens,
           NEW q, q = [r EXCEPT !.tokens = tokens]
    PROVE  /\ IsAnalyst(q) /\ q.pc = r.pc /\ q.stage = r.stage
           /\ q.attempt = r.attempt /\ q.calls = r.calls
BY DEF IsAnalyst

LEMMA PcMoves ==
    ASSUME AnalysisType, NEW w \in Analysts, NEW pc \in AnalystPC, AnalystTo(w, pc)
    PROVE  /\ Moves(w)
           /\ analyst'[w].pc = pc
           /\ analyst'[w].stage = analyst[w].stage
           /\ analyst'[w].attempt = analyst[w].attempt
           /\ analyst'[w].calls = analyst[w].calls
<1> DEFINE r == [analyst[w] EXCEPT !.pc = pc]
<1>1. IsAnalyst(analyst[w])
  BY DEF AnalysisType
<1>2. /\ IsAnalyst(r) /\ r.pc = pc /\ r.stage = analyst[w].stage
      /\ r.attempt = analyst[w].attempt /\ r.calls = analyst[w].calls
  BY <1>1 DEF IsAnalyst
<1>3. analyst' = [analyst EXCEPT ![w] = r]
  BY DEF AnalystTo
<1> HIDE DEF r
<1>4. Moves(w) /\ analyst'[w] = r
  BY <1>2, <1>3, AnalystMoves
<1> QED BY <1>2, <1>4

LEMMA Becomes ==
    ASSUME AnalysisType, NEW w \in Analysts, NEW pc \in AnalystPC, NEW stage \in AnalysisStages,
           NEW attempt \in Nat, NEW calls \in Nat, NEW tokens,
           analyst' = [analyst EXCEPT ![w] = [pc |-> pc, stage |-> stage, attempt |-> attempt,
                                              calls |-> calls, tokens |-> tokens]]
    PROVE  /\ Moves(w)
           /\ analyst'[w].pc = pc /\ analyst'[w].stage = stage
           /\ analyst'[w].attempt = attempt /\ analyst'[w].calls = calls
<1> DEFINE r == [pc |-> pc, stage |-> stage, attempt |-> attempt,
                 calls |-> calls, tokens |-> tokens]
<1>1. /\ IsAnalyst(r) /\ r.pc = pc /\ r.stage = stage /\ r.attempt = attempt /\ r.calls = calls
  BY DEF IsAnalyst
<1>2. analyst' = [analyst EXCEPT ![w] = r]
  OBVIOUS
<1> HIDE DEF r
<1>3. Moves(w) /\ analyst'[w] = r
  BY <1>1, <1>2, AnalystMoves
<1> QED BY <1>1, <1>3

LEMMA LateFinite ==
    ASSUME IsFiniteSet(Analysts)
    PROVE  IsFiniteSet(LateCallers) /\ Cardinality(LateCallers) \in Nat
<1>1. LateCallers \subseteq Analysts
  BY DEF LateCallers
<1> QED BY <1>1, FS_Subset, FS_CardinalityType

(* What a worker's own step may do to the invocations: add one of its      *)
(* attempt.                                                                *)
Adds(w) ==
    /\ invocations \subseteq invocations'
    /\ \A i \in invocations' : i \in invocations \/ i.attempt = analyst[w].attempt

LEMMA AttemptsPassOn ==
    ASSUME AnalysisType, AttemptsPass, NEW w \in Analysts, Moves(w), Adds(w),
           analyst[w].pc # "away", analyst'[w].attempt = analyst[w].attempt,
           analysis' = analysis
    PROVE  AttemptsPass'
<1>1. \A v \in Analysts : analyst[v].attempt = analyst'[v].attempt
  BY DEF Moves
<1>2. \A i \in invocations' : i.attempt =< analysis.attempt
  BY DEF Adds, AttemptsPass
<1>3. \A v \in Analysts : analyst'[v].pc # "away" => analyst[v].pc # "away"
  BY DEF Moves
<1> QED BY <1>1, <1>2, <1>3 DEF AttemptsPass, Holds

LEMMA HolderStays ==
    ASSUME AnalysisType, IsFiniteSet(invocations'), AttemptsPass, HolderCounts,
           NEW w \in Analysts, Moves(w), Adds(w), ~Holds(w), analyst[w].pc # "away",
           analysis' = analysis
    PROVE  HolderCounts' /\ Counted' >= Counted
<1>1. Cardinality(invocations) \in Nat /\ Cardinality(invocations') \in Nat
      /\ Cardinality(invocations) =< Cardinality(invocations')
  BY FS_Subset, FS_CardinalityType DEF AnalysisType, Adds
<1>2. CASE analysis.state = "running"
  <2> DEFINE o == analysis.owner
  <2>1. o \in Analysts /\ o # w /\ analyst'[o] = analyst[o]
    BY <1>2 DEF HolderCounts, Holds, Moves
  <2>2. analyst[w].attempt < analysis.attempt /\ analysis.attempt = analyst[o].attempt
    BY <1>2 DEF AttemptsPass, HolderCounts
  <2>3. analyst[w].attempt \in Nat /\ analyst[o].attempt \in Nat /\ analyst[o].calls \in Nat
    BY <2>1 DEF AnalysisType, IsAnalyst
  <2>4. \A i \in invocations' : i.attempt = analyst[o].attempt => i \in invocations
    BY <2>2, <2>3 DEF Adds
  <2>5. HolderCounts'
    BY <1>1, <1>2, <2>1, <2>3, <2>4 DEF HolderCounts, Made
  <2>6. Counted' >= Counted
    BY <1>1, <1>2, <2>1, <2>3 DEF Counted
  <2> QED BY <2>5, <2>6
<1>3. CASE analysis.state # "running"
  BY <1>1, <1>3 DEF HolderCounts, Counted
<1> QED BY <1>2, <1>3

(* What is counted has a size.                                             *)
LEMMA CountedType ==
    ASSUME AnalysisType, HolderCounts
    PROVE  Counted \in Nat
<1>1. Cardinality(invocations) \in Nat
  BY FS_CardinalityType DEF AnalysisType
<1> QED BY <1>1 DEF Counted, HolderCounts, AnalysisType, IsAnalyst

LEMMA BudgetStays ==
    ASSUME AnalysisType, AnalysisType', HolderCounts, HolderCounts', BudgetCounts, hidden' = hidden,
           Counted' >= Counted,
           modelCalls' + Cardinality(LateCallers') =< modelCalls + Cardinality(LateCallers)
    PROVE  BudgetCounts'
<1>1. MaxCalls \in Nat
  BY AnalysisAssumption
<1>2. Counted \in Nat /\ Counted' \in Nat
  <2>1. Cardinality(invocations') \in Nat
    BY FS_CardinalityType DEF AnalysisType
  <2>2. Counted' \in Nat
    BY <2>1 DEF Counted, HolderCounts, AnalysisType, IsAnalyst
  <2> QED BY <2>2, CountedType
<1>3. Cardinality(LateCallers) \in Nat /\ Cardinality(LateCallers') \in Nat
  <2>1. IsFiniteSet(Analysts) /\ LateCallers \subseteq Analysts /\ LateCallers' \subseteq Analysts
    BY AnalysisAssumption DEF LateCallers
  <2> QED BY <2>1, FS_Subset, FS_CardinalityType
<1>4. modelCalls \in Nat /\ modelCalls' \in Nat /\ hidden \in Nat
  BY DEF AnalysisType
<1> QED BY <1>1, <1>2, <1>3, <1>4 DEF BudgetCounts

(* How the late callers change when one worker moves and the row does not. *)
LEMMA LateMoves ==
    ASSUME AnalysisType, NEW w \in Analysts, Moves(w), analysis' = analysis
    PROVE  /\ Cardinality(LateCallers) \in Nat /\ Cardinality(LateCallers') \in Nat
           /\ w \in LateCallers /\ w \notin LateCallers' =>
                Cardinality(LateCallers') = Cardinality(LateCallers) - 1
           /\ (w \in LateCallers <=> w \in LateCallers') =>
                Cardinality(LateCallers') = Cardinality(LateCallers)
<1>0. IsFiniteSet(Analysts) /\ LateCallers \subseteq Analysts /\ LateCallers' \subseteq Analysts
  BY AnalysisAssumption DEF LateCallers
<1>1. IsFiniteSet(LateCallers) /\ IsFiniteSet(LateCallers')
      /\ Cardinality(LateCallers) \in Nat /\ Cardinality(LateCallers') \in Nat
  BY <1>0, FS_Subset, FS_CardinalityType
<1>2. \A v \in Analysts : v # w => (v \in LateCallers <=> v \in LateCallers')
  BY DEF LateCallers, Moves, Holds
<1>3. ASSUME w \in LateCallers, w \notin LateCallers'
      PROVE  Cardinality(LateCallers') = Cardinality(LateCallers) - 1
  <2>1. LateCallers' = LateCallers \ {w}
    BY <1>0, <1>2, <1>3
  <2> QED BY <1>1, <1>3, <2>1, FS_RemoveElement
<1>4. ASSUME w \in LateCallers <=> w \in LateCallers'
      PROVE  Cardinality(LateCallers') = Cardinality(LateCallers)
  <2>1. LateCallers' = LateCallers
    BY <1>0, <1>2, <1>4
  <2> QED BY <2>1
<1> QED BY <1>1, <1>3, <1>4

LEMMA RestoreStep ==
    ASSUME AnalysisInv, NEW w \in Analysts, Restore(w)
    PROVE  AnalysisInv'
<1> DEFINE seen == Before(analyst[w].attempt)
           pc == IF Cardinality(seen) =< MaxCalls /\ TokensOf(seen) =< MaxTokens
                   THEN "call" ELSE "fail"
<1>0. /\ AnalysisType /\ AttemptsPass /\ HolderCounts /\ BudgetCounts
      /\ analysis' = analysis /\ invocations' = invocations
      /\ modelCalls' = modelCalls /\ hidden' = hidden /\ analyst[w].pc = "restore"
  BY DEF AnalysisInv, Restore
<1>1. Cardinality(seen) \in Nat /\ IsFiniteSet(invocations) /\ Cardinality(invocations) \in Nat
  <2>1. seen \subseteq invocations /\ IsFiniteSet(invocations)
    BY <1>0 DEF Before, AnalysisType
  <2> QED BY <2>1, FS_Subset, FS_CardinalityType
<1>2. /\ Moves(w) /\ analyst'[w].pc = pc /\ analyst'[w].stage = analyst[w].stage
      /\ analyst'[w].attempt = analyst[w].attempt /\ analyst'[w].calls = Cardinality(seen)
  <2> DEFINE r == [analyst[w] EXCEPT !.pc = pc, !.calls = Cardinality(seen),
                                     !.tokens = TokensOf(seen)]
  <2>1. IsAnalyst(analyst[w]) /\ pc \in AnalystPC
    BY <1>0 DEF AnalysisType, AnalystPC
  <2>2. analyst' = [analyst EXCEPT ![w] = r]
    BY DEF Restore
  <2> HIDE DEF pc, seen
  <2>3. /\ IsAnalyst(r) /\ r.pc = pc /\ r.stage = analyst[w].stage
        /\ r.attempt = analyst[w].attempt /\ r.calls = Cardinality(seen)
    <3> DEFINE r1 == [analyst[w] EXCEPT !.pc = pc]
               r2 == [r1 EXCEPT !.calls = Cardinality(seen)]
    <3>1. r = [r2 EXCEPT !.tokens = TokensOf(seen)]
      BY <2>1 DEF IsAnalyst
    <3> HIDE DEF r
    <3>2. /\ IsAnalyst(r1) /\ r1.pc = pc /\ r1.stage = analyst[w].stage
          /\ r1.attempt = analyst[w].attempt
      BY <2>1, AmendPc
    <3> HIDE DEF r1
    <3>3. /\ IsAnalyst(r2) /\ r2.pc = pc /\ r2.stage = analyst[w].stage
          /\ r2.attempt = analyst[w].attempt /\ r2.calls = Cardinality(seen)
      BY <1>1, <3>2, AmendCalls
    <3> HIDE DEF r2
    <3> QED BY <3>1, <3>3, AmendTokens
  <2> HIDE DEF r
  <2>4. Moves(w) /\ analyst'[w] = r
    BY <1>0, <2>2, <2>3, AnalystMoves
  <2> QED BY <2>3, <2>4
<1>3. pc \in {"call", "fail"}
  OBVIOUS
<1>4. Holds(w) => seen = invocations
  BY <1>0 DEF Holds, HolderCounts, AttemptsPass, Made, Before, AnalysisType, IsAnalyst, IsAnalysis,
              AnalysisStages
<1> HIDE DEF seen, pc
<1>5. AnalysisType'
  <2>1. modelCalls' \in Nat
    BY <1>0 DEF AnalysisType
  <2> QED BY <1>0, <1>2, <2>1, TypeStays
<1>6. Adds(w)
  BY <1>0 DEF Adds
<1>7. AttemptsPass'
  BY <1>0, <1>2, <1>6, AttemptsPassOn
<1>8. HolderCounts' /\ Counted' >= Counted
  <2>1. CASE ~Holds(w)
    BY <1>0, <1>1, <1>2, <1>6, <2>1, HolderStays
  <2>2. CASE Holds(w)
    <3>1. analysis.owner = w /\ analyst'[w].calls = Cardinality(invocations)
      BY <1>2, <1>4, <2>2 DEF Holds
    <3>2. HolderCounts'
      BY <1>0, <1>1, <1>2, <1>3, <2>2, <3>1 DEF HolderCounts, Holds, Made
    <3>3. Counted = Cardinality(invocations) /\ Counted' = Cardinality(invocations)
      BY <1>0, <1>2, <1>3, <2>2, <3>1 DEF Counted, Holds
    <3> QED BY <1>1, <3>2, <3>3
  <2> QED BY <2>1, <2>2
<1>9. modelCalls' + Cardinality(LateCallers') =< modelCalls + Cardinality(LateCallers)
  <2>1. w \in LateCallers' => w \in LateCallers
    BY <1>0 DEF LateCallers, Holds
  <2>2. modelCalls \in Nat
    BY <1>0 DEF AnalysisType
  <2> QED BY <1>0, <1>2, <2>1, <2>2, LateMoves
<1>10. BudgetCounts'
  BY <1>0, <1>5, <1>8, <1>9, BudgetStays
<1> QED BY <1>5, <1>7, <1>8, <1>10 DEF AnalysisInv

LEMMA StartCallStep ==
    ASSUME AnalysisInv, NEW w \in Analysts, StartCall(w)
    PROVE  AnalysisInv'
<1>0. /\ AnalysisType /\ AttemptsPass /\ HolderCounts /\ BudgetCounts
      /\ analysis' = analysis /\ invocations' = invocations
      /\ hidden' = hidden /\ analyst[w].pc = "call"
  BY DEF AnalysisInv, StartCall
<1>1. MaxCalls \in Nat /\ IsFiniteSet(invocations) /\ Cardinality(invocations) \in Nat
      /\ IsAnalyst(analyst[w]) /\ modelCalls \in Nat /\ hidden \in Nat
  BY <1>0, AnalysisAssumption, FS_CardinalityType DEF AnalysisType
<1>2. Adds(w)
  BY <1>0 DEF Adds
<1>3. ASSUME analyst[w].calls < MaxCalls, modelCalls' = modelCalls + 1,
             analyst' = [analyst EXCEPT ![w] = [@ EXCEPT !.calls = analyst[w].calls + 1,
                                                    !.pc = "await"]]
      PROVE  AnalysisInv'
  <2>1. /\ Moves(w) /\ analyst'[w].pc = "await" /\ analyst'[w].stage = analyst[w].stage
        /\ analyst'[w].attempt = analyst[w].attempt /\ analyst'[w].calls = analyst[w].calls + 1
    <3> DEFINE r == [analyst[w] EXCEPT !.calls = analyst[w].calls + 1, !.pc = "await"]
    <3>1. /\ IsAnalyst(r) /\ r.pc = "await" /\ r.stage = analyst[w].stage
          /\ r.attempt = analyst[w].attempt /\ r.calls = analyst[w].calls + 1
      <4> DEFINE q == [analyst[w] EXCEPT !.calls = analyst[w].calls + 1]
      <4>1. r = [q EXCEPT !.pc = "await"]
        BY <1>1 DEF IsAnalyst
      <4> HIDE DEF r
      <4>2. analyst[w].calls + 1 \in Nat /\ "await" \in AnalystPC
        BY <1>1 DEF IsAnalyst, AnalystPC
      <4>3. /\ IsAnalyst(q) /\ q.stage = analyst[w].stage /\ q.attempt = analyst[w].attempt
            /\ q.calls = analyst[w].calls + 1
        BY <1>1, <4>2, AmendCalls
      <4> HIDE DEF q
      <4> QED BY <4>1, <4>2, <4>3, AmendPc
    <3>2. analyst' = [analyst EXCEPT ![w] = r]
      BY <1>3
    <3> HIDE DEF r
    <3>3. Moves(w) /\ analyst'[w] = r
      BY <1>0, <3>1, <3>2, AnalystMoves
    <3> QED BY <3>1, <3>3
  <2>2. AnalysisType'
    BY <1>0, <1>1, <1>3, <2>1, TypeStays
  <2>3. AttemptsPass'
    BY <1>0, <1>2, <2>1, AttemptsPassOn
  <2>4. CASE ~Holds(w)
    <3>1. HolderCounts' /\ Counted' >= Counted
      BY <1>0, <1>1, <1>2, <2>1, <2>4, HolderStays
    <3>2. w \in LateCallers /\ w \notin LateCallers'
      BY <1>0, <2>1, <2>4 DEF LateCallers
    <3>3. modelCalls' + Cardinality(LateCallers') =< modelCalls + Cardinality(LateCallers)
      BY <1>0, <1>1, <1>3, <2>1, <3>2, LateMoves
    <3> QED BY <1>0, <2>2, <2>3, <3>1, <3>3, BudgetStays DEF AnalysisInv
  <2>5. CASE Holds(w)
    <3>1. analysis.state = "running" /\ analysis.owner = w
      BY <2>5 DEF Holds
    <3>2. analyst[w].calls =< Cardinality(invocations) /\ analyst[w].calls \in Nat
      BY <1>0, <1>1, <3>1 DEF HolderCounts, IsAnalyst
    <3>3. HolderCounts'
      BY <1>0, <1>1, <2>1, <3>1, <3>2 DEF HolderCounts, Made
    <3>4. Counted = analyst[w].calls /\ Counted' = analyst[w].calls + 1
      BY <1>0, <2>1, <3>1 DEF Counted
    <3>5. w \notin LateCallers /\ w \notin LateCallers'
      BY <1>0, <2>5 DEF LateCallers, Holds
    <3>6. Cardinality(LateCallers') = Cardinality(LateCallers) /\ Cardinality(LateCallers) \in Nat
      BY <1>0, <2>1, <3>5, LateMoves
    <3>7. BudgetCounts'
      BY <1>0, <1>1, <1>3, <3>2, <3>4, <3>6 DEF BudgetCounts
    <3> QED BY <2>2, <2>3, <3>3, <3>7 DEF AnalysisInv
  <2> QED BY <2>4, <2>5
<1>4. ASSUME AnalystTo(w, "fail"), modelCalls' = modelCalls
      PROVE  AnalysisInv'
  <2>1. /\ Moves(w) /\ analyst'[w].pc = "fail" /\ analyst'[w].stage = analyst[w].stage
        /\ analyst'[w].attempt = analyst[w].attempt /\ analyst'[w].calls = analyst[w].calls
    <3>1. "fail" \in AnalystPC
      BY DEF AnalystPC
    <3> QED BY <1>0, <1>4, <3>1, PcMoves
  <2>2. AnalysisType'
    BY <1>0, <1>1, <1>4, <2>1, TypeStays
  <2>3. AttemptsPass'
    BY <1>0, <1>2, <2>1, AttemptsPassOn
  <2>4. HolderCounts' /\ Counted' >= Counted
    <3>1. CASE ~Holds(w)
      BY <1>0, <1>1, <1>2, <2>1, <3>1, HolderStays
    <3>2. CASE Holds(w)
      <4>1. HolderCounts'
        BY <1>0, <1>1, <2>1, <3>2 DEF HolderCounts, Made, Holds
      <4>2. Counted' = Counted /\ Counted \in Nat
        BY <1>0, <2>1, <3>2, CountedType DEF Counted, Holds
      <4> QED BY <4>1, <4>2
    <3> QED BY <3>1, <3>2
  <2>5. modelCalls' + Cardinality(LateCallers') =< modelCalls + Cardinality(LateCallers)
    <3>1. w \in LateCallers' => w \in LateCallers
      BY <1>0 DEF LateCallers, Holds
    <3> QED BY <1>0, <1>1, <1>4, <2>1, <3>1, LateMoves
  <2> QED BY <1>0, <2>2, <2>3, <2>4, <2>5, BudgetStays DEF AnalysisInv
<1> QED BY <1>3, <1>4 DEF StartCall

(* An answer or a failure is recorded.  The holder's is one more, so its   *)
(* count is recorded again.                                                *)
LEMMA RecordStep ==
    ASSUME AnalysisInv, NEW w \in Analysts, NEW i, Moves(w), analyst[w].pc = "await",
           analyst'[w].pc \in {"progress", "fail", "time_out"},
           analyst'[w].stage = analyst[w].stage, analyst'[w].attempt = analyst[w].attempt,
           analyst'[w].calls = analyst[w].calls,
           i.attempt = analyst[w].attempt, i.stage = analyst[w].stage,
           invocations' = invocations \cup {i},
           analysis' = analysis, modelCalls' = modelCalls, hidden' = hidden
    PROVE  AnalysisInv'
<1>0. /\ AnalysisType /\ AttemptsPass /\ HolderCounts /\ BudgetCounts
      /\ IsAnalyst(analyst[w]) /\ IsAnalysis(analysis)
      /\ IsFiniteSet(invocations) /\ modelCalls \in Nat /\ hidden \in Nat
  BY DEF AnalysisInv, AnalysisType
<1>1. /\ IsFiniteSet(invocations') /\ Cardinality(invocations) \in Nat
      /\ Cardinality(invocations') \in Nat
      /\ Cardinality(invocations) =< Cardinality(invocations')
      /\ i \notin invocations => Cardinality(invocations') = Cardinality(invocations) + 1
  <2>1. /\ Cardinality(invocations) \in Nat
        /\ i \in invocations => invocations' = invocations
    BY <1>0, FS_CardinalityType
  <2> QED BY <1>0, <2>1, FS_AddElement
<1>2. Adds(w)
  BY DEF Adds
<1>3. AnalysisType'
  <2>1. \A j \in invocations' : j.attempt \in Nat /\ j.stage \in AnalysisStages
    BY <1>0 DEF AnalysisType, IsAnalyst
  <2>2. IsAnalysis(analysis')
    BY <1>0
  <2> QED BY <1>0, <1>1, <2>1, <2>2, AnalystTypes DEF AnalysisType
<1>4. AttemptsPass'
  BY <1>0, <1>2, AttemptsPassOn
<1>5. HolderCounts' /\ Counted' >= Counted
  <2>1. CASE ~Holds(w)
    BY <1>0, <1>1, <1>2, <2>1, HolderStays
  <2>2. CASE Holds(w)
    <3>1. analysis.state = "running" /\ analysis.owner = w
      BY <2>2 DEF Holds
    <3>2. i \notin invocations
      BY <1>0, <3>1 DEF HolderCounts, Made
    <3>3. analyst[w].calls =< Cardinality(invocations) + 1 /\ analyst[w].calls \in Nat
      BY <1>0, <3>1 DEF HolderCounts, IsAnalyst
    <3>4. analyst[w].stage = "inspect" => ~Made(analyst[w].attempt, "analyze")'
      BY <1>0, <3>1 DEF HolderCounts, Made
    <3>5. HolderCounts'
      BY <1>0, <1>1, <3>1, <3>2, <3>3, <3>4 DEF HolderCounts
    <3>6. Counted' = Counted /\ Counted \in Nat
      BY <1>0, <3>1, CountedType DEF Counted
    <3> QED BY <3>5, <3>6
  <2> QED BY <2>1, <2>2
<1>6. modelCalls' + Cardinality(LateCallers') =< modelCalls + Cardinality(LateCallers)
  <2>1. w \notin LateCallers /\ w \notin LateCallers'
    BY <1>0 DEF LateCallers
  <2> QED BY <1>0, <2>1, LateMoves
<1> QED BY <1>0, <1>3, <1>4, <1>5, <1>6, BudgetStays DEF AnalysisInv

LEMMA AnswerCallStep ==
    ASSUME AnalysisInv, NEW w \in Analysts, NEW tokens \in Usages, AnswerCall(w, tokens)
    PROVE  AnalysisInv'
<1> DEFINE total == analyst[w].tokens + tokens
           pc == IF total =< MaxTokens THEN "progress" ELSE "fail"
           r1 == [analyst[w] EXCEPT !.tokens = total]
           r == [analyst[w] EXCEPT !.tokens = total, !.pc = pc]
           i == [attempt |-> analyst[w].attempt, stage |-> analyst[w].stage,
                 status |-> "succeeded", tokens |-> tokens]
<1>1. AnalysisType /\ IsAnalyst(analyst[w])
  BY DEF AnalysisInv, AnalysisType
<1>2. pc \in AnalystPC /\ pc \in {"progress", "fail"}
  BY DEF AnalystPC
<1>3. /\ analyst[w].pc = "await" /\ analyst' = [analyst EXCEPT ![w] = r]
      /\ invocations' = invocations \cup {i}
      /\ analysis' = analysis /\ modelCalls' = modelCalls /\ hidden' = hidden
  BY DEF AnswerCall, Record
<1>4. i.attempt = analyst[w].attempt /\ i.stage = analyst[w].stage
  OBVIOUS
<1> HIDE DEF total, pc, i
<1>5. r = [r1 EXCEPT !.pc = pc]
  BY <1>1 DEF IsAnalyst
<1> HIDE DEF r
<1>6. /\ IsAnalyst(r1) /\ r1.stage = analyst[w].stage /\ r1.attempt = analyst[w].attempt
      /\ r1.calls = analyst[w].calls
  BY <1>1, AmendTokens
<1> HIDE DEF r1
<1>7. /\ IsAnalyst(r) /\ r.pc = pc /\ r.stage = analyst[w].stage
      /\ r.attempt = analyst[w].attempt /\ r.calls = analyst[w].calls
  BY <1>2, <1>5, <1>6, AmendPc
<1>8. Moves(w) /\ analyst'[w] = r
  BY <1>1, <1>3, <1>7, AnalystMoves
<1> QED BY <1>2, <1>3, <1>4, <1>7, <1>8, RecordStep

LEMMA FailCallStep ==
    ASSUME AnalysisInv, NEW w \in Analysts, NEW tokens, FailCall(w, tokens)
    PROVE  AnalysisInv'
<1>1. AnalysisType
  BY DEF AnalysisInv
<1>2. ASSUME NEW pc \in {"fail", "time_out"}, NEW status,
             AnalystTo(w, pc), Record(w, status, tokens)
      PROVE  AnalysisInv'
  <2> DEFINE i == [attempt |-> analyst[w].attempt, stage |-> analyst[w].stage,
                   status |-> status, tokens |-> tokens]
  <2>1. pc \in AnalystPC
    BY DEF AnalystPC
  <2>2. /\ Moves(w) /\ analyst'[w].pc = pc /\ analyst'[w].stage = analyst[w].stage
        /\ analyst'[w].attempt = analyst[w].attempt /\ analyst'[w].calls = analyst[w].calls
    BY <1>1, <1>2, <2>1, PcMoves
  <2>3. invocations' = invocations \cup {i}
    BY <1>2 DEF Record
  <2>4. i.attempt = analyst[w].attempt /\ i.stage = analyst[w].stage
    OBVIOUS
  <2>5. /\ analyst[w].pc = "await"
        /\ analysis' = analysis /\ modelCalls' = modelCalls /\ hidden' = hidden
    BY DEF FailCall
  <2> HIDE DEF i
  <2> QED BY <2>2, <2>3, <2>4, <2>5, RecordStep
<1> QED BY <1>2 DEF FailCall

(* A worker between two calls moves on: nothing is counted.                *)
LEMMA MoveOnStep ==
    ASSUME AnalysisInv, NEW w \in Analysts, Moves(w),
           analyst[w].pc \in {"progress", "succeed"},
           analyst'[w].attempt = analyst[w].attempt, analyst'[w].calls = analyst[w].calls,
           \/ /\ analyst'[w].pc \in {"fail", "cancel", "succeed"}
              /\ analyst'[w].stage = analyst[w].stage
           \/ /\ Holds(w) /\ analyst[w].stage = "inspect"
              /\ analyst'[w].pc = "call" /\ analyst'[w].stage = "analyze",
           analysis' = analysis, invocations' = invocations,
           modelCalls' = modelCalls, hidden' = hidden
    PROVE  AnalysisInv'
<1>1. /\ AnalysisType /\ AttemptsPass /\ HolderCounts /\ BudgetCounts
      /\ modelCalls \in Nat /\ hidden \in Nat
      /\ IsFiniteSet(invocations) /\ Cardinality(invocations) \in Nat
  BY FS_CardinalityType DEF AnalysisInv, AnalysisType
<1>2. Adds(w)
  BY DEF Adds
<1>3. AnalysisType'
  BY <1>1, TypeStays
<1>4. AttemptsPass'
  BY <1>1, <1>2, AttemptsPassOn
<1>5. HolderCounts' /\ Counted' >= Counted
  <2>1. CASE ~Holds(w)
    BY <1>1, <1>2, <2>1, HolderStays
  <2>2. CASE Holds(w)
    <3>1. analysis.state = "running" /\ analysis.owner = w
      BY <2>2 DEF Holds
    <3>2. HolderCounts'
      BY <1>1, <3>1 DEF HolderCounts, Made
    <3>3. Counted' = Counted /\ Counted \in Nat
      BY <1>1, <3>1, CountedType DEF Counted
    <3> QED BY <3>2, <3>3
  <2> QED BY <2>1, <2>2
<1>6. modelCalls' + Cardinality(LateCallers') =< modelCalls + Cardinality(LateCallers)
  <2>1. w \notin LateCallers /\ w \notin LateCallers'
    BY DEF LateCallers, Holds
  <2> QED BY <1>1, <2>1, LateMoves
<1> QED BY <1>1, <1>3, <1>4, <1>5, <1>6, BudgetStays DEF AnalysisInv

LEMMA GiveUpStep ==
    ASSUME AnalysisInv, NEW w \in Analysts, NEW pc \in {"fail", "cancel", "succeed"},
           analyst[w].pc \in {"progress", "succeed"}, AnalystTo(w, pc),
           analysis' = analysis, invocations' = invocations,
           modelCalls' = modelCalls, hidden' = hidden
    PROVE  AnalysisInv'
<1>1. pc \in AnalystPC /\ AnalysisType
  BY DEF AnalystPC, AnalysisInv
<1>2. /\ Moves(w) /\ analyst'[w].pc = pc /\ analyst'[w].stage = analyst[w].stage
      /\ analyst'[w].attempt = analyst[w].attempt /\ analyst'[w].calls = analyst[w].calls
  BY <1>1, PcMoves
<1> QED BY <1>2, MoveOnStep

LEMMA ProgressStep ==
    ASSUME AnalysisInv, NEW w \in Analysts, Progress(w)
    PROVE  AnalysisInv'
<1>1. /\ AnalysisType /\ IsAnalyst(analyst[w]) /\ analyst[w].pc \in {"progress", "succeed"}
      /\ analysis' = analysis /\ invocations' = invocations
      /\ modelCalls' = modelCalls /\ hidden' = hidden
  BY DEF AnalysisInv, AnalysisType, Progress
<1>2. ASSUME NEW pc \in {"fail", "cancel", "succeed"}, AnalystTo(w, pc)
      PROVE  AnalysisInv'
  BY <1>1, <1>2, GiveUpStep
<1>3. ASSUME Holds(w), analyst[w].stage # "analyze",
             analyst' = [analyst EXCEPT ![w] = [@ EXCEPT !.pc = "call", !.stage = "analyze"]]
      PROVE  AnalysisInv'
  <2> DEFINE r1 == [analyst[w] EXCEPT !.pc = "call"]
             r == [analyst[w] EXCEPT !.pc = "call", !.stage = "analyze"]
  <2>1. r = [r1 EXCEPT !.stage = "analyze"] /\ analyst' = [analyst EXCEPT ![w] = r]
    BY <1>1, <1>3 DEF IsAnalyst
  <2> HIDE DEF r
  <2>2. "call" \in AnalystPC /\ "analyze" \in AnalysisStages /\ analyst[w].stage = "inspect"
    BY <1>1, <1>3 DEF AnalystPC, AnalysisStages, IsAnalyst
  <2>3. /\ IsAnalyst(r1) /\ r1.pc = "call" /\ r1.attempt = analyst[w].attempt
        /\ r1.calls = analyst[w].calls
    BY <1>1, <2>2, AmendPc
  <2> HIDE DEF r1
  <2>4. /\ IsAnalyst(r) /\ r.pc = "call" /\ r.stage = "analyze"
        /\ r.attempt = analyst[w].attempt /\ r.calls = analyst[w].calls
    BY <2>1, <2>2, <2>3, AmendStage
  <2>5. Moves(w) /\ analyst'[w] = r
    BY <1>1, <2>1, <2>4, AnalystMoves
  <2> QED BY <1>1, <1>3, <2>2, <2>4, <2>5, MoveOnStep
<1> QED BY <1>2, <1>3 DEF Progress

(* The row changes under no worker's feet: it stays running, or stays not. *)
LEMMA RowStep ==
    ASSUME AnalysisInv, IsAnalysis(analysis'), analysis'.attempt = analysis.attempt,
           analysis'.state = "running" <=> analysis.state = "running",
           analysis.state = "running" => analysis'.owner = analysis.owner,
           UNCHANGED <<analyst, invocations, modelCalls, hidden>>
    PROVE  AnalysisInv'
<1>1. AnalysisType'
  BY DEF AnalysisInv, AnalysisType
<1>2. \A w \in Analysts : Holds(w) <=> (analysis'.state = "running" /\ analysis'.owner = w)
  BY DEF Holds
<1>3. AttemptsPass'
  BY <1>2 DEF AnalysisInv, AttemptsPass, Holds
<1>4. HolderCounts'
  BY DEF AnalysisInv, HolderCounts, Made
<1>5. LateCallers' = LateCallers
  BY <1>2 DEF LateCallers, Holds
<1>6. Counted' = Counted
  BY DEF Counted
<1> QED BY <1>1, <1>3, <1>4, <1>5, <1>6 DEF AnalysisInv, BudgetCounts

(* Nobody holds the lease any more, and what was counted is recorded but   *)
(* for what is hidden from now on.                                         *)
LEMMA ReleaseStep ==
    ASSUME AnalysisInv, AnalysisType', analysis.state = "running",
           analysis'.state # "running", analysis'.attempt = analysis.attempt,
           invocations' = invocations, modelCalls' = modelCalls,
           \A v \in Analysts : v # analysis.owner => analyst'[v] = analyst[v],
           \/ /\ analyst'[analysis.owner].pc = "away"
              /\ IF analyst[analysis.owner].pc = "await"
                   THEN hidden' = hidden + 1 ELSE hidden' = hidden
           \/ /\ analyst'[analysis.owner] = analyst[analysis.owner]
              /\ IF analyst[analysis.owner].pc \in {"restore", "call", "await"}
                   THEN hidden' = hidden + 1 ELSE hidden' = hidden
    PROVE  AnalysisInv'
<1> DEFINE w == analysis.owner
<1>0. /\ AnalysisType /\ AttemptsPass /\ HolderCounts /\ BudgetCounts /\ w \in Analysts /\ Holds(w)
      /\ MaxCalls \in Nat /\ modelCalls \in Nat /\ hidden \in Nat
      /\ Cardinality(invocations) \in Nat
  BY AnalysisAssumption, FS_CardinalityType
     DEF AnalysisInv, AnalysisType, HolderCounts, Holds
<1>1. IsFiniteSet(LateCallers) /\ Cardinality(LateCallers) \in Nat
  BY LateFinite, AnalysisAssumption
<1>2. HolderCounts'
  BY DEF HolderCounts
<1>3. \A v \in Analysts : analyst[v].attempt \in Nat /\ analysis.attempt \in Nat
  BY <1>0 DEF AnalysisType, IsAnalyst, IsAnalysis
<1>4. AttemptsPass'
  BY <1>0, <1>3 DEF AttemptsPass, HolderCounts
<1>5. \A v \in Analysts : v # w => (v \in LateCallers <=> v \in LateCallers')
  BY <1>0 DEF LateCallers, Holds
<1>6. Counted' = Cardinality(invocations) /\ w \notin LateCallers
  BY <1>0 DEF Counted, LateCallers
<1>7. analyst[w].pc \notin {"restore", "await"} =>
         Counted =< Cardinality(invocations) /\ Counted \in Nat
  BY <1>0, CountedType DEF Counted, HolderCounts
<1>8. analyst[w].pc = "await" => Counted =< Cardinality(invocations) + 1 /\ Counted \in Nat
  BY <1>0, CountedType DEF Counted, HolderCounts
<1>9. analyst[w].pc = "restore" => Counted = Cardinality(invocations)
  BY <1>0 DEF Counted
<1>10. ASSUME w \notin LateCallers'
       PROVE  Cardinality(LateCallers') = Cardinality(LateCallers)
  <2>1. LateCallers' = LateCallers
    BY <1>5, <1>6, <1>10 DEF LateCallers
  <2> QED BY <2>1
<1>11. Cardinality(LateCallers') \in Nat
       /\ Cardinality(LateCallers') =< Cardinality(LateCallers) + 1
  <2>1. CASE w \in LateCallers'
    <3>1. LateCallers' = LateCallers \cup {w}
      BY <1>0, <1>5, <2>1 DEF LateCallers
    <3>2. Cardinality(LateCallers') = Cardinality(LateCallers) + 1
      BY <1>1, <1>6, <3>1, FS_AddElement
    <3> QED BY <1>1, <3>2
  <2> QED BY <1>1, <1>10, <2>1
<1>12. analyst'[w].pc = "away" \/ analyst'[w].pc \notin {"restore", "call"} => w \notin LateCallers'
  BY DEF LateCallers
<1>13. BudgetCounts'
  BY <1>0, <1>1, <1>6, <1>7, <1>8, <1>9, <1>10, <1>11, <1>12 DEF BudgetCounts
<1> QED BY <1>2, <1>4, <1>13 DEF AnalysisInv

LEMMA AwayIsAnalyst == IsAnalyst(Away) /\ Away.pc = "away"
BY DEF IsAnalyst, Away, AnalystPC, AnalysisStages

(* The record of a worker that has just leased the job.                    *)
Leased(a) == [Away EXCEPT !.pc = "restore", !.attempt = a]

LEMMA LeasedIsAnalyst ==
    ASSUME NEW a \in Nat
    PROVE  /\ IsAnalyst(Leased(a)) /\ Leased(a).pc = "restore"
           /\ Leased(a).stage = "inspect" /\ Leased(a).attempt = a
<1> DEFINE r1 == [Away EXCEPT !.pc = "restore"]
<1>1. Leased(a) = [r1 EXCEPT !.attempt = a]
  BY DEF Leased, Away
<1>2. "restore" \in AnalystPC /\ Away.stage = "inspect"
  BY DEF Away, AnalystPC
<1>3. IsAnalyst(r1) /\ r1.pc = "restore" /\ r1.stage = "inspect"
  BY <1>2, AwayIsAnalyst, AmendPc
<1> HIDE DEF r1
<1> QED BY <1>1, <1>3, AmendAttempt

(* A worker that does not hold the lease leaves.                           *)
LEMMA LeaveStep ==
    ASSUME AnalysisInv, NEW w \in Analysts, ~Holds(w),
           analyst[w].pc \notin {"restore", "call"},
           analyst' = [analyst EXCEPT ![w] = Away],
           UNCHANGED <<analysis, invocations, modelCalls, hidden>>
    PROVE  AnalysisInv'
<1>1. /\ AnalysisType /\ AttemptsPass /\ HolderCounts /\ BudgetCounts
      /\ modelCalls \in Nat
  BY DEF AnalysisInv, AnalysisType
<1>2. Moves(w) /\ analyst'[w] = Away /\ analyst'[w].pc = "away"
  BY <1>1, AwayIsAnalyst, AnalystMoves
<1>3. AnalysisType'
  BY <1>1, <1>2, TypeStays
<1>4. AttemptsPass'
  BY <1>1, <1>2 DEF AttemptsPass, Moves, Holds
<1>5. HolderCounts' /\ Counted' = Counted
  <2>1. CASE analysis.state = "running"
    <3>1. analysis.owner \in Analysts /\ analyst'[analysis.owner] = analyst[analysis.owner]
      BY <1>1, <1>2, <2>1 DEF HolderCounts, Moves, Holds
    <3> QED BY <1>1, <2>1, <3>1 DEF HolderCounts, Made, Counted
  <2>2. CASE analysis.state # "running"
    BY <2>2 DEF HolderCounts, Counted
  <2> QED BY <2>1, <2>2
<1>6. modelCalls' + Cardinality(LateCallers') =< modelCalls + Cardinality(LateCallers)
  <2>1. w \notin LateCallers /\ w \notin LateCallers'
    BY <1>2 DEF LateCallers
  <2> QED BY <1>1, <1>2, <2>1, LateMoves
<1>7. Counted \in Nat
  BY <1>1, CountedType
<1> QED BY <1>1, <1>3, <1>4, <1>5, <1>6, <1>7, BudgetStays DEF AnalysisInv

(* The row after cancellation is asked for, or no longer asked for.        *)
LEMMA CancelFields ==
    ASSUME NEW r, IsAnalysis(r), NEW cancel, NEW q, q = [r EXCEPT !.cancel = cancel]
    PROVE  /\ IsAnalysis(q) /\ q.state = r.state /\ q.owner = r.owner
           /\ q.attempt = r.attempt
BY DEF IsAnalysis

(* The row after its state and holder change.                              *)
LEMMA RowFields ==
    ASSUME IsAnalysis(analysis), NEW state \in AnalysisStates, NEW owner,
           analysis' = [analysis EXCEPT !.state = state, !.owner = owner]
    PROVE  /\ IsAnalysis(analysis') /\ analysis'.state = state
           /\ analysis'.owner = owner /\ analysis'.attempt = analysis.attempt
<1> DEFINE r1 == [analysis EXCEPT !.state = state]
<1>1. /\ IsAnalysis(r1) /\ r1.state = state /\ r1.attempt = analysis.attempt
  BY DEF IsAnalysis
<1>2. analysis' = [r1 EXCEPT !.owner = owner]
  BY DEF IsAnalysis
<1> HIDE DEF r1
<1> QED BY <1>1, <1>2 DEF IsAnalysis

(* The holder ends the job and leaves.                                     *)
LEMMA HolderLeaves ==
    ASSUME AnalysisInv, NEW w \in Analysts, Holds(w), NEW state \in Ended,
           analyst[w].pc \notin {"restore", "call", "await"},
           analysis' = [analysis EXCEPT !.state = state, !.owner = NoAnalyst],
           analyst' = [analyst EXCEPT ![w] = Away],
           UNCHANGED <<invocations, modelCalls, hidden>>
    PROVE  AnalysisInv'
<1>1. AnalysisType /\ IsAnalysis(analysis)
  BY DEF AnalysisInv, AnalysisType
<1>2. state \in AnalysisStates /\ state # "running"
  BY DEF AnalysisStates, Ended
<1>3. /\ IsAnalysis(analysis') /\ analysis'.state = state /\ analysis'.attempt = analysis.attempt
  BY <1>1, <1>2, RowFields
<1>4. Moves(w) /\ analyst'[w].pc = "away"
  BY <1>1, AwayIsAnalyst, AnalystMoves
<1>5. AnalysisType'
  BY <1>1, <1>3, <1>4, AnalystTypes DEF AnalysisType
<1>6. analysis.state = "running" /\ analysis.owner = w
  BY DEF Holds
<1>7. \A v \in Analysts : v # analysis.owner => analyst'[v] = analyst[v]
  BY <1>4, <1>6 DEF Moves
<1> QED BY <1>2, <1>3, <1>4, <1>5, <1>6, <1>7, ReleaseStep

LEMMA SucceedAnalysisStep ==
    ASSUME AnalysisInv, NEW w \in Analysts, SucceedAnalysis(w)
    PROVE  AnalysisInv'
<1>1. /\ analyst[w].pc = "succeed" /\ UNCHANGED <<invocations, modelCalls, hidden>>
  BY DEF SucceedAnalysis
<1>2. CASE /\ Holds(w) /\ analysis' = [analysis EXCEPT !.state = "succeeded", !.owner = NoAnalyst]
           /\ analyst' = [analyst EXCEPT ![w] = Away]
  <2>1. "succeeded" \in Ended
    BY DEF Ended
  <2> QED BY <1>1, <1>2, <2>1, HolderLeaves
<1>3. CASE AnalystTo(w, "fail") /\ analysis' = analysis
  BY <1>1, <1>3, GiveUpStep
<1> QED BY <1>2, <1>3 DEF SucceedAnalysis

LEMMA EndAnalysisStep ==
    ASSUME AnalysisInv, NEW w \in Analysts, EndAnalysis(w)
    PROVE  AnalysisInv'
<1> DEFINE outcome == IF analyst[w].pc = "time_out" THEN "timed_out"
                      ELSE IF analyst[w].pc = "cancel" \/ analysis.cancel THEN "cancelled"
                      ELSE "failed"
<1>1. /\ analyst[w].pc \in {"fail", "time_out", "cancel"}
      /\ analyst' = [analyst EXCEPT ![w] = Away]
      /\ UNCHANGED <<invocations, modelCalls, hidden>>
      /\ analysis' = IF Holds(w)
                       THEN [analysis EXCEPT !.state = outcome, !.owner = NoAnalyst]
                       ELSE analysis
  BY DEF EndAnalysis
<1>2. outcome \in Ended
  BY DEF Ended
<1> HIDE DEF outcome
<1>3. CASE Holds(w)
  BY <1>1, <1>2, <1>3, HolderLeaves
<1>4. CASE ~Holds(w)
  BY <1>1, <1>4, LeaveStep
<1> QED BY <1>3, <1>4

(* lease_next: a queued job, a worker that is nowhere, the next attempt.   *)
LEMMA LeaseAnalysisStep ==
    ASSUME AnalysisInv, NEW w \in Analysts, LeaseAnalysis(w)
    PROVE  AnalysisInv'
<1> DEFINE r == Leased(analysis.attempt + 1)
           a1 == [analysis EXCEPT !.state = "running"]
           a2 == [a1 EXCEPT !.owner = w]
<1>1. /\ AnalysisType /\ AttemptsPass /\ HolderCounts /\ BudgetCounts /\ IsAnalysis(analysis)
      /\ modelCalls \in Nat /\ hidden \in Nat /\ Cardinality(invocations) \in Nat
      /\ analysis.attempt \in Nat /\ analysis.attempt + 1 \in Nat
  <2>1. analysis.attempt \in Nat
    BY DEF AnalysisInv, AnalysisType, IsAnalysis
  <2> QED BY <2>1, FS_CardinalityType DEF AnalysisInv, AnalysisType
<1>2. /\ analysis.state = "queued" /\ analyst[w].pc = "away"
      /\ analyst' = [analyst EXCEPT ![w] = r]
      /\ invocations' = invocations /\ modelCalls' = modelCalls /\ hidden' = hidden
  BY DEF LeaseAnalysis, Leased
<1>3. IsAnalyst(r) /\ r.pc = "restore" /\ r.stage = "inspect" /\ r.attempt = analysis.attempt + 1
  BY <1>1, LeasedIsAnalyst
<1> HIDE DEF r
<1>4. Moves(w) /\ analyst'[w] = r
  BY <1>1, <1>2, <1>3, AnalystMoves
<1>5. /\ IsAnalysis(analysis') /\ analysis'.state = "running"
      /\ analysis'.owner = w /\ analysis'.attempt = analysis.attempt + 1
  <2>1. analysis' = [a2 EXCEPT !.attempt = analysis.attempt + 1]
    BY <1>1 DEF LeaseAnalysis, IsAnalysis
  <2>2. IsAnalysis(a1) /\ a1.state = "running" /\ a1.attempt = analysis.attempt
    BY <1>1 DEF IsAnalysis, AnalysisStates
  <2> HIDE DEF a1
  <2>3. IsAnalysis(a2) /\ a2.state = "running" /\ a2.owner = w /\ a2.attempt = analysis.attempt
    BY <2>2 DEF IsAnalysis
  <2> HIDE DEF a2
  <2> QED BY <1>1, <2>1, <2>3 DEF IsAnalysis
<1>6. AnalysisType'
  BY <1>1, <1>2, <1>4, <1>5, AnalystTypes DEF AnalysisType
<1>7. \A v \in Analysts : analyst[v].attempt \in Nat
  BY <1>1 DEF AnalysisType, IsAnalyst
<1>8. \A i \in invocations : i.attempt \in Nat /\ i.attempt =< analysis.attempt
  BY <1>1 DEF AnalysisType, AttemptsPass
<1>9. AttemptsPass'
  BY <1>1, <1>2, <1>3, <1>4, <1>5, <1>7, <1>8 DEF AttemptsPass, Moves, Holds
<1>10. \A i \in invocations : i.attempt # analysis.attempt + 1
  BY <1>1, <1>8
<1>11. HolderCounts'
  BY <1>2, <1>3, <1>4, <1>5, <1>10 DEF HolderCounts, Made
<1>12. LateCallers' = LateCallers
  BY <1>2, <1>4, <1>5 DEF LateCallers, Holds, Moves
<1>13. Counted' = Counted
  BY <1>2, <1>3, <1>4, <1>5 DEF Counted
<1>14. BudgetCounts'
  BY <1>1, <1>2, <1>12, <1>13 DEF BudgetCounts
<1> QED BY <1>6, <1>9, <1>11, <1>14 DEF AnalysisInv

LEMMA LoseLeaseStep ==
    ASSUME AnalysisInv, NEW dies \in BOOLEAN, LoseLease(dies)
    PROVE  AnalysisInv'
<1> DEFINE w == analysis.owner
           state == IF analysis.cancel THEN "cancelled"
                    ELSE IF analysis.attempt =< MaxRetries THEN "queued" ELSE "timed_out"
<1>1. /\ AnalysisType /\ IsAnalysis(analysis) /\ hidden \in Nat /\ hidden + 1 \in Nat
      /\ analysis.state = "running" /\ w \in Analysts
  <2>1. hidden \in Nat
    BY DEF AnalysisInv, AnalysisType
  <2> QED BY <2>1 DEF AnalysisInv, AnalysisType, HolderCounts, LoseLease
<1>2. state \in AnalysisStates /\ state # "running"
  BY DEF AnalysisStates, Ended
<1>3. analysis' = [analysis EXCEPT !.state = state, !.owner = NoAnalyst]
  <2> DEFINE r1 == [analysis EXCEPT !.owner = NoAnalyst]
             r2 == [analysis EXCEPT !.state = state]
  <2>1. analysis' = [r1 EXCEPT !.state = state]
    BY <1>1 DEF LoseLease, IsAnalysis
  <2>2. [r1 EXCEPT !.state = state] = [r2 EXCEPT !.owner = NoAnalyst]
    BY <1>1 DEF IsAnalysis
  <2>3. [analysis EXCEPT !.state = state, !.owner = NoAnalyst] = [r2 EXCEPT !.owner = NoAnalyst]
    BY <1>1 DEF IsAnalysis
  <2> QED BY <2>1, <2>2, <2>3
<1> HIDE DEF state
<1>4. /\ IsAnalysis(analysis') /\ analysis'.state = state /\ analysis'.attempt = analysis.attempt
  BY <1>1, <1>2, <1>3, RowFields
<1>5. /\ invocations' = invocations /\ modelCalls' = modelCalls
      /\ hidden' = IF \/ analyst[w].pc = "await"
                      \/ analyst[w].pc \in {"restore", "call"} /\ ~dies
                     THEN hidden + 1 ELSE hidden
      /\ analyst' = IF dies THEN [analyst EXCEPT ![w] = Away] ELSE analyst
  BY DEF LoseLease
<1>6. CASE dies
  <2>1. Moves(w) /\ analyst'[w].pc = "away"
    BY <1>1, <1>5, <1>6, AwayIsAnalyst, AnalystMoves
  <2>2. AnalysisType'
    BY <1>1, <1>4, <1>5, <2>1, AnalystTypes DEF AnalysisType
  <2>3. \A v \in Analysts : v # analysis.owner => analyst'[v] = analyst[v]
    BY <2>1 DEF Moves
  <2> QED BY <1>1, <1>2, <1>4, <1>5, <1>6, <2>1, <2>2, <2>3, ReleaseStep
<1>7. CASE ~dies
  <2>1. analyst' = analyst
    BY <1>5, <1>7
  <2>2. AnalysisType'
    BY <1>1, <1>4, <1>5, <2>1 DEF AnalysisType
  <2> QED BY <1>1, <1>2, <1>4, <1>5, <1>7, <2>1, <2>2, ReleaseStep
<1> QED BY <1>6, <1>7

LEMMA RowSteps ==
    ASSUME AnalysisInv, RequestAnalysis \/ CancelAnalysis \/ RetryAnalysis
    PROVE  AnalysisInv'
<1>1. IsAnalysis(analysis) /\ UNCHANGED <<analyst, invocations, modelCalls, hidden>>
  BY DEF AnalysisInv, AnalysisType, RequestAnalysis, CancelAnalysis, RetryAnalysis
<1>2. CASE RequestAnalysis
  <2>1. /\ IsAnalysis(analysis') /\ analysis'.attempt = analysis.attempt
        /\ analysis.state = "absent" /\ analysis'.state = "queued"
    BY <1>1, <1>2 DEF RequestAnalysis, IsAnalysis, AnalysisStates
  <2> QED BY <1>1, <2>1, RowStep
<1>3. CASE CancelAnalysis
  <2> DEFINE r1 == [analysis EXCEPT !.cancel = TRUE]
             state == IF analysis.state = "queued" THEN "cancelled" ELSE analysis.state
  <2>1. analysis' = [r1 EXCEPT !.state = state]
    BY <1>1, <1>3 DEF CancelAnalysis, IsAnalysis
  <2>2. /\ IsAnalysis(r1) /\ r1.attempt = analysis.attempt /\ r1.state = analysis.state
        /\ r1.owner = analysis.owner
    BY <1>1, CancelFields
  <2>3. /\ state \in AnalysisStates /\ (state = "running" <=> analysis.state = "running")
    BY <1>1, <1>3 DEF CancelAnalysis, AnalysisStates, Ended
  <2> HIDE DEF r1, state
  <2>4. /\ IsAnalysis(analysis') /\ analysis'.attempt = analysis.attempt
        /\ analysis'.state = state /\ analysis'.owner = analysis.owner
    BY <2>1, <2>2, <2>3 DEF IsAnalysis
  <2> QED BY <1>1, <2>3, <2>4, RowStep
<1>4. CASE RetryAnalysis
  <2> DEFINE r1 == [analysis EXCEPT !.state = "queued"]
  <2>1. analysis' = [r1 EXCEPT !.cancel = FALSE]
    BY <1>1, <1>4 DEF RetryAnalysis, IsAnalysis
  <2>2. /\ IsAnalysis(r1) /\ r1.attempt = analysis.attempt /\ r1.state = "queued"
    BY <1>1 DEF IsAnalysis, AnalysisStates
  <2>3. analysis.state # "running"
    BY <1>4 DEF RetryAnalysis, Ended
  <2> HIDE DEF r1
  <2>4. /\ IsAnalysis(analysis') /\ analysis'.attempt = analysis.attempt
        /\ analysis'.state = "queued"
    BY <2>1, <2>2, CancelFields
  <2> QED BY <1>1, <2>3, <2>4, RowStep
<1> QED BY <1>2, <1>3, <1>4

LEMMA AnalysisStep == AnalysisInv /\ [AnalysisNext]_analysisVars => AnalysisInv'
<1> SUFFICES ASSUME AnalysisInv, [AnalysisNext]_analysisVars
             PROVE  AnalysisInv'
  OBVIOUS
<1>1. CASE RequestAnalysis \/ CancelAnalysis \/ RetryAnalysis
  BY <1>1, RowSteps
<1>2. ASSUME NEW w \in Analysts, AnalystStep(w)
      PROVE  AnalysisInv'
  BY <1>2, LeaseAnalysisStep, RestoreStep, StartCallStep, ProgressStep, SucceedAnalysisStep,
     EndAnalysisStep, AnswerCallStep, FailCallStep DEF AnalystStep
<1>3. ASSUME NEW dies \in BOOLEAN, LoseLease(dies)
      PROVE  AnalysisInv'
  BY <1>3, LoseLeaseStep
<1>4. CASE UNCHANGED analysisVars
  <2>1. IsAnalysis(analysis') /\ UNCHANGED <<analysis, analyst, invocations, modelCalls, hidden>>
    BY <1>4 DEF analysisVars, AnalysisInv, AnalysisType
  <2> QED BY <2>1, RowStep
<1> QED BY <1>1, <1>2, <1>3, <1>4 DEF AnalysisNext

(* However many workers, attempts, losses and manual retries there are,    *)
(* the provider is asked no more often than the budget allows and the lost *)
(* attempts hid (_restore_budget_ledger, start_invocation).                *)
THEOREM BudgetIsKept == AnalysisSpec => []OverspendIsHidden
<1>1. AnalysisInv => OverspendIsHidden
  <2> SUFFICES ASSUME AnalysisInv
               PROVE  OverspendIsHidden
    OBVIOUS
  <2>1. Cardinality(LateCallers) \in Nat
    BY LateFinite, AnalysisAssumption
  <2>2. modelCalls \in Nat /\ hidden \in Nat /\ MaxCalls \in Nat
    BY AnalysisAssumption DEF AnalysisInv, AnalysisType
  <2> QED BY <2>1, <2>2 DEF AnalysisInv, BudgetCounts, OverspendIsHidden
<1> QED BY AnalysisInitial, AnalysisStep, <1>1, PTL DEF AnalysisSpec

-----------------------------------------------------------------------------
(* Discovery: a run whose results are written keeps them, and the numbers  *)
(* of the writes are all different.                                        *)

ScanStates == {"none", "search", "compare", "notify", "over"}
RunStates == {"none", "running", "completed", "failed"}

ScansType ==
    /\ today \in Nat
    /\ scans \in [Scans -> [status : RunStates, day : Nat, found : Findings, done : Nat]]
    /\ scanning \in [Scans -> ScanStates]
    /\ prior \in [Scans -> [scan : 0..MaxScans, shortlist : SUBSET Issues]]
    /\ picks \subseteq [day : Nat, issue : Issues, scan : Scans]
    /\ notices \subseteq [kind : {"new_match", "shortlist_updated"},
                          issue : Issues, scan : Scans]

ScansInv ==
    /\ ScansType
    /\ \A s \in Scans : scanning[s] \in {"none", "search"} => scans[s].done = 0
    /\ \A s \in Scans : scanning[s] \in {"compare", "notify"} =>
                          Written(s) /\ scans[s].status = "completed"
    /\ \A s \in Scans : scans[s].status = "completed" => Written(s)
    /\ \A s \in Scans : scans[s].done =< DoneBy
    /\ \A r, s \in Scans : Written(r) /\ scans[r].done = scans[s].done => r = s

(* No run completed between the one a scan compares itself with and it.    *)
PriorIsLast(s) ==
    /\ prior[s].scan # 0 => DoneBefore(prior[s].scan, s)
    /\ \A r \in Scans : DoneBefore(r, s) /\ scans[r].status = "completed" =>
         prior[s].scan # 0 /\ ~DoneBefore(prior[s].scan, r)

NoticesInv ==
    /\ \A s \in Scans : scanning[s] = "notify" => PriorIsLast(s)
    /\ \A n \in notices :
         /\ scanning[n.scan] = "over" /\ scans[n.scan].status = "completed"
         /\ n.issue \in Found(n.scan)
         /\ n.kind = "new_match" => n.issue \in NewlyFound(n.scan) /\ PriorIsLast(n.scan)

DiscoveryInv == ScansInv /\ NoticesInv /\ LeaderboardIsWhole

LEMMA EmptyFinding == <<>> \in Findings
<1>1. <<>> \in [{} -> Facts]
  OBVIOUS
<1> QED BY <1>1 DEF Findings

LEMMA DiscoveryInitial == DiscoveryInit => DiscoveryInv
<1> SUFFICES ASSUME DiscoveryInit PROVE DiscoveryInv
  OBVIOUS
<1>0. MaxScans \in Nat
  BY DiscoveryAssumption
<1>1. NoScan \in [status : RunStates, day : Nat, found : Findings, done : Nat]
  BY EmptyFinding DEF NoScan, RunStates
<1>2. NoPrior \in [scan : 0..MaxScans, shortlist : SUBSET Issues]
  BY <1>0 DEF NoPrior
<1>3. ScansType
  BY <1>1, <1>2 DEF DiscoveryInit, ScansType, ScanStates
<1>4. \A s \in Scans : scans[s].done = 0 /\ scans[s].status = "none" /\ ~Written(s)
  BY DEF DiscoveryInit, NoScan, Written
<1>5. {s \in Scans : Written(s)} = {}
  BY <1>4
<1>6. DoneBy = 0
  BY <1>5, FS_EmptySet DEF DoneBy
<1>7. ScansInv
  BY <1>3, <1>4, <1>6 DEF ScansInv, DiscoveryInit
<1>8. NoticesInv
  BY DEF NoticesInv, DiscoveryInit
<1>9. LeaderboardIsWhole
  BY <1>4 DEF LeaderboardIsWhole, DiscoveryInit, LastOfDay
<1> QED BY <1>7, <1>8, <1>9 DEF DiscoveryInv

LEMMA DoneIsCounted ==
    /\ IsFiniteSet({s \in Scans : Written(s)}) /\ DoneBy \in Nat
    /\ IsFiniteSet({s \in Scans : Written(s)})' /\ (DoneBy \in Nat)'
<1>0. MaxScans \in Nat
  BY DiscoveryAssumption
<1>1. IsFiniteSet(Scans)
  BY <1>0, FS_Interval DEF Scans
<1>2. IsFiniteSet({s \in Scans : Written(s)}) /\ IsFiniteSet({s \in Scans : Written(s)})'
  BY <1>1, FS_Subset
<1> QED BY <1>2, FS_CardinalityType DEF DoneBy

(* A step that leaves the written runs, their days and what they found.    *)
LEMMA ScansStay ==
    ASSUME DiscoveryInv,
           scans' \in [Scans -> [status : RunStates, day : Nat, found : Findings, done : Nat]],
           \A s \in Scans : /\ scans'[s].done = scans[s].done
                            /\ scans'[s].found = scans[s].found
                            /\ Written(s) => scans'[s].day = scans[s].day
           
    PROVE  /\ \A s \in Scans : Written(s)' <=> Written(s)
           /\ \A r, s \in Scans : DoneBefore(r, s)' <=> DoneBefore(r, s)
           /\ DoneBy' = DoneBy
           /\ \A s \in Scans : LastOfDay(s)' <=> LastOfDay(s)
<1>1. \A s \in Scans : Written(s)' <=> Written(s)
  BY DEF Written
<1>2. \A r, s \in Scans : DoneBefore(r, s)' <=> DoneBefore(r, s)
  BY <1>1 DEF DoneBefore
<1>3. {s \in Scans : Written(s)}' = {s \in Scans : Written(s)}
  BY <1>1
<1>4. DoneBy' = DoneBy
  BY <1>3 DEF DoneBy
<1>5. \A s \in Scans : LastOfDay(s)' <=> LastOfDay(s)
  BY <1>1, <1>2 DEF LastOfDay, DoneBefore
<1> QED BY <1>1, <1>2, <1>4, <1>5

LEMMA BoardStays ==
    ASSUME DiscoveryInv, picks' = picks,
           scans' \in [Scans -> [status : RunStates, day : Nat, found : Findings, done : Nat]],
           \A s \in Scans : /\ scans'[s].done = scans[s].done
                            /\ scans'[s].found = scans[s].found
                            /\ Written(s) => scans'[s].day = scans[s].day
    PROVE  LeaderboardIsWhole'
<1>1. /\ \A s \in Scans : Written(s)' <=> Written(s)
      /\ \A s \in Scans : LastOfDay(s)' <=> LastOfDay(s)
  BY ScansStay
<1>2. ASSUME NEW p \in picks'
      PROVE  scans'[p.scan].day = p.day /\ LastOfDay(p.scan)'
  <2>1. p \in picks /\ p.scan \in Scans
    BY <1>2 DEF DiscoveryInv, ScansInv, ScansType
  <2>2. scans[p.scan].day = p.day /\ LastOfDay(p.scan)
    BY <2>1 DEF DiscoveryInv, LeaderboardIsWhole
  <2>3. Written(p.scan)
    BY <2>2 DEF LastOfDay
  <2> QED BY <1>1, <2>1, <2>2, <2>3
<1>3. ASSUME NEW s \in Scans, LastOfDay(s)'
      PROVE  PickedBy(s)' \in Selections(scans[s].found)'
  <2>1. LastOfDay(s) /\ Written(s)
    BY <1>1, <1>3 DEF LastOfDay
  <2>2. PickedBy(s) \in Selections(scans[s].found)
    BY <2>1 DEF DiscoveryInv, LeaderboardIsWhole
  <2>3. PickedBy(s)' = PickedBy(s)
    BY <2>1 DEF PickedBy
  <2>4. scans'[s].found = scans[s].found
    OBVIOUS
  <2>5. Selections(scans[s].found)' = Selections(scans[s].found)
    BY <2>4 DEF Selections, Passing
  <2> QED BY <2>2, <2>3, <2>5
<1> QED BY <1>2, <1>3 DEF LeaderboardIsWhole

LEMMA PriorStays ==
    ASSUME DiscoveryInv, NEW s \in Scans, PriorIsLast(s), prior'[s] = prior[s],
           \A r, q \in Scans : Written(q) => (DoneBefore(r, q)' <=> DoneBefore(r, q)),
           Written(s),
           \A r \in Scans : DoneBefore(r, s) /\ scans'[r].status = "completed" =>
                              scans[r].status = "completed"
    PROVE  PriorIsLast(s)'
<1>1. PICK q \in 0..MaxScans : q = prior[s].scan
  BY DEF DiscoveryInv, ScansInv, ScansType
<1>2. q = (prior[s].scan)' /\ (q # 0 => q \in Scans)
  BY <1>1 DEF Scans
<1>3. q # 0 => DoneBefore(q, s)'
  BY <1>1, <1>2 DEF PriorIsLast
<1>4. ASSUME NEW r \in Scans, DoneBefore(r, s)', scans'[r].status = "completed"
      PROVE  q # 0 /\ ~DoneBefore(q, r)'
  <2>1. DoneBefore(r, s) /\ scans[r].status = "completed"
    BY <1>4
  <2>2. q # 0 /\ ~DoneBefore(q, r)
    BY <1>1, <2>1 DEF PriorIsLast
  <2>3. Written(r)
    BY <2>1 DEF DoneBefore
  <2> QED BY <2>2, <2>3, <1>2
<1>5. (prior[s].scan # 0 => DoneBefore(prior[s].scan, s))'
  BY <1>2, <1>3
<1>6. (\A r \in Scans : DoneBefore(r, s) /\ scans[r].status = "completed" =>
         prior[s].scan # 0 /\ ~DoneBefore(prior[s].scan, r))'
  BY <1>2, <1>4
<1> QED BY <1>5, <1>6 DEF PriorIsLast

(* A step that writes no results and notifies nothing.                     *)
LEMMA QuietStep ==
    ASSUME DiscoveryInv, ScansType', picks' = picks, notices' = notices,
           \A s \in Scans : /\ scans'[s].done = scans[s].done
                            /\ scans'[s].found = scans[s].found
                            /\ Written(s) => scans'[s].day = scans[s].day
                            /\ scans'[s].status = "completed" => scans[s].status = "completed"
                            /\ scanning[s] = "over" =>
                                 scanning'[s] = "over" /\ scans'[s] = scans[s],
           \A s \in Scans : scanning'[s] \in {"none", "search"} => scans[s].done = 0,
           \A s \in Scans : scanning'[s] \in {"compare", "notify"} =>
                Written(s) /\ scans'[s].status = "completed",
           \A s \in Scans : scanning[s] = "over" => prior'[s] = prior[s],
           \A s \in Scans : scanning'[s] = "notify" => PriorIsLast(s)'
    PROVE  DiscoveryInv'
<1>1. /\ \A s \in Scans : Written(s)' <=> Written(s)
      /\ \A r, s \in Scans : DoneBefore(r, s)' <=> DoneBefore(r, s)
      /\ DoneBy' = DoneBy
  BY ScansStay DEF ScansType
<1>2. LeaderboardIsWhole'
  BY BoardStays DEF ScansType
<1>3. ScansInv'
  <2>1. \A s \in Scans : (scanning[s] \in {"none", "search"} => scans[s].done = 0)'
    OBVIOUS
  <2>2. \A s \in Scans : (scanning[s] \in {"compare", "notify"} =>
                          Written(s) /\ scans[s].status = "completed")'
    BY <1>1
  <2>3. \A s \in Scans : (scans[s].status = "completed" => Written(s))'
    BY <1>1 DEF DiscoveryInv, ScansInv
  <2>4. \A s \in Scans : (scans[s].done =< DoneBy)'
    BY <1>1 DEF DiscoveryInv, ScansInv
  <2>5. \A r, s \in Scans : (Written(r) /\ scans[r].done = scans[s].done => r = s)'
    BY <1>1 DEF DiscoveryInv, ScansInv
  <2> QED BY <2>1, <2>2, <2>3, <2>4, <2>5 DEF ScansInv
<1>4. ASSUME NEW n \in notices'
      PROVE  /\ scanning'[n.scan] = "over" /\ scans'[n.scan].status = "completed"
             /\ n.issue \in Found(n.scan)'
             /\ n.kind = "new_match" => n.issue \in NewlyFound(n.scan)' /\ PriorIsLast(n.scan)'
  <2>1. PICK t \in Scans : t = n.scan
    BY DEF ScansType
  <2>2. /\ scanning[t] = "over" /\ scans[t].status = "completed" /\ n.issue \in Found(t)
        /\ n.kind = "new_match" => n.issue \in NewlyFound(t) /\ PriorIsLast(t)
    BY <2>1 DEF DiscoveryInv, NoticesInv
  <2>3. scanning'[t] = "over" /\ scans'[t] = scans[t] /\ prior'[t] = prior[t] /\ Written(t)
    BY <2>2 DEF DiscoveryInv, ScansInv
  <2>4. Found(t)' = Found(t)
    BY <2>3 DEF Found
  <2>5. NewlyFound(t)' = NewlyFound(t)
    <3>1. PICK q \in 0..MaxScans : q = prior[t].scan
      BY DEF DiscoveryInv, ScansInv, ScansType
    <3>2. q = (prior[t].scan)' /\ (q # 0 => q \in Scans)
      BY <2>3, <3>1 DEF Scans
    <3>3. q # 0 => Found(q)' = Found(q)
      BY <3>2 DEF Found
    <3>4. FoundBefore(t)' = FoundBefore(t)
      BY <3>1, <3>2, <3>3 DEF FoundBefore
    <3> QED BY <2>4, <3>4 DEF NewlyFound
  <2>6. PriorIsLast(t) => PriorIsLast(t)'
    BY <1>1, <2>3, PriorStays
  <2> QED BY <2>1, <2>2, <2>3, <2>4, <2>5, <2>6
<1>5. NoticesInv'
  BY <1>4 DEF NoticesInv
<1> QED BY <1>2, <1>3, <1>5 DEF DiscoveryInv

LEMMA StartScanStep ==
    ASSUME DiscoveryInv, NEW s \in Scans, StartScan(s) PROVE DiscoveryInv'
<1> DEFINE run == [scans[s] EXCEPT !.status = "running", !.day = today]
<1>1. scanning[s] = "none" /\ ~Written(s)
  BY DEF StartScan, DiscoveryInv, ScansInv, Written
<1>2. scans \in [Scans -> [status : RunStates, day : Nat, found : Findings, done : Nat]]
      /\ scanning \in [Scans -> ScanStates] /\ today \in Nat
  BY DEF DiscoveryInv, ScansInv, ScansType
<1>3. scans' = [scans EXCEPT ![s] = run] /\ scanning' = [scanning EXCEPT ![s] = "search"]
      /\ run \in [status : RunStates, day : Nat, found : Findings, done : Nat]
      /\ run.status = "running" /\ run.found = scans[s].found /\ run.done = scans[s].done
      /\ UNCHANGED <<today, prior, picks, notices>>
  BY <1>2 DEF StartScan, ScanTo, RunStates
<1> HIDE DEF run
<1>4. ScansType'
  BY <1>2, <1>3 DEF DiscoveryInv, ScansInv, ScansType, ScanStates
<1>5. /\ \A t \in Scans \ {s} : scans'[t] = scans[t] /\ scanning'[t] = scanning[t]
      /\ scans'[s] = run /\ scanning'[s] = "search"
  BY <1>2, <1>3
<1>6. \A t \in Scans : scanning'[t] = "notify" => PriorIsLast(t)'
  <2> SUFFICES ASSUME NEW t \in Scans, scanning'[t] = "notify" PROVE PriorIsLast(t)'
    OBVIOUS
  <2>1. t # s /\ PriorIsLast(t) /\ Written(t)
    BY <1>5 DEF DiscoveryInv, NoticesInv, ScansInv
  <2>2. \A r, q \in Scans : DoneBefore(r, q)' <=> DoneBefore(r, q)
    BY <1>1, <1>3, <1>4, <1>5, ScansStay DEF ScansType
  <2> QED BY <1>3, <1>5, <2>1, <2>2, PriorStays
<1> QED BY <1>1, <1>3, <1>4, <1>5, <1>6, QuietStep DEF DiscoveryInv, ScansInv, Written

(* A run that wrote nothing fails, or the process that drives it dies, or  *)
(* a run that wrote its results and did not notify fails.                  *)
LEMMA EndScanStep ==
    ASSUME DiscoveryInv, NEW s \in Scans,
           \/ FailScan(s) \/ LoseScan(s) \/ FailNotify(s)
    PROVE  DiscoveryInv'
<1> DEFINE run == [scans[s] EXCEPT !.status = "failed"]
<1>2. scans \in [Scans -> [status : RunStates, day : Nat, found : Findings, done : Nat]]
      /\ scanning \in [Scans -> ScanStates]
  BY DEF DiscoveryInv, ScansInv, ScansType
<1>3. /\ scans' = [scans EXCEPT ![s] = run] \/ scans' = scans
      /\ scanning' = [scanning EXCEPT ![s] = "over"] /\ scanning[s] # "over"
      /\ run \in [status : RunStates, day : Nat, found : Findings, done : Nat]
      /\ run.status = "failed" /\ run.found = scans[s].found /\ run.done = scans[s].done
      /\ run.day = scans[s].day
      /\ UNCHANGED <<today, prior, picks, notices>>
  BY <1>2 DEF FailScan, LoseScan, FailNotify, ScanTo, RunStates
<1> HIDE DEF run
<1>4. ScansType'
  <2>1. scans' \in [Scans -> [status : RunStates, day : Nat, found : Findings, done : Nat]]
    <3>1. CASE scans' = scans
      BY <1>2, <3>1
    <3>2. CASE scans' = [scans EXCEPT ![s] = run]
      BY <1>2, <1>3, <3>2
    <3> QED BY <1>3, <3>1, <3>2
  <2>2. scanning' \in [Scans -> ScanStates]
    BY <1>2, <1>3 DEF ScanStates
  <2>3. ScansType /\ UNCHANGED <<today, prior, picks, notices>>
    BY <1>3 DEF DiscoveryInv, ScansInv
  <2> QED BY <2>1, <2>2, <2>3 DEF ScansType
<1>5. /\ \A t \in Scans \ {s} : scans'[t] = scans[t] /\ scanning'[t] = scanning[t]
      /\ scans'[s] = run \/ scans'[s] = scans[s]
      /\ scanning'[s] = "over"
  BY <1>2, <1>3
<1>6. \A t \in Scans : scanning'[t] = "notify" => PriorIsLast(t)'
  <2> SUFFICES ASSUME NEW t \in Scans, scanning'[t] = "notify" PROVE PriorIsLast(t)'
    OBVIOUS
  <2>1. t # s /\ PriorIsLast(t) /\ Written(t)
    BY <1>5 DEF DiscoveryInv, NoticesInv, ScansInv
  <2>2. \A r, q \in Scans : DoneBefore(r, q)' <=> DoneBefore(r, q)
    BY <1>3, <1>4, <1>5, ScansStay DEF ScansType
  <2>3. \A r \in Scans : scans'[r].status = "completed" => scans[r].status = "completed"
    BY <1>3, <1>5
  <2> QED BY <1>3, <2>1, <2>2, <2>3, PriorStays
<1>7. \A t \in Scans : /\ scans'[t].done = scans[t].done /\ scans'[t].found = scans[t].found
                       /\ scans'[t].day = scans[t].day
                       /\ scans'[t].status = "completed" => scans[t].status = "completed"
                       /\ scanning[t] = "over" => scanning'[t] = "over" /\ scans'[t] = scans[t]
                       /\ scanning'[t] # "over" => t # s
  BY <1>3, <1>5
<1> QED BY <1>3, <1>4, <1>5, <1>6, <1>7, QuietStep DEF DiscoveryInv, ScansInv

LEMMA CompareStep ==
    ASSUME DiscoveryInv, NEW s \in Scans, Compare(s) PROVE DiscoveryInv'
<1>1. PICK r \in 0..MaxScans :
        /\ IsPrevious(r, s)
        /\ prior' = [prior EXCEPT ![s] =
                [scan |-> r, shortlist |-> {i \in Issues : CurrentOf(i) = "shortlisted"}]]
  BY DEF Compare
<1>2. /\ scans' = scans /\ scanning' = [scanning EXCEPT ![s] = "notify"]
      /\ scanning[s] = "compare" /\ UNCHANGED <<today, picks, notices>>
  BY DEF Compare, ScanTo
<1>3. ScansType
  BY DEF DiscoveryInv, ScansInv
<1>4. ScansType'
  BY <1>1, <1>2, <1>3 DEF ScansType, ScanStates
<1>5. /\ \A t \in Scans \ {s} : prior'[t] = prior[t] /\ scanning'[t] = scanning[t]
      /\ prior'[s].scan = r /\ scanning'[s] = "notify"
  BY <1>1, <1>2, <1>3 DEF ScansType
<1>6. \A a, b \in Scans : DoneBefore(a, b)' <=> DoneBefore(a, b)
  BY <1>2 DEF DoneBefore, Written
<1>7. ASSUME NEW t \in Scans, scanning'[t] = "notify" PROVE PriorIsLast(t)'
  <2>1. CASE t # s
    BY <1>2, <1>5, <1>6, <1>7, <2>1, PriorStays DEF DiscoveryInv, NoticesInv, ScansInv
  <2>2. CASE t = s
    <3>1. r # 0 => r \in Scans
      BY DEF Scans
    <3>2. r # 0 => DoneBefore(r, s)'
      BY <1>1, <1>6, <3>1 DEF IsPrevious, Earlier
    <3>3. \A q \in Scans : DoneBefore(q, s)' /\ scans'[q].status = "completed" =>
                             r # 0 /\ ~DoneBefore(r, q)'
      <4> SUFFICES ASSUME NEW q \in Scans, DoneBefore(q, s)', scans'[q].status = "completed"
                   PROVE  r # 0 /\ ~DoneBefore(r, q)'
        OBVIOUS
      <4>1. q \in Earlier(s)
        BY <1>2, <1>6 DEF Earlier
      <4>2. r \in Earlier(s) /\ ~DoneBefore(r, q)
        BY <1>1, <4>1 DEF IsPrevious
      <4>3. r \in Scans
        BY <4>2 DEF Earlier
      <4> QED BY <1>6, <4>2, <4>3 DEF Scans
    <3>4. r = (prior[s].scan)'
      BY <1>5
    <3>5. PriorIsLast(s)'
      <4>1. (prior[s].scan # 0 => DoneBefore(prior[s].scan, s))'
        BY <3>2, <3>4
      <4>2. (\A q \in Scans : DoneBefore(q, s) /\ scans[q].status = "completed" =>
                 prior[s].scan # 0 /\ ~DoneBefore(prior[s].scan, q))'
        BY <3>3, <3>4
      <4> QED BY <4>1, <4>2 DEF PriorIsLast
    <3> QED BY <2>2, <3>5
  <2> QED BY <2>1, <2>2
<1> QED BY <1>2, <1>4, <1>5, <1>7, QuietStep DEF DiscoveryInv, ScansInv

(* The notices of a scan are about what it found and the run before it.    *)
LEMMA NotifyStep ==
    ASSUME DiscoveryInv, NEW s \in Scans, Notify(s) PROVE DiscoveryInv'
<1>1. PICK high \in SUBSET (NewlyFound(s) \cap Passing(scans[s].found)) :
        notices' = notices
            \cup {[kind |-> "new_match", issue |-> i, scan |-> s] : i \in high}
            \cup {[kind |-> "shortlist_updated", issue |-> i, scan |-> s] :
                     i \in {j \in (Found(s) \ NewlyFound(s)) \cap prior[s].shortlist :
                              ChangeHash(prior[s].scan, j) # ChangeHash(s, j)}}
  BY DEF Notify, HighMatches
<1>2. /\ scanning' = [scanning EXCEPT ![s] = "over"] /\ scanning[s] = "notify"
      /\ UNCHANGED <<today, scans, prior, picks>>
  BY DEF Notify, ScanTo
<1>3. ScansType
  BY DEF DiscoveryInv, ScansInv
<1>4. Found(s) \subseteq Issues
  BY <1>3 DEF ScansType, Findings, Found
<1>5. \A n \in notices' \ notices :
        /\ n \in [kind : {"new_match", "shortlist_updated"}, issue : Issues, scan : Scans]
        /\ n.scan = s /\ n.issue \in Found(s)
        /\ n.kind = "new_match" => n.issue \in NewlyFound(s)
  BY <1>1, <1>4 DEF NewlyFound
<1>6. ScansType'
  BY <1>2, <1>3, <1>5 DEF ScansType, ScanStates
<1>7. ScansInv'
  BY <1>2, <1>3, <1>6 DEF DiscoveryInv, ScansInv, ScansType, Written, DoneBy
<1>8. LeaderboardIsWhole'
  BY <1>2 DEF DiscoveryInv, LeaderboardIsWhole, LastOfDay, PickedBy, DoneBefore, Written,
              Selections, Passing
<1>9. \A t \in Scans : PriorIsLast(t)' <=> PriorIsLast(t)
  BY <1>2 DEF PriorIsLast, DoneBefore, Written
<1>10. \A t \in Scans : t # s => scanning'[t] = scanning[t]
  BY <1>2, <1>3 DEF ScansType
<1>11. scanning'[s] = "over" /\ scans[s].status = "completed" /\ PriorIsLast(s)
  BY <1>2, <1>3 DEF ScansType, DiscoveryInv, ScansInv, NoticesInv
<1>12. \A t \in Scans : Found(t)' = Found(t) /\ NewlyFound(t)' = NewlyFound(t)
  BY <1>2 DEF Found, NewlyFound, FoundBefore
<1>13. ASSUME NEW n \in notices'
       PROVE  /\ scanning'[n.scan] = "over" /\ scans'[n.scan].status = "completed"
              /\ n.issue \in Found(n.scan)'
              /\ n.kind = "new_match" => n.issue \in NewlyFound(n.scan)' /\ PriorIsLast(n.scan)'
  <2>1. CASE n \in notices
    <3>1. PICK t \in Scans : t = n.scan
      BY <1>3, <2>1 DEF ScansType
    <3>2. /\ scanning[t] = "over" /\ scans[t].status = "completed" /\ n.issue \in Found(t)
          /\ n.kind = "new_match" => n.issue \in NewlyFound(t) /\ PriorIsLast(t)
      BY <2>1, <3>1 DEF DiscoveryInv, NoticesInv
    <3>3. t # s
      BY <1>2, <3>2
    <3> QED BY <1>2, <1>9, <1>10, <1>12, <3>1, <3>2, <3>3
  <2>2. CASE n \notin notices
    BY <1>2, <1>5, <1>9, <1>11, <1>12, <2>2
  <2> QED BY <2>1, <2>2
<1>14. ASSUME NEW t \in Scans, scanning'[t] = "notify" PROVE PriorIsLast(t)'
  BY <1>9, <1>10, <1>11, <1>14 DEF DiscoveryInv, NoticesInv
<1> QED BY <1>7, <1>8, <1>13, <1>14 DEF DiscoveryInv, NoticesInv

LEMMA WriteScanStep ==
    ASSUME DiscoveryInv, NEW s \in Scans, WriteScan(s) PROVE DiscoveryInv'
<1>1. PICK found \in Findings :
        /\ scans' = [scans EXCEPT ![s] = [@ EXCEPT !.status = "completed",
                                             !.found = found, !.done = DoneBy + 1]]
        /\ \E chosen \in Selections(found) :
              picks' = {p \in picks : p.day # scans[s].day} \cup
                         {[day |-> scans[s].day, issue |-> i, scan |-> s] : i \in chosen}
  BY DEF WriteScan
<1>2. PICK chosen \in Selections(found) :
              picks' = {p \in picks : p.day # scans[s].day} \cup
                         {[day |-> scans[s].day, issue |-> i, scan |-> s] : i \in chosen}
  BY <1>1
<1>3. /\ scanning[s] = "search" /\ scanning' = [scanning EXCEPT ![s] = "compare"]
      /\ UNCHANGED <<today, prior, notices>>
  BY DEF WriteScan, ScanTo
<1>4. ScansType
  BY DEF DiscoveryInv, ScansInv
<1>5. DoneBy \in Nat
  BY DoneIsCounted
<1> DEFINE run == [scans[s] EXCEPT !.status = "completed", !.found = found, !.done = DoneBy + 1]
<1>6. /\ scans' = [scans EXCEPT ![s] = run]
      /\ run \in [status : RunStates, day : Nat, found : Findings, done : Nat]
      /\ run.status = "completed" /\ run.found = found /\ run.done = DoneBy + 1
      /\ run.day = scans[s].day
  <2>1. scans[s] \in [status : RunStates, day : Nat, found : Findings, done : Nat]
    BY <1>4 DEF ScansType
  <2>2. /\ run \in [status : RunStates, day : Nat, found : Findings, done : Nat]
        /\ run.status = "completed" /\ run.found = found /\ run.done = DoneBy + 1
        /\ run.day = scans[s].day
    <3>1. found \in Findings
      BY <1>1
    <3>2. PICK old \in [status : RunStates, day : Nat, found : Findings, done : Nat],
               n \in Nat : old = scans[s] /\ n = DoneBy + 1
      BY <1>5, <2>1
    <3>3. run = [old EXCEPT !.status = "completed", !.found = found, !.done = n]
      BY <3>2, Zenon
    <3> HIDE DEF run
    <3>4. /\ run \in [status : RunStates, day : Nat, found : Findings, done : Nat]
          /\ run.status = "completed" /\ run.found = found /\ run.done = n /\ run.day = old.day
      BY <3>1, <3>3 DEF RunStates
    <3> QED BY <3>2, <3>4
  <2>3. scans' = [scans EXCEPT ![s] = run]
    BY <1>1, Zenon
  <2> QED BY <1>5, <2>1, <2>2, <2>3 DEF RunStates
<1> HIDE DEF run
<1>7. /\ \A t \in Scans \ {s} : scans'[t] = scans[t] /\ scanning'[t] = scanning[t]
      /\ scans'[s] = run /\ scanning'[s] = "compare"
  BY <1>3, <1>4, <1>6 DEF ScansType
<1>8. chosen \subseteq Issues
  BY DEF Selections, Passing, Findings
<1>9. ScansType'
  BY <1>2, <1>3, <1>4, <1>6, <1>8 DEF ScansType, ScanStates
<1>10. ~Written(s) /\ scans[s].done = 0
  BY <1>3 DEF DiscoveryInv, ScansInv, Written
<1>11. /\ \A t \in Scans : Written(t)' <=> Written(t) \/ t = s
       /\ \A t \in Scans \ {s} : scans'[t].done = scans[t].done
       /\ scans'[s].done = DoneBy + 1
  BY <1>5, <1>6, <1>7 DEF Written
<1>12. DoneBy' = DoneBy + 1
  <2>1. {t \in Scans : Written(t)}' = {t \in Scans : Written(t)} \cup {s}
    BY <1>11
  <2>2. s \notin {t \in Scans : Written(t)}
    BY <1>10
  <2> QED BY <2>1, <2>2, DoneIsCounted, FS_AddElement DEF DoneBy
<1>13. \A t \in Scans : scans[t].done \in Nat /\ scans[t].done =< DoneBy
  BY <1>4 DEF ScansType, DiscoveryInv, ScansInv
<1>14. \A r, t \in Scans : t # s => (DoneBefore(r, t)' <=> DoneBefore(r, t))
  BY <1>5, <1>10, <1>11, <1>13 DEF DoneBefore, Written
<1>15. \A t \in Scans : ~DoneBefore(s, t)' /\ (Written(t) => DoneBefore(t, s)')
  BY <1>5, <1>10, <1>11, <1>13 DEF DoneBefore, Written
<1>16. ScansInv'
  <2>1. \A t \in Scans : (scanning[t] \in {"none", "search"} => scans[t].done = 0)'
    BY <1>7 DEF DiscoveryInv, ScansInv
  <2>2. \A t \in Scans : (scanning[t] \in {"compare", "notify"} =>
                          Written(t) /\ scans[t].status = "completed")'
    BY <1>6, <1>7, <1>11 DEF DiscoveryInv, ScansInv
  <2>3. \A t \in Scans : (scans[t].status = "completed" => Written(t))'
    BY <1>7, <1>11 DEF DiscoveryInv, ScansInv
  <2>4. \A t \in Scans : (scans[t].done =< DoneBy)'
    BY <1>5, <1>11, <1>12, <1>13
  <2>5. ASSUME NEW r \in Scans, NEW t \in Scans, Written(r)', scans'[r].done = scans'[t].done
        PROVE  r = t
    <3>1. CASE r # s /\ t # s
      BY <1>11, <2>5, <3>1 DEF DiscoveryInv, ScansInv
    <3>2. CASE r = s \/ t = s
      BY <1>5, <1>11, <1>13, <2>5, <3>2
    <3> QED BY <3>1, <3>2
  <2> QED BY <1>9, <2>1, <2>2, <2>3, <2>4, <2>5 DEF ScansInv
<1>17. NoticesInv'
  <2>1. ASSUME NEW t \in Scans, t # s, Written(t), PriorIsLast(t) PROVE PriorIsLast(t)'
    <3>1. PICK q \in 0..MaxScans : q = prior[t].scan
      BY <1>4 DEF ScansType
    <3>2. q = (prior[t].scan)' /\ (q # 0 => q \in Scans)
      BY <1>3, <3>1 DEF Scans
    <3>3. q # 0 => DoneBefore(q, t)'
      BY <1>14, <2>1, <3>1, <3>2 DEF PriorIsLast
    <3>4. ASSUME NEW r \in Scans, DoneBefore(r, t)', scans'[r].status = "completed"
          PROVE  q # 0 /\ ~DoneBefore(q, r)'
      <4>1. DoneBefore(r, t)
        BY <1>14, <2>1, <3>4
      <4>2. r # s
        BY <1>10, <4>1 DEF DoneBefore
      <4> QED BY <1>7, <1>14, <3>1, <3>2, <3>4, <4>1, <4>2, <2>1 DEF PriorIsLast
    <3>5. (prior[t].scan # 0 => DoneBefore(prior[t].scan, t))'
      BY <3>2, <3>3
    <3>6. (\A r \in Scans : DoneBefore(r, t) /\ scans[r].status = "completed" =>
             prior[t].scan # 0 /\ ~DoneBefore(prior[t].scan, r))'
      BY <3>2, <3>4
    <3> QED BY <3>5, <3>6 DEF PriorIsLast
  <2>2. ASSUME NEW t \in Scans, scanning'[t] = "notify" PROVE PriorIsLast(t)'
    BY <1>7, <2>1, <2>2 DEF DiscoveryInv, NoticesInv, ScansInv
  <2>3. ASSUME NEW n \in notices'
        PROVE  /\ scanning'[n.scan] = "over" /\ scans'[n.scan].status = "completed"
               /\ n.issue \in Found(n.scan)'
               /\ n.kind = "new_match" => n.issue \in NewlyFound(n.scan)' /\ PriorIsLast(n.scan)'
    <3>1. PICK t \in Scans : t = n.scan
      BY <1>3, <1>4, <2>3 DEF ScansType
    <3>2. /\ scanning[t] = "over" /\ scans[t].status = "completed" /\ n.issue \in Found(t)
          /\ n.kind = "new_match" => n.issue \in NewlyFound(t) /\ PriorIsLast(t)
      BY <1>3, <2>3, <3>1 DEF DiscoveryInv, NoticesInv
    <3>3. t # s /\ Written(t)
      BY <1>3, <3>2 DEF DiscoveryInv, ScansInv
    <3>4. Found(t)' = Found(t)
      BY <1>7, <3>3 DEF Found
    <3>5. n.kind = "new_match" => n.issue \in NewlyFound(t)'
      <4>1. PICK q \in 0..MaxScans : q = prior[t].scan
        BY <1>4 DEF ScansType
      <4>2. q = (prior[t].scan)' /\ (q # 0 => q \in Scans)
        BY <1>3, <4>1 DEF Scans
      <4>3. ASSUME n.kind = "new_match" PROVE q # 0 => q # s
        BY <1>10, <3>2, <4>1, <4>3 DEF PriorIsLast, DoneBefore
      <4>4. ASSUME n.kind = "new_match", q # 0 PROVE Found(q)' = Found(q)
        BY <1>7, <4>2, <4>3, <4>4 DEF Found
      <4>5. ASSUME n.kind = "new_match" PROVE FoundBefore(t)' = FoundBefore(t)
        BY <4>1, <4>2, <4>4, <4>5 DEF FoundBefore
      <4> QED BY <3>2, <3>4, <4>5 DEF NewlyFound
    <3> QED BY <1>7, <2>1, <3>1, <3>2, <3>3, <3>4, <3>5
  <2> QED BY <2>2, <2>3 DEF NoticesInv
<1>18. \A t \in Scans \ {s} : LastOfDay(t)' <=> LastOfDay(t) /\ scans[t].day # scans[s].day
  <2> SUFFICES ASSUME NEW t \in Scans \ {s}
               PROVE  LastOfDay(t)' <=> LastOfDay(t) /\ scans[t].day # scans[s].day
    OBVIOUS
  <2>1. scans'[t].day = scans[t].day /\ scans'[s].day = scans[s].day
        /\ (Written(t)' <=> Written(t))
    BY <1>6, <1>7, <1>11
  <2>2. Written(t) => DoneBefore(t, s)'
    BY <1>15
  <2>3. \A r \in Scans \ {s} : (DoneBefore(t, r)' <=> DoneBefore(t, r)) /\ scans'[r].day = scans[r].day
    BY <1>7, <1>14
  <2>4. ~DoneBefore(t, s)
    BY <1>10 DEF DoneBefore
  <2> QED BY <2>1, <2>2, <2>3, <2>4 DEF LastOfDay
<1>19. LastOfDay(s)'
  BY <1>11, <1>15 DEF LastOfDay
<1>20. LeaderboardIsWhole'
  <2>1. \A p \in picks : p.scan \in Scans /\ scans[p.scan].day = p.day /\ LastOfDay(p.scan)
                           /\ p.scan # s
    <3> SUFFICES ASSUME NEW p \in picks
                 PROVE  p.scan \in Scans /\ scans[p.scan].day = p.day /\ LastOfDay(p.scan)
                           /\ p.scan # s
      OBVIOUS
    <3>1. p.scan \in Scans
      BY <1>4 DEF ScansType
    <3>2. scans[p.scan].day = p.day /\ LastOfDay(p.scan)
      BY DEF DiscoveryInv, LeaderboardIsWhole
    <3> QED BY <1>10, <3>1, <3>2 DEF LastOfDay
  <2>2. ASSUME NEW p \in picks' PROVE scans'[p.scan].day = p.day /\ LastOfDay(p.scan)'
    <3>1. CASE p \in picks /\ p.day # scans[s].day
      BY <1>7, <1>18, <2>1, <3>1
    <3>2. CASE p \notin picks \/ p.day = scans[s].day
      <4>1. p.scan = s /\ p.day = scans[s].day
        BY <1>2, <2>2, <3>2
      <4> QED BY <1>6, <1>7, <1>19, <4>1
    <3> QED BY <3>1, <3>2
  <2>3. ASSUME NEW t \in Scans, LastOfDay(t)'
        PROVE  PickedBy(t)' \in Selections(scans[t].found)'
    <3>1. CASE t = s
      <4>1. scans'[s].day = scans[s].day /\ scans'[s].found = found
        BY <1>6, <1>7
      <4>2. \A i \in Issues : [day |-> scans[s].day, issue |-> i, scan |-> s] \in picks'
                                <=> i \in chosen
        <5> SUFFICES ASSUME NEW i \in Issues
                     PROVE  [day |-> scans[s].day, issue |-> i, scan |-> s] \in picks'
                                <=> i \in chosen
          OBVIOUS
        <5> DEFINE row == [day |-> scans[s].day, issue |-> i, scan |-> s]
        <5>1. row \notin picks
          BY <2>1
        <5>2. \A j : row = [day |-> scans[s].day, issue |-> j, scan |-> s] => i = j
          <6> SUFFICES ASSUME NEW j, row = [day |-> scans[s].day, issue |-> j, scan |-> s]
                       PROVE  i = j
            OBVIOUS
          <6>1. row.issue = i /\ [day |-> scans[s].day, issue |-> j, scan |-> s].issue = j
            OBVIOUS
          <6> HIDE DEF row
          <6> QED BY <6>1
        <5> HIDE DEF row
        <5>3. row \in picks' <=> \E j \in chosen : row = [day |-> scans[s].day, issue |-> j, scan |-> s]
          BY <1>2, <5>1
        <5>4. row \in picks' <=> i \in chosen
          <6>1. i \in chosen => row = [day |-> scans[s].day, issue |-> i, scan |-> s]
            BY DEF row
          <6> QED BY <5>2, <5>3, <6>1
        <5> QED BY <5>4 DEF row
      <4>3. PickedBy(s)' = chosen
        BY <1>8, <4>1, <4>2 DEF PickedBy
      <4>4. Selections(scans[s].found)' = Selections(found)
        BY <4>1 DEF Selections, Passing
      <4> QED BY <1>2, <3>1, <4>3, <4>4
    <3>2. CASE t # s
      <4>1. LastOfDay(t) /\ scans[t].day # scans[s].day
        BY <1>18, <2>3, <3>2
      <4>2. scans'[t] = scans[t]
        BY <1>7, <3>2
      <4>3. PickedBy(t)' = PickedBy(t)
        <5> SUFFICES ASSUME NEW i \in Issues
                     PROVE  [day |-> scans[t].day, issue |-> i, scan |-> t] \in picks'
                        <=> [day |-> scans[t].day, issue |-> i, scan |-> t] \in picks
          BY <4>2 DEF PickedBy
        <5>1. [day |-> scans[t].day, issue |-> i, scan |-> t].day # scans[s].day
              /\ [day |-> scans[t].day, issue |-> i, scan |-> t].scan # s
          BY <3>2, <4>1
        <5> QED BY <1>2, <5>1
      <4>4. PickedBy(t) \in Selections(scans[t].found)
        BY <4>1 DEF DiscoveryInv, LeaderboardIsWhole
      <4>5. Selections(scans[t].found)' = Selections(scans[t].found)
        BY <4>2 DEF Selections, Passing
      <4> QED BY <4>3, <4>4, <4>5
    <3> QED BY <3>1, <3>2
  <2> QED BY <2>2, <2>3 DEF LeaderboardIsWhole
<1> QED BY <1>16, <1>17, <1>20 DEF DiscoveryInv

LEMMA DiscoveryStep == DiscoveryInv /\ [DiscoveryNext]_discoveryVars => DiscoveryInv'
<1> SUFFICES ASSUME DiscoveryInv, [DiscoveryNext]_discoveryVars PROVE DiscoveryInv'
  OBVIOUS
<1>1. ASSUME UNCHANGED <<scans, scanning, prior, picks, notices>>, today' \in Nat
      PROVE  DiscoveryInv'
  <2>1. \A s \in Scans : PriorIsLast(s)' <=> PriorIsLast(s)
    BY <1>1 DEF PriorIsLast, DoneBefore, Written
  <2> QED BY <1>1, <2>1, QuietStep DEF DiscoveryInv, ScansInv, ScansType, NoticesInv
<1>2. today \in Nat
  BY DEF DiscoveryInv, ScansInv, ScansType
<1>3. CASE NextDay
  BY <1>1, <1>2, <1>3 DEF NextDay
<1>4. ASSUME NEW s \in Scans,
             \/ StartScan(s) \/ WriteScan(s) \/ FailScan(s) \/ LoseScan(s)
             \/ Compare(s) \/ Notify(s) \/ FailNotify(s)
      PROVE  DiscoveryInv'
  BY <1>4, StartScanStep, WriteScanStep, EndScanStep, CompareStep, NotifyStep
<1>5. CASE \E c \in Deciders, x \in Subjects, d \in Decisions : AskDecision(c, x, d)
  BY <1>1, <1>2, <1>5 DEF AskDecision
<1>6. CASE \E c \in Deciders : WriteDecision(c)
  BY <1>1, <1>2, <1>6 DEF WriteDecision
<1>7. CASE UNCHANGED discoveryVars
  BY <1>1, <1>2, <1>7 DEF discoveryVars
<1> QED BY <1>3, <1>4, <1>5, <1>6, <1>7 DEF DiscoveryNext

(* An issue is notified as new twice only if a scan written in between did *)
(* not find it.                                                            *)
LEMMA NewMatchesFollow == DiscoveryInv => NewMatchesAreNew
<1> SUFFICES ASSUME DiscoveryInv, NEW m \in notices, NEW n \in notices,
                    m.kind = "new_match", n.kind = "new_match", m.issue = n.issue,
                    DoneBefore(m.scan, n.scan)
             PROVE  \E q \in Scans : /\ DoneBefore(m.scan, q) /\ DoneBefore(q, n.scan)
                                     /\ n.issue \notin Found(q)
  BY DEF NewMatchesAreNew
<1>1. ScansType
  BY DEF DiscoveryInv, ScansInv
<1>2. PICK a \in Scans, b \in Scans : a = m.scan /\ b = n.scan
  BY <1>1 DEF ScansType
<1>3. /\ scans[a].status = "completed" /\ n.issue \in Found(a)
      /\ n.issue \in NewlyFound(b) /\ PriorIsLast(b)
  BY <1>2 DEF DiscoveryInv, NoticesInv
<1>4. PICK q \in 0..MaxScans : q = prior[b].scan
  BY <1>1 DEF ScansType
<1>5. /\ q # 0 /\ q \in Scans /\ ~DoneBefore(q, a) /\ DoneBefore(q, b)
  BY <1>2, <1>3, <1>4 DEF PriorIsLast, Scans
<1>6. n.issue \notin Found(q)
  BY <1>3, <1>4, <1>5 DEF NewlyFound, FoundBefore
<1>7. q # a
  BY <1>3, <1>6
<1>8. DoneBefore(a, q)
  <2>1. Written(a) /\ Written(q)
    BY <1>2, <1>5 DEF DoneBefore
  <2>2. scans[a].done # scans[q].done
    BY <1>5, <1>7, <2>1 DEF DiscoveryInv, ScansInv
  <2>3. scans[a].done \in Nat /\ scans[q].done \in Nat
    BY <1>1, <1>5 DEF ScansType
  <2> QED BY <1>5, <2>1, <2>2, <2>3 DEF DoneBefore
<1> QED BY <1>2, <1>5, <1>6, <1>8

(* The leaderboard of each day is the whole selection of the scan that was *)
(* the last of that day to write, for any number of issues, scans and      *)
(* days.                                                                   *)
THEOREM LeaderboardStaysWhole == DiscoverySpec => []LeaderboardIsWhole
<1>1. DiscoveryInv => LeaderboardIsWhole
  BY DEF DiscoveryInv
<1> QED BY <1>1, DiscoveryInitial, DiscoveryStep, PTL DEF DiscoverySpec

(* An issue is announced as new twice only if a scan written in between    *)
(* did not find it, however scans overlap and fail.                        *)
THEOREM NewMatchesStayNew == DiscoverySpec => []NewMatchesAreNew
BY NewMatchesFollow, DiscoveryInitial, DiscoveryStep, PTL DEF DiscoverySpec

-----------------------------------------------------------------------------
(* Discovery: the decisions of a person.                                   *)

DecisionsInv ==
    /\ decided \in [Subjects -> Seq(Decisions)]
    /\ asking \in [Deciders -> [pc : {"free", "write"}, subject : Subjects,
                                to : Decisions, seen : Nat]]
    /\ \A c \in Deciders :
         asking[c].pc = "write" /\ Len(decided[asking[c].subject]) = asking[c].seen
            /\ asking[c].seen > 0
         => decided[asking[c].subject][asking[c].seen] # asking[c].to
    /\ \A c \in Deciders :
         asking[c].pc = "write" => asking[c].seen =< Len(decided[asking[c].subject])
    /\ DecisionsDiffer

LEMMA DecisionsStep == DecisionsInv /\ [DiscoveryNext]_discoveryVars => DecisionsInv'
<1> SUFFICES ASSUME DecisionsInv, [DiscoveryNext]_discoveryVars PROVE DecisionsInv'
  OBVIOUS
<1>0. NotAsking \in [pc : {"free", "write"}, subject : Subjects, to : Decisions, seen : Nat]
      /\ NotAsking.pc = "free"
  BY DiscoveryAssumption DEF NotAsking, Subjects
<1>1. CASE UNCHANGED <<decided, asking>>
  BY <1>1 DEF DecisionsInv, DecisionsDiffer
<1>2. ASSUME NEW c \in Deciders, NEW x \in Subjects, NEW d \in Decisions, AskDecision(c, x, d)
      PROVE  DecisionsInv'
  <2> DEFINE ask == [pc |-> "write", subject |-> x, to |-> d, seen |-> Len(decided[x])]
  <2>1. /\ asking' = [asking EXCEPT ![c] = ask] /\ decided' = decided
        /\ decided[x] # <<>> => CurrentOf(x) # d
        /\ decided[x] \in Seq(Decisions) /\ Len(decided[x]) \in Nat
    BY <1>2 DEF AskDecision, DecisionsInv
  <2>2. ask \in [pc : {"free", "write"}, subject : Subjects, to : Decisions, seen : Nat]
        /\ ask.subject = x /\ ask.to = d /\ ask.seen = Len(decided[x])
    BY <2>1
  <2>3. Len(decided[x]) > 0 => decided[x][Len(decided[x])] # d
    BY <2>1 DEF CurrentOf
  <2> HIDE DEF ask
  <2>4. /\ asking'[c] = ask /\ \A e \in Deciders \ {c} : asking'[e] = asking[e]
    BY <2>1 DEF DecisionsInv
  <2>5. asking' \in [Deciders -> [pc : {"free", "write"}, subject : Subjects,
                                  to : Decisions, seen : Nat]]
    BY <2>1, <2>2 DEF DecisionsInv
  <2>6. DecisionsDiffer'
    BY <2>1 DEF DecisionsInv, DecisionsDiffer
  <2>7. ASSUME NEW e \in Deciders, asking'[e].pc = "write"
        PROVE  /\ Len(decided'[asking'[e].subject]) = asking'[e].seen /\ asking'[e].seen > 0
                    => decided'[asking'[e].subject][asking'[e].seen] # asking'[e].to
               /\ asking'[e].seen =< Len(decided'[asking'[e].subject])
    <3>1. CASE e = c
      BY <2>1, <2>2, <2>3, <2>4, <3>1
    <3>2. CASE e # c
      BY <2>1, <2>4, <2>7, <3>2 DEF DecisionsInv
    <3> QED BY <3>1, <3>2
  <2> QED BY <2>1, <2>5, <2>6, <2>7 DEF DecisionsInv
<1>3. ASSUME NEW c \in Deciders, WriteDecision(c)
      PROVE  DecisionsInv'
  <2> DEFINE x == asking[c].subject
  <2>1. x \in Subjects /\ asking[c].to \in Decisions /\ asking[c].pc = "write"
        /\ decided[x] \in Seq(Decisions) /\ asking' = [asking EXCEPT ![c] = NotAsking]
    BY <1>3 DEF WriteDecision, DecisionsInv
  <2>2. \A e \in Deciders : asking'[e].pc = "write" => e # c /\ asking'[e] = asking[e]
    BY <1>0, <2>1 DEF DecisionsInv
  <2>3. asking' \in [Deciders -> [pc : {"free", "write"}, subject : Subjects,
                                  to : Decisions, seen : Nat]]
    BY <1>0, <2>1 DEF DecisionsInv
  <2>4. CASE decided' = decided
    BY <2>2, <2>3, <2>4 DEF DecisionsInv, DecisionsDiffer
  <2>5. CASE Len(decided[x]) = asking[c].seen
             /\ decided' = [decided EXCEPT ![x] = Append(@, asking[c].to)]
    <3> DEFINE n == Len(decided[x])
               d == asking[c].to
    <3>1. /\ decided'[x] = Append(decided[x], d) /\ n \in Nat
          /\ \A y \in Subjects \ {x} : decided'[y] = decided[y]
          /\ n > 0 => decided[x][n] # d
      BY <2>1, <2>5 DEF DecisionsInv
    <3>2. /\ decided'[x] \in Seq(Decisions) /\ Len(decided'[x]) = n + 1
          /\ \A k \in 1..n : decided'[x][k] = decided[x][k]
          /\ decided'[x][n + 1] = d
      BY <2>1, <3>1, AppendProperties
    <3>3. decided' \in [Subjects -> Seq(Decisions)]
      BY <2>1, <2>5, <3>2 DEF DecisionsInv
    <3> HIDE DEF d
    <3>4. DecisionsDiffer'
      <4> SUFFICES ASSUME NEW y \in Subjects, NEW k \in 1..(Len(decided'[y]) - 1)
                   PROVE  decided'[y][k] # decided'[y][k + 1]
        BY DEF DecisionsDiffer
      <4>1. CASE y # x
        BY <3>1, <4>1 DEF DecisionsInv, DecisionsDiffer
      <4>2. CASE y = x /\ k = n
        BY <3>1, <3>2, <4>2
      <4>3. CASE y = x /\ k # n
        <5>1. k \in 1..(n - 1) /\ k \in 1..n /\ k + 1 \in 1..n
          BY <3>1, <3>2, <4>3
        <5>2. decided[x][k] # decided[x][k + 1]
          BY <2>1, <5>1 DEF DecisionsInv, DecisionsDiffer
        <5> QED BY <3>2, <4>3, <5>1, <5>2
      <4> QED BY <4>1, <4>2, <4>3
    <3>5. ASSUME NEW e \in Deciders, asking'[e].pc = "write"
          PROVE  /\ Len(decided'[asking'[e].subject]) = asking'[e].seen /\ asking'[e].seen > 0
                      => decided'[asking'[e].subject][asking'[e].seen] # asking'[e].to
                 /\ asking'[e].seen =< Len(decided'[asking'[e].subject])
      <4>1. /\ asking'[e] = asking[e] /\ asking[e].pc = "write"
            /\ asking[e].subject \in Subjects /\ asking[e].seen \in Nat
            /\ asking[e].seen =< Len(decided[asking[e].subject])
        BY <2>2, <3>5 DEF DecisionsInv
      <4>2. CASE asking[e].subject = x
        BY <3>1, <3>2, <4>1, <4>2
      <4>3. CASE asking[e].subject # x
        BY <3>1, <4>1, <4>3 DEF DecisionsInv
      <4> QED BY <4>2, <4>3
    <3> QED BY <2>3, <3>3, <3>4, <3>5 DEF DecisionsInv
  <2> QED BY <1>3, <2>4, <2>5 DEF WriteDecision
<1>4. CASE NextDay
  BY <1>1, <1>4 DEF NextDay
<1>5. ASSUME NEW s \in Scans,
             \/ StartScan(s) \/ WriteScan(s) \/ FailScan(s) \/ LoseScan(s)
             \/ Compare(s) \/ Notify(s) \/ FailNotify(s)
      PROVE  DecisionsInv'
  BY <1>1, <1>5 DEF StartScan, WriteScan, FailScan, LoseScan, Compare, Notify, FailNotify
<1>6. CASE UNCHANGED discoveryVars
  BY <1>1, <1>6 DEF discoveryVars
<1> QED BY <1>2, <1>3, <1>4, <1>5, <1>6 DEF DiscoveryNext

(* Two versions of a decision in a row never say the same, for any number  *)
(* of requests.                                                            *)
THEOREM DecisionsStayDifferent == DiscoverySpec => []DecisionsDiffer
<1>1. DiscoveryInit => DecisionsInv
  <2>1. NotAsking \in [pc : {"free", "write"}, subject : Subjects, to : Decisions, seen : Nat]
        /\ NotAsking.pc = "free"
    BY DiscoveryAssumption DEF NotAsking, Subjects
  <2>2. Len(<<>>) = 0 /\ <<>> \in Seq(Decisions)
    OBVIOUS
  <2> QED BY <2>1, <2>2 DEF DiscoveryInit, DecisionsInv, DecisionsDiffer
<1>2. DecisionsInv => DecisionsDiffer
  BY DEF DecisionsInv
<1> QED BY <1>1, <1>2, DecisionsStep, PTL DEF DiscoverySpec

-----------------------------------------------------------------------------
(* CodingChat: a job of a message names the turn it was asked in, an       *)
(* answer follows the message of the job that succeeded with it, and the   *)
(* session names the capture that made it.  What a worker has in hand and  *)
(* what a request has read stay true of it.                                *)
ChatRow == [kind : {"context", "turn", "proposal"}, state : JobStates,
            owner : ChatWorkers \cup {NoChatWorker}, tries : Nat, cancel : BOOLEAN,
            basis : Nat, result : Nat, revived : BOOLEAN]
ChatTurn == [role : {"user", "assistant"}, job : Nat]
HandStates == {"rest", "context", "found", "turn", "proposal", "model", "store"}
AskStates == {"free", "message", "propose", "accept", "rewrite"}

ChatType ==
    /\ rows \in Seq(ChatRow) /\ turns \in Seq(ChatTurn)
    /\ session \in Nat /\ overturned \subseteq Nat
    /\ hand \in [ChatWorkers -> [at : HandStates, job : Nat, seen : Nat]]
    /\ requests \in [Chatters -> [pc : AskStates, seen : Nat, about : Nat,
                                  state : {"none", "same", "queued", "cancelled", "failed"},
                                  cancel : BOOLEAN]]

MessagesInv ==
    \A j \in DOMAIN rows : rows[j].kind = "turn" =>
        /\ rows[j].basis \in DOMAIN turns
        /\ turns[rows[j].basis].role = "user" /\ turns[rows[j].basis].job = j

AnswersInv ==
    /\ \A i \in DOMAIN turns : turns[i].role = "user" => turns[i].job \in DOMAIN rows
    /\ \A i \in DOMAIN turns : turns[i].role = "assistant" =>
         /\ i > 1 /\ turns[i - 1].role = "user"
         /\ \/ turns[i - 1].job \in overturned
            \/ /\ rows[turns[i - 1].job].state = "succeeded"
               /\ rows[turns[i - 1].job].result = i

SessionInv ==
    /\ session # 0 => /\ session \in DOMAIN rows /\ rows[session].kind = "context"
                      /\ session \in overturned \/ rows[session].state = "succeeded"
    /\ \A j \in DOMAIN rows : /\ rows[j].kind = "context" /\ rows[j].state = "succeeded"
                              => session # 0 /\ rows[j].result = session

HandsInv ==
    \A w \in ChatWorkers : hand[w].at # "rest" =>
        /\ hand[w].job \in DOMAIN rows
        /\ rows[hand[w].job].kind = "context" <=> hand[w].at \in {"context", "found"}
        /\ hand[w].at = "found" /\ hand[w].seen # 0 => hand[w].seen = session

AsksInv ==
    \A c \in Chatters :
        /\ requests[c].pc = "message" => requests[c].seen <= Len(turns)
        /\ requests[c].pc = "rewrite" => /\ requests[c].about \in DOMAIN rows
                                         /\ requests[c].state # "none"

OpenJobs == {j \in ModelJobs : Waiting(j) /\ ~rows[j].revived}
Asking == {c \in Chatters : requests[c].pc \in {"message", "propose"}}
LoadInv == Cardinality(OpenJobs) + Cardinality(Asking) <= Cardinality(Chatters)

ChatInv ==
    /\ ChatType /\ MessagesInv /\ AnswersInv /\ SessionInv /\ HandsInv /\ AsksInv /\ LoadInv

DraftsType == drafts \in Seq([job : Nat, basis : Nat])

(* What a step does to the rows of jobs that are there: kind and basis     *)
(* stay, a success stays unless it is written over, only those of S newly  *)
(* succeed, and none comes to be at work that was not or is marked.        *)
AtWork(row) == row.state \in {"queued", "running"} /\ ~row.revived
RowsGo(S) ==
    /\ rows' \in Seq(ChatRow) /\ Len(rows') = Len(rows)
    /\ \A k \in DOMAIN rows :
         /\ rows'[k].kind = rows[k].kind /\ rows'[k].basis = rows[k].basis
         /\ rows[k].state = "succeeded" /\ k \notin overturned' => rows'[k].state = "succeeded"
         /\ rows[k].state = "succeeded" => rows'[k].result = rows[k].result
         /\ rows'[k].state = "succeeded" => rows[k].state = "succeeded" \/ k \in S
         /\ AtWork(rows'[k]) => AtWork(rows[k])

LEMMA RowsRest ==
    ASSUME ChatType, UNCHANGED rows
    PROVE  RowsGo({})
BY DEF ChatType, RowsGo

LEMMA DomainsSame ==
    ASSUME ChatType, NEW S, RowsGo(S)
    PROVE  DOMAIN rows' = DOMAIN rows
<1>1. DOMAIN rows = 1..Len(rows) /\ DOMAIN rows' = 1..Len(rows')
  BY DEF ChatType, RowsGo
<1> QED BY <1>1 DEF RowsGo

(* One row is replaced.                                                    *)
LEMMA RowReplaced ==
    ASSUME ChatType, NEW j \in DOMAIN rows, NEW row \in ChatRow, NEW S,
           rows' = [rows EXCEPT ![j] = row],
           row.kind = rows[j].kind, row.basis = rows[j].basis,
           rows[j].state = "succeeded" /\ j \notin overturned' => row.state = "succeeded",
           rows[j].state = "succeeded" => row.result = rows[j].result,
           row.state = "succeeded" => rows[j].state = "succeeded" \/ j \in S,
           AtWork(row) => AtWork(rows[j])
    PROVE  RowsGo(S)
<1>1. rows \in Seq(ChatRow)
  BY DEF ChatType
<1>2. rows' \in Seq(ChatRow) /\ Len(rows') = Len(rows)
  BY <1>1, ExceptSeq
<1>3. \A k \in DOMAIN rows : rows'[k] = IF k = j THEN row ELSE rows[k]
  BY <1>1
<1> QED BY <1>2, <1>3 DEF RowsGo

(* A worker ends the job it holds.                                         *)
LEMMA JobEnds ==
    ASSUME ChatInv, NEW w \in ChatWorkers, hand[w].at # "rest", HoldsJob(w),
           NEW state \in {"succeeded", "failed", "cancelled"}, NEW result \in Nat,
           EndsAs(w, state, result)
    PROVE  /\ RowsGo(IF state = "succeeded" THEN {hand[w].job} ELSE {})
           /\ rows'[hand[w].job].state = state /\ rows'[hand[w].job].result = result
<1> DEFINE j == hand[w].job
           row == [rows[j] EXCEPT !.state = state, !.result = result, !.owner = NoChatWorker]
<1>1. ChatType /\ rows \in Seq(ChatRow)
  BY DEF ChatInv, ChatType
<1>2. j \in DOMAIN rows
  BY DEF ChatInv, HandsInv
<1>3. rows[j] \in ChatRow
  BY <1>1, <1>2
<1>4. rows' = [rows EXCEPT ![j] = row]
  BY <1>1, <1>2, <1>3 DEF EndsAs, ChatRow
<1>5. row \in ChatRow
  BY <1>3 DEF ChatRow, JobStates
<1>6. /\ row.kind = rows[j].kind /\ row.basis = rows[j].basis
      /\ row.state = state /\ row.result = result
  BY <1>3 DEF ChatRow
<1>7. rows[j].state = "running"
  BY DEF HoldsJob
<1>8. ~AtWork(row)
  BY <1>6 DEF AtWork
<1>9. rows'[j] = row
  BY <1>1, <1>2, <1>4
<1> HIDE DEF row
<1>10. RowsGo(IF state = "succeeded" THEN {j} ELSE {})
  BY <1>1, <1>2, <1>4, <1>5, <1>6, <1>7, <1>8, RowReplaced
<1> QED BY <1>6, <1>9, <1>10

(* A job that fails succeeds nowhere.                                      *)
LEMMA JobFails ==
    ASSUME ChatInv, NEW w \in ChatWorkers, hand[w].at # "rest", FailChatJob(w)
    PROVE  RowsGo({}) /\ hand' = [hand EXCEPT ![w] = IdleHand]
<1>1. hand' = [hand EXCEPT ![w] = IdleHand]
  BY DEF FailChatJob, Drops
<1>2. CASE ~HoldsJob(w)
  BY <1>1, <1>2, RowsRest DEF FailChatJob, ChatInv
<1>3. CASE HoldsJob(w)
  <2>1. hand[w].job \in DOMAIN rows
    BY DEF ChatInv, HandsInv
  <2>2. rows[hand[w].job] \in ChatRow
    BY <2>1 DEF ChatInv, ChatType
  <2>5. rows[hand[w].job].result \in Nat
    BY <2>2 DEF ChatRow
  <2>3. PICK state \in {"failed", "cancelled"} : EndsAs(w, state, rows[hand[w].job].result)
    BY <1>3 DEF FailChatJob
  <2>4. RowsGo(IF state = "succeeded" THEN {hand[w].job} ELSE {})
    BY <1>3, <2>3, <2>5, JobEnds
  <2> QED BY <1>1, <2>4
<1> QED BY <1>2, <1>3

(* The parts of the invariant that such a step keeps.                      *)
LEMMA MessagesStay ==
    ASSUME ChatInv, NEW S, RowsGo(S), UNCHANGED turns
    PROVE  MessagesInv'
<1>1. DOMAIN rows' = DOMAIN rows
  BY DomainsSame DEF ChatInv
<1> QED BY <1>1 DEF ChatInv, MessagesInv, RowsGo

LEMMA AnswersStay ==
    ASSUME ChatInv, NEW S, RowsGo(S), overturned \subseteq overturned', UNCHANGED turns
    PROVE  AnswersInv'
<1>1. DOMAIN rows' = DOMAIN rows
  BY DomainsSame DEF ChatInv
<1>2. turns \in Seq(ChatTurn)
  BY DEF ChatInv, ChatType
<1>3. ASSUME NEW i \in DOMAIN turns, turns[i].role = "assistant"
      PROVE  /\ i > 1 /\ turns[i - 1].role = "user"
             /\ \/ turns[i - 1].job \in overturned'
                \/ /\ rows'[turns[i - 1].job].state = "succeeded"
                   /\ rows'[turns[i - 1].job].result = i
  <2> DEFINE j == turns[i - 1].job
  <2>1. /\ i > 1 /\ turns[i - 1].role = "user"
        /\ j \in overturned \/ (rows[j].state = "succeeded" /\ rows[j].result = i)
    BY <1>3 DEF ChatInv, AnswersInv
  <2>2. i - 1 \in DOMAIN turns
    BY <1>2, <1>3, <2>1
  <2>3. j \in DOMAIN rows
    BY <2>1, <2>2 DEF ChatInv, AnswersInv
  <2> QED BY <2>1, <2>3 DEF RowsGo
<1> QED BY <1>1, <1>3 DEF ChatInv, AnswersInv

LEMMA SessionStays ==
    ASSUME ChatInv, NEW S, RowsGo(S), overturned \subseteq overturned', UNCHANGED session,
           \A k \in S : k \in DOMAIN rows => rows[k].kind # "context"
    PROVE  SessionInv'
<1>1. DOMAIN rows' = DOMAIN rows
  BY DomainsSame DEF ChatInv
<1> QED BY <1>1 DEF ChatInv, SessionInv, RowsGo

LEMMA LoadStays ==
    ASSUME ChatInv, NEW S, RowsGo(S), Asking' \subseteq Asking
    PROVE  LoadInv'
<1>1. DOMAIN rows' = DOMAIN rows /\ DOMAIN rows = 1..Len(rows) /\ Len(rows) \in Nat
  BY DomainsSame DEF ChatInv, ChatType
<1>2. OpenJobs' \subseteq OpenJobs
  BY <1>1 DEF OpenJobs, ModelJobs, Waiting, RowsGo, AtWork
<1>3. IsFiniteSet(OpenJobs)
  <2>1. IsFiniteSet(1..Len(rows))
    BY <1>1, FS_Interval
  <2>2. OpenJobs \in SUBSET (1..Len(rows))
    BY <1>1 DEF OpenJobs, ModelJobs
  <2> QED BY <2>1, <2>2, FS_Subset
<1>4. IsFiniteSet(Asking)
  BY ChatAssumption, FS_Subset DEF Asking
<1>5. /\ Cardinality(OpenJobs') <= Cardinality(OpenJobs) /\ Cardinality(OpenJobs') \in Nat
      /\ Cardinality(Asking') <= Cardinality(Asking) /\ Cardinality(Asking') \in Nat
      /\ Cardinality(OpenJobs) \in Nat /\ Cardinality(Asking) \in Nat
  BY <1>2, <1>3, <1>4, FS_Subset, FS_CardinalityType
<1>6. Cardinality(Chatters) \in Nat
  BY ChatAssumption, FS_CardinalityType
<1> QED BY <1>5, <1>6 DEF ChatInv, LoadInv

(* A hand that goes on, or drops its job.                                  *)
LEMMA HandsStay ==
    ASSUME ChatInv, NEW S, RowsGo(S), NEW w \in ChatWorkers,
           NEW h \in [at : HandStates, job : Nat, seen : Nat],
           hand' = [hand EXCEPT ![w] = h], session # 0 => session' = session,
           h.at # "rest" => /\ h.job \in DOMAIN rows
                            /\ rows[h.job].kind = "context" <=> h.at \in {"context", "found"}
                            /\ h.at = "found" /\ h.seen # 0 => h.seen = session'
    PROVE  /\ HandsInv'
           /\ hand' \in [ChatWorkers -> [at : HandStates, job : Nat, seen : Nat]]
<1>1. DOMAIN rows' = DOMAIN rows
  BY DomainsSame DEF ChatInv
<1>2. hand \in [ChatWorkers -> [at : HandStates, job : Nat, seen : Nat]]
  BY DEF ChatInv, ChatType
<1>3. hand' \in [ChatWorkers -> [at : HandStates, job : Nat, seen : Nat]]
  BY <1>2
<1>4. ASSUME NEW v \in ChatWorkers, hand'[v].at # "rest"
      PROVE  /\ hand'[v].job \in DOMAIN rows'
             /\ rows'[hand'[v].job].kind = "context" <=> hand'[v].at \in {"context", "found"}
             /\ hand'[v].at = "found" /\ hand'[v].seen # 0 => hand'[v].seen = session'
  <2>1. CASE v = w
    <3>1. hand'[v] = h
      BY <1>2, <2>1
    <3> QED BY <1>1, <1>4, <3>1 DEF RowsGo
  <2>2. CASE v # w
    <3>1. hand'[v] = hand[v]
      BY <1>2, <2>2
    <3>2. /\ hand[v].job \in DOMAIN rows
          /\ rows[hand[v].job].kind = "context" <=> hand[v].at \in {"context", "found"}
          /\ hand[v].at = "found" /\ hand[v].seen # 0 => hand[v].seen = session
      BY <1>4, <3>1 DEF ChatInv, HandsInv
    <3>3. hand[v].seen \in Nat
      BY <1>2
    <3> QED BY <1>1, <3>1, <3>2, <3>3 DEF RowsGo
  <2> QED BY <2>1, <2>2
<1> QED BY <1>3, <1>4 DEF HandsInv

LEMMA HandsRest ==
    ASSUME ChatInv, NEW S, RowsGo(S), UNCHANGED <<hand, session>>
    PROVE  HandsInv'
<1>1. DOMAIN rows' = DOMAIN rows
  BY DomainsSame DEF ChatInv
<1> QED BY <1>1 DEF ChatInv, HandsInv, RowsGo

LEMMA HandDropped ==
    ASSUME ChatInv, NEW S, RowsGo(S), NEW w \in ChatWorkers,
           hand' = [hand EXCEPT ![w] = IdleHand], session # 0 => session' = session
    PROVE  /\ HandsInv'
           /\ hand' \in [ChatWorkers -> [at : HandStates, job : Nat, seen : Nat]]
BY HandsStay DEF IdleHand, HandStates

(* What requests have read stays true, and what they come to do.           *)
LEMMA AsksRest ==
    ASSUME ChatInv, NEW S, RowsGo(S), UNCHANGED requests,
           Len(turns') \in Nat, Len(turns) <= Len(turns')
    PROVE  AsksInv' /\ Asking' = Asking
<1>1. DOMAIN rows' = DOMAIN rows
  BY DomainsSame DEF ChatInv
<1>2. Len(turns) \in Nat /\ \A c \in Chatters : requests[c].seen \in Nat
  BY DEF ChatInv, ChatType
<1> QED BY <1>1, <1>2 DEF ChatInv, AsksInv, Asking

(* The type of the parts a step leaves alone.                              *)
HandsType == hand \in [ChatWorkers -> [at : HandStates, job : Nat, seen : Nat]]
AsksType ==
    requests \in [Chatters -> [pc : AskStates, seen : Nat, about : Nat,
                               state : {"none", "same", "queued", "cancelled", "failed"},
                               cancel : BOOLEAN]]

(* A step of a worker that adds no turn and makes no session.              *)
LEMMA WorkerStep ==
    ASSUME ChatInv, NEW S, RowsGo(S), \A k \in S : k \in DOMAIN rows => rows[k].kind # "context",
           HandsInv', HandsType', UNCHANGED <<session, turns, requests, overturned>>
    PROVE  ChatInv'
<1>1. /\ overturned \subseteq overturned' /\ UNCHANGED turns /\ UNCHANGED session
      /\ UNCHANGED requests
  OBVIOUS
<1>2. turns \in Seq(ChatTurn) /\ Len(turns') \in Nat /\ Len(turns) <= Len(turns')
  BY <1>1 DEF ChatInv, ChatType
<1>3. AsksInv' /\ Asking' = Asking
  BY <1>1, <1>2, AsksRest
<1>4. MessagesInv' /\ AnswersInv' /\ SessionInv' /\ LoadInv'
  BY <1>1, <1>3, MessagesStay, AnswersStay, SessionStays, LoadStays
<1>5. ChatType'
  BY <1>1 DEF ChatInv, ChatType, RowsGo, HandsType
<1> QED BY <1>3, <1>4, <1>5 DEF ChatInv

LEMMA WorkerFails ==
    ASSUME ChatInv, NEW w \in ChatWorkers, hand[w].at # "rest", FailChatJob(w),
           UNCHANGED <<session, turns, requests, overturned>>
    PROVE  ChatInv'
<1>1. RowsGo({}) /\ hand' = [hand EXCEPT ![w] = IdleHand]
  BY JobFails
<1>2. HandsInv' /\ HandsType'
  BY <1>1, HandDropped DEF HandsType
<1> QED BY <1>1, <1>2, WorkerStep

(* What a worker holds.                                                    *)
LEMMA HandHas ==
    ASSUME ChatInv, NEW w \in ChatWorkers
    PROVE  /\ hand \in [ChatWorkers -> [at : HandStates, job : Nat, seen : Nat]]
           /\ hand[w] = [at |-> hand[w].at, job |-> hand[w].job, seen |-> hand[w].seen]
           /\ hand[w].at \in HandStates /\ hand[w].job \in Nat /\ hand[w].seen \in Nat
           /\ hand[w].at # "rest" =>
                /\ hand[w].job \in DOMAIN rows /\ rows[hand[w].job] \in ChatRow
                /\ rows[hand[w].job].kind = "context" <=> hand[w].at \in {"context", "found"}
                /\ hand[w].at = "found" /\ hand[w].seen # 0 => hand[w].seen = session
<1>1. /\ hand \in [ChatWorkers -> [at : HandStates, job : Nat, seen : Nat]]
      /\ rows \in Seq(ChatRow)
  BY DEF ChatInv, ChatType
<1>3. hand[w] \in [at : HandStates, job : Nat, seen : Nat]
  BY <1>1
<1>2. hand[w].at # "rest" =>
        /\ hand[w].job \in DOMAIN rows
        /\ rows[hand[w].job].kind = "context" <=> hand[w].at \in {"context", "found"}
        /\ hand[w].at = "found" /\ hand[w].seen # 0 => hand[w].seen = session
  BY DEF ChatInv, HandsInv
<1> QED BY <1>1, <1>2, <1>3

LEMMA LeaseChatStep ==
    ASSUME ChatInv, NEW w \in ChatWorkers, NEW j \in DOMAIN rows, LeaseChatJob(w, j)
    PROVE  ChatInv'
<1> DEFINE row == [rows[j] EXCEPT !.state = "running", !.owner = w, !.tries = @ + 1]
<1>1. ChatType /\ rows \in Seq(ChatRow)
  BY DEF ChatInv, ChatType
<1>2. rows[j] \in ChatRow /\ j \in Nat
  BY <1>1
<1>3. rows' = [rows EXCEPT ![j] = row]
  BY <1>1, <1>2 DEF LeaseChatJob, ChatRow
<1>11. rows[j].tries + 1 \in Nat /\ "running" \in JobStates
  BY <1>2 DEF ChatRow, JobStates
<1>4. row \in ChatRow
  BY <1>2, <1>11 DEF ChatRow
<1>5. /\ row.kind = rows[j].kind /\ row.basis = rows[j].basis /\ row.state = "running"
      /\ row.revived = rows[j].revived /\ rows[j].state = "queued"
  BY <1>2 DEF ChatRow, LeaseChatJob
<1>6. AtWork(row) => AtWork(rows[j])
  BY <1>5 DEF AtWork
<1> HIDE DEF row
<1>7. RowsGo({})
  BY <1>1, <1>3, <1>4, <1>5, <1>6, RowReplaced
<1>8. rows[j].kind \in {"context", "turn", "proposal"}
  BY <1>2 DEF ChatRow
<1> DEFINE h == [IdleHand EXCEPT !.at = rows[j].kind, !.job = j]
<1>9. hand' = [hand EXCEPT ![w] = h] /\ UNCHANGED <<session, turns, requests, overturned>>
  BY DEF LeaseChatJob
<1>12. /\ h \in [at : HandStates, job : Nat, seen : Nat]
       /\ h.at = rows[j].kind /\ h.job = j /\ h.seen = 0
  BY <1>2, <1>8 DEF IdleHand, HandStates
<1> HIDE DEF h
<1>10. HandsInv' /\ HandsType'
  BY <1>2, <1>7, <1>8, <1>9, <1>12, HandsStay DEF HandsType
<1> QED BY <1>7, <1>9, <1>10, WorkerStep

LEMMA CaptureStep ==
    ASSUME ChatInv, NEW w \in ChatWorkers, CaptureContext(w)
    PROVE  ChatInv'
<1>1. hand[w].at = "context" /\ UNCHANGED <<session, turns, requests, overturned>>
  BY DEF CaptureContext
<1>2. CASE FailChatJob(w)
  BY <1>1, <1>2, WorkerFails
<1>3. CASE hand' = [hand EXCEPT ![w].at = "found", ![w].seen = session] /\ UNCHANGED rows
  <2> DEFINE h == [hand[w] EXCEPT !.at = "found", !.seen = session]
  <2>1. hand' = [hand EXCEPT ![w] = h]
    BY <1>3, HandHas
  <2>2. RowsGo({}) /\ session \in Nat
    BY <1>3, RowsRest DEF ChatInv, ChatType
  <2>3. hand[w].job \in DOMAIN rows /\ hand[w].job \in Nat /\ rows[hand[w].job].kind = "context"
    BY <1>1, HandHas
  <2>5. /\ h \in [at : HandStates, job : Nat, seen : Nat]
        /\ h.at = "found" /\ h.job = hand[w].job /\ h.seen = session
    BY <2>2, HandHas DEF HandStates
  <2> HIDE DEF h
  <2>4. HandsInv' /\ HandsType'
    BY <1>1, <2>1, <2>2, <2>3, <2>5, HandsStay DEF HandsType
  <2> QED BY <1>1, <2>2, <2>4, WorkerStep
<1> QED BY <1>2, <1>3 DEF CaptureContext

(* The first capture makes the session, a later one finds it.              *)
LEMMA KeepStep ==
    ASSUME ChatInv, NEW w \in ChatWorkers, KeepSession(w)
    PROVE  ChatInv'
<1> DEFINE j == hand[w].job
<1>1. /\ hand[w].at = "found" /\ UNCHANGED <<turns, requests, overturned>>
      /\ hand' = [hand EXCEPT ![w] = IdleHand]
  BY DEF KeepSession, Drops
<1>2. /\ j \in DOMAIN rows /\ j \in Nat \ {0} /\ rows[j].kind = "context"
      /\ hand[w].seen # 0 => hand[w].seen = session
      /\ hand[w].seen \in Nat
  <2>1. DOMAIN rows = 1..Len(rows)
    BY DEF ChatInv, ChatType
  <2>2. j \in DOMAIN rows /\ j \in Nat
    BY <1>1, HandHas
  <2>3. j # 0
    BY <2>1, <2>2
  <2> QED BY <1>1, <2>2, <2>3, HandHas
<1>3. CASE UNCHANGED session /\ FailChatJob(w)
  BY <1>1, <1>3, WorkerFails
<1>4. ASSUME MaySucceed(w), NEW n \in Nat \ {0}, EndsAs(w, "succeeded", n), session' = n,
             session # 0 => session = n, session = 0 => n = j
      PROVE  ChatInv'
  <2>1. RowsGo({j}) /\ rows'[j].state = "succeeded" /\ rows'[j].result = n
    BY <1>1, <1>4, JobEnds DEF MaySucceed
  <2>2. DOMAIN rows' = DOMAIN rows
    BY <2>1, DomainsSame DEF ChatInv
  <2>3. HandsInv' /\ HandsType'
    BY <1>1, <1>4, <2>1, HandDropped DEF HandsType
  <2>4. turns \in Seq(ChatTurn) /\ Len(turns') \in Nat /\ Len(turns) <= Len(turns')
    BY <1>1 DEF ChatInv, ChatType
  <2>5. AsksInv' /\ Asking' = Asking
    BY <1>1, <2>1, <2>4, AsksRest
  <2>6. MessagesInv' /\ AnswersInv' /\ LoadInv'
    BY <1>1, <2>1, <2>5, MessagesStay, AnswersStay, LoadStays
  <2>7. session' \in DOMAIN rows /\ rows[session'].kind = "context"
    BY <1>2, <1>4 DEF ChatInv, SessionInv
  <2>8. session' \in overturned' \/ rows'[session'].state = "succeeded"
    BY <1>1, <1>4, <2>1, <2>7 DEF ChatInv, SessionInv, RowsGo
  <2>9. ASSUME NEW k \in DOMAIN rows', rows'[k].kind = "context", rows'[k].state = "succeeded"
        PROVE  session' # 0 /\ rows'[k].result = session'
    <3>1. CASE k = j
      BY <1>4, <2>1, <3>1
    <3>2. CASE k # j
      <4>1. rows[k].kind = "context" /\ rows[k].state = "succeeded"
        BY <2>1, <2>2, <2>9, <3>2 DEF RowsGo
      <4>2. session # 0 /\ rows[k].result = session
        BY <2>2, <2>9, <4>1 DEF ChatInv, SessionInv
      <4> QED BY <1>4, <2>1, <2>2, <4>1, <4>2 DEF RowsGo
    <3> QED BY <3>1, <3>2
  <2>10. SessionInv'
    BY <2>1, <2>2, <2>7, <2>8, <2>9 DEF SessionInv, RowsGo
  <2>11. ChatType'
    BY <1>1, <1>4, <2>1, <2>3 DEF ChatInv, ChatType, RowsGo, HandsType
  <2> QED BY <2>3, <2>5, <2>6, <2>10, <2>11 DEF ChatInv
<1>5. CASE MaySucceed(w) /\ hand[w].seen # 0 /\ EndsAs(w, "succeeded", hand[w].seen)
           /\ UNCHANGED session
  BY <1>2, <1>4, <1>5
<1>6. CASE MaySucceed(w) /\ session = 0 /\ EndsAs(w, "succeeded", j) /\ session' = j
  BY <1>2, <1>4, <1>6
<1> QED BY <1>3, <1>5, <1>6 DEF KeepSession

LEMMA ModelStep ==
    ASSUME ChatInv, NEW w \in ChatWorkers, AskModel(w) \/ ReadAgain(w)
    PROVE  ChatInv'
<1>1. /\ hand[w].at \in {"turn", "proposal", "model"}
      /\ UNCHANGED <<session, turns, requests, overturned>>
  BY DEF AskModel, ReadAgain
<1>2. CASE FailChatJob(w)
  BY <1>1, <1>2, WorkerFails
<1>3. ASSUME NEW at \in {"model", "store"}, HandTo(w, at), UNCHANGED rows
      PROVE  ChatInv'
  <2> DEFINE h == [hand[w] EXCEPT !.at = at]
  <2>1. hand' = [hand EXCEPT ![w] = h]
    BY <1>3, HandHas DEF HandTo
  <2>2. RowsGo({})
    BY <1>3, RowsRest DEF ChatInv
  <2>3. /\ hand[w].job \in DOMAIN rows /\ hand[w].job \in Nat /\ hand[w].seen \in Nat
        /\ rows[hand[w].job].kind # "context"
    BY <1>1, HandHas
  <2>5. h \in [at : HandStates, job : Nat, seen : Nat] /\ h.at = at /\ h.job = hand[w].job
    BY HandHas DEF HandStates
  <2> HIDE DEF h
  <2>4. HandsInv' /\ HandsType'
    BY <1>1, <2>1, <2>2, <2>3, <2>5, HandsStay DEF HandsType
  <2> QED BY <1>1, <2>2, <2>4, WorkerStep
<1> QED BY <1>2, <1>3 DEF AskModel, ReadAgain

LEMMA DraftStep ==
    ASSUME ChatInv, DraftsType, NEW w \in ChatWorkers, StoreDraft(w)
    PROVE  ChatInv'
<1>1. hand[w].at = "store" /\ UNCHANGED <<session, turns, requests, overturned>>
  BY DEF StoreDraft
<1>2. CASE FailChatJob(w)
  BY <1>1, <1>2, WorkerFails
<1>3. CASE MaySucceed(w) /\ EndsAs(w, "succeeded", Len(drafts) + 1) /\ Drops(w)
  <2>1. Len(drafts) + 1 \in Nat /\ hand' = [hand EXCEPT ![w] = IdleHand]
    BY <1>3 DEF DraftsType, Drops
  <2>2. RowsGo({hand[w].job})
    BY <1>1, <1>3, <2>1, JobEnds DEF MaySucceed
  <2>3. rows[hand[w].job].kind # "context"
    BY <1>1, HandHas
  <2>4. HandsInv' /\ HandsType'
    BY <1>1, <2>1, <2>2, HandDropped DEF HandsType
  <2> QED BY <1>1, <2>2, <2>3, <2>4, WorkerStep
<1> QED BY <1>2, <1>3 DEF StoreDraft

(* The answer comes right after the message its job was made for.          *)
LEMMA AnswerStep ==
    ASSUME ChatInv, NEW w \in ChatWorkers, StoreAnswer(w)
    PROVE  ChatInv'
<1> DEFINE j == hand[w].job
           n == rows[j].basis + 1
<1>1. /\ hand[w].at = "store" /\ rows[j].kind = "turn"
      /\ UNCHANGED <<session, requests, overturned>>
  BY DEF StoreAnswer
<1>2. CASE FailChatJob(w) /\ UNCHANGED turns
  BY <1>1, <1>2, WorkerFails
<1>3. CASE MaySucceed(w) /\ Len(turns) < n /\ EndsAs(w, "succeeded", n) /\ Drops(w)
           /\ turns' = Append(turns, [role |-> "assistant", job |-> 0])
  <2>1. /\ turns \in Seq(ChatTurn) /\ j \in DOMAIN rows /\ rows[j] \in ChatRow
        /\ hand' = [hand EXCEPT ![w] = IdleHand]
    BY <1>1, <1>3, HandHas DEF ChatInv, ChatType, Drops
  <2>2. rows[j].basis \in Nat
    BY <2>1 DEF ChatRow
  <2>3. RowsGo({j}) /\ rows'[j].state = "succeeded" /\ rows'[j].result = n
    <3>1. n \in Nat
      BY <2>2
    <3> QED BY <1>1, <1>3, <3>1, JobEnds DEF MaySucceed
  <2>4. DOMAIN rows' = DOMAIN rows
    BY <2>3, DomainsSame DEF ChatInv
  <2>5. rows[j].basis \in DOMAIN turns /\ turns[rows[j].basis].role = "user"
        /\ turns[rows[j].basis].job = j
    BY <1>1, <2>1 DEF ChatInv, MessagesInv
  <2>6. Len(turns) = rows[j].basis /\ Len(turns) \in Nat /\ n = Len(turns) + 1
    BY <1>3, <2>1, <2>2, <2>5
  <2>7. [role |-> "assistant", job |-> 0] \in ChatTurn
    BY DEF ChatTurn
  <2>8. /\ turns' \in Seq(ChatTurn) /\ Len(turns') = n
        /\ DOMAIN turns' = DOMAIN turns \cup {n}
        /\ \A i \in DOMAIN turns : turns'[i] = turns[i]
        /\ turns'[n].role = "assistant"
    BY <1>3, <2>1, <2>6, <2>7, AppendProperties
  <2>9. HandsInv' /\ HandsType'
    BY <1>1, <2>1, <2>3, HandDropped DEF HandsType
  <2>10. AsksInv' /\ Asking' = Asking
    BY <1>1, <2>3, <2>6, <2>8, AsksRest
  <2>11. SessionInv' /\ LoadInv'
    BY <1>1, <2>3, <2>10, SessionStays, LoadStays
  <2>12. MessagesInv'
    BY <2>3, <2>4, <2>8 DEF ChatInv, MessagesInv, RowsGo
  <2>13. ASSUME NEW i \in DOMAIN turns', turns'[i].role = "assistant"
         PROVE  /\ i > 1 /\ turns'[i - 1].role = "user"
                /\ \/ turns'[i - 1].job \in overturned'
                   \/ /\ rows'[turns'[i - 1].job].state = "succeeded"
                      /\ rows'[turns'[i - 1].job].result = i
    <3>1. CASE i = n
      <4>1. n - 1 = rows[j].basis /\ n > 1 /\ n - 1 \in DOMAIN turns
        BY <2>1, <2>5, <2>6
      <4> QED BY <2>3, <2>5, <2>8, <3>1, <4>1
    <3>2. CASE i \in DOMAIN turns
      <4>1. /\ i > 1 /\ turns[i - 1].role = "user"
            /\ \/ turns[i - 1].job \in overturned
               \/ /\ rows[turns[i - 1].job].state = "succeeded"
                  /\ rows[turns[i - 1].job].result = i
        BY <2>8, <2>13, <3>2 DEF ChatInv, AnswersInv
      <4>2. i - 1 \in DOMAIN turns
        BY <2>1, <3>2, <4>1
      <4>3. turns'[i - 1] = turns[i - 1] /\ turns[i - 1].job \in DOMAIN rows
        BY <2>8, <4>1, <4>2 DEF ChatInv, AnswersInv
      <4> QED BY <1>1, <2>3, <4>1, <4>3 DEF RowsGo
    <3> QED BY <2>8, <3>1, <3>2
  <2>14. ASSUME NEW i \in DOMAIN turns', turns'[i].role = "user"
         PROVE  turns'[i].job \in DOMAIN rows'
    BY <2>4, <2>8, <2>14 DEF ChatInv, AnswersInv
  <2>15. AnswersInv'
    BY <2>13, <2>14 DEF AnswersInv
  <2>16. ChatType'
    BY <1>1, <2>3, <2>8, <2>9 DEF ChatInv, ChatType, RowsGo, HandsType
  <2> QED BY <2>9, <2>10, <2>11, <2>12, <2>15, <2>16 DEF ChatInv
<1> QED BY <1>2, <1>3 DEF StoreAnswer

(* The steps of requests.  One that changes no turn and makes no session.  *)
LEMMA RequestStep ==
    ASSUME ChatInv, NEW S, RowsGo(S), \A k \in S : k \in DOMAIN rows => rows[k].kind # "context",
           AsksInv', AsksType', Asking' \subseteq Asking \/ LoadInv',
           overturned \subseteq overturned', overturned' \subseteq Nat,
           UNCHANGED <<session, turns, hand>>
    PROVE  ChatInv'
<1>1. MessagesInv' /\ AnswersInv' /\ SessionInv' /\ HandsInv'
  BY MessagesStay, AnswersStay, SessionStays, HandsRest
<1>2. LoadInv'
  BY LoadStays
<1>3. ChatType'
  BY DEF ChatInv, ChatType, RowsGo, AsksType
<1> QED BY <1>1, <1>2, <1>3 DEF ChatInv

Reading == [pc : AskStates, seen : Nat, about : Nat,
            state : {"none", "same", "queued", "cancelled", "failed"}, cancel : BOOLEAN]

(* A request that reads, goes on or is done.                               *)
LEMMA AskSet ==
    ASSUME ChatInv, NEW c \in Chatters, NEW a \in Reading,
           requests' = [requests EXCEPT ![c] = a],
           DOMAIN rows \subseteq DOMAIN rows',
           Len(turns') \in Nat, Len(turns) <= Len(turns'),
           a.pc = "message" => a.seen <= Len(turns'),
           a.pc = "rewrite" => a.about \in DOMAIN rows' /\ a.state # "none"
    PROVE  /\ AsksInv' /\ AsksType'
           /\ a.pc \notin {"message", "propose"} => Asking' \subseteq Asking \ {c}
<1>1. requests \in [Chatters -> Reading] /\ Len(turns) \in Nat
  BY DEF ChatInv, ChatType, Reading
<1>2. AsksType'
  BY <1>1 DEF AsksType, Reading
<1>3. \A d \in Chatters : requests'[d] = IF d = c THEN a ELSE requests[d]
  BY <1>1
<1>4. \A d \in Chatters : requests[d].seen \in Nat
  BY <1>1 DEF Reading
<1>5. AsksInv'
  BY <1>3, <1>4, <1>1 DEF ChatInv, AsksInv
<1> QED BY <1>2, <1>3, <1>5 DEF Asking

LEMMA AskDone ==
    ASSUME ChatInv, NEW c \in Chatters, Done(c), DOMAIN rows \subseteq DOMAIN rows',
           Len(turns') \in Nat, Len(turns) <= Len(turns')
    PROVE  AsksInv' /\ AsksType' /\ Asking' \subseteq Asking \ {c}
<1>1. NoAsk \in Reading /\ NoAsk.pc = "free"
  BY DEF NoAsk, Reading, AskStates
<1> QED BY <1>1, AskSet DEF Done

(* What is open and what is asked for are few.                             *)
LEMMA LoadIsFinite ==
    ASSUME ChatInv
    PROVE  /\ IsFiniteSet(OpenJobs) /\ IsFiniteSet(Asking)
           /\ Cardinality(OpenJobs) \in Nat /\ Cardinality(Asking) \in Nat
           /\ Cardinality(Chatters) \in Nat
<1>1. DOMAIN rows = 1..Len(rows) /\ Len(rows) \in Nat
  BY DEF ChatInv, ChatType
<1>2. IsFiniteSet(1..Len(rows))
  BY <1>1, FS_Interval
<1>3. OpenJobs \in SUBSET (1..Len(rows))
  BY <1>1 DEF OpenJobs, ModelJobs
<1>4. IsFiniteSet(OpenJobs)
  BY <1>2, <1>3, FS_Subset
<1>5. IsFiniteSet(Asking)
  BY ChatAssumption, FS_Subset DEF Asking
<1> QED BY <1>4, <1>5, ChatAssumption, FS_CardinalityType

LEMMA LoadMoves ==
    ASSUME ChatInv, NEW c \in Asking, NEW j, OpenJobs' \subseteq OpenJobs \cup {j},
           Asking' \subseteq Asking \ {c}
    PROVE  LoadInv'
<1>6. /\ IsFiniteSet(OpenJobs \cup {j})
      /\ Cardinality(OpenJobs \cup {j}) \in {Cardinality(OpenJobs), Cardinality(OpenJobs) + 1}
  BY LoadIsFinite, FS_AddElement
<1>1. /\ IsFiniteSet(OpenJobs \cup {j})
      /\ Cardinality(OpenJobs \cup {j}) <= Cardinality(OpenJobs) + 1
  BY <1>6, LoadIsFinite
<1>2. /\ IsFiniteSet(OpenJobs') /\ Cardinality(OpenJobs') <= Cardinality(OpenJobs \cup {j})
  BY <1>1, FS_Subset
<1>3. IsFiniteSet(Asking \ {c}) /\ Cardinality(Asking \ {c}) = Cardinality(Asking) - 1
  BY LoadIsFinite, FS_RemoveElement
<1>4. IsFiniteSet(Asking') /\ Cardinality(Asking') <= Cardinality(Asking \ {c})
  BY <1>3, FS_Subset
<1>5. /\ Cardinality(OpenJobs') \in Nat /\ Cardinality(Asking') \in Nat
      /\ Cardinality(OpenJobs \cup {j}) \in Nat
  BY <1>1, <1>2, <1>4, FS_CardinalityType
<1> QED BY <1>1, <1>2, <1>3, <1>4, <1>5, LoadIsFinite DEF ChatInv, LoadInv

(* A request that found no model job active is the first to ask.           *)
LEMMA LoadOfOne ==
    ASSUME ChatInv, NoneActive, UNCHANGED rows
    PROVE  LoadInv'
<1>1. OpenJobs' = {}
  BY DEF NoneActive, OpenJobs, ModelJobs, Waiting
<1>2. Cardinality(OpenJobs') = 0
  BY <1>1, FS_EmptySet
<1>4. Asking' \in SUBSET Chatters
  BY DEF Asking
<1>3. /\ Cardinality(Asking') <= Cardinality(Chatters)
      /\ Cardinality(Asking') \in Nat
  BY <1>4, ChatAssumption, FS_Subset, FS_CardinalityType
<1> QED BY <1>2, <1>3 DEF LoadInv

(* A job is added.                                                         *)
LEMMA RowAdded ==
    ASSUME ChatInv, NEW kind \in {"context", "turn", "proposal"}, NEW basis \in Nat,
           rows' = Append(rows, NewChatJob(kind, basis)),
           UNCHANGED <<session, hand, overturned>>
    PROVE  /\ rows' \in Seq(ChatRow) /\ Len(rows) + 1 \in Nat
           /\ DOMAIN rows' = DOMAIN rows \cup {Len(rows) + 1}
           /\ \A k \in DOMAIN rows : rows'[k] = rows[k]
           /\ rows'[Len(rows) + 1].kind = kind /\ rows'[Len(rows) + 1].basis = basis
           /\ SessionInv' /\ HandsInv'
           /\ OpenJobs' \subseteq OpenJobs \cup {Len(rows) + 1}
           /\ kind = "context" => OpenJobs' \subseteq OpenJobs
<1> DEFINE row == NewChatJob(kind, basis)
           n == Len(rows) + 1
<1>1. rows \in Seq(ChatRow)
  BY DEF ChatInv, ChatType
<1>2. row \in ChatRow /\ row.kind = kind /\ row.basis = basis /\ row.state = "queued"
  BY DEF NewChatJob, ChatRow, JobStates
<1> HIDE DEF row
<1>3. /\ rows' \in Seq(ChatRow) /\ n \in Nat /\ DOMAIN rows' = DOMAIN rows \cup {n}
      /\ \A k \in DOMAIN rows : rows'[k] = rows[k]
      /\ rows'[n] = row /\ n \notin DOMAIN rows
  <2>1. rows' = Append(rows, row)
    BY DEF row
  <2>2. Len(rows) \in Nat /\ DOMAIN rows = 1..Len(rows)
    BY <1>1
  <2> QED BY <1>1, <1>2, <2>1, <2>2, AppendProperties
<1>4. SessionInv'
  BY <1>2, <1>3 DEF ChatInv, SessionInv
<1>5. HandsInv'
  BY <1>3 DEF ChatInv, HandsInv
<1>6. OpenJobs' \subseteq OpenJobs \cup {n}
  BY <1>3 DEF OpenJobs, ModelJobs, Waiting
<1>7. kind = "context" => OpenJobs' \subseteq OpenJobs
  BY <1>2, <1>3 DEF OpenJobs, ModelJobs, Waiting
<1> QED BY <1>2, <1>3, <1>4, <1>5, <1>6, <1>7

LEMMA AnswersKept ==
    ASSUME ChatInv, DOMAIN rows \subseteq DOMAIN rows', \A k \in DOMAIN rows : rows'[k] = rows[k],
           UNCHANGED <<turns, overturned>>
    PROVE  AnswersInv'
<1>1. ASSUME NEW i \in DOMAIN turns, turns[i].role = "assistant"
      PROVE  /\ i > 1 /\ turns[i - 1].role = "user"
             /\ \/ turns[i - 1].job \in overturned'
                \/ /\ rows'[turns[i - 1].job].state = "succeeded"
                   /\ rows'[turns[i - 1].job].result = i
  <2>1. /\ i > 1 /\ turns[i - 1].role = "user"
        /\ \/ turns[i - 1].job \in overturned
           \/ /\ rows[turns[i - 1].job].state = "succeeded"
              /\ rows[turns[i - 1].job].result = i
    BY <1>1 DEF ChatInv, AnswersInv
  <2>2. i - 1 \in DOMAIN turns
    BY <1>1, <2>1 DEF ChatInv, ChatType
  <2> QED BY <2>1, <2>2 DEF ChatInv, AnswersInv
<1> QED BY <1>1 DEF ChatInv, AnswersInv

LEMMA AskContextStep ==
    ASSUME ChatInv, AskContext
    PROVE  ChatInv'
<1>1. /\ rows' = Append(rows, NewChatJob("context", 0))
      /\ UNCHANGED <<session, turns, hand, requests, overturned>>
  BY DEF AskContext
<1>2. /\ rows' \in Seq(ChatRow) /\ DOMAIN rows' = DOMAIN rows \cup {Len(rows) + 1}
      /\ \A k \in DOMAIN rows : rows'[k] = rows[k]
      /\ rows'[Len(rows) + 1].kind = "context"
      /\ SessionInv' /\ HandsInv' /\ OpenJobs' \subseteq OpenJobs
  BY <1>1, RowAdded
<1>3. MessagesInv' /\ AnswersInv'
  BY <1>1, <1>2, AnswersKept DEF ChatInv, MessagesInv
<1>4. AsksInv' /\ Asking' = Asking
  BY <1>1, <1>2 DEF ChatInv, AsksInv, Asking
<1>5. LoadInv'
  <2>1. /\ Cardinality(OpenJobs') <= Cardinality(OpenJobs) /\ Cardinality(OpenJobs') \in Nat
    BY <1>2, LoadIsFinite, FS_Subset, FS_CardinalityType
  <2> QED BY <1>4, <2>1, LoadIsFinite DEF ChatInv, LoadInv
<1>6. ChatType'
  BY <1>1, <1>2 DEF ChatInv, ChatType
<1> QED BY <1>2, <1>3, <1>4, <1>5, <1>6 DEF ChatInv

LEMMA ReadToAskStep ==
    ASSUME ChatInv, NEW c \in Chatters, ReadForMessage(c) \/ ReadForProposal(c)
    PROVE  ChatInv'
<1>1. /\ NoneActive /\ UNCHANGED <<rows, session, turns, hand, overturned>>
      /\ \E pc \in {"message", "propose"} :
            requests' = [requests EXCEPT ![c] = [NoAsk EXCEPT !.pc = pc, !.seen = Len(turns)]]
  BY DEF ReadForMessage, ReadForProposal, Asks
<1>2. PICK pc \in {"message", "propose"} :
            requests' = [requests EXCEPT ![c] = [NoAsk EXCEPT !.pc = pc, !.seen = Len(turns)]]
  BY <1>1
<1> DEFINE a == [NoAsk EXCEPT !.pc = pc, !.seen = Len(turns)]
<1>3. Len(turns) \in Nat /\ overturned \subseteq Nat
  BY DEF ChatInv, ChatType
<1>4. a \in Reading /\ a.seen = Len(turns) /\ a.pc = pc
  BY <1>3 DEF NoAsk, Reading, AskStates
<1> HIDE DEF a
<1>7. requests' = [requests EXCEPT ![c] = a]
  BY <1>2 DEF a
<1>8. /\ DOMAIN rows \subseteq DOMAIN rows' /\ Len(turns') \in Nat
      /\ Len(turns) <= Len(turns') /\ a.seen <= Len(turns') /\ a.pc # "rewrite"
  BY <1>1, <1>3, <1>4
<1>5. AsksInv' /\ AsksType'
  BY <1>4, <1>7, <1>8, AskSet
<1>6. LoadInv' /\ RowsGo({})
  BY <1>1, LoadOfOne, RowsRest DEF ChatInv
<1> QED BY <1>1, <1>3, <1>5, <1>6, RequestStep

(* The message follows the last turn there is, or is refused.              *)
LEMMA SendStep ==
    ASSUME ChatInv, NEW c \in Chatters, SendMessage(c)
    PROVE  ChatInv'
<1> DEFINE n == requests[c].seen + 1
           m == Len(rows) + 1
<1>1. /\ requests[c].pc = "message" /\ Done(c)
      /\ UNCHANGED <<session, hand, overturned>>
  BY DEF SendMessage
<1>2. /\ requests[c].seen \in Nat /\ requests[c].seen <= Len(turns) /\ Len(turns) \in Nat
      /\ turns \in Seq(ChatTurn) /\ overturned \subseteq Nat /\ rows \in Seq(ChatRow)
      /\ DOMAIN turns = 1..Len(turns)
  BY <1>1 DEF ChatInv, ChatType, AsksInv
<1>3. CASE UNCHANGED <<rows, turns>>
  <2>1. RowsGo({})
    BY <1>3, RowsRest DEF ChatInv
  <2>2. AsksInv' /\ AsksType' /\ Asking' \subseteq Asking
    BY <1>1, <1>2, <1>3, AskDone
  <2> QED BY <1>1, <1>2, <1>3, <2>1, <2>2, RequestStep
<1>4. CASE /\ Len(turns) < n /\ rows' = Append(rows, NewChatJob("turn", n))
           /\ turns' = Append(turns, [role |-> "user", job |-> m])
  <2>1. n = Len(turns) + 1 /\ n \in Nat /\ n \notin DOMAIN turns
    BY <1>2, <1>4
  <2>2. /\ rows' \in Seq(ChatRow) /\ m \in Nat /\ DOMAIN rows' = DOMAIN rows \cup {m}
        /\ \A k \in DOMAIN rows : rows'[k] = rows[k]
        /\ rows'[m].kind = "turn" /\ rows'[m].basis = n
        /\ SessionInv' /\ HandsInv' /\ OpenJobs' \subseteq OpenJobs \cup {m}
    BY <1>1, <1>4, <2>1, RowAdded
  <2>3. [role |-> "user", job |-> m] \in ChatTurn
    BY <2>2 DEF ChatTurn
  <2>4. /\ turns' \in Seq(ChatTurn) /\ Len(turns') = n
        /\ DOMAIN turns' = DOMAIN turns \cup {n}
        /\ \A i \in DOMAIN turns : turns'[i] = turns[i]
        /\ turns'[n].role = "user" /\ turns'[n].job = m
    BY <1>2, <1>4, <2>1, <2>3, AppendProperties
  <2>5. AsksInv' /\ AsksType' /\ Asking' \subseteq Asking \ {c}
    BY <1>1, <1>2, <2>1, <2>2, <2>4, AskDone
  <2>6. LoadInv'
    BY <1>1, <2>2, <2>5, LoadMoves DEF Asking
  <2>7. MessagesInv'
    BY <2>2, <2>4 DEF ChatInv, MessagesInv
  <2>8. ASSUME NEW i \in DOMAIN turns', turns'[i].role = "assistant"
        PROVE  /\ i > 1 /\ turns'[i - 1].role = "user"
               /\ \/ turns'[i - 1].job \in overturned'
                  \/ /\ rows'[turns'[i - 1].job].state = "succeeded"
                     /\ rows'[turns'[i - 1].job].result = i
    <3>1. i \in DOMAIN turns /\ turns[i].role = "assistant"
      BY <2>4, <2>8
    <3>2. /\ i > 1 /\ turns[i - 1].role = "user"
          /\ \/ turns[i - 1].job \in overturned
             \/ /\ rows[turns[i - 1].job].state = "succeeded"
                /\ rows[turns[i - 1].job].result = i
      BY <3>1 DEF ChatInv, AnswersInv
    <3>3. i - 1 \in DOMAIN turns
      BY <1>2, <3>1, <3>2
    <3>4. turns'[i - 1] = turns[i - 1] /\ turns[i - 1].job \in DOMAIN rows
      BY <2>4, <3>2, <3>3 DEF ChatInv, AnswersInv
    <3> QED BY <1>1, <2>2, <3>2, <3>4
  <2>9. ASSUME NEW i \in DOMAIN turns', turns'[i].role = "user"
        PROVE  turns'[i].job \in DOMAIN rows'
    BY <2>2, <2>4, <2>9 DEF ChatInv, AnswersInv
  <2>10. AnswersInv'
    BY <2>8, <2>9 DEF AnswersInv
  <2>11. ChatType'
    BY <1>1, <2>2, <2>4, <2>5 DEF ChatInv, ChatType, AsksType
  <2> QED BY <2>2, <2>5, <2>6, <2>7, <2>10, <2>11 DEF ChatInv
<1> QED BY <1>3, <1>4 DEF SendMessage

LEMMA RequestProposalStep ==
    ASSUME ChatInv, NEW c \in Chatters, RequestProposal(c)
    PROVE  ChatInv'
<1>1. /\ rows' = Append(rows, NewChatJob("proposal", requests[c].seen))
      /\ requests[c].pc = "propose" /\ Done(c)
      /\ UNCHANGED <<session, turns, hand, overturned>>
  BY DEF RequestProposal
<1>2. requests[c].seen \in Nat /\ turns \in Seq(ChatTurn) /\ Len(turns) \in Nat
  BY DEF ChatInv, ChatType
<1>3. /\ rows' \in Seq(ChatRow) /\ DOMAIN rows' = DOMAIN rows \cup {Len(rows) + 1}
      /\ \A k \in DOMAIN rows : rows'[k] = rows[k]
      /\ rows'[Len(rows) + 1].kind = "proposal"
      /\ SessionInv' /\ HandsInv' /\ OpenJobs' \subseteq OpenJobs \cup {Len(rows) + 1}
  BY <1>1, <1>2, RowAdded
<1>4. MessagesInv' /\ AnswersInv'
  BY <1>1, <1>3, AnswersKept DEF ChatInv, MessagesInv
<1>5. AsksInv' /\ AsksType' /\ Asking' \subseteq Asking \ {c}
  BY <1>1, <1>2, <1>3, AskDone
<1>6. LoadInv'
  BY <1>1, <1>3, <1>5, LoadMoves DEF Asking
<1>7. ChatType'
  BY <1>1, <1>3, <1>5 DEF ChatInv, ChatType, AsksType
<1> QED BY <1>3, <1>4, <1>5, <1>6, <1>7 DEF ChatInv

LEMMA AcceptSteps ==
    ASSUME ChatInv, DraftsType, NEW c \in Chatters,
           AcceptProposal(c) \/ \E d \in DOMAIN drafts : ReadForAccept(c, d)
    PROVE  ChatInv'
<1>1. UNCHANGED <<rows, session, turns, hand, overturned>>
  BY DEF AcceptProposal, ReadForAccept
<1>2. RowsGo({}) /\ Len(turns') \in Nat /\ Len(turns) <= Len(turns') /\ overturned' \subseteq Nat
  BY <1>1, RowsRest DEF ChatInv, ChatType
<1>3. CASE AcceptProposal(c)
  <2>1. AsksInv' /\ AsksType' /\ Asking' \subseteq Asking
    BY <1>1, <1>2, <1>3, AskDone DEF AcceptProposal
  <2> QED BY <1>1, <1>2, <2>1, RequestStep
<1>4. ASSUME NEW d \in DOMAIN drafts, ReadForAccept(c, d), d \in Nat
      PROVE  ChatInv'
  <2> DEFINE a == [NoAsk EXCEPT !.pc = "accept", !.about = d]
  <2>1. a \in Reading /\ a.pc = "accept"
    BY <1>4 DEF NoAsk, Reading, AskStates
  <2>2. requests' = [requests EXCEPT ![c] = a]
    BY <1>4 DEF ReadForAccept, Asks
  <2> HIDE DEF a
  <2>3. AsksInv' /\ AsksType' /\ Asking' \subseteq Asking
    BY <1>1, <1>2, <2>1, <2>2, AskSet
  <2> QED BY <1>1, <1>2, <2>3, RequestStep
<1>5. DOMAIN drafts \subseteq Nat
  BY DEF DraftsType
<1> QED BY <1>3, <1>4, <1>5

(* Whoever read a row goes on; the row is written over.                    *)
LEMMA ReadRowStep ==
    ASSUME ChatInv, NEW c \in Chatters, NEW j \in DOMAIN rows,
           ReadToRetry(c, j) \/ ReadToCancel(c, j) \/ ReadLapsed(c, j)
    PROVE  ChatInv'
<1>8. rows[j] \in ChatRow
  BY DEF ChatInv, ChatType
<1>1. rows[j].cancel \in BOOLEAN
  BY <1>8 DEF ChatRow
<1>2. PICK state \in {"queued", "cancelled", "same", "failed"}, cancel \in BOOLEAN :
        Rewrites(c, j, state, cancel)
  BY <1>1 DEF ReadToRetry, ReadToCancel, ReadLapsed
<1> DEFINE a == [NoAsk EXCEPT !.pc = "rewrite", !.about = j, !.state = state, !.cancel = cancel]
<1>3. /\ UNCHANGED <<rows, session, turns, hand, overturned>>
      /\ requests' = [requests EXCEPT ![c] = a]
  BY <1>2 DEF Rewrites, Asks
<1>4. /\ RowsGo({}) /\ Len(turns') \in Nat /\ Len(turns) <= Len(turns')
      /\ overturned' \subseteq Nat /\ DOMAIN rows \subseteq DOMAIN rows'
  BY <1>3, RowsRest DEF ChatInv, ChatType
<1>5. j \in Nat
  BY DEF ChatInv, ChatType
<1>6. a \in Reading /\ a.pc = "rewrite" /\ a.about = j /\ a.state # "none"
  BY <1>2, <1>5 DEF NoAsk, Reading, AskStates
<1> HIDE DEF a
<1>7. AsksInv' /\ AsksType' /\ Asking' \subseteq Asking
  BY <1>3, <1>4, <1>6, AskSet
<1> QED BY <1>3, <1>4, <1>7, RequestStep

LEMMA WriteRowStep ==
    ASSUME ChatInv, NEW c \in Chatters, WriteRow(c)
    PROVE  ChatInv'
<1> DEFINE j == requests[c].about
           state == IF requests[c].state = "same" THEN rows[j].state ELSE requests[c].state
           row == [rows[j] EXCEPT !.state = state, !.cancel = requests[c].cancel,
                      !.owner = IF state = "running" THEN @ ELSE NoChatWorker,
                      !.revived = @ \/ (state = "queued" /\ ~Waiting(j))]
<1>1. /\ requests[c].pc = "rewrite" /\ Done(c) /\ UNCHANGED <<session, turns, hand>>
      /\ overturned' = IF rows[j].state = "succeeded" /\ state # "succeeded"
                       THEN overturned \cup {j} ELSE overturned
  BY DEF WriteRow
<1>2. /\ rows \in Seq(ChatRow) /\ requests \in [Chatters -> Reading]
      /\ overturned \subseteq Nat /\ Len(turns) \in Nat
  BY DEF ChatInv, ChatType, Reading
<1>3. /\ j \in DOMAIN rows /\ requests[c].state # "none"
  BY <1>1 DEF ChatInv, AsksInv
<1>4. rows[j] \in ChatRow /\ j \in Nat
  BY <1>2, <1>3
<1>5. /\ requests[c].state \in {"same", "queued", "cancelled", "failed"}
      /\ requests[c].cancel \in BOOLEAN
  BY <1>2, <1>3 DEF Reading
<1>6. state \in JobStates /\ state \in {rows[j].state, "queued", "cancelled", "failed"}
  BY <1>4, <1>5 DEF ChatRow, JobStates
<1>7. rows' = [rows EXCEPT ![j] = row]
  BY <1>2, <1>3, <1>4 DEF WriteRow, ChatRow
<1> HIDE DEF state
<1>8. row \in ChatRow
  BY <1>4, <1>5, <1>6 DEF ChatRow
<1>9. /\ row.kind = rows[j].kind /\ row.basis = rows[j].basis /\ row.state = state
      /\ row.result = rows[j].result
      /\ row.revived = (rows[j].revived \/ (state = "queued" /\ ~Waiting(j)))
  BY <1>4 DEF ChatRow
<1> HIDE DEF row
<1>10. AtWork(row) => AtWork(rows[j])
  BY <1>6, <1>9 DEF AtWork, Waiting
<1>11. RowsGo({})
  BY <1>1, <1>2, <1>3, <1>6, <1>7, <1>8, <1>9, <1>10, RowReplaced DEF ChatInv
<1>12. DOMAIN rows' = DOMAIN rows
  BY <1>11, DomainsSame DEF ChatInv
<1>13. AsksInv' /\ AsksType' /\ Asking' \subseteq Asking
  BY <1>1, <1>2, <1>12, AskDone
<1>14. overturned \subseteq overturned' /\ overturned' \subseteq Nat
  BY <1>1, <1>2, <1>4
<1> QED BY <1>1, <1>11, <1>13, <1>14, RequestStep

LEMMA DraftsStay ==
    ASSUME ChatInv, DraftsType, [ChatNext]_chatVars
    PROVE  DraftsType'
<1>1. CASE UNCHANGED drafts
  BY <1>1 DEF DraftsType
<1>2. ASSUME NEW w \in ChatWorkers, StoreDraft(w), ~UNCHANGED drafts
      PROVE  DraftsType'
  <2>1. hand[w].at = "store" /\ hand[w].at # "rest"
    BY <1>2 DEF StoreDraft
  <2>2. hand[w].job \in Nat /\ rows[hand[w].job].basis \in Nat
    BY <2>1, HandHas DEF ChatRow
  <2>3. drafts' = Append(drafts, [job |-> hand[w].job, basis |-> rows[hand[w].job].basis])
    BY <1>2 DEF StoreDraft
  <2> QED BY <2>2, <2>3 DEF DraftsType
<1> QED BY <1>1, <1>2 DEF ChatNext, chatVars, AskContext, CaptureContext, KeepSession, AskModel,
          ReadAgain, StoreAnswer, LeaseChatJob, ReadForMessage, SendMessage, ReadForProposal,
          RequestProposal, AcceptProposal, WriteRow, ReadForAccept, ReadToRetry, ReadToCancel,
          ReadLapsed, Rewrites

LEMMA ChatStarts == ChatInit => ChatInv /\ DraftsType
<1> SUFFICES ASSUME ChatInit PROVE ChatInv /\ DraftsType
  OBVIOUS
<1>1. /\ rows = <<>> /\ session = 0 /\ turns = <<>> /\ drafts = <<>> /\ overturned = {}
      /\ hand = [w \in ChatWorkers |-> IdleHand] /\ requests = [c \in Chatters |-> NoAsk]
  BY DEF ChatInit
<1>2. ChatType /\ DraftsType
  BY <1>1 DEF ChatType, DraftsType, IdleHand, NoAsk, HandStates, AskStates
<1>3. MessagesInv /\ AnswersInv /\ SessionInv /\ HandsInv /\ AsksInv
  BY <1>1 DEF MessagesInv, AnswersInv, SessionInv, HandsInv, AsksInv, IdleHand, NoAsk
<1>4. OpenJobs = {} /\ Asking = {}
  BY <1>1 DEF OpenJobs, ModelJobs, Asking, NoAsk
<1>5. LoadInv
  BY <1>4, FS_EmptySet, ChatAssumption, FS_CardinalityType DEF LoadInv
<1> QED BY <1>2, <1>3, <1>5 DEF ChatInv

LEMMA ChatStep ==
    ASSUME ChatInv, DraftsType, [ChatNext]_chatVars
    PROVE  ChatInv'
<1>1. CASE UNCHANGED chatVars
  <2>1. /\ RowsGo({}) /\ UNCHANGED <<session, turns, hand, requests, overturned>>
    BY <1>1, RowsRest DEF ChatInv, chatVars
  <2>2. AsksInv' /\ AsksType' /\ Asking' = Asking /\ overturned' \subseteq Nat
    BY <1>1 DEF ChatInv, ChatType, AsksInv, AsksType, Asking, chatVars
  <2> QED BY <2>1, <2>2, RequestStep
<1>2. CASE AskContext
  BY <1>2, AskContextStep
<1>3. ASSUME NEW w \in ChatWorkers,
             \/ CaptureContext(w) \/ KeepSession(w) \/ AskModel(w) \/ ReadAgain(w)
             \/ StoreAnswer(w) \/ StoreDraft(w)
             \/ \E j \in DOMAIN rows : LeaseChatJob(w, j)
      PROVE  ChatInv'
  BY <1>3, CaptureStep, KeepStep, ModelStep, AnswerStep, DraftStep, LeaseChatStep
<1>4. ASSUME NEW c \in Chatters,
             \/ ReadForMessage(c) \/ SendMessage(c) \/ ReadForProposal(c) \/ RequestProposal(c)
             \/ AcceptProposal(c) \/ WriteRow(c)
             \/ \E d \in DOMAIN drafts : ReadForAccept(c, d)
             \/ \E j \in DOMAIN rows :
                  ReadToRetry(c, j) \/ ReadToCancel(c, j) \/ ReadLapsed(c, j)
      PROVE  ChatInv'
  BY <1>4, ReadToAskStep, SendStep, RequestProposalStep, AcceptSteps, WriteRowStep, ReadRowStep
<1> QED BY <1>1, <1>2, <1>3, <1>4 DEF ChatNext

LEMMA ChatSafe == ChatSpec => [](ChatInv /\ DraftsType)
<1>1. ChatInv /\ DraftsType /\ [ChatNext]_chatVars => (ChatInv /\ DraftsType)'
  BY ChatStep, DraftsStay
<1> QED BY <1>1, ChatStarts, PTL DEF ChatSpec

(* The transcript and the session of an attempt stay readable unless the   *)
(* row of a job that had succeeded was written over (app/coding.py turns,  *)
(* _capture_context), for any number of workers, requests and recoveries.  *)
THEOREM TranscriptStaysReadable == ChatSpec => []TranscriptReads
<1>1. ChatInv => TranscriptReads
  <2> SUFFICES ASSUME ChatInv PROVE TranscriptReads
    OBVIOUS
  <2>1. \A i \in DOMAIN turns : turns[i].role = "assistant" =>
          i > 1 /\ (turns[i - 1].job \in overturned \/ Answers(i))
    BY DEF ChatInv, AnswersInv, Answers
  <2> QED BY <2>1 DEF ChatInv, SessionInv, TranscriptReads
<1> QED BY <1>1, ChatSafe, PTL

(* However many requests read that no model job is active before any of    *)
(* them adds its own, at most one of each is at work; a job that is put    *)
(* back to the queue after it ended is not counted                         *)
(* (app/coding.py _require_no_active_job, app/jobs.py retry).              *)
THEOREM ModelJobsStayBounded == ChatSpec => []ModelJobsAreBounded
<1>1. ChatInv => ModelJobsAreBounded
  <2> SUFFICES ASSUME ChatInv PROVE ModelJobsAreBounded
    OBVIOUS
  <2>1. Cardinality(OpenJobs) + Cardinality(Asking) <= Cardinality(Chatters)
    BY DEF ChatInv, LoadInv
  <2>2. Cardinality(OpenJobs) <= Cardinality(Chatters)
    BY <2>1, LoadIsFinite
  <2> QED BY <2>2 DEF OpenJobs, ModelJobsAreBounded
<1> QED BY <1>1, ChatSafe, PTL

-----------------------------------------------------------------------------
(* ModelSelection: every version of the selection but the first has its    *)
(* event, events name the versions in order, and a plan is bound under a   *)
(* number of its own once the models changed.                              *)
EventKinds == {"model_selection_applied", "model_changed", "plan_bound", "execution_authorized",
               "automation_blocked", "stop_requested"}
TaskEvent == [kind : EventKinds, version : Nat, plan : Nat, basis : Nat, code : Models, seen : Nat]

SelectionType ==
    /\ bindings \in Seq(Selection) /\ defaults \in Selection
    /\ history \in Seq(TaskEvent)
    /\ handling \in [Handlers -> [pc : {"free", "select", "plan", "execute"}, to : Selection,
                                  seen : Nat, plan : Nat, target : Models]]

VersionsInv ==
    /\ \A i \in DOMAIN history : /\ history[i].version <= Len(bindings)
                                 /\ history[i].kind = "model_changed" => history[i].version >= 1
    /\ \A i, k \in DOMAIN history : i < k => history[i].version <= history[k].version

ChangedTo(v, i) == \E k \in DOMAIN history : /\ k > i /\ history[k].kind = "model_changed"
                                             /\ history[k].version = v
ChangesInv ==
    \A i \in DOMAIN history : \A v \in 2..Len(bindings) : v > history[i].version => ChangedTo(v, i)

Plans == {i \in DOMAIN history : history[i].kind = "plan_bound"}
PlansInv ==
    \A i, k \in Plans : i < k =>
        /\ history[i].plan <= history[k].plan
        /\ (\E m \in DOMAIN history : i < m /\ m < k /\ history[m].kind = "model_changed")
           => history[i].plan < history[k].plan

(* A page showed this plan and this version of the selection.              *)
Shown(seen, plan) ==
    /\ seen <= Len(bindings)
    /\ \E i \in Plans : /\ history[i].plan = plan /\ history[i].version <= seen
                        /\ \A v \in 2..Len(bindings) : v > seen => ChangedTo(v, i)
ShownInv ==
    \A c \in Handlers : handling[c].pc = "execute" => Shown(handling[c].seen, handling[c].plan)

Confirmed(k) ==
    LET e == history[k]
        adopted == e.version = 1 /\ \A i \in 1..k : history[i].kind # "model_changed"
    IN
    /\ e.basis \in 1..(k - 1)
    /\ e.code = IF e.version = 0 THEN Environment ELSE bindings[e.version].code
    /\ history[e.basis].version = e.version \/ (history[e.basis].version = 0 /\ adopted)
    /\ e.seen = e.version \/ (e.seen = 0 /\ adopted)
ConfirmedInv == \A k \in DOMAIN history : history[k].kind = "execution_authorized" => Confirmed(k)

SelectionInv ==
    /\ SelectionType /\ VersionsInv /\ ChangesInv /\ PlansInv /\ ShownInv /\ ConfirmedInv

(* What every step does to the selection and to the events: a version or   *)
(* an event is added, an event names the version that is bound after it,   *)
(* and a version that is not the first comes with its event.               *)
NewEvent == history'[Len(history')]
SelectionGrows ==
    /\ bindings' \in Seq(Selection) /\ Len(bindings) <= Len(bindings')
    /\ \A v \in DOMAIN bindings : bindings'[v] = bindings[v]
    /\ history' \in Seq(TaskEvent) /\ Len(history') \in {Len(history), Len(history) + 1}
    /\ \A k \in DOMAIN history : history'[k] = history[k]
    /\ \A v \in 2..Len(bindings') : v > Len(bindings) =>
         /\ v = Len(bindings') /\ Len(history') = Len(history) + 1
         /\ NewEvent.kind = "model_changed"
    /\ Len(history') = Len(history) + 1 =>
         /\ NewEvent.version = Len(bindings')
         /\ NewEvent.kind = "model_changed" => Len(bindings') >= 1
         /\ NewEvent.kind = "plan_bound" => \A i \in Plans :
              /\ history[i].plan <= NewEvent.plan
              /\ ModelsChangedAfter(i) => history[i].plan < NewEvent.plan

LensGrow ==
    /\ Len(history) \in Nat /\ Len(history') \in Nat
    /\ Len(bindings) \in Nat /\ Len(bindings') \in Nat
    /\ Len(bindings) <= Len(bindings')
EventsGrow ==
    /\ \A k \in DOMAIN history : k \in Nat /\ k >= 1 /\ k <= Len(history) /\ k \in DOMAIN history'
    /\ \A k \in DOMAIN history' :
         /\ k \in Nat /\ k >= 1
         /\ k <= Len(history) => k \in DOMAIN history
         /\ k \notin DOMAIN history =>
              k = Len(history') /\ Len(history') = Len(history) + 1 /\ history'[k] = NewEvent
    /\ \A k \in Nat : k >= 1 /\ k <= Len(history) => k \in DOMAIN history
    /\ Len(history') = Len(history) + 1 => Len(history') \in DOMAIN history'

LEMMA LensAreNat ==
    ASSUME SelectionType, SelectionGrows
    PROVE  LensGrow
BY DEF SelectionType, SelectionGrows, LensGrow

LEMMA SeqIndex ==
    ASSUME NEW T, NEW s \in Seq(T), NEW k
    PROVE  k \in DOMAIN s <=> k \in Nat /\ k >= 1 /\ k <= Len(s)
OBVIOUS

LEMMA EventIsNew ==
    ASSUME SelectionType, SelectionGrows
    PROVE  EventsGrow
<1>1. /\ Len(history) \in Nat /\ Len(history') \in Nat
      /\ Len(history') \in {Len(history), Len(history) + 1}
  BY LensAreNat DEF LensGrow, SelectionGrows
<1>2. /\ \A k : k \in DOMAIN history <=> k \in Nat /\ k >= 1 /\ k <= Len(history)
      /\ \A k : k \in DOMAIN history' <=> k \in Nat /\ k >= 1 /\ k <= Len(history')
  BY SeqIndex DEF SelectionType, SelectionGrows
<1>3. \A k \in DOMAIN history : k \in Nat /\ k >= 1 /\ k <= Len(history) /\ k \in DOMAIN history'
  BY <1>1, <1>2
<1>4. \A k \in DOMAIN history' :
         /\ k \in Nat /\ k >= 1
         /\ k <= Len(history) => k \in DOMAIN history
         /\ k \notin DOMAIN history => k = Len(history') /\ Len(history') = Len(history) + 1
  BY <1>1, <1>2
<1> QED BY <1>1, <1>2, <1>3, <1>4 DEF EventsGrow, NewEvent

LEMMA VersionsGrow ==
    ASSUME SelectionType, VersionsInv, SelectionGrows
    PROVE  VersionsInv'
<1>a. EventsGrow /\ LensGrow
  BY EventIsNew, LensAreNat
<1>b. \A k \in DOMAIN history : history[k] \in TaskEvent
  BY DEF SelectionType
<1>1. \A k \in DOMAIN history : history[k].version \in Nat
  BY <1>b DEF TaskEvent
<1>c. /\ Len(bindings) <= Len(bindings') /\ Len(bindings) \in Nat /\ Len(bindings') \in Nat
  BY <1>a DEF LensGrow
<1>d. \A k \in DOMAIN history : history'[k] = history[k]
  BY DEF SelectionGrows
<1>e. \A k \in DOMAIN history' : k \notin DOMAIN history =>
        /\ history'[k].version = Len(bindings')
        /\ history'[k].kind = "model_changed" => Len(bindings') >= 1
  BY <1>a DEF EventsGrow, SelectionGrows
<1>2. ASSUME NEW k \in DOMAIN history'
      PROVE  /\ history'[k].version <= Len(bindings')
             /\ history'[k].kind = "model_changed" => history'[k].version >= 1
  <2>1. CASE k \in DOMAIN history
    BY <1>1, <1>c, <1>d, <2>1 DEF VersionsInv
  <2>2. CASE k \notin DOMAIN history
    BY <1>2, <1>c, <1>e, <2>2
  <2> QED BY <2>1, <2>2
<1>3. ASSUME NEW i \in DOMAIN history', NEW k \in DOMAIN history', i < k
      PROVE  history'[i].version <= history'[k].version
  <2>1. i \in DOMAIN history
    BY <1>a, <1>3 DEF EventsGrow, LensGrow
  <2>3. CASE k \in DOMAIN history
    BY <1>3, <1>d, <2>1, <2>3 DEF VersionsInv
  <2>4. CASE k \notin DOMAIN history
    BY <1>2, <1>3, <1>e, <2>4
  <2> QED BY <2>3, <2>4
<1> QED BY <1>2, <1>3 DEF VersionsInv

(* Where a version has an event after i, it keeps it, and new ones have.   *)
LEMMA ChangesKept ==
    ASSUME SelectionType, SelectionGrows, NEW i \in DOMAIN history, NEW s,
           \A v \in 2..Len(bindings) : v > s => ChangedTo(v, i)
    PROVE  \A v \in 2..Len(bindings') : v > s => ChangedTo(v, i)'
<1>a. EventsGrow /\ LensGrow
  BY EventIsNew, LensAreNat
<1>1. ASSUME NEW v \in 2..Len(bindings'), v > s
      PROVE  \E k \in DOMAIN history' : /\ k > i /\ history'[k].kind = "model_changed"
                                        /\ history'[k].version = v
  <2>1. CASE v <= Len(bindings)
    <3>3. v \in 2..Len(bindings)
      BY <1>a, <1>1, <2>1 DEF LensGrow
    <3>1. ChangedTo(v, i)
      BY <1>1, <3>3
    <3>2. PICK k \in DOMAIN history : /\ k > i /\ history[k].kind = "model_changed"
                                      /\ history[k].version = v
      BY <3>1 DEF ChangedTo
    <3>4. k \in DOMAIN history' /\ history'[k] = history[k]
      BY <1>a DEF EventsGrow, SelectionGrows
    <3> QED BY <3>2, <3>4
  <2>2. CASE v > Len(bindings)
    <3>1. /\ v = Len(bindings') /\ Len(history') = Len(history) + 1
          /\ NewEvent.kind = "model_changed" /\ NewEvent.version = Len(bindings')
      BY <1>1, <2>2 DEF SelectionGrows
    <3>2. Len(history') \in DOMAIN history' /\ Len(history') > i
      BY <1>a, <3>1 DEF EventsGrow, LensGrow
    <3> QED BY <3>1, <3>2 DEF NewEvent
  <2>3. v \in Nat /\ Len(bindings) \in Nat
    BY <1>a, <1>1 DEF LensGrow
  <2> QED BY <2>1, <2>2, <2>3
<1> QED BY <1>1 DEF ChangedTo

LEMMA ChangesGrow ==
    ASSUME SelectionType, ChangesInv, VersionsInv, SelectionGrows
    PROVE  ChangesInv'
<1>a. EventsGrow /\ LensGrow
  BY EventIsNew, LensAreNat
<1>1. ASSUME NEW i \in DOMAIN history', i \in DOMAIN history
      PROVE  \A v \in 2..Len(bindings') : v > history'[i].version => ChangedTo(v, i)'
  <2>1. history'[i] = history[i]
    BY <1>1 DEF SelectionGrows
  <2>2. \A v \in 2..Len(bindings) : v > history[i].version => ChangedTo(v, i)
    BY <1>1 DEF ChangesInv
  <2> QED BY <1>1, <2>1, <2>2, ChangesKept
<1>2. ASSUME NEW i \in DOMAIN history', i \notin DOMAIN history
      PROVE  \A v \in 2..Len(bindings') : v > history'[i].version => ChangedTo(v, i)'
  <2>1. history'[i].version = Len(bindings') /\ Len(bindings') \in Nat
    BY <1>a, <1>2 DEF EventsGrow, LensGrow, SelectionGrows
  <2> QED BY <2>1
<1> QED BY <1>1, <1>2 DEF ChangesInv

LEMMA PlansGrow ==
    ASSUME SelectionType, PlansInv, SelectionGrows
    PROVE  PlansInv'
<1>a. EventsGrow /\ LensGrow
  BY EventIsNew, LensAreNat
<1>1. ASSUME NEW i \in Plans', NEW k \in Plans', i < k
      PROVE  /\ history'[i].plan <= history'[k].plan
             /\ (\E m \in DOMAIN history' : i < m /\ m < k /\ history'[m].kind = "model_changed")
                => history'[i].plan < history'[k].plan
  <2>6. i \in DOMAIN history' /\ k \in DOMAIN history'
    BY <1>1 DEF Plans
  <2>1. i \in DOMAIN history /\ i \in DOMAIN history' /\ k \in DOMAIN history'
    BY <1>a, <1>1, <2>6 DEF EventsGrow, LensGrow
  <2>2. history'[i] = history[i] /\ i \in Plans
    BY <1>1, <2>1 DEF Plans, SelectionGrows
  <2>3. ASSUME NEW m \in DOMAIN history', i < m, m < k, history'[m].kind = "model_changed"
        PROVE  m \in DOMAIN history /\ history[m].kind = "model_changed"
    <3>1. m \in DOMAIN history
      BY <1>a, <2>6, <2>3 DEF EventsGrow, LensGrow
    <3> QED BY <2>3, <3>1 DEF SelectionGrows
  <2>4. CASE k \in DOMAIN history
    <3>1. history'[k] = history[k] /\ k \in Plans
      BY <1>1, <2>4 DEF Plans, SelectionGrows
    <3> QED BY <1>1, <2>2, <2>3, <3>1 DEF PlansInv
  <2>5. CASE k \notin DOMAIN history
    <3>1. /\ history'[k] = NewEvent /\ NewEvent.kind = "plan_bound"
          /\ Len(history') = Len(history) + 1
      BY <1>a, <1>1, <2>1, <2>5 DEF Plans, EventsGrow
    <3>2. /\ history[i].plan <= NewEvent.plan
          /\ ModelsChangedAfter(i) => history[i].plan < NewEvent.plan
      BY <2>2, <3>1 DEF SelectionGrows
    <3> QED BY <2>2, <2>3, <3>1, <3>2 DEF ModelsChangedAfter
  <2> QED BY <2>4, <2>5
<1> QED BY <1>1 DEF PlansInv

LEMMA ShownStays ==
    ASSUME SelectionType, SelectionGrows, NEW c \in Handlers, handling'[c] = handling[c],
           Shown(handling[c].seen, handling[c].plan)
    PROVE  Shown(handling[c].seen, handling[c].plan)'
<1> DEFINE seen == handling[c].seen
<1>a. EventsGrow /\ LensGrow
  BY EventIsNew, LensAreNat
<1>1. PICK i \in Plans : /\ history[i].plan = handling[c].plan /\ history[i].version <= seen
                         /\ \A v \in 2..Len(bindings) : v > seen => ChangedTo(v, i)
  BY DEF Shown
<1>2. i \in DOMAIN history /\ history'[i] = history[i] /\ i \in Plans'
  BY <1>a DEF Plans, SelectionGrows, EventsGrow
<1>3. \A v \in 2..Len(bindings') : v > seen => ChangedTo(v, i)'
  BY <1>1, <1>2, ChangesKept
<1>4. seen <= Len(bindings')
  <2>1. seen \in Nat
    BY DEF SelectionType
  <2> QED BY <1>a, <2>1 DEF Shown, LensGrow
<1> QED BY <1>1, <1>2, <1>3, <1>4 DEF Shown

LEMMA ConfirmedStays ==
    ASSUME SelectionType, VersionsInv, SelectionGrows, NEW k \in DOMAIN history, Confirmed(k)
    PROVE  Confirmed(k)'
<1>a. EventsGrow /\ LensGrow
  BY EventIsNew, LensAreNat
<1>1. history'[k] = history[k]
  BY DEF SelectionGrows
<1>b. k \in Nat /\ 1..k \subseteq DOMAIN history
  BY <1>a DEF EventsGrow
<1>c. history[k].basis \in 1..(k - 1)
  BY DEF Confirmed
<1>d. history[k].basis \in DOMAIN history
  BY <1>b, <1>c
<1>2. history'[history[k].basis] = history[history[k].basis]
  BY <1>d DEF SelectionGrows
<1>3. \A i \in 1..k : history'[i] = history[i]
  BY <1>b DEF SelectionGrows
<1>4. history[k].version # 0 => bindings'[history[k].version] = bindings[history[k].version]
  <2>3. history[k] \in TaskEvent
    BY DEF SelectionType
  <2>1. history[k].version \in Nat /\ history[k].version <= Len(bindings)
    BY <2>3 DEF TaskEvent, VersionsInv
  <2>2. history[k].version # 0 => history[k].version \in DOMAIN bindings
    <3>1. DOMAIN bindings = 1..Len(bindings)
      BY DEF SelectionType
    <3> QED BY <1>a, <2>1, <3>1 DEF LensGrow
  <2> QED BY <2>2 DEF SelectionGrows
<1> QED BY <1>1, <1>2, <1>3, <1>4 DEF Confirmed

(* A step that authorizes nothing, or what was confirmed.                  *)
LEMMA SelectionStep ==
    ASSUME SelectionInv, SelectionGrows, SelectionType',
           \A c \in Handlers : handling'[c].pc = "execute" =>
               \/ handling'[c] = handling[c]
               \/ Shown(handling[c].seen, handling[c].plan)',
           Len(history') = Len(history) + 1 /\ NewEvent.kind = "execution_authorized"
               => Confirmed(Len(history))'
    PROVE  SelectionInv'
<1> USE DEF SelectionInv
<1>a. EventsGrow /\ LensGrow
  BY EventIsNew, LensAreNat
<1>1. VersionsInv' /\ ChangesInv' /\ PlansInv'
  BY VersionsGrow, ChangesGrow, PlansGrow
<1>2. ShownInv'
  <2>1. ASSUME NEW c \in Handlers, handling'[c].pc = "execute"
        PROVE  Shown(handling[c].seen, handling[c].plan)'
    <3>1. CASE handling'[c] = handling[c]
      <4>1. Shown(handling[c].seen, handling[c].plan)
        BY <2>1, <3>1 DEF ShownInv
      <4> QED BY <3>1, <4>1, ShownStays
    <3> QED BY <2>1, <3>1
  <2> QED BY <2>1 DEF ShownInv
<1>3. ConfirmedInv'
  <2>1. ASSUME NEW k \in DOMAIN history', history'[k].kind = "execution_authorized"
        PROVE  Confirmed(k)'
    <3>1. CASE k \in DOMAIN history
      <4>1. history[k].kind = "execution_authorized"
        BY <2>1, <3>1 DEF SelectionGrows
      <4> QED BY <3>1, <4>1, ConfirmedStays DEF ConfirmedInv
    <3>2. CASE k \notin DOMAIN history
      <4>1. k = Len(history') /\ Len(history') = Len(history) + 1 /\ history'[k] = NewEvent
        BY <1>a, <2>1, <3>2 DEF EventsGrow
      <4> QED BY <2>1, <4>1
    <3> QED BY <3>1, <3>2
  <2> QED BY <2>1 DEF ConfirmedInv
<1> QED BY <1>1, <1>2, <1>3

(* The parts of a step.                                                    *)
Handling == [pc : {"free", "select", "plan", "execute"}, to : Selection, seen : Nat, plan : Nat,
             target : Models]

LEMMA HandlingSet ==
    ASSUME SelectionType, NEW c \in Handlers, NEW a \in Handling, To(c, a)
    PROVE  /\ handling' \in [Handlers -> Handling]
           /\ \A d \in Handlers : handling'[d] = IF d = c THEN a ELSE handling[d]
BY DEF SelectionType, Handling, To

LEMMA HandlerLeaves ==
    ASSUME SelectionType, NEW c \in Handlers, Leave(c)
    PROVE  /\ handling' \in [Handlers -> Handling]
           /\ \A d \in Handlers : handling'[d].pc = "execute" => handling'[d] = handling[d]
<1>1. NoHandler \in Handling /\ NoHandler.pc = "free"
  BY DEF NoHandler, Handling, Unset, Selection, Models
<1> QED BY <1>1, HandlingSet DEF Leave

LEMMA SelectionStays ==
    ASSUME SelectionInv, UNCHANGED <<bindings, history>>, defaults' \in Selection,
           handling' \in [Handlers -> Handling],
           \A c \in Handlers : handling'[c].pc = "execute" =>
               \/ handling'[c] = handling[c]
               \/ Shown(handling[c].seen, handling[c].plan)'
    PROVE  SelectionInv'
<1>1. bindings \in Seq(Selection) /\ history \in Seq(TaskEvent)
  BY DEF SelectionInv, SelectionType
<1>2. SelectionGrows
  BY <1>1 DEF SelectionGrows
<1>3. SelectionType'
  BY <1>1 DEF SelectionType, Handling
<1>4. Len(history') # Len(history) + 1
  BY <1>1
<1> QED BY <1>2, <1>3, <1>4, SelectionStep

LEMMA EventLogged ==
    ASSUME SelectionType, NEW ev \in TaskEvent, Log(ev)
    PROVE  /\ history' \in Seq(TaskEvent) /\ Len(history') = Len(history) + 1
           /\ \A k \in DOMAIN history : history'[k] = history[k]
           /\ NewEvent = ev
<1>1. history \in Seq(TaskEvent) /\ Len(history) \in Nat
  BY DEF SelectionType
<1>2. /\ history' \in Seq(TaskEvent) /\ Len(history') = Len(history) + 1
      /\ \A k \in 1..Len(history) : history'[k] = history[k]
      /\ history'[Len(history) + 1] = ev
  BY <1>1, AppendProperties DEF Log
<1>3. \A k \in DOMAIN history : k \in 1..Len(history)
  BY <1>1
<1> QED BY <1>2, <1>3 DEF NewEvent

LEMMA VersionAdded ==
    ASSUME NEW s \in Seq(Selection), NEW sel \in Selection
    PROVE  /\ Append(s, sel) \in Seq(Selection) /\ Len(Append(s, sel)) = Len(s) + 1
           /\ \A v \in DOMAIN s : Append(s, sel)[v] = s[v]
           /\ Append(s, sel)[Len(s) + 1] = sel /\ Len(s) \in Nat
<1>1. \A v \in DOMAIN s : v \in 1..Len(s)
  OBVIOUS
<1> QED BY <1>1, AppendProperties

(* A receipt, a stop or a block; a plan that is bound.                     *)
LEMMA ReceiptLogged ==
    ASSUME SelectionInv, UNCHANGED <<bindings, defaults>>, handling' \in [Handlers -> Handling],
           \A c \in Handlers : handling'[c].pc = "execute" => handling'[c] = handling[c],
           NEW kind \in {"model_selection_applied", "automation_blocked", "stop_requested"},
           Log(Event(kind, Len(bindings)))
    PROVE  SelectionInv'
<1> DEFINE ev == Event(kind, Len(bindings))
<1>1. SelectionType /\ bindings \in Seq(Selection) /\ Len(bindings) \in Nat
  BY DEF SelectionInv, SelectionType
<1>2. ev \in TaskEvent /\ ev.kind = kind /\ ev.version = Len(bindings)
  BY <1>1 DEF Event, TaskEvent, EventKinds, Models
<1> HIDE DEF ev
<1>3. /\ history' \in Seq(TaskEvent) /\ Len(history') = Len(history) + 1
      /\ \A k \in DOMAIN history : history'[k] = history[k]
      /\ NewEvent = ev
  BY <1>1, <1>2, EventLogged DEF ev
<1>4. SelectionGrows
  BY <1>1, <1>2, <1>3 DEF SelectionGrows
<1>5. SelectionType'
  BY <1>1, <1>3 DEF SelectionInv, SelectionType, Handling
<1> QED BY <1>2, <1>3, <1>4, <1>5, SelectionStep

(* An event by which the models of the task changed.                       *)
LEMMA ChangeLogged ==
    ASSUME SelectionInv, UNCHANGED defaults, handling' \in [Handlers -> Handling],
           \A c \in Handlers : handling'[c].pc = "execute" => handling'[c] = handling[c],
           bindings' \in Seq(Selection), \A v \in DOMAIN bindings : bindings'[v] = bindings[v],
           \/ Len(bindings') = Len(bindings) + 1
           \/ Len(bindings) = 0 /\ Len(bindings') = 2,
           Log(Event("model_changed", Len(bindings')))
    PROVE  SelectionInv'
<1> DEFINE ev == Event("model_changed", Len(bindings'))
<1>1. SelectionType /\ bindings \in Seq(Selection) /\ Len(bindings) \in Nat /\ Len(bindings') \in Nat
  BY DEF SelectionInv, SelectionType
<1>2. ev \in TaskEvent /\ ev.kind = "model_changed" /\ ev.version = Len(bindings')
  BY <1>1 DEF Event, TaskEvent, EventKinds, Models
<1> HIDE DEF ev
<1>3. /\ history' \in Seq(TaskEvent) /\ Len(history') = Len(history) + 1
      /\ \A k \in DOMAIN history : history'[k] = history[k]
      /\ NewEvent = ev
  BY <1>1, <1>2, EventLogged DEF ev
<1>6. /\ Len(bindings) <= Len(bindings') /\ Len(bindings') >= 1
      /\ \A v \in 2..Len(bindings') : v > Len(bindings) => v = Len(bindings')
  <2>1. CASE Len(bindings') = Len(bindings) + 1
    BY <1>1, <2>1
  <2>2. CASE Len(bindings) = 0 /\ Len(bindings') = 2
    BY <2>2
  <2> QED BY <2>1, <2>2
<1>4. SelectionGrows
  BY <1>2, <1>3, <1>6 DEF SelectionGrows
<1>5. SelectionType'
  BY <1>1, <1>3 DEF SelectionInv, SelectionType, Handling
<1> QED BY <1>2, <1>3, <1>4, <1>5, SelectionStep

(* The first version of a task that had none comes without an event.       *)
LEMMA FirstBound ==
    ASSUME SelectionInv, UNCHANGED <<history, defaults>>, handling' \in [Handlers -> Handling],
           \A c \in Handlers : handling'[c].pc = "execute" => handling'[c] = handling[c],
           ~Bound, NEW sel \in Selection, bindings' = <<sel>>
    PROVE  SelectionInv'
<1>1. /\ history \in Seq(TaskEvent) /\ Len(history) \in Nat
      /\ bindings \in Seq(Selection) /\ bindings = <<>>
  BY DEF SelectionInv, SelectionType, Bound
<1>2. bindings' \in Seq(Selection) /\ Len(bindings') = 1 /\ Len(bindings) = 0 /\ DOMAIN bindings = {}
  BY <1>1
<1>3. SelectionGrows
  BY <1>1, <1>2 DEF SelectionGrows
<1>4. SelectionType'
  BY <1>1, <1>2 DEF SelectionInv, SelectionType, Handling
<1> QED BY <1>1, <1>3, <1>4, SelectionStep

LEMMA PlanBound ==
    ASSUME SelectionInv, UNCHANGED <<bindings, defaults, handling>>, BindPlan
    PROVE  SelectionInv'
<1>1. SelectionType /\ bindings \in Seq(Selection) /\ Len(bindings) \in Nat /\ history \in Seq(TaskEvent)
  BY DEF SelectionInv, SelectionType
<1>2. PICK p \in 0..MaxRecords :
         /\ LatestPlan(p)
         /\ \/ Log([Event("plan_bound", Len(bindings)) EXCEPT !.plan = p + 1])
            \/ /\ \E i \in DOMAIN history : IsLast(i, "plan_bound") /\ ~ModelsChangedAfter(i)
               /\ Log([Event("plan_bound", Len(bindings)) EXCEPT !.plan = p])
  BY DEF BindPlan
<1>3. p \in Nat
  BY <1>2, SelectionAssumption
<1>4. \A i \in Plans : history[i].plan <= p
  <2> SUFFICES ASSUME NEW i \in Plans PROVE history[i].plan <= p
    OBVIOUS
  <2>1. i \in DOMAIN history /\ history[i].kind = "plan_bound"
    BY DEF Plans
  <2>2. PICK n \in DOMAIN history : IsLast(n, "plan_bound") /\ p = history[n].plan
    BY <1>2, <2>1 DEF LatestPlan
  <2>3. i <= n /\ i \in Nat /\ n \in Nat /\ n \in Plans
    BY <1>1, <2>1, <2>2 DEF IsLast, Plans
  <2>4. i < n \/ i = n
    BY <2>3
  <2> QED BY <1>3, <2>2, <2>3, <2>4 DEF SelectionInv, PlansInv
<1>5. ASSUME NEW q \in Nat, q >= p, Log([Event("plan_bound", Len(bindings)) EXCEPT !.plan = q]),
             \A i \in Plans : ModelsChangedAfter(i) => history[i].plan < q
      PROVE  SelectionInv'
  <2> DEFINE ev == [Event("plan_bound", Len(bindings)) EXCEPT !.plan = q]
  <2>1. /\ ev \in TaskEvent /\ ev.kind = "plan_bound" /\ ev.version = Len(bindings)
        /\ ev.plan = q
    BY <1>1 DEF Event, TaskEvent, EventKinds, Models
  <2> HIDE DEF ev
  <2>2. /\ history' \in Seq(TaskEvent) /\ Len(history') = Len(history) + 1
        /\ \A k \in DOMAIN history : history'[k] = history[k]
        /\ NewEvent = ev
    BY <1>1, <1>5, <2>1, EventLogged DEF ev
  <2>3. \A i \in Plans : history[i].plan \in Nat
    <3>1. \A i \in DOMAIN history : history[i] \in TaskEvent
      BY <1>1
    <3> QED BY <3>1 DEF Plans, TaskEvent
  <2>4. \A i \in Plans : history[i].plan <= q
    BY <1>3, <1>4, <1>5, <2>3
  <2>5. SelectionGrows
    BY <1>1, <1>5, <2>1, <2>2, <2>4 DEF SelectionGrows
  <2>6. SelectionType'
    BY <1>1, <2>2 DEF SelectionInv, SelectionType
  <2> QED BY <2>1, <2>2, <2>5, <2>6, SelectionStep
<1>6. CASE Log([Event("plan_bound", Len(bindings)) EXCEPT !.plan = p + 1])
  <2>1. \A i \in Plans : history[i].plan \in Nat
    <3>1. \A i \in DOMAIN history : history[i] \in TaskEvent
      BY <1>1
    <3> QED BY <3>1 DEF Plans, TaskEvent
  <2>2. \A i \in Plans : history[i].plan < p + 1
    BY <1>3, <1>4, <2>1
  <2>3. p + 1 \in Nat /\ p + 1 >= p
    BY <1>3
  <2> QED BY <1>5, <1>6, <2>2, <2>3
<1>7. CASE /\ \E i \in DOMAIN history : IsLast(i, "plan_bound") /\ ~ModelsChangedAfter(i)
           /\ Log([Event("plan_bound", Len(bindings)) EXCEPT !.plan = p])
  <2>1. PICK n \in DOMAIN history : IsLast(n, "plan_bound") /\ ~ModelsChangedAfter(n)
    BY <1>7
  <2>2. n \in Plans /\ n \in Nat
    BY <1>1, <2>1 DEF IsLast, Plans
  <2>3. PICK m \in DOMAIN history : IsLast(m, "plan_bound") /\ p = history[m].plan
    BY <1>2, <2>1 DEF LatestPlan, IsLast
  <2>4. m = n
    <3>1. m <= n /\ n <= m /\ m \in Nat
      BY <1>1, <2>1, <2>3 DEF IsLast
    <3> QED BY <2>2, <3>1
  <2>5. ASSUME NEW i \in Plans, ModelsChangedAfter(i)
        PROVE  history[i].plan < p
    <3>1. PICK k \in DOMAIN history : k > i /\ history[k].kind = "model_changed"
      BY <2>5 DEF ModelsChangedAfter
    <3>2. i \in Nat /\ k \in Nat /\ i \in DOMAIN history /\ history[i].kind = "plan_bound"
      BY <1>1 DEF Plans
    <3>3. ~(k > n) /\ k # n /\ i <= n
      BY <2>1, <3>1, <3>2 DEF ModelsChangedAfter, IsLast
    <3>4. i < n /\ k < n
      BY <2>2, <3>1, <3>2, <3>3
    <3> QED BY <2>2, <2>3, <2>4, <3>1, <3>4 DEF SelectionInv, PlansInv
  <2> QED BY <1>3, <1>5, <1>7, <2>5
<1> QED BY <1>2, <1>6, <1>7

(* The requests.                                                           *)
LEMMA OffersSelect ==
    Offers \subseteq Selection /\ Unset \in Selection /\ Environment \in Models
BY SelectionAssumption DEF Selection, Models, Unset

LEMMA AskStep ==
    ASSUME SelectionInv, NEW c \in Handlers,
           \/ \E sel \in Offers : AskSelection(c, sel)
           \/ \E target \in Models : AskPlan(c, target)
    PROVE  SelectionInv'
<1>1. /\ SelectionType /\ defaults \in Selection /\ bindings \in Seq(Selection)
      /\ UNCHANGED <<bindings, history, defaults>>
  BY DEF SelectionInv, SelectionType, AskSelection, AskPlan
<1>2. Len(bindings) \in Nat /\ (Bound => Binding \in Selection)
  <2>1. CASE Bound
    <3>1. bindings # <<>>
      BY <2>1 DEF Bound
    <3>2. Len(bindings) \in DOMAIN bindings /\ Len(bindings) \in Nat
      BY <1>1, <3>1, EmptySeq
    <3> QED BY <1>1, <2>1, <3>2 DEF Binding
  <2> QED BY <1>1, <2>1
<1>3. PICK a \in Handling : a.pc # "execute" /\ To(c, a)
  <2>1. ASSUME NEW sel \in Offers, AskSelection(c, sel)
        PROVE  \E a \in Handling : a.pc # "execute" /\ To(c, a)
    <3> DEFINE a == [NoHandler EXCEPT !.pc = "select", !.to = sel, !.seen = Len(bindings)]
    <3>1. a \in Handling /\ a.pc = "select"
      BY <1>2, OffersSelect DEF NoHandler, Handling
    <3> QED BY <2>1, <3>1 DEF AskSelection
  <2>2. ASSUME NEW target \in Models, AskPlan(c, target)
        PROVE  \E a \in Handling : a.pc # "execute" /\ To(c, a)
    <3> DEFINE a == [pc |-> "plan", seen |-> Len(bindings),
                     to |-> IF Bound THEN Binding ELSE defaults, plan |-> 0, target |-> target]
    <3>1. a \in Handling /\ a.pc = "plan"
      BY <1>1, <1>2 DEF Handling
    <3> QED BY <2>2, <3>1 DEF AskPlan
  <2> QED BY <2>1, <2>2
<1>4. /\ handling' \in [Handlers -> Handling]
      /\ \A d \in Handlers : handling'[d] = IF d = c THEN a ELSE handling[d]
  BY <1>1, <1>3, HandlingSet
<1> QED BY <1>1, <1>3, <1>4, SelectionStays

LEMMA AskExecutionStep ==
    ASSUME SelectionInv, NEW c \in Handlers, AskExecution(c)
    PROVE  SelectionInv'
<1>1. /\ SelectionType /\ defaults \in Selection /\ Len(bindings) \in Nat
      /\ history \in Seq(TaskEvent) /\ UNCHANGED <<bindings, history, defaults>>
  BY DEF SelectionInv, SelectionType, AskExecution
<1>2. PICK i \in DOMAIN history :
         /\ IsLast(i, "plan_bound")
         /\ To(c, [NoHandler EXCEPT !.pc = "execute", !.seen = Len(bindings),
                                    !.plan = history[i].plan])
  BY DEF AskExecution
<1> DEFINE a == [NoHandler EXCEPT !.pc = "execute", !.seen = Len(bindings),
                                  !.plan = history[i].plan]
<1>3. history[i] \in TaskEvent /\ i \in Plans
  BY <1>1, <1>2 DEF Plans, IsLast
<1>4. history[i].plan \in Nat
  BY <1>3 DEF TaskEvent
<1>5. a \in Handling /\ a.seen = Len(bindings) /\ a.plan = history[i].plan
  BY <1>1, <1>4, OffersSelect DEF NoHandler, Handling
<1> HIDE DEF a
<1>6. /\ handling' \in [Handlers -> Handling]
      /\ \A d \in Handlers : handling'[d] = IF d = c THEN a ELSE handling[d]
  BY <1>1, <1>2, <1>5, HandlingSet DEF a
<1>7. handling'[c].seen = Len(bindings') /\ handling'[c].plan = history'[i].plan
  BY <1>1, <1>5, <1>6
<1>8. i \in Plans' /\ history'[i].version <= Len(bindings')
  BY <1>1, <1>2, <1>3 DEF Plans, SelectionInv, VersionsInv
<1>9. \A v \in 2..Len(bindings') : ~(v > Len(bindings'))
  BY <1>1
<1>10. Len(bindings') <= Len(bindings')
  BY <1>1
<1>11. Shown(handling[c].seen, handling[c].plan)'
  BY <1>7, <1>8, <1>9, <1>10 DEF Shown
<1> QED BY <1>1, <1>6, <1>11, SelectionStays

LEMMA SelectStep ==
    ASSUME SelectionInv, NEW c \in Handlers, Select(c)
    PROVE  SelectionInv'
<1> DEFINE a == handling[c]
<1>1. /\ SelectionType /\ defaults' \in Selection /\ Len(bindings) \in Nat
      /\ bindings \in Seq(Selection) /\ UNCHANGED defaults /\ Leave(c)
  BY DEF SelectionInv, SelectionType, Select
<1>2. /\ handling' \in [Handlers -> Handling]
      /\ \A d \in Handlers : handling'[d].pc = "execute" => handling'[d] = handling[d]
  BY <1>1, HandlerLeaves
<1>3. CASE UNCHANGED <<bindings, history>>
  BY <1>1, <1>2, <1>3, SelectionStays
<1>4. CASE UNCHANGED bindings /\ Log(Event("model_selection_applied", Len(bindings)))
  BY <1>1, <1>2, <1>4, ReceiptLogged
<1>5. CASE bindings' = Append(bindings, a.to) /\ Log(Event("model_changed", Len(bindings) + 1))
  <2>1. a.to \in Selection
    BY <1>1 DEF SelectionType
  <2>2. /\ bindings' \in Seq(Selection) /\ Len(bindings') = Len(bindings) + 1
        /\ \A v \in DOMAIN bindings : bindings'[v] = bindings[v]
    BY <1>1, <1>5, <2>1, VersionAdded
  <2>3. Log(Event("model_changed", Len(bindings')))
    BY <1>5, <2>2
  <2> QED BY <1>1, <1>2, <2>2, <2>3, ChangeLogged
<1> QED BY <1>3, <1>4, <1>5 DEF Select

LEMMA CommitPlanStep ==
    ASSUME SelectionInv, NEW c \in Handlers, CommitPlan(c)
    PROVE  SelectionInv'
<1> DEFINE a == handling[c]
           binds == a.seen = 0 /\ a.to # Unset
           switches == a.target \notin {Environment, a.to.plan}
           base == IF binds THEN Append(bindings, a.to) ELSE bindings
           sel == [a.to EXCEPT !.plan = a.target]
           next == IF switches THEN Append(base, sel) ELSE base
<1>1. /\ SelectionType /\ defaults' \in Selection /\ Len(bindings) \in Nat
      /\ bindings \in Seq(Selection) /\ UNCHANGED defaults /\ Leave(c)
  <2>1. SelectionType /\ UNCHANGED defaults /\ Leave(c)
    BY DEF SelectionInv, CommitPlan
  <2>2. bindings \in Seq(Selection) /\ defaults \in Selection
    BY <2>1 DEF SelectionType
  <2> QED BY <2>1, <2>2
<1>2. /\ handling' \in [Handlers -> Handling]
      /\ \A d \in Handlers : handling'[d].pc = "execute" => handling'[d] = handling[d]
  BY <1>1, HandlerLeaves
<1>3. a.to \in Selection /\ a.target \in Models
  BY <1>1 DEF SelectionType
<1>4. sel \in Selection
  BY <1>3 DEF Selection
<1> HIDE DEF sel
<1>5. /\ base \in Seq(Selection) /\ \A v \in DOMAIN bindings : base[v] = bindings[v]
      /\ Len(base) = IF binds THEN Len(bindings) + 1 ELSE Len(bindings)
      /\ DOMAIN bindings \subseteq DOMAIN base
  <2>1. CASE binds
    <3>1. /\ base \in Seq(Selection) /\ \A v \in DOMAIN bindings : base[v] = bindings[v]
          /\ Len(base) = Len(bindings) + 1
      BY <1>1, <1>3, <2>1, VersionAdded
    <3>2. \A v : /\ v \in DOMAIN bindings <=> v \in Nat /\ v >= 1 /\ v <= Len(bindings)
                 /\ v \in DOMAIN base <=> v \in Nat /\ v >= 1 /\ v <= Len(base)
      BY <1>1, <3>1, SeqIndex
    <3> QED BY <1>1, <2>1, <3>1, <3>2
  <2>2. CASE ~binds
    BY <1>1, <2>2
  <2> QED BY <2>1, <2>2
<1>6. CASE UNCHANGED <<bindings, history>>
  BY <1>1, <1>2, <1>6, SelectionStays
<1>7. CASE /\ binds => ~Bound
           /\ bindings' = next
           /\ history' = IF switches THEN Append(history, Event("model_changed", Len(next)))
                         ELSE history
  <2>1. binds => Len(bindings) = 0 /\ bindings = <<>>
    BY <1>1, <1>7 DEF Bound
  <2>2. CASE switches
    <3> HIDE DEF base
    <3>1. /\ next \in Seq(Selection) /\ Len(next) = Len(base) + 1 /\ Len(base) \in Nat
          /\ \A v \in DOMAIN base : next[v] = base[v]
      BY <1>4, <1>5, <2>2, VersionAdded
    <3>2. \A v \in DOMAIN bindings : bindings'[v] = bindings[v]
      BY <1>5, <1>7, <3>1
    <3>3. \/ Len(bindings') = Len(bindings) + 1
          \/ Len(bindings) = 0 /\ Len(bindings') = 2
      BY <1>1, <1>5, <1>7, <2>1, <3>1
    <3>4. bindings' \in Seq(Selection) /\ Log(Event("model_changed", Len(bindings')))
      BY <1>7, <2>2, <3>1 DEF Log
    <3> QED BY <1>1, <1>2, <3>2, <3>3, <3>4, ChangeLogged
  <2>3. CASE ~switches /\ binds
    <3>2. bindings' = Append(<<>>, a.to)
      BY <1>7, <2>1, <2>3
    <3>3. Append(<<>>, a.to) = <<a.to>>
      BY <1>3
    <3>1. bindings' = <<a.to>> /\ UNCHANGED history /\ ~Bound
      BY <1>7, <2>3, <3>2, <3>3
    <3> QED BY <1>1, <1>2, <1>3, <3>1, FirstBound
  <2>4. CASE ~switches /\ ~binds
    <3>1. UNCHANGED <<bindings, history>>
      BY <1>7, <2>4
    <3> QED BY <1>1, <1>2, <3>1, SelectionStays
  <2> QED BY <2>2, <2>3, <2>4
<1> QED BY <1>6, <1>7 DEF CommitPlan, sel

(* What is authorized is what the plan was bound under and the page showed *)
(* but for the defaults, which come first and without an event.            *)
LEMMA AuthorizeStep ==
    ASSUME SelectionInv, NEW c \in Handlers, AuthorizeExecution(c)
    PROVE  SelectionInv'
<1> DEFINE a == handling[c]
           N == Len(bindings)
<1>1. /\ SelectionType /\ defaults' \in Selection /\ N \in Nat /\ history \in Seq(TaskEvent)
      /\ bindings \in Seq(Selection) /\ UNCHANGED defaults /\ Leave(c)
      /\ a.pc = "execute" /\ a.seen \in Nat /\ Len(history) \in Nat
  <2>1. UNCHANGED defaults /\ Leave(c) /\ a.pc = "execute"
    BY DEF AuthorizeExecution
  <2>2. a.seen \in Nat
    BY DEF SelectionInv, SelectionType
  <2> QED BY <2>1, <2>2 DEF SelectionInv, SelectionType
<1>2. /\ handling' \in [Handlers -> Handling]
      /\ \A d \in Handlers : handling'[d].pc = "execute" => handling'[d] = handling[d]
  BY <1>1, HandlerLeaves
<1>3. CASE UNCHANGED <<bindings, history>>
  BY <1>1, <1>2, <1>3, SelectionStays
<1>4. ASSUME NEW i \in DOMAIN history, Authorizes(a, i), bindings' = WithDefaults,
             Log([Event("execution_authorized", Len(WithDefaults)) EXCEPT !.basis = i,
                    !.code = (IF Bound THEN Binding ELSE defaults).code, !.seen = a.seen])
      PROVE  SelectionInv'
  <2> DEFINE code == (IF Bound THEN Binding ELSE defaults).code
             ev == [Event("execution_authorized", Len(WithDefaults)) EXCEPT !.basis = i,
                      !.code = code, !.seen = a.seen]
  <2>1. /\ bindings' \in Seq(Selection) /\ Len(bindings') \in Nat /\ code \in Models
        /\ \A v \in DOMAIN bindings : bindings'[v] = bindings[v]
        /\ Len(bindings') = N \/ (N = 0 /\ Len(bindings') = 1)
        /\ code = IF Len(bindings') = 0 THEN Environment ELSE bindings'[Len(bindings')].code
    <3>1. CASE Bound
      <4>1. bindings' = bindings /\ bindings # <<>>
        BY <1>4, <3>1 DEF WithDefaults, Bound
      <4>2. N \in DOMAIN bindings /\ N # 0
        BY <1>1, <4>1, EmptySeq
      <4>3. code = bindings[N].code /\ bindings[N] \in Selection
        BY <1>1, <3>1, <4>2 DEF Binding
      <4> QED BY <1>1, <4>1, <4>2, <4>3 DEF Selection
    <3>2. CASE ~Bound /\ defaults # Unset
      <4>1. bindings' = <<defaults>> /\ bindings = <<>>
        BY <1>4, <3>2 DEF WithDefaults, Bound
      <4>2. defaults \in Selection /\ code = defaults.code
        BY <1>1, <3>2
      <4> QED BY <4>1, <4>2 DEF Selection
    <3>3. CASE ~Bound /\ defaults = Unset
      <4>1. bindings' = <<>> /\ bindings = <<>> /\ code = Environment
        BY <1>4, <3>3 DEF WithDefaults, Bound, Unset
      <4> QED BY <4>1, OffersSelect
    <3> QED BY <3>1, <3>2, <3>3
  <2> HIDE DEF code
  <2>2. i \in Nat /\ i <= Len(history) /\ i >= 1
    BY <1>1, SeqIndex
  <2>3. /\ ev \in TaskEvent /\ ev.kind = "execution_authorized" /\ ev.version = Len(bindings')
        /\ ev.basis = i /\ ev.code = code /\ ev.seen = a.seen
    BY <1>1, <1>4, <2>1, <2>2, OffersSelect DEF Event, TaskEvent, EventKinds
  <2>15. Log(ev)
    BY <1>4 DEF code
  <2> HIDE DEF ev
  <2>4. /\ history' \in Seq(TaskEvent) /\ Len(history') = Len(history) + 1
        /\ \A k \in DOMAIN history : history'[k] = history[k]
        /\ NewEvent = ev
    BY <1>1, <2>3, <2>15, EventLogged
  <2>5. SelectionGrows
    <3>1. /\ N <= Len(bindings')
          /\ \A v \in 2..Len(bindings') : ~(v > N)
      BY <1>1, <2>1
    <3> QED BY <2>1, <2>3, <2>4, <3>1 DEF SelectionGrows
  <2>6. SelectionType'
    BY <1>1, <1>2, <2>1, <2>4 DEF SelectionType, Handling
  <2>7. /\ i \in Plans /\ history[i].plan = a.plan /\ ~ModelsChangedAfter(i)
        /\ \A k \in Plans : k <= i
    BY <1>4 DEF Authorizes, IsLast, Plans
  <2>8. \A k \in DOMAIN history : history[k].version \in Nat /\ k \in Nat
    <3>1. \A k \in DOMAIN history : history[k] \in TaskEvent
      BY <1>1
    <3> QED BY <1>1, <3>1, SeqIndex DEF TaskEvent
  <2>9. \A v \in 2..N : ~(v > history[i].version)
    BY <2>7 DEF SelectionInv, ChangesInv, ChangedTo, ModelsChangedAfter
  <2>10. history[i].version = N \/ (history[i].version = 0 /\ N = 1)
    <3>1. history[i].version \in Nat /\ history[i].version <= N
      BY <2>8 DEF SelectionInv, VersionsInv
    <3>2. CASE N >= 2
      <4>1. N \in 2..N
        BY <1>1, <3>2
      <4> QED BY <1>1, <2>9, <3>1, <4>1
    <3>3. CASE N = 0
      BY <3>1, <3>3
    <3>4. CASE N = 1
      BY <3>1, <3>4
    <3>5. \A n \in Nat : n >= 2 \/ n = 0 \/ n = 1
      OBVIOUS
    <3>6. N \in Nat
      BY <1>1
    <3> QED BY <3>2, <3>3, <3>4, <3>5, <3>6
  <2>11. \A p \in Plans : /\ history[p].version = 0
                          /\ \A m \in DOMAIN history : history[m].kind = "model_changed" => m < p
                          => \A m \in DOMAIN history : history[m].kind # "model_changed"
    BY <2>8 DEF Plans, SelectionInv, VersionsInv
  <2>12. \A m \in DOMAIN history : history[m].kind = "model_changed" => m < i
    BY <2>2, <2>7, <2>8 DEF Plans, ModelsChangedAfter
  <2>13. \/ a.seen = N
         \/ /\ a.seen = 0 /\ N = 1
            /\ \A m \in DOMAIN history : history[m].kind # "model_changed"
    <3>1. Shown(a.seen, a.plan)
      BY <1>1 DEF SelectionInv, ShownInv
    <3>2. PICK p \in Plans : /\ history[p].plan = a.plan /\ history[p].version <= a.seen
                             /\ \A v \in 2..N : v > a.seen => ChangedTo(v, p)
      BY <3>1 DEF Shown
    <3>3. p <= i /\ p \in DOMAIN history /\ p \in Nat
      BY <2>7, <2>8, <3>2 DEF Plans
    <3>4. history[p].plan = history[i].plan
      BY <2>7, <3>2
    <3>10. history[p].plan \in Nat
      <4>1. history[p] \in TaskEvent
        BY <1>1, <3>3
      <4> QED BY <4>1 DEF TaskEvent
    <3>5. ASSUME NEW m \in DOMAIN history, history[m].kind = "model_changed"
          PROVE  m < p
      <4>1. m < i /\ m # p /\ m \in Nat
        BY <2>8, <2>12, <3>5 DEF Plans
      <4>2. ~(p < m)
        BY <2>2, <2>7, <3>3, <3>4, <3>10, <3>5, <4>1 DEF SelectionInv, PlansInv
      <4> QED BY <3>3, <4>1, <4>2
    <3>6. \A v \in 2..N : ~(v > a.seen)
      BY <2>8, <3>2, <3>3, <3>5 DEF ChangedTo
    <3>7. a.seen <= N
      BY <3>1 DEF Shown
    <3>8. a.seen = N \/ (a.seen = 0 /\ N = 1)
      <4>1. CASE N >= 2
        <5>1. N \in 2..N
          BY <1>1, <4>1
        <5> QED BY <1>1, <3>6, <3>7, <5>1
      <4>2. CASE N = 0
        BY <1>1, <3>7, <4>2
      <4>3. CASE N = 1
        BY <1>1, <3>7, <4>3
      <4>4. \A n \in Nat : n >= 2 \/ n = 0 \/ n = 1
        OBVIOUS
      <4>5. N \in Nat
        BY <1>1
      <4> QED BY <4>1, <4>2, <4>3, <4>4, <4>5
    <3>9. a.seen = 0 => history[p].version = 0
      BY <2>8, <3>2, <3>3
    <3> QED BY <2>11, <3>5, <3>8, <3>9
  <2>14. Confirmed(Len(history))'
    <3> DEFINE n == Len(history')
               W == Len(bindings')
    <3>1. history'[n] = ev /\ n \in Nat /\ i \in 1..(n - 1) /\ history'[i] = history[i]
      BY <1>1, <2>2, <2>4 DEF NewEvent
    <3>2. \A m \in 1..n : m \in DOMAIN history \/ m = n
      BY <1>1, <2>4, SeqIndex
    <3>3. ASSUME \A m \in DOMAIN history : history[m].kind # "model_changed"
          PROVE  \A m \in 1..n : history'[m].kind # "model_changed"
      BY <2>3, <2>4, <3>1, <3>2, <3>3
    <3>4. history[i].version = W \/ (history[i].version = 0 /\ W = 1)
      BY <1>1, <2>1, <2>10
    <3>5. history[i].version = 0 => \A m \in DOMAIN history : history[m].kind # "model_changed"
      BY <2>7, <2>11, <2>12
    <3>6. \/ history'[i].version = W
          \/ history'[i].version = 0 /\ W = 1 /\ \A m \in 1..n : history'[m].kind # "model_changed"
      BY <3>1, <3>3, <3>4, <3>5
    <3>7. N = 0 => \A m \in DOMAIN history : history[m].kind # "model_changed"
      BY <2>8, <2>10, <3>5
    <3>8. \/ a.seen = W
          \/ a.seen = 0 /\ W = 1 /\ \A m \in 1..n : history'[m].kind # "model_changed"
      BY <2>1, <2>13, <3>3, <3>7
    <3> HIDE DEF n
    <3> QED BY <2>1, <2>3, <3>1, <3>6, <3>8 DEF Confirmed, n
  <2> QED BY <1>2, <2>4, <2>5, <2>6, <2>14, SelectionStep
<1> QED BY <1>3, <1>4 DEF AuthorizeExecution

LEMMA SelectionStarts == SelectionInit => SelectionInv
<1> SUFFICES ASSUME SelectionInit PROVE SelectionInv
  OBVIOUS
<1> DEFINE e1 == [Event("plan_bound", 0) EXCEPT !.plan = 1]
           e2 == [Event("execution_authorized", 0) EXCEPT !.basis = 1]
<1>1. /\ defaults \in Selection /\ bindings = <<>> /\ bindings \in Seq(Selection)
      /\ Len(bindings) = 0 /\ handling = [c \in Handlers |-> NoHandler]
  BY OffersSelect DEF SelectionInit
<1>2. NoHandler \in Handling /\ NoHandler.pc = "free"
  BY OffersSelect DEF NoHandler, Handling
<1>3. handling \in [Handlers -> Handling] /\ ShownInv
  BY <1>1, <1>2 DEF ShownInv
<1>4. ChangesInv
  BY <1>1 DEF ChangesInv
<1>5. CASE history = <<>>
  <2>1. VersionsInv /\ PlansInv /\ ConfirmedInv /\ history \in Seq(TaskEvent)
    BY <1>5 DEF VersionsInv, PlansInv, Plans, ConfirmedInv
  <2> QED BY <1>1, <1>3, <1>4, <2>1 DEF SelectionInv, SelectionType, Handling
<1>6. CASE history = <<e1, e2>>
  <2>1. /\ e1 \in TaskEvent /\ e1.kind = "plan_bound" /\ e1.version = 0 /\ e1.plan = 1
        /\ e2 \in TaskEvent /\ e2.kind = "execution_authorized" /\ e2.version = 0
        /\ e2.basis = 1 /\ e2.code = Environment /\ e2.seen = 0
    BY OffersSelect DEF Event, TaskEvent, EventKinds
  <2> HIDE DEF e1, e2
  <2>2. history \in Seq(TaskEvent)
    BY <1>6, <2>1
  <2>3. /\ \A k \in DOMAIN history : k = 1 \/ k = 2
        /\ history[1] = e1 /\ history[2] = e2
    BY <1>6
  <2>4. \A k \in DOMAIN history : history[k].version = 0 /\ history[k].kind # "model_changed"
    BY <2>1, <2>3
  <2>5. VersionsInv
    BY <1>1, <2>4 DEF VersionsInv
  <2>6. PlansInv
    BY <2>1, <2>3 DEF PlansInv, Plans
  <2>7. ConfirmedInv
    <3>1. Confirmed(2)
      <4>1. 1 \in 1..(2 - 1)
        OBVIOUS
      <4> QED BY <2>1, <2>3, <4>1 DEF Confirmed
    <3> QED BY <2>1, <2>3, <3>1 DEF ConfirmedInv
  <2> QED BY <1>1, <1>3, <1>4, <2>2, <2>5, <2>6, <2>7 DEF SelectionInv, SelectionType, Handling
<1> QED BY <1>5, <1>6 DEF SelectionInit

(* The steps that leave the selection or the events alone.                 *)
LEMMA PlainStep ==
    ASSUME SelectionInv,
           \/ UNCHANGED selectionVars \/ EnqueueCode \/ SavePlan \/ ReadTick \/ Stop
           \/ BindForMessage
           \/ \E sel \in Offers : SaveSettings(sel)
           \/ \E j \in DOMAIN taskJobs : EndPlanning(j) \/ EndStart(j) \/ RetryStart(j) \/ EndCode(j)
    PROVE  SelectionInv'
<1>1. /\ handling \in [Handlers -> Handling] /\ defaults \in Selection
  BY DEF SelectionInv, SelectionType, Handling
<1>2. UNCHANGED handling
  BY DEF selectionVars, EnqueueCode, SavePlan, ReadTick, Stop, BindForMessage, SaveSettings,
         EndPlanning, EndStart, RetryStart, EndCode
<1>3. CASE UNCHANGED <<bindings, history>> /\ defaults' \in Selection
  BY <1>1, <1>2, <1>3, SelectionStays
<1>4. CASE UNCHANGED <<bindings, defaults>> /\ BindPlan
  BY <1>2, <1>4, PlanBound
<1>5. CASE /\ UNCHANGED <<bindings, defaults>>
           /\ \E kind \in {"automation_blocked", "stop_requested"} : Log(Event(kind, Len(bindings)))
  BY <1>1, <1>2, <1>5, ReceiptLogged
<1>6. CASE BindForMessage
  <2>1. ~Bound /\ bindings' = <<defaults>> /\ UNCHANGED <<history, defaults>>
    BY <1>6 DEF BindForMessage, WithDefaults
  <2> QED BY <1>1, <1>2, <2>1, FirstBound
<1>7. ASSUME NEW sel \in Offers, SaveSettings(sel)
      PROVE  UNCHANGED <<bindings, history>> /\ defaults' \in Selection
  BY <1>7, OffersSelect DEF SaveSettings
<1>8. UNCHANGED selectionVars \/ EnqueueCode => UNCHANGED <<bindings, history, defaults>>
  BY DEF selectionVars, EnqueueCode
<1>9. SavePlan => UNCHANGED <<bindings, defaults>> /\ BindPlan
  BY DEF SavePlan
<1>10. ReadTick \/ Stop =>
         /\ UNCHANGED <<bindings, defaults>>
         /\ \/ UNCHANGED history
            \/ \E kind \in {"automation_blocked", "stop_requested"} : Log(Event(kind, Len(bindings)))
  BY DEF ReadTick, Stop
<1>11. ASSUME NEW j \in DOMAIN taskJobs, EndPlanning(j) \/ EndStart(j) \/ RetryStart(j) \/ EndCode(j)
       PROVE  UNCHANGED <<bindings, defaults>> /\ (UNCHANGED history \/ BindPlan)
  BY <1>11 DEF EndPlanning, EndStart, RetryStart, EndCode
<1> QED BY <1>1, <1>3, <1>4, <1>5, <1>6, <1>7, <1>8, <1>9, <1>10, <1>11

(* Whatever order requests, planners, stops and changes of the settings    *)
(* come in, an authorization freezes the models its plan was bound under   *)
(* and its page showed (app/model_settings.py authorize_execution).        *)
THEOREM AuthorizationsAreConfirmed == SelectionSpec => []AuthorizedAsConfirmed
<1>1. SelectionInv /\ [SelectionNext]_selectionVars => SelectionInv'
  <2> SUFFICES ASSUME SelectionInv, [SelectionNext]_selectionVars
               PROVE  SelectionInv'
    OBVIOUS
  <2>1. ASSUME NEW c \in Handlers,
               \/ Select(c) \/ CommitPlan(c) \/ AskExecution(c) \/ AuthorizeExecution(c)
               \/ \E sel \in Offers : AskSelection(c, sel)
               \/ \E target \in Models : AskPlan(c, target)
        PROVE  SelectionInv'
    BY <2>1, SelectStep, CommitPlanStep, AskExecutionStep, AuthorizeStep, AskStep
  <2> QED BY <2>1, PlainStep DEF SelectionNext
<1>2. SelectionInv => AuthorizedAsConfirmed
  BY DEF SelectionInv, ConfirmedInv, Confirmed, AuthorizedAsConfirmed
<1> QED BY <1>1, <1>2, SelectionStarts, PTL DEF SelectionSpec

(* Each change of the models that can be made while the task is at work,   *)
(* a request's or the first version's, lets the coordinator enqueue at     *)
(* most one job after it compared.                                         *)
TaskJob == [kind : {"plan", "start", "code"}, model : Models, active : BOOLEAN, shift : Nat]
WorkType ==
    /\ taskJobs \in Seq(TaskJob) /\ shifts \in Nat /\ late \subseteq Handlers
    /\ mode \in {"planning", "executing"} /\ advancing \in {"idle", "enqueue"}

ShiftsInv == /\ \A j \in DOMAIN taskJobs : taskJobs[j].shift <= shifts
             /\ Planning => advancing = "idle"
Starting == \E j \in DOMAIN taskJobs : taskJobs[j].kind = "start" /\ taskJobs[j].active
LateInv == mode = "executing" \/ Starting => Selecting \subseteq late

Overtaken(k) == IF advancing = "enqueue" /\ Binding.code # history[k].code THEN 1 ELSE 0
Unbound == IF Bound THEN 0 ELSE 1
StraysInv ==
    mode = "executing" =>
        \A k \in DOMAIN history : IsLast(k, "execution_authorized") =>
            Cardinality(Strays(k)) + Cardinality(late \cap Selecting) + Overtaken(k) + Unbound
                <= Cardinality(late) + (IF history[k].version = 0 THEN 1 ELSE 0)
WorkInv == WorkType /\ ShiftsInv /\ LateInv /\ StraysInv

LEMMA WorkIsFinite ==
    ASSUME WorkType, NEW k
    PROVE  /\ IsFiniteSet(Strays(k)) /\ Cardinality(Strays(k)) \in Nat
           /\ IsFiniteSet(late \cap Selecting) /\ Cardinality(late \cap Selecting) \in Nat
           /\ Cardinality(late) \in Nat
<1>1. DOMAIN taskJobs = 1..Len(taskJobs) /\ Len(taskJobs) \in Nat
  BY DEF WorkType
<1>2. IsFiniteSet(1..Len(taskJobs))
  BY <1>1, FS_Interval
<1>3. Strays(k) \in SUBSET (1..Len(taskJobs))
  BY <1>1 DEF Strays
<1>4. late \in SUBSET Handlers /\ late \cap Selecting \in SUBSET Handlers
  BY DEF WorkType
<1>5. IsFiniteSet(Strays(k)) /\ IsFiniteSet(late \cap Selecting) /\ IsFiniteSet(late)
  BY <1>2, <1>3, <1>4, SelectionAssumption, FS_Subset
<1> QED BY <1>5, FS_CardinalityType

LEMMA WorkIsFiniteNext ==
    ASSUME WorkType', NEW k
    PROVE  /\ IsFiniteSet(Strays(k)') /\ Cardinality(Strays(k)') \in Nat
           /\ IsFiniteSet((late \cap Selecting)') /\ Cardinality((late \cap Selecting)') \in Nat
<1>1. DOMAIN taskJobs' = 1..Len(taskJobs') /\ Len(taskJobs') \in Nat
  BY DEF WorkType
<1>2. IsFiniteSet(1..Len(taskJobs'))
  BY <1>1, FS_Interval
<1>3. Strays(k)' \in SUBSET (1..Len(taskJobs'))
  BY <1>1 DEF Strays
<1>4. (late \cap Selecting)' \in SUBSET Handlers
  BY DEF WorkType
<1>5. IsFiniteSet(Strays(k)') /\ IsFiniteSet((late \cap Selecting)')
  BY <1>2, <1>3, <1>4, SelectionAssumption, FS_Subset
<1> QED BY <1>5, FS_CardinalityType

(* What a step does to the jobs unless it enqueues one that changes code   *)
(* or starts: they end, and plans are added.                               *)
JobsGo ==
    /\ taskJobs' \in Seq(TaskJob) /\ DOMAIN taskJobs \subseteq DOMAIN taskJobs'
    /\ \A j \in DOMAIN taskJobs :
         /\ taskJobs'[j].kind = taskJobs[j].kind /\ taskJobs'[j].model = taskJobs[j].model
         /\ taskJobs'[j].shift = taskJobs[j].shift
         /\ taskJobs'[j].active => taskJobs[j].active
    /\ \A j \in DOMAIN taskJobs' : j \notin DOMAIN taskJobs =>
         taskJobs'[j].kind = "plan" /\ taskJobs'[j].shift = shifts

LEMMA JobsRest ==
    ASSUME WorkType, UNCHANGED taskJobs
    PROVE  JobsGo
BY DEF WorkType, JobsGo

LEMMA JobSwitched ==
    ASSUME WorkType, NEW j \in DOMAIN taskJobs, NEW b \in BOOLEAN,
           taskJobs' = [taskJobs EXCEPT ![j].active = b]
    PROVE  /\ taskJobs' \in Seq(TaskJob) /\ DOMAIN taskJobs' = DOMAIN taskJobs
           /\ \A i \in DOMAIN taskJobs :
                /\ taskJobs'[i].kind = taskJobs[i].kind /\ taskJobs'[i].model = taskJobs[i].model
                /\ taskJobs'[i].shift = taskJobs[i].shift
                /\ taskJobs'[i].active = IF i = j THEN b ELSE taskJobs[i].active
<1> DEFINE job == [taskJobs[j] EXCEPT !.active = b]
<1>1. taskJobs \in Seq(TaskJob) /\ \A i \in DOMAIN taskJobs : taskJobs[i] \in TaskJob
  BY DEF WorkType
<1>2. taskJobs' = [taskJobs EXCEPT ![j] = job]
  BY <1>1
<1>3. /\ job \in TaskJob /\ job.kind = taskJobs[j].kind /\ job.model = taskJobs[j].model
      /\ job.shift = taskJobs[j].shift /\ job.active = b
  BY <1>1 DEF TaskJob
<1> HIDE DEF job
<1>4. taskJobs' \in Seq(TaskJob) /\ DOMAIN taskJobs' = DOMAIN taskJobs
  BY <1>1, <1>2, <1>3, ExceptSeq
<1>5. \A i \in DOMAIN taskJobs : taskJobs'[i] = IF i = j THEN job ELSE taskJobs[i]
  BY <1>1, <1>2
<1> QED BY <1>3, <1>4, <1>5

LEMMA JobEnded ==
    ASSUME WorkType, NEW j \in DOMAIN taskJobs, JobOver(j)
    PROVE  JobsGo
<1>1. taskJobs' = [taskJobs EXCEPT ![j].active = FALSE]
  BY DEF JobOver
<1>2. /\ taskJobs' \in Seq(TaskJob) /\ DOMAIN taskJobs' = DOMAIN taskJobs
      /\ \A i \in DOMAIN taskJobs :
                /\ taskJobs'[i].kind = taskJobs[i].kind /\ taskJobs'[i].model = taskJobs[i].model
                /\ taskJobs'[i].shift = taskJobs[i].shift
                /\ taskJobs'[i].active = IF i = j THEN FALSE ELSE taskJobs[i].active
  BY <1>1, JobSwitched
<1> QED BY <1>2 DEF JobsGo

LEMMA JobAdded ==
    ASSUME WorkType, NEW kind \in {"plan", "start", "code"}, NEW model \in Models,
           taskJobs' = Append(taskJobs, Job(kind, model))
    PROVE  /\ taskJobs' \in Seq(TaskJob)
           /\ DOMAIN taskJobs' = DOMAIN taskJobs \cup {Len(taskJobs) + 1}
           /\ Len(taskJobs) + 1 \notin DOMAIN taskJobs
           /\ \A j \in DOMAIN taskJobs : taskJobs'[j] = taskJobs[j]
           /\ taskJobs'[Len(taskJobs) + 1].kind = kind
           /\ taskJobs'[Len(taskJobs) + 1].model = model
           /\ taskJobs'[Len(taskJobs) + 1].shift = shifts
<1> DEFINE job == Job(kind, model)
<1>1. job \in TaskJob /\ job.kind = kind /\ job.model = model /\ job.shift = shifts
  BY DEF Job, TaskJob, WorkType
<1> HIDE DEF job
<1>2. taskJobs \in Seq(TaskJob) /\ taskJobs' = Append(taskJobs, job) /\ Len(taskJobs) \in Nat
  BY DEF WorkType, job
<1>3. /\ taskJobs' \in Seq(TaskJob) /\ DOMAIN taskJobs' = DOMAIN taskJobs \cup {Len(taskJobs) + 1}
      /\ Len(taskJobs) + 1 \notin DOMAIN taskJobs
      /\ \A j \in DOMAIN taskJobs : taskJobs'[j] = taskJobs[j]
      /\ taskJobs'[Len(taskJobs) + 1] = job
  <2>1. DOMAIN taskJobs = 1..Len(taskJobs)
    BY <1>2
  <2> QED BY <1>1, <1>2, <2>1, AppendProperties
<1> QED BY <1>1, <1>3

(* The authorization in force stays the one it was.                        *)
SameAuthorization ==
    \A k \in DOMAIN history' :
        IsLast(k, "execution_authorized")' =>
            /\ k \in DOMAIN history /\ IsLast(k, "execution_authorized")
            /\ history'[k] = history[k]

LEMMA AuthorizationRests ==
    ASSUME UNCHANGED history
    PROVE  SameAuthorization
BY DEF SameAuthorization, IsLast

LEMMA AuthorizationStays ==
    ASSUME SelectionType, NEW ev, Log(ev), ev.kind # "execution_authorized"
    PROVE  SameAuthorization
<1>1. history \in Seq(TaskEvent) /\ Len(history) \in Nat
  BY DEF SelectionType
<1>2. /\ DOMAIN history' = DOMAIN history \cup {Len(history) + 1}
      /\ \A k \in DOMAIN history : history'[k] = history[k]
      /\ history'[Len(history) + 1] = ev
  <2>1. DOMAIN history = 1..Len(history)
    BY <1>1
  <2>2. history \in Seq(TaskEvent \cup {ev}) /\ ev \in TaskEvent \cup {ev}
    BY <1>1
  <2> HIDE DEF TaskEvent
  <2> QED BY <1>1, <2>1, <2>2, AppendProperties DEF Log
<1> QED BY <1>2 DEF SameAuthorization, IsLast

(* The credit does not grow by less than is spent.                         *)
LEMMA CreditStays ==
    ASSUME WorkType, WorkType', StraysInv, mode = "executing", UNCHANGED late, SameAuthorization,
           \A k \in DOMAIN history : IsLast(k, "execution_authorized") /\ history'[k] = history[k] =>
             Cardinality(Strays(k)') + Cardinality((late \cap Selecting)') + Overtaken(k)' + Unbound'
               <= Cardinality(Strays(k)) + Cardinality(late \cap Selecting) + Overtaken(k) + Unbound,
           \A k \in DOMAIN history : history[k].version \in Nat
    PROVE  StraysInv'
<1>1. ASSUME NEW k \in DOMAIN history', IsLast(k, "execution_authorized")'
      PROVE  Cardinality(Strays(k)') + Cardinality((late \cap Selecting)') + Overtaken(k)' + Unbound'
               <= Cardinality(late') + (IF history'[k].version = 0 THEN 1 ELSE 0)
  <2>1. k \in DOMAIN history /\ IsLast(k, "execution_authorized") /\ history'[k] = history[k]
    BY <1>1 DEF SameAuthorization
  <2>2. Cardinality(Strays(k)) + Cardinality(late \cap Selecting) + Overtaken(k) + Unbound
          <= Cardinality(late) + (IF history[k].version = 0 THEN 1 ELSE 0)
    BY <2>1 DEF StraysInv
  <2>3. /\ Cardinality(Strays(k)) \in Nat /\ Cardinality(late \cap Selecting) \in Nat
        /\ Cardinality(late) \in Nat /\ Overtaken(k) \in Nat /\ Unbound \in Nat
    BY WorkIsFinite DEF Overtaken, Unbound
  <2>4. /\ Cardinality(Strays(k)') \in Nat /\ Cardinality((late \cap Selecting)') \in Nat
        /\ Overtaken(k)' \in Nat /\ Unbound' \in Nat
    <3>1. Cardinality(Strays(k)') \in Nat /\ Cardinality((late \cap Selecting)') \in Nat
      BY WorkIsFiniteNext
    <3> QED BY <3>1 DEF Overtaken, Unbound
  <2>5. (IF history[k].version = 0 THEN 1 ELSE 0) \in Nat
    OBVIOUS
  <2>6. Cardinality(Strays(k)') + Cardinality((late \cap Selecting)') + Overtaken(k)' + Unbound'
          <= Cardinality(Strays(k)) + Cardinality(late \cap Selecting) + Overtaken(k) + Unbound
    BY <2>1
  <2> QED BY <2>1, <2>2, <2>3, <2>4, <2>5, <2>6
<1> QED BY <1>1 DEF StraysInv

(* Neither jobs that change code nor the models change.                    *)
LEMMA KeptStep ==
    ASSUME SelectionInv, WorkInv, JobsGo, UNCHANGED <<mode, shifts, late, bindings>>,
           SameAuthorization, Selecting' \subseteq Selecting,
           advancing' = advancing \/ advancing' = "idle"
    PROVE  WorkInv'
<1>1. WorkType /\ WorkType'
  BY DEF WorkInv, WorkType, JobsGo
<1>2. ShiftsInv'
  <2>1. ASSUME NEW j \in DOMAIN taskJobs' PROVE taskJobs'[j].shift <= shifts'
    <3>1. CASE j \in DOMAIN taskJobs
      BY <3>1 DEF WorkInv, ShiftsInv, JobsGo
    <3>2. CASE j \notin DOMAIN taskJobs
      BY <1>1, <2>1, <3>2 DEF JobsGo, WorkType
    <3> QED BY <3>1, <3>2
  <2> QED BY <2>1 DEF WorkInv, ShiftsInv, Planning
<1>3. LateInv'
  <2>1. Starting' => Starting
    <3> SUFFICES ASSUME NEW j \in DOMAIN taskJobs', taskJobs'[j].kind = "start", taskJobs'[j].active
                 PROVE  Starting
      BY DEF Starting
    <3>1. j \in DOMAIN taskJobs
      BY DEF JobsGo
    <3> QED BY <3>1 DEF JobsGo, Starting
  <2> QED BY <2>1 DEF WorkInv, LateInv
<1>4. CASE mode = "executing"
  <2>1. ASSUME NEW k \in DOMAIN history, history'[k] = history[k]
        PROVE  /\ Cardinality(Strays(k)') <= Cardinality(Strays(k))
               /\ Cardinality((late \cap Selecting)') <= Cardinality(late \cap Selecting)
               /\ Overtaken(k)' <= Overtaken(k) /\ Unbound' = Unbound
    <3>1. Strays(k)' \subseteq Strays(k)
      <4> SUFFICES ASSUME NEW j \in Strays(k)' PROVE j \in Strays(k)
        OBVIOUS
      <4>1. /\ j \in DOMAIN taskJobs' /\ taskJobs'[j].kind = "code" /\ taskJobs'[j].shift = shifts'
            /\ taskJobs'[j].model # history'[k].code
        BY DEF Strays
      <4>2. j \in DOMAIN taskJobs
        BY <4>1 DEF JobsGo
      <4> QED BY <2>1, <4>1, <4>2 DEF JobsGo, Strays
    <3>2. (late \cap Selecting)' \subseteq late \cap Selecting
      OBVIOUS
    <3>3. /\ Cardinality(Strays(k)') <= Cardinality(Strays(k))
          /\ Cardinality((late \cap Selecting)') <= Cardinality(late \cap Selecting)
      BY <1>1, <3>1, <3>2, WorkIsFinite, FS_Subset
    <3>4. Unbound' = Unbound /\ Overtaken(k)' <= Overtaken(k)
      BY <2>1 DEF Unbound, Bound, Overtaken, Binding
    <3> QED BY <3>3, <3>4
  <2>2. \A k \in DOMAIN history : history[k].version \in Nat
    <3>1. \A k \in DOMAIN history : history[k] \in TaskEvent
      BY DEF SelectionInv, SelectionType
    <3> QED BY <3>1 DEF TaskEvent
  <2>3. ASSUME NEW k \in DOMAIN history, history'[k] = history[k]
        PROVE  Cardinality(Strays(k)') + Cardinality((late \cap Selecting)') + Overtaken(k)' + Unbound'
                 <= Cardinality(Strays(k)) + Cardinality(late \cap Selecting) + Overtaken(k) + Unbound
    <3>1. /\ Cardinality(Strays(k)) \in Nat /\ Cardinality(late \cap Selecting) \in Nat
          /\ Cardinality(Strays(k)') \in Nat /\ Cardinality((late \cap Selecting)') \in Nat
      BY <1>1, WorkIsFinite, WorkIsFiniteNext
    <3>2. Overtaken(k) \in Nat /\ Overtaken(k)' \in Nat /\ Unbound \in Nat
      BY DEF Overtaken, Unbound
    <3>3. Unbound' \in Nat
      BY DEF Unbound
    <3>4. \A a, b, c, d, e, f, g \in Nat : a <= d /\ b <= e /\ c <= f => a + b + c + g <= d + e + f + g
      OBVIOUS
    <3> QED BY <2>1, <2>3, <3>1, <3>2, <3>3, <3>4
  <2>4. StraysInv'
    BY <1>1, <1>4, <2>2, <2>3, CreditStays DEF WorkInv
  <2> QED BY <1>1, <1>2, <1>3, <2>4 DEF WorkInv
<1>5. CASE mode # "executing"
  <2>1. StraysInv'
    BY <1>5 DEF StraysInv
  <2> QED BY <1>1, <1>2, <1>3, <2>1 DEF WorkInv
<1> QED BY <1>4, <1>5

(* A task that is being planned.                                           *)
LEMMA PlanningStep ==
    ASSUME WorkType', mode' = "planning", advancing' = "idle",
           \A j \in DOMAIN taskJobs' : taskJobs'[j].shift <= shifts',
           Starting' => Selecting' \subseteq late'
    PROVE  WorkInv'
BY DEF WorkInv, ShiftsInv, LateInv, StraysInv

(* The models change while the task is at work: the credit pays for it.    *)
LEMMA ChangeStep ==
    ASSUME SelectionInv, WorkInv, mode = "executing",
           UNCHANGED <<mode, shifts, late, taskJobs, advancing>>, SameAuthorization,
           Bound', Selecting' \subseteq Selecting,
           ~Bound \/ \E c \in late \cap Selecting : c \notin Selecting'
    PROVE  WorkInv'
<1>1. WorkType /\ WorkType'
  BY DEF WorkInv, WorkType
<1>2. ShiftsInv' /\ LateInv'
  BY DEF WorkInv, ShiftsInv, LateInv, Planning, Starting
<1>3. Unbound' = 0 /\ Unbound \in {0, 1} /\ (~Bound => Unbound = 1)
  BY DEF Unbound
<1>4. /\ IsFiniteSet(late \cap Selecting) /\ Cardinality(late \cap Selecting) \in Nat
      /\ Cardinality((late \cap Selecting)') \in Nat
  BY <1>1, WorkIsFinite, WorkIsFiniteNext
<1>5. /\ Cardinality((late \cap Selecting)') <= Cardinality(late \cap Selecting)
      /\ Bound => Cardinality((late \cap Selecting)') + 1 <= Cardinality(late \cap Selecting)
  <2>1. (late \cap Selecting)' \subseteq late \cap Selecting
    OBVIOUS
  <2>2. Cardinality((late \cap Selecting)') <= Cardinality(late \cap Selecting)
    BY <1>4, <2>1, FS_Subset
  <2>3. ASSUME NEW c \in late \cap Selecting, c \notin Selecting'
        PROVE  Cardinality((late \cap Selecting)') + 1 <= Cardinality(late \cap Selecting)
    <3>1. (late \cap Selecting)' \subseteq (late \cap Selecting) \ {c}
      BY <2>1, <2>3
    <3>2. /\ IsFiniteSet((late \cap Selecting) \ {c})
          /\ Cardinality((late \cap Selecting) \ {c}) = Cardinality(late \cap Selecting) - 1
      BY <1>4, FS_RemoveElement
    <3>3. Cardinality((late \cap Selecting)') <= Cardinality((late \cap Selecting) \ {c})
      BY <3>1, <3>2, FS_Subset
    <3> QED BY <1>4, <3>2, <3>3
  <2> QED BY <2>2, <2>3
<1>6. \A k \in DOMAIN history : history[k].version \in Nat
  <2>1. \A k \in DOMAIN history : history[k] \in TaskEvent
    BY DEF SelectionInv, SelectionType
  <2> QED BY <2>1 DEF TaskEvent
<1>7. ASSUME NEW k \in DOMAIN history, history'[k] = history[k]
      PROVE  Cardinality(Strays(k)') + Cardinality((late \cap Selecting)') + Overtaken(k)' + Unbound'
               <= Cardinality(Strays(k)) + Cardinality(late \cap Selecting) + Overtaken(k) + Unbound
  <2>1. Strays(k)' = Strays(k)
    BY <1>7 DEF Strays
  <2>2. Cardinality(Strays(k)) \in Nat
    BY <1>1, WorkIsFinite
  <2>3. Overtaken(k) \in {0, 1} /\ Overtaken(k)' \in {0, 1}
    BY DEF Overtaken
  <2>4. CASE Bound
    BY <1>3, <1>4, <1>5, <2>1, <2>2, <2>3, <2>4
  <2>5. CASE ~Bound
    BY <1>3, <1>4, <1>5, <2>1, <2>2, <2>3, <2>5
  <2> QED BY <2>4, <2>5
<1>8. StraysInv'
  BY <1>1, <1>6, <1>7, CreditStays DEF WorkInv
<1> QED BY <1>1, <1>2, <1>8 DEF WorkInv

(* The steps.                                                              *)
LEMMA HandlerIs ==
    ASSUME SelectionType, NEW c \in Handlers, NEW a \in Handling, To(c, a)
    PROVE  /\ Selecting' \subseteq Selecting \cup {c}
           /\ a.pc # "select" => Selecting' = Selecting \ {c}
BY HandlingSet DEF Selecting

LEMMA HandlerGone ==
    ASSUME SelectionType, NEW c \in Handlers, Leave(c)
    PROVE  Selecting' = Selecting \ {c}
<1>1. NoHandler \in Handling /\ NoHandler.pc = "free"
  BY OffersSelect DEF NoHandler, Handling
<1> QED BY <1>1, HandlerIs DEF Leave

(* A request that looks at the task while it is planned and at rest.       *)
LEMMA AskWork ==
    ASSUME SelectionInv, WorkInv, NEW c \in Handlers,
           \/ \E sel \in Offers : AskSelection(c, sel)
           \/ \E target \in Models : AskPlan(c, target)
    PROVE  WorkInv'
<1>1. /\ Planning /\ AtRest /\ UNCHANGED <<mode, shifts, late, taskJobs, advancing>>
  BY DEF AskSelection, AskPlan
<1>2. WorkType' /\ advancing' = "idle" /\ mode' = "planning"
  BY <1>1 DEF WorkInv, WorkType, ShiftsInv, Planning
<1>3. ~Starting'
  BY <1>1 DEF Starting, AtRest
<1>4. \A j \in DOMAIN taskJobs' : taskJobs'[j].shift <= shifts'
  BY <1>1 DEF WorkInv, ShiftsInv
<1> QED BY <1>2, <1>3, <1>4, PlanningStep

LEMMA AskExecutionWork ==
    ASSUME SelectionInv, WorkInv, NEW c \in Handlers, AskExecution(c)
    PROVE  WorkInv'
<1>1. UNCHANGED <<mode, shifts, late, taskJobs, advancing, bindings, history>>
  BY DEF AskExecution
<1>2. PICK i \in DOMAIN history :
        To(c, [NoHandler EXCEPT !.pc = "execute", !.seen = Len(bindings), !.plan = history[i].plan])
  BY DEF AskExecution
<1> DEFINE a == [NoHandler EXCEPT !.pc = "execute", !.seen = Len(bindings),
                                  !.plan = history[i].plan]
<1>3. SelectionType /\ history[i] \in TaskEvent /\ Len(bindings) \in Nat
  BY DEF SelectionInv, SelectionType
<1>4. history[i].plan \in Nat
  BY <1>3 DEF TaskEvent
<1>5. a \in Handling /\ a.pc = "execute"
  BY <1>3, <1>4, OffersSelect DEF NoHandler, Handling
<1>6. Selecting' \subseteq Selecting
  BY <1>2, <1>3, <1>5, HandlerIs
<1>7. JobsGo /\ SameAuthorization
  BY <1>1, JobsRest, AuthorizationRests DEF WorkInv
<1> QED BY <1>1, <1>6, <1>7, KeptStep

LEMMA SelectWork ==
    ASSUME SelectionInv, WorkInv, NEW c \in Handlers, Select(c)
    PROVE  WorkInv'
<1>1. /\ UNCHANGED <<mode, shifts, late, taskJobs, advancing>> /\ c \in Selecting
      /\ Selecting' = Selecting \ {c}
  BY HandlerGone DEF Select, Selecting, SelectionInv
<1>2. SelectionType
  BY DEF SelectionInv
<1>3. SameAuthorization
  <2>1. ASSUME NEW kind \in {"model_selection_applied", "model_changed"}, NEW version,
               Log(Event(kind, version))
        PROVE  SameAuthorization
    <3>1. Event(kind, version).kind # "execution_authorized"
      BY DEF Event
    <3> QED BY <1>2, <2>1, <3>1, AuthorizationStays
  <2> QED BY <2>1, AuthorizationRests DEF Select
<1>4. CASE UNCHANGED bindings
  BY <1>1, <1>3, <1>4, JobsRest, KeptStep DEF WorkInv
<1>5. CASE bindings' = Append(bindings, handling[c].to)
  <2>1. handling[c].to \in Selection /\ bindings \in Seq(Selection)
    BY <1>2 DEF SelectionType
  <2>2. Len(bindings') = Len(bindings) + 1 /\ Len(bindings) \in Nat /\ bindings' \in Seq(Selection)
    BY <1>5, <2>1, VersionAdded
  <2>3. Bound'
    <3>1. Len(bindings') # 0
      BY <2>2
    <3> QED BY <3>1 DEF Bound
  <2>4. CASE mode = "executing"
    <3>1. c \in late \cap Selecting /\ c \notin Selecting'
      BY <1>1, <2>4 DEF WorkInv, LateInv
    <3> QED BY <1>1, <1>3, <2>3, <2>4, <3>1, ChangeStep
  <2>5. CASE mode = "planning"
    <3>1. WorkType' /\ advancing' = "idle" /\ mode' = "planning"
      BY <1>1, <2>5 DEF WorkInv, WorkType, ShiftsInv, Planning
    <3>2. /\ Starting' => Selecting' \subseteq late'
          /\ \A j \in DOMAIN taskJobs' : taskJobs'[j].shift <= shifts'
      BY <1>1 DEF WorkInv, LateInv, ShiftsInv, Starting
    <3> QED BY <3>1, <3>2, PlanningStep
  <2> QED BY <2>4, <2>5 DEF WorkInv, WorkType
<1> QED BY <1>4, <1>5 DEF Select

LEMMA CommitWork ==
    ASSUME SelectionInv, WorkInv, NEW c \in Handlers, CommitPlan(c)
    PROVE  WorkInv'
<1> DEFINE a == handling[c]
           binds == a.seen = 0 /\ a.to # Unset
           switches == a.target \notin {Environment, a.to.plan}
           base == IF binds THEN Append(bindings, a.to) ELSE bindings
           next == IF switches THEN Append(base, [a.to EXCEPT !.plan = a.target]) ELSE base
           model == IF a.target # Environment THEN a.target
                    ELSE IF next = <<>> THEN Environment ELSE next[Len(next)].plan
<1>1. /\ UNCHANGED <<mode, shifts, late, advancing>> /\ Selecting' \subseteq Selecting
      /\ SelectionType /\ SelectionType' /\ WorkType
  BY HandlerGone, CommitPlanStep DEF CommitPlan, SelectionInv, WorkInv
<1>2. CASE UNCHANGED <<bindings, history, taskJobs>>
  BY <1>1, <1>2, JobsRest, AuthorizationRests, KeptStep
<1>3. CASE /\ binds \/ switches => Planning /\ AtRest
           /\ bindings' = next
           /\ history' = IF switches THEN Append(history, Event("model_changed", Len(next)))
                         ELSE history
           /\ taskJobs' = Append(taskJobs, Job("plan", model))
  <2>1. model \in Models
    <3>1. CASE a.target # Environment
      BY <1>1, <3>1 DEF SelectionType
    <3>2. CASE a.target = Environment /\ next = <<>>
      BY <3>2, OffersSelect
    <3>3. CASE a.target = Environment /\ next # <<>>
      <4>1. next \in Seq(Selection)
        BY <1>1, <1>3 DEF SelectionType
      <4> HIDE DEF next
      <4>2. Len(next) \in DOMAIN next
        BY <3>3, <4>1, EmptySeq
      <4>3. next[Len(next)] \in Selection
        BY <4>1, <4>2
      <4> QED BY <3>3, <4>3 DEF Selection
    <3> QED BY <3>1, <3>2, <3>3
  <2> HIDE DEF model
  <2>2. /\ taskJobs' \in Seq(TaskJob)
        /\ DOMAIN taskJobs' = DOMAIN taskJobs \cup {Len(taskJobs) + 1}
        /\ \A j \in DOMAIN taskJobs : taskJobs'[j] = taskJobs[j]
        /\ taskJobs'[Len(taskJobs) + 1].kind = "plan"
        /\ taskJobs'[Len(taskJobs) + 1].shift = shifts
    BY <1>1, <1>3, <2>1, JobAdded
  <2>3. JobsGo
    BY <2>2 DEF JobsGo
  <2>4. CASE ~binds /\ ~switches
    <3>1. UNCHANGED <<bindings, history>>
      BY <1>3, <2>4
    <3> QED BY <1>1, <2>3, <3>1, AuthorizationRests, KeptStep
  <2>5. CASE Planning /\ AtRest
    <3>1. WorkType' /\ advancing' = "idle" /\ mode' = "planning"
      BY <1>1, <2>2, <2>5 DEF WorkInv, WorkType, ShiftsInv, Planning
    <3>2. ~Starting'
      BY <2>2, <2>5 DEF Starting, AtRest
    <3>3. \A j \in DOMAIN taskJobs' : taskJobs'[j].shift <= shifts'
      BY <1>1, <2>2 DEF WorkInv, ShiftsInv, WorkType
    <3> QED BY <3>1, <3>2, <3>3, PlanningStep
  <2> QED BY <1>3, <2>4, <2>5
<1> QED BY <1>2, <1>3 DEF CommitPlan

LEMMA AuthorizeWork ==
    ASSUME SelectionInv, WorkInv, NEW c \in Handlers, AuthorizeExecution(c)
    PROVE  WorkInv'
<1>1. /\ UNCHANGED <<mode, shifts, advancing>> /\ Selecting' \subseteq Selecting
      /\ WorkType
  BY HandlerGone DEF AuthorizeExecution, SelectionInv, WorkInv
<1>2. CASE UNCHANGED <<bindings, history, taskJobs, late>>
  BY <1>1, <1>2, JobsRest, AuthorizationRests, KeptStep
<1>3. ASSUME NEW i \in DOMAIN history, Authorizes(handling[c], i),
             taskJobs' = Append(taskJobs, Job("start", Environment)), late' = Selecting
      PROVE  WorkInv'
  <2>1. Planning /\ Environment \in Models
    BY <1>3, OffersSelect DEF Authorizes
  <2>2. /\ taskJobs' \in Seq(TaskJob)
        /\ DOMAIN taskJobs' = DOMAIN taskJobs \cup {Len(taskJobs) + 1}
        /\ \A j \in DOMAIN taskJobs : taskJobs'[j] = taskJobs[j]
        /\ taskJobs'[Len(taskJobs) + 1].shift = shifts
    BY <1>1, <1>3, <2>1, JobAdded
  <2>3. late' \subseteq Handlers
    BY <1>3 DEF Selecting
  <2>4. WorkType' /\ advancing' = "idle" /\ mode' = "planning"
    BY <1>1, <2>1, <2>2, <2>3 DEF WorkInv, WorkType, ShiftsInv, Planning
  <2>5. \A j \in DOMAIN taskJobs' : taskJobs'[j].shift <= shifts'
    BY <1>1, <2>2 DEF WorkInv, ShiftsInv, WorkType
  <2> QED BY <1>1, <1>3, <2>4, <2>5, PlanningStep
<1> QED BY <1>2, <1>3 DEF AuthorizeExecution

LEMMA StartWork ==
    ASSUME SelectionInv, WorkInv, NEW j \in DOMAIN taskJobs, EndStart(j) \/ RetryStart(j)
    PROVE  WorkInv'
<1>1. /\ UNCHANGED <<bindings, history, handling, advancing>> /\ WorkType /\ Selecting' = Selecting
  BY DEF EndStart, RetryStart, WorkInv, Selecting
<1>2. CASE RetryStart(j)
  <2>1. /\ Planning /\ taskJobs' = [taskJobs EXCEPT ![j].active = TRUE]
        /\ late' = late \cup Selecting /\ UNCHANGED <<mode, shifts>>
    BY <1>2 DEF RetryStart
  <2>2. /\ taskJobs' \in Seq(TaskJob) /\ DOMAIN taskJobs' = DOMAIN taskJobs
        /\ \A i \in DOMAIN taskJobs : taskJobs'[i].shift = taskJobs[i].shift
    BY <1>1, <2>1, JobSwitched
  <2>3. WorkType' /\ advancing' = "idle" /\ mode' = "planning"
    BY <1>1, <2>1, <2>2 DEF WorkInv, WorkType, ShiftsInv, Planning, Selecting
  <2>4. \A i \in DOMAIN taskJobs' : taskJobs'[i].shift <= shifts'
    BY <2>1, <2>2 DEF WorkInv, ShiftsInv
  <2> QED BY <1>1, <2>1, <2>3, <2>4, PlanningStep
<1>3. CASE EndStart(j) /\ UNCHANGED <<mode, shifts>>
  BY <1>1, <1>3, JobEnded, AuthorizationRests, KeptStep DEF EndStart
<1>4. CASE EndStart(j) /\ Planning /\ mode' = "executing" /\ shifts' = shifts + 1
  <2>1. JobsGo /\ UNCHANGED late /\ taskJobs[j].kind = "start" /\ taskJobs[j].active
    BY <1>1, <1>4, JobEnded DEF EndStart
  <2>2. DOMAIN taskJobs' = DOMAIN taskJobs
    BY <1>1, <1>4, JobSwitched DEF EndStart, JobOver
  <2>3. /\ WorkType' /\ advancing' = "idle" /\ shifts \in Nat
        /\ \A i \in DOMAIN taskJobs : taskJobs[i].shift \in Nat
    <3>1. \A i \in DOMAIN taskJobs : taskJobs[i] \in TaskJob
      BY <1>1 DEF WorkType
    <3>2. shifts \in Nat /\ shifts + 1 \in Nat
      BY <1>1 DEF WorkType
    <3> QED BY <1>1, <1>4, <2>1, <3>1, <3>2 DEF WorkInv, WorkType, ShiftsInv, JobsGo, TaskJob
  <2>4. \A i \in DOMAIN taskJobs' : taskJobs'[i].shift <= shifts
    BY <2>1, <2>2 DEF JobsGo, WorkInv, ShiftsInv
  <2>5. ShiftsInv'
    <3>1. \A i \in DOMAIN taskJobs' : taskJobs'[i].shift \in Nat
      BY <2>1, <2>2, <2>3 DEF JobsGo
    <3>2. \A i \in DOMAIN taskJobs' : taskJobs'[i].shift <= shifts'
      BY <1>4, <2>3, <2>4, <3>1
    <3> QED BY <1>4, <3>2 DEF ShiftsInv, Planning
  <2>6. LateInv'
    BY <1>1, <2>1 DEF WorkInv, LateInv, Starting
  <2>7. ASSUME NEW k \in DOMAIN history'
        PROVE  Cardinality(Strays(k)') + Cardinality((late \cap Selecting)') + Overtaken(k)' + Unbound'
                 <= Cardinality(late') + (IF history'[k].version = 0 THEN 1 ELSE 0)
    <3>1. Strays(k)' = {}
      <4>1. \A i \in DOMAIN taskJobs' : taskJobs'[i].shift # shifts'
        BY <1>4, <2>3, <2>4
      <4> QED BY <4>1 DEF Strays
    <3>2. Cardinality(Strays(k)') = 0
      BY <3>1, FS_EmptySet
    <3>3. /\ Cardinality((late \cap Selecting)') <= Cardinality(late')
          /\ Cardinality((late \cap Selecting)') \in Nat /\ Cardinality(late') \in Nat
      <4>1. late' \in SUBSET Handlers
        BY <2>3 DEF WorkType
      <4>2. IsFiniteSet(late')
        BY <4>1, SelectionAssumption, FS_Subset
      <4>3. (late \cap Selecting)' \in SUBSET (late')
        OBVIOUS
      <4> QED BY <4>2, <4>3, FS_Subset, FS_CardinalityType
    <3>4. Overtaken(k)' = 0
      BY <2>3 DEF Overtaken
    <3>5. Unbound' <= (IF history'[k].version = 0 THEN 1 ELSE 0) /\ Unbound' \in Nat
      <4>1. CASE Bound'
        BY <4>1 DEF Unbound
      <4>2. CASE ~Bound'
        <5>1. bindings = <<>> /\ k \in DOMAIN history /\ history' = history
          BY <1>1, <4>2 DEF Bound
        <5>2. history[k].version <= 0 /\ history[k] \in TaskEvent
          BY <5>1 DEF SelectionInv, VersionsInv, SelectionType
        <5>3. history[k].version = 0
          BY <5>2 DEF TaskEvent
        <5> QED BY <5>1, <5>3, <4>2 DEF Unbound
      <4> QED BY <4>1, <4>2
    <3> QED BY <3>2, <3>3, <3>4, <3>5
  <2>8. StraysInv'
    BY <2>7 DEF StraysInv
  <2> QED BY <2>3, <2>5, <2>6, <2>8 DEF WorkInv
<1> QED BY <1>2, <1>3, <1>4 DEF EndStart

LEMMA BindWork ==
    ASSUME SelectionInv, WorkInv, BindForMessage
    PROVE  WorkInv'
<1>1. /\ ~Bound /\ bindings' = <<defaults>>
      /\ UNCHANGED <<mode, shifts, late, taskJobs, advancing, history>> /\ Selecting' = Selecting
  BY DEF BindForMessage, WithDefaults, Selecting
<1>2. Bound'
  BY <1>1 DEF Bound
<1>3. CASE mode = "executing"
  BY <1>1, <1>2, <1>3, AuthorizationRests, ChangeStep
<1>4. CASE mode = "planning"
  <2>1. WorkType' /\ advancing' = "idle" /\ mode' = "planning"
    BY <1>1, <1>4 DEF WorkInv, WorkType, ShiftsInv, Planning
  <2>2. /\ Starting' => Selecting' \subseteq late'
        /\ \A j \in DOMAIN taskJobs' : taskJobs'[j].shift <= shifts'
    BY <1>1 DEF WorkInv, LateInv, ShiftsInv, Starting
  <2> QED BY <2>1, <2>2, PlanningStep
<1> QED BY <1>3, <1>4 DEF WorkInv, WorkType

(* The coordinator compares.                                               *)
LEMMA TickWork ==
    ASSUME SelectionInv, WorkInv, ReadTick
    PROVE  WorkInv'
<1>1. /\ mode = "executing" /\ Selecting' = Selecting
      /\ UNCHANGED <<mode, shifts, late, taskJobs, bindings>>
  BY DEF ReadTick, Selecting
<1>2. PICK k \in DOMAIN history :
        /\ IsLast(k, "execution_authorized")
        /\ \/ AsAuthorized(k) /\ advancing' = "enqueue" /\ UNCHANGED history
           \/ Log(Event("automation_blocked", Len(bindings))) /\ UNCHANGED advancing
  BY DEF ReadTick
<1>3. CASE Log(Event("automation_blocked", Len(bindings))) /\ UNCHANGED advancing
  <2>1. Event("automation_blocked", Len(bindings)).kind # "execution_authorized"
    BY DEF Event
  <2>2. SameAuthorization
    BY <1>3, <2>1, AuthorizationStays DEF SelectionInv
  <2> QED BY <1>1, <1>3, <2>2, JobsRest, KeptStep DEF WorkInv
<1>4. CASE AsAuthorized(k) /\ advancing' = "enqueue" /\ UNCHANGED history
  <2>1. WorkType /\ WorkType' /\ ShiftsInv' /\ LateInv'
    BY <1>1, <1>4 DEF WorkInv, WorkType, ShiftsInv, LateInv, Starting, Planning
  <2>2. \A i \in DOMAIN history : IsLast(i, "execution_authorized") => i = k
    <3>1. DOMAIN history \subseteq Nat
      BY DEF SelectionInv, SelectionType
    <3> QED BY <1>2, <3>1 DEF IsLast
  <2>3. Overtaken(k)' = 0
    BY <1>1, <1>4 DEF Overtaken, AsAuthorized, Binding, Bound
  <2>4. \A i \in DOMAIN history : history[i].version \in Nat
    <3>1. \A i \in DOMAIN history : history[i] \in TaskEvent
      BY DEF SelectionInv, SelectionType
    <3> QED BY <3>1 DEF TaskEvent
  <2>5. Cardinality(Strays(k)') + Cardinality((late \cap Selecting)') + Overtaken(k)' + Unbound'
          <= Cardinality(Strays(k)) + Cardinality(late \cap Selecting) + Overtaken(k) + Unbound
    <3>1. Strays(k)' = Strays(k) /\ (late \cap Selecting)' = late \cap Selecting /\ Unbound' = Unbound
      BY <1>1, <1>4 DEF Strays, Unbound, Bound
    <3>2. /\ Cardinality(Strays(k)) \in Nat /\ Cardinality(late \cap Selecting) \in Nat
          /\ Overtaken(k) \in Nat /\ Unbound \in Nat
      BY <2>1, WorkIsFinite DEF Overtaken, Unbound
    <3>3. /\ Cardinality(Strays(k)') = Cardinality(Strays(k))
          /\ Cardinality((late \cap Selecting)') = Cardinality(late \cap Selecting)
      BY <3>1
    <3> HIDE DEF Strays, Selecting, Overtaken, Unbound
    <3>4. \A a, b, c, d \in Nat : a + b + 0 + d <= a + b + c + d
      OBVIOUS
    <3> QED BY <2>3, <3>1, <3>2, <3>3, <3>4
  <2>6. SameAuthorization
    BY <1>4, AuthorizationRests
  <2>7. StraysInv'
    BY <1>1, <2>1, <2>2, <2>4, <2>5, <2>6, CreditStays DEF WorkInv
  <2> QED BY <2>1, <2>7 DEF WorkInv
<1> QED BY <1>2, <1>3, <1>4

(* And enqueues: with other models than were authorized if it was          *)
(* overtaken.                                                              *)
LEMMA EnqueueWork ==
    ASSUME SelectionInv, WorkInv, EnqueueCode
    PROVE  WorkInv'
<1>1. /\ advancing = "enqueue" /\ advancing' = "idle" /\ Selecting' = Selecting
      /\ UNCHANGED <<mode, shifts, late, bindings, history>>
      /\ taskJobs' = Append(taskJobs, Job("code", Binding.code))
  BY DEF EnqueueCode, Selecting
<1>2. WorkType /\ mode = "executing" /\ SelectionType
  BY <1>1 DEF WorkInv, WorkType, ShiftsInv, Planning, SelectionInv
<1>3. Binding.code \in Models
  <2>1. CASE Bound
    <3>1. bindings # <<>> /\ bindings \in Seq(Selection)
      BY <1>2, <2>1 DEF Bound, SelectionType
    <3>2. Len(bindings) \in DOMAIN bindings
      BY <3>1, EmptySeq
    <3>3. bindings[Len(bindings)] \in Selection
      BY <3>1, <3>2
    <3> QED BY <2>1, <3>3 DEF Binding, Selection
  <2>2. CASE ~Bound
    BY <2>2, OffersSelect DEF Binding, Selection
  <2> QED BY <2>1, <2>2
<1> DEFINE n == Len(taskJobs) + 1
<1>4. /\ taskJobs' \in Seq(TaskJob) /\ DOMAIN taskJobs' = DOMAIN taskJobs \cup {n}
      /\ n \notin DOMAIN taskJobs
      /\ \A j \in DOMAIN taskJobs : taskJobs'[j] = taskJobs[j]
      /\ taskJobs'[n].kind = "code" /\ taskJobs'[n].model = Binding.code
      /\ taskJobs'[n].shift = shifts
  BY <1>1, <1>2, <1>3, JobAdded
<1> HIDE DEF n
<1>5. WorkType' /\ ShiftsInv' /\ LateInv'
  <2>1. WorkType'
    BY <1>1, <1>4 DEF WorkInv, WorkType
  <2>2. ShiftsInv'
    BY <1>1, <1>2, <1>4 DEF WorkInv, WorkType, ShiftsInv, Planning
  <2>3. Starting' => Starting
    BY <1>4 DEF Starting
  <2> QED BY <1>1, <2>1, <2>2, <2>3 DEF WorkInv, LateInv
<1>6. ASSUME NEW k \in DOMAIN history
      PROVE  Cardinality(Strays(k)') + Cardinality((late \cap Selecting)') + Overtaken(k)' + Unbound'
               <= Cardinality(Strays(k)) + Cardinality(late \cap Selecting) + Overtaken(k) + Unbound
  <2>1. (late \cap Selecting)' = late \cap Selecting /\ Unbound' = Unbound /\ Overtaken(k)' = 0
    BY <1>1 DEF Unbound, Bound, Overtaken
  <2>2. /\ Cardinality(Strays(k)) \in Nat /\ Cardinality(late \cap Selecting) \in Nat
        /\ Unbound \in Nat /\ IsFiniteSet(Strays(k))
    BY <1>2, WorkIsFinite DEF Unbound
  <2>3. CASE Binding.code = history[k].code
    <3>1. Strays(k)' = Strays(k) /\ Overtaken(k) = 0
      BY <1>1, <1>4, <2>3 DEF Strays, Overtaken
    <3>2. /\ Cardinality(Strays(k)') = Cardinality(Strays(k))
          /\ Cardinality((late \cap Selecting)') = Cardinality(late \cap Selecting)
      BY <2>1, <3>1
    <3>3. \A a, b, d \in Nat : a + b + 0 + d <= a + b + 0 + d
      OBVIOUS
    <3> QED BY <2>1, <2>2, <3>1, <3>2, <3>3
  <2>4. CASE Binding.code # history[k].code
    <3>1. Strays(k)' = Strays(k) \cup {n} /\ Overtaken(k) = 1 /\ n \notin Strays(k)
      BY <1>1, <1>4, <2>4 DEF Strays, Overtaken
    <3>2. Cardinality(Strays(k)') = Cardinality(Strays(k)) + 1
      BY <2>2, <3>1, FS_AddElement
    <3>3. Cardinality((late \cap Selecting)') = Cardinality(late \cap Selecting)
      BY <2>1
    <3>4. \A a, b, d \in Nat : (a + 1) + b + 0 + d <= a + b + 1 + d
      OBVIOUS
    <3> QED BY <2>1, <2>2, <3>1, <3>2, <3>3, <3>4
  <2> QED BY <2>3, <2>4
<1>7. \A k \in DOMAIN history : history[k].version \in Nat
  <2>1. \A k \in DOMAIN history : history[k] \in TaskEvent
    BY <1>2 DEF SelectionType
  <2> QED BY <2>1 DEF TaskEvent
<1>8. StraysInv'
  BY <1>1, <1>2, <1>5, <1>6, <1>7, AuthorizationRests, CreditStays DEF WorkInv
<1> QED BY <1>5, <1>8 DEF WorkInv

LEMMA StopWork ==
    ASSUME SelectionInv, WorkInv, Stop
    PROVE  WorkInv'
<1>1. /\ taskJobs' = [j \in DOMAIN taskJobs |-> [taskJobs[j] EXCEPT !.active = FALSE]]
      /\ mode' = "planning" /\ shifts' \in {shifts, shifts + 1} /\ advancing' = "idle"
      /\ UNCHANGED late
  BY DEF Stop
<1>2. /\ WorkType /\ shifts \in Nat /\ taskJobs \in Seq(TaskJob)
      /\ \A j \in DOMAIN taskJobs : taskJobs[j] \in TaskJob
  BY DEF WorkInv, WorkType
<1>3. shifts' \in Nat /\ shifts <= shifts'
  BY <1>1, <1>2
<1>4. \A j \in DOMAIN taskJobs : /\ taskJobs'[j] \in TaskJob /\ ~taskJobs'[j].active
                                 /\ taskJobs'[j].shift = taskJobs[j].shift
                                 /\ taskJobs[j].shift \in Nat
  BY <1>1, <1>2 DEF TaskJob
<1>5. DOMAIN taskJobs' = DOMAIN taskJobs /\ taskJobs' \in Seq(TaskJob)
  <2>1. DOMAIN taskJobs = 1..Len(taskJobs) /\ Len(taskJobs) \in Nat
    BY <1>2
  <2>2. taskJobs' \in [1..Len(taskJobs) -> TaskJob]
    BY <1>1, <1>4, <2>1
  <2> QED BY <1>1, <2>1, <2>2, SeqDef
<1>6. WorkType'
  BY <1>1, <1>3, <1>5 DEF WorkInv, WorkType
<1>7. ~Starting'
  BY <1>4, <1>5 DEF Starting
<1>8. \A j \in DOMAIN taskJobs' : taskJobs'[j].shift <= shifts'
  BY <1>2, <1>3, <1>4, <1>5 DEF WorkInv, ShiftsInv
<1> QED BY <1>1, <1>6, <1>7, <1>8, PlanningStep

LEMMA OtherWork ==
    ASSUME SelectionInv, WorkInv,
           \/ UNCHANGED selectionVars \/ SavePlan \/ \E sel \in Offers : SaveSettings(sel)
           \/ \E j \in DOMAIN taskJobs : EndPlanning(j) \/ EndCode(j)
    PROVE  WorkInv'
<1>1. /\ UNCHANGED <<mode, shifts, late, bindings, advancing>> /\ Selecting' = Selecting
      /\ UNCHANGED history \/ BindPlan
  BY DEF selectionVars, SavePlan, SaveSettings, EndPlanning, EndCode, Selecting
<1>2. JobsGo
  <2>1. CASE UNCHANGED taskJobs
    BY <2>1, JobsRest DEF WorkInv
  <2>2. ASSUME NEW j \in DOMAIN taskJobs, JobOver(j)
        PROVE  JobsGo
    BY <2>2, JobEnded DEF WorkInv
  <2> QED BY <2>1, <2>2 DEF selectionVars, SavePlan, SaveSettings, EndPlanning, EndCode
<1>3. SameAuthorization
  <2>1. ASSUME NEW p, Log([Event("plan_bound", Len(bindings)) EXCEPT !.plan = p])
        PROVE  SameAuthorization
    <3>1. [Event("plan_bound", Len(bindings)) EXCEPT !.plan = p].kind # "execution_authorized"
      BY DEF Event
    <3> QED BY <2>1, <3>1, AuthorizationStays DEF SelectionInv
  <2> QED BY <1>1, <2>1, AuthorizationRests DEF BindPlan
<1> QED BY <1>1, <1>2, <1>3, KeptStep

LEMMA WorkStarts == SelectionInit => WorkInv
<1> SUFFICES ASSUME SelectionInit PROVE WorkInv
  OBVIOUS
<1>1. /\ taskJobs = <<>> /\ shifts = 0 /\ late = {} /\ advancing = "idle" /\ bindings = <<>>
      /\ mode \in {"planning", "executing"} /\ handling = [c \in Handlers |-> NoHandler]
  BY DEF SelectionInit
<1>2. WorkType /\ ShiftsInv
  BY <1>1 DEF WorkType, ShiftsInv
<1>3. Selecting = {}
  BY <1>1 DEF Selecting, NoHandler
<1>4. LateInv
  BY <1>3 DEF LateInv
<1>5. ASSUME NEW k \in DOMAIN history
      PROVE  Cardinality(Strays(k)) + Cardinality(late \cap Selecting) + Overtaken(k) + Unbound
               <= Cardinality(late) + (IF history[k].version = 0 THEN 1 ELSE 0)
  <2>1. Strays(k) = {} /\ late \cap Selecting = {} /\ late = {}
    BY <1>1 DEF Strays
  <2>2. Overtaken(k) = 0 /\ Unbound = 1
    BY <1>1 DEF Overtaken, Unbound, Bound
  <2>3. history[k].version = 0
    <3>1. history[k].version <= 0 /\ history[k] \in TaskEvent
      BY <1>1, SelectionStarts DEF SelectionInv, VersionsInv, SelectionType
    <3> QED BY <3>1 DEF TaskEvent
  <2>4. /\ Cardinality(Strays(k)) = 0 /\ Cardinality(late \cap Selecting) = 0
        /\ Cardinality(late) = 0
    BY <2>1, FS_EmptySet
  <2> QED BY <2>2, <2>3, <2>4
<1>6. StraysInv
  BY <1>5 DEF StraysInv
<1> QED BY <1>2, <1>4, <1>6 DEF WorkInv

LEMMA SelectionNextKeeps ==
    ASSUME SelectionInv, WorkInv, [SelectionNext]_selectionVars
    PROVE  SelectionInv' /\ WorkInv'
<1>1. ASSUME NEW c \in Handlers,
               \/ Select(c) \/ CommitPlan(c) \/ AskExecution(c) \/ AuthorizeExecution(c)
               \/ \E sel \in Offers : AskSelection(c, sel)
               \/ \E target \in Models : AskPlan(c, target)
      PROVE  SelectionInv' /\ WorkInv'
  BY <1>1, SelectStep, CommitPlanStep, AskExecutionStep, AuthorizeStep, AskStep,
     SelectWork, CommitWork, AskExecutionWork, AuthorizeWork, AskWork
<1>2. ASSUME \/ UNCHANGED selectionVars \/ SavePlan \/ \E sel \in Offers : SaveSettings(sel)
             \/ \E j \in DOMAIN taskJobs : EndPlanning(j) \/ EndCode(j)
      PROVE  SelectionInv' /\ WorkInv'
  BY <1>2, PlainStep, OtherWork
<1>3. ASSUME \/ EnqueueCode \/ ReadTick \/ Stop \/ BindForMessage
             \/ \E j \in DOMAIN taskJobs : EndStart(j) \/ RetryStart(j)
      PROVE  SelectionInv' /\ WorkInv'
  BY <1>3, PlainStep, EnqueueWork, TickWork, StopWork, BindWork, StartWork
<1> QED BY <1>1, <1>2, <1>3 DEF SelectionNext

(* While a task is at work, no more jobs ask another model than was        *)
(* authorized than requests had read it as idle before, and one more if    *)
(* its models were bound only then (app/model_settings.py task_models,     *)
(* bind_job_model, app/automation.py _advance).                            *)
THEOREM StrayWorkStaysBounded == SelectionSpec => []StrayWorkIsBounded
<1>1. SelectionInv /\ WorkInv => StrayWorkIsBounded
  <2> SUFFICES ASSUME SelectionInv, WorkInv, mode = "executing", NEW k \in DOMAIN history,
                      IsLast(k, "execution_authorized")
               PROVE  Cardinality(Strays(k)) <=
                        Cardinality(late) + (IF history[k].version = 0 THEN 1 ELSE 0)
    BY DEF StrayWorkIsBounded
  <2>1. Cardinality(Strays(k)) + Cardinality(late \cap Selecting) + Overtaken(k) + Unbound
          <= Cardinality(late) + (IF history[k].version = 0 THEN 1 ELSE 0)
    BY DEF WorkInv, StraysInv
  <2>2. /\ Cardinality(Strays(k)) \in Nat /\ Cardinality(late \cap Selecting) \in Nat
        /\ Cardinality(late) \in Nat /\ Overtaken(k) \in Nat /\ Unbound \in Nat
    BY WorkIsFinite DEF WorkInv, Overtaken, Unbound
  <2>3. \A a, b, c, d, e, f \in Nat : a + b + c + d <= e + f => a <= e + f
    OBVIOUS
  <2>4. (IF history[k].version = 0 THEN 1 ELSE 0) \in Nat
    OBVIOUS
  <2> QED BY <2>1, <2>2, <2>3, <2>4
<1>2. SelectionInit => SelectionInv /\ WorkInv
  BY SelectionStarts, WorkStarts
<1>3. SelectionInv /\ WorkInv /\ [SelectionNext]_selectionVars => (SelectionInv /\ WorkInv)'
  BY SelectionNextKeeps
<1> QED BY <1>1, <1>2, <1>3, PTL DEF SelectionSpec
=============================================================================

---------------------------- MODULE AgentsProofs ----------------------------
(***************************************************************************)
(* Theorems about PlannerRounds, ModelCall, SandboxRun and                 *)
(* VerificationEnvironment, for any number of requests, calls and runs,    *)
(* and for any of their limits.  The four modules share no variable.       *)
(*                                                                         *)
(* That a record has its fields and no others is stated as x = [f \in      *)
(* Fields |-> x[f]]: what an EXCEPT changes and keeps follows from it.     *)
(***************************************************************************)
EXTENDS PlannerRounds, ModelCall, SandboxRun, VerificationEnvironment,
        FiniteSetTheorems, SequenceTheorems, WellFoundedInduction, TLAPS

-----------------------------------------------------------------------------
(* PlannerRounds: the calls counted, and those about to be counted by a    *)
(* handler that has compared already, pass the budget by one per request.  *)

Asking == {r \in Requests : at[r] = "asking"}

JournalInv ==
    /\ calls \in Nat
    /\ budget = [f \in {"limit", "spent"} |-> budget[f]] /\ budget.limit \in Nat
    /\ at = [r \in Requests |-> at[r]]
    /\ calls + Cardinality(Asking) =< budget.limit + Cardinality(Requests)

LEMMA AskingFinite ==
    /\ IsFiniteSet(Asking) /\ Cardinality(Asking) \in Nat /\ Cardinality(Requests) \in Nat
    /\ Cardinality(Asking) =< Cardinality(Requests)
<1>1. IsFiniteSet(Requests) /\ Asking \subseteq Requests
  BY PlannerAssumption DEF Asking
<1> QED BY <1>1, FS_Subset, FS_CardinalityType

LEMMA AskingFiniteNext ==
    /\ IsFiniteSet(Asking') /\ Cardinality(Asking') \in Nat
    /\ Cardinality(Asking') =< Cardinality(Requests)
<1>1. IsFiniteSet(Requests) /\ Asking' \subseteq Requests
  BY PlannerAssumption DEF Asking
<1> QED BY <1>1, FS_Subset, FS_CardinalityType

LEMMA JournalInitial == PlannerInit => JournalInv
<1> SUFFICES ASSUME PlannerInit
             PROVE  JournalInv
  OBVIOUS
<1>1. Limits \subseteq Nat
  BY PlannerAssumption
<1>2. budget = [f \in {"limit", "spent"} |-> budget[f]] /\ budget.limit \in Nat
  BY <1>1 DEF PlannerInit
<1>3. calls = 0 /\ at = [r \in Requests |-> at[r]]
  BY DEF PlannerInit
<1> QED BY <1>2, <1>3, AskingFinite DEF JournalInv

(* A handler moves on: it compares, it counts, or neither.                 *)
LEMMA AskingMoves ==
    ASSUME JournalInv, NEW r \in Requests, NEW phase, Phase(r, phase)
    PROVE  /\ at' = [s \in Requests |-> at'[s]]
           /\ phase # "asking" => Cardinality(Asking') =< Cardinality(Asking)
           /\ phase # "asking" /\ at[r] = "asking" =>
                 Cardinality(Asking') = Cardinality(Asking) - 1
<1>1. at' = [s \in Requests |-> at'[s]] /\ at'[r] = phase
      /\ \A s \in Requests : s # r => at'[s] = at[s]
  BY DEF JournalInv, Phase
<1>2. ASSUME phase # "asking"
      PROVE  Asking' = Asking \ {r}
  BY <1>1, <1>2 DEF Asking
<1>3. ASSUME phase # "asking", at[r] = "asking"
      PROVE  Cardinality(Asking') = Cardinality(Asking) - 1
  <2>1. r \in Asking
    BY <1>3 DEF Asking
  <2> QED BY <1>2, <1>3, <2>1, AskingFinite, FS_RemoveElement
<1>4. ASSUME phase # "asking"
      PROVE  Cardinality(Asking') =< Cardinality(Asking)
  <2>1. Asking' \subseteq Asking
    BY <1>2, <1>4
  <2> QED BY <2>1, AskingFinite, FS_Subset
<1> QED BY <1>1, <1>3, <1>4

(* A step that counts nothing and lets nobody ask.                         *)
LEMMA JournalStays ==
    ASSUME JournalInv, calls' = calls, budget' = budget \/ Recorded,
           \/ at' = at
           \/ \E r \in Requests, phase \in {"rest", "started", "calling", "answered", "looked",
                                            "dead"} : Phase(r, phase)
    PROVE  JournalInv'
<1>1. /\ budget' = [f \in {"limit", "spent"} |-> budget'[f]]
      /\ budget'.limit = budget.limit
  BY DEF JournalInv, Recorded
<1>2. /\ at' = [s \in Requests |-> at'[s]]
      /\ Cardinality(Asking') =< Cardinality(Asking)
  <2>1. CASE at' = at
    <3>1. Asking' = Asking
      BY <2>1 DEF Asking
    <3> QED BY <2>1, <3>1, AskingFinite DEF JournalInv
  <2>2. ASSUME NEW r \in Requests, NEW phase \in {"rest", "started", "calling", "answered",
                                                  "looked", "dead"}, Phase(r, phase)
        PROVE  /\ at' = [s \in Requests |-> at'[s]]
               /\ Cardinality(Asking') =< Cardinality(Asking)
    BY <2>2, AskingMoves
  <2> QED BY <2>1, <2>2
<1>3. calls \in Nat /\ budget.limit \in Nat
      /\ calls + Cardinality(Asking) =< budget.limit + Cardinality(Requests)
  BY DEF JournalInv
<1> QED BY <1>1, <1>2, <1>3, AskingFinite, AskingFiniteNext DEF JournalInv

LEMMA JournalStep == JournalInv /\ [PlannerNext]_plannerVars => JournalInv'
<1> SUFFICES ASSUME JournalInv, [PlannerNext]_plannerVars
             PROVE  JournalInv'
  OBVIOUS
<1>1. ASSUME NEW r \in Requests, BeginTurn(r)
      PROVE  JournalInv'
  <2>1. CASE Report(r)
    BY <1>1, <2>1, JournalStays DEF BeginTurn, Report
  <2>2. CASE MayCall(r) /\ Phase(r, "asking")
    <3>1. calls < budget.limit /\ calls' = calls /\ budget' = budget
      BY <1>1, <2>2 DEF BeginTurn, MayCall, BudgetLeft
    <3>2. at' = [s \in Requests |-> at'[s]]
      BY <2>2 DEF Phase, JournalInv
    <3> QED BY <3>1, <3>2, AskingFiniteNext, AskingFinite DEF JournalInv
  <2> QED BY <1>1, <2>1, <2>2 DEF BeginTurn
<1>2. ASSUME NEW r \in Requests, CallModel(r)
      PROVE  JournalInv'
  <2>1. /\ at[r] = "asking" /\ Phase(r, "calling")
        /\ calls' = calls + 1 /\ budget' = budget
    BY <1>2 DEF CallModel
  <2>2. /\ at' = [s \in Requests |-> at'[s]]
        /\ Cardinality(Asking') = Cardinality(Asking) - 1
    BY <2>1, AskingMoves
  <2> QED BY <2>1, <2>2, AskingFinite DEF JournalInv
<1>3. CASE ConfigureBudget
  <2>1. PICK limit \in Limits : limit >= calls /\ budget' = [limit |-> limit, spent |-> FALSE]
    BY <1>3 DEF ConfigureBudget
  <2>2. /\ budget' = [f \in {"limit", "spent"} |-> budget'[f]]
        /\ budget'.limit = limit /\ limit \in Nat
    BY <2>1, PlannerAssumption
  <2>3. calls' = calls /\ at' = at /\ Asking' = Asking
    BY <1>3 DEF ConfigureBudget, Asking
  <2> QED BY <2>1, <2>2, <2>3, AskingFinite DEF JournalInv
<1>4. ASSUME NEW r \in Requests,
             \/ RequestLook(r) \/ RequestCommit(r) \/ Lease(r) \/ Answer(r)
             \/ Die(r) \/ Expire(r)
      PROVE  JournalInv'
  BY <1>4, JournalStays DEF RequestLook, RequestCommit, Lease, Answer, Die, Expire
<1>5. ASSUME NEW r \in Requests,
             \/ Look(r) \/ LookFails(r) \/ CommitArchive(r) \/ CommitContext(r)
             \/ AnswerEnds(r) \/ SavesPlan(r) \/ ReadsMore(r)
             \/ Repairs(r) \/ CommitRefused(r) \/ Break(r)
      PROVE  JournalInv'
  <2>1. calls' = calls /\ (budget' = budget \/ Recorded)
    BY <1>5 DEF Look, LookFails, CommitArchive, CommitContext, AnswerEnds, SavesPlan, ReadsMore,
                Repairs, CommitRefused, Break
  <2>2. Phase(r, "rest") \/ Phase(r, "looked")
    BY <1>5 DEF Look, LookFails, CommitArchive, CommitContext, AnswerEnds, SavesPlan, ReadsMore,
                Repairs, CommitRefused, Break, Report
  <2> QED BY <2>1, <2>2, JournalStays
<1>6. CASE StopWork \/ SavePlan \/ ChangeState \/ UNCHANGED plannerVars
  BY <1>6, JournalStays DEF StopWork, SavePlan, ChangeState, plannerVars
<1> QED BY <1>1, <1>2, <1>3, <1>4, <1>5, <1>6 DEF PlannerNext, Handle

(* Any number of requests whose handlers compare the budget before the     *)
(* journal is locked overrun it by no more than their number, also when    *)
(* the user lowers it meanwhile (planner.py, configure_planning_budget).   *)
THEOREM OverrunIsBounded == PlannerSpec => []CallsNearBudget
<1>1. JournalInv => CallsNearBudget
  BY AskingFinite DEF JournalInv, CallsNearBudget
<1> QED BY JournalInitial, JournalStep, <1>1, PTL DEF PlannerSpec

-----------------------------------------------------------------------------
(* PlannerRounds: a stop finds work that is queued or running, so a job    *)
(* that was stopped has nothing left to do but to end as cancelled.        *)

RowFields == {"state", "kind", "cancel", "only", "epoch", "parent", "basis", "round", "repair"}

RowIsPlain(x) ==
    /\ x = [f \in RowFields |-> x[f]]
    /\ x.cancel = TRUE \/ x.cancel = FALSE
    /\ x.cancel => x.state \notin {"none", "asked", "queued"}

RowsInv ==
    /\ row = [r \in Requests |-> row[r]]
    /\ \A r \in Requests : RowIsPlain(row[r])

LEMMA RowsInitial == PlannerInit => RowsInv
<1>1. RowIsPlain(NoJobRow)
  BY DEF RowIsPlain, NoJobRow, RowFields
<1> QED BY <1>1 DEF PlannerInit, RowsInv

(* One request's job changes, and ends as cancelled if it was stopped.     *)
LEMMA RowChanges ==
    ASSUME RowsInv, NEW r \in Requests, NEW x, RowIsPlain(x),
           row' = [row EXCEPT ![r] = x],
           row[r].cancel => \/ x = row[r]
                            \/ x.state = "cancelled" /\ plan' = plan
    PROVE  /\ RowsInv'
           /\ \A q \in Requests : row[q].cancel /\ row'[q] # row[q] =>
                 row'[q].state = "cancelled" /\ plan' = plan
<1>1. /\ row' = [q \in Requests |-> row'[q]] /\ row'[r] = x
      /\ \A q \in Requests : q # r => row'[q] = row[q]
  BY DEF RowsInv
<1>2. RowsInv'
  BY <1>1 DEF RowsInv
<1> QED BY <1>1, <1>2

StopHolds ==
    /\ RowsInv'
    /\ \A q \in Requests : row[q].cancel /\ row'[q] # row[q] =>
          row'[q].state = "cancelled" /\ plan' = plan

LEMMA RowsUnchanged == ASSUME RowsInv, row' = row PROVE StopHolds
BY DEF RowsInv, StopHolds

(* The state of a job that is at the end of its chain changes.             *)
LEMMA JobEnds ==
    ASSUME RowsInv, NEW r \in Requests, NEW state \in {"succeeded", "failed", "cancelled",
                                                       "timed_out", "queued", "running"},
           row' = End(r, state),
           row[r].cancel => state = "cancelled" /\ plan' = plan
    PROVE  StopHolds
<1> DEFINE x == [row[r] EXCEPT !.state = state]
<1>1. row' = [row EXCEPT ![r] = x]
  BY DEF End
<1>2. RowIsPlain(row[r])
  BY DEF RowsInv
<1>3. x.state = state /\ x.cancel = row[r].cancel /\ x = [f \in RowFields |-> x[f]]
  BY <1>2 DEF RowIsPlain, RowFields
<1>4. RowIsPlain(x)
  BY <1>2, <1>3 DEF RowIsPlain
<1> HIDE DEF x
<1> QED BY <1>1, <1>3, <1>4, RowChanges DEF StopHolds

LEMMA Reports ==
    ASSUME RowsInv, NEW r \in Requests, Report(r), plan' = plan
    PROVE  StopHolds
<1>1. CASE row' = row
  BY <1>1, RowsUnchanged
<1>2. CASE row' = End(r, IF row[r].cancel THEN "cancelled" ELSE "failed")
  BY <1>2, JobEnds
<1> QED BY <1>1, <1>2 DEF Report

(* A job that was not stopped makes way for its successor.                 *)
LEMMA Continues ==
    ASSUME RowsInv, NEW r \in Requests, NEW changed, Child(r, changed), ~row[r].cancel,
           changed = [f \in RowFields |-> changed[f]], changed.cancel = row[r].cancel
    PROVE  StopHolds
<1> DEFINE x == [changed EXCEPT !.state = "queued"]
<1>1. row' = [row EXCEPT ![r] = x]
  BY DEF Child
<1>2. x = [f \in RowFields |-> x[f]] /\ x.cancel = row[r].cancel
  BY DEF RowFields
<1> HIDE DEF x
<1>3. RowIsPlain(x)
  BY <1>2 DEF RowIsPlain, RowsInv
<1> QED BY <1>1, <1>3, RowChanges DEF StopHolds

LEMMA RowsStep ==
    ASSUME RowsInv, [PlannerNext]_plannerVars
    PROVE  StopHolds
<1>0. \A r \in Requests : RowIsPlain(row[r])
  BY DEF RowsInv
<1>1. ASSUME NEW r \in Requests, RequestLook(r)
      PROVE  StopHolds
  <2>1. PICK kind \in Kinds, only \in BOOLEAN : row' = [row EXCEPT ![r] = Ask(r, only, kind)]
    BY <1>1 DEF RequestLook
  <2>2. /\ Ask(r, only, kind) = [f \in RowFields |-> Ask(r, only, kind)[f]]
        /\ Ask(r, only, kind).cancel = FALSE
    BY DEF Ask, NoJobRow, RowFields
  <2>3. RowIsPlain(Ask(r, only, kind))
    BY <2>2 DEF RowIsPlain
  <2>4. ~row[r].cancel
    BY <1>0, <1>1 DEF RequestLook, RowIsPlain
  <2> QED BY <2>1, <2>3, <2>4, RowChanges DEF StopHolds
<1>2. ASSUME NEW r \in Requests, RequestCommit(r)
      PROVE  StopHolds
  <2>1. row' = End(r, "queued") /\ ~row[r].cancel
    BY <1>0, <1>2 DEF RequestCommit, End, RowIsPlain
  <2> QED BY <2>1, JobEnds
<1>3. ASSUME NEW r \in Requests, Lease(r)
      PROVE  StopHolds
  <2>1. row' = End(r, "running") /\ ~row[r].cancel
    BY <1>0, <1>3 DEF Lease, End, RowIsPlain
  <2> QED BY <2>1, JobEnds
<1>4. ASSUME NEW r \in Requests, Expire(r)
      PROVE  StopHolds
  BY <1>4, JobEnds DEF Expire
<1>5. ASSUME NEW r \in Requests, Report(r), plan' = plan
      PROVE  StopHolds
  BY <1>5, Reports
<1>6. ASSUME NEW r \in Requests, SucceedJob(r), Finishes(r)
      PROVE  StopHolds
  BY <1>6, JobEnds DEF SucceedJob, Finishes
<1>7. ASSUME NEW r \in Requests,
             CommitArchive(r) \/ CommitContext(r) \/ ReadsMore(r) \/ Repairs(r)
      PROVE  StopHolds
  <2>1. RowIsPlain(row[r]) /\ row[r] = [f \in RowFields |-> row[r][f]]
        /\ Finishes(r) /\ ~row[r].cancel
    BY <1>0, <1>7 DEF CommitArchive, CommitContext, ReadsMore, Repairs, Turned, Finishes, RowIsPlain
  <2>2. CASE CommitArchive(r)
    <3> DEFINE changed == [row[r] EXCEPT !.kind = "context"]
    <3>1. changed = [f \in RowFields |-> changed[f]] /\ changed.cancel = row[r].cancel
      BY <2>1 DEF RowFields
    <3>2. Child(r, changed)
      BY <2>2 DEF CommitArchive
    <3> QED BY <2>1, <3>1, <3>2, Continues
  <2>3. CASE CommitContext(r)
    <3> DEFINE changed == [row[r] EXCEPT !.kind = "turn", !.basis = context']
    <3>1. changed = [f \in RowFields |-> changed[f]] /\ changed.cancel = row[r].cancel
      BY <2>1 DEF RowFields
    <3>2. SucceedJob(r) \/ Child(r, changed)
      BY <2>3 DEF CommitContext
    <3> HIDE DEF changed
    <3> QED BY <1>6, <2>1, <3>1, <3>2, Continues
  <2>4. CASE ReadsMore(r)
    <3>1. PICK kind \in {"context", "turn"} :
             Child(r, [row[r] EXCEPT !.kind = kind, !.round = @ + 1])
      BY <2>4 DEF ReadsMore
    <3> DEFINE changed == [row[r] EXCEPT !.kind = kind, !.round = @ + 1]
    <3>2. changed = [f \in RowFields |-> changed[f]] /\ changed.cancel = row[r].cancel
      BY <2>1 DEF RowFields
    <3> QED BY <2>1, <3>1, <3>2, Continues
  <2>5. CASE Repairs(r)
    <3> DEFINE changed == [row[r] EXCEPT !.repair = @ + 1]
    <3>1. changed = [f \in RowFields |-> changed[f]] /\ changed.cancel = row[r].cancel
      BY <2>1 DEF RowFields
    <3>2. Child(r, changed)
      BY <2>5 DEF Repairs
    <3> QED BY <2>1, <3>1, <3>2, Continues
  <2> QED BY <1>7, <2>2, <2>3, <2>4, <2>5
<1>8. ASSUME NEW r \in Requests, AnswerEnds(r) \/ SavesPlan(r)
      PROVE  StopHolds
  BY <1>5, <1>6, <1>8 DEF AnswerEnds, SavesPlan, Turned
<1>9. ASSUME NEW r \in Requests,
             \/ LookFails(r) \/ BeginTurn(r) \/ CommitRefused(r) \/ Break(r)
             \/ Look(r) \/ CallModel(r) \/ Answer(r) \/ Die(r)
      PROVE  StopHolds
  <2>1. row' = row \/ (Report(r) /\ plan' = plan)
    BY <1>9 DEF LookFails, BeginTurn, CommitRefused, Break, Look, CallModel, Answer, Die
  <2> QED BY <1>5, <2>1, RowsUnchanged
<1>10. CASE StopWork
  <2>1. /\ row' = [r \in Requests |-> row'[r]]
        /\ \A r \in Requests : row'[r] = IF r \notin Busy THEN row[r]
              ELSE [row[r] EXCEPT !.cancel = TRUE,
                                  !.state = IF @ = "queued" THEN "cancelled" ELSE @]
    BY <1>10 DEF StopWork
  <2>2. ASSUME NEW r \in Busy
        PROVE  /\ RowIsPlain(row'[r])
               /\ row[r].cancel => row'[r] = row[r]
    <3> DEFINE state == IF row[r].state = "queued" THEN "cancelled" ELSE row[r].state
               x == [row[r] EXCEPT !.cancel = TRUE, !.state = state]
    <3>1. r \in Requests /\ row[r].state \in {"queued", "running"}
      BY DEF Busy, ActiveRow
    <3>2. RowIsPlain(row[r]) /\ row[r] = [f \in RowFields |-> row[r][f]]
      BY <1>0, <3>1 DEF RowIsPlain
    <3>3. state \in {"cancelled", "running"} /\ (row[r].state = "running" => state = "running")
      BY <3>1
    <3>4. row'[r] = x
      BY <2>1, <3>1, <3>2 DEF RowFields
    <3> HIDE DEF state
    <3>5. x = [f \in RowFields |-> x[f]] /\ x.cancel = TRUE /\ x.state = state
      BY <3>2 DEF RowFields
    <3>6. RowIsPlain(x)
      BY <3>3, <3>5 DEF RowIsPlain
    <3>7. ASSUME row[r].cancel
          PROVE  x = row[r]
      <4>1. row[r].cancel = TRUE /\ row[r].state = "running" /\ state = row[r].state
        BY <3>1, <3>2, <3>3, <3>7 DEF RowIsPlain
      <4> QED BY <3>2, <4>1 DEF RowFields
    <3> QED BY <3>4, <3>6, <3>7
  <2>3. \A r \in Requests : RowIsPlain(row'[r]) /\ (row[r].cancel => row'[r] = row[r])
    BY <1>0, <2>1, <2>2
  <2> QED BY <2>1, <2>3 DEF StopHolds, RowsInv
<1>11. CASE SavePlan \/ ConfigureBudget \/ ChangeState \/ UNCHANGED plannerVars
  BY <1>11, RowsUnchanged DEF SavePlan, ConfigureBudget, ChangeState, plannerVars
<1> QED BY <1>1, <1>2, <1>3, <1>4, <1>7, <1>8, <1>9, <1>10, <1>11 DEF PlannerNext, Handle

(* Once the user stopped a request, no handler that had looked before      *)
(* continues it, saves its plan or reports success (stop_workflow,         *)
(* JobService.succeed).                                                    *)
THEOREM StopIsFinal == PlannerSpec => StoppedWorkEnds
<1>1. RowsInv /\ [PlannerNext]_plannerVars => RowsInv'
  BY RowsStep DEF StopHolds
<1>2. RowsInv /\ [PlannerNext]_plannerVars =>
         [\A r \in Requests : row[r].cancel /\ row'[r] # row[r] =>
             row'[r].state = "cancelled" /\ plan' = plan]_plannerVars
  BY RowsStep DEF StopHolds
<1> QED BY RowsInitial, <1>1, <1>2, PTL DEF PlannerSpec, StoppedWorkEnds

-----------------------------------------------------------------------------
(* ModelCall: the text a handler has read is a prefix of the completion it *)
(* reads, which is one that its own request began.                         *)

HandlerFields == {"pc", "try", "pending", "polls", "text", "reply"}
CallFields == {"pc", "outcome", "text"}
CompletionFields == {"call", "accepted", "made"}
Completion == [CompletionFields -> Calls \cup BOOLEAN]

Prefix(n, m) == [k \in 1..m |-> <<n, k>>]

WholeFor(cs, c, text) ==
    \E n \in 1..Len(cs) : cs[n].call = c /\ cs[n].made = TRUE /\ text = Whole(n)

Own(cs, c, n) == n \in 1..Len(cs) /\ cs[n].call = c

HandlerReads(cs, c, h) ==
    /\ h = [f \in HandlerFields |-> h[f]]
    /\ h.pc \in {"none", "arrived", "posting"} => h.text = <<>>
    /\ h.pc = "reading" =>
          Own(cs, c, h.pending) /\ \E m \in 0..Pieces : h.text = Prefix(h.pending, m)
    /\ h.pc = "polling" => Own(cs, c, h.pending)
    /\ h.pc = "replied" /\ h.reply.kind = "ok" => WholeFor(cs, c, h.reply.text)

CallReads(cs, c, x) ==
    /\ x = [f \in CallFields |-> x[f]]
    /\ x.outcome = "succeeded" => WholeFor(cs, c, x.text)

ModelInv ==
    /\ completions \in Seq(Completion)
    /\ handler = [c \in Calls |-> handler[c]]
    /\ call = [c \in Calls |-> call[c]]
    /\ \A c \in Calls :
          HandlerReads(completions, c, handler[c]) /\ CallReads(completions, c, call[c])

LEMMA Appended ==
    ASSUME NEW S, NEW s \in Seq(S), NEW e \in S, NEW t, t = Append(s, e)
    PROVE  /\ t \in Seq(S) /\ Len(t) = Len(s) + 1 /\ Len(s) \in Nat
           /\ \A i \in 1..Len(s) : t[i] = s[i]
           /\ t[Len(s) + 1] = e
BY AppendProperties

LEMMA Amended ==
    ASSUME NEW S, NEW s \in Seq(S), NEW i \in 1..Len(s), NEW e \in S, NEW t,
           t = [s EXCEPT ![i] = e]
    PROVE  /\ t \in Seq(S) /\ Len(t) = Len(s) /\ Len(s) \in Nat
           /\ \A j \in 1..Len(s) : t[j] = IF j = i THEN e ELSE s[j]
BY ExceptSeq

(* What was begun stays begun, and what was made stays made.               *)
Kept ==
    /\ completions' \in Seq(Completion)
    /\ \A n \in 1..Len(completions) :
          /\ n \in 1..Len(completions')
          /\ completions'[n].call = completions[n].call
          /\ completions[n].made = TRUE => completions'[n].made = TRUE

LEMMA Prefixes ==
    ASSUME NEW n, NEW m \in Nat
    PROVE  /\ Len(Prefix(n, m)) = m
           /\ Append(Prefix(n, m), <<n, m + 1>>) = Prefix(n, m + 1)
<1> DEFINE p == Prefix(n, m)
<1>1. p \in Seq({<<n, k>> : k \in 1..m + 1}) /\ Len(p) = m
  BY DEF Prefix
<1>2. Append(p, <<n, m + 1>>) = Prefix(n, m + 1)
  BY <1>1 DEF Prefix
<1> QED BY <1>1, <1>2

LEMMA ModelInitial == CallsInit => ModelInv
<1> SUFFICES ASSUME CallsInit
             PROVE  ModelInv
  OBVIOUS
<1>1. /\ completions = <<>> /\ handler = [c \in Calls |-> Handler("none", Refused(TRUE))]
      /\ call = [c \in Calls |-> [pc |-> "none", outcome |-> "none", text |-> <<>>]]
  BY DEF CallsInit
<1>2. \A c \in Calls : HandlerReads(completions, c, handler[c])
  BY <1>1 DEF HandlerReads, Handler, HandlerFields
<1>3. \A c \in Calls : CallReads(completions, c, call[c])
  BY <1>1 DEF CallReads, CallFields
<1>4. completions \in Seq(Completion)
  BY <1>1
<1>5. handler = [c \in Calls |-> handler[c]] /\ call = [c \in Calls |-> call[c]]
  BY <1>1
<1> QED BY <1>2, <1>3, <1>4, <1>5 DEF ModelInv

LEMMA KeptReads ==
    ASSUME Kept, NEW c
    PROVE  /\ \A h : HandlerReads(completions, c, h) => HandlerReads(completions', c, h)
           /\ \A x : CallReads(completions, c, x) => CallReads(completions', c, x)
<1>1. \A text : WholeFor(completions, c, text) => WholeFor(completions', c, text)
  BY DEF Kept, WholeFor
<1>2. \A n : Own(completions, c, n) => Own(completions', c, n)
  BY DEF Kept, Own
<1> QED BY <1>1, <1>2 DEF HandlerReads, CallReads

(* One handler moves, one call moves, or both.                             *)
LEMMA ModelMoves ==
    ASSUME ModelInv, Kept, NEW c \in Calls, NEW h, NEW x,
           handler' = handler \/ handler' = [handler EXCEPT ![c] = h],
           call' = call \/ call' = [call EXCEPT ![c] = x],
           handler' = handler \/ HandlerReads(completions', c, h),
           call' = call \/ CallReads(completions', c, x)
    PROVE  ModelInv'
<1>1. completions' \in Seq(Completion)
  BY DEF Kept
<1>2. handler' = [d \in Calls |-> handler'[d]] /\ call' = [d \in Calls |-> call'[d]]
  BY DEF ModelInv
<1>3. ASSUME NEW d \in Calls
      PROVE  HandlerReads(completions', d, handler'[d]) /\ CallReads(completions', d, call'[d])
  <2>1. HandlerReads(completions', d, handler[d]) /\ CallReads(completions', d, call[d])
    BY KeptReads DEF ModelInv
  <2>2. /\ handler'[d] = handler[d] \/ (d = c /\ handler'[d] = h /\ handler' # handler)
        /\ call'[d] = call[d] \/ (d = c /\ call'[d] = x /\ call' # call)
    BY DEF ModelInv
  <2> QED BY <2>1, <2>2
<1> QED BY <1>1, <1>2, <1>3 DEF ModelInv

LEMMA NothingBegun ==
    ASSUME ModelInv, completions' = completions
    PROVE  Kept
BY DEF ModelInv, Kept

(* A handler that refuses, or tries again, reads nothing.                  *)
LEMMA RefusesReads ==
    ASSUME NEW cs, NEW c, NEW pc \in {"replied", "gone"}, NEW again
    PROVE  HandlerReads(cs, c, Handler(pc, Refused(again)))
BY DEF HandlerReads, Handler, Refused, HandlerFields

LEMMA TryAgainReads ==
    ASSUME ModelInv, Kept, NEW c \in Calls, TryAgain(c), call' = call
    PROVE  ModelInv'
<1>1. CASE Replies(c, Refused(TRUE))
  <2>1. HandlerReads(completions', c, Handler("replied", Refused(TRUE)))
    BY RefusesReads
  <2> QED BY <1>1, <2>1, ModelMoves DEF Replies
<1>2. CASE handler' = [handler EXCEPT ![c].pc = "posting", ![c].try = @ + 1, ![c].text = <<>>,
                                      ![c].pending = 0, ![c].polls = 0]
  <2> DEFINE h == [handler[c] EXCEPT !.pc = "posting", !.try = @ + 1, !.text = <<>>,
                                     !.pending = 0, !.polls = 0]
  <2>1. handler[c] = [f \in HandlerFields |-> handler[c][f]]
    BY DEF ModelInv, HandlerReads
  <2>2. handler' = [handler EXCEPT ![c] = h]
    BY <1>2, <2>1 DEF ModelInv, HandlerFields
  <2>3. HandlerReads(completions', c, h)
    BY <2>1 DEF HandlerReads, HandlerFields
  <2> HIDE DEF h
  <2> QED BY <2>2, <2>3, ModelMoves
<1> QED BY <1>1, <1>2 DEF TryAgain

LEMMA RefuseReads ==
    ASSUME ModelInv, Kept, NEW c \in Calls, NEW again, Replies(c, Refused(again)), call' = call
    PROVE  ModelInv'
<1>1. HandlerReads(completions', c, Handler("replied", Refused(again)))
  BY RefusesReads
<1> QED BY <1>1, ModelMoves DEF Replies

LEMMA ThreeFields ==
    ASSUME NEW S, NEW c \in S, NEW a \in S, NEW b \in S
    PROVE  [call |-> c, accepted |-> a, made |-> b] \in [CompletionFields -> S]
BY DEF CompletionFields

(* A post begins one completion more, the request's own.                   *)
LEMMA Begins ==
    ASSUME ModelInv, NEW c \in Calls, NEW accepted \in BOOLEAN, Begin(c, accepted)
    PROVE  /\ Kept
           /\ Own(completions', c, Len(completions) + 1)
<1>1. \E new \in Completion : new.call = c /\ completions' = Append(completions, new)
  <2> DEFINE new == [call |-> c, accepted |-> accepted, made |-> FALSE]
  <2>1. new \in Completion /\ new.call = c
    <3>1. /\ c \in Calls \cup BOOLEAN /\ accepted \in Calls \cup BOOLEAN
          /\ FALSE \in Calls \cup BOOLEAN
      OBVIOUS
    <3> QED BY <3>1, ThreeFields DEF Completion
  <2>2. completions' = Append(completions, new)
    BY DEF Begin
  <2> QED BY <2>1, <2>2
<1>2. PICK new \in Completion : new.call = c /\ completions' = Append(completions, new)
  BY <1>1
<1>3. /\ completions' \in Seq(Completion) /\ Len(completions') = Len(completions) + 1
      /\ Len(completions) \in Nat
      /\ \A n \in 1..Len(completions) : completions'[n] = completions[n]
      /\ completions'[Len(completions) + 1] = new
  BY <1>2, Appended DEF ModelInv
<1> QED BY <1>2, <1>3 DEF Kept, Own

LEMMA PostStep ==
    ASSUME ModelInv, NEW c \in Calls, Post(c)
    PROVE  ModelInv'
<1> DEFINE n == Len(completions) + 1
<1>1. call' = call
  BY DEF Post
<1>2. handler[c] = [f \in HandlerFields |-> handler[c][f]] /\ handler[c].pc = "posting"
      /\ handler[c].text = <<>>
  BY DEF ModelInv, HandlerReads, Post
<1>3. ASSUME NEW accepted \in BOOLEAN, NEW pc \in {"reading", "polling"}, Begin(c, accepted),
             handler' = [handler EXCEPT ![c].pc = pc, ![c].pending = n]
      PROVE  ModelInv'
  <2> DEFINE h == [handler[c] EXCEPT !.pc = pc, !.pending = n]
  <2>1. Kept /\ Own(completions', c, n)
    BY <1>3, Begins
  <2>2. handler' = [handler EXCEPT ![c] = h]
    BY <1>2, <1>3 DEF ModelInv, HandlerFields
  <2>3. /\ h = [f \in HandlerFields |-> h[f]] /\ h.pc = pc /\ h.text = <<>> /\ h.pending = n
    BY <1>2 DEF HandlerFields
  <2>4. Prefix(n, 0) = <<>> /\ 0 \in 0..Pieces
    BY ModelCallAssumption DEF Prefix
  <2> HIDE DEF h, n
  <2>5. HandlerReads(completions', c, h)
    BY <2>1, <2>3, <2>4 DEF HandlerReads
  <2> QED BY <1>1, <2>1, <2>2, <2>5, ModelMoves
<1>4. CASE Begin(c, FALSE) /\ TryAgain(c)
  BY <1>1, <1>4, Begins, TryAgainReads
<1>5. CASE UNCHANGED completions /\ TryAgain(c)
  BY <1>1, <1>5, NothingBegun, TryAgainReads
<1>6. CASE UNCHANGED completions /\ Replies(c, Refused(FALSE))
  BY <1>1, <1>6, NothingBegun, RefuseReads
<1> QED BY <1>3, <1>4, <1>5, <1>6 DEF Post

(* A completion is made: by the end of its body, or when it was pending.   *)
Make(n) == completions' = [completions EXCEPT ![n].made = TRUE]

LEMMA Makes ==
    ASSUME ModelInv, NEW n \in 1..Len(completions), Make(n)
    PROVE  Kept /\ completions'[n].made = TRUE /\ Len(completions') = Len(completions)
<1>1. completions \in Seq(Completion) /\ completions[n] \in Completion
  BY DEF ModelInv
<1>2. \E new \in Completion : /\ new.call = completions[n].call /\ new.made = TRUE
                              /\ completions' = [completions EXCEPT ![n] = new]
  <2> DEFINE new == [completions[n] EXCEPT !.made = TRUE]
  <2>1. new \in Completion /\ new.call = completions[n].call /\ new.made = TRUE
    BY <1>1 DEF Completion, CompletionFields
  <2>2. completions' = [completions EXCEPT ![n] = new]
    BY <1>1 DEF Make
  <2> QED BY <2>1, <2>2
<1>3. PICK new \in Completion : /\ new.call = completions[n].call /\ new.made = TRUE
                                /\ completions' = [completions EXCEPT ![n] = new]
  BY <1>2
<1>4. /\ completions' \in Seq(Completion) /\ Len(completions') = Len(completions)
      /\ Len(completions) \in Nat
      /\ \A m \in 1..Len(completions) :
            completions'[m] = IF m = n THEN new ELSE completions[m]
  BY <1>1, <1>3, Amended
<1> QED BY <1>3, <1>4 DEF Kept

LEMMA AnswersRead ==
    ASSUME NEW cs, NEW c, NEW text, WholeFor(cs, c, text)
    PROVE  HandlerReads(cs, c, Handler("replied", Answered(text)))
BY DEF HandlerReads, Handler, Answered, HandlerFields

LEMMA ReadStep ==
    ASSUME ModelInv, NEW c \in Calls, Read(c)
    PROVE  ModelInv'
<1> DEFINE n == handler[c].pending
           text == handler[c].text
<1>1. /\ handler[c] = [f \in HandlerFields |-> handler[c][f]] /\ handler[c].pc = "reading"
      /\ Own(completions, c, n) /\ \E m \in 0..Pieces : text = Prefix(n, m)
      /\ call' = call
  BY DEF ModelInv, HandlerReads, Read
<1>2. PICK m \in 0..Pieces : text = Prefix(n, m)
  BY <1>1
<1>3. m \in Nat /\ Pieces \in Nat /\ Len(text) = m
  BY <1>2, ModelCallAssumption, Prefixes
<1>4. CASE route = "stream" /\ Len(text) < Pieces
  <2> DEFINE h == [handler[c] EXCEPT !.text = Append(@, <<n, Len(@) + 1>>)]
  <2>1. UNCHANGED completions /\ handler' = [handler EXCEPT ![c] = h]
    BY <1>1, <1>4 DEF Read
  <2>2. /\ h = [f \in HandlerFields |-> h[f]] /\ h.pc = "reading" /\ h.pending = n
        /\ h.text = Append(text, <<n, Len(text) + 1>>)
    BY <1>1 DEF HandlerFields
  <2>3. h.text = Prefix(n, m + 1) /\ m + 1 \in 0..Pieces
    BY <1>2, <1>3, <1>4, <2>2, Prefixes
  <2> HIDE DEF h, n, text
  <2>4. HandlerReads(completions', c, h)
    BY <1>1, <2>1, <2>2, <2>3 DEF HandlerReads
  <2> QED BY <1>1, <2>1, <2>4, NothingBegun, ModelMoves
<1>5. CASE ~(route = "stream" /\ Len(text) < Pieces)
  <2> DEFINE answer == IF route = "stream" THEN text ELSE Whole(n)
  <2>1. /\ Replies(c, Answered(answer))
        /\ Make(n)
    BY <1>1, <1>5 DEF Read, Make
  <2>2. Kept /\ completions'[n].made = TRUE /\ Len(completions') = Len(completions)
    BY <1>1, <2>1, Makes DEF Own
  <2>3. answer = Whole(n)
    <3>1. CASE route = "stream"
      <4>1. m = Pieces
        BY <1>2, <1>3, <1>5, <3>1
      <4> QED BY <1>2, <3>1, <4>1 DEF Whole, Prefix
    <3> QED BY <3>1
  <2>4. WholeFor(completions', c, answer)
    BY <1>1, <2>2, <2>3 DEF WholeFor, Own, Kept
  <2> HIDE DEF answer
  <2> QED BY <1>1, <2>1, <2>2, <2>4, AnswersRead, ModelMoves DEF Replies
<1> QED BY <1>4, <1>5

LEMMA PollStep ==
    ASSUME ModelInv, NEW c \in Calls, Poll(c)
    PROVE  ModelInv'
<1> DEFINE n == handler[c].pending
<1>1. /\ handler[c] = [f \in HandlerFields |-> handler[c][f]] /\ handler[c].pc = "polling"
      /\ Own(completions, c, n) /\ call' = call /\ completions' = completions
  BY DEF ModelInv, HandlerReads, Poll
<1>2. Kept
  BY <1>1, NothingBegun
<1>3. CASE completions[n].made /\ Replies(c, Answered(Whole(n)))
  <2>1. completions[n].made = TRUE
    <3>1. completions[n] \in Completion
      BY <1>1 DEF ModelInv, Own
    <3>2. completions[n].made \in Calls \cup BOOLEAN /\ completions[n].made
      BY <1>3, <3>1 DEF Completion, CompletionFields
    <3> QED BY <3>2
  <2>2. WholeFor(completions', c, Whole(n))
    BY <1>1, <2>1 DEF WholeFor, Own
  <2> QED BY <1>1, <1>2, <1>3, <2>2, AnswersRead, ModelMoves DEF Replies
<1>4. CASE handler' = [handler EXCEPT ![c].polls = @ + 1]
  <2> DEFINE h == [handler[c] EXCEPT !.polls = @ + 1]
  <2>1. handler' = [handler EXCEPT ![c] = h]
    BY <1>4
  <2>2. /\ h = [f \in HandlerFields |-> h[f]] /\ h.pc = "polling" /\ h.pending = n
    BY <1>1 DEF HandlerFields
  <2> HIDE DEF h
  <2>3. HandlerReads(completions', c, h)
    BY <1>1, <2>2 DEF HandlerReads
  <2> QED BY <1>1, <1>2, <2>1, <2>3, ModelMoves
<1> QED BY <1>3, <1>4 DEF Poll

(* The worker's side: a call ends, or its worker is lost.                  *)
LEMMA CallEndReads ==
    ASSUME ModelInv, completions' = completions, NEW c \in Calls,
           NEW outcome, NEW text, CallEnds(c, outcome, text),
           outcome = "succeeded" => WholeFor(completions, c, text),
           handler' = handler
             \/ handler' = [handler EXCEPT ![c] = Handler("gone", Refused(TRUE))]
    PROVE  ModelInv'
<1> DEFINE x == [pc |-> "ended", outcome |-> outcome, text |-> text]
<1>1. Kept
  BY NothingBegun
<1>2. call' = [call EXCEPT ![c] = x]
  BY DEF CallEnds
<1>3. x = [f \in CallFields |-> x[f]] /\ x.outcome = outcome /\ x.text = text
  BY DEF CallFields
<1> HIDE DEF x
<1>4. CallReads(completions', c, x)
  BY <1>3 DEF CallReads
<1>5. HandlerReads(completions', c, Handler("gone", Refused(TRUE)))
  BY RefusesReads
<1> QED BY <1>1, <1>2, <1>4, <1>5, ModelMoves

LEMMA WorkerSteps ==
    ASSUME ModelInv, NEW c \in Calls, WorkerStep(c)
    PROVE  ModelInv'
<1>1. /\ HandlerReads(completions, c, handler[c]) /\ CallReads(completions, c, call[c])
      /\ completions' = completions
  BY DEF ModelInv, WorkerStep, Receive, GiveUpWaiting, LoseWorker, Unanswered
<1>2. CASE Receive(c)
  <2>1. /\ handler' = [handler EXCEPT ![c] = Handler("gone", Refused(TRUE))]
        /\ handler[c].pc = "replied"
    BY <1>2 DEF Receive
  <2>2. CASE handler[c].reply.kind = "ok" /\ CallEnds(c, "succeeded", handler[c].reply.text)
    <3>1. WholeFor(completions, c, handler[c].reply.text)
      BY <1>1, <2>1, <2>2 DEF HandlerReads
    <3> QED BY <1>1, <2>1, <2>2, <3>1, CallEndReads
  <2>3. CASE \/ CallEnds(c, "malformed", <<>>)
             \/ CallEnds(c, IF handler[c].reply.retryable THEN "retryable" ELSE "failed", <<>>)
    <3>1. PICK outcome \in {"malformed", "retryable", "failed"} : CallEnds(c, outcome, <<>>)
      BY <2>3
    <3> QED BY <1>1, <2>1, <3>1, CallEndReads
  <2> QED BY <1>2, <2>2, <2>3 DEF Receive
<1>3. CASE GiveUpWaiting(c) \/ Unanswered(c)
  <2>1. CallEnds(c, "retryable", <<>>) /\ handler' = handler
    BY <1>3 DEF GiveUpWaiting, Unanswered
  <2> QED BY <1>1, <2>1, CallEndReads
<1>4. CASE LoseWorker(c)
  <2> DEFINE x == [call[c] EXCEPT !.pc = "lost"]
  <2>1. call' = [call EXCEPT ![c] = x] /\ handler' = handler
    BY <1>4 DEF LoseWorker
  <2>2. CallReads(completions', c, x)
    BY <1>1 DEF CallReads, CallFields
  <2> HIDE DEF x
  <2> QED BY <1>1, <2>1, <2>2, NothingBegun, ModelMoves
<1> QED BY <1>2, <1>3, <1>4 DEF WorkerStep

LEMMA IssueStep ==
    ASSUME ModelInv, NEW c \in Calls, Issue(c)
    PROVE  ModelInv'
<1> DEFINE h == Handler("arrived", Refused(TRUE))
           x == [call[c] EXCEPT !.pc = "posted"]
<1>1. /\ HandlerReads(completions, c, handler[c]) /\ CallReads(completions, c, call[c])
      /\ completions' = completions
  BY DEF ModelInv, Issue
<1>2. handler' = [handler EXCEPT ![c] = h] /\ call' = [call EXCEPT ![c] = x]
  BY DEF Issue
<1>3. CallReads(completions', c, x)
  BY <1>1 DEF CallReads, CallFields
<1>4. HandlerReads(completions', c, h)
  BY DEF HandlerReads, Handler, HandlerFields
<1> HIDE DEF h, x
<1> QED BY <1>1, <1>2, <1>3, <1>4, NothingBegun, ModelMoves

LEMMA AuthorizeStep ==
    ASSUME ModelInv, NEW c \in Calls, Authorize(c)
    PROVE  ModelInv'
<1> DEFINE h == [handler[c] EXCEPT !.pc = "posting"]
<1>1. /\ HandlerReads(completions, c, handler[c]) /\ handler[c].pc = "arrived"
      /\ completions' = completions /\ call' = call
  BY DEF ModelInv, Authorize
<1>2. Kept
  BY <1>1, NothingBegun
<1>3. HandlerReads(completions', c, h)
  BY <1>1 DEF HandlerReads, HandlerFields
<1>4. handler' = [handler EXCEPT ![c] = h] \/ Replies(c, Refused(FALSE))
  BY DEF Authorize
<1> HIDE DEF h
<1> QED BY <1>1, <1>2, <1>3, <1>4, ModelMoves, RefuseReads

LEMMA FailsStep ==
    ASSUME ModelInv, NEW c \in Calls, ReadFails(c) \/ PollFails(c)
    PROVE  ModelInv'
<1>1. completions' = completions /\ call' = call
  BY DEF ReadFails, PollFails
<1>2. TryAgain(c) \/ Replies(c, Refused(TRUE))
  BY DEF ReadFails, PollFails
<1> QED BY <1>1, <1>2, NothingBegun, TryAgainReads, RefuseReads

LEMMA GatewayCrashStep ==
    ASSUME ModelInv, GatewayCrash
    PROVE  ModelInv'
<1>1. /\ completions' = completions /\ call' = call
      /\ handler' = [c \in Calls |-> IF handler[c].pc = "none" THEN handler[c]
                                     ELSE Handler("gone", Refused(TRUE))]
  BY DEF GatewayCrash
<1>2. \A c \in Calls : HandlerReads(completions', c, Handler("gone", Refused(TRUE)))
  BY RefusesReads
<1>3. handler' = [c \in Calls |-> handler'[c]]
  BY <1>1
<1>4. \A c \in Calls : HandlerReads(completions', c, handler'[c])
  BY <1>1, <1>2 DEF ModelInv
<1> QED BY <1>1, <1>3, <1>4 DEF ModelInv

LEMMA ProduceStep ==
    ASSUME ModelInv, Produce
    PROVE  ModelInv'
<1>1. PICK n \in 1..Len(completions) : Make(n)
  BY DEF Produce, Make
<1>2. handler' = handler /\ call' = call
  BY DEF Produce
<1>3. Kept
  BY <1>1, Makes
<1>4. ASSUME NEW c \in Calls
      PROVE  HandlerReads(completions', c, handler'[c]) /\ CallReads(completions', c, call'[c])
  BY <1>2, <1>3, KeptReads DEF ModelInv
<1>5. completions' \in Seq(Completion)
  BY <1>3 DEF Kept
<1> QED BY <1>2, <1>4, <1>5 DEF ModelInv

LEMMA ModelStep == ModelInv /\ [CallsNext]_callVars => ModelInv'
<1> SUFFICES ASSUME ModelInv, [CallsNext]_callVars
             PROVE  ModelInv'
  OBVIOUS
<1>1. ASSUME NEW c \in Calls, Issue(c) \/ WorkerStep(c) \/ GatewayStep(c)
      PROVE  ModelInv'
  BY <1>1, IssueStep, WorkerSteps, AuthorizeStep, PostStep, ReadStep, FailsStep, PollStep
     DEF GatewayStep
<1>2. CASE UNCHANGED callVars
  BY <1>2 DEF callVars, ModelInv
<1> QED BY <1>1, <1>2, GatewayCrashStep, ProduceStep DEF CallsNext

(* Whatever is tried again, polled, lost or answered late, on either       *)
(* route, an answer the worker accepts is one completion and the whole of  *)
(* it (_stream_response_mapping, _poll, complete).                         *)
THEOREM AnswersAreWhole == CallsSpec => []AnswerIsWhole
<1>1. ModelInv => AnswerIsWhole
  BY DEF ModelInv, CallReads, WholeFor, AnswerIsWhole
<1> QED BY ModelInitial, ModelStep, <1>1, PTL DEF CallsSpec

-----------------------------------------------------------------------------
(* SandboxRun: what holds of one run, whatever the others do.  Its state,  *)
(* its process, its volume and tree, the containers of its that are up,    *)
(* and the faults of Docker so far are parameters.                         *)

RunFields == {"stage", "state", "cancel", "workspace"}
ProcessFields == {"at", "caught", "left", "hits"}
HitBy == {"heartbeat", "timeout"}

(* A container is awaited, or there is a reason that it is not.            *)
Excused(k, p, faults) ==
    \/ p.at = k
    \/ p.at = "remove" /\ p.left = k
    \/ k = "chmod" /\ p.hits # {}
    \/ faults > 0
    \/ p.at = "dead"
    \/ p.hits = HitBy

(* The workspace of an Implement before its change set is applied and      *)
(* accepted, and from then on.                                             *)
Accepted(r, s, phase, v, t, up) ==
    phase = "done" /\ up = {} /\ v = "made" /\ t = "changed" /\ s.workspace = r

ImplementRuns(r, s, phase, v, t, up) ==
    /\ phase \notin {"look", "inspect", "verify"}
    /\ phase \in {"rest", "volume", "begin", "load", "patch", "settle"} => up = {}
    /\ phase \in {"chmod", "materialize", "apply"} => up \subseteq {phase}
    /\ phase \in {"chmod", "begin", "load", "materialize", "patch", "apply", "settle"}
          => v = "made"
    /\ phase = "settle" => t = "changed"
    /\ s.state = "running" => s.workspace = r
    /\ s.state = "succeeded" => Accepted(r, s, phase, v, t, up)

RunHolds(r, s, p, v, t, up, faults) ==
    /\ s = [f \in RunFields |-> s[f]]
    /\ p = [f \in ProcessFields |-> p[f]]
    /\ p.hits \subseteq HitBy
    /\ s.state \in {"none", "queued"} => p.at = "rest"
    /\ p.at = "rest" => up = {}
    /\ p.at = "remove" => faults > 0 \/ p.hits # {}
    /\ \A k \in up : Excused(k, p, faults)
    /\ s.stage = "implement" => ImplementRuns(r, s, p.at, v, t, up)

UpOf(bs, r) == {k \in Containers : Box(r, k) \in bs}

SandboxTables ==
    /\ stageRun = [r \in StageRuns |-> stageRun[r]]
    /\ process = [r \in StageRuns |-> process[r]]
    /\ volume = [r \in StageRuns |-> volume[r]]
    /\ tree = [r \in StageRuns |-> tree[r]]
    /\ \A b \in boxes : \E r \in StageRuns, k \in Containers : b = Box(r, k)
    /\ spent = [f \in {"faults", "losses", "cancels"} |-> spent[f]]
    /\ spent.faults \in Nat

SandboxInv ==
    /\ SandboxTables
    /\ \E n \in 0..MaxStageRuns : Used = 1..n
    /\ \A r \in StageRuns :
          RunHolds(r, stageRun[r], process[r], volume[r], tree[r], UpOf(boxes, r), spent.faults)

LEMMA BoxesDiffer ==
    ASSUME NEW q, NEW r, NEW j, NEW k, Box(q, j) = Box(r, k)
    PROVE  q = r /\ j = k
BY DEF Box

LEMMA SandboxInitial == SandboxInit => SandboxInv
<1> SUFFICES ASSUME SandboxInit
             PROVE  SandboxInv
  OBVIOUS
<1>1. SandboxTables
  BY DEF SandboxInit, SandboxTables
<1>2. Used = 1..0 /\ 0 \in 0..MaxStageRuns
  BY SandboxAssumption DEF SandboxInit, Used, NoStageRun
<1>3. ASSUME NEW r \in StageRuns
      PROVE  RunHolds(r, stageRun[r], process[r], volume[r], tree[r], UpOf(boxes, r),
                      spent.faults)
  <2>1. stageRun[r] = NoStageRun /\ process[r] = Nobody /\ UpOf(boxes, r) = {}
    BY DEF SandboxInit, UpOf
  <2>2. /\ NoStageRun = [f \in RunFields |-> NoStageRun[f]]
        /\ NoStageRun.stage = "explore" /\ NoStageRun.state = "none"
    BY DEF NoStageRun, RunFields
  <2>3. /\ Nobody = [f \in ProcessFields |-> Nobody[f]]
        /\ Nobody.at = "rest" /\ Nobody.hits = {}
    BY DEF Nobody, ProcessFields
  <2> QED BY <2>1, <2>2, <2>3 DEF RunHolds, HitBy
<1> QED BY <1>1, <1>2, <1>3 DEF SandboxInv

(* More faults excuse no less.                                             *)
LEMMA FaultsExcuse ==
    ASSUME NEW r, NEW s, NEW p, NEW v, NEW t, NEW up, NEW f \in Nat, NEW g \in Nat, f =< g,
           RunHolds(r, s, p, v, t, up, f)
    PROVE  RunHolds(r, s, p, v, t, up, g)
<1>1. f > 0 => g > 0
  OBVIOUS
<1>2. \A k : Excused(k, p, f) => Excused(k, p, g)
  BY <1>1 DEF Excused
<1> QED BY <1>1, <1>2 DEF RunHolds

(* A step of run r leaves the other runs alone.                            *)
OnlyRun(r) ==
    /\ stageRun' = [q \in StageRuns |-> stageRun'[q]]
    /\ process' = [q \in StageRuns |-> process'[q]]
    /\ volume' = [q \in StageRuns |-> volume'[q]]
    /\ tree' = [q \in StageRuns |-> tree'[q]]
    /\ \A q \in StageRuns : q # r =>
          /\ stageRun'[q] = stageRun[q] /\ process'[q] = process[q]
          /\ volume'[q] = volume[q] /\ tree'[q] = tree[q]

(* What it may do to the containers, and to the faults.                    *)
OnlyBoxes(r) ==
    \A b : b \in boxes' => b \in boxes \/ \E k \in Containers : b = Box(r, k)
OtherBoxes(r) ==
    \A b : b \in boxes => b \in boxes' \/ \E k \in Containers : b = Box(r, k)
Spends ==
    /\ spent' = [f \in {"faults", "losses", "cancels"} |-> spent'[f]]
    /\ spent'.faults \in Nat /\ spent.faults =< spent'.faults

LEMMA SandboxFrame ==
    ASSUME SandboxInv, NEW r \in StageRuns, OnlyRun(r), OnlyBoxes(r), OtherBoxes(r), Spends,
           stageRun[r].state = "none" <=> stageRun'[r].state = "none",
           RunHolds(r, stageRun'[r], process'[r], volume'[r], tree'[r], UpOf(boxes', r),
                    spent'.faults)
    PROVE  SandboxInv'
<1>1. SandboxTables'
  BY DEF SandboxInv, SandboxTables, OnlyRun, OnlyBoxes, Spends
<1>2. Used' = Used
  BY DEF Used, OnlyRun
<1>3. ASSUME NEW q \in StageRuns, q # r
      PROVE  RunHolds(q, stageRun'[q], process'[q], volume'[q], tree'[q], UpOf(boxes', q),
                      spent'.faults)
  <2>1. UpOf(boxes', q) = UpOf(boxes, q)
    BY <1>3, BoxesDiffer DEF UpOf, OnlyBoxes, OtherBoxes
  <2>2. RunHolds(q, stageRun[q], process[q], volume[q], tree[q], UpOf(boxes, q), spent.faults)
    BY DEF SandboxInv
  <2>3. spent.faults \in Nat /\ spent'.faults \in Nat /\ spent.faults =< spent'.faults
    BY DEF SandboxInv, SandboxTables, Spends
  <2>4. RunHolds(q, stageRun[q], process[q], volume[q], tree[q], UpOf(boxes, q), spent'.faults)
    BY <2>2, <2>3, FaultsExcuse
  <2> QED BY <1>3, <2>1, <2>4 DEF OnlyRun
<1>4. \A q \in StageRuns :
         RunHolds(q, stageRun'[q], process'[q], volume'[q], tree'[q], UpOf(boxes', q),
                  spent'.faults)
  BY <1>3
<1> QED BY <1>1, <1>2, <1>4 DEF SandboxInv

(* The parts of a step: what is not changed, and what changes for r only.  *)
LEMMA NothingSpent ==
    ASSUME SandboxInv, spent' = spent
    PROVE  Spends
BY DEF SandboxInv, SandboxTables, Spends

LEMMA FaultSpent ==
    ASSUME SandboxInv, Fault
    PROVE  Spends /\ spent'.faults > 0
BY DEF SandboxInv, SandboxTables, Spends, Fault

LEMMA BoxesUnchanged ==
    ASSUME SandboxInv, NEW r \in StageRuns, boxes' = boxes
    PROVE  OnlyBoxes(r) /\ OtherBoxes(r) /\ UpOf(boxes', r) = UpOf(boxes, r)
BY DEF OnlyBoxes, OtherBoxes

LEMMA BoxUp ==
    ASSUME SandboxInv, NEW r \in StageRuns, NEW k \in Containers, boxes' = boxes \cup {Box(r, k)}
    PROVE  OnlyBoxes(r) /\ OtherBoxes(r) /\ UpOf(boxes', r) = UpOf(boxes, r) \cup {k}
<1>1. OnlyBoxes(r) /\ OtherBoxes(r)
  BY DEF OnlyBoxes, OtherBoxes
<1>2. \A j \in Containers : j \in UpOf(boxes', r) <=> j \in UpOf(boxes, r) \/ j = k
  BY BoxesDiffer DEF UpOf
<1> QED BY <1>1, <1>2 DEF UpOf

LEMMA BoxDown ==
    ASSUME SandboxInv, NEW r \in StageRuns, NEW k, boxes' = boxes \ {Box(r, k)}
    PROVE  OnlyBoxes(r) /\ OtherBoxes(r) /\ UpOf(boxes', r) = UpOf(boxes, r) \ {k}
<1>1. ASSUME NEW b \in boxes, b \notin boxes'
      PROVE  \E j \in Containers : b = Box(r, j)
  <2>1. b = Box(r, k)
    BY <1>1
  <2>2. PICK q \in StageRuns, j \in Containers : b = Box(q, j)
    BY DEF SandboxInv, SandboxTables
  <2> QED BY <2>1, <2>2, BoxesDiffer
<1>2. OnlyBoxes(r) /\ OtherBoxes(r)
  BY <1>1 DEF OnlyBoxes, OtherBoxes
<1>3. \A j \in Containers : j \in UpOf(boxes', r) <=> j \in UpOf(boxes, r) /\ j # k
  BY BoxesDiffer DEF UpOf
<1> QED BY <1>2, <1>3 DEF UpOf

(* What a step makes of the row of run r, of its process, its volume and   *)
(* its tree.                                                               *)
RowTo(r, s) ==
    /\ stageRun' = [q \in StageRuns |-> stageRun'[q]]
    /\ \A q \in StageRuns : q # r => stageRun'[q] = stageRun[q]
    /\ stageRun'[r] = s /\ s = [f \in RunFields |-> s[f]]
ProcessTo(r, phase, left, hits) ==
    /\ process' = [q \in StageRuns |-> process'[q]]
    /\ \A q \in StageRuns : q # r => process'[q] = process[q]
    /\ process'[r] = [f \in ProcessFields |-> process'[r][f]]
    /\ process'[r].at = phase /\ process'[r].left = left /\ process'[r].hits = hits
VolumeTo(r, v) ==
    /\ volume' = [q \in StageRuns |-> volume'[q]] /\ volume'[r] = v
    /\ \A q \in StageRuns : q # r => volume'[q] = volume[q]
TreeTo(r, t) ==
    /\ tree' = [q \in StageRuns |-> tree'[q]] /\ tree'[r] = t
    /\ \A q \in StageRuns : q # r => tree'[q] = tree[q]
BoxesTo(r, up) ==
    OnlyBoxes(r) /\ OtherBoxes(r) /\ UpOf(boxes', r) = up

LEMMA RowKept ==
    ASSUME SandboxInv, NEW r \in StageRuns, stageRun' = stageRun
    PROVE  RowTo(r, stageRun[r])
BY DEF SandboxInv, SandboxTables, RunHolds, RowTo

LEMMA ProcessKept ==
    ASSUME SandboxInv, NEW r \in StageRuns, process' = process
    PROVE  ProcessTo(r, process[r].at, process[r].left, process[r].hits)
BY DEF SandboxInv, SandboxTables, RunHolds, ProcessTo

LEMMA VolumeKept ==
    ASSUME SandboxInv, NEW r \in StageRuns, volume' = volume
    PROVE  VolumeTo(r, volume[r])
BY DEF SandboxInv, SandboxTables, VolumeTo

LEMMA VolumeSet ==
    ASSUME SandboxInv, NEW r \in StageRuns, NEW v, volume' = [volume EXCEPT ![r] = v]
    PROVE  VolumeTo(r, v)
BY DEF SandboxInv, SandboxTables, VolumeTo

LEMMA TreeKept ==
    ASSUME SandboxInv, NEW r \in StageRuns, tree' = tree
    PROVE  TreeTo(r, tree[r])
BY DEF SandboxInv, SandboxTables, TreeTo

LEMMA TreeSet ==
    ASSUME SandboxInv, NEW r \in StageRuns, NEW t, tree' = [tree EXCEPT ![r] = t]
    PROVE  TreeTo(r, t)
BY DEF SandboxInv, SandboxTables, TreeTo

LEMMA BoxesKept ==
    ASSUME SandboxInv, NEW r \in StageRuns, boxes' = boxes
    PROVE  BoxesTo(r, UpOf(boxes, r))
BY BoxesUnchanged DEF BoxesTo

LEMMA GoesTo ==
    ASSUME SandboxInv, NEW r \in StageRuns, NEW phase, Goes(r, phase)
    PROVE  ProcessTo(r, phase, process[r].left, process[r].hits)
<1>1. SandboxTables /\ process[r] = [f \in ProcessFields |-> process[r][f]]
  BY DEF SandboxInv, RunHolds
<1>2. process' = [process EXCEPT ![r].at = phase]
  BY DEF Goes
<1> QED BY <1>1, <1>2 DEF ProcessTo, ProcessFields, SandboxTables

LEMMA ThrowsTo ==
    ASSUME SandboxInv, NEW r \in StageRuns, NEW what, NEW phase, Throws(r, what, phase)
    PROVE  ProcessTo(r, phase, process[r].left, process[r].hits)
<1>1. SandboxTables /\ process[r] = [f \in ProcessFields |-> process[r][f]]
  BY DEF SandboxInv, RunHolds
<1>2. process' = [process EXCEPT ![r].at = phase, ![r].caught = what]
  BY DEF Throws
<1> QED BY <1>1, <1>2 DEF ProcessTo, ProcessFields, SandboxTables

(* Why a container that is up after a step is excused: its excuse stands,  *)
(* or the step gives one.                                                  *)
Explained(r, k, phase, left, hits) ==
    \/ /\ k \in UpOf(boxes, r)
       /\ \/ phase = process[r].at /\ left = process[r].left
          \/ /\ process[r].at \notin {k, "dead"}
             /\ ~(process[r].at = "remove" /\ process[r].left = k)
    \/ k = phase \/ (phase = "remove" /\ left = k)
    \/ k = "chmod" /\ hits # {}
    \/ hits = HitBy \/ spent'.faults > 0 \/ phase = "dead"

(* What a step owes the run whose state it changes.                        *)
LEMMA RunMoves ==
    ASSUME SandboxInv, NEW r \in StageRuns, NEW s, NEW phase, NEW left, NEW hits,
           NEW v, NEW t, NEW up,
           RowTo(r, s), ProcessTo(r, phase, left, hits), VolumeTo(r, v), TreeTo(r, t),
           BoxesTo(r, up), Spends,
           stageRun[r].state = "none" <=> s.state = "none",
           s.state \in {"none", "queued"} => phase = "rest",
           phase = "rest" => up = {},
           phase = "remove" => spent'.faults > 0 \/ hits # {},
           process[r].hits \subseteq hits, hits \subseteq HitBy,
           \A k \in up : Explained(r, k, phase, left, hits),
           s.stage = "implement" => ImplementRuns(r, s, phase, v, t, up)
    PROVE  SandboxInv'
<1> DEFINE q == process'[r]
<1>1. /\ SandboxTables
      /\ RunHolds(r, stageRun[r], process[r], volume[r], tree[r], UpOf(boxes, r), spent.faults)
  BY DEF SandboxInv
<1>2. /\ q = [f \in ProcessFields |-> q[f]] /\ q.at = phase /\ q.left = left /\ q.hits = hits
      /\ spent.faults \in Nat /\ spent'.faults \in Nat /\ spent.faults =< spent'.faults
  BY <1>1 DEF ProcessTo, Spends, SandboxTables
<1> HIDE DEF q
<1>3. ASSUME NEW k \in up
      PROVE  Excused(k, q, spent'.faults)
  <2>1. Explained(r, k, phase, left, hits)
    OBVIOUS
  <2>2. k \in UpOf(boxes, r) => Excused(k, process[r], spent.faults)
    BY <1>1 DEF RunHolds
  <2>3. process[r].hits # {} => hits # {}
    OBVIOUS
  <2>4. process[r].hits = HitBy => hits = HitBy
    OBVIOUS
  <2>5. spent.faults > 0 => spent'.faults > 0
    BY <1>2
  <2> QED BY <1>2, <2>1, <2>2, <2>3, <2>4, <2>5 DEF Explained, Excused
<1>4. RunHolds(r, s, q, v, t, up, spent'.faults)
  BY <1>2, <1>3 DEF RunHolds, RowTo
<1>5. OnlyRun(r)
  BY DEF OnlyRun, RowTo, ProcessTo, VolumeTo, TreeTo
<1>6. RunHolds(r, stageRun'[r], process'[r], volume'[r], tree'[r], UpOf(boxes', r),
               spent'.faults)
  BY <1>4 DEF RowTo, VolumeTo, TreeTo, BoxesTo, q
<1> QED BY <1>5, <1>6, SandboxFrame DEF RowTo, BoxesTo

(* What holds of a run before a step, in the form the steps use it.        *)
LEMMA RunBefore ==
    ASSUME SandboxInv, NEW r \in StageRuns
    PROVE  /\ stageRun[r] = [f \in RunFields |-> stageRun[r][f]]
           /\ process[r].hits \subseteq HitBy
           /\ stageRun[r].state \in {"none", "queued"} => process[r].at = "rest"
           /\ process[r].at = "rest" => UpOf(boxes, r) = {}
           /\ process[r].at = "remove" => spent.faults > 0 \/ process[r].hits # {}
           /\ UpOf(boxes, r) \subseteq Containers
           /\ stageRun[r].stage = "implement" =>
                 ImplementRuns(r, stageRun[r], process[r].at, volume[r], tree[r], UpOf(boxes, r))
BY DEF SandboxInv, RunHolds, UpOf

LEMMA CreateVolumeStep ==
    ASSUME SandboxInv, NEW r \in StageRuns, CreateVolume(r)
    PROVE  SandboxInv'
<1>1. /\ process[r].at = "volume"
      /\ RowTo(r, stageRun[r]) /\ TreeTo(r, tree[r])
  BY RowKept, TreeKept DEF CreateVolume
<1>2. CASE /\ volume' = [volume EXCEPT ![r] = "made"] /\ boxes' = boxes \cup {Box(r, "chmod")}
           /\ Goes(r, "chmod") /\ UNCHANGED spent
  <2>1. BoxesTo(r, UpOf(boxes, r) \cup {"chmod"})
    BY <1>2, BoxUp DEF Containers, BoxesTo
  <2>2. Spends /\ VolumeTo(r, "made") /\ ProcessTo(r, "chmod", process[r].left, process[r].hits)
    BY <1>2, NothingSpent, VolumeSet, GoesTo
  <2>3. \A k \in UpOf(boxes, r) \cup {"chmod"} :
           Explained(r, k, "chmod", process[r].left, process[r].hits)
    BY <1>1, RunBefore DEF Explained, Containers
  <2> QED BY <1>1, <2>1, <2>2, <2>3, RunBefore, RunMoves DEF ImplementRuns, Accepted
<1>3. ASSUME Fault, NEW made \in {"none", "made"}, volume' = [volume EXCEPT ![r] = made],
             Throws(r, "error", "report"), UNCHANGED boxes
      PROVE  SandboxInv'
  <2>1. BoxesTo(r, UpOf(boxes, r)) /\ Spends /\ spent'.faults > 0
    BY <1>3, BoxesKept, FaultSpent
  <2>2. VolumeTo(r, made) /\ ProcessTo(r, "report", process[r].left, process[r].hits)
    BY <1>3, VolumeSet, ThrowsTo
  <2>3. \A k \in UpOf(boxes, r) : Explained(r, k, "report", process[r].left, process[r].hits)
    BY <2>1 DEF Explained
  <2> QED BY <1>1, <2>1, <2>2, <2>3, RunBefore, RunMoves DEF ImplementRuns, Accepted
<1> QED BY <1>2, <1>3 DEF CreateVolume

(* A change of the state of a run keeps the shape of its row.              *)
LEMMA StateSet ==
    ASSUME SandboxInv, NEW r \in StageRuns, NEW state, Ends(r, state)
    PROVE  \E s : /\ RowTo(r, s) /\ s.state = state
                  /\ s.stage = stageRun[r].stage /\ s.workspace = stageRun[r].workspace
<1>1. stageRun[r] = [f \in RunFields |-> stageRun[r][f]] /\ SandboxTables
  BY RunBefore DEF SandboxInv
<1>2. stageRun' = [stageRun EXCEPT ![r].state = state]
  BY DEF Ends
<1>3. /\ RowTo(r, stageRun'[r]) /\ stageRun'[r].state = state
      /\ stageRun'[r].stage = stageRun[r].stage
      /\ stageRun'[r].workspace = stageRun[r].workspace
  BY <1>1, <1>2 DEF SandboxTables, RowTo, RunFields
<1> QED BY <1>3

LEMMA LeaseStageStep ==
    ASSUME SandboxInv, NEW r \in StageRuns, LeaseStage(r)
    PROVE  SandboxInv'
<1> DEFINE phase == IF stageRun[r].stage = "implement" THEN "volume" ELSE "begin"
<1>0. /\ stageRun[r].state = "queued" /\ Goes(r, phase)
      /\ Ends(r, "leased")
      /\ spent' = spent /\ volume' = volume /\ tree' = tree /\ boxes' = boxes
  BY DEF LeaseStage, Docker, Ends
<1>2. PICK s : /\ RowTo(r, s) /\ s.state = "leased" /\ s.stage = stageRun[r].stage
               /\ s.workspace = stageRun[r].workspace
  BY <1>0, StateSet
<1>3. /\ ProcessTo(r, phase, process[r].left, process[r].hits) /\ VolumeTo(r, volume[r])
      /\ TreeTo(r, tree[r]) /\ BoxesTo(r, UpOf(boxes, r)) /\ Spends
  BY <1>0, GoesTo, VolumeKept, TreeKept, BoxesKept, NothingSpent
<1>4. UpOf(boxes, r) = {}
  BY <1>0, RunBefore
<1>5. phase \in {"volume", "begin"} /\ (s.stage = "implement" => phase = "volume")
  BY <1>2
<1>6. s.stage = "implement" => ImplementRuns(r, s, phase, volume[r], tree[r], UpOf(boxes, r))
  BY <1>2, <1>4, <1>5 DEF ImplementRuns
<1> QED BY <1>0, <1>2, <1>3, <1>4, <1>5, <1>6, RunBefore, RunMoves

LEMMA CancelStageStep ==
    ASSUME SandboxInv, NEW r \in StageRuns, CancelStage(r)
    PROVE  SandboxInv'
<1>0. /\ stageRun[r].state \in {"queued", "leased", "running"}
      /\ process' = process /\ volume' = volume /\ tree' = tree /\ boxes' = boxes
  BY DEF CancelStage, Docker, Held
<1> DEFINE s == stageRun'[r]
<1>1. stageRun[r] = [f \in RunFields |-> stageRun[r][f]] /\ SandboxTables
  BY RunBefore DEF SandboxInv
<1>2. /\ RowTo(r, s) /\ s.stage = stageRun[r].stage /\ s.workspace = stageRun[r].workspace
      /\ s.state = IF stageRun[r].state = "queued" THEN "cancelled" ELSE stageRun[r].state
  BY <1>1 DEF CancelStage, SandboxTables, RowTo, RunFields
<1> HIDE DEF s
<1>3. /\ ProcessTo(r, process[r].at, process[r].left, process[r].hits)
      /\ VolumeTo(r, volume[r]) /\ TreeTo(r, tree[r]) /\ BoxesTo(r, UpOf(boxes, r))
  BY <1>0, ProcessKept, VolumeKept, TreeKept, BoxesKept
<1>4. Spends /\ spent'.faults = spent.faults
  BY DEF CancelStage, SandboxInv, SandboxTables, Spends
<1>5. \A k \in UpOf(boxes, r) :
         Explained(r, k, process[r].at, process[r].left, process[r].hits)
  BY DEF Explained
<1>6. s.stage = "implement" =>
         ImplementRuns(r, s, process[r].at, volume[r], tree[r], UpOf(boxes, r))
  BY <1>0, <1>2, RunBefore DEF ImplementRuns
<1> QED BY ZenonT(60), <1>0, <1>2, <1>3, <1>4, <1>5, <1>6, RunBefore, RunMoves

LEMMA ExpireStageStep ==
    ASSUME SandboxInv, NEW r \in StageRuns, ExpireStage(r)
    PROVE  SandboxInv'
<1> DEFINE state == IF stageRun[r].cancel THEN "cancelled" ELSE "timed_out"
<1>0. /\ stageRun[r].state \in {"leased", "running"}
      /\ Ends(r, state)
      /\ process' = process /\ volume' = volume /\ tree' = tree /\ boxes' = boxes
  BY DEF ExpireStage, Docker, Held, Ends
<1>2. PICK s : /\ RowTo(r, s) /\ s.state = state /\ s.stage = stageRun[r].stage
               /\ s.workspace = stageRun[r].workspace
  BY <1>0, StateSet
<1>3. /\ ProcessTo(r, process[r].at, process[r].left, process[r].hits)
      /\ VolumeTo(r, volume[r]) /\ TreeTo(r, tree[r]) /\ BoxesTo(r, UpOf(boxes, r))
  BY <1>0, ProcessKept, VolumeKept, TreeKept, BoxesKept
<1>4. Spends /\ spent'.faults = spent.faults
  BY DEF ExpireStage, SandboxInv, SandboxTables, Spends
<1>5. \A k \in UpOf(boxes, r) :
         Explained(r, k, process[r].at, process[r].left, process[r].hits)
  BY DEF Explained
<1>6. s.stage = "implement" =>
         ImplementRuns(r, s, process[r].at, volume[r], tree[r], UpOf(boxes, r))
  BY <1>0, <1>2, RunBefore DEF ImplementRuns
<1>7. process[r].at = "remove" => spent'.faults > 0 \/ process[r].hits # {}
  BY <1>4, RunBefore
<1> QED BY ZenonT(60), <1>0, <1>2, <1>3, <1>4, <1>5, <1>6, <1>7, RunBefore, RunMoves

LEMMA BeginStageStep ==
    ASSUME SandboxInv, NEW r \in StageRuns, BeginStage(r)
    PROVE  SandboxInv'
<1>0. /\ process[r].at = "begin" /\ stageRun[r].state \notin {"none", "queued"}
      /\ VolumeTo(r, volume[r]) /\ TreeTo(r, tree[r]) /\ BoxesTo(r, UpOf(boxes, r)) /\ Spends
  BY RunBefore, VolumeKept, TreeKept, BoxesKept, NothingSpent DEF BeginStage, Docker
<1>1. ASSUME NEW phase
      PROVE  \A k \in UpOf(boxes, r) : Explained(r, k, phase, process[r].left, process[r].hits)
  BY <1>0, RunBefore DEF Explained, Containers
<1>2. CASE stageRun[r].state = "leased"
  <2> DEFINE s == stageRun'[r]
  <2>1. stageRun[r] = [f \in RunFields |-> stageRun[r][f]] /\ SandboxTables
    BY RunBefore DEF SandboxInv
  <2>2. PICK w : /\ w = IF stageRun[r].stage = "implement" THEN r ELSE stageRun[r].workspace
                 /\ stageRun' = [stageRun EXCEPT ![r].state = "running", ![r].workspace = w]
    BY <1>2, <2>1 DEF BeginStage
  <2>3. /\ RowTo(r, s) /\ s.stage = stageRun[r].stage /\ s.state = "running"
        /\ (s.stage = "implement" => s.workspace = r)
    BY <2>1, <2>2 DEF SandboxTables, RowTo, RunFields
  <2> HIDE DEF s
  <2>4. ProcessTo(r, "load", process[r].left, process[r].hits)
    BY <1>2, GoesTo DEF BeginStage
  <2>5. s.stage = "implement" =>
           ImplementRuns(r, s, "load", volume[r], tree[r], UpOf(boxes, r))
    BY <1>0, <2>3, RunBefore DEF ImplementRuns
  <2>6. /\ \A k \in UpOf(boxes, r) : Explained(r, k, "load", process[r].left, process[r].hits)
        /\ process[r].hits \subseteq HitBy
    BY <1>1, RunBefore
  <2> QED BY <1>0, <2>3, <2>4, <2>5, <2>6, RunMoves
<1>3. CASE stageRun[r].state # "leased"
  <2>1. /\ RowTo(r, stageRun[r])
        /\ ProcessTo(r, "report", process[r].left, process[r].hits)
    BY <1>3, RowKept, ThrowsTo DEF BeginStage
  <2>2. stageRun[r].stage = "implement" =>
           ImplementRuns(r, stageRun[r], "report", volume[r], tree[r], UpOf(boxes, r))
    BY <1>0, RunBefore DEF ImplementRuns, Accepted
  <2> QED BY <1>0, <1>1, <2>1, <2>2, RunBefore, RunMoves
<1> QED BY <1>2, <1>3

(* A process that awaits nothing by the name of a container: what is up is *)
(* excused without it.                                                     *)
LEMMA Unawaited ==
    ASSUME SandboxInv, NEW r \in StageRuns,
           process[r].at \notin Containers \cup {"rest", "remove", "dead", "done"}
    PROVE  /\ stageRun[r].state \notin {"none", "queued"}
           /\ stageRun[r].stage = "implement" => stageRun[r].state # "succeeded"
           /\ \A phase, left, hits : \A k \in UpOf(boxes, r) : Explained(r, k, phase, left, hits)
BY RunBefore DEF Explained, ImplementRuns, Accepted

(* The container that was awaited ends.                                    *)
LEMMA ContainerGone ==
    ASSUME SandboxInv, NEW r \in StageRuns, NEW kind \in Containers, process[r].at = kind,
           boxes' = boxes \ {Box(r, kind)}
    PROVE  /\ stageRun[r].state \notin {"none", "queued"}
           /\ BoxesTo(r, UpOf(boxes, r) \ {kind})
           /\ \A phase, left, hits : \A k \in UpOf(boxes, r) \ {kind} :
                  Explained(r, k, phase, left, hits)
           /\ stageRun[r].stage = "implement" =>
                 /\ kind \in {"chmod", "materialize", "apply"} /\ UpOf(boxes, r) \ {kind} = {}
                 /\ volume[r] = "made" /\ stageRun[r].state # "succeeded"
<1>1. BoxesTo(r, UpOf(boxes, r) \ {kind})
  BY BoxDown DEF BoxesTo
<1>2. kind \notin {"rest", "dead", "remove", "done"}
  BY DEF Containers
<1>3. \A phase, left, hits : \A k \in UpOf(boxes, r) \ {kind} : Explained(r, k, phase, left, hits)
  BY <1>2 DEF Explained
<1>4. stageRun[r].stage = "implement" =>
         /\ kind \in {"chmod", "materialize", "apply"} /\ UpOf(boxes, r) \ {kind} = {}
         /\ volume[r] = "made" /\ stageRun[r].state # "succeeded"
  BY <1>2, RunBefore DEF Containers, ImplementRuns, Accepted
<1> QED BY <1>1, <1>2, <1>3, <1>4, RunBefore

LEMMA LeavesTo ==
    ASSUME SandboxInv, NEW r \in StageRuns, volume' = Leaves(r)
    PROVE  \E v : VolumeTo(r, v) /\ (stageRun[r].stage = "implement" => v = volume[r])
<1>1. CASE stageRun[r].stage = "explore"
  BY <1>1, VolumeSet DEF Leaves
<1>2. CASE stageRun[r].stage # "explore"
  BY <1>2, VolumeKept DEF Leaves
<1> QED BY <1>1, <1>2

(* A step of a process on its way that leaves the row as it is.            *)
LEMMA ProcessMoves ==
    ASSUME SandboxInv, NEW r \in StageRuns, NEW phase, NEW v, NEW t, NEW up,
           phase \notin {"rest", "remove"}, stageRun[r].state \notin {"none", "queued"},
           stageRun' = stageRun, ProcessTo(r, phase, process[r].left, process[r].hits),
           VolumeTo(r, v), TreeTo(r, t), BoxesTo(r, up), Spends,
           \A k \in up : Explained(r, k, phase, process[r].left, process[r].hits),
           stageRun[r].stage = "implement" => ImplementRuns(r, stageRun[r], phase, v, t, up)
    PROVE  SandboxInv'
<1>1. RowTo(r, stageRun[r]) /\ process[r].hits \subseteq HitBy
  BY RowKept, RunBefore
<1> QED BY <1>1, RunMoves

LEMMA LoadInputsStep ==
    ASSUME SandboxInv, NEW r \in StageRuns, LoadInputs(r)
    PROVE  SandboxInv'
<1>1. process[r].at = "load" /\ stageRun' = stageRun /\ Spends
  BY NothingSpent DEF LoadInputs
<1>2. /\ stageRun[r].state \notin {"none", "queued"}
      /\ stageRun[r].stage = "implement" =>
            /\ stageRun[r].state # "succeeded" /\ UpOf(boxes, r) = {}
            /\ stageRun[r].state = "running" => stageRun[r].workspace = r
      /\ \A phase, left, hits : \A k \in UpOf(boxes, r) : Explained(r, k, phase, left, hits)
  BY <1>1, RunBefore, Unawaited DEF Containers, ImplementRuns
<1>3. CASE Unpack(r)
  <2>1. /\ BoxesTo(r, UpOf(boxes, r) \cup {"materialize"}) /\ VolumeTo(r, "made")
        /\ TreeTo(r, "partial")
    BY <1>3, BoxUp, VolumeSet, TreeSet DEF Unpack, Up, BoxesTo, Containers
  <2>2. ProcessTo(r, "materialize", process[r].left, process[r].hits)
    BY <1>3, GoesTo DEF Unpack, Up
  <2>3. \A k \in UpOf(boxes, r) \cup {"materialize"} :
           Explained(r, k, "materialize", process[r].left, process[r].hits)
    <3>1. Explained(r, "materialize", "materialize", process[r].left, process[r].hits)
      BY DEF Explained
    <3> QED BY <1>2, <3>1
  <2>4. stageRun[r].stage = "implement" =>
           ImplementRuns(r, stageRun[r], "materialize", "made", "partial",
                         UpOf(boxes, r) \cup {"materialize"})
    BY <1>2 DEF ImplementRuns
  <2> QED BY <1>1, <1>2, <2>1, <2>2, <2>3, <2>4, ProcessMoves
<1>4. CASE MountForVerify(r)
  <2>1. /\ BoxesTo(r, UpOf(boxes, r) \cup {"verify"}) /\ VolumeTo(r, volume[r])
        /\ TreeTo(r, tree[r]) /\ stageRun[r].stage = "verify"
    BY <1>4, BoxUp, VolumeKept, TreeKept DEF MountForVerify, Up, BoxesTo, Containers
  <2>2. ProcessTo(r, "verify", process[r].left, process[r].hits)
    BY <1>4, GoesTo DEF MountForVerify, Up
  <2>3. \A k \in UpOf(boxes, r) \cup {"verify"} :
           Explained(r, k, "verify", process[r].left, process[r].hits)
    <3>1. Explained(r, "verify", "verify", process[r].left, process[r].hits)
      BY DEF Explained
    <3> QED BY <1>2, <3>1
  <2> QED BY <1>1, <1>2, <2>1, <2>2, <2>3, ProcessMoves
<1>5. CASE InputsRefused(r)
  <2>1. /\ BoxesTo(r, UpOf(boxes, r)) /\ VolumeTo(r, volume[r]) /\ TreeTo(r, tree[r])
        /\ ProcessTo(r, "report", process[r].left, process[r].hits)
    BY <1>5, BoxesKept, VolumeKept, TreeKept, ThrowsTo DEF InputsRefused, Docker
  <2>2. stageRun[r].stage = "implement" =>
           ImplementRuns(r, stageRun[r], "report", volume[r], tree[r], UpOf(boxes, r))
    BY <1>2 DEF ImplementRuns
  <2>3. /\ stageRun[r].state \notin {"none", "queued"}
        /\ \A k \in UpOf(boxes, r) : Explained(r, k, "report", process[r].left, process[r].hits)
    BY <1>2
  <2> QED BY <1>1, <2>1, <2>2, <2>3, ProcessMoves
<1> QED BY <1>3, <1>4, <1>5 DEF LoadInputs

LEMMA ContainerEndsStep ==
    ASSUME SandboxInv, NEW r \in StageRuns, ContainerEnds(r)
    PROVE  SandboxInv'
<1> DEFINE kind == process[r].at
           up   == UpOf(boxes, r) \ {kind}
<1>1. kind \in Containers /\ stageRun' = stageRun /\ boxes' = boxes \ {Box(r, kind)}
  BY DEF ContainerEnds
<1>2. /\ stageRun[r].state \notin {"none", "queued"} /\ BoxesTo(r, up)
      /\ stageRun[r].stage = "implement" =>
            /\ kind \in {"chmod", "materialize", "apply"} /\ up = {}
            /\ volume[r] = "made" /\ stageRun[r].state # "succeeded"
            /\ stageRun[r].state = "running" => stageRun[r].workspace = r
  BY <1>1, ContainerGone, RunBefore DEF ImplementRuns
<1>3. \A phase : \A k \in up : Explained(r, k, phase, process[r].left, process[r].hits)
  BY <1>1, ContainerGone
(* Whichever way it ends, what the run owes is the same.                   *)
<1>4. ASSUME NEW phase, NEW v, NEW t,
             phase \notin {"rest", "remove", "volume", "chmod", "load", "materialize", "apply",
                           "inspect", "verify", "done"},
             phase = "look" => stageRun[r].stage # "implement",
             phase = "settle" /\ stageRun[r].stage = "implement" => t = "changed",
             stageRun[r].stage = "implement" => v = volume[r],
             ProcessTo(r, phase, process[r].left, process[r].hits),
             VolumeTo(r, v), TreeTo(r, t), Spends
      PROVE  SandboxInv'
  <2>1. stageRun[r].stage = "implement" => ImplementRuns(r, stageRun[r], phase, v, t, up)
    BY <1>2, <1>4 DEF ImplementRuns
  <2>2. \A k \in up : Explained(r, k, phase, process[r].left, process[r].hits)
    BY <1>3
  <2> HIDE DEF up
  <2> QED BY <1>1, <1>2, <1>4, <2>1, <2>2, ProcessMoves
<1>5. CASE kind = "chmod" /\ Goes(r, "begin") /\ UNCHANGED <<volume, tree, spent>>
  <2>1. /\ VolumeTo(r, volume[r]) /\ TreeTo(r, tree[r]) /\ Spends
        /\ ProcessTo(r, "begin", process[r].left, process[r].hits)
    BY <1>5, VolumeKept, TreeKept, NothingSpent, GoesTo
  <2> QED BY <1>4, <2>1
<1>6. CASE /\ kind = "materialize" /\ tree' = [tree EXCEPT ![r] = "base"]
           /\ Goes(r, IF stageRun[r].stage = "explore" THEN "look" ELSE "patch")
           /\ UNCHANGED <<volume, spent>>
  <2> DEFINE phase == IF stageRun[r].stage = "explore" THEN "look" ELSE "patch"
  <2>1. /\ VolumeTo(r, volume[r]) /\ TreeTo(r, "base") /\ Spends
        /\ ProcessTo(r, phase, process[r].left, process[r].hits)
    BY <1>6, VolumeKept, TreeSet, NothingSpent, GoesTo
  <2> QED BY <1>4, <2>1
<1>7. CASE /\ kind = "apply" /\ tree' = [tree EXCEPT ![r] = "changed"]
           /\ Goes(r, "settle") /\ UNCHANGED <<volume, spent>>
  <2>1. /\ VolumeTo(r, volume[r]) /\ TreeTo(r, "changed") /\ Spends
        /\ ProcessTo(r, "settle", process[r].left, process[r].hits)
    BY <1>7, VolumeKept, TreeSet, NothingSpent, GoesTo
  <2> QED BY <1>4, <2>1
<1>8. CASE kind = "inspect" /\ volume' = Leaves(r) /\ Goes(r, "settle") /\ UNCHANGED <<tree, spent>>
  <2>1. PICK v : VolumeTo(r, v) /\ (stageRun[r].stage = "implement" => v = volume[r])
    BY <1>8, LeavesTo
  <2>2. /\ TreeTo(r, tree[r]) /\ Spends
        /\ ProcessTo(r, "settle", process[r].left, process[r].hits)
    BY <1>8, TreeKept, NothingSpent, GoesTo
  <2>3. stageRun[r].stage # "implement"
    BY <1>2, <1>8
  <2> QED BY <1>4, <2>1, <2>2, <2>3
<1>9. CASE kind = "verify" /\ Goes(r, "settle") /\ UNCHANGED <<volume, tree, spent>>
  <2>1. /\ VolumeTo(r, volume[r]) /\ TreeTo(r, tree[r]) /\ Spends
        /\ ProcessTo(r, "settle", process[r].left, process[r].hits)
    BY <1>9, VolumeKept, TreeKept, NothingSpent, GoesTo
  <2>2. stageRun[r].stage # "implement"
    BY <1>2, <1>9
  <2> QED BY <1>4, <2>1, <2>2
<1>10. CASE kind = "verify" /\ Throws(r, "error", "report") /\ UNCHANGED <<volume, tree, spent>>
  <2>1. /\ VolumeTo(r, volume[r]) /\ TreeTo(r, tree[r]) /\ Spends
        /\ ProcessTo(r, "report", process[r].left, process[r].hits)
    BY <1>10, VolumeKept, TreeKept, NothingSpent, ThrowsTo
  <2> QED BY <1>4, <2>1
<1>11. CASE /\ Fault /\ volume' = Leaves(r) /\ UNCHANGED <<tree>>
            /\ Throws(r, "error", IF kind = "chmod" THEN "destroy" ELSE Cleanup(r))
  <2> DEFINE phase == IF kind = "chmod" THEN "destroy" ELSE Cleanup(r)
  <2>1. PICK v : VolumeTo(r, v) /\ (stageRun[r].stage = "implement" => v = volume[r])
    BY <1>11, LeavesTo
  <2>2. /\ TreeTo(r, tree[r]) /\ Spends
        /\ ProcessTo(r, phase, process[r].left, process[r].hits)
    BY <1>11, TreeKept, FaultSpent, ThrowsTo
  <2>3. phase \in {"destroy", "report"}
    BY DEF Cleanup
  <2> QED BY <1>4, <2>1, <2>2, <2>3
<1> QED BY <1>5, <1>6, <1>7, <1>8, <1>9, <1>10, <1>11 DEF ContainerEnds

LEMMA NextContainerStep ==
    ASSUME SandboxInv, NEW r \in StageRuns, NextContainer(r)
    PROVE  SandboxInv'
<1> DEFINE kind == IF process[r].at = "look" THEN "inspect" ELSE "apply"
           up   == UpOf(boxes, r) \cup {kind}
<1>1. /\ process[r].at \in {"look", "patch"} /\ kind \in Containers
      /\ boxes' = boxes \cup {Box(r, kind)} /\ Goes(r, kind)
      /\ stageRun' = stageRun /\ volume' = volume /\ spent' = spent
      /\ tree' = tree \/ tree' = [tree EXCEPT ![r] = "partial"]
  BY DEF NextContainer, Up, Containers
<1>2. /\ BoxesTo(r, up) /\ Spends /\ VolumeTo(r, volume[r])
      /\ ProcessTo(r, kind, process[r].left, process[r].hits)
  BY <1>1, BoxUp, NothingSpent, VolumeKept, GoesTo DEF BoxesTo
<1>3. PICK t : TreeTo(r, t)
  BY <1>1, TreeKept, TreeSet
<1>4. process[r].at \notin Containers \cup {"rest", "remove", "dead", "done"}
  BY <1>1 DEF Containers
<1>5. /\ stageRun[r].state \notin {"none", "queued"} /\ kind \notin {"rest", "remove"}
      /\ \A k \in up : Explained(r, k, kind, process[r].left, process[r].hits)
  BY <1>4, Unawaited DEF Explained
<1>6. stageRun[r].stage = "implement" => ImplementRuns(r, stageRun[r], kind, volume[r], t, up)
  BY <1>1, <1>4, Unawaited, RunBefore DEF ImplementRuns
<1> HIDE DEF up, kind
<1> QED BY <1>1, <1>2, <1>3, <1>5, <1>6, ProcessMoves

LEMMA ContainerTimesOutStep ==
    ASSUME SandboxInv, NEW r \in StageRuns, ContainerTimesOut(r)
    PROVE  SandboxInv'
<1>1. /\ process[r].at \in Containers /\ RowTo(r, stageRun[r]) /\ VolumeTo(r, volume[r])
      /\ TreeTo(r, tree[r]) /\ BoxesTo(r, UpOf(boxes, r)) /\ Spends /\ spent'.faults > 0
  BY RowKept, VolumeKept, TreeKept, BoxesKept, FaultSpent DEF ContainerTimesOut, Docker
<1>2. process[r].at \notin {"rest", "remove", "dead", "done"}
  BY <1>1 DEF Containers
<1>3. \E phase \in {"remove", "destroy"} : \E left : ProcessTo(r, phase, left, process[r].hits)
  <2>1. CASE process[r].at = "chmod"
    BY <2>1, ThrowsTo DEF ContainerTimesOut
  <2>2. CASE process[r].at # "chmod"
    <3>1. SandboxTables /\ process[r] = [f \in ProcessFields |-> process[r][f]]
      BY DEF SandboxInv, RunHolds
    <3>2. process' = [process EXCEPT ![r].at = "remove", ![r].left = process[r].at,
                                    ![r].caught = "error"]
      BY <2>2 DEF ContainerTimesOut
    <3>3. ProcessTo(r, "remove", process[r].at, process[r].hits)
      BY <3>1, <3>2 DEF ProcessTo, ProcessFields, SandboxTables
    <3> QED BY <3>3
  <2> QED BY <2>1, <2>2
<1>4. PICK phase \in {"remove", "destroy"} : \E left : ProcessTo(r, phase, left, process[r].hits)
  BY <1>3
<1>5. PICK left : ProcessTo(r, phase, left, process[r].hits)
  BY <1>4
<1>6. \A k \in UpOf(boxes, r) : Explained(r, k, phase, left, process[r].hits)
  BY <1>1 DEF Explained
<1>7. stageRun[r].stage = "implement" =>
         ImplementRuns(r, stageRun[r], phase, volume[r], tree[r], UpOf(boxes, r))
  BY <1>2, RunBefore DEF ImplementRuns, Accepted
<1>8. stageRun[r].state \notin {"none", "queued"} /\ process[r].hits \subseteq HitBy
  BY <1>2, RunBefore
<1> QED BY <1>1, <1>5, <1>6, <1>7, <1>8, RunMoves

(* The process goes where the cancellation takes it, and what it may have  *)
(* been in the middle of is done or not.                                   *)
LEMMA InterruptStep ==
    ASSUME SandboxInv, NEW r \in StageRuns, NEW by \in HitBy, Interrupt(r, by)
    PROVE  SandboxInv'
<1> DEFINE at0  == process[r].at
           left == IF at0 \in Containers THEN at0 ELSE process[r].left
           hits == process[r].hits \cup {by}
           phase == Unwinds(r)
<1>1. /\ at0 \in Awaiting /\ by \notin process[r].hits
      /\ RowTo(r, stageRun[r]) /\ TreeTo(r, tree[r]) /\ BoxesTo(r, UpOf(boxes, r)) /\ Spends
      /\ spent' = spent
  BY RowKept, TreeKept, BoxesKept, NothingSpent DEF Interrupt
<1>2. at0 \notin {"rest", "dead", "done", "begin", "load", "look", "patch", "settle"}
  BY <1>1 DEF Awaiting, Containers
<1>3. ProcessTo(r, phase, left, hits)
  <2>1. SandboxTables /\ process[r] = [f \in ProcessFields |-> process[r][f]]
    BY DEF SandboxInv, RunHolds
  <2>2. process' = [process EXCEPT
            ![r].at = phase, ![r].caught = "cancelled", ![r].left = left, ![r].hits = hits]
    BY DEF Interrupt
  <2> HIDE DEF phase, left, hits
  <2> QED BY <2>1, <2>2 DEF ProcessTo, ProcessFields, SandboxTables
<1>4. \E v : VolumeTo(r, v)
  BY VolumeKept, VolumeSet, LeavesTo DEF Interrupt
<1>5. PICK v : VolumeTo(r, v)
  BY <1>4
<1>6. /\ phase \in {"remove", "destroy", "report"}
      /\ phase = "remove" <=> at0 \in Containers \ {"chmod"}
  BY DEF Unwinds, Cleanup, Containers
<1>7. /\ stageRun[r].state \notin {"none", "queued"} /\ process[r].hits \subseteq HitBy
      /\ stageRun[r].stage = "implement" => stageRun[r].state # "succeeded"
  BY <1>2, RunBefore DEF ImplementRuns, Accepted
<1>8. hits \subseteq HitBy /\ process[r].hits \subseteq hits /\ hits # {}
  BY <1>7
<1>9. ASSUME NEW k \in UpOf(boxes, r)
      PROVE  Explained(r, k, phase, left, hits)
  <2>1. CASE at0 = k
    BY <1>6, <1>8, <2>1, RunBefore DEF Explained
  <2>2. CASE at0 # k /\ at0 # "remove"
    BY <1>2, <2>2 DEF Explained
  <2>3. CASE at0 = "remove"
    <3>1. spent.faults > 0 \/ process[r].hits # {}
      BY <2>3, RunBefore
    <3>2. process[r].hits # {} => hits = HitBy
      BY <1>1, <1>7 DEF HitBy
    <3> QED BY <1>1, <3>1, <3>2 DEF Explained
  <2> QED BY <2>1, <2>2, <2>3
<1>10. stageRun[r].stage = "implement" =>
          ImplementRuns(r, stageRun[r], phase, v, tree[r], UpOf(boxes, r))
  BY <1>6, <1>7, RunBefore DEF ImplementRuns
<1> HIDE DEF phase, left, hits
<1> QED BY <1>1, <1>3, <1>5, <1>6, <1>7, <1>8, <1>9, <1>10, RunMoves

LEMMA RemoveContainerStep ==
    ASSUME SandboxInv, NEW r \in StageRuns, RemoveContainer(r)
    PROVE  SandboxInv'
<1>1. process[r].at = "remove" /\ stageRun' = stageRun /\ TreeTo(r, tree[r])
  BY TreeKept DEF RemoveContainer
<1>2. ProcessTo(r, Cleanup(r), process[r].left, process[r].hits)
  BY GoesTo DEF RemoveContainer
<1>3. PICK v : VolumeTo(r, v)
  BY LeavesTo DEF RemoveContainer
<1>4. /\ Cleanup(r) \notin {"rest", "remove"} /\ stageRun[r].state \notin {"none", "queued"}
      /\ \A up : stageRun[r].stage = "implement" =>
                    ImplementRuns(r, stageRun[r], Cleanup(r), v, tree[r], up)
  BY <1>1, RunBefore DEF Cleanup, ImplementRuns, Accepted
<1>5. CASE boxes' = boxes \ {Box(r, process[r].left)} /\ UNCHANGED <<spent>>
  <2> DEFINE up == UpOf(boxes, r) \ {process[r].left}
  <2>1. BoxesTo(r, up) /\ Spends
    BY <1>5, BoxDown, NothingSpent DEF BoxesTo
  <2>2. \A k \in up : Explained(r, k, Cleanup(r), process[r].left, process[r].hits)
    BY <1>1 DEF Explained, UpOf, Containers
  <2> HIDE DEF up
  <2> QED BY <1>1, <1>2, <1>3, <1>4, <2>1, <2>2, ProcessMoves
<1>6. CASE Fault /\ UNCHANGED <<boxes>>
  <2>1. BoxesTo(r, UpOf(boxes, r)) /\ Spends /\ spent'.faults > 0
    BY <1>6, BoxesKept, FaultSpent
  <2>2. \A k \in UpOf(boxes, r) : Explained(r, k, Cleanup(r), process[r].left, process[r].hits)
    BY <2>1 DEF Explained
  <2> QED BY <1>1, <1>2, <1>3, <1>4, <2>1, <2>2, ProcessMoves
<1> QED BY <1>5, <1>6 DEF RemoveContainer

LEMMA DestroyVolumeStep ==
    ASSUME SandboxInv, NEW r \in StageRuns, DestroyVolume(r)
    PROVE  SandboxInv'
<1>1. /\ process[r].at = "destroy" /\ stageRun' = stageRun /\ TreeTo(r, tree[r])
      /\ BoxesTo(r, UpOf(boxes, r)) /\ Spends
  BY TreeKept, BoxesKept, NothingSpent, FaultSpent DEF DestroyVolume
<1>2. ProcessTo(r, "report", process[r].left, process[r].hits)
  BY GoesTo, ThrowsTo DEF DestroyVolume
<1>3. PICK v : VolumeTo(r, v)
  BY VolumeKept, VolumeSet DEF DestroyVolume
<1>4. process[r].at \notin Containers \cup {"rest", "remove", "dead", "done"}
  BY <1>1 DEF Containers
<1>5. /\ stageRun[r].state \notin {"none", "queued"}
      /\ \A k \in UpOf(boxes, r) : Explained(r, k, "report", process[r].left, process[r].hits)
  BY <1>4, Unawaited
<1>6. stageRun[r].stage = "implement" =>
         ImplementRuns(r, stageRun[r], "report", v, tree[r], UpOf(boxes, r))
  BY <1>1, RunBefore DEF ImplementRuns, Accepted
<1> QED BY <1>1, <1>2, <1>3, <1>5, <1>6, ProcessMoves

(* An Implement that succeeds has settled: its volume is made, its change  *)
(* set applied, and nothing of its is up.                                  *)
LEMMA FinishStageStep ==
    ASSUME SandboxInv, NEW r \in StageRuns, FinishStage(r)
    PROVE  SandboxInv'
<1>1. /\ process[r].at = "settle" /\ VolumeTo(r, volume[r]) /\ TreeTo(r, tree[r])
      /\ BoxesTo(r, UpOf(boxes, r)) /\ Spends
  BY VolumeKept, TreeKept, BoxesKept, NothingSpent DEF FinishStage, Docker
<1>2. process[r].at \notin Containers \cup {"rest", "remove", "dead", "done"}
  BY <1>1 DEF Containers
<1>3. CASE stageRun[r].state = "running" /\ Ends(r, "succeeded") /\ Goes(r, "done")
  <2>1. PICK s : /\ RowTo(r, s) /\ s.state = "succeeded" /\ s.stage = stageRun[r].stage
                 /\ s.workspace = stageRun[r].workspace
    BY <1>3, StateSet
  <2>2. ProcessTo(r, "done", process[r].left, process[r].hits) /\ process[r].hits \subseteq HitBy
    BY <1>3, GoesTo, RunBefore
  <2>3. \A k \in UpOf(boxes, r) : Explained(r, k, "done", process[r].left, process[r].hits)
    BY <1>2, Unawaited
  <2>4. s.stage = "implement" =>
           ImplementRuns(r, s, "done", volume[r], tree[r], UpOf(boxes, r))
    BY <1>1, <1>3, <2>1, RunBefore DEF ImplementRuns, Accepted
  <2> QED BY <1>1, <1>3, <2>1, <2>2, <2>3, <2>4, RunMoves
<1>4. CASE Throws(r, "error", "report") /\ UNCHANGED stageRun
  <2>1. ProcessTo(r, "report", process[r].left, process[r].hits) /\ stageRun' = stageRun
    BY <1>4, ThrowsTo
  <2>2. /\ stageRun[r].state \notin {"none", "queued"}
        /\ \A k \in UpOf(boxes, r) : Explained(r, k, "report", process[r].left, process[r].hits)
    BY <1>2, Unawaited
  <2>3. stageRun[r].stage = "implement" =>
           ImplementRuns(r, stageRun[r], "report", volume[r], tree[r], UpOf(boxes, r))
    BY <1>1, RunBefore DEF ImplementRuns, Accepted
  <2> QED BY <1>1, <2>1, <2>2, <2>3, ProcessMoves
<1> QED BY <1>3, <1>4 DEF FinishStage

LEMMA ReportStageStep ==
    ASSUME SandboxInv, NEW r \in StageRuns, ReportStage(r)
    PROVE  SandboxInv'
<1>1. /\ process[r].at = "report" /\ VolumeTo(r, volume[r]) /\ TreeTo(r, tree[r])
      /\ BoxesTo(r, UpOf(boxes, r)) /\ Spends
  BY VolumeKept, TreeKept, BoxesKept, NothingSpent DEF ReportStage, Docker
<1>2. /\ ProcessTo(r, "done", process[r].left, process[r].hits)
      /\ process[r].hits \subseteq HitBy
      /\ process[r].at \notin Containers \cup {"rest", "remove", "dead", "done"}
  BY <1>1, GoesTo, RunBefore DEF ReportStage, Containers
<1>3. /\ stageRun[r].state \notin {"none", "queued"}
      /\ \A k \in UpOf(boxes, r) : Explained(r, k, "done", process[r].left, process[r].hits)
  BY <1>2, Unawaited
<1>4. ASSUME NEW state \in {"failed", "cancelled", "timed_out"}, Ends(r, state)
      PROVE  SandboxInv'
  <2>1. PICK s : /\ RowTo(r, s) /\ s.state = state /\ s.stage = stageRun[r].stage
                 /\ s.workspace = stageRun[r].workspace
    BY <1>4, StateSet
  <2>2. s.stage = "implement" =>
           ImplementRuns(r, s, "done", volume[r], tree[r], UpOf(boxes, r))
    BY <1>4, <2>1 DEF ImplementRuns
  <2> QED BY <1>1, <1>2, <1>3, <1>4, <2>1, <2>2, RunMoves
<1>5. CASE stageRun' = stageRun
  <2>1. stageRun[r].stage = "implement" =>
           ImplementRuns(r, stageRun[r], "done", volume[r], tree[r], UpOf(boxes, r))
    BY <1>1, RunBefore DEF ImplementRuns, Accepted
  <2> QED BY <1>1, <1>2, <1>3, <1>5, <2>1, ProcessMoves
<1>6. stageRun' = stageRun \/ \E state \in {"failed", "cancelled", "timed_out"} : Ends(r, state)
  BY DEF ReportStage
<1> QED BY <1>4, <1>5, <1>6

LEMMA SandboxDiesStep ==
    ASSUME SandboxInv, NEW r \in StageRuns, SandboxDies(r)
    PROVE  SandboxInv'
<1>1. /\ process[r].at \notin {"rest", "done", "dead"} /\ stageRun' = stageRun
      /\ ProcessTo(r, "dead", process[r].left, process[r].hits)
      /\ TreeTo(r, tree[r]) /\ BoxesTo(r, UpOf(boxes, r))
  BY GoesTo, TreeKept, BoxesKept DEF SandboxDies
<1>2. Spends
  BY DEF SandboxDies, SandboxInv, SandboxTables, Spends
<1>3. PICK v : VolumeTo(r, v)
  BY VolumeSet DEF SandboxDies
<1>4. /\ stageRun[r].state \notin {"none", "queued"}
      /\ \A k \in UpOf(boxes, r) : Explained(r, k, "dead", process[r].left, process[r].hits)
  BY <1>1, RunBefore DEF Explained
<1>5. stageRun[r].stage = "implement" =>
         ImplementRuns(r, stageRun[r], "dead", v, tree[r], UpOf(boxes, r))
  BY <1>1, RunBefore DEF ImplementRuns, Accepted
<1> QED BY <1>1, <1>2, <1>3, <1>4, <1>5, ProcessMoves

(* A container nobody awaits is not of an Implement that has settled.      *)
LEMMA StrayRunsStep ==
    ASSUME SandboxInv, NEW b \in boxes, StrayRuns(b)
    PROVE  SandboxInv'
<1>1. PICK r \in StageRuns, k \in Containers : b = Box(r, k)
  BY DEF SandboxInv, SandboxTables
<1>2. b.run = r /\ b.kind = k /\ k \in UpOf(boxes, r)
  BY <1>1 DEF Box, UpOf
<1>3. /\ RowTo(r, stageRun[r]) /\ VolumeTo(r, volume[r]) /\ Spends
      /\ ProcessTo(r, process[r].at, process[r].left, process[r].hits) /\ spent' = spent
  BY RowKept, ProcessKept, VolumeKept, NothingSpent DEF StrayRuns
<1>4. PICK t : TreeTo(r, t)
  BY <1>2, TreeKept, TreeSet DEF StrayRuns
<1>5. PICK up : BoxesTo(r, up) /\ up \subseteq UpOf(boxes, r)
  BY <1>1, BoxesKept, BoxDown DEF StrayRuns, BoxesTo
<1>6. process[r].at # "rest" /\ stageRun[r].state \notin {"none", "queued"}
  BY <1>2, RunBefore
<1>7. \A j \in up : Explained(r, j, process[r].at, process[r].left, process[r].hits)
  BY <1>5 DEF Explained
<1>8. stageRun[r].stage = "implement" =>
         ImplementRuns(r, stageRun[r], process[r].at, volume[r], t, up)
  BY <1>2, <1>5, RunBefore DEF ImplementRuns, Accepted
<1> QED BY <1>3, <1>4, <1>5, <1>6, <1>7, <1>8, RunBefore, RunMoves

LEMMA ScheduleStageStep ==
    ASSUME SandboxInv, ScheduleStage
    PROVE  SandboxInv'
<1>1. PICK n \in 0..MaxStageRuns : Used = 1..n
  BY DEF SandboxInv
<1>2. n \in Nat /\ MaxStageRuns \in Nat /\ n < MaxStageRuns /\ Cardinality(Used) = n
  <2>1. MaxStageRuns \in Nat /\ n \in Nat
    BY SandboxAssumption
  <2>2. Used # 1..MaxStageRuns
    BY DEF ScheduleStage, StageRuns
  <2>3. Cardinality(1..n) = n
    BY <2>1, FS_Interval
  <2> QED BY <1>1, <2>1, <2>2, <2>3
<1> DEFINE r == n + 1
<1>3. r \in StageRuns /\ stageRun[r].state = "none"
  BY <1>1, <1>2 DEF StageRuns, Used
<1>4. PICK stage, w : stageRun' = [stageRun EXCEPT ![r] =
                          [NoStageRun EXCEPT !.stage = stage, !.state = "queued", !.workspace = w]]
  BY <1>2 DEF ScheduleStage
<1>5. PICK s : s = [NoStageRun EXCEPT !.stage = stage, !.state = "queued", !.workspace = w]
  OBVIOUS
<1>6. s = [f \in RunFields |-> s[f]] /\ s.state = "queued"
  BY <1>5 DEF NoStageRun, RunFields
<1>7. /\ stageRun' = [q \in StageRuns |-> stageRun'[q]] /\ stageRun'[r] = s
      /\ \A q \in StageRuns : q # r => stageRun'[q] = stageRun[q]
  BY <1>3, <1>4, <1>5 DEF SandboxInv, SandboxTables
<1>8. process' = process /\ volume' = volume /\ tree' = tree /\ boxes' = boxes /\ spent' = spent
  BY DEF ScheduleStage, Docker
<1>9. SandboxTables'
  BY <1>7, <1>8 DEF SandboxInv, SandboxTables
<1> HIDE DEF r
<1>10. Used' = Used \cup {r}
  BY <1>3, <1>6, <1>7 DEF Used
<1>11. Used' = 1..(n + 1) /\ n + 1 \in 0..MaxStageRuns
  BY <1>1, <1>2, <1>10 DEF r
<1>12. ASSUME NEW q \in StageRuns
       PROVE  RunHolds(q, stageRun'[q], process[q], volume[q], tree[q], UpOf(boxes, q),
                       spent.faults)
  <2>1. RunHolds(q, stageRun[q], process[q], volume[q], tree[q], UpOf(boxes, q), spent.faults)
    BY DEF SandboxInv
  <2>2. CASE q = r
    <3>1. process[q].at = "rest" /\ UpOf(boxes, q) = {}
      BY <1>3, <2>1, <2>2 DEF RunHolds
    <3> QED BY <1>6, <1>7, <2>1, <2>2, <3>1 DEF RunHolds, ImplementRuns
  <2> QED BY <1>7, <2>1, <2>2
<1>13. \A q \in StageRuns :
          RunHolds(q, stageRun'[q], process'[q], volume'[q], tree'[q], UpOf(boxes', q),
                   spent'.faults)
  BY <1>8, <1>12
<1> QED BY <1>9, <1>11, <1>13 DEF SandboxInv

LEMMA SandboxStep == SandboxInv /\ [SandboxNext]_sandboxVars => SandboxInv'
<1> SUFFICES ASSUME SandboxInv, [SandboxNext]_sandboxVars
             PROVE  SandboxInv'
  OBVIOUS
<1>1. CASE ScheduleStage
  BY <1>1, ScheduleStageStep
<1>2. ASSUME NEW r \in StageRuns,
             LeaseStage(r) \/ CancelStage(r) \/ ExpireStage(r) \/ SandboxDies(r) \/ StageStep(r)
      PROVE  SandboxInv'
  BY <1>2, LeaseStageStep, CancelStageStep, ExpireStageStep, SandboxDiesStep, CreateVolumeStep,
     BeginStageStep, LoadInputsStep, ContainerEndsStep, NextContainerStep, RemoveContainerStep,
     DestroyVolumeStep, FinishStageStep, ReportStageStep DEF StageStep
<1>3. ASSUME NEW r \in StageRuns, ContainerTimesOut(r)
      PROVE  SandboxInv'
  BY <1>3, ContainerTimesOutStep
<1>4. ASSUME NEW r \in StageRuns, NEW by \in HitBy, Interrupt(r, by)
      PROVE  SandboxInv'
  BY <1>4, InterruptStep
<1>5. ASSUME NEW b \in boxes, StrayRuns(b)
      PROVE  SandboxInv'
  BY <1>5, StrayRunsStep
<1>6. CASE UNCHANGED sandboxVars
  BY <1>6 DEF sandboxVars, SandboxInv, SandboxTables, Used
<1> QED BY <1>1, <1>2, <1>3, <1>4, <1>5, <1>6 DEF SandboxNext, HitBy

(* The workspace an Implement succeeded with is as it was left, and no     *)
(* container of its run is up to write to it: for every number of runs,    *)
(* faults, lost leases and cancellations.                                  *)
THEOREM RecordedStaysQuiet == SandboxSpec => []RecordedIsQuiet
<1>1. SandboxInv => RecordedIsQuiet
  <2> SUFFICES ASSUME SandboxInv, NEW r \in Finished("implement")
               PROVE  /\ volume[r] = "made" /\ tree[r] = "changed"
                      /\ stageRun[r].workspace = r
                      /\ \A b \in boxes : b.run # r
    BY DEF RecordedIsQuiet
  <2>1. /\ r \in StageRuns
        /\ Accepted(r, stageRun[r], process[r].at, volume[r], tree[r], UpOf(boxes, r))
    BY RunBefore DEF Finished, Used, ImplementRuns
  <2>2. ASSUME NEW b \in boxes, b.run = r
        PROVE  FALSE
    <3>1. PICK q \in StageRuns, k \in Containers : b = Box(q, k)
      BY DEF SandboxInv, SandboxTables
    <3> QED BY <2>1, <2>2, <3>1 DEF Accepted, UpOf, Box
  <2> QED BY <2>1, <2>2 DEF Accepted
<1> QED BY <1>1, SandboxInitial, SandboxStep, PTL DEF SandboxSpec

(* A container nobody awaits is up only for one of the reasons there are.  *)
THEOREM StraysAreExcused == SandboxSpec => []NoStrays
<1>1. SandboxInv => NoStrays
  <2> SUFFICES ASSUME SandboxInv, NEW b \in boxes
               PROVE  \/ Awaited(b)
                      \/ b.kind = "chmod" /\ process[b.run].hits # {}
                      \/ spent.faults > 0
                      \/ process[b.run].at = "dead"
                      \/ Cardinality(process[b.run].hits) = 2
    BY DEF NoStrays
  <2>1. PICK r \in StageRuns, k \in Containers : b = Box(r, k)
    BY DEF SandboxInv, SandboxTables
  <2>2. b.run = r /\ b.kind = k /\ k \in UpOf(boxes, r)
    BY <2>1 DEF Box, UpOf
  <2>3. Excused(k, process[r], spent.faults)
    BY <2>2 DEF SandboxInv, RunHolds
  <2>4. Cardinality(HitBy) = 2
    <3>1. Cardinality({"heartbeat"}) = 1 /\ IsFiniteSet({"heartbeat"})
      BY FS_Singleton
    <3>2. HitBy = {"heartbeat"} \cup {"timeout"} /\ "timeout" \notin {"heartbeat"}
      BY DEF HitBy
    <3> QED BY <3>1, <3>2, FS_AddElement
  <2> QED BY <2>2, <2>3, <2>4 DEF Excused, Awaited
<1> QED BY <1>1, SandboxInitial, SandboxStep, PTL DEF SandboxSpec

(* Both, for every value of the constants: no container works on after     *)
(* nobody waits for it: none touches a recorded workspace, none outlives   *)
(* its run without an excuse (_run_container, destroy, recover).           *)
THEOREM NothingRunsOnAlone == SandboxSpec => []NothingRunsOn
<1>1. RecordedIsQuiet /\ NoStrays => NothingRunsOn
  BY DEF NothingRunsOn
<1> QED BY <1>1, RecordedStaysQuiet, StraysAreExcused, PTL

-----------------------------------------------------------------------------
(* VerificationEnvironment: a verification passes in the bundle its inputs *)
(* name.  What is recorded of a preparation stays, and nothing but the     *)
(* verification itself touches its bundle while it runs.                   *)

ChangeFields == {"name", "status", "why", "bundle"}
PrepStates == {"queued", "running"} \cup Ended

Prep == [purpose : Nat, state : PrepStates, temp : {"none", "there", "gone"},
         tempNoted : BOOLEAN, volume : {"none", "there", "empty", "gone"},
         noted : BOOLEAN, ready : BOOLEAN,
         outcome : {"none", "passed", "failed", "environment_blocked"},
         disposed : BOOLEAN, invalid : BOOLEAN, superseded : BOOLEAN]

EnvironmentTables ==
    /\ preps \in Seq(Prep)
    /\ change = [f \in ChangeFields |-> change[f]]
    /\ box = [f \in {"at", "job"} |-> box[f]]
    /\ verifies \in Nat
    /\ change.name \in {"explore", "implement", "verify"}

(* A receipt comes with the success of its job, which nothing undoes.      *)
ReceiptsStand == \A j \in DOMAIN preps : preps[j].ready => preps[j].state = "succeeded"

(* What the worker does, and what it does it to.                           *)
Preparing == {"leased", "made", "copied", "bundling", "freezing", "leaving"}
Reclaiming == {"removing", "recording"}
Verifying == {"loading", "mounting", "testing", "invalidated"}

BoxInv ==
    /\ box.at \in Preparing \cup Reclaiming => box.job \in DOMAIN preps
    /\ box.at = "implementing" => change.name = "implement" /\ change.status = "running"
    /\ box.at \in Verifying => change.name = "verify" /\ change.status = "running"
    /\ box.at \in {"mounting", "testing"} => box.job = change.bundle /\ ~Lost(box.job)

(* The first verification follows the change; a later one was scheduled    *)
(* with a bundle in which the baseline passed.                             *)
BundleInv ==
    /\ change.name # "verify" => verifies = 0
    /\ verifies > 1 => /\ change.bundle \in DOMAIN preps
                       /\ preps[change.bundle].ready
                       /\ preps[change.bundle].outcome = "passed"

EnvironmentInv == EnvironmentTables /\ ReceiptsStand /\ BoxInv /\ BundleInv

LEMMA EnvironmentInitial == EnvironmentInit => EnvironmentInv
<1> SUFFICES ASSUME EnvironmentInit
             PROVE  EnvironmentInv
  OBVIOUS
<1>1. /\ change = [f \in ChangeFields |-> change[f]] /\ change.name = "explore"
      /\ box = [f \in {"at", "job"} |-> box[f]] /\ box.at = "idle"
  BY DEF EnvironmentInit, Resting, ChangeFields
<1>2. preps = <<>> /\ verifies = 0
  BY DEF EnvironmentInit
<1> QED BY <1>1, <1>2 DEF EnvironmentInv, EnvironmentTables, ReceiptsStand, BoxInv,
           BundleInv, Preparing, Reclaiming, Verifying

(* A finite set of numbers has a greatest: by the well-founded inclusion   *)
(* of the sets of what is above each of them.                              *)
LEMMA GreatestExists ==
    ASSUME NEW S \in SUBSET Nat, IsFiniteSet(S), S # {}
    PROVE  \E j \in S : \A i \in S : i <= j
<1> DEFINE Above(j) == {i \in S : i > j}
           Tops == {Above(j) : j \in S}
<1>1. IsWellFoundedOn(StrictSubsetOrdering(S), FiniteSubsetsOf(S))
  BY FS_StrictSubsetOrderingWellFounded
<1>2. Tops \subseteq FiniteSubsetsOf(S) /\ Tops # {}
  <2>1. FiniteSubsetsOf(S) = SUBSET S
    BY FS_FiniteSubsetsOfFinite
  <2>2. \A j \in S : Above(j) \in SUBSET S
    OBVIOUS
  <2>3. \A U \in Tops : U \in SUBSET S
    BY <2>2
  <2>4. PICK j \in S : TRUE
    OBVIOUS
  <2>5. Above(j) \in Tops
    OBVIOUS
  <2> HIDE DEF Tops, Above
  <2> QED BY <2>1, <2>3, <2>5
<1>3. PICK T \in Tops : \A U \in Tops : <<U, T>> \notin StrictSubsetOrdering(S)
  BY <1>1, <1>2, WFMin
<1>4. PICK j \in S : T = Above(j)
  OBVIOUS
<1>5. ASSUME NEW i \in S, i > j
      PROVE  FALSE
  <2>1. Above(i) \subseteq Above(j) /\ i \in Above(j) /\ i \notin Above(i)
    <3>1. i \in Nat /\ j \in Nat /\ \A k \in S : k \in Nat
      OBVIOUS
    <3>2. \A k \in Nat : k > i => k > j
      BY <1>5, <3>1
    <3>3. \A k \in Above(i) : k \in S /\ k > j
      BY <3>1, <3>2
    <3>4. i \in Above(j) /\ i \notin Above(i)
      BY <1>5, <3>1
    <3>5. Above(i) \subseteq Above(j)
      BY <3>3
    <3> QED BY <3>4, <3>5
  <2>2. Above(i) \in Tops /\ Above(i) # T /\ Above(i) \in SUBSET S /\ T \in SUBSET S
    BY <1>4, <2>1
  <2> HIDE DEF Above, Tops
  <2>3. <<Above(i), T>> \in StrictSubsetOrdering(S)
    BY <1>4, <2>1, <2>2 DEF StrictSubsetOrdering
  <2> QED BY <1>3, <2>2, <2>3
<1> QED BY <1>5

(* Receipt is the last preparation that was recorded, if there is one.     *)
LEMMA ReceiptIsRecorded ==
    ASSUME EnvironmentTables, Receipt # 0
    PROVE  Receipt \in DOMAIN preps /\ preps[Receipt].ready
<1> DEFINE found == {j \in DOMAIN preps : preps[j].ready}
<1>1. Receipt = IF found = {} THEN 0 ELSE CHOOSE j \in found : \A i \in found : i <= j
  BY DEF Receipt, LastWhere
<1>2. DOMAIN preps = 1 .. Len(preps) /\ Len(preps) \in Nat
  BY DEF EnvironmentTables
<1>3. IsFiniteSet(found) /\ found \in SUBSET Nat
  <2>1. IsFiniteSet(DOMAIN preps)
    BY <1>2, FS_Interval
  <2>2. found \in SUBSET DOMAIN preps /\ DOMAIN preps \subseteq Nat
    BY <1>2
  <2> HIDE DEF found
  <2> QED BY <2>1, <2>2, FS_Subset
<1>4. found # {}
  BY <1>1
<1>5. \E j \in found : \A i \in found : i <= j
  <2> HIDE DEF found
  <2> QED BY <1>3, <1>4, GreatestExists
<1>6. Receipt \in found
  <2> HIDE DEF found
  <2> QED BY <1>1, <1>4, <1>5
<1> QED BY <1>6

(* What a step may do to a preparation.                                    *)
Steady(old, new) ==
    /\ new \in Prep
    /\ new.ready => new.state = "succeeded"
    /\ old.ready => new.ready /\ new.outcome = old.outcome

PrepsSteady ==
    /\ preps' \in Seq(Prep) /\ ReceiptsStand'
    /\ \A j \in DOMAIN preps :
         /\ j \in DOMAIN preps'
         /\ preps[j].ready => preps'[j].ready /\ preps'[j].outcome = preps[j].outcome

LEMMA PrepsRest ==
    ASSUME EnvironmentTables, ReceiptsStand, preps' = preps
    PROVE  PrepsSteady
BY DEF EnvironmentTables, ReceiptsStand, PrepsSteady

LEMMA OnePrep ==
    ASSUME EnvironmentTables, ReceiptsStand, NEW j, NEW x,
           j \in DOMAIN preps => Steady(preps[j], x),
           preps' = [preps EXCEPT ![j] = x]
    PROVE  PrepsSteady
<1>1. preps \in Seq(Prep) /\ DOMAIN preps' = DOMAIN preps
      /\ \A i \in DOMAIN preps : preps'[i] = IF i = j THEN x ELSE preps[i]
  BY DEF EnvironmentTables
<1>2. preps' \in Seq(Prep)
  <2>1. CASE j \in DOMAIN preps
    <3>1. x \in Prep
      BY <2>1 DEF Steady
    <3> QED BY <1>1, <2>1, <3>1
  <2>2. CASE j \notin DOMAIN preps
    <3>1. preps' = preps
      BY <1>1, <2>2
    <3> QED BY <1>1, <3>1
  <2> QED BY <2>1, <2>2
<1>3. ReceiptsStand'
  BY <1>1 DEF ReceiptsStand, Steady
<1>4. \A i \in DOMAIN preps :
         /\ i \in DOMAIN preps'
         /\ preps[i].ready => preps'[i].ready /\ preps'[i].outcome = preps[i].outcome
  BY <1>1 DEF Steady
<1> QED BY <1>2, <1>3, <1>4 DEF PrepsSteady

LEMMA EachPrep ==
    ASSUME EnvironmentTables, ReceiptsStand, DOMAIN preps' = DOMAIN preps,
           preps' = [j \in DOMAIN preps |-> preps'[j]],
           \A j \in DOMAIN preps : Steady(preps[j], preps'[j])
    PROVE  PrepsSteady
<1>1. DOMAIN preps = 1 .. Len(preps) /\ Len(preps) \in Nat
  BY DEF EnvironmentTables
<1>2. \A j \in 1 .. Len(preps) : preps'[j] \in Prep
  BY <1>1 DEF Steady
<1>3. preps' \in [1 .. Len(preps) -> Prep]
  BY <1>1, <1>2
<1>4. preps' \in Seq(Prep)
  BY <1>1, <1>3
<1> QED BY <1>4 DEF PrepsSteady, ReceiptsStand, Steady

LEMMA NewPrepIs ==
    ASSUME NEW purpose \in Nat
    PROVE  NewPrep(purpose) \in Prep /\ ~NewPrep(purpose).ready
BY DEF NewPrep, Prep, PrepStates

LEMMA MorePreps ==
    ASSUME EnvironmentTables, ReceiptsStand, NEW purpose \in Nat,
           preps' = Append(preps, NewPrep(purpose))
    PROVE  PrepsSteady
<1> DEFINE x == NewPrep(purpose)
<1>1. x \in Prep /\ ~x.ready
  BY NewPrepIs
<1> HIDE DEF x
<1>2. preps \in Seq(Prep) /\ preps' = Append(preps, x)
  BY DEF EnvironmentTables, x
<1>3. /\ preps' \in Seq(Prep)
      /\ \A j \in DOMAIN preps : j \in DOMAIN preps' /\ preps'[j] = preps[j]
      /\ \A j \in DOMAIN preps' : j \in DOMAIN preps \/ preps'[j] = x
  BY <1>1, <1>2
<1> QED BY <1>1, <1>3 DEF PrepsSteady, ReceiptsStand

(* Which steps keep the version's name and its bundle.                     *)
ChangeKeeps ==
    /\ change' = [f \in ChangeFields |-> change'[f]]
    /\ change'.name = change.name /\ change'.bundle = change.bundle /\ verifies' = verifies

LEMMA ChangeRests ==
    ASSUME EnvironmentTables, change' = change, verifies' = verifies
    PROVE  ChangeKeeps
BY DEF EnvironmentTables, ChangeKeeps

LEMMA StageEnds ==
    ASSUME EnvironmentTables, NEW status, NEW why, EndStage(status, why), verifies' = verifies
    PROVE  ChangeKeeps /\ change'.status = status
BY DEF EnvironmentTables, ChangeKeeps, EndStage, ChangeFields

LEMMA StatusSet ==
    ASSUME EnvironmentTables, NEW status, change' = [change EXCEPT !.status = status],
           verifies' = verifies
    PROVE  ChangeKeeps /\ change'.status = status
BY DEF EnvironmentTables, ChangeKeeps, ChangeFields

LEMMA BundleStays ==
    ASSUME EnvironmentInv, PrepsSteady, ChangeKeeps
    PROVE  BundleInv'
BY DEF EnvironmentInv, BundleInv, PrepsSteady, ChangeKeeps

(* The worker ends what it does, or prepares or reclaims.                  *)
LEMMA BoxMoves ==
    ASSUME EnvironmentInv, PrepsSteady, ChangeKeeps,
           box' = [f \in {"at", "job"} |-> box'[f]],
           box'.at \in Preparing \cup Reclaiming \cup {"idle", "implemented"},
           box'.at \in Preparing \cup Reclaiming => box'.job \in DOMAIN preps
    PROVE  EnvironmentInv'
<1>1. EnvironmentTables' /\ ReceiptsStand'
  BY DEF EnvironmentInv, EnvironmentTables, PrepsSteady, ChangeKeeps
<1>2. box'.at \notin Verifying \cup {"implementing"}
  BY DEF Preparing, Reclaiming, Verifying
<1>3. BoxInv'
  BY <1>2 DEF BoxInv, PrepsSteady, Verifying
<1> QED BY <1>1, <1>3, BundleStays DEF EnvironmentInv

(* The worker waits while a version is scheduled or a preparation asked    *)
(* for: it is not at work on the change.                                   *)
LEMMA WaitingMoves ==
    ASSUME EnvironmentInv, PrepsSteady, box' = box,
           change.status # "running" \/ change.name = "explore",
           EnvironmentTables', BundleInv'
    PROVE  EnvironmentInv'
<1>1. box.at \notin Verifying \cup {"implementing"}
  BY DEF EnvironmentInv, BoxInv
<1>2. BoxInv'
  BY <1>1 DEF EnvironmentInv, BoxInv, PrepsSteady, Verifying
<1> QED BY <1>2 DEF EnvironmentInv, PrepsSteady

(* A step that touches neither the version, nor the box, nor what the      *)
(* verification at work relies on.                                         *)
LEMMA NothingMoves ==
    ASSUME EnvironmentInv, UNCHANGED <<change, verifies, preps, box>>
    PROVE  EnvironmentInv'
<1>1. EnvironmentTables' /\ ReceiptsStand'
  BY DEF EnvironmentInv, EnvironmentTables, ReceiptsStand
<1>2. BoxInv' /\ BundleInv'
  BY DEF EnvironmentInv, BoxInv, BundleInv, Lost
<1> QED BY <1>1, <1>2 DEF EnvironmentInv

-----------------------------------------------------------------------------
(* What the worker changes in one preparation.                             *)

LEMMA PrepFields ==
    ASSUME EnvironmentTables, ReceiptsStand, NEW j \in DOMAIN preps
    PROVE  preps[j] \in Prep /\ (preps[j].ready => preps[j].state = "succeeded")
BY DEF EnvironmentTables, ReceiptsStand

LEMMA StateMoves ==
    ASSUME NEW p \in Prep, p.ready => p.state = "succeeded", NEW state \in PrepStates,
           p.state = "succeeded" => state = "succeeded"
    PROVE  Steady(p, [p EXCEPT !.state = state])
BY DEF Prep, Steady

LEMMA TempMoves ==
    ASSUME NEW p \in Prep, p.ready => p.state = "succeeded",
           NEW temp \in {"none", "there", "gone"}
    PROVE  /\ Steady(p, [p EXCEPT !.temp = temp])
           /\ Steady(p, [p EXCEPT !.tempNoted = TRUE])
BY DEF Prep, Steady

LEMMA VolumeMoves ==
    ASSUME NEW p \in Prep, p.ready => p.state = "succeeded",
           NEW mount \in {"none", "there", "empty", "gone"}
    PROVE  /\ Steady(p, [p EXCEPT !.volume = mount])
           /\ Steady(p, [p EXCEPT !.noted = TRUE])
           /\ Steady(p, [p EXCEPT !.disposed = TRUE])
           /\ Steady(p, [p EXCEPT !.invalid = TRUE])
BY DEF Prep, Steady

LEMMA OutcomeMoves ==
    ASSUME NEW p \in Prep, ~p.ready, NEW outcome \in {"passed", "failed", "environment_blocked"}
    PROVE  Steady(p, [p EXCEPT !.ready = TRUE, !.outcome = outcome, !.state = "succeeded"])
BY DEF Prep, Steady, PrepStates, Ended

LEMMA SupersededMoves ==
    ASSUME NEW p \in Prep, p.ready => p.state = "succeeded", NEW b \in BOOLEAN
    PROVE  Steady(p, [p EXCEPT !.superseded = b])
BY DEF Prep, Steady

LEMMA LeavingMoves ==
    ASSUME NEW p \in Prep, p.ready => p.state = "succeeded",
           NEW temp \in {"none", "there", "gone"}, NEW state \in PrepStates,
           p.state = "succeeded" => state = "succeeded"
    PROVE  Steady(p, [p EXCEPT !.temp = temp, !.state = state])
BY DEF Prep, Steady

LEMMA PreparationSteps ==
    ASSUME EnvironmentInv,
           \/ \E j \in DOMAIN preps : LeasePrep(j)
           \/ MakeTemp \/ NoteTemp \/ CreateBundle \/ NoteBundle
    PROVE  EnvironmentInv'
<1>1. EnvironmentTables /\ ReceiptsStand /\ BoxInv
  BY DEF EnvironmentInv
<1>2. box = [f \in {"at", "job"} |-> box[f]]
  BY <1>1 DEF EnvironmentTables
<1>3. CASE \E j \in DOMAIN preps : LeasePrep(j)
  <2>1. PICK j \in DOMAIN preps : LeasePrep(j)
    BY <1>3
  <2> DEFINE x == [preps[j] EXCEPT !.state = "running"]
  <2>2. preps' = [preps EXCEPT ![j] = x] /\ preps[j].state = "queued"
    BY <2>1 DEF LeasePrep
  <2>3. Steady(preps[j], x)
    BY <1>1, <2>2, PrepFields, StateMoves DEF PrepStates
  <2>4. /\ box' = [f \in {"at", "job"} |-> box'[f]] /\ box'.at = "leased" /\ box'.job = j
        /\ change' = change /\ verifies' = verifies
    BY <2>1 DEF LeasePrep
  <2> HIDE DEF x
  <2>5. PrepsSteady
    BY <1>1, <2>2, <2>3, OnePrep
  <2> QED BY <1>1, <2>1, <2>4, <2>5, ChangeRests, BoxMoves DEF Preparing, PrepsSteady
<1>4. CASE MakeTemp \/ NoteTemp \/ CreateBundle \/ NoteBundle
  <2> DEFINE j == box.job
  <2>1. j \in DOMAIN preps
    BY <1>1, <1>4 DEF BoxInv, Preparing, MakeTemp, NoteTemp, CreateBundle, NoteBundle
  <2>2. preps[j] \in Prep /\ (preps[j].ready => preps[j].state = "succeeded")
    BY <1>1, <2>1, PrepFields
  <2>3. \E x : Steady(preps[j], x) /\ preps' = [preps EXCEPT ![j] = x]
    <3>1. CASE MakeTemp
      BY <2>2, <3>1, TempMoves DEF MakeTemp
    <3>2. CASE NoteTemp
      BY <2>2, <3>2, TempMoves DEF NoteTemp
    <3>3. CASE CreateBundle
      BY <2>2, <3>3, VolumeMoves DEF CreateBundle
    <3>4. CASE NoteBundle
      BY <2>2, <3>4, VolumeMoves DEF NoteBundle
    <3> QED BY <1>4, <3>1, <3>2, <3>3, <3>4
  <2>4. PrepsSteady
    BY <1>1, <2>3, OnePrep
  <2>5. /\ box' = [f \in {"at", "job"} |-> box'[f]] /\ box'.at \in Preparing /\ box'.job = j
        /\ change' = change /\ verifies' = verifies
    BY <1>2, <1>4 DEF MakeTemp, NoteTemp, CreateBundle, NoteBundle, Preparing
  <2> QED BY <1>1, <2>1, <2>4, <2>5, ChangeRests, BoxMoves DEF PrepsSteady
<1> QED BY <1>3, <1>4

LEMMA FinishPrepStep ==
    ASSUME EnvironmentInv, NEW outcome \in {"passed", "failed", "environment_blocked"},
           FinishPrep(outcome)
    PROVE  EnvironmentInv'
<1> DEFINE j == box.job
           x == [preps[j] EXCEPT !.ready = TRUE, !.outcome = outcome, !.state = "succeeded"]
<1>1. EnvironmentTables /\ ReceiptsStand /\ BoxInv
  BY DEF EnvironmentInv
<1>2. /\ j \in DOMAIN preps /\ preps[j].state = "running"
      /\ change' = change /\ verifies' = verifies
  BY <1>1 DEF BoxInv, Preparing, FinishPrep, Current
<1>3. preps[j] \in Prep /\ ~preps[j].ready
  BY <1>1, <1>2, PrepFields
<1>4. Steady(preps[j], x)
  BY <1>3, OutcomeMoves
<1>5. preps' = [preps EXCEPT ![j] = x]
  <2>1. preps \in Seq(Prep)
    BY <1>1 DEF EnvironmentTables
  <2> QED BY <1>2, <2>1 DEF FinishPrep
<1>6. /\ box' = [f \in {"at", "job"} |-> box'[f]] /\ box'.at = "leaving" /\ box'.job = j
  BY <1>1 DEF FinishPrep, EnvironmentTables
<1> HIDE DEF x, j
<1>7. PrepsSteady
  BY <1>1, <1>4, <1>5, OnePrep
<1> QED BY <1>1, <1>2, <1>6, <1>7, ChangeRests, BoxMoves DEF Preparing, PrepsSteady

LEMMA RemovalKeeps ==
    ASSUME EnvironmentTables, ReceiptsStand, NEW j \in DOMAIN preps, Removal(j)
    PROVE  PrepsSteady
<1>1. CASE preps' = preps
  BY <1>1, PrepsRest
<1>2. CASE preps' = [preps EXCEPT ![j].volume = IF @ = "none" THEN "none" ELSE "gone"]
  <2> DEFINE mount == IF preps[j].volume = "none" THEN "none" ELSE "gone"
             x == [preps[j] EXCEPT !.volume = mount]
  <2>1. preps' = [preps EXCEPT ![j] = x]
    BY <1>2
  <2>2. mount \in {"none", "there", "empty", "gone"}
    OBVIOUS
  <2> HIDE DEF mount
  <2>3. Steady(preps[j], x)
    BY <2>2, PrepFields, VolumeMoves
  <2> HIDE DEF x
  <2> QED BY <2>1, <2>3, OnePrep
<1> QED BY <1>1, <1>2 DEF Removal

LEMMA LeavingSteps ==
    ASSUME EnvironmentInv, GiveUpPrep \/ LeavePrep
    PROVE  EnvironmentInv'
<1> DEFINE j == box.job
<1>1. EnvironmentTables /\ ReceiptsStand /\ BoxInv
  BY DEF EnvironmentInv
<1>2. j \in DOMAIN preps /\ change' = change /\ verifies' = verifies
  BY <1>1 DEF BoxInv, Preparing, GiveUpPrep, LeavePrep
<1>3. PrepsSteady
  <2>1. CASE GiveUpPrep
    BY <1>1, <1>2, <2>1, RemovalKeeps DEF GiveUpPrep
  <2>2. CASE LeavePrep
    <3> DEFINE temp == IF preps[j].temp = "none" THEN "none" ELSE "gone"
               state == IF preps[j].state = "succeeded" THEN preps[j].state
                        ELSE IF halt.cancelled THEN "cancelled" ELSE "failed"
               x == [preps[j] EXCEPT !.temp = temp, !.state = state]
    <3>1. preps' = [preps EXCEPT ![j] = x]
      <4>1. preps \in Seq(Prep)
        BY <1>1 DEF EnvironmentTables
      <4> QED BY <1>2, <2>2, <4>1 DEF LeavePrep
    <3>2. /\ temp \in {"none", "there", "gone"} /\ state \in PrepStates
          /\ preps[j].state = "succeeded" => state = "succeeded"
      BY DEF PrepStates, Ended
    <3> HIDE DEF temp, state
    <3>3. Steady(preps[j], x)
      BY <1>1, <1>2, <3>2, PrepFields, LeavingMoves
    <3> HIDE DEF x, j
    <3> QED BY <1>1, <3>1, <3>3, OnePrep
  <2> QED BY <2>1, <2>2
<1>4. /\ box' = [f \in {"at", "job"} |-> box'[f]]
      /\ (box'.at = "leaving" /\ box'.job = j) \/ box'.at = "idle"
  BY <1>1 DEF GiveUpPrep, LeavePrep, EnvironmentTables, Resting
<1> HIDE DEF j
<1> QED BY <1>1, <1>2, <1>3, <1>4, ChangeRests, BoxMoves DEF Preparing, Reclaiming, PrepsSteady

LEMMA ReclaimingSteps ==
    ASSUME EnvironmentInv,
           RemoveBundle \/ RecordDisposal
             \/ \E j \in DOMAIN preps : DecideDisposal(j) \/ CleanTemp(j)
    PROVE  EnvironmentInv'
<1>1. EnvironmentTables /\ ReceiptsStand /\ BoxInv
  BY DEF EnvironmentInv
<1>2. change' = change /\ verifies' = verifies
  BY DEF RemoveBundle, RecordDisposal, DecideDisposal, CleanTemp
<1>3. CASE RemoveBundle
  <2>1. box.job \in DOMAIN preps /\ Removal(box.job)
    BY <1>1, <1>3 DEF BoxInv, Reclaiming, RemoveBundle
  <2>2. /\ box' = [f \in {"at", "job"} |-> box'[f]]
        /\ box'.at = "recording" /\ box'.job = box.job
    BY <1>1, <1>3 DEF RemoveBundle, EnvironmentTables
  <2> QED BY <1>1, <1>2, <2>1, <2>2, RemovalKeeps, ChangeRests, BoxMoves
          DEF Reclaiming, PrepsSteady
<1>4. CASE RecordDisposal
  <2> DEFINE x == [preps[box.job] EXCEPT !.disposed = TRUE]
  <2>1. box.job \in DOMAIN preps /\ preps' = [preps EXCEPT ![box.job] = x]
    BY <1>1, <1>4 DEF BoxInv, Reclaiming, RecordDisposal
  <2>2. Steady(preps[box.job], x)
    BY <1>1, <2>1, PrepFields, VolumeMoves
  <2>3. box' = [f \in {"at", "job"} |-> box'[f]] /\ box'.at = "idle"
    BY <1>4 DEF RecordDisposal, Resting
  <2> HIDE DEF x
  <2> QED BY <1>1, <1>2, <2>1, <2>2, <2>3, OnePrep, ChangeRests, BoxMoves
          DEF Preparing, Reclaiming
<1>5. CASE \E j \in DOMAIN preps : DecideDisposal(j)
  <2>1. PICK j \in DOMAIN preps : DecideDisposal(j)
    BY <1>5
  <2>2. preps' = preps /\ box' = [at |-> "removing", job |-> j]
    BY <2>1 DEF DecideDisposal
  <2> QED BY <1>1, <1>2, <2>2, PrepsRest, ChangeRests, BoxMoves DEF Reclaiming
<1>6. CASE \E j \in DOMAIN preps : CleanTemp(j)
  <2>1. PICK j \in DOMAIN preps : CleanTemp(j)
    BY <1>6
  <2> DEFINE x == [preps[j] EXCEPT !.temp = "gone"]
  <2>2. preps' = [preps EXCEPT ![j] = x] /\ box' = box /\ box = Resting
    BY <2>1 DEF CleanTemp
  <2>3. Steady(preps[j], x)
    BY <1>1, PrepFields, TempMoves
  <2>4. box' = [f \in {"at", "job"} |-> box'[f]] /\ box'.at = "idle"
    BY <2>2 DEF Resting
  <2> HIDE DEF x
  <2> QED BY <1>1, <1>2, <2>2, <2>3, <2>4, OnePrep, ChangeRests, BoxMoves
          DEF Preparing, Reclaiming
<1> QED BY <1>3, <1>4, <1>5, <1>6

(* The worker ends what it does, with a status or for the next process.    *)
LEMMA EndingSteps ==
    ASSUME EnvironmentInv,
           \/ (\E s \in {"succeeded", "failed", "cancelled"} : EndImplement(s))
           \/ PassVerify \/ FailVerify \/ FailStale \/ Dies
    PROVE  EnvironmentInv'
<1>1. EnvironmentTables /\ ReceiptsStand /\ BoxInv
  BY DEF EnvironmentInv
<1>2. preps' = preps /\ verifies' = verifies
  BY DEF EndImplement, PassVerify, FailVerify, FailStale, Dies
<1>3. ChangeKeeps
  <2>1. ASSUME NEW s, EndImplement(s)
        PROVE  ChangeKeeps
    BY <1>1, <1>2, <2>1, StageEnds DEF EndImplement
  <2>2. CASE PassVerify
    BY <1>1, <1>2, <2>2, StageEnds DEF PassVerify
  <2>3. CASE FailVerify
    BY <1>1, <1>2, <2>3, StageEnds DEF FailVerify
  <2>4. CASE FailStale
    BY <1>1, <1>2, <2>4, StageEnds DEF FailStale
  <2>5. CASE Dies
    BY <1>1, <1>2, <2>5, ChangeRests DEF Dies
  <2> QED BY <2>1, <2>2, <2>3, <2>4, <2>5
<1>4. box' = [f \in {"at", "job"} |-> box'[f]] /\ box'.at \in {"idle", "implemented"}
  BY <1>1 DEF EndImplement, PassVerify, FailVerify, FailStale, Dies, EnvironmentTables, Resting
<1>5. box'.at \notin Preparing \cup Reclaiming
  BY <1>4 DEF Preparing, Reclaiming
<1> QED BY <1>1, <1>2, <1>3, <1>4, <1>5, PrepsRest, BoxMoves

LEMMA ExpiringSteps ==
    ASSUME EnvironmentInv, ExpireSome
    PROVE  EnvironmentInv'
<1>1. EnvironmentTables /\ ReceiptsStand
  BY DEF EnvironmentInv
<1>2. box' = Resting /\ verifies' = verifies
  BY DEF ExpireSome, ExpireStageJob, ExpirePrep
<1>3. /\ box' = [f \in {"at", "job"} |-> box'[f]] /\ box'.at = "idle"
      /\ "idle" \notin Preparing \cup Reclaiming
  BY <1>2 DEF Resting, Preparing, Reclaiming
<1>4. CASE ExpireStageJob
  <2>1. ChangeKeeps /\ preps' = preps
    BY <1>1, <1>2, <1>4, StageEnds DEF ExpireStageJob
  <2> QED BY <1>1, <1>3, <2>1, PrepsRest, BoxMoves
<1>5. CASE \E j \in DOMAIN preps : ExpirePrep(j)
  <2>1. PICK j \in DOMAIN preps : ExpirePrep(j)
    BY <1>5
  <2> DEFINE state == IF halt.cancelled THEN "cancelled" ELSE "timed_out"
             x == [preps[j] EXCEPT !.state = state]
  <2>2. /\ preps' = [preps EXCEPT ![j] = x] /\ preps[j].state = "running"
        /\ state \in PrepStates /\ change' = change
    BY <2>1 DEF ExpirePrep, PrepStates, Ended
  <2> HIDE DEF state
  <2>3. Steady(preps[j], x)
    BY <1>1, <2>2, PrepFields, StateMoves
  <2> HIDE DEF x
  <2> QED BY <1>1, <1>2, <1>3, <2>2, <2>3, OnePrep, ChangeRests, BoxMoves
<1> QED BY <1>4, <1>5 DEF ExpireSome

(* The worker begins to change the code, or to verify the change.          *)
LEMMA BeginningSteps ==
    ASSUME EnvironmentInv, BeginImplement \/ BeginVerify
    PROVE  EnvironmentInv'
<1>1. EnvironmentTables /\ ReceiptsStand /\ preps' = preps /\ verifies' = verifies
  BY DEF EnvironmentInv, BeginImplement, BeginVerify
<1>2. ChangeKeeps /\ change'.status = "running"
  BY <1>1, StatusSet DEF BeginImplement, BeginVerify
<1>3. /\ box' = [f \in {"at", "job"} |-> box'[f]]
      /\ \/ box'.at = "implementing" /\ change.name = "implement"
         \/ box'.at = "loading" /\ change.name = "verify"
  BY DEF BeginImplement, BeginVerify
<1>4. PrepsSteady /\ BundleInv'
  BY <1>1, <1>2, PrepsRest, BundleStays
<1>5. EnvironmentTables'
  BY <1>1, <1>2, <1>3 DEF EnvironmentTables, ChangeKeeps
<1>6. BoxInv'
  BY <1>2, <1>3 DEF BoxInv, Preparing, Reclaiming, Verifying, ChangeKeeps
<1> QED BY <1>4, <1>5, <1>6 DEF EnvironmentInv, PrepsSteady

(* The bundle is the one the inputs name, and is there to be mounted.      *)
LEMMA LoadBundleStep ==
    ASSUME EnvironmentInv, LoadBundle
    PROVE  EnvironmentInv'
<1>1. EnvironmentTables /\ ReceiptsStand /\ BoxInv /\ preps' = preps /\ verifies' = verifies
  BY DEF EnvironmentInv, LoadBundle
<1>2. CASE Lost(Receipt) \/ Receipt # change.bundle
  <2>1. ChangeKeeps
    BY <1>1, <1>2, StageEnds DEF LoadBundle
  <2>2. /\ box' = [f \in {"at", "job"} |-> box'[f]] /\ box'.at = "idle"
        /\ "idle" \notin Preparing \cup Reclaiming
    BY <1>2 DEF LoadBundle, Resting, Preparing, Reclaiming
  <2> QED BY <1>1, <2>1, <2>2, PrepsRest, BoxMoves
<1>3. CASE ~Lost(Receipt) /\ Receipt = change.bundle
  <2>1. /\ box' = [at |-> "mounting", job |-> Receipt] /\ change' = change
        /\ change.name = "verify" /\ change.status = "running"
    BY <1>1, <1>3 DEF LoadBundle, BoxInv, Verifying
  <2>2. box' = [f \in {"at", "job"} |-> box'[f]] /\ box'.at = "mounting" /\ box'.job = Receipt
    BY <2>1
  <2>4. ~Lost(box.job)'
    BY <1>1, <1>3, <2>2 DEF Lost
  <2>5. BoxInv'
    BY <1>3, <2>1, <2>2, <2>4 DEF BoxInv, Preparing, Reclaiming, Verifying
  <2>6. PrepsSteady /\ ChangeKeeps
    BY <1>1, <2>1, PrepsRest, ChangeRests
  <2>7. EnvironmentTables'
    BY <1>1, <2>1, <2>2 DEF EnvironmentTables
  <2> QED BY <2>5, <2>6, <2>7, BundleStays DEF EnvironmentInv, PrepsSteady
<1> QED BY <1>2, <1>3

(* Docker makes a new volume for a bundle that went: nobody records that.  *)
LEMMA MountBundleStep ==
    ASSUME EnvironmentInv, MountBundle
    PROVE  EnvironmentInv'
<1> DEFINE j == box.job
           mount == IF preps[j].volume = "gone" THEN "empty" ELSE preps[j].volume
           x == [preps[j] EXCEPT !.volume = mount]
<1>1. /\ EnvironmentTables /\ ReceiptsStand /\ BoxInv
      /\ change' = change /\ verifies' = verifies
  BY DEF EnvironmentInv, MountBundle
<1>2. /\ j = change.bundle /\ ~Lost(j) /\ change.name = "verify" /\ change.status = "running"
  BY <1>1 DEF BoxInv, Verifying, MountBundle
<1>3. preps' = [preps EXCEPT ![j] = x]
  BY DEF MountBundle
<1>4. ASSUME j \in DOMAIN preps
      PROVE  Steady(preps[j], x) /\ x.disposed = preps[j].disposed /\ x.invalid = preps[j].invalid
  <2>1. preps[j] \in Prep /\ (preps[j].ready => preps[j].state = "succeeded")
    BY <1>1, <1>4, PrepFields
  <2>2. mount \in {"none", "there", "empty", "gone"}
    BY <2>1 DEF Prep
  <2> HIDE DEF mount
  <2>3. Steady(preps[j], x)
    BY <2>1, <2>2, VolumeMoves
  <2> QED BY <2>1, <2>3 DEF Prep
<1>5. box' = [f \in {"at", "job"} |-> box'[f]] /\ box'.at = "testing" /\ box'.job = j
  BY <1>1 DEF EnvironmentTables, MountBundle
<1> HIDE DEF x, mount
<1>6. preps \in Seq(Prep) /\ DOMAIN preps' = DOMAIN preps /\ (j \in DOMAIN preps => preps'[j] = x)
  BY <1>1, <1>3 DEF EnvironmentTables
<1>7. PrepsSteady
  BY <1>1, <1>3, <1>4, OnePrep
<1>8. ~Lost(box.job)'
  BY <1>2, <1>4, <1>5, <1>6 DEF Lost
<1> HIDE DEF j
<1>9. BoxInv'
  BY <1>1, <1>2, <1>5, <1>8 DEF BoxInv, Preparing, Reclaiming, Verifying
<1>10. EnvironmentTables'
  BY <1>1, <1>5, <1>7 DEF EnvironmentTables, PrepsSteady
<1> QED BY <1>1, <1>7, <1>9, <1>10, ChangeRests, BundleStays DEF EnvironmentInv, PrepsSteady

LEMMA InvalidateBundleStep ==
    ASSUME EnvironmentInv, InvalidateBundle
    PROVE  EnvironmentInv'
<1> DEFINE x == [preps[box.job] EXCEPT !.invalid = TRUE]
<1>1. /\ EnvironmentTables /\ ReceiptsStand /\ BoxInv
      /\ change' = change /\ verifies' = verifies
      /\ change.name = "verify" /\ change.status = "running"
  BY DEF EnvironmentInv, BoxInv, Verifying, InvalidateBundle
<1>2. preps' = [preps EXCEPT ![box.job] = x]
  BY DEF InvalidateBundle
<1>3. box.job \in DOMAIN preps => Steady(preps[box.job], x)
  BY <1>1, PrepFields, VolumeMoves
<1>4. box' = [f \in {"at", "job"} |-> box'[f]] /\ box'.at = "invalidated"
  BY <1>1 DEF EnvironmentTables, InvalidateBundle
<1> HIDE DEF x
<1>5. PrepsSteady
  BY <1>1, <1>2, <1>3, OnePrep
<1>6. BoxInv'
  BY <1>1, <1>4 DEF BoxInv, Preparing, Reclaiming, Verifying
<1>7. EnvironmentTables'
  BY <1>1, <1>4, <1>5 DEF EnvironmentTables, PrepsSteady
<1> QED BY <1>1, <1>5, <1>6, <1>7, ChangeRests, BundleStays DEF EnvironmentInv, PrepsSteady

LEMMA FollowUpStep ==
    ASSUME EnvironmentInv, FollowUp
    PROVE  EnvironmentInv'
<1>1. EnvironmentTables /\ ReceiptsStand /\ preps' = preps
  BY DEF EnvironmentInv, FollowUp
<1>2. /\ box' = [f \in {"at", "job"} |-> box'[f]] /\ box'.at = "idle"
      /\ "idle" \notin Preparing \cup Reclaiming \cup Verifying \cup {"implementing"}
  BY DEF FollowUp, Resting, Preparing, Reclaiming, Verifying
<1>3. CASE change.name = "implement" /\ change.status = "succeeded"
  <2>1. /\ change' = [name |-> "verify", status |-> "pending", why |-> "none", bundle |-> Receipt]
        /\ verifies' = verifies + 1 /\ verifies = 0
    BY <1>3 DEF EnvironmentInv, BundleInv, FollowUp, ScheduleVerification
  <2>2. EnvironmentTables'
    BY <1>1, <1>2, <2>1 DEF EnvironmentTables, ChangeFields
  <2>3. BoxInv'
    BY <1>2 DEF BoxInv
  <2>4. BundleInv'
    BY <2>1 DEF BundleInv
  <2> QED BY <1>1, <2>2, <2>3, <2>4, PrepsRest DEF EnvironmentInv, PrepsSteady
<1>4. CASE ~(change.name = "implement" /\ change.status = "succeeded")
  <2>1. ChangeKeeps
    BY <1>1, <1>4, ChangeRests DEF FollowUp
  <2> QED BY <1>1, <1>2, <2>1, PrepsRest, BoxMoves
<1> QED BY <1>3, <1>4

(* A preparation is asked for while nothing is at work on the change.      *)
LEMMA EnqueueSteps ==
    ASSUME EnvironmentInv,
           EnqueueRestore \/ RetryTransport \/ EnqueuePreparation
             \/ \E j \in DOMAIN preps : RepairPreparation(j)
    PROVE  EnvironmentInv'
<1>1. EnvironmentTables /\ ReceiptsStand /\ box' = box /\ change' = change /\ verifies' = verifies
  BY DEF EnvironmentInv, EnqueueRestore, RetryTransport, EnqueuePreparation, RepairPreparation
<1>2. change.status # "running" \/ change.name = "explore"
  BY DEF EnqueueRestore, RetryTransport, EnqueuePreparation, RepairPreparation,
         RecoveryDue, Stale, Explored
<1>3. PrepsSteady
  <2>1. CASE EnqueueRestore \/ RetryTransport \/ EnqueuePreparation
    <3>1. \E purpose \in Nat : preps' = Append(preps, NewPrep(purpose))
      BY <1>1, <2>1 DEF EnqueueRestore, RetryTransport, EnqueuePreparation, EnvironmentTables
    <3> QED BY <1>1, <3>1, MorePreps
  <2>2. CASE \E j \in DOMAIN preps : RepairPreparation(j)
    <3>1. PICK j \in DOMAIN preps : RepairPreparation(j)
      BY <2>2
    <3> DEFINE p == [preps[j] EXCEPT !.superseded = TRUE]
               x == NewPrep(0)
               mid == [preps EXCEPT ![j] = p]
    <3>2. preps' = Append(mid, x)
      BY <3>1 DEF RepairPreparation
    <3>3. Steady(preps[j], p) /\ x \in Prep /\ ~x.ready
      BY <1>1, PrepFields, SupersededMoves, NewPrepIs
    <3> HIDE DEF p, x
    <3>4. /\ mid \in Seq(Prep) /\ DOMAIN mid = DOMAIN preps
          /\ \A i \in DOMAIN preps : mid[i] = IF i = j THEN p ELSE preps[i]
      BY <1>1, <3>3 DEF EnvironmentTables, Steady
    <3> HIDE DEF mid
    <3>5. /\ preps' \in Seq(Prep)
          /\ \A i \in DOMAIN preps : i \in DOMAIN preps' /\ preps'[i] = mid[i]
          /\ \A i \in DOMAIN preps' : i \in DOMAIN preps \/ preps'[i] = x
      BY <3>2, <3>3, <3>4
    <3>6. ReceiptsStand'
      BY <1>1, <3>3, <3>4, <3>5 DEF ReceiptsStand, Steady
    <3> QED BY <3>3, <3>4, <3>5, <3>6 DEF PrepsSteady, Steady
  <2> QED BY <2>1, <2>2
<1>4. EnvironmentTables' /\ BundleInv'
  BY <1>1, <1>3, ChangeRests, BundleStays DEF EnvironmentTables, PrepsSteady
<1> QED BY <1>1, <1>2, <1>3, <1>4, WaitingMoves

(* The verification is scheduled again, in a bundle whose baseline passed. *)
LEMMA FinishRestoreStep ==
    ASSUME EnvironmentInv, FinishRestore
    PROVE  EnvironmentInv'
<1>1. /\ EnvironmentTables /\ ReceiptsStand /\ box' = box
      /\ Receipt # 0 /\ preps[Receipt].outcome = "passed" /\ change.status = "failed"
      /\ change' = [name |-> "verify", status |-> "pending", why |-> "none", bundle |-> Receipt]
      /\ verifies' = verifies + 1
  BY DEF EnvironmentInv, FinishRestore, Restored, RecoveryDue, Stale, ScheduleVerification
<1>2. Receipt \in DOMAIN preps /\ preps[Receipt].ready
  BY <1>1, ReceiptIsRecorded
<1>3. PrepsSteady
  <2> DEFINE over(j) == preps[j].superseded \/ j \in Restores \ {Receipt}
  <2>1. /\ preps' = [j \in DOMAIN preps |-> preps'[j]]
        /\ \A j \in DOMAIN preps : preps'[j] = [preps[j] EXCEPT !.superseded = over(j)]
    BY DEF FinishRestore
  <2>2. \A j \in DOMAIN preps : over(j) \in BOOLEAN
    OBVIOUS
  <2> HIDE DEF over
  <2>3. \A j \in DOMAIN preps : Steady(preps[j], preps'[j])
    BY <1>1, <2>1, <2>2, PrepFields, SupersededMoves
  <2>4. DOMAIN preps' = DOMAIN preps
    BY <2>1
  <2> QED BY <1>1, <2>1, <2>3, <2>4, EachPrep
<1> DEFINE r == Receipt
<1>4. change'.bundle = r /\ change'.name = "verify"
  BY <1>1
<1> HIDE DEF r
<1>5. BundleInv'
  <2>1. r \in DOMAIN preps' /\ preps'[r].ready /\ preps'[r].outcome = "passed"
    BY <1>1, <1>2, <1>3 DEF r, PrepsSteady
  <2> QED BY <1>4, <2>1 DEF BundleInv
<1>6. EnvironmentTables'
  BY <1>1, <1>3 DEF EnvironmentTables, PrepsSteady, ChangeFields
<1> QED BY <1>1, <1>3, <1>5, <1>6, WaitingMoves

LEMMA ChangeSteps ==
    ASSUME EnvironmentInv, AcceptChange \/ ScheduleChange
    PROVE  EnvironmentInv'
<1>1. EnvironmentTables /\ ReceiptsStand /\ box' = box /\ preps' = preps
  BY DEF EnvironmentInv, AcceptChange, ScheduleChange
<1>2. change.status # "running" \/ change.name = "explore"
  BY DEF AcceptChange, ScheduleChange, Explored
<1>3. verifies = 0
  BY DEF EnvironmentInv, BundleInv, AcceptChange, ScheduleChange, Explored
<1>4. EnvironmentTables' /\ BundleInv'
  <2>1. CASE AcceptChange
    <3>1. /\ change' = [f \in ChangeFields |-> change'[f]] /\ change'.name = "implement"
          /\ verifies' = 0
      BY <1>1, <1>3, <2>1 DEF AcceptChange, EnvironmentTables, ChangeFields
    <3> QED BY <1>1, <3>1 DEF EnvironmentTables, BundleInv
  <2>2. CASE ScheduleChange
    BY <1>1, <1>3, <2>2
       DEF ScheduleChange, ScheduleVerification, EnvironmentTables, BundleInv, ChangeFields
  <2> QED BY <2>1, <2>2
<1> QED BY <1>1, <1>2, <1>4, PrepsRest, WaitingMoves

(* A stop cancels what is queued and pending, not what is at work.         *)
LEMMA CancelWorkStep ==
    ASSUME EnvironmentInv, CancelWork
    PROVE  EnvironmentInv'
<1>1. EnvironmentTables /\ ReceiptsStand /\ BoxInv /\ box' = box /\ verifies' = verifies
  BY DEF EnvironmentInv, CancelWork
<1>2. /\ ChangeKeeps
      /\ change.status = "running" => change'.status = "running"
  BY <1>1 DEF CancelWork, EnvironmentTables, ChangeKeeps, ChangeFields
<1> DEFINE state(j) == IF preps[j].state = "queued" THEN "cancelled" ELSE preps[j].state
<1>3. /\ preps' = [j \in DOMAIN preps |-> preps'[j]]
      /\ \A j \in DOMAIN preps : preps'[j] = [preps[j] EXCEPT !.state = state(j)]
  BY DEF CancelWork
<1>4. \A j \in DOMAIN preps : /\ preps[j] \in Prep /\ state(j) \in PrepStates
                              /\ preps[j].state = "succeeded" => state(j) = "succeeded"
  <2>1. \A j \in DOMAIN preps : preps[j] \in Prep
    BY <1>1, PrepFields
  <2> QED BY <2>1 DEF Prep, PrepStates, Ended
<1> HIDE DEF state
<1>5. \A j \in DOMAIN preps : Steady(preps[j], preps'[j])
  BY <1>1, <1>3, <1>4, PrepFields, StateMoves
<1>6. DOMAIN preps' = DOMAIN preps
  BY <1>3
<1>7. PrepsSteady
  BY <1>1, <1>3, <1>5, <1>6, EachPrep
<1>8. ~Lost(box.job) => ~Lost(box.job)'
  <2>1. \A j \in DOMAIN preps : /\ preps'[j].disposed = preps[j].disposed
                                /\ preps'[j].invalid = preps[j].invalid
    BY <1>3, <1>4 DEF Prep
  <2> QED BY <1>1, <1>6, <2>1 DEF Lost
<1>9. BoxInv'
  BY <1>1, <1>2, <1>6, <1>8 DEF BoxInv, ChangeKeeps
<1>10. EnvironmentTables'
  BY <1>1, <1>2, <1>7 DEF EnvironmentTables, ChangeKeeps, PrepsSteady
<1> QED BY <1>2, <1>7, <1>9, <1>10, BundleStays DEF EnvironmentInv, PrepsSteady

LEMMA EnvironmentStep ==
    ASSUME EnvironmentInv, [EnvironmentNext]_environmentVars
    PROVE  EnvironmentInv'
<1>1. ASSUME BoxStep
      PROVE  EnvironmentInv'
  BY <1>1, PreparationSteps, FinishPrepStep, LeavingSteps, ReclaimingSteps, EndingSteps,
     BeginningSteps, LoadBundleStep, MountBundleStep, InvalidateBundleStep, FollowUpStep
     DEF BoxStep
<1>2. ASSUME \/ RecoveryFails \/ BlockFailed \/ BlockBaseline \/ Stop \/ Resume
             \/ \E r \in {"coding_failed", "model_stale", "workflow_failed"} : BlockElsewhere(r)
             \/ UNCHANGED environmentVars
      PROVE  EnvironmentInv'
  <2>1. UNCHANGED <<change, verifies, preps, box>>
    BY <1>2 DEF RecoveryFails, BlockFailed, BlockBaseline, Stop, Resume, BlockElsewhere,
                environmentVars
  <2> QED BY <2>1, NothingMoves
<1>3. ASSUME CoordinatorStep
      PROVE  EnvironmentInv'
  BY <1>2, <1>3, EnqueueSteps, FinishRestoreStep, ChangeSteps, CancelWorkStep
     DEF CoordinatorStep
<1> QED BY <1>1, <1>2, <1>3, EndingSteps, ExpiringSteps, EnqueueSteps DEF EnvironmentNext

(* A change is reported verified only from a run in the bundle its inputs  *)
(* name, still frozen and neither reclaimed nor found unusable, and after  *)
(* a restoration only in one whose baseline passed (verification.py,       *)
(* execution_recovery.py): for any number of runs, deaths and blockers.    *)
THEOREM VerifiesInItsBundle == EnvironmentSpec => VerifiedInItsBundle
<1> DEFINE Verified ==
        change.status = "running" /\ change'.name = "verify" /\ change'.status = "succeeded" =>
          /\ preps[change.bundle].volume = "there" /\ ~Lost(change.bundle)
          /\ verifies > 1 => preps[change.bundle].outcome = "passed"
<1>1. EnvironmentInv /\ [EnvironmentNext]_environmentVars => [Verified]_environmentVars
  <2> SUFFICES ASSUME EnvironmentInv, EnvironmentNext, change.status = "running",
                      change'.name = "verify", change'.status = "succeeded"
               PROVE  /\ preps[change.bundle].volume = "there" /\ ~Lost(change.bundle)
                      /\ verifies > 1 => preps[change.bundle].outcome = "passed"
    OBVIOUS
  <2>1. EnvironmentTables /\ BoxInv /\ BundleInv
    BY DEF EnvironmentInv
  <2>2. ASSUME change' = change
        PROVE  FALSE
    BY <2>2
  <2>3. ASSUME NEW status, NEW why, EndStage(status, why)
        PROVE  status = "succeeded" /\ change.name = "verify"
    BY <2>1, <2>3 DEF EndStage, EnvironmentTables, ChangeFields
  <2>4. CASE PassVerify
    BY <2>1, <2>4 DEF PassVerify, BoxInv, BundleInv
  <2>5. ASSUME NEW s \in {"succeeded", "failed", "cancelled"}, EndImplement(s)
        PROVE  FALSE
    BY <2>1, <2>3, <2>5 DEF EndImplement, BoxInv
  <2>6. ASSUME FailVerify \/ FailStale \/ ExpireStageJob
        PROVE  FALSE
    BY <2>3, <2>6 DEF FailVerify, FailStale, ExpireStageJob
  <2>7. ASSUME LoadBundle
        PROVE  FALSE
    BY <2>2, <2>3, <2>7 DEF LoadBundle
  <2>8. ASSUME FollowUp \/ FinishRestore \/ ScheduleChange \/ AcceptChange
        PROVE  FALSE
    <3>1. CASE AcceptChange
      BY <2>1, <3>1 DEF AcceptChange, EnvironmentTables, ChangeFields
    <3> QED BY <2>2, <2>8, <3>1 DEF FollowUp, FinishRestore, ScheduleChange,
            ScheduleVerification
  <2>9. ASSUME CancelWork \/ BeginImplement \/ BeginVerify
        PROVE  FALSE
    BY <2>1, <2>9 DEF CancelWork, BeginImplement, BeginVerify, EnvironmentTables, ChangeFields
  <2> HIDE DEF Verified
  <2>10. CASE BoxStep
    <3>1. ASSUME change' = change \/ \E s \in {"succeeded", "failed", "cancelled"} : EndImplement(s)
          PROVE  FALSE
      BY <2>2, <2>5, <3>1
    <3> QED BY <2>4, <2>6, <2>7, <2>8, <2>9, <2>10, <3>1
            DEF BoxStep, LeasePrep, DecideDisposal, CleanTemp, MakeTemp, NoteTemp, CreateBundle,
                NoteBundle, FinishPrep, GiveUpPrep, LeavePrep, RemoveBundle, RecordDisposal,
                MountBundle, InvalidateBundle
  <2>11. CASE CoordinatorStep
    BY <2>2, <2>8, <2>9, <2>11
       DEF CoordinatorStep, EnqueueRestore, RecoveryFails, BlockFailed, EnqueuePreparation,
           BlockBaseline
  <2>12. CASE ExpireSome
    BY <2>2, <2>6, <2>12 DEF ExpireSome, ExpirePrep
  <2> QED BY <2>2, <2>10, <2>11, <2>12
          DEF EnvironmentNext, Dies, RetryTransport, Stop, Resume, BlockElsewhere,
              RepairPreparation
<1>2. EnvironmentSpec => [][Verified]_environmentVars
  <2> HIDE DEF Verified
  <2> QED BY <1>1, EnvironmentInitial, EnvironmentStep, PTL DEF EnvironmentSpec
<1> QED BY <1>2 DEF VerifiedInItsBundle

=============================================================================

--------------------------- MODULE EvidenceChain ---------------------------
(***************************************************************************)
(* The records of contribution tasks, from the lock of a plan to the       *)
(* events of a pull request, and the audit chain all tasks share.  Every   *)
(* record names earlier ones and versions of the state of its task; most   *)
(* leave an audit event, and whoever uses a record first verifies it with  *)
(* everything it rests on, the whole audit chain included.                 *)
(*                                                                         *)
(* A request reads, prepares its audit event from the newest one, and      *)
(* commits: other requests may commit in between, and the constraints of   *)
(* the tables decide.  A record is named by its place in its task.         *)
(***************************************************************************)
EXTENDS Naturals, Sequences, FiniteSets, Functions

CONSTANTS
    Tasks,
    Requesters,       \* requests under way
    MaxTries,      \* MAX_EXECUTION_ATTEMPTS
    MaxNews,       \* bound: events of a pull request
    LoneStates,    \* bound: versions of the state of a task that is alone
    LoneAudit,     \* bound: audit events then
    SharedStates,  \* bound: versions of the states of tasks side by side
    SharedAudit    \* bound: audit events then

ASSUME EvidenceAssumption ==
    /\ MaxTries \in Nat \ {0} /\ MaxNews \in Nat
    /\ LoneStates \in Nat /\ LoneAudit \in Nat /\ SharedStates \in Nat /\ SharedAudit \in Nat

VARIABLES
    states,    \* states[t]: the states of the task, in the order of its versions
    records,   \* records[t]: its records, in the order they were committed
    shown,     \* its visibility
    audit,     \* the audit events there are, by their numbers
    verified,  \* <<t, n>>: attempts whose Implement and Verify succeeded
    asked      \* asked[c]: what a request read and is about to commit

evidenceVars == <<states, records, shown, audit, verified, asked>>

Follows ==
    [planning          |-> {"plan_approved"},
     plan_approved     |-> {"planning", "executing"},
     executing         |-> {"reviewing", "planning"},
     reviewing         |-> {"executing", "ready", "planning"},
     ready             |-> {"planning", "draft_pr"},
     draft_pr          |-> {"changes_requested", "merged"},
     changes_requested |-> {"planning", "executing"},
     merged            |-> {}]

NothingAsked == [kind |-> "none"]

EvidenceInit ==
    /\ shown \in [Tasks -> {"active", "absent"}]
    /\ states = [t \in Tasks |-> IF shown[t] = "active" THEN <<"planning">> ELSE <<>>]
    /\ records = [t \in Tasks |-> <<>>]
    /\ audit = <<>>
    /\ verified = {}
    /\ asked = [c \in Requesters |-> NothingAsked]

Latest(t) == states[t][Len(states[t])]
Of(t, kind) == {n \in DOMAIN records[t] : records[t][n].kind = kind}
Newest(S) == CHOOSE n \in S : \A m \in S : m <= n
Resting(t, kind, n) == {m \in Of(t, kind) : records[t][m].of = n}
-----------------------------------------------------------------------------
(* The audit chain.                                                        *)

(* An event names its predecessor by its hash: here, by what that event    *)
(* is about, which no other event of the same number ever is.              *)
LastNumber == IF audit = <<>> THEN 0 ELSE Newest(DOMAIN audit)
TailEvent == [number |-> LastNumber, about |-> IF LastNumber = 0 THEN <<>> ELSE audit[LastNumber].about]
Extended(tail, about) ==
    [k \in DOMAIN audit \cup {tail.number + 1} |->
        IF k \in DOMAIN audit THEN audit[k] ELSE [about |-> about, prev |-> tail.about]]

AuditOK ==
    /\ DOMAIN audit = 1 .. LastNumber
    /\ \A k \in DOMAIN audit :
          audit[k].prev = IF k = 1 THEN <<>> ELSE audit[k - 1].about

(* An event whose number is taken breaks the unique index on it.           *)
Free(tail) == tail.number + 1 \notin DOMAIN audit

OneEventAbout(t, n) == Cardinality({k \in DOMAIN audit : audit[k].about = <<t, n>>}) = 1
-----------------------------------------------------------------------------
(* The readers: get_verified of each service.                              *)

LockOK(t, n) == shown[t] = "active" /\ n \in Of(t, "lock")

ApprovalOK(t, n) ==
    /\ n \in Of(t, "approval") /\ LockOK(t, records[t][n].of)
    /\ LET at == records[t][n].at
       IN  /\ at = records[t][records[t][n].of].at + 1
           /\ states[t][at - 1] = "planning" /\ states[t][at] = "plan_approved"
    /\ AuditOK /\ OneEventAbout(t, n)

StartedLegally(t, n) ==
    LET r == records[t][n]
    IN  /\ states[t][r.at] = "executing"
        /\ \/ r.at = records[t][r.of].at + 1
           \/ r.number >= 2 /\ states[t][r.at - 1] = "reviewing"

AttemptOK(t, n) ==
    /\ n \in Of(t, "attempt") /\ ApprovalOK(t, records[t][n].of)
    /\ StartedLegally(t, n)
    /\ AuditOK /\ OneEventAbout(t, n)

ReviewOK(t, n) == n \in Of(t, "review") /\ AttemptOK(t, records[t][n].of)

(* The record of an intent or of an event is checked by itself, but an     *)
(* intent has no status without its review.                                *)
IntentOK(t, n) == n \in Of(t, "intent") /\ ReviewOK(t, records[t][n].of)
NewsOK(t, n) == n \in Of(t, "event")

Accepted(t, n) ==
    CASE records[t][n].kind = "lock"     -> LockOK(t, n)
      [] records[t][n].kind = "approval" -> ApprovalOK(t, n)
      [] records[t][n].kind = "attempt"  -> AttemptOK(t, n)
      [] records[t][n].kind = "review"   -> ReviewOK(t, n)
      [] records[t][n].kind = "intent"   -> IntentOK(t, n)
      [] records[t][n].kind = "draft"    -> IntentOK(t, records[t][n].of)
      [] records[t][n].kind = "event"    -> NewsOK(t, n)

(* A review of an attempt that is not the latest is stale.                 *)
Stale(t, n) == records[t][n].of # Newest(Of(t, "attempt"))
-----------------------------------------------------------------------------
(* Requests.  What a request will commit: its record, which rests on the   *)
(* record "of", the states it appends, and the number of states it saw.    *)

Alone == Cardinality({t \in Tasks : shown[t] # "absent"}) = 1
RoomFor(n) ==
    FoldFunction(LAMBDA s, sum : sum + Len(s), n, states)
        <= IF Alone THEN LoneStates ELSE SharedStates
MaxAudit == IF Alone THEN LoneAudit ELSE SharedAudit

AskFor(c, t, kind, of, path, number, good) ==
    /\ asked[c].kind = "none" /\ RoomFor(Len(path))
    /\ asked' = [asked EXCEPT ![c] =
          [kind |-> kind, task |-> t, of |-> of, path |-> path,
           seen |-> Len(states[t]), number |-> number, good |-> good, tail |-> {}]]
    /\ UNCHANGED <<states, records, shown, audit, verified>>

(* plan_locks.py locks the latest plan of the current planning state; it   *)
(* leaves no audit event.                                                  *)
Lock(t) ==
    /\ shown[t] = "active" /\ Latest(t) = "planning"
    /\ \A n \in Of(t, "lock") : records[t][n].at # Len(states[t])
    /\ records' = [records EXCEPT ![t] = Append(@,
          [kind |-> "lock", of |-> 0, at |-> Len(states[t]), number |-> 0, good |-> TRUE])]
    /\ UNCHANGED <<states, shown, audit, verified, asked>>

Approve(c, t) ==
    \E n \in Of(t, "lock") :
        /\ LockOK(t, n) /\ Resting(t, "approval", n) = {}
        /\ records[t][n].at = Len(states[t]) /\ Latest(t) = "planning"
        /\ AskFor(c, t, "approval", n, <<"plan_approved">>, 0, TRUE)

Attempts(t) == Cardinality(Of(t, "attempt"))

Start(c, t) ==
    \E n \in Of(t, "approval") :
        /\ records[t][n].at = Len(states[t])
        /\ ApprovalOK(t, n)
        /\ AskFor(c, t, "attempt", n, <<"executing">>, Attempts(t) + 1, TRUE)

StartNextAttempt(c, t) ==
    \E n \in Of(t, "attempt") :
        LET approval == records[t][n].of
        IN  /\ Latest(t) = "reviewing"
            /\ records[t][n].number = Attempts(t)
            /\ Cardinality(Resting(t, "attempt", approval)) < MaxTries
            /\ AttemptOK(t, n)
            /\ AskFor(c, t, "attempt", approval, <<"executing">>, Attempts(t) + 1, TRUE)

(* The sandbox worker's work on an attempt, until its Verify succeeded.    *)
FinishVerify(t) ==
    \E n \in Of(t, "attempt") :
        /\ shown[t] = "active" /\ Latest(t) = "executing" /\ <<t, n>> \notin verified
        /\ records[t][n].number = Attempts(t)
        /\ verified' = verified \cup {<<t, n>>}
        /\ UNCHANGED <<states, records, shown, audit, asked>>

Review(c, t) ==
    \E n \in Of(t, "attempt"), good \in BOOLEAN :
        /\ <<t, n>> \in verified
        /\ Latest(t) = "executing"
        /\ Resting(t, "review", n) = {}
        /\ AttemptOK(t, n)
        /\ AskFor(c, t, "review", n,
               IF good THEN <<"reviewing", "ready">> ELSE <<"reviewing">>, 0, good)

CreateIntent(c, t) ==
    \E n \in Of(t, "review") :
        /\ Latest(t) = "ready"
        /\ records[t][n].good /\ ~Stale(t, n)
        /\ Resting(t, "intent", n) = {}
        /\ ReviewOK(t, n)
        /\ AskFor(c, t, "intent", n, <<>>, 0, TRUE)

(* Mutant of Confirm: the review of any attempt of the task will do. *)
ConfirmStale(c, t) ==
    \E n \in Of(t, "intent") :
        /\ Latest(t) = "ready"
        /\ Resting(t, "draft", n) = {}
        /\ IntentOK(t, n) /\ records[t][records[t][n].of].good
        /\ AskFor(c, t, "draft", n, <<"draft_pr">>, 0, TRUE)

Confirm(c, t) ==
    \E n \in Of(t, "intent") :
        /\ Latest(t) = "ready"
        /\ Resting(t, "draft", n) = {}
        /\ ~Stale(t, records[t][n].of)
        /\ records[t][records[t][n].of].good
        /\ IntentOK(t, n)
        /\ AskFor(c, t, "draft", n, <<"draft_pr">>, 0, TRUE)

(* An event names the last one before it; a decision of the maintainers    *)
(* moves the task if its draft was the last word.                          *)
Ingest(c, t) ==
    \E n \in Of(t, "draft"), news \in {"review", "changes_requested", "merged"} :
        LET earlier == Resting(t, "event", n)
        IN  /\ Cardinality(earlier) < MaxNews
            /\ AskFor(c, t, "event", n,
                   IF news # "review" /\ Latest(t) = "draft_pr" THEN <<news>> ELSE <<>>,
                   IF earlier = {} THEN 0 ELSE Newest(earlier), TRUE)

(* The next audit event is built on the newest one.  A review and a        *)
(* confirmation have written their state by then and hold the lock: their  *)
(* event is prepared and committed in one action.                          *)
Locking == {"review", "draft"}

Prepare(c) ==
    /\ asked[c].kind \notin Locking \cup {"none"} /\ asked[c].tail = {}
    /\ asked' = [asked EXCEPT ![c].tail = {TailEvent}]
    /\ UNCHANGED <<states, records, shown, audit, verified>>

(* The constraints on a record: its task exists, the state it saw is still *)
(* the last if it appends one, it is the only one of its kind on what it   *)
(* rests on, numbers of attempts differ, and an event without predecessor  *)
(* is the first.                                                           *)
Fits(a) ==
    /\ shown[a.task] # "erased"
    /\ a.path # <<>> => Len(states[a.task]) = a.seen
    /\ a.kind \in {"approval", "review", "intent", "draft"} =>
          Resting(a.task, a.kind, a.of) = {}
    /\ a.kind = "attempt" => a.number = Attempts(a.task) + 1
    /\ a.kind = "event" /\ a.number = 0 => Resting(a.task, "event", a.of) = {}

RecordOf(a) ==
    [kind |-> a.kind, of |-> a.of, at |-> Len(states[a.task]) + (IF a.path = <<>> THEN 0 ELSE 1),
     number |-> a.number, good |-> a.good]

(* Mutant of Accepts: the number of the audit event is not unique. *)
AcceptsAnyEvent(a, tail) == Fits(a)

Accepts(a, tail) == Free(tail) /\ Fits(a)

(* All of it is committed or, if a constraint refuses a part, none.        *)
Commit(c) ==
    LET a    == asked[c]
        tail == IF a.kind \in Locking THEN TailEvent ELSE CHOOSE x \in a.tail : TRUE
        about == <<a.task, Len(records[a.task]) + 1>>
    IN  /\ a.kind # "none" /\ (a.kind \in Locking \/ a.tail # {})
        /\ asked' = [asked EXCEPT ![c] = NothingAsked]
        /\ IF ~Accepts(a, tail) THEN UNCHANGED <<states, records, audit>>
           ELSE /\ LastNumber < MaxAudit
                /\ audit' = Extended(tail, about)
                /\ records' = [records EXCEPT ![a.task] = Append(@, RecordOf(a))]
                /\ states' = [states EXCEPT ![a.task] = @ \o a.path]
        /\ UNCHANGED <<shown, verified>>
-----------------------------------------------------------------------------
(* Back to planning, by a stop or a revocation: one version, compared and  *)
(* appended, without an audit event.                                       *)
Replan(t) ==
    /\ shown[t] = "active"
    /\ Latest(t) \in {"plan_approved", "executing", "reviewing", "ready"}
    /\ "planning" \in Follows[Latest(t)] /\ RoomFor(1)
    /\ states' = [states EXCEPT ![t] = Append(@, "planning")]
    /\ UNCHANGED <<records, shown, audit, verified, asked>>

(* A task is archived and then deleted, each under the write lock and with *)
(* an audit event of the task.                                             *)
Shifts == {<<"active", "archived">>, <<"archived", "deleted">>}

ChangeVisibility(t) ==
    \E target \in {"archived", "deleted"} :
        /\ <<shown[t], target>> \in Shifts
        /\ Latest(t) \notin {"plan_approved", "executing", "reviewing"}
        /\ LastNumber < MaxAudit
        /\ shown' = [shown EXCEPT ![t] = target]
        /\ audit' = Extended(TailEvent, <<t, 0>>)
        /\ UNCHANGED <<states, records, verified, asked>>

(* The rows of a deleted task go with the audit events that name it; the   *)
(* events of others keep their numbers and hashes.                         *)
Erase(t) ==
    /\ shown[t] = "deleted"
    /\ shown' = [shown EXCEPT ![t] = "erased"]
    /\ states' = [states EXCEPT ![t] = <<>>]
    /\ records' = [records EXCEPT ![t] = <<>>]
    /\ audit' = [k \in {i \in DOMAIN audit : audit[i].about[1] # t} |-> audit[k]]
    /\ verified' = {v \in verified : v[1] # t}
    /\ UNCHANGED <<asked>>

TaskRequest(c, t) ==
    \/ Approve(c, t) \/ Start(c, t) \/ StartNextAttempt(c, t) \/ Review(c, t)
    \/ CreateIntent(c, t) \/ Confirm(c, t) \/ Ingest(c, t)

EvidenceNext ==
    \/ \E c \in Requesters :
          \/ asked[c] = NothingAsked /\ \E t \in Tasks : TaskRequest(c, t)
          \/ Prepare(c) \/ Commit(c)
    \/ \E t \in Tasks :
          Lock(t) \/ FinishVerify(t) \/ Replan(t) \/ ChangeVisibility(t) \/ Erase(t)

EvidenceSpec == EvidenceInit /\ [][EvidenceNext]_evidenceVars
-----------------------------------------------------------------------------
(* Properties.                                                             *)

Readable(t) == shown[t] = "active" => \A n \in DOMAIN records[t] : Accepted(t, n)

(* Whatever requests interleave, a record that was committed is accepted   *)
(* by every later reader while its task is active: the chain of states,    *)
(* the records below it and the audit chain of all tasks agree             *)
(* (get_verified of approvals.py, executions.py, reviews.py).  Until a     *)
(* task is erased.                                                         *)
RecordsAccepted == (\A t \in Tasks : shown[t] # "erased") => \A t \in Tasks : Readable(t)

(* A draft pull request is the outcome of the latest attempt and of its    *)
(* review, and nothing happened to the task between the review that made   *)
(* it ready and the confirmation (confirm, is_stale).                      *)
DraftFollowsReview ==
    \A t \in Tasks : \A n \in Of(t, "draft") :
        LET review == records[t][records[t][n].of].of
        IN  /\ records[t][review].good
            /\ records[t][n].at = records[t][review].at + 2
            /\ \A m \in Of(t, "attempt") :
                  records[t][m].at < records[t][n].at => m <= records[t][review].of

(* The records of a task can be read again and say what happened to it.    *)
RecordsHold == RecordsAccepted /\ DraftFollowsReview

(* Erasing a task leaves the others as they were: their records can still  *)
(* be read (task_erasure.py:93-94).                                        *)
OthersStayReadable == \A t \in Tasks : Readable(t)
=============================================================================

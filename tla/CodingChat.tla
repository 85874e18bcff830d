----------------------------- MODULE CodingChat -----------------------------
(***************************************************************************)
(* The coding session of an attempt (app/coding.py): the context captured  *)
(* from the frozen archive, the messages of the user and the answers of a  *)
(* model, the change sets proposed on what was said and the one accepted.  *)
(*                                                                         *)
(* A request or a worker reads the transcript in one transaction and       *)
(* writes in another; only a unique constraint, and the fence of the job   *)
(* row, see what happened in between.  The rows of jobs are also written   *)
(* over by requests and by the recovery of leases, which decide from what  *)
(* they have read (JobLease); what each of them read is kept in `requests'.*)
(*                                                                         *)
(* The attempt has its succeeded Explore stage and leaves it only when a   *)
(* change set is accepted.  Proposals of the task runtime (direct) are the *)
(* subject of ProposalLineage.                                             *)
(***************************************************************************)
EXTENDS Naturals, Sequences, FiniteSets

CONSTANTS
    Chatters,      \* threads that handle requests or recover leases
    ChatWorkers,   \* worker processes
    NoChatWorker,
    ChatTries,     \* max_attempts of a job
    MaxTurns,      \* MAX_CODING_TURNS
    MaxChatJobs,   \* bound: jobs of the session
    MaxRewrites    \* bound: retries, cancellations and recoveries

ASSUME ChatAssumption ==
    /\ IsFiniteSet(Chatters) /\ NoChatWorker \notin ChatWorkers
    /\ {ChatTries, MaxTurns, MaxChatJobs, MaxRewrites} \subseteq Nat

VARIABLES
    rows,        \* the jobs: context, turn, proposal
    session,     \* the context job that made the coding session, or 0
    turns,       \* coding_turns, by sequence
    drafts,      \* change_set_proposals
    taken,       \* the draft the stage Implement was given, or 0
    hand,        \* what each worker is doing
    requests,    \* what each request has read
    overturned,  \* jobs that had succeeded when their row was written over
    rewrites     \* retries, cancellations and recoveries begun

chatVars == <<rows, session, turns, drafts, taken, hand, requests, overturned, rewrites>>

JobStates == {"queued", "running", "succeeded", "failed", "cancelled"}

(* basis: how many turns the payload was frozen on, the user's included;   *)
(* result: the turn, the draft or the session result_data names; revived:  *)
(* whether the row was put back to the queue after it had ended.           *)
NewChatJob(kind, basis) == [kind |-> kind, state |-> "queued", owner |-> NoChatWorker,
                        tries |-> 0, cancel |-> FALSE, basis |-> basis, result |-> 0,
                        revived |-> FALSE]
IdleHand == [at |-> "rest", job |-> 0, seen |-> 0]
NoAsk == [pc |-> "free", seen |-> 0, about |-> 0, state |-> "none", cancel |-> FALSE]

ChatInit ==
    /\ rows = <<>> /\ session = 0 /\ turns = <<>> /\ drafts = <<>> /\ taken = 0
    /\ hand = [w \in ChatWorkers |-> IdleHand]
    /\ requests = [c \in Chatters |-> NoAsk]
    /\ overturned = {} /\ rewrites = 0

Explored == taken = 0
Waiting(j) == rows[j].state \in {"queued", "running"}
ModelJobs == {j \in DOMAIN rows : rows[j].kind # "context"}

(* The transcript as turns() verifies it: an answer follows the message it *)
(* answers, whose job succeeded with it.                                   *)
Answers(i) ==
    /\ i > 1 /\ turns[i - 1].role = "user"
    /\ rows[turns[i - 1].job].state = "succeeded"
    /\ rows[turns[i - 1].job].result = i
TurnsVerify == \A i \in DOMAIN turns : turns[i].role = "assistant" => Answers(i)
Answered == turns # <<>> /\ turns[Len(turns)].role = "assistant"
SessionReads == session # 0 /\ Explored /\ TurnsVerify

HoldsJob(w) == LET row == rows[hand[w].job] IN row.state = "running" /\ row.owner = w
MaySucceed(w) == HoldsJob(w) /\ ~rows[hand[w].job].cancel
EndsAs(w, state, result) ==
    rows' = [rows EXCEPT ![hand[w].job].state = state, ![hand[w].job].result = result,
                         ![hand[w].job].owner = NoChatWorker]
Drops(w) == hand' = [hand EXCEPT ![w] = IdleHand]
HandTo(w, at) == hand' = [hand EXCEPT ![w].at = at]

(* An exception: the job fails, or is cancelled if the worker looks for it *)
(* (the worker of the context does not), unless it is not held any more.   *)
FailChatJob(w) ==
    LET row == rows[hand[w].job] IN
    /\ IF HoldsJob(w)
       THEN EndsAs(w, IF row.cancel /\ row.kind # "context" THEN "cancelled" ELSE "failed",
                 row.result)
       ELSE UNCHANGED rows
    /\ Drops(w)

-----------------------------------------------------------------------------
(* The workers.                                                            *)
LeaseChatJob(w, j) ==
    /\ hand[w] = IdleHand
    /\ rows[j].state = "queued" /\ ~rows[j].cancel /\ rows[j].tries < ChatTries
    /\ rows' = [rows EXCEPT ![j].state = "running", ![j].owner = w, ![j].tries = @ + 1]
    /\ hand' = [hand EXCEPT ![w] = [IdleHand EXCEPT !.at = rows[j].kind, !.job = j]]
    /\ UNCHANGED <<session, turns, drafts, taken, requests, overturned, rewrites>>

(* The context is captured from the archive the attempt is bound to, so    *)
(* two captures agree; then the session of the attempt is looked up.       *)
CaptureContext(w) ==
    /\ hand[w].at = "context"
    /\ \/ Explored /\ hand' = [hand EXCEPT ![w].at = "found", ![w].seen = session]
          /\ UNCHANGED rows
       \/ FailChatJob(w)
    /\ UNCHANGED <<session, turns, drafts, taken, requests, overturned, rewrites>>

(* The session is unique for the attempt.                                  *)
KeepSession(w) ==
    LET j == hand[w].job IN
    /\ hand[w].at = "found"
    /\ \/ /\ MaySucceed(w) /\ hand[w].seen # 0
          /\ EndsAs(w, "succeeded", hand[w].seen) /\ UNCHANGED session
       \/ /\ MaySucceed(w) /\ hand[w].seen = 0 /\ session = 0
          /\ EndsAs(w, "succeeded", j) /\ session' = j
       \/ /\ ~MaySucceed(w) \/ (hand[w].seen = 0 /\ session # 0)
          /\ FailChatJob(w) /\ UNCHANGED session
    /\ Drops(w)
    /\ UNCHANGED <<turns, drafts, taken, requests, overturned, rewrites>>

(* What a model is asked, and what is done with its answer, needs the      *)
(* transcript the job was frozen on.                                       *)
StillFits(w) == SessionReads /\ Len(turns) = rows[hand[w].job].basis

AskModel(w) ==
    /\ hand[w].at \in {"turn", "proposal"}
    /\ IF StillFits(w) THEN HandTo(w, "model") /\ UNCHANGED rows ELSE FailChatJob(w)
    /\ UNCHANGED <<session, turns, drafts, taken, requests, overturned, rewrites>>

ReadAgain(w) ==
    /\ hand[w].at = "model"
    /\ \/ StillFits(w) /\ HandTo(w, "store") /\ UNCHANGED rows
       \/ FailChatJob(w)
    /\ UNCHANGED <<session, turns, drafts, taken, requests, overturned, rewrites>>

(* Mutant of StoreAnswer: the answer is committed before the job.          *)
StoreAnswerFirst(w) ==
    LET j == hand[w].job  n == rows[j].basis + 1 IN
    /\ hand[w].at = "store" /\ rows[j].kind = "turn"
    /\ IF Len(turns) < n
       THEN turns' = Append(turns, [role |-> "assistant", job |-> 0])
       ELSE UNCHANGED turns
    /\ IF MaySucceed(w) /\ Len(turns) < n
       THEN EndsAs(w, "succeeded", n) /\ Drops(w)
       ELSE FailChatJob(w)
    /\ UNCHANGED <<session, drafts, taken, requests, overturned, rewrites>>

(* The number of a turn is unique in its session.                          *)
StoreAnswer(w) ==
    LET j == hand[w].job  n == rows[j].basis + 1 IN
    /\ hand[w].at = "store" /\ rows[j].kind = "turn"
    /\ IF MaySucceed(w) /\ Len(turns) < n
       THEN /\ turns' = Append(turns, [role |-> "assistant", job |-> 0])
            /\ EndsAs(w, "succeeded", n) /\ Drops(w)
       ELSE FailChatJob(w) /\ UNCHANGED turns
    /\ UNCHANGED <<session, drafts, taken, requests, overturned, rewrites>>

(* The draft of a job is unique.                                           *)
StoreDraft(w) ==
    LET j == hand[w].job IN
    /\ hand[w].at = "store" /\ rows[j].kind = "proposal"
    /\ IF MaySucceed(w) /\ \A d \in DOMAIN drafts : drafts[d].job # j
       THEN /\ drafts' = Append(drafts, [job |-> j, basis |-> rows[j].basis])
            /\ EndsAs(w, "succeeded", Len(drafts) + 1) /\ Drops(w)
       ELSE FailChatJob(w) /\ UNCHANGED drafts
    /\ UNCHANGED <<session, turns, taken, requests, overturned, rewrites>>

-----------------------------------------------------------------------------
(* The requests of users and of the coordinator.                           *)
Asks(c, ask) == requests[c] = NoAsk /\ requests' = [requests EXCEPT ![c] = ask]
Done(c) == requests' = [requests EXCEPT ![c] = NoAsk]
Room == Len(rows) < MaxChatJobs

AskContext ==
    /\ Explored /\ Room
    /\ rows' = Append(rows, NewChatJob("context", 0))
    /\ UNCHANGED <<session, turns, drafts, taken, hand, requests, overturned, rewrites>>

(* Mutant of NoneActive: only jobs that wait for a worker are looked for.  *)
NoneQueued == \A j \in ModelJobs : rows[j].state # "queued"

(* _require_no_active_job.                                                 *)
NoneActive == \A j \in ModelJobs : ~Waiting(j)

ReadForMessage(c) ==
    /\ SessionReads /\ NoneActive /\ Len(turns) < MaxTurns
    /\ Asks(c, [NoAsk EXCEPT !.pc = "message", !.seen = Len(turns)])
    /\ UNCHANGED <<rows, session, turns, drafts, taken, hand, overturned, rewrites>>

(* The message and its job are one commit.                                 *)
SendMessage(c) ==
    LET n == requests[c].seen + 1 IN
    /\ requests[c].pc = "message" /\ Room
    /\ IF Len(turns) < n
       THEN /\ rows' = Append(rows, NewChatJob("turn", n))
            /\ turns' = Append(turns, [role |-> "user", job |-> Len(rows) + 1])
       ELSE UNCHANGED <<rows, turns>>
    /\ Done(c)
    /\ UNCHANGED <<session, drafts, taken, hand, overturned, rewrites>>

ReadForProposal(c) ==
    /\ SessionReads /\ NoneActive /\ Answered
    /\ Asks(c, [NoAsk EXCEPT !.pc = "propose", !.seen = Len(turns)])
    /\ UNCHANGED <<rows, session, turns, drafts, taken, hand, overturned, rewrites>>

RequestProposal(c) ==
    /\ requests[c].pc = "propose" /\ Room
    /\ rows' = Append(rows, NewChatJob("proposal", requests[c].seen))
    /\ Done(c)
    /\ UNCHANGED <<session, turns, drafts, taken, hand, overturned, rewrites>>

ReadForAccept(c, d) ==
    /\ SessionReads /\ drafts[d].basis = Len(turns)
    /\ Asks(c, [NoAsk EXCEPT !.pc = "accept", !.about = d])
    /\ UNCHANGED <<rows, session, turns, drafts, taken, hand, overturned, rewrites>>

(* accept_existing: the stage is still Explore.                            *)
AcceptProposal(c) ==
    /\ requests[c].pc = "accept"
    /\ taken' = IF Explored THEN requests[c].about ELSE taken
    /\ Done(c)
    /\ UNCHANGED <<rows, session, turns, drafts, hand, overturned, rewrites>>

-----------------------------------------------------------------------------
(* Whoever retries, cancels or recovers a job decides from the row it has  *)
(* read; the UPDATE names the row and the attributes that differ.          *)
Rewrites(c, j, state, cancel) ==
    /\ rewrites < MaxRewrites /\ rewrites' = rewrites + 1
    /\ Asks(c, [NoAsk EXCEPT !.pc = "rewrite", !.about = j, !.state = state,
                             !.cancel = cancel])
    /\ UNCHANGED <<rows, session, turns, drafts, taken, hand, overturned>>

ReadToRetry(c, j) ==
    /\ rows[j].state \in {"failed", "cancelled"} /\ rows[j].tries < ChatTries
    /\ Rewrites(c, j, "queued", FALSE)

ReadToCancel(c, j) ==
    /\ Waiting(j)
    /\ Rewrites(c, j, IF rows[j].state = "queued" THEN "cancelled" ELSE "same", TRUE)

ReadLapsed(c, j) ==
    /\ rows[j].state = "running"
    /\ LET cancel == rows[j].cancel IN
       Rewrites(c, j, CASE cancel -> "cancelled"
                        [] ~cancel /\ rows[j].tries < ChatTries -> "queued"
                        [] OTHER -> "failed", cancel)

WriteRow(c) ==
    LET a == requests[c]
        row == rows[a.about]
        state == IF a.state = "same" THEN row.state ELSE a.state
    IN
    /\ a.pc = "rewrite"
    /\ rows' = [rows EXCEPT ![a.about].state = state, ![a.about].cancel = a.cancel,
                            ![a.about].owner = IF state = "running" THEN @ ELSE NoChatWorker,
                            ![a.about].revived = @ \/ (state = "queued" /\ ~Waiting(a.about))]
    /\ overturned' = IF row.state = "succeeded" /\ state # "succeeded"
                     THEN overturned \cup {a.about} ELSE overturned
    /\ Done(c)
    /\ UNCHANGED <<session, turns, drafts, taken, hand, rewrites>>

ChatNext ==
    \/ AskContext
    \/ \E w \in ChatWorkers :
         \/ CaptureContext(w) \/ KeepSession(w) \/ AskModel(w) \/ ReadAgain(w)
         \/ StoreAnswer(w) \/ StoreDraft(w)
         \/ \E j \in DOMAIN rows : LeaseChatJob(w, j)
    \/ \E c \in Chatters :
         \/ ReadForMessage(c) \/ SendMessage(c) \/ ReadForProposal(c) \/ RequestProposal(c)
         \/ AcceptProposal(c) \/ WriteRow(c)
         \/ \E d \in DOMAIN drafts : ReadForAccept(c, d)
         \/ \E j \in DOMAIN rows :
              ReadToRetry(c, j) \/ ReadToCancel(c, j) \/ ReadLapsed(c, j)

ChatSpec == ChatInit /\ [][ChatNext]_chatVars

-----------------------------------------------------------------------------
(* The transcript and the session stay readable, whoever was overtaken:    *)
(* turns() verifies every answer against the job of its message, and a     *)
(* successful capture names the one session of the attempt.  Only a job    *)
(* whose success was written over breaks that (recover_expired, retry and  *)
(* request_cancel write unconditionally), and then for good: every later   *)
(* step reads the transcript first.                                        *)
TranscriptReads ==
    /\ \A i \in DOMAIN turns : turns[i].role = "assistant" =>
         i > 1 /\ (turns[i - 1].job \in overturned \/ Answers(i))
    /\ session # 0 => /\ rows[session].kind = "context"
                      /\ session \in overturned \/ rows[session].state = "succeeded"
    /\ \A j \in DOMAIN rows : /\ rows[j].kind = "context" /\ rows[j].state = "succeeded"
                              => rows[j].result = session

(* "Coding session already has an active model Job": requests that found   *)
(* none add one each, however they interleave; whatever else runs was      *)
(* revived after it had ended (_require_no_active_job, JobService.retry).  *)
ModelJobsAreBounded ==
    Cardinality({j \in ModelJobs : Waiting(j) /\ ~rows[j].revived}) <= Cardinality(Chatters)
=============================================================================

--------------------------- MODULE Conversation ---------------------------
(***************************************************************************)
(* The conversation of one task (app/conversation.py, agent_runtime.py,    *)
(* conversation_reasoning.py).  A message of the user is appended to the   *)
(* journal; a coordinator, one locked transaction per tick, has it         *)
(* understood by a job that calls a model, and then answers it, or         *)
(* dispatches the work it asks for.  "Stop" and "continue" take effect     *)
(* when they are received.  Meanwhile jobs end, and the user confirms      *)
(* plans and results, which waits for the messages that may be commands.   *)
(*                                                                         *)
(* This is the current protocol (agent_runtime_enabled), in which a model  *)
(* decides upon what it has observed of the task; the former protocols,    *)
(* kept for messages of older releases, are not modelled.                  *)
(*                                                                         *)
(* The observation of a task is a hash; here it is only told whether it is *)
(* still the current one.                                                  *)
(***************************************************************************)
EXTENDS Naturals, Sequences, FiniteSets

CONSTANTS
    MaxMessages,   \* bound: messages of the user
    MaxTalk,       \* bound: messages, where a note counts twice
    MaxTurnCalls,  \* model calls for one message: 4
    MaxTurnTries,  \* max_attempts of the job that understands a message
    MaxConfirms    \* bound: confirmations

ASSUME ConversationAssumption ==
    /\ {MaxMessages, MaxTalk, MaxTurnCalls, MaxTurnTries} \subseteq Nat \ {0}
    /\ MaxConfirms \in Nat

VARIABLES
    messages,   \* what the journal says of each message, and its jobs
    pausedAt,   \* messages received before conversation_paused, or 0
    confirmedUpTo,  \* messages received before the last confirmation
    confirms,
    lateCommands,       \* messages that became commands after a confirmation
    turn        \* the worker that understands messages

conversationVars == <<messages, pausedAt, confirmedUpTo, confirms, lateCommands, turn>>

(* state: waiting, classifying, decided, dispatched, finished.             *)
(* job and work: the job that understands it, and the job it asked for.    *)
NoJob == [state |-> "none", tries |-> 0, cancel |-> FALSE]
Queued == [state |-> "queued", tries |-> 0, cancel |-> FALSE]
NewMessage(kind) ==
    [kind |-> kind, state |-> "waiting", decision |-> "none", current |-> FALSE,
     effect |-> "none", calls |-> 0, outcome |-> "none", job |-> NoJob, work |-> NoJob]
NoTurn == [at |-> "rest", message |-> 0, current |-> FALSE, observe |-> FALSE]

ConversationInit ==
    /\ messages = <<>> /\ pausedAt = 0 /\ confirmedUpTo = 0 /\ confirms = 0 /\ lateCommands = {}
    /\ turn = NoTurn

ActiveJob(job) == job.state \in {"queued", "running"}
Paused      == pausedAt > 0
PendingMessages     == {i \in DOMAIN messages : messages[i].state # "finished"}
Waiting     == {i \in PendingMessages : messages[i].state # "dispatched"}
FirstOf(S)  == CHOOSE i \in S : \A k \in S : i <= k

Working        == \E i \in DOMAIN messages : ActiveJob(messages[i].work)

Finish(m, outcome) == [m EXCEPT !.state = "finished", !.outcome = outcome, !.current = FALSE]
(* What was observed of the task is no longer so.                          *)
Observed(ms)  == [i \in DOMAIN ms |-> [ms[i] EXCEPT !.current = FALSE]]
TurnOutdated  == [turn EXCEPT !.current = FALSE]

(* The bounds on what the user says.                                       *)
MaySay(cost) ==
    /\ Len(messages) < MaxMessages
    /\ cost + Len(messages) + Cardinality({i \in DOMAIN messages : messages[i].kind = "note"})
          <= MaxTalk

-----------------------------------------------------------------------------
(* receive_message and _control                                            *)
ReceiveNote ==
    /\ MaySay(2)
    /\ messages' = Append(messages, NewMessage("note"))
    /\ UNCHANGED <<pausedAt, confirmedUpTo, confirms, lateCommands, turn>>

(* stop_workflow cancels what is queued and asks what runs to stop.        *)
StopJob(job) == [job EXCEPT !.state = IF @ = "queued" THEN "cancelled" ELSE @,
                            !.cancel = job.state = "running"]
ReceiveStop ==
    /\ MaySay(1)
    /\ messages' = Append(Observed([i \in DOMAIN messages |->
                              [messages[i] EXCEPT !.job = StopJob(@), !.work = StopJob(@)]]),
                          Finish(NewMessage("stop"), "ok"))
    /\ pausedAt' = Len(messages) + 1
    /\ turn' = TurnOutdated
    /\ UNCHANGED <<confirmedUpTo, confirms, lateCommands>>

(* The request that failed before is taken up again, or the coordinator    *)
(* does what comes next.                                                   *)
ReceiveContinue ==
    /\ MaySay(1)
    /\ LET m == NewMessage("continue")
           failedTurn == {i \in DOMAIN messages : messages[i].outcome = "failed"
                                                  /\ messages[i].job.state = "failed"}
       IN  /\ IF \/ \E i \in DOMAIN messages : ActiveJob(messages[i].job) \/ ActiveJob(messages[i].work)
                 \/ Paused /\ PendingMessages # {}
              THEN messages' = Append(messages, Finish(m, "ok"))
              ELSE \/ \E i \in failedTurn :
                         messages' = Append(messages,
                             [m EXCEPT !.state = "classifying", !.job = Queued,
                                       !.effect = IF messages[i].effect = "observe"
                                                  THEN "observe" ELSE "none"])
                   \/ messages' = Append(messages, Finish(m, "ok"))
                   \/ messages' = Append(Observed(messages),
                             [m EXCEPT !.state = "dispatched", !.decision = "plan", !.work = Queued])
    /\ pausedAt' = 0
    /\ turn' = TurnOutdated
    /\ UNCHANGED <<confirmedUpTo, confirms, lateCommands>>

Blocking == {i \in PendingMessages : messages[i].effect # "observe"}
ConfirmTask ==
    /\ confirms < MaxConfirms
    /\ Blocking = {} /\ ~Paused /\ ~Working
    /\ confirmedUpTo' = Len(messages)
    /\ confirms' = confirms + 1
    /\ messages' = Observed(messages)
    /\ turn' = TurnOutdated
    /\ UNCHANGED <<pausedAt, lateCommands>>

-----------------------------------------------------------------------------
(* The job that understands a message: a locked commit before and after    *)
(* each call of the model.                                                 *)
Held == turn.message \in DOMAIN messages /\ messages[turn.message].job.state = "running"
        /\ ~messages[turn.message].job.cancel

LeaseTurn ==
    /\ turn.at = "rest"
    /\ \E i \in DOMAIN messages :
          /\ messages[i].job.state = "queued" /\ messages[i].job.tries < MaxTurnTries
          /\ messages' = [messages EXCEPT ![i].job.state = "running", ![i].job.tries = @ + 1]
          /\ turn' = [NoTurn EXCEPT !.at = "call", !.message = i]
    /\ UNCHANGED <<pausedAt, confirmedUpTo, confirms, lateCommands>>

EndTurn(i, state) ==
    /\ messages' = [messages EXCEPT ![i].job.state = IF @ # "running" THEN @
                                       ELSE IF messages[i].job.cancel THEN "cancelled" ELSE state]
    /\ turn' = NoTurn

CallModel ==
    /\ turn.at = "call"
    /\ LET i == turn.message
       IN  IF Held /\ messages[i].calls < MaxTurnCalls
           THEN /\ messages' = [messages EXCEPT ![i].calls = @ + 1]
                /\ turn' = [turn EXCEPT !.at = "answer", !.current = TRUE,
                                        !.observe = messages[i].effect = "observe"]
           ELSE EndTurn(i, "failed")
    /\ UNCHANGED <<pausedAt, confirmedUpTo, confirms, lateCommands>>

(* classify_turn: what only observes never becomes a command.              *)
Classified(i, effect) ==
    IF messages[i].effect = "none" THEN effect ELSE messages[i].effect
Conflicts(i, effect) == messages[i].effect = "observe" /\ effect = "command"

(* The model decides on a command ("plan"), an answer, or on reading more. *)
Decides(i, decision, effect) ==
    [messages[i] EXCEPT !.effect = Classified(i, effect), !.state = "decided",
                        !.decision = decision, !.current = turn.current,
                        !.job.state = "done"]
AnswerModel(decision) ==
    /\ turn.at = "answer"
    /\ LET i == turn.message
           effect == IF decision = "plan" THEN "command" ELSE "observe"
       IN  CASE ~Held -> EndTurn(i, "failed")
             [] Held /\ (turn.observe \/ Conflicts(i, effect)) /\ decision = "plan" ->
                   EndTurn(i, "failed")
             [] Held /\ decision = "plan" /\ ~turn.current ->
                   /\ messages' = [messages EXCEPT ![i].effect = Classified(i, effect)]
                   /\ turn' = [turn EXCEPT !.at = "call"]
             [] Held /\ decision = "read" ->
                   /\ \E e \in {"none", "observe", "command"} :
                         ~Conflicts(i, e)
                         /\ messages' = [messages EXCEPT ![i].effect = Classified(i, e)]
                   /\ turn' = [turn EXCEPT !.at = "call"]
             [] OTHER ->
                   /\ messages' = [messages EXCEPT ![i] = Decides(i, decision, effect)]
                   /\ turn' = NoTurn
    /\ UNCHANGED <<pausedAt, confirmedUpTo, confirms, lateCommands>>

TurnFails ==
    /\ turn.at = "answer"
    /\ EndTurn(turn.message, "failed")
    /\ UNCHANGED <<pausedAt, confirmedUpTo, confirms, lateCommands>>

TurnIsLost(i) ==
    /\ messages[i].job.state = "running"
    /\ messages' = [messages EXCEPT ![i].job.state =
                       CASE messages[i].job.cancel -> "cancelled"
                         [] ~messages[i].job.cancel /\ messages[i].job.tries < MaxTurnTries -> "queued"
                         [] OTHER -> "failed"]
    /\ turn' = IF turn.message = i THEN NoTurn ELSE turn
    /\ UNCHANGED <<pausedAt, confirmedUpTo, confirms, lateCommands>>

(* The work a message has asked for; its chain of jobs is one job here.    *)
Work(i) ==
    /\ ActiveJob(messages[i].work)
    /\ \E state \in IF messages[i].work.state = "queued" THEN {"running"}
                    ELSE IF messages[i].work.cancel THEN {"cancelled"} ELSE {"done", "failed"} :
          messages' = Observed([messages EXCEPT ![i].work.state = state])
    /\ turn' = TurnOutdated
    /\ UNCHANGED <<pausedAt, confirmedUpTo, confirms, lateCommands>>

-----------------------------------------------------------------------------
(* advance_conversation: what was dispatched and has ended is finished,    *)
(* then one message is taken one step further.                             *)
Settled == [i \in DOMAIN messages |->
               IF messages[i].state = "dispatched" /\ ~ActiveJob(messages[i].work)
               THEN Finish(messages[i], IF messages[i].work.state = "done" THEN "ok" ELSE "failed")
               ELSE messages[i]]

(* Answers first, then messages nothing has been done for, then the oldest.*)
Chosen ==
    LET replies == {i \in Waiting : messages[i].state = "decided" /\ messages[i].decision = "respond"}
        fresh   == {i \in Waiting : messages[i].state = "waiting"}
    IN  CASE replies # {} -> FirstOf(replies)
          [] replies = {} /\ fresh # {} -> FirstOf(fresh)
          [] OTHER -> FirstOf(Waiting)

ActiveMessage == \E i \in DOMAIN Settled : Settled[i].state = "dispatched"

(* Mutant of Understand: a job that was cancelled is waited for.           *)
UnderstandOnce(i) ==
    LET m == Settled[i]
    IN  CASE m.state = "waiting" ->
               [Settled EXCEPT ![i].state = "classifying", ![i].job = Queued]
          [] m.state = "classifying" /\ m.job.state = "failed" ->
               [Settled EXCEPT ![i] = Finish(m, "failed")]
          [] OTHER -> Settled
Understand(i) ==
    LET m == Settled[i]
    IN  CASE m.state = "waiting" ->
               [Settled EXCEPT ![i].state = "classifying", ![i].job = Queued]
          [] m.state = "classifying" /\ m.job.state = "cancelled" /\ m.job.tries < MaxTurnTries ->
               [Settled EXCEPT ![i].job.state = "queued", ![i].job.cancel = FALSE]
          [] m.state = "classifying" /\ m.job.state \in {"failed", "cancelled"}
                                     /\ ~(m.job.state = "cancelled" /\ m.job.tries < MaxTurnTries) ->
               [Settled EXCEPT ![i] = Finish(m, "failed")]
          [] OTHER -> Settled

Dispatch(i) == [Settled EXCEPT ![i].state = "dispatched", ![i].work = Queued]

(* refresh_decision: within the calls of the original turn.                *)
Reobserve(i) ==
    IF Settled[i].calls >= MaxTurnCalls
    THEN [Settled EXCEPT ![i] = Finish(@, "failed")]
    ELSE [Settled EXCEPT ![i].state = "classifying", ![i].decision = "none", ![i].job = Queued]

(* What a tick makes of the chosen message.                                *)
(* Mutant of Step: a message of before the stop is still dispatched.       *)
StepUnpaused(i) ==
    LET m == Settled[i]
    IN  CASE m.state # "decided"                     -> Understand(i)
          [] m.decision = "respond"                  -> [Settled EXCEPT ![i] = Finish(m, "ok")]
          [] m.decision = "plan" /\ ~m.current       -> Reobserve(i)
          [] OTHER -> IF Working \/ ActiveMessage THEN Settled ELSE Dispatch(i)
Step(i) ==
    LET m == Settled[i]
    IN  CASE Paused /\ i <= pausedAt                 -> Settled
          [] ~(Paused /\ i <= pausedAt) /\ m.state # "decided" -> Understand(i)
          [] ~(Paused /\ i <= pausedAt) /\ m.decision = "respond" ->
               [Settled EXCEPT ![i] = Finish(m, "ok")]
          [] ~(Paused /\ i <= pausedAt) /\ m.decision = "plan" /\ ~m.current -> Reobserve(i)
          [] OTHER -> IF Paused \/ Working \/ ActiveMessage THEN Settled ELSE Dispatch(i)

CommandsIn(ms) == {i \in DOMAIN ms : ms[i].state = "dispatched" /\ ms[i].decision = "plan"}
ConversationTick ==
    LET next == IF Waiting = {} THEN Settled ELSE Step(Chosen)
        new  == CommandsIn(next) \ CommandsIn(messages)
    IN  /\ next # messages
        /\ messages' = IF new = {} THEN next ELSE Observed(next)
        /\ turn' = IF new = {} THEN turn ELSE TurnOutdated
        /\ lateCommands' = lateCommands \union {i \in new : i <= confirmedUpTo}
        /\ UNCHANGED <<pausedAt, confirmedUpTo, confirms>>

ConversationNext ==
    \/ ReceiveNote \/ ReceiveStop \/ ReceiveContinue \/ ConfirmTask
    \/ LeaseTurn \/ CallModel \/ TurnFails
    \/ \E decision \in {"respond", "read", "plan"} : AnswerModel(decision)
    \/ \E i \in DOMAIN messages : TurnIsLost(i) \/ Work(i)
    \/ ConversationTick

ConversationSpec == ConversationInit /\ [][ConversationNext]_conversationVars

TurnStep == LeaseTurn \/ CallModel \/ TurnFails
            \/ \E decision \in {"respond", "read", "plan"} : AnswerModel(decision)
ConversationFairness ==
    /\ WF_conversationVars(ConversationTick) /\ WF_conversationVars(TurnStep)
    /\ \A i \in 1..MaxMessages : WF_conversationVars(i \in DOMAIN messages /\ Work(i))

ConversationFairSpec == ConversationSpec /\ ConversationFairness

-----------------------------------------------------------------------------

(* While the conversation is paused nothing that was sent before the stop  *)
(* is put to work.                                                         *)
PausedIsQuiet ==
    [][Paused /\ pausedAt' = pausedAt =>
          \A i \in 1..pausedAt : messages'[i].work.state = "queued"
                                    => messages[i].work.state = "queued"]_conversationVars

(* No message is forgotten: it is finished, unless the user has stopped    *)
(* the conversation and does not continue it.                              *)
MessagesSettle == []<>(Paused \/ PendingMessages = {})
=============================================================================

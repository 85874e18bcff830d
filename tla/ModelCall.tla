----------------------------- MODULE ModelCall -----------------------------
(***************************************************************************)
(* One model call, from the provider worker over the credential gateway to *)
(* the hosted API (app/providers/nvidia_nim.py, gateway.py,                *)
(* gateway_http.py, codex_cli.py, and the recorder of providers/jobs.py).  *)
(*                                                                         *)
(* The worker asks again, with a new credential, after a call that failed  *)
(* or was lost.  The gateway repeats a request whose answer it could not   *)
(* use, and polls for one the API accepted as pending.  Neither can take   *)
(* a request back: completions that nobody waits for any longer go on, and *)
(* so does the gateway after its client stopped waiting.  Text is          *)
(* abstracted to pieces that name the completion they come from.           *)
(***************************************************************************)
EXTENDS Naturals, Sequences

CONSTANTS
    MaxCalls,      \* attempts of the job: calls 1..MaxCalls, one credential each
    MaxTries,      \* max_retries: a handler posts at most once more than that
    MaxPolls,      \* max_poll_attempts
    MaxUses,       \* max_requests of a credential
    MaxGatewayCrashes,
    Pieces         \* deltas of a streamed completion

ASSUME ModelCallAssumption ==
    /\ MaxCalls \in Nat \ {0} /\ MaxTries \in Nat /\ MaxPolls \in Nat \ {0}
    /\ MaxUses \in Nat \ {0} /\ MaxGatewayCrashes \in Nat /\ Pieces \in Nat \ {0}

VARIABLES
    route,        \* how the gateway sends: streaming, or whole (httpx, requests)
    call,         \* the worker's side of each call
    handler,      \* the gateway's side of each call
    completions,  \* what the API was made to produce, in order
    uses,         \* _uses of the authorizer: lost with the gateway's process
    gatewayCrashes

callVars == <<route, call, handler, completions, uses, gatewayCrashes>>

Calls == 1..MaxCalls
Whole(n) == [k \in 1..Pieces |-> <<n, k>>]
Refused(again) == [kind |-> "error", retryable |-> again]
Answered(text) == [kind |-> "ok", text |-> text]

(* A request at the gateway: its tries and polls matter until it replied.  *)
Handler(pc, reply) ==
    [pc |-> pc, try |-> 0, pending |-> 0, polls |-> 0, text |-> <<>>, reply |-> reply]

CallsInit ==
    /\ route \in {"stream", "whole"}
    /\ call = [c \in Calls |-> [pc |-> "none", outcome |-> "none", text |-> <<>>]]
    /\ handler = [c \in Calls |-> Handler("none", Refused(TRUE))]
    /\ completions = <<>>
    /\ uses = [c \in Calls |-> 0]
    /\ gatewayCrashes = 0

Replies(c, reply) ==
    handler' = [handler EXCEPT ![c] = Handler("replied", reply)]

CallEnds(c, outcome, text) ==
    call' = [call EXCEPT ![c] = [pc |-> "ended", outcome |-> outcome, text |-> text]]

-----------------------------------------------------------------------------
(* The worker: a credential, one post to the gateway, and its answer.      *)

(* broker.issue and the post; a job is attempted again only after the call *)
(* before it ended without success or its worker was lost.                 *)
Issue(c) ==
    /\ call[c].pc = "none"
    /\ \/ c = 1
       \/ c > 1 /\ call[c - 1].pc = "lost"
       \/ c > 1 /\ call[c - 1].pc = "ended" /\ call[c - 1].outcome # "succeeded"
    /\ call' = [call EXCEPT ![c].pc = "posted"]
    /\ handler' = [handler EXCEPT ![c] = Handler("arrived", Refused(TRUE))]
    /\ UNCHANGED <<route, completions, uses, gatewayCrashes>>

(* The answer is parsed and checked against the schema and the evidence it *)
(* was given; the model may have written something that fails.  The        *)
(* gateway reports every upstream error as 502, which the client takes for *)
(* retryable unless its code says that the model or the key is refused.    *)
Receive(c) ==
    /\ call[c].pc = "posted" /\ handler[c].pc = "replied"
    /\ \/ /\ handler[c].reply.kind = "ok"
          /\ \/ CallEnds(c, "succeeded", handler[c].reply.text)
             \/ CallEnds(c, "malformed", <<>>)
       \/ /\ handler[c].reply.kind = "error"
          /\ CallEnds(c, IF handler[c].reply.retryable THEN "retryable" ELSE "failed", <<>>)
    /\ handler' = [handler EXCEPT ![c] = Handler("gone", Refused(TRUE))]
    /\ UNCHANGED <<route, completions, uses, gatewayCrashes>>

(* The client stops waiting; the gateway does not notice.                  *)
GiveUpWaiting(c) ==
    /\ call[c].pc = "posted"
    /\ CallEnds(c, "retryable", <<>>)
    /\ UNCHANGED <<route, handler, completions, uses, gatewayCrashes>>

LoseWorker(c) ==
    /\ call[c].pc = "posted"
    /\ call' = [call EXCEPT ![c].pc = "lost"]
    /\ UNCHANGED <<route, handler, completions, uses, gatewayCrashes>>

-----------------------------------------------------------------------------
(* The gateway.                                                            *)

(* consume: one more use of the credential, or a refusal (also expired).   *)
Authorize(c) ==
    /\ handler[c].pc = "arrived"
    /\ \/ /\ uses[c] < MaxUses
          /\ uses' = [uses EXCEPT ![c] = @ + 1]
          /\ handler' = [handler EXCEPT ![c].pc = "posting"]
       \/ /\ Replies(c, Refused(FALSE))
          /\ UNCHANGED uses
    /\ UNCHANGED <<route, call, completions, gatewayCrashes>>

(* Mutant of TryAgain: the text read before the failure is kept for the next try. *)
TryAgainAfterText(c) ==
    \/ /\ handler[c].try < MaxTries
       /\ handler' = [handler EXCEPT ![c].pc = "posting", ![c].try = @ + 1,
                                     ![c].pending = 0, ![c].polls = 0]
    \/ Replies(c, Refused(TRUE))

(* The end of a try whose failure may be repeated: another try, unless     *)
(* there is none left or the deadline passed.                              *)
TryAgain(c) ==
    \/ /\ handler[c].try < MaxTries
       /\ handler' = [handler EXCEPT ![c].pc = "posting", ![c].try = @ + 1, ![c].text = <<>>,
                                     ![c].pending = 0, ![c].polls = 0]
    \/ Replies(c, Refused(TRUE))

Begin(c, accepted) ==
    completions' = Append(completions, [call |-> c, accepted |-> accepted, made |-> FALSE])

(* The post reached the API, or not; a completion it began is made even    *)
(* when its answer is lost.                                                *)
Post(c) ==
    /\ handler[c].pc = "posting"
    /\ \/ /\ Begin(c, FALSE)                                   \* 200
          /\ handler' = [handler EXCEPT ![c].pc = "reading", ![c].pending = Len(completions) + 1]
       \/ /\ Begin(c, TRUE)                                    \* 202
          /\ handler' = [handler EXCEPT ![c].pc = "polling", ![c].pending = Len(completions) + 1]
       \/ Begin(c, FALSE) /\ TryAgain(c)                       \* the answer was lost
       \/ UNCHANGED completions /\ TryAgain(c)                 \* 429, 5xx, no connection
       \/ UNCHANGED completions /\ Replies(c, Refused(FALSE))  \* refused, model or key unknown
    /\ UNCHANGED <<route, call, uses, gatewayCrashes>>

(* The body of a 200: deltas until [DONE], or everything at once.          *)
Read(c) ==
    /\ handler[c].pc = "reading"
    /\ LET n == handler[c].pending  text == handler[c].text IN
       IF route = "stream" /\ Len(text) < Pieces
         THEN /\ handler' = [handler EXCEPT ![c].text = Append(@, <<n, Len(@) + 1>>)]
              /\ UNCHANGED completions
         ELSE /\ Replies(c, Answered(IF route = "stream" THEN text ELSE Whole(n)))
              /\ completions' = [completions EXCEPT ![n].made = TRUE]
    /\ UNCHANGED <<route, call, uses, gatewayCrashes>>

(* The body breaks off, is no JSON, or comes too slowly.  Only the         *)
(* streaming route reads it inside the loop that tries again.              *)
ReadFails(c) ==
    /\ handler[c].pc = "reading"
    /\ IF route = "stream" THEN TryAgain(c) ELSE Replies(c, Refused(TRUE))
    /\ UNCHANGED <<route, call, completions, uses, gatewayCrashes>>

(* One status request, with its own repetitions, for the pending answer.   *)
Poll(c) ==
    /\ handler[c].pc = "polling" /\ handler[c].polls < MaxPolls
    /\ IF completions[handler[c].pending].made
         THEN Replies(c, Answered(Whole(handler[c].pending)))
         ELSE handler' = [handler EXCEPT ![c].polls = @ + 1]
    /\ UNCHANGED <<route, call, completions, uses, gatewayCrashes>>

(* The polls are used up, or one failed.  The streaming route treats that  *)
(* like any other failure of the try and posts again.                      *)
PollFails(c) ==
    /\ handler[c].pc = "polling"
    /\ IF route = "stream" THEN TryAgain(c) ELSE Replies(c, Refused(TRUE))
    /\ UNCHANGED <<route, call, completions, uses, gatewayCrashes>>

(* The gateway's process ends: its requests and its counts are gone, and   *)
(* its clients see the connection close.                                   *)
GatewayCrash ==
    /\ gatewayCrashes < MaxGatewayCrashes
    /\ gatewayCrashes' = gatewayCrashes + 1
    /\ uses' = [c \in Calls |-> 0]
    /\ handler' = [c \in Calls |-> IF handler[c].pc = "none" THEN handler[c]
                                   ELSE Handler("gone", Refused(TRUE))]
    /\ UNCHANGED <<route, call, completions>>

Unanswered(c) ==
    /\ call[c].pc = "posted" /\ handler[c].pc = "gone"
    /\ CallEnds(c, "retryable", <<>>)
    /\ UNCHANGED <<route, handler, completions, uses, gatewayCrashes>>

(* The API finishes what it accepted as pending, whoever still asks for it.*)
Produce ==
    /\ \E n \in 1..Len(completions) :
          /\ completions[n].accepted /\ ~completions[n].made
          /\ completions' = [completions EXCEPT ![n].made = TRUE]
    /\ UNCHANGED <<route, call, handler, uses, gatewayCrashes>>

-----------------------------------------------------------------------------
GatewayStep(c) ==
    Authorize(c) \/ Post(c) \/ Read(c) \/ ReadFails(c) \/ Poll(c) \/ PollFails(c)
WorkerStep(c) == Receive(c) \/ GiveUpWaiting(c) \/ LoseWorker(c) \/ Unanswered(c)

CallsNext ==
    \/ \E c \in Calls : Issue(c) \/ WorkerStep(c) \/ GatewayStep(c)
    \/ GatewayCrash \/ Produce

CallsSpec == CallsInit /\ [][CallsNext]_callVars

(* An answer the worker accepts is one completion, whole, that was asked   *)
(* for under its own credential, whatever earlier tries and earlier calls  *)
(* still receive: _stream_response_mapping, _poll and complete().          *)
AnswerIsWhole ==
    \A c \in Calls : call[c].outcome = "succeeded" =>
        \E n \in 1..Len(completions) :
            /\ completions[n].call = c /\ completions[n].made
            /\ call[c].text = Whole(n)

(* Nobody waits for an answer and the gateway handles none.                *)
CallsAtRest ==
    \A c \in Calls : call[c].pc # "posted" /\ handler[c].pc \in {"none", "replied", "gone"}
=============================================================================

--------------------------- MODULE RemoteWrites ---------------------------
(***************************************************************************)
(* What the publisher may still change on a pull request it has opened:    *)
(* its text (app/pr_updates.py), its draft flag (app/pr_lifecycle.py) and  *)
(* the comment that signs the CLA (app/cla.py).  The three follow one      *)
(* protocol: a job reads GitHub and prepares a preview, the user confirms  *)
(* the latest preview, and a write job looks again, records that it starts *)
(* (under BEGIN IMMEDIATE), sends one request, and looks once more before  *)
(* it records the receipt.  A request whose answer was lost stays          *)
(* unresolved until GitHub shows what it asked for.                        *)
(*                                                                         *)
(* Others edit the pull request at any time; a publisher may lose its      *)
(* lease or die between any two steps, and the user may retry any failed   *)
(* write job (api.py:2662), whatever else is under way.                    *)
(***************************************************************************)
EXTENDS Naturals, Sequences, FiniteSets

CONSTANTS
    Kinds,        \* kinds of writes
    MaxPullChanges,   \* bound: previews, and changes made on GitHub by others
    MaxWrites     \* max_attempts of a write job

ASSUME RemoteAssumption ==
    /\ Kinds \subseteq {"text", "ready", "cla"}
    /\ MaxPullChanges \in Nat /\ MaxWrites \in Nat \ {0}

Ids == 1..MaxPullChanges

VARIABLES
    pull,         \* the pull request on GitHub
    edits,        \* changes made by others
    reading,      \* the prepare or check job that reads GitHub, if any
    prepared,     \* *_prepared events: kind and the pull request they show
    writes,       \* one write job for each confirmed preview
    sender,       \* the executions of its attempts
    started,      \* *_write_started events, by preview
    rejected,     \* *_rejected
    received,     \* *_completed, cla_submitted
    sent,         \* requests sent to GitHub, by preview
    shown         \* previews whose effect GitHub has shown since they were confirmed

remoteVars == <<pull, edits, reading, prepared, writes, sender, started, rejected,
                received, sent, shown>>
writeJournal == <<started, rejected, received>>

NoRead   == [purpose |-> "none"]
NoWrite  == [state |-> "none", attempt |-> 0]
NoSender == [step |-> "none", seen |-> FALSE]

RemoteInit ==
    /\ pull = [text |-> 0, draft |-> TRUE, head |-> 0, signed |-> FALSE]
    /\ edits = 0 /\ reading = NoRead
    /\ prepared = <<>>
    /\ writes = [p \in Ids |-> NoWrite]
    /\ sender = [p \in Ids |-> [a \in 1..MaxWrites |-> NoSender]]
    /\ started = {} /\ rejected = {} /\ received = {}
    /\ sent = [p \in Ids |-> 0]
    /\ shown = {}

ActiveWrite(p)  == writes[p].state \in {"queued", "running"}
Quiet      == reading = NoRead /\ \A p \in Ids : ~ActiveWrite(p)
Latest(p)  == /\ p \in DOMAIN prepared
              /\ \A q \in DOMAIN prepared : prepared[q].kind = prepared[p].kind => q <= p
Confirmed(p) == writes[p] # NoWrite

(* unresolved_update, unresolved_ready, unresolved_signature: a rejected   *)
(* comment is not recorded as such.                                        *)
Unresolved(kind) ==
    \E p \in started \ (received \cup rejected) : prepared[p].kind = kind
WriteBlocked(kind) ==
    IF kind = "cla" THEN Unresolved("cla") ELSE Unresolved("text") \/ Unresolved("ready")

(* What the pull request looks like once the request has been carried out. *)
Matches(p, shot) ==
    CASE prepared[p].kind = "text"  -> shot.text = p
      [] prepared[p].kind = "ready" -> ~shot.draft /\ shot.head = prepared[p].before.head
      [] prepared[p].kind = "cla"   -> shot.signed

(* What a write still compares with the preview when it is about to start: *)
(* signing looks at the target, the two others at the text as well.        *)
Unchanged(p, shot) ==
    /\ shot.head = 0
    /\ shot.draft = prepared[p].before.draft
    /\ prepared[p].kind # "cla" => shot.text = prepared[p].before.text

(* GitHub changes, and every confirmed preview it now matches is shown.    *)
Show(next) ==
    /\ pull' = next
    /\ shown' = shown \cup {p \in DOMAIN prepared : Confirmed(p) /\ Matches(p, next)}

-----------------------------------------------------------------------------
(* Prepare and check jobs, one attempt each.                               *)
RequestPreview(kind) ==
    /\ Quiet /\ ~WriteBlocked(kind)
    /\ reading' = [purpose |-> "prepare", kind |-> kind, seen |-> FALSE, before |-> pull]
    /\ UNCHANGED <<pull, edits, prepared, writes, sender, writeJournal, sent, shown>>

RequestCheck(kind) ==
    /\ Quiet
    /\ kind = "text" => \E p \in Ids : Confirmed(p) /\ prepared[p].kind = "text"
    /\ reading' = [purpose |-> "check", kind |-> kind, seen |-> FALSE, before |-> pull]
    /\ UNCHANGED <<pull, edits, prepared, writes, sender, writeJournal, sent, shown>>

FailRead ==
    /\ reading # NoRead
    /\ reading' = NoRead
    /\ UNCHANGED <<pull, edits, prepared, writes, sender, writeJournal, sent, shown>>

ReadPull ==
    /\ reading # NoRead /\ ~reading.seen
    /\ reading.purpose = "prepare" => pull.head = 0 /\ (reading.kind # "text" => pull.draft)
    /\ reading' = [reading EXCEPT !.seen = TRUE, !.before = pull]
    /\ UNCHANGED <<pull, edits, prepared, writes, sender, writeJournal, sent, shown>>

AppendPreview ==
    /\ reading # NoRead /\ reading.seen /\ reading.purpose = "prepare"
    /\ Len(prepared) + edits < MaxPullChanges
    /\ prepared' = Append(prepared, [kind |-> reading.kind, before |-> reading.before])
    /\ reading' = NoRead
    /\ UNCHANGED <<pull, edits, writes, sender, writeJournal, sent, shown>>

(* The latest confirmed preview of the kind, if GitHub shows it.  A text   *)
(* is received whether or not it was sent, a ready mark only if one is     *)
(* unresolved.                                                             *)
Reconcile ==
    /\ reading # NoRead /\ reading.seen /\ reading.purpose = "check"
    /\ received' = received \cup
         {p \in Ids : /\ Confirmed(p) /\ prepared[p].kind = reading.kind
                      /\ \A q \in Ids : Confirmed(q) /\ prepared[q].kind = reading.kind => q <= p
                      /\ reading.kind = "ready" => Unresolved("ready")
                      /\ Matches(p, reading.before)}
    /\ reading' = NoRead
    /\ UNCHANGED <<pull, edits, prepared, writes, sender, started, rejected, sent, shown>>

(* confirm_update, confirm_ready, confirm_cla; a preview older than thirty *)
(* minutes is refused.                                                     *)
ConfirmWrite(p) ==
    /\ Quiet /\ Latest(p)
    /\ ~Confirmed(p) /\ ~WriteBlocked(prepared[p].kind)
    /\ prepared[p].kind = "cla" => ~prepared[p].before.signed
    /\ writes' = [writes EXCEPT ![p].state = "queued"]
    /\ shown' = IF Matches(p, pull) THEN shown \cup {p} ELSE shown
    /\ UNCHANGED <<pull, edits, reading, prepared, sender, writeJournal, sent>>

-----------------------------------------------------------------------------
(* The write job and its executions.                                       *)
LeaseSender(p) ==
    /\ writes[p].state = "queued"
    /\ writes' = [writes EXCEPT ![p] = [state |-> "running", attempt |-> @.attempt + 1]]
    /\ sender' = [sender EXCEPT ![p][writes[p].attempt + 1].step = "begin"]
    /\ UNCHANGED <<pull, edits, reading, prepared, writeJournal, sent, shown>>

LoseSender(p) ==
    /\ writes[p].state = "running"
    /\ writes' = [writes EXCEPT ![p].state = IF writes[p].attempt < MaxWrites THEN "queued" ELSE "failed"]
    /\ UNCHANGED <<pull, edits, reading, prepared, sender, writeJournal, sent, shown>>

(* POST /jobs/{id}/retry asks neither whether the task is idle nor whether *)
(* another operation is unresolved.                                        *)
RetrySender(p) ==
    /\ writes[p].state = "failed" /\ writes[p].attempt < MaxWrites
    /\ writes' = [writes EXCEPT ![p].state = "queued"]
    /\ UNCHANGED <<pull, edits, reading, prepared, sender, writeJournal, sent, shown>>

SenderOwns(p, a) == writes[p] = [state |-> "running", attempt |-> a]
Proceed(p, a, step) == sender' = [sender EXCEPT ![p][a].step = step] /\ UNCHANGED writes
Quit(p, a, outcome) ==
    /\ sender' = [sender EXCEPT ![p][a] = NoSender]
    /\ writes' = IF SenderOwns(p, a) THEN [writes EXCEPT ![p].state = outcome] ELSE writes

(* The publisher dies, or GitHub cannot be read.                           *)
KillSender(p, a) ==
    /\ sender[p][a] # NoSender
    /\ \/ sender' = [sender EXCEPT ![p][a] = NoSender] /\ UNCHANGED writes
       \/ sender[p][a].step \in {"look", "again", "verify"} /\ Quit(p, a, "failed")
    /\ UNCHANGED <<pull, edits, reading, prepared, writeJournal, sent, shown>>

BeginWrite(p, a) ==
    /\ sender[p][a].step = "begin"
    /\ CASE p \in received -> Quit(p, a, "succeeded")
         [] p \notin received /\ (p \in rejected \/ ~SenderOwns(p, a)) -> Quit(p, a, "failed")
         [] OTHER -> /\ sender' = [sender EXCEPT ![p][a] =
                                      [step |-> "look", seen |-> p \in started]]
                     /\ UNCHANGED writes
    /\ UNCHANGED <<pull, edits, reading, prepared, writeJournal, sent, shown>>

(* A request that was started is never repeated, only looked for; one that *)
(* was not is given up when the preview is older than thirty minutes.      *)
Look(p, a) ==
    /\ sender[p][a].step = "look"
    /\ CASE Matches(p, pull) -> Proceed(p, a, "receive")
         [] ~Matches(p, pull) /\ ~sender[p][a].seen /\ Unchanged(p, pull)
              -> Proceed(p, a, "again") \/ Quit(p, a, "failed")
         [] OTHER -> Quit(p, a, "failed")
    /\ UNCHANGED <<pull, edits, reading, prepared, writeJournal, sent, shown>>

LookAgain(p, a) ==
    /\ sender[p][a].step = "again"
    /\ IF Unchanged(p, pull) THEN Proceed(p, a, "start") ELSE Quit(p, a, "failed")
    /\ UNCHANGED <<pull, edits, reading, prepared, writeJournal, sent, shown>>

(* Mutant of StartWrite: the lease is not checked again.                   *)
StartUnfenced(p, a) ==
    /\ sender[p][a].step = "start"
    /\ IF Latest(p) /\ (prepared[p].kind = "ready" => ~Unresolved("text"))
         THEN started' = started \cup {p} /\ Proceed(p, a, "send")
         ELSE Quit(p, a, "failed") /\ UNCHANGED started
    /\ UNCHANGED <<pull, edits, reading, prepared, rejected, received, sent, shown>>

StartWrite(p, a) ==
    /\ sender[p][a].step = "start"
    /\ IF SenderOwns(p, a) /\ Latest(p) /\ (prepared[p].kind = "ready" => ~Unresolved("text"))
         THEN started' = started \cup {p} /\ Proceed(p, a, "send")
         ELSE Quit(p, a, "failed") /\ UNCHANGED started
    /\ UNCHANGED <<pull, edits, reading, prepared, rejected, received, sent, shown>>

Effect(p) ==
    CASE prepared[p].kind = "text"  -> [pull EXCEPT !.text = p]
      [] prepared[p].kind = "ready" -> [pull EXCEPT !.draft = FALSE]
      [] prepared[p].kind = "cla"   -> [pull EXCEPT !.signed = TRUE]

(* The request is carried out and answered, carried out and not answered,  *)
(* or lost.  The answer to a comment is its receipt.                       *)
SendWrite(p, a) ==
    /\ sender[p][a].step = "send"
    /\ sent' = [sent EXCEPT ![p] = @ + 1]
    /\ \/ /\ Show(Effect(p))
          /\ \/ Proceed(p, a, IF prepared[p].kind = "cla" THEN "receive" ELSE "verify")
             \/ Quit(p, a, "failed")
       \/ Quit(p, a, "failed") /\ UNCHANGED <<pull, shown>>
    /\ UNCHANGED <<edits, reading, prepared, writeJournal>>

(* GitHub refuses a text or a mark and says so.                            *)
RejectWrite(p, a) ==
    /\ sender[p][a].step = "send" /\ prepared[p].kind # "cla"
    /\ sent' = [sent EXCEPT ![p] = @ + 1]
    /\ rejected' = IF SenderOwns(p, a) THEN rejected \cup {p} ELSE rejected
    /\ Quit(p, a, "failed")
    /\ UNCHANGED <<pull, edits, reading, prepared, started, received, shown>>

VerifyWrite(p, a) ==
    /\ sender[p][a].step = "verify"
    /\ IF Matches(p, pull) THEN Proceed(p, a, "receive") ELSE Quit(p, a, "failed")
    /\ UNCHANGED <<pull, edits, reading, prepared, writeJournal, sent, shown>>

Receive(p, a) ==
    /\ sender[p][a].step = "receive"
    /\ received' = IF SenderOwns(p, a) THEN received \cup {p} ELSE received
    /\ Quit(p, a, "succeeded")
    /\ UNCHANGED <<pull, edits, reading, prepared, started, rejected, sent, shown>>

-----------------------------------------------------------------------------
Others ==
    /\ Len(prepared) + edits < MaxPullChanges
    /\ edits' = edits + 1
    /\ \/ Show([pull EXCEPT !.text = 0])
       \/ Show([pull EXCEPT !.head = 1])
       \/ \E draft \in BOOLEAN : Show([pull EXCEPT !.draft = draft])
       \/ Show([pull EXCEPT !.signed = TRUE])
    /\ UNCHANGED <<reading, prepared, writes, sender, writeJournal, sent>>

RemoteNext ==
    \/ \E kind \in Kinds : RequestPreview(kind) \/ RequestCheck(kind)
    \/ FailRead \/ ReadPull \/ AppendPreview \/ Reconcile \/ Others
    \/ \E p \in Ids : ConfirmWrite(p) \/ LeaseSender(p) \/ LoseSender(p) \/ RetrySender(p)
    \/ \E p \in Ids, a \in 1..MaxWrites :
         \/ BeginWrite(p, a) \/ Look(p, a) \/ LookAgain(p, a) \/ StartWrite(p, a) \/ SendWrite(p, a)
         \/ RejectWrite(p, a) \/ VerifyWrite(p, a) \/ Receive(p, a) \/ KillSender(p, a)

RemoteSpec == RemoteInit /\ [][RemoteNext]_remoteVars

-----------------------------------------------------------------------------
(* One confirmation sends at most one request (contribution-workbench.md:  *)
(* 512), whatever is lost, retried or run twice.                           *)
SentAtMostOnce == \A p \in Ids : sent[p] <= 1

=============================================================================

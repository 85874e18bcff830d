------------------------- MODULE PublicationProofs -------------------------
(***************************************************************************)
(* Theorems about what is written on GitHub: Publication, RemoteWrites and *)
(* PublisherAccount, for any number of previews, attempts, accounts,       *)
(* probes and changes made by others.  The three modules share no          *)
(* variable.                                                               *)
(***************************************************************************)
EXTENDS Publication, RemoteWrites, PublisherAccount, TLAPS

-----------------------------------------------------------------------------
(* Publication: the preview that was confirmed.  Nothing prepares another  *)
(* one while it is being published, and the account cannot change before   *)
(* the write job has succeeded, which only happens once the pull request   *)
(* was recorded.                                                           *)

WriteStates == {"none", "queued", "running", "failed", "succeeded"}
PublishSteps == {"none", "over", "begin", "find", "base", "fork", "branch", "rebase", "mark",
                 "append", "post", "record"}

WriteType ==
    /\ write \in [state : WriteStates, attempt : Nat]
    /\ exec \in [1..MaxAttempts -> PublishSteps]

ConfirmedInv ==
    /\ WriteType
    /\ confirmed # 0 => work = NoWork /\ write.state # "none"
    /\ write.state = "succeeded" => completed
    /\ ConfirmedIsCurrent

LEMMA ConfirmedInit == PublicationInit => ConfirmedInv
BY DEF PublicationInit, ConfirmedInv, ConfirmedIsCurrent, WriteType, WriteStates, PublishSteps

LEMMA ConfirmedNext == ConfirmedInv /\ [PublicationNext]_publicationVars => ConfirmedInv'
<1> SUFFICES ASSUME ConfirmedInv, [PublicationNext]_publicationVars
             PROVE  ConfirmedInv'
  OBVIOUS
<1> USE DEF ConfirmedInv, ConfirmedIsCurrent, WriteType, WriteStates
<1>1. CASE \E kind \in {"requirements", "prepare"} : RequestPublication(kind)
  BY <1>1 DEF RequestPublication, record
<1>2. CASE RenewPublicationPreview
  BY <1>2 DEF RenewPublicationPreview, record
<1>3. CASE FailWork
  BY <1>3 DEF FailWork, EndWork, record
<1>4. CASE PrepareDocument \/ DraftDocument \/ ReadUpstream
  BY <1>4 DEF PrepareDocument, DraftDocument, ReadUpstream, EndWork, NoWork, record
<1>5. CASE PreparePreview
  BY <1>5 DEF PreparePreview, EndWork, NoWork, record
<1>6. CASE \E p \in 1..MaxPreviews : ConfirmPublication(p)
  BY <1>6 DEF ConfirmPublication, NothingRuns, record
<1>7. CASE \E p \in 1..MaxPreviews : Expire(p)
  BY <1>7 DEF Expire, record
<1>8. CASE StopWorkflow \/ Advance \/ ReviewAgain
  BY <1>8 DEF StopWorkflow, Advance, ReviewAgain, record
<1>9. CASE ChangeAccount
  BY <1>9 DEF ChangeAccount, record
<1>10. CASE EditPull \/ \E scope, rules \in {0, 1} : UpstreamMoves(scope, rules)
  BY <1>10 DEF EditPull, UpstreamMoves, local, record
<1>11. CASE LeaseWrite
  <2>1. /\ write' = [state |-> "running", attempt |-> write.attempt + 1]
        /\ exec' = [exec EXCEPT ![write.attempt + 1] = "begin"]
        /\ UNCHANGED <<previews, confirmed, login, work, completed>> /\ write.state = "queued"
    BY <1>11 DEF LeaseWrite, local, record
  <2>2. write' \in [state : WriteStates, attempt : Nat] /\ write'.state = "running"
    <3>1. write.attempt + 1 \in Nat
      OBVIOUS
    <3> QED BY <2>1, <3>1
  <2>3. exec' \in [1..MaxAttempts -> PublishSteps]
    BY <2>1 DEF PublishSteps
  <2> QED BY <2>1, <2>2, <2>3
<1>12. CASE LoseWrite \/ RetryWrite
  BY <1>12 DEF LoseWrite, RetryWrite, local, record
<1>13. ASSUME NEW a \in 1..MaxAttempts, PublishStep(a) \/ KillPublisher(a)
       PROVE  ConfirmedInv'
  <2> USE DEF PublishSteps, Goto, FailWrite, CheckThen, local, record
  <2>1. CASE BeginPublish(a) \/ CheckBase(a) \/ RecheckBase(a) \/ CheckMarker(a)
    BY <2>1 DEF BeginPublish, CheckBase, RecheckBase, CheckMarker
  <2>2. CASE FindPull(a)
    BY <2>2 DEF FindPull
  <2>3. CASE EnsureFork(a) \/ EnsureBranch(a)
    BY <2>3 DEF EnsureFork, EnsureBranch, Act
  <2>4. CASE AppendMarker(a) \/ PostPull(a) \/ KillPublisher(a)
    BY <2>4 DEF AppendMarker, PostPull, KillPublisher
  <2>5. CASE AlreadyPublished(a)
    BY <2>5 DEF AlreadyPublished
  <2>6. CASE RecordPull(a)
    BY <2>6 DEF RecordPull
  <2> QED BY <1>13, <2>1, <2>2, <2>3, <2>4, <2>5, <2>6 DEF PublishStep
<1>14. CASE UNCHANGED publicationVars
  BY <1>14 DEF publicationVars, record
<1> QED
  BY <1>1, <1>2, <1>3, <1>4, <1>5, <1>6, <1>7, <1>8, <1>9, <1>10, <1>11, <1>12, <1>13, <1>14
  DEF PublicationNext

(* The preview the user confirmed stays the latest one, and the publishing *)
(* account the one it was prepared for, until the pull request is recorded *)
(* (publication.py confirm, publisher_accounts.py                          *)
(* assert_account_changeable), with overlapping publishers as well.        *)
THEOREM ConfirmedStaysCurrent == PublicationSpec => []ConfirmedIsCurrent
<1>1. ConfirmedInv => ConfirmedIsCurrent
  BY DEF ConfirmedInv
<1> QED BY ConfirmedInit, ConfirmedNext, <1>1, PTL DEF PublicationSpec

-----------------------------------------------------------------------------
(* Publication: the request that opens the pull request.  One publisher at *)
(* a time holds the attempt of the write job, and it marks the request as  *)
(* started before it sends it: whoever finds the mark does not send.       *)

PostInv ==
    /\ WriteType
    /\ posts \in {0, 1}
    /\ ~marker => posts = 0
    /\ \A a \in 1..MaxAttempts :
          /\ Going(a) => Mine(a)
          /\ exec[a] = "append" => ~marker
          /\ exec[a] = "post" => marker /\ posts = 0

LEMMA PostInit == PublicationInit => PostInv
BY DEF PublicationInit, PostInv, WriteType, WriteStates, PublishSteps, Going

(* What a step of the publisher of attempt a makes of the attempts: it goes *)
(* on, or it stops and may end the write job.                              *)
Turns(a, step) == exec' = [exec EXCEPT ![a] = step] /\ write' = write
Stops(a) ==
    exec' = [exec EXCEPT ![a] = "over"] /\ write' \in [state : WriteStates, attempt : Nat]

(* One publisher moves: the others are at rest, before and after.          *)
LEMMA PublisherTurns ==
    ASSUME PostInv, NEW a \in 1..MaxAttempts, Going(a),
           NEW step \in PublishSteps, Turns(a, step), posts' \in {0, 1}, ~marker' => posts' = 0,
           step = "append" => ~marker', step = "post" => marker' /\ posts' = 0
    PROVE  PostInv'
<1> USE DEF PostInv, WriteType, Going, Mine, Turns
<1>1. /\ WriteType'
      /\ exec'[a] = step /\ \A b \in 1..MaxAttempts \ {a} : exec'[b] = exec[b]
  OBVIOUS
<1>2. \A b \in 1..MaxAttempts \ {a} : ~Going(b)
  OBVIOUS
<1>3. (Going(a) => Mine(a))'
  BY <1>1
<1>4. \A b \in 1..MaxAttempts \ {a} : ~(Going(b)')
  BY <1>1, <1>2
<1> QED BY <1>1, <1>3, <1>4

LEMMA PublisherStops ==
    ASSUME PostInv, NEW a \in 1..MaxAttempts, Going(a),
           Stops(a), posts' \in {0, 1}, ~marker' => posts' = 0
    PROVE  PostInv'
<1> USE DEF PostInv, WriteType, PublishSteps, Going, Mine, Stops
<1>1. /\ WriteType'
      /\ exec'[a] = "over" /\ \A b \in 1..MaxAttempts \ {a} : exec'[b] = exec[b]
  OBVIOUS
<1>2. \A b \in 1..MaxAttempts \ {a} : ~Going(b)
  OBVIOUS
<1>3. \A b \in 1..MaxAttempts : ~(Going(b)')
  BY <1>1, <1>2
<1> QED BY <1>1, <1>3

LEMMA FailedWrite ==
    ASSUME WriteType, NEW a \in 1..MaxAttempts, FailWrite(a)
    PROVE  Stops(a)
BY DEF WriteType, FailWrite, WriteStates, Stops

LEMMA PostNext ==
    ASSUME ~Overlap, PostInv, [PublicationNext]_publicationVars
    PROVE  PostInv'
<1>1. ASSUME UNCHANGED <<write, exec, marker, posts>>
      PROVE  PostInv'
  BY <1>1 DEF PostInv, WriteType, Going, Mine
<1>2. CASE \/ \E kind \in {"requirements", "prepare"} : RequestPublication(kind)
           \/ RenewPublicationPreview \/ FailWork \/ PrepareDocument \/ DraftDocument
           \/ ReadUpstream \/ PreparePreview
  BY <1>1, <1>2 DEF RequestPublication, RenewPublicationPreview, FailWork, PrepareDocument,
     DraftDocument, ReadUpstream, PreparePreview, EndWork, record, github
<1>3. CASE \/ \E p \in 1..MaxPreviews : Expire(p)
           \/ StopWorkflow \/ Advance \/ ReviewAgain \/ ChangeAccount \/ EditPull
           \/ \E scope, rules \in {0, 1} : UpstreamMoves(scope, rules)
  BY <1>1, <1>3 DEF Expire, StopWorkflow, Advance, ReviewAgain, ChangeAccount, EditPull,
     UpstreamMoves, record, github
<1>4. ASSUME NEW p \in 1..MaxPreviews, ConfirmPublication(p)
      PROVE  PostInv'
  <2>1. write' = [write EXCEPT !.state = "queued"] /\ write.state # "running"
    BY <1>4 DEF ConfirmPublication, NothingRuns, Writing
  <2>2. UNCHANGED <<exec, marker, posts>>
    BY <1>4 DEF ConfirmPublication, record, github
  <2> QED BY <2>1, <2>2 DEF PostInv, WriteType, WriteStates, Going, Mine
<1>5. CASE LeaseWrite
  <2>1. /\ write' = [state |-> "running", attempt |-> write.attempt + 1]
        /\ exec' = [exec EXCEPT ![write.attempt + 1] = "begin"]
        /\ UNCHANGED <<marker, posts>>
    BY <1>5 DEF LeaseWrite, record, github
  <2>2. \A a \in 1..MaxAttempts : ~Going(a)
    BY <1>5 DEF LeaseWrite
  <2>3. write.attempt + 1 \in Nat
    BY DEF PostInv, WriteType
  <2>4. WriteType'
    BY <2>1, <2>3 DEF PostInv, WriteType, WriteStates, PublishSteps
  <2>5. \A a \in 1..MaxAttempts :
           /\ (Going(a) => Mine(a))'
           /\ exec'[a] \notin {"append", "post"}
    BY <2>1, <2>2 DEF PostInv, WriteType, Going, Mine
  <2> QED BY <2>1, <2>4, <2>5 DEF PostInv
<1>6. CASE LoseWrite \/ RetryWrite
  BY <1>6 DEF LoseWrite, RetryWrite, record, github, PostInv, WriteType, WriteStates, Going, Mine
<1>7. ASSUME NEW a \in 1..MaxAttempts, PublishStep(a) \/ KillPublisher(a)
      PROVE  PostInv'
  <2> DEFINE Same == UNCHANGED <<marker, posts>>
  <2>0. /\ PostInv /\ WriteType /\ (FailWrite(a) => Stops(a))
        /\ posts \in {0, 1} /\ (~marker => posts = 0)
    BY FailedWrite DEF PostInv
  <2>p. {"find", "fork", "mark", "base", "record", "branch", "rebase", "append", "post"}
            \subseteq PublishSteps
    BY DEF PublishSteps
  <2>1. CASE BeginPublish(a) \/ CheckBase(a) \/ RecheckBase(a)
    <3>1. Same /\ Going(a) /\ (Turns(a, "find") \/ Turns(a, "fork") \/ Turns(a, "mark") \/ Stops(a))
      BY <2>0, <2>1
      DEF BeginPublish, CheckBase, RecheckBase, CheckThen, Goto, Going, record, github, Turns
    <3> QED BY <2>0, <2>p, PublisherTurns, PublisherStops, <3>1
  <2>2. CASE FindPull(a) \/ EnsureFork(a) \/ EnsureBranch(a)
    <3>1. Same /\ Going(a)
      BY <2>2 DEF FindPull, EnsureFork, EnsureBranch, Going, record, github
    <3>2. \/ Turns(a, "base") \/ Turns(a, "record") \/ Turns(a, "branch") \/ Turns(a, "rebase")
          \/ Stops(a)
      BY <2>0, <2>2 DEF FindPull, EnsureFork, EnsureBranch, Act, Goto, Turns
    <3> QED BY <2>0, <2>p, PublisherTurns, PublisherStops, <3>1, <3>2
  <2>3. CASE CheckMarker(a)
    <3>1. Same /\ Going(a) /\ ((Turns(a, "append") /\ ~marker) \/ Stops(a))
      BY <2>0, <2>3 DEF CheckMarker, CheckThen, Goto, Going, record, github, Turns
    <3> QED BY <2>0, <2>p, PublisherTurns, PublisherStops, <3>1
  <2>4. CASE AppendMarker(a)
    <3>1. Going(a) /\ Turns(a, "post") /\ marker' = TRUE /\ posts' = posts /\ posts = 0
      BY <2>4 DEF AppendMarker, Goto, Going, PostInv, github, Turns
    <3> QED BY <2>0, <2>p, PublisherTurns, PublisherStops, <3>1
  <2>5. CASE PostPull(a)
    <3>1. Going(a) /\ marker' = TRUE /\ posts' = 1 /\ (Turns(a, "record") \/ Stops(a))
      BY <2>0, <2>5 DEF PostPull, Goto, Going, PostInv, record, Turns
    <3> QED BY <2>0, <2>p, PublisherTurns, PublisherStops, <3>1
  <2>6. CASE AlreadyPublished(a) \/ RecordPull(a) \/ KillPublisher(a)
    <3>1. Same /\ Going(a) /\ Stops(a)
      BY <2>0, <2>6
      DEF AlreadyPublished, RecordPull, KillPublisher, WriteType, WriteStates, Going, Stops,
          record, github
    <3> QED BY <2>0, PublisherStops, <3>1
  <2> QED BY <1>7, <2>1, <2>2, <2>3, <2>4, <2>5, <2>6 DEF PublishStep
<1>8. CASE UNCHANGED publicationVars
  BY <1>1, <1>8 DEF publicationVars, record
<1> QED BY <1>2, <1>3, <1>4, <1>5, <1>6, <1>7, <1>8 DEF PublicationNext

(* At most one request is sent to open the pull request of a task, for any *)
(* number of attempts of the write job, wherever a publisher dies and      *)
(* whatever answer is lost, provided that publishers do not overlap: the   *)
(* deployment runs one (docs/deployment/compose.yaml), and it looks for    *)
(* expired leases in the loop that also runs the job.                      *)
THEOREM PullIsOpenedOnce == ASSUME ~Overlap PROVE PublicationSpec => []AtMostOnePost
<1>1. PostInv /\ [PublicationNext]_publicationVars => PostInv'
  BY PostNext
<1>2. PostInv => AtMostOnePost
  BY DEF PostInv, AtMostOnePost
<1> QED BY PostInit, <1>1, <1>2, PTL DEF PublicationSpec

-----------------------------------------------------------------------------
(* RemoteWrites: one confirmation, one request.  The attempt that holds    *)
(* the write job has not seen a mark only as long as there is none, and it *)
(* marks the write as started while it still holds the job; so a later     *)
(* attempt sees the mark, and an earlier one that still goes on is refused.*)

SendSteps == {"none", "begin", "look", "again", "start", "send", "verify", "receive"}
Attempts == 1..MaxWrites

SenderType ==
    /\ writes \in [Ids -> [state : WriteStates, attempt : Nat]]
    /\ sender \in [Ids -> [Attempts -> [step : SendSteps, seen : BOOLEAN]]]
    /\ sent \in [Ids -> {0, 1}]

(* The attempt goes on because it has seen no mark.                        *)
Unseen(p, a) ==
    \/ sender[p][a].step \in {"again", "start"}
    \/ sender[p][a].step = "look" /\ ~sender[p][a].seen

SendInv ==
    /\ SenderType
    /\ \A p \in Ids :
          /\ writes[p].state = "queued" => writes[p].attempt < MaxWrites
          /\ p \notin started => sent[p] = 0
          /\ \A a \in Attempts :
                /\ sender[p][a].step # "none" => a <= writes[p].attempt
                /\ Unseen(p, a) /\ a = writes[p].attempt => p \notin started
                /\ sender[p][a].step = "send" => p \in started /\ sent[p] = 0
                /\ \A b \in Attempts :
                      sender[p][a].step = "send" /\ sender[p][b].step = "send" => a = b

LEMMA SendInit == RemoteInit => SendInv
BY RemoteAssumption
DEF RemoteInit, SendInv, SenderType, SendSteps, Attempts, WriteStates, NoWrite, NoSender, Unseen

(* One execution moves, and the others stay where they are.                *)
OnlyMoves(p, a) ==
    /\ SenderType'
    /\ \A q \in Ids : /\ writes'[q].attempt = writes[q].attempt
                      /\ writes'[q].state = "queued" => writes[q].state = "queued"
    /\ \A q \in Ids, b \in Attempts : q # p \/ b # a => sender'[q][b] = sender[q][b]

LEMMA SenderSet ==
    ASSUME SenderType, NEW p \in Ids, NEW a \in Attempts,
           NEW s \in [step : SendSteps, seen : BOOLEAN],
           sender' = [sender EXCEPT ![p][a] = s],
           writes' \in [Ids -> [state : WriteStates, attempt : Nat]],
           \A q \in Ids : /\ writes'[q].attempt = writes[q].attempt
                          /\ writes'[q].state = "queued" => writes[q].state = "queued",
           sent' \in [Ids -> {0, 1}]
    PROVE  OnlyMoves(p, a) /\ sender'[p][a] = s
<1> DEFINE S == [step : SendSteps, seen : BOOLEAN]
           row == [sender[p] EXCEPT ![a] = s]
<1>1. /\ row \in [Attempts -> S] /\ row[a] = s
      /\ \A b \in Attempts : b # a => row[b] = sender[p][b]
  BY DEF SenderType
<1>2. sender' = [sender EXCEPT ![p] = row]
  OBVIOUS
<1> HIDE DEF row, S
<1>3. sender \in [Ids -> [Attempts -> S]]
  BY DEF SenderType, S
<1>4. /\ sender' \in [Ids -> [Attempts -> S]] /\ sender'[p] = row
      /\ \A q \in Ids : q # p => sender'[q] = sender[q]
  BY <1>1, <1>2, <1>3
<1> QED BY <1>1, <1>4 DEF SenderType, OnlyMoves, S

LEMMA Proceeded ==
    ASSUME SenderType, NEW p \in Ids, NEW a \in Attempts, NEW step \in SendSteps,
           Proceed(p, a, step), sent' \in [Ids -> {0, 1}]
    PROVE  /\ OnlyMoves(p, a)
           /\ sender'[p][a].step = step /\ sender'[p][a].seen = sender[p][a].seen
<1> DEFINE s == [sender[p][a] EXCEPT !.step = step]
<1>1. s \in [step : SendSteps, seen : BOOLEAN] /\ s.step = step /\ s.seen = sender[p][a].seen
  BY SMTT(60) DEF SenderType
<1>2. sender' = [sender EXCEPT ![p][a] = s] /\ writes' = writes
  BY DEF Proceed
<1> HIDE DEF s
<1> QED BY ZenonT(60), <1>1, <1>2, SenderSet DEF SenderType

LEMMA HasQuit ==
    ASSUME SenderType, NEW p \in Ids, NEW a \in Attempts, NEW outcome \in {"failed", "succeeded"},
           Quit(p, a, outcome), sent' \in [Ids -> {0, 1}]
    PROVE  OnlyMoves(p, a) /\ sender'[p][a].step = "none"
<1>1. NoSender \in [step : SendSteps, seen : BOOLEAN] /\ NoSender.step = "none"
  BY DEF NoSender, SendSteps
<1>2. /\ sender' = [sender EXCEPT ![p][a] = NoSender]
      /\ writes' = writes \/ writes' = [writes EXCEPT ![p].state = outcome]
  BY DEF Quit
<1>3. /\ writes' \in [Ids -> [state : WriteStates, attempt : Nat]]
      /\ \A q \in Ids : /\ writes'[q].attempt = writes[q].attempt
                        /\ writes'[q].state = "queued" => writes[q].state = "queued"
  <2>1. CASE writes' = writes
    BY <2>1 DEF SenderType
  <2>2. CASE writes' = [writes EXCEPT ![p].state = outcome]
    <3>1. outcome \in WriteStates /\ outcome # "queued"
      BY DEF WriteStates
    <3> QED BY <2>2, <3>1 DEF SenderType
  <2> QED BY <1>2, <2>1, <2>2
<1> QED BY ZenonT(60), <1>1, <1>2, <1>3, SenderSet

(* An execution that has not just started or sent the write.               *)
LEMMA SenderMoves ==
    ASSUME SendInv, NEW p \in Ids, NEW a \in Attempts, OnlyMoves(p, a),
           sender'[p][a].step # "none" => sender[p][a].step # "none", UNCHANGED <<started, sent>>,
           sender'[p][a].step # "send",
           Unseen(p, a)' => Unseen(p, a) \/ p \notin started
    PROVE  SendInv'
<1> USE DEF SendInv, OnlyMoves
<1>1. ASSUME NEW q \in Ids, NEW b \in Attempts, q # p \/ b # a
      PROVE  sender'[q][b] = sender[q][b] /\ (Unseen(q, b)' <=> Unseen(q, b))
  BY <1>1 DEF Unseen
<1>2. ASSUME NEW q \in Ids, NEW b \in Attempts
      PROVE  /\ sender'[q][b].step # "none" => b <= writes'[q].attempt
             /\ Unseen(q, b)' /\ b = writes'[q].attempt => q \notin started'
             /\ sender'[q][b].step = "send" => sender[q][b].step = "send"
  BY <1>1
<1> QED BY <1>2

LEMMA SendQueue ==
    ASSUME SendInv, NEW p \in Ids,
           ConfirmWrite(p) \/ LeaseSender(p) \/ LoseSender(p) \/ RetrySender(p)
    PROVE  SendInv'
<1>1. /\ UNCHANGED <<started, sent>> /\ SenderType
      /\ writes[p] \in [state : WriteStates, attempt : Nat]
  BY DEF ConfirmWrite, LeaseSender, LoseSender, RetrySender, writeJournal, SendInv, SenderType
<1>2. CASE LeaseSender(p)
  <2> DEFINE n == writes[p].attempt + 1
             s == [sender[p][n] EXCEPT !.step = "begin"]
  <2>1. n \in Attempts
    BY <1>1, <1>2, RemoteAssumption DEF LeaseSender, SendInv, Attempts
  <2>2. s \in [step : SendSteps, seen : BOOLEAN] /\ s.step = "begin"
    BY <1>1, <2>1 DEF SenderType, SendSteps
  <2>3. sender' = [sender EXCEPT ![p][n] = s]
    BY <1>2 DEF LeaseSender
  <2>4. writes' = [writes EXCEPT ![p] = [state |-> "running", attempt |-> n]] /\ n \in Nat
    BY <1>1, <1>2 DEF LeaseSender
  <2> HIDE DEF n, s
  <2>5. SenderType'
    <3>1. [sender[p] EXCEPT ![n] = s] \in [Attempts -> [step : SendSteps, seen : BOOLEAN]]
      BY <1>1, <2>1, <2>2 DEF SenderType
    <3>2. sender' = [sender EXCEPT ![p] = [sender[p] EXCEPT ![n] = s]]
      BY <2>3
    <3>3. sender' \in [Ids -> [Attempts -> [step : SendSteps, seen : BOOLEAN]]]
      BY <1>1, <3>1, <3>2 DEF SenderType
    <3>4. writes' \in [Ids -> [state : WriteStates, attempt : Nat]]
      BY <1>1, <2>4 DEF SenderType, WriteStates
    <3> QED BY <1>1, <3>3, <3>4 DEF SenderType
  <2>6. /\ sender'[p][n].step = "begin" /\ writes'[p].attempt = n /\ n = writes[p].attempt + 1
        /\ writes'[p].state = "running"
        /\ \A b \in Attempts : b # n => sender'[p][b] = sender[p][b]
        /\ \A q \in Ids : q # p => sender'[q] = sender[q] /\ writes'[q] = writes[q]
    BY <1>1, <2>1, <2>2, <2>3, <2>4 DEF SenderType, n
  <2>7. \A b \in Attempts : sender[p][b].step # "none" => b < n
    BY <1>1, <2>6 DEF SendInv, Attempts
  <2>8. \A q \in Ids, b \in Attempts : q # p => (Unseen(q, b)' <=> Unseen(q, b))
    BY <2>6 DEF Unseen
  <2>9. ASSUME NEW q \in Ids
        PROVE  /\ writes'[q].state = "queued" => writes'[q].attempt < MaxWrites
               /\ q \notin started' => sent'[q] = 0
               /\ \A a \in Attempts :
                    /\ sender'[q][a].step # "none" => a <= writes'[q].attempt
                    /\ Unseen(q, a)' /\ a = writes'[q].attempt => q \notin started'
                    /\ sender'[q][a].step = "send" => sender[q][a].step = "send"
    <3>1. CASE q = p
      <4>1. writes'[p].state # "queued" /\ (p \notin started' => sent'[p] = 0)
        BY <1>1, <2>6 DEF SendInv
      <4>2. ASSUME NEW a \in Attempts
            PROVE  /\ sender'[p][a].step # "none" => a <= writes'[p].attempt
                   /\ Unseen(p, a)' => a # writes'[p].attempt
                   /\ sender'[p][a].step = "send" => sender[p][a].step = "send"
        <5>1. a \in Nat /\ n \in Nat
          BY <2>4, RemoteAssumption DEF Attempts
        <5>2. Unseen(p, a)' => a # n
          BY <2>6 DEF Unseen
        <5>3. sender[p][a].step # "none" => a < n
          BY <2>7
        <5>4. CASE a = n
          <6>1. sender'[p][a].step = "begin"
            BY <2>6, <5>4
          <6>2. a <= n
            BY <5>1, <5>4
          <6> QED BY <2>6, <5>2, <5>4, <6>1, <6>2
        <5>5. CASE a # n
          <6>1. sender'[p][a] = sender[p][a]
            BY <2>6, <5>5
          <6> QED BY <2>6, <5>1, <5>3, <5>5, <6>1
        <5> QED BY <5>4, <5>5
      <4> QED BY <3>1, <4>1, <4>2
    <3>2. CASE q # p
      BY <1>1, <2>6, <2>8, <3>2 DEF SendInv
    <3> QED BY <3>1, <3>2
  <2> QED BY <1>1, <2>5, <2>9 DEF SendInv
<1>3. CASE ConfirmWrite(p) \/ LoseSender(p) \/ RetrySender(p)
  <2>1. \E state \in WriteStates :
           /\ writes' = [writes EXCEPT ![p].state = state]
           /\ state = "queued" => writes[p].attempt < MaxWrites
    BY <1>1, <1>3, RemoteAssumption
    DEF ConfirmWrite, LoseSender, RetrySender, Confirmed, NoWrite, WriteStates
  <2>2. sender' = sender
    BY <1>3 DEF ConfirmWrite, LoseSender, RetrySender
  <2>3. PICK state \in WriteStates : /\ writes' = [writes EXCEPT ![p].state = state]
                                     /\ state = "queued" => writes[p].attempt < MaxWrites
    BY <2>1
  <2>4. /\ writes' \in [Ids -> [state : WriteStates, attempt : Nat]]
        /\ \A q \in Ids : /\ writes'[q].attempt = writes[q].attempt
                          /\ writes'[q].state = "queued" => writes[q].attempt < MaxWrites
    BY <1>1, <2>3 DEF SendInv, SenderType
  <2> QED BY <1>1, <2>2, <2>4 DEF SendInv, SenderType, Unseen
<1> QED BY <1>2, <1>3

LEMMA SendStep ==
    ASSUME SendInv, NEW p \in Ids, NEW a \in Attempts,
           \/ BeginWrite(p, a) \/ Look(p, a) \/ LookAgain(p, a) \/ StartWrite(p, a)
           \/ SendWrite(p, a) \/ RejectWrite(p, a) \/ VerifyWrite(p, a) \/ Receive(p, a)
           \/ KillSender(p, a)
    PROVE  SendInv'
<1> DEFINE Quits == \E outcome \in {"failed", "succeeded"} : Quit(p, a, outcome)
           Same == UNCHANGED <<started, sent>>
           Here == sender[p][a].step
<1>1. SenderType /\ sent \in [Ids -> {0, 1}]
  BY DEF SendInv, SenderType
<1>2. ASSUME Same, Quits, Here # "none"
      PROVE  SendInv'
  BY <1>1, <1>2, HasQuit, SenderMoves DEF Unseen
<1>3. ASSUME Same, NEW step \in {"receive", "again", "start"}, Proceed(p, a, step), Here # "none",
             step \in {"again", "start"} => Unseen(p, a)
      PROVE  SendInv'
  <2>1. step \in SendSteps
    BY DEF SendSteps
  <2> QED BY <1>1, <1>3, <2>1, Proceeded, SenderMoves DEF Unseen
<1>4. CASE BeginWrite(p, a)
  <2>1. Same /\ Here = "begin" /\ Here # "none"
    BY <1>4 DEF BeginWrite, writeJournal
  <2>2. \/ Quits
        \/ /\ sender' = [sender EXCEPT ![p][a] = [step |-> "look", seen |-> p \in started]]
           /\ UNCHANGED writes
    BY <1>4 DEF BeginWrite
  <2>3. CASE /\ sender' = [sender EXCEPT ![p][a] = [step |-> "look", seen |-> p \in started]]
             /\ writes' = writes
    <3> DEFINE s == [step |-> "look", seen |-> p \in started]
    <3>1. s \in [step : SendSteps, seen : BOOLEAN] /\ s.step = "look" /\ (s.seen <=> p \in started)
      <4>1. (p \in started) \in BOOLEAN
        OBVIOUS
      <4>2. "look" \in SendSteps
        BY DEF SendSteps
      <4>3. s \in [step : SendSteps, seen : BOOLEAN]
        BY <4>1, <4>2, Zenon
      <4>4. s.step = "look"
        OBVIOUS
      <4>5. s.seen = (p \in started)
        BY Zenon
      <4> QED BY <4>3, <4>4, <4>5, Zenon
    <3>2. sender' = [sender EXCEPT ![p][a] = s]
      BY <2>3
    <3>x. /\ writes' \in [Ids -> [state : WriteStates, attempt : Nat]]
          /\ sent' \in [Ids -> {0, 1}]
          /\ \A q \in Ids : /\ writes'[q].attempt = writes[q].attempt
                            /\ writes'[q].state = "queued" => writes[q].state = "queued"
      BY <1>1, <2>1, <2>3 DEF SenderType
    <3> HIDE DEF s
    <3>3. OnlyMoves(p, a) /\ sender'[p][a] = s
      BY <1>1, <3>1, <3>2, <3>x, SenderSet
    <3> QED BY <2>1, <3>1, <3>3, SenderMoves DEF Unseen
  <2> QED BY <1>2, <2>1, <2>2, <2>3
<1>5. CASE Look(p, a)
  <2>1. Same /\ Here = "look" /\ Here # "none"
    BY <1>5 DEF Look, writeJournal
  <2>2. \/ Quits \/ Proceed(p, a, "receive")
        \/ Proceed(p, a, "again") /\ Unseen(p, a)
    BY <1>5 DEF Look, Unseen
  <2> QED BY <1>2, <1>3, <2>1, <2>2
<1>6. CASE LookAgain(p, a)
  <2>1. Same /\ Here # "none" /\ Unseen(p, a)
    BY <1>6 DEF LookAgain, writeJournal, Unseen
  <2>2. Quits \/ Proceed(p, a, "start")
    BY <1>6 DEF LookAgain
  <2> QED BY <1>2, <1>3, <2>1, <2>2
<1>7. CASE StartWrite(p, a)
  <2>1. Here = "start" /\ Unseen(p, a) /\ sent' = sent
    BY <1>7 DEF StartWrite, Unseen
  <2>2. CASE Quits /\ UNCHANGED started
    BY <1>2, <2>1, <2>2
  <2>3. CASE SenderOwns(p, a) /\ started' = started \cup {p} /\ Proceed(p, a, "send")
    <3>1. "send" \in SendSteps
      BY DEF SendSteps
    <3>2. OnlyMoves(p, a) /\ sender'[p][a].step = "send"
      BY <1>1, <2>1, <2>3, <3>1, Proceeded DEF SenderType
    <3>3. a = writes[p].attempt /\ p \notin started /\ sent[p] = 0
      BY <2>1, <2>3 DEF SenderOwns, SendInv
    <3>4. \A b \in Attempts : sender[p][b].step # "send"
      BY <3>3 DEF SendInv
    <3>5. ASSUME NEW q \in Ids, NEW b \in Attempts, q # p \/ b # a
          PROVE  sender'[q][b] = sender[q][b] /\ (Unseen(q, b)' <=> Unseen(q, b))
      BY <3>2, <3>5 DEF OnlyMoves, Unseen
    <3>6. ASSUME NEW q \in Ids
          PROVE  /\ writes'[q].state = "queued" => writes'[q].attempt < MaxWrites
                 /\ q \notin started' => sent'[q] = 0
      BY <2>1, <2>3, <3>2 DEF SendInv, OnlyMoves
    <3>7. ASSUME NEW q \in Ids, NEW b \in Attempts
          PROVE  /\ sender'[q][b].step # "none" => b <= writes'[q].attempt
                 /\ Unseen(q, b)' /\ b = writes'[q].attempt => q \notin started'
                 /\ sender'[q][b].step = "send" => q \in started' /\ sent'[q] = 0
      <4>1. CASE q = p /\ b = a
        BY <2>1, <2>3, <3>2, <3>3, <4>1 DEF SendInv, OnlyMoves, Unseen
      <4>2. CASE q = p /\ b # a
        BY <2>1, <2>3, <3>2, <3>3, <3>4, <3>5, <4>2 DEF SendInv, OnlyMoves
      <4>3. CASE q # p
        BY <2>1, <2>3, <3>2, <3>5, <4>3 DEF SendInv, OnlyMoves
      <4> QED BY <4>1, <4>2, <4>3
    <3>8. ASSUME NEW q \in Ids, NEW b \in Attempts, NEW c \in Attempts,
                 sender'[q][b].step = "send", sender'[q][c].step = "send"
          PROVE  b = c
      BY <3>4, <3>5, <3>8 DEF SendInv
    <3> QED BY <3>2, <3>6, <3>7, <3>8 DEF SendInv, OnlyMoves
  <2> QED BY <1>7, <2>2, <2>3 DEF StartWrite
<1>8. CASE SendWrite(p, a) \/ RejectWrite(p, a)
  <2>1. /\ Here = "send" /\ sent' = [sent EXCEPT ![p] = @ + 1] /\ started' = started
        /\ Quits \/ \E step \in {"receive", "verify"} : Proceed(p, a, step)
    BY <1>8 DEF SendWrite, RejectWrite, writeJournal
  <2>2. p \in started /\ sent[p] = 0
    BY <2>1 DEF SendInv
  <2>3. /\ sent' \in [Ids -> {0, 1}] /\ sent'[p] = 1
        /\ \A q \in Ids : q # p => sent'[q] = sent[q]
    BY <1>1, <2>1, <2>2
  <2>4. OnlyMoves(p, a) /\ sender'[p][a].step \in {"none", "receive", "verify"}
    <3>1. CASE Quits
      BY <1>1, <2>3, <3>1, HasQuit
    <3>2. ASSUME NEW step \in {"receive", "verify"}, Proceed(p, a, step)
          PROVE  OnlyMoves(p, a) /\ sender'[p][a].step = step
      <4>1. step \in SendSteps
        BY DEF SendSteps
      <4> QED BY <1>1, <2>3, <3>2, <4>1, Proceeded
    <3> QED BY <2>1, <3>1, <3>2
  <2>5. ASSUME NEW q \in Ids, NEW b \in Attempts, q # p \/ b # a
        PROVE  sender'[q][b] = sender[q][b] /\ (Unseen(q, b)' <=> Unseen(q, b))
    BY <2>4, <2>5 DEF OnlyMoves, Unseen
  <2>6. ASSUME NEW q \in Ids
        PROVE  /\ writes'[q].state = "queued" => writes'[q].attempt < MaxWrites
               /\ q \notin started' => sent'[q] = 0
    BY <2>1, <2>2, <2>3, <2>4 DEF SendInv, OnlyMoves
  <2>7. ASSUME NEW q \in Ids, NEW b \in Attempts
        PROVE  /\ sender'[q][b].step # "none" => b <= writes'[q].attempt
               /\ Unseen(q, b)' /\ b = writes'[q].attempt => q \notin started'
               /\ sender'[q][b].step = "send" =>
                     sender[q][b].step = "send" /\ q \in started' /\ sent'[q] = 0
    <3>1. CASE q = p /\ b = a
      BY <2>1, <2>4, <3>1 DEF SendInv, OnlyMoves, Unseen
    <3>2. CASE q = p /\ b # a
      <4>1. sender[p][b].step # "send"
        BY <2>1, <3>2 DEF SendInv
      <4> QED BY <2>1, <2>4, <2>5, <3>2, <4>1 DEF SendInv, OnlyMoves
    <3>3. CASE q # p
      BY <2>1, <2>3, <2>4, <2>5, <3>3 DEF SendInv, OnlyMoves
    <3> QED BY <3>1, <3>2, <3>3
  <2>8. SenderType'
    BY <2>4 DEF OnlyMoves
  <2> QED BY <2>6, <2>7, <2>8 DEF SendInv
<1>10. CASE VerifyWrite(p, a) \/ Receive(p, a)
  <2>1. Same /\ Here # "none"
    BY <1>10 DEF VerifyWrite, Receive, writeJournal
  <2>2. Quits \/ Proceed(p, a, "receive")
    BY <1>10 DEF VerifyWrite, Receive
  <2> QED BY <1>2, <1>3, <2>1, <2>2
<1>11. CASE KillSender(p, a)
  <2>1. Same
    BY <1>11 DEF KillSender, writeJournal
  <2>2. CASE Quit(p, a, "failed") /\ Here # "none"
    BY <1>2, <2>1, <2>2
  <2>3. CASE sender' = [sender EXCEPT ![p][a] = NoSender] /\ UNCHANGED writes
    <3>1. NoSender \in [step : SendSteps, seen : BOOLEAN] /\ NoSender.step = "none"
      BY DEF NoSender, SendSteps
    <3>2. OnlyMoves(p, a) /\ sender'[p][a] = NoSender
      BY <1>1, <2>1, <2>3, <3>1, SenderSet DEF SenderType
    <3> QED BY <2>1, <3>1, <3>2, SenderMoves DEF Unseen
  <2> QED BY <1>11, <2>2, <2>3 DEF KillSender
<1> QED BY <1>4, <1>5, <1>6, <1>7, <1>8, <1>10, <1>11

LEMMA SendNext == SendInv /\ [RemoteNext]_remoteVars => SendInv'
<1> SUFFICES ASSUME SendInv, [RemoteNext]_remoteVars
             PROVE  SendInv'
  OBVIOUS
<1>1. CASE UNCHANGED <<writes, sender, started, sent>>
  BY <1>1 DEF SendInv, SenderType, Unseen
<1>2. CASE \/ \E kind \in Kinds : RequestPreview(kind) \/ RequestCheck(kind)
           \/ FailRead \/ ReadPull \/ AppendPreview \/ Reconcile \/ Others
  BY <1>1, <1>2 DEF RequestPreview, RequestCheck, FailRead, ReadPull, AppendPreview, Reconcile,
     Others, writeJournal
<1>3. CASE \E p \in Ids : ConfirmWrite(p) \/ LeaseSender(p) \/ LoseSender(p) \/ RetrySender(p)
  BY <1>3, SendQueue
<1>4. CASE \E p \in Ids, a \in 1..MaxWrites :
              \/ BeginWrite(p, a) \/ Look(p, a) \/ LookAgain(p, a) \/ StartWrite(p, a)
              \/ SendWrite(p, a) \/ RejectWrite(p, a) \/ VerifyWrite(p, a) \/ Receive(p, a)
              \/ KillSender(p, a)
  BY <1>4, SendStep DEF Attempts
<1>5. CASE UNCHANGED remoteVars
  BY <1>1, <1>5 DEF remoteVars, writeJournal
<1> QED BY <1>2, <1>3, <1>4, <1>5 DEF RemoteNext

(* One confirmation sends at most one request, for any number of previews  *)
(* and attempts, whichever leases are lost and publishers die, and however *)
(* executions of several attempts overlap (the start of a write and the    *)
(* check of the lease are one transaction, pr_updates.py, pr_lifecycle.py, *)
(* cla.py).                                                                *)
THEOREM WriteIsSentOnce == RemoteSpec => []SentAtMostOnce
<1>1. SendInv => SentAtMostOnce
  BY DEF SendInv, SenderType, SentAtMostOnce
<1> QED BY SendInit, SendNext, <1>1, PTL DEF RemoteSpec

-----------------------------------------------------------------------------
(* PublisherAccount: a probe that was overtaken cannot connect.  A probe   *)
(* that awaits GitHub has read a pending account; as long as the version   *)
(* it has read is the latest, the account is still pending, so no          *)
(* publication can have been confirmed with it.                            *)

ProbeStates == {"none", "queued", "running", "succeeded", "failed", "timed_out", "cancelled"}

AccountType ==
    /\ prober \in [Keys -> [attempt : Nat, version : Nat]]
    /\ probes \in [Keys -> [state : ProbeStates, attempt : Nat, ref : Keys \cup {NoKey}]]
    /\ account \in [state : {"disconnected", "pending", "connected"}, ref : Keys \cup {NoKey},
                    job : Keys \cup {NoKey}, version : Nat]
    /\ publications \in [Publications -> [state : {"none", "queued", "running", "succeeded",
                                                   "failed", "cancelled"},
                                          version : Nat]]

AccountInv ==
    /\ AccountType
    /\ \A k \in Keys : prober[k] # NoProbe =>
          /\ prober[k].version <= account.version
          /\ prober[k].version = account.version => account.state = "pending"
    /\ PublicationKeepsAccount

LEMMA AccountInitial == AccountInit => AccountInv
BY DEF AccountInit, AccountInv, AccountType, PublicationKeepsAccount, NoEvent, NoProbe,
   ProbeStates

LEMMA AccountStep == AccountInv /\ [AccountNext]_accountVars => AccountInv'
<1> SUFFICES ASSUME AccountInv, [AccountNext]_accountVars
             PROVE  AccountInv'
  OBVIOUS
<1> USE DEF AccountInv, AccountType, PublicationKeepsAccount, ProbeStates
<1>1. ASSUME NEW k \in Keys, Save(k) \/ Test(k) \/ Disconnect(k)
      PROVE  AccountInv'
  BY SMTT(60), <1>1 DEF Save, Test, Disconnect, PendingProbe, AppendAccount, AccountChangeable
<1>2. ASSUME NEW k \in Keys, SaveHalf(k) \/ DisconnectAgain(k)
      PROVE  AccountInv'
  BY <1>2 DEF SaveHalf, DisconnectAgain
<1>3. ASSUME NEW k \in Keys, LeaseProbe(k) \/ FailProbe(k) \/ RequeueProbe(k)
      PROVE  AccountInv'
  <2>1. UNCHANGED <<account, prober, publications>>
    BY <1>3 DEF LeaseProbe, FailProbe, RequeueProbe
  <2>2. CASE LeaseProbe(k)
    <3>1. /\ probes' = [probes EXCEPT ![k].state = "running", ![k].attempt = @ + 1]
          /\ probes[k].attempt + 1 \in Nat
      BY <2>2 DEF LeaseProbe
    <3>2. probes' \in [Keys -> [state : ProbeStates, attempt : Nat, ref : Keys \cup {NoKey}]]
      BY <3>1
    <3> QED BY <2>1, <3>2
  <2>3. ASSUME NEW outcome \in ProbeStates, EndProbe(k, outcome)
        PROVE  AccountInv'
    BY SMTT(60), <2>1, <2>3 DEF EndProbe
  <2> QED BY <1>3, <2>2, <2>3 DEF FailProbe, RequeueProbe
<1>4. ASSUME NEW k \in Keys, BeginProbe(k)
      PROVE  AccountInv'
  <2>1. UNCHANGED <<account, publications>>
    BY <1>4 DEF BeginProbe
  <2>2. CASE EndProbe(k, "failed") /\ UNCHANGED prober
    BY SMTT(60), <2>1, <2>2 DEF EndProbe
  <2>3. CASE /\ account.state = "pending" /\ UNCHANGED probes
             /\ prober' = [prober EXCEPT ![k] = [attempt |-> probes[k].attempt,
                                                 version |-> account.version]]
    <3>1. [attempt |-> probes[k].attempt, version |-> account.version]
             \in [attempt : Nat, version : Nat]
      OBVIOUS
    <3> QED BY <2>1, <2>3, <3>1
  <2> QED BY <1>4, <2>2, <2>3 DEF BeginProbe
<1>5. ASSUME NEW k \in Keys, Connect(k)
      PROVE  AccountInv'
  BY SMTT(60), <1>5 DEF Connect, EndProbe, AppendAccount, NoProbe
<1>6. CASE DeleteCredentials \/ KillManager
  BY <1>6 DEF DeleteCredentials, KillManager
<1>7. ASSUME NEW p \in Publications, ConfirmPull(p)
      PROVE  AccountInv'
  BY <1>7 DEF ConfirmPull
<1>8. ASSUME NEW p \in Publications, MovePublication(p)
      PROVE  AccountInv'
  BY <1>8 DEF MovePublication
<1>9. CASE UNCHANGED accountVars
  BY <1>9 DEF accountVars
<1> QED BY <1>1, <1>2, <1>3, <1>4, <1>5, <1>6, <1>7, <1>8, <1>9 DEF AccountNext

(* As long as it is not known to have succeeded, a confirmed publication   *)
(* finds the very account it was confirmed with, for any number of         *)
(* requests, probes, attempts and publications.                            *)
THEOREM AccountStays == AccountSpec => []PublicationKeepsAccount
<1>1. AccountInv => PublicationKeepsAccount
  BY DEF AccountInv
<1> QED BY AccountInitial, AccountStep, <1>1, PTL DEF AccountSpec
=============================================================================

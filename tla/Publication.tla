---------------------------- MODULE Publication ----------------------------
(***************************************************************************)
(* Publication of a reviewed contribution as a draft pull request          *)
(* (app/publication.py, app/publication_documents.py): the text and the    *)
(* exact preview are prepared by jobs, the user confirms one preview, and  *)
(* a write job with MaxAttempts attempts forks, pushes and opens the pull  *)
(* request on GitHub.                                                      *)
(*                                                                         *)
(* Requests of the user run under BEGIN IMMEDIATE.  The workers await      *)
(* GitHub between their transactions: meanwhile the upstream moves, the    *)
(* account changes, others edit the pull request, answers are lost and the *)
(* publisher dies.  With Overlap, a publisher that lost its lease may      *)
(* still be running when another publisher takes the job.                  *)
(***************************************************************************)
EXTENDS Naturals, Sequences

CONSTANTS
    MaxAttempts,  \* max_attempts of the write job
    MaxPreviews,  \* bound: previews prepared for the task
    MaxReviews,   \* bound: reviews of the task
    MaxCommits,   \* bound: commits upstream
    MaxAccounts,  \* bound: versions of the publishing account
    Overlap       \* TRUE: several publishers run at a time

ASSUME PublicationAssumption ==
    /\ MaxAttempts \in Nat \ {0} /\ MaxPreviews \in Nat /\ MaxReviews \in Nat
    /\ MaxCommits \in Nat /\ MaxAccounts \in Nat
    /\ Overlap \in BOOLEAN

VARIABLES
    task,         \* state of the contribution task
    review,       \* latest passing review, and the source it reviewed
    upstream,     \* the base branch: commit, version of the scope, rules
    login,        \* version of the publishing account
    work,         \* the job that prepares text or preview, if any
    document,     \* latest publication_document_ready
    previews,     \* publication_prepared events
    expired,      \* previews older than thirty minutes
    halted,       \* a stop_requested event the coordinator has not handled
    confirmed,    \* the preview of publication_confirmed; 0 for none
    write,        \* the publication_write job
    exec,         \* what each attempt of the write job is doing
    marker,       \* pr_write_started was recorded
    completed,    \* publication_completed was recorded
    remote,       \* GitHub: fork, branch, pull requests
    posts         \* requests sent to open a pull request

publicationVars == <<task, review, upstream, login, work, document, previews, expired, halted,
                     confirmed, write, exec, marker, completed, remote, posts>>
local  == <<task, review, login, work, document, previews, expired, halted, confirmed>>
record == <<marker, completed>>
github == <<upstream, remote, posts>>

NoWork == [kind |-> "none", review |-> 0, account |-> 0, rules |-> 0, base |-> 0, cancel |-> FALSE]

PublicationInit ==
    /\ task = "ready" /\ review = [number |-> 1, scope |-> 0]
    /\ upstream = [commit |-> 0, scope |-> 0, rules |-> 0]
    /\ login = 1
    /\ work = NoWork /\ document = [review |-> 0, rules |-> 0]
    /\ previews = <<>> /\ expired = {} /\ halted = FALSE /\ confirmed = 0
    /\ write = [state |-> "none", attempt |-> 0]
    /\ exec = [a \in 1..MaxAttempts |-> "none"]
    /\ marker = FALSE /\ completed = FALSE
    /\ remote = [fork |-> FALSE, branch |-> 0, pulls |-> <<>>]
    /\ posts = 0

Writing == write.state \in {"queued", "running"}
NothingRuns == work = NoWork /\ ~Writing
VerifiedReview(n) == task = "ready" /\ review.number = n

-----------------------------------------------------------------------------
(* Preparing the text and the preview.                                     *)
RequestPublication(kind) ==
    /\ NothingRuns /\ confirmed = 0 /\ task = "ready"
    /\ Len(previews) < MaxPreviews
    /\ kind = "prepare" => document.review \in {0, review.number}
    /\ work' = [NoWork EXCEPT !.kind = kind, !.review = review.number, !.account = login]
    /\ UNCHANGED <<task, review, login, document, previews, expired, halted, confirmed,
                   write, exec, record, github>>

(* The text of an expired preview is prepared again for the same account.  *)
RenewPublicationPreview ==
    /\ NothingRuns /\ confirmed = 0 /\ task = "ready"
    /\ previews # <<>> /\ Len(previews) < MaxPreviews
    /\ previews[Len(previews)].account = login
    /\ work' = [NoWork EXCEPT !.kind = "prepare", !.review = review.number, !.account = login]
    /\ UNCHANGED <<task, review, login, document, previews, expired, halted, confirmed,
                   write, exec, record, github>>

EndWork ==
    /\ work' = NoWork
    /\ UNCHANGED <<task, review, login, expired, halted, confirmed, write, exec, record, github>>

(* A failed check, a lost lease or a cancellation: these jobs have one     *)
(* attempt.                                                                *)
FailWork == work # NoWork /\ EndWork /\ UNCHANGED <<document, previews>>

(* upstream_binding: the base may advance, but not in the reviewed scope.  *)
UpstreamBinding == upstream.scope = review.scope

PrepareDocument ==
    /\ work.kind = "requirements" /\ ~work.cancel
    /\ VerifiedReview(work.review) /\ UpstreamBinding
    /\ work' = [work EXCEPT !.kind = "document", !.rules = upstream.rules]
    /\ UNCHANGED <<task, review, login, document, previews, expired, halted, confirmed,
                   write, exec, record, github>>

DraftDocument ==
    /\ work.kind = "document" /\ ~work.cancel
    /\ VerifiedReview(work.review)
    /\ document' = [review |-> work.review, rules |-> work.rules]
    /\ EndWork /\ UNCHANGED previews

ReadUpstream ==
    /\ work.kind = "prepare" /\ VerifiedReview(work.review) /\ UpstreamBinding
    /\ document.review = 0 \/ document = [review |-> work.review, rules |-> upstream.rules]
    /\ work' = [work EXCEPT !.kind = "prepared", !.rules = upstream.rules, !.base = upstream.commit]
    /\ UNCHANGED <<task, review, login, document, previews, expired, halted, confirmed,
                   write, exec, record, github>>

PreparePreview ==
    /\ work.kind = "prepared" /\ ~work.cancel
    /\ VerifiedReview(work.review) /\ work.account = login
    /\ previews' = Append(previews, [review |-> work.review, account |-> work.account,
                                     base |-> work.base, rules |-> work.rules])
    /\ EndWork /\ UNCHANGED document

(* Mutant of ConfirmPublication: any preview that has not expired will do. *)
ConfirmOlder(p) ==
    /\ NothingRuns /\ confirmed = 0
    /\ p \in DOMAIN previews \ expired
    /\ confirmed' = p
    /\ write' = [write EXCEPT !.state = "queued"]
    /\ UNCHANGED <<task, review, login, work, document, previews, expired, halted,
                   exec, record, github>>

(* The user confirms the preview shown.                                    *)
ConfirmPublication(p) ==
    /\ NothingRuns /\ confirmed = 0
    /\ p \in DOMAIN previews \ expired /\ p = Len(previews)
    /\ VerifiedReview(previews[p].review) /\ previews[p].account = login
    /\ confirmed' = p
    /\ write' = [write EXCEPT !.state = "queued"]
    /\ UNCHANGED <<task, review, login, work, document, previews, expired, halted,
                   exec, record, github>>

-----------------------------------------------------------------------------
(* Meanwhile.  A stop cancels the jobs under way, and the coordinator      *)
(* returns the task to planning once they have ended.                      *)
StopWorkflow ==
    /\ task = "ready" /\ confirmed = 0 /\ ~Writing
    /\ halted' = TRUE
    /\ work' = IF work = NoWork THEN work ELSE [work EXCEPT !.cancel = TRUE]
    /\ UNCHANGED <<task, review, login, document, previews, expired, confirmed,
                   write, exec, record, github>>

Advance ==
    /\ halted /\ work = NoWork /\ task = "ready"
    /\ halted' = FALSE
    /\ task' = "planning"
    /\ UNCHANGED <<review, login, work, document, previews, expired, confirmed,
                   write, exec, record, github>>

(* A new plan is executed and reviewed against the source of the day.      *)
ReviewAgain ==
    /\ task = "planning" /\ NothingRuns /\ review.number < MaxReviews
    /\ task' = "ready"
    /\ review' = [number |-> review.number + 1, scope |-> upstream.scope]
    /\ UNCHANGED <<login, work, document, previews, expired, halted, confirmed,
                   write, exec, record, github>>

(* assert_account_changeable.                                              *)
ChangeAccount ==
    /\ login < MaxAccounts /\ write.state \in {"none", "succeeded"}
    /\ login' = login + 1
    /\ UNCHANGED <<task, review, work, document, previews, expired, halted, confirmed,
                   write, exec, record, github>>

Expire(p) ==
    /\ p \in DOMAIN previews \ expired
    /\ expired' = expired \cup {p}
    /\ UNCHANGED <<task, review, login, work, document, previews, halted, confirmed,
                   write, exec, record, github>>

UpstreamMoves(scope, rules) ==
    /\ upstream.commit < MaxCommits
    /\ upstream' = [commit |-> upstream.commit + 1,
                    scope |-> upstream.scope + scope, rules |-> upstream.rules + rules]
    /\ UNCHANGED <<local, write, exec, record, remote, posts>>

(* Someone edits the pull request: content 0 is not what was confirmed.    *)
EditPull ==
    /\ remote.pulls # <<>> /\ remote.pulls[1] # 0
    /\ remote' = [remote EXCEPT !.pulls[1] = 0]
    /\ UNCHANGED <<local, write, exec, record, upstream, posts>>

-----------------------------------------------------------------------------
(* The write job.                                                          *)
Going(a) == exec[a] \notin {"none", "over"}

LeaseWrite ==
    /\ write.state = "queued"
    /\ Overlap \/ \A a \in 1..MaxAttempts : ~Going(a)
    /\ write' = [state |-> "running", attempt |-> write.attempt + 1]
    /\ exec' = [exec EXCEPT ![write.attempt + 1] = "begin"]
    /\ UNCHANGED <<local, record, github>>

KillPublisher(a) ==
    /\ Going(a)
    /\ exec' = [exec EXCEPT ![a] = "over"]
    /\ UNCHANGED <<local, write, record, github>>

(* recover_expired runs in the loop that also runs the job, so only        *)
(* another publisher takes the lease of one that is going.                 *)
LoseWrite ==
    /\ write.state = "running"
    /\ Overlap \/ ~Going(write.attempt)
    /\ write' = [write EXCEPT !.state = IF write.attempt < MaxAttempts THEN "queued" ELSE "failed"]
    /\ UNCHANGED <<local, exec, record, github>>

RetryWrite ==
    /\ write.state = "failed" /\ write.attempt < MaxAttempts
    /\ write' = [write EXCEPT !.state = "queued"]
    /\ UNCHANGED <<local, exec, record, github>>

Mine(a) == write.state = "running" /\ write.attempt = a
Intent == previews[confirmed]

FailWrite(a) ==
    /\ exec' = [exec EXCEPT ![a] = "over"]
    /\ write' = IF Mine(a) THEN [write EXCEPT !.state = "failed"] ELSE write
Goto(a, step) == exec' = [exec EXCEPT ![a] = step] /\ UNCHANGED write

(* A step that holds or ends the attempt.                                  *)
CheckThen(a, condition, step) ==
    /\ IF condition THEN Goto(a, step) ELSE FailWrite(a)
    /\ UNCHANGED <<local, record, github>>

BeginPublish(a) ==
    /\ exec[a] = "begin" /\ ~completed
    /\ CheckThen(a, Intent.account = login /\ VerifiedReview(Intent.review), "find")

(* The result was recorded by an earlier attempt.                          *)
AlreadyPublished(a) ==
    /\ exec[a] \in {"begin", "record"} /\ completed
    /\ exec' = [exec EXCEPT ![a] = "over"]
    /\ write' = IF Mine(a) THEN [write EXCEPT !.state = "succeeded"] ELSE write
    /\ UNCHANGED <<local, record, github>>

(* find_pr and validate_pr.                                                *)
FindPull(a) ==
    /\ exec[a] = "find"
    /\ CASE remote.pulls = <<>> -> Goto(a, "base")
         [] remote.pulls = <<confirmed>> -> Goto(a, "record")
         [] OTHER -> FailWrite(a)
    /\ UNCHANGED <<local, record, github>>

CheckBase(a) ==
    /\ exec[a] = "base"
    /\ CheckThen(a, upstream.commit = Intent.base /\ upstream.rules = Intent.rules, "fork")

(* The fork and the push are marked as well, but a marker that exists does *)
(* not stop a retry: it looks first and asks only for what is missing.     *)
Act(a, missing, changed, step) ==
    IF ~missing THEN Goto(a, step) /\ UNCHANGED remote
    ELSE \/ FailWrite(a) /\ UNCHANGED remote
         \/ /\ Mine(a) /\ VerifiedReview(Intent.review)
            /\ remote' = changed
            /\ Goto(a, step) \/ FailWrite(a)

EnsureFork(a) ==
    /\ exec[a] = "fork"
    /\ Act(a, ~remote.fork, [remote EXCEPT !.fork = TRUE], "branch")
    /\ UNCHANGED <<local, record, upstream, posts>>

(* The branch is named after the task; another commit on it ends the       *)
(* attempt (only this job pushes here, and it has one commit to push).     *)
EnsureBranch(a) ==
    /\ exec[a] = "branch"
    /\ Act(a, remote.branch = 0, [remote EXCEPT !.branch = confirmed], "rebase")
    /\ UNCHANGED <<local, record, upstream, posts>>

RecheckBase(a) ==
    /\ exec[a] = "rebase"
    /\ CheckThen(a, upstream.commit = Intent.base, "mark")

(* Mutant of CheckMarker: the marker of an earlier attempt is not seen.    *)
MarkAgain(a) ==
    /\ exec[a] = "mark"
    /\ CheckThen(a, Mine(a) /\ VerifiedReview(Intent.review), "append")

(* The lease, the marker and the review are read ...                       *)
CheckMarker(a) ==
    /\ exec[a] = "mark"
    /\ CheckThen(a, Mine(a) /\ ~marker /\ VerifiedReview(Intent.review), "append")

(* ... and the marker is written, or found, in a transaction of its own.   *)
AppendMarker(a) ==
    /\ exec[a] = "append"
    /\ marker' = TRUE
    /\ Goto(a, "post")
    /\ UNCHANGED <<local, completed, github>>

(* GitHub refuses a second pull request for the branch.  An answer may be  *)
(* lost, and a pull request may be refused for another reason.             *)
PostPull(a) ==
    /\ exec[a] = "post"
    /\ posts' = posts + 1
    /\ \/ /\ remote.pulls = <<>>
          /\ remote' = [remote EXCEPT !.pulls = <<confirmed>>]
          /\ Goto(a, "record") \/ FailWrite(a)
       \/ UNCHANGED remote /\ FailWrite(a)
    /\ UNCHANGED <<local, record, upstream>>

(* Task state, pull request, event, audit and the end of the job are one   *)
(* transaction.                                                            *)
RecordPull(a) ==
    /\ exec[a] = "record" /\ ~completed
    /\ IF Mine(a) /\ task = "ready"
         THEN /\ task' = "draft_pr"
              /\ completed' = TRUE
              /\ exec' = [exec EXCEPT ![a] = "over"]
              /\ write' = [write EXCEPT !.state = "succeeded"]
         ELSE FailWrite(a) /\ UNCHANGED <<task, completed>>
    /\ UNCHANGED <<review, login, work, document, previews, expired, halted, confirmed,
                   marker, github>>

-----------------------------------------------------------------------------
PublishStep(a) ==
    \/ BeginPublish(a) \/ AlreadyPublished(a) \/ FindPull(a) \/ CheckBase(a) \/ EnsureFork(a)
    \/ EnsureBranch(a) \/ RecheckBase(a) \/ CheckMarker(a) \/ AppendMarker(a) \/ PostPull(a)
    \/ RecordPull(a)

PublicationNext ==
    \/ \E kind \in {"requirements", "prepare"} : RequestPublication(kind)
    \/ RenewPublicationPreview \/ FailWork \/ PrepareDocument \/ DraftDocument
    \/ ReadUpstream \/ PreparePreview
    \/ \E p \in 1..MaxPreviews : ConfirmPublication(p) \/ Expire(p)
    \/ StopWorkflow \/ Advance \/ ReviewAgain \/ ChangeAccount \/ EditPull
    \/ \E scope, rules \in {0, 1} : UpstreamMoves(scope, rules)
    \/ LeaseWrite \/ LoseWrite \/ RetryWrite
    \/ \E a \in 1..MaxAttempts : PublishStep(a) \/ KillPublisher(a)

PublicationSpec == PublicationInit /\ [][PublicationNext]_publicationVars

-----------------------------------------------------------------------------
(* Until it is recorded, what the user confirmed stays the latest preview  *)
(* of the task and the publishing account stays the one it was prepared    *)
(* for (publication.py:629, publisher_accounts.py:51).                     *)
ConfirmedIsCurrent ==
    confirmed # 0 /\ ~completed => /\ confirmed = Len(previews)
                                   /\ previews[confirmed].account = login

(* At most one request is ever sent to open the pull request of a task     *)
(* (docs/contribution-workbench.md:235), whatever answers are lost and     *)
(* publishers die.                                                         *)
AtMostOnePost == posts <= 1

=============================================================================

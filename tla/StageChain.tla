----------------------------- MODULE StageChain -----------------------------
(***************************************************************************)
(* The chain of stage versions of one attempt as app/executions.py writes  *)
(* it and reads it back.  A version carries the evidence its stage has:    *)
(* the job specification it ran under, its inputs, its result, the         *)
(* workspace and the inventory of the workspace.  Every call first reads   *)
(* the whole chain and refuses to go on when one version of it does not    *)
(* follow from its predecessor (_verified_history), so a version that a    *)
(* writer appends and the reader refuses ends the attempt for good.        *)
(*                                                                         *)
(* Each call names the version it follows and carries an idempotency key.  *)
(* Its answer may be lost: the caller then repeats it under the same key,  *)
(* and may do so long after others have appended to the chain.             *)
(*                                                                         *)
(* A hash is the position of the version it stands for, or one of Hashes   *)
(* when callers differ in what they bring along.                           *)
(***************************************************************************)
EXTENDS Naturals, Sequences

CONSTANTS
    Callers,       \* concurrent callers of the service
    ClientKeys,    \* idempotency keys API clients choose
    Hashes,        \* hashes of what callers bring along
    Outcomes,      \* bound: how runs that do not succeed end, of Ends
    MaxVersions,   \* bound: versions of the chain
    MaxRepeats     \* bound: calls repeated after a lost answer

ASSUME StageChainAssumption ==
    /\ MaxVersions \in Nat \ {0}
    /\ MaxRepeats \in Nat
    /\ Outcomes \subseteq {"failed", "cancelled", "timed_out"}
    /\ 0 \notin Hashes      \* None

VARIABLES
    chain,     \* the stage versions, oldest first
    restored,  \* receipts of restored environments
    call,      \* what each caller asks, and how far it is
    repeats

chainVars == <<chain, restored, call, repeats>>

None == 0
Ends == {"failed", "cancelled", "timed_out"}

(* What _append is given, apart from the key.                              *)
First == [stage |-> "explore", status |-> "pending", reason |-> "execution_started",
          spec |-> None, inputs |-> <<>>, result |-> None,
          workspace |-> None, inventory |-> None]

Last == chain[Len(chain)]
NoCall == [pc |-> "idle", op |-> "none", key |-> <<>>, at |-> 0]

ChainInit ==
    /\ chain = <<[key |-> <<"start">>, version |-> First]>>
    /\ restored = {}
    /\ call = [c \in Callers |-> NoCall]
    /\ repeats = 0

-----------------------------------------------------------------------------
(* The reader.                                                             *)

ShapeOK(v) ==
    /\ v.status = "pending" => v.spec = None /\ v.result = None
    /\ v.status = "running" => v.spec # None /\ v.result = None
    /\ v.status = "succeeded" => v.spec # None /\ v.result # None
    /\ v.stage = "explore" =>
          v.inputs = <<>> /\ v.workspace = None /\ v.inventory = None
    /\ v.stage = "implement" =>
          /\ Len(v.inputs) = 2
          /\ v.status = "pending" => v.workspace = None
          /\ v.status # "pending" /\ v.spec # None => v.workspace # None
          /\ v.status = "succeeded" => v.inventory # None
    /\ v.stage = "verify" =>
          Len(v.inputs) \in {1, 2} /\ v.workspace # None /\ v.inventory # None

SameWorkspace(p, v) == v.workspace = p.workspace /\ v.inventory = p.inventory

StartEdge(p, v) ==
    /\ p.status = "pending" /\ v.status = "running"
    /\ v.stage = p.stage /\ v.inputs = p.inputs
    /\ v.stage = "verify" => SameWorkspace(p, v)

AbandonEdge(p, v) ==
    /\ p.status = "pending" /\ v.status \in Ends /\ v.spec = None
    /\ v.stage = p.stage /\ v.inputs = p.inputs /\ SameWorkspace(p, v)

EndEdge(p, v) ==
    /\ p.status = "running" /\ v.status \in Ends \cup {"succeeded"}
    /\ v.stage = p.stage /\ v.inputs = p.inputs /\ v.spec = p.spec
    /\ v.workspace = p.workspace
    /\ v.stage # "implement" => v.inventory = p.inventory

AdvanceEdge(p, v) ==
    /\ p.status = "succeeded" /\ v.status = "pending"
    /\ \/ /\ p.stage = "explore" /\ v.stage = "implement"
          /\ Len(v.inputs) = 2
       \/ /\ p.stage = "implement" /\ v.stage = "verify"
          /\ Len(v.inputs) \in {1, 2} /\ SameWorkspace(p, v)
    /\ v.inputs[1] = p.result

RestoreEdge(p, v) ==
    /\ p.stage = "verify" /\ v.stage = "verify"
    /\ p.status = "failed" /\ v.status = "pending"
    /\ v.reason = "dependency_environment_restored"
    /\ Len(p.inputs) = 2 /\ Len(v.inputs) = 2 /\ v.inputs[1] = p.inputs[1]
    /\ SameWorkspace(p, v)

RetryEdge(p, v) ==
    /\ p.status \in {"failed", "timed_out"} /\ v.status = "pending"
    /\ v.stage = p.stage /\ v.inputs = p.inputs
    /\ IF v.stage = "implement" THEN v.workspace = None /\ v.inventory = None
                                ELSE SameWorkspace(p, v)

EdgeOK(p, v) ==
    \/ StartEdge(p, v) \/ AbandonEdge(p, v) \/ EndEdge(p, v)
    \/ AdvanceEdge(p, v) \/ RestoreEdge(p, v) \/ RetryEdge(p, v)

(* A restored verification must also name the receipt of its restoration.  *)
ReceiptOK(p, v, n) ==
    v.reason = "dependency_environment_restored" =>
        [failed |-> n - 1, bundle |-> v.inputs[2]] \in restored

VerifiedHistory ==
    /\ \A n \in DOMAIN chain : ShapeOK(chain[n].version)
    /\ chain[1].version = First
    /\ \A n \in DOMAIN chain \ {1} :
          LET p == chain[n - 1].version
              v == chain[n].version
          IN  EdgeOK(p, v) /\ ReceiptOK(p, v, n)

-----------------------------------------------------------------------------
(* The writer: what each operation appends after version p.                *)

StartRun(r, p) ==
    [p EXCEPT !.status = "running", !.reason = r.reason, !.spec = r.at,
              !.workspace = IF p.stage = "implement" THEN r.value ELSE p.workspace]

FinishStage(r, p) ==
    [p EXCEPT !.status = r.status, !.reason = r.reason, !.result = r.value,
              !.inventory = IF p.stage = "implement" THEN r.value ELSE p.inventory]

AdvanceStage(r, p) ==
    [First EXCEPT !.stage = IF p.stage = "explore" THEN "implement" ELSE "verify",
                  !.reason = r.reason, !.inputs = r.inputs,
                  !.workspace = IF p.stage = "explore" THEN None ELSE p.workspace,
                  !.inventory = IF p.stage = "explore" THEN None ELSE p.inventory]

(* Mutant of RetryStage: the failed Implement hands on its workspace.      *)
RetryInPlace(r, p) ==
    [p EXCEPT !.status = "pending", !.reason = r.reason, !.spec = None, !.result = None]

RetryStage(r, p) ==
    LET fresh(x) == IF p.stage = "implement" THEN None ELSE x
    IN  [p EXCEPT !.status = "pending", !.reason = r.reason, !.spec = None, !.result = None,
                  !.workspace = fresh(@), !.inventory = fresh(@)]

NextVersion(r, p) ==
    CASE r.op = "start"   -> StartRun(r, p)
      [] r.op = "finish"  -> FinishStage(r, p)
      [] r.op = "advance" -> AdvanceStage(r, p)
      [] r.op = "retry"   -> RetryStage(r, p)

(* The tests an operation makes before it appends.                         *)
Admitted(r, p) ==
    \/ /\ r.op = "start" /\ p.status = "pending"
       /\ (p.stage = "implement") <=> (r.value # None)
    \/ /\ r.op = "finish"
       /\ p.status = "running" \/ (p.status = "pending" /\ r.status \in Ends)
       /\ r.status = "succeeded" => r.value # None
    \/ /\ r.op = "advance" /\ p.status = "succeeded"
       /\ p.stage \in {"explore", "implement"}
       /\ Len(r.inputs) \in (IF p.stage = "explore" THEN {2} ELSE {1, 2})
       /\ r.inputs[1] = p.result
       /\ p.stage = "implement" => p.workspace # None /\ p.inventory # None
    \/ r.op = "retry" /\ p.status \in {"failed", "timed_out"}

(* The CHECK constraints of the table.                                     *)
RowOK(v) ==
    /\ v.inventory # None => v.workspace # None
    /\ v.status = "pending" => v.spec = None /\ v.result = None
    /\ v.status = "running" => v.spec # None /\ v.result = None
    /\ v.status = "succeeded" => v.spec # None /\ v.result # None

-----------------------------------------------------------------------------
(* The callers, each following what it read as current.                    *)

Ask(c, request) ==
    /\ call[c].pc = "idle"
    /\ Len(chain) < MaxVersions
    /\ call' = [call EXCEPT ![c] = request]
    /\ UNCHANGED <<chain, restored, repeats>>

Request(op, key, status, reason, inputs, value) ==
    [pc |-> "asked", at |-> Len(chain), op |-> op, key |-> key, status |-> status,
     reason |-> reason, inputs |-> inputs, value |-> value]

(* begin: the run is bound to the pending version.                         *)
AskStart(c) ==
    /\ Last.version.status = "pending"
    /\ \E value \in IF Last.version.stage = "implement" THEN Hashes ELSE {None} :
          Ask(c, Request("start", <<"run", Len(chain), "running">>,
                         "running", "stage_started", <<>>, value))

(* complete: with a result only if it succeeded.                           *)
AskFinish(c) ==
    /\ Last.version.status = "running"
    /\ \E status \in Outcomes \cup {"succeeded"} :
       \E value \in IF status = "succeeded" THEN Hashes ELSE {None} :
          Ask(c, Request("finish", <<"run", Len(chain) - 1, status>>,
                         status, "completed", <<>>, value))

(* request_cancel of a queued run, under a key that complete also uses.    *)
AskCancel(c) ==
    /\ Last.version.status = "pending"
    /\ Ask(c, Request("finish", <<"run", Len(chain), "cancelled">>,
                      "cancelled", "cancellation_requested", <<>>, None))

AskReconcile(c) ==
    \E pending \in {Len(chain), Len(chain) - 1} \cap DOMAIN chain, status \in Outcomes :
       /\ chain[pending].version.status = "pending"
       /\ Last.version.status \in {"pending", "running"}
       /\ Ask(c, Request("finish", <<"reconcile", pending, status>>,
                         status, "worker_lost", <<>>, None))

AskAccept(c) ==
    /\ Last.version.stage = "explore" /\ Last.version.status = "succeeded"
    /\ \E key \in ClientKeys, changeset \in Hashes :
          Ask(c, Request("advance", <<"client", key>>, "pending", "changeset_accepted",
                         <<Last.version.result, changeset>>, None))

AskVerify(c) ==
    /\ Last.version.stage = "implement" /\ Last.version.status = "succeeded"
    /\ \E bundle \in {<<>>} \cup {<<h>> : h \in Hashes} :
          Ask(c, Request("advance", <<"advance", Len(chain)>>, "pending",
                         "implement_succeeded", <<Last.version.result>> \o bundle, None))

AskRetry(c) ==
    /\ Last.version.status \in {"failed", "timed_out"}
    /\ \E key \in ClientKeys :
          Ask(c, Request("retry", <<"client", key>>, "pending", "retry_scheduled", <<>>, None))

-----------------------------------------------------------------------------
(* A call: look for the key, verify the chain, test, append.               *)

PositionsOf(key) == {n \in DOMAIN chain : chain[n].key = key}

(* Mutant of Asked: the key and the status decide.                         *)
AskedHere(r, v) == v.status = r.status

(* What the replay of a call compares: what the caller brings along.       *)
Asked(r, v) ==
    /\ v.status = r.status /\ v.reason = r.reason
    /\ r.op = "start" => v.spec = r.at /\ (v.stage = "implement" => v.workspace = r.value)
    /\ r.op = "finish" => v.result = r.value /\ (v.stage = "implement" => v.inventory = r.value)
    /\ r.op = "advance" => v.inputs = r.inputs

Replayed(r) == r.at + 1 \in PositionsOf(r.key) /\ Asked(r, chain[r.at + 1].version)

Reply(c, pc) == call' = [call EXCEPT ![c] = IF pc = "refused" THEN NoCall ELSE [@ EXCEPT !.pc = pc]]

Look(c) ==
    LET r == call[c]
    IN  /\ r.pc = "asked"
        /\ Reply(c, IF ~VerifiedHistory THEN "refused"
                    ELSE IF PositionsOf(r.key) # {}
                         THEN IF Replayed(r) THEN "answered" ELSE "refused"
                    ELSE IF r.at = Len(chain) /\ Admitted(r, Last.version)
                         THEN "append" ELSE "refused")
        /\ UNCHANGED <<chain, restored, repeats>>

(* Sequence and key are unique: the INSERT of a call that was overtaken    *)
(* fails, and the call looks for its key once more.                        *)
AppendVersion(c) ==
    LET r == call[c]
        v == NextVersion(r, chain[r.at].version)
        fits == r.at = Len(chain) /\ PositionsOf(r.key) = {} /\ RowOK(v)
    IN  /\ r.pc = "append"
        /\ chain' = IF fits THEN Append(chain, [key |-> r.key, version |-> v]) ELSE chain
        /\ Reply(c, IF \/ fits
                       \/ r.at + 1 \in PositionsOf(r.key) /\ chain[r.at + 1].version = v
                    THEN "answered" ELSE "refused")
        /\ UNCHANGED <<restored, repeats>>

(* retry_verification_environment, with the receipt it is given, in the    *)
(* coordinator's transaction.                                              *)
RestoreEnvironment ==
    /\ Len(chain) < MaxVersions /\ VerifiedHistory
    /\ Last.version.stage = "verify" /\ Last.version.status = "failed"
    /\ Len(Last.version.inputs) = 2
    /\ \E bundle \in Hashes :
          /\ restored' = restored \cup {[failed |-> Len(chain), bundle |-> bundle]}
          /\ chain' = Append(chain,
                [key |-> <<"restore", Len(chain)>>,
                 version |-> [Last.version EXCEPT
                    !.status = "pending", !.reason = "dependency_environment_restored",
                    !.inputs = <<@[1], bundle>>, !.spec = None, !.result = None]])
    /\ UNCHANGED <<call, repeats>>

Finished(c) ==
    /\ call[c].pc = "answered"
    /\ Reply(c, "refused")
    /\ UNCHANGED <<chain, restored, repeats>>

(* The answer is lost, or the process before its commit.                   *)
Repeat(c) ==
    /\ call[c].pc \in {"answered", "append"}
    /\ repeats < MaxRepeats
    /\ repeats' = repeats + 1
    /\ Reply(c, "asked")
    /\ UNCHANGED <<chain, restored>>

ChainNext ==
    \/ \E c \in Callers :
          \/ AskStart(c) \/ AskFinish(c) \/ AskCancel(c) \/ AskReconcile(c)
          \/ AskAccept(c) \/ AskVerify(c) \/ AskRetry(c)
          \/ Look(c) \/ AppendVersion(c) \/ Finished(c) \/ Repeat(c)
    \/ RestoreEnvironment

ChainSpec == ChainInit /\ [][ChainNext]_chainVars

-----------------------------------------------------------------------------
(* Whatever the callers bring along, in whatever order they are overtaken, *)
(* repeated and refused, the reader accepts what the writer appended: no   *)
(* call leaves an attempt that can never be read again                     *)
(* (executions.py:1671-1879 against :735-1174).                            *)
ReaderAccepts == VerifiedHistory

(* A call that is told it succeeded finds in the chain, right after the    *)
(* version it named, exactly what it asked for, however often it was       *)
(* repeated and whoever else used its key (executions.py:1217-1239).       *)
AnswersStand ==
    \A c \in Callers :
       LET r == call[c]
       IN  r.pc = "answered" =>
              /\ r.at + 1 \in PositionsOf(r.key)
              /\ chain[r.at + 1].version = NextVersion(r, chain[r.at].version)

(* What a call wrote into the chain can be read, and is what it asked for. *)
ChainHolds == ReaderAccepts /\ AnswersStand
=============================================================================

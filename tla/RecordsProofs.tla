---------------------------- MODULE RecordsProofs ----------------------------
(***************************************************************************)
(* Theorems about what is written once and read ever after: the change of  *)
(* a plan over its repair rounds (RepairRounds), the evidence of a stage   *)
(* (StageEvidence), the versions of an attempt (StageChain) and the        *)
(* records of whole tasks (EvidenceChain), for every set of paths and      *)
(* contents, of callers and keys, of tasks and requests, and every number  *)
(* of rounds, runs and commands.  The four modules share no variable.      *)
(***************************************************************************)
EXTENDS RepairRounds, StageEvidence, StageChain, EvidenceChain, FiniteSetTheorems,
        SequenceTheorems, TLAPS

-----------------------------------------------------------------------------
(* RepairRounds: the operations of this round are whole, what the model is *)
(* shown is what was reviewed until it is implemented, and the cumulative  *)
(* change set is made of this round's edits.                               *)

(* A deletion leaves no file.                                              *)
Operations(operations) ==
    \A p \in DOMAIN operations :
        /\ operations[p] = [f \in {"kind", "prior", "file"} |-> operations[p][f]]
        /\ operations[p].kind = "delete" => operations[p].file = Missing

RepairInv ==
    /\ Operations(edits)
    /\ phase \in {"propose", "accepted"} => View = reviewed
    /\ phase = "accepted" => changeset = Cumulative(edits)
    /\ phase = "implemented" => reviewed = Overlay(base, changeset)

LEMMA RepairInitial == RepairInit => RepairInv
<1> SUFFICES ASSUME RepairInit
             PROVE  RepairInv
  OBVIOUS
<1>1. DOMAIN NoChange = {}
  BY DEF NoChange
<1>2. View = base
  BY <1>1 DEF RepairInit, View, Overlay
<1> QED BY <1>1, <1>2 DEF RepairInit, RepairInv, Operations

(* What the parser makes of a draft is an operation.                       *)
LEMMA ParsedIsWhole ==
    ASSUME NEW p \in Paths, NEW draft \in Drafts(p)
    PROVE  /\ Parsed(p, draft) = [f \in {"kind", "prior", "file"} |-> Parsed(p, draft)[f]]
           /\ Parsed(p, draft).kind = "delete" => Parsed(p, draft).file = Missing
BY DEF Parsed, Write, Delete

(* The edits laid over what was shown are the cumulative change set laid   *)
(* over the original files.                                                *)
LEMMA CumulativeIsExact ==
    ASSUME NEW operations, Operations(operations)
    PROVE  Overlay(base, Cumulative(operations)) = Overlay(View, operations)
<1> DEFINE undone == {p \in DOMAIN operations :
                         operations[p].kind = "delete" /\ base[p] = Missing}
           made == Cumulative(operations)
<1>1. /\ DOMAIN made = (DOMAIN previous \cup DOMAIN operations) \ undone
      /\ \A p \in DOMAIN made :
            made[p] = IF p \in DOMAIN operations
                      THEN [operations[p] EXCEPT !.prior = Hash(base[p])] ELSE previous[p]
  BY DEF Cumulative
<1> HIDE DEF made
<1>2. ASSUME NEW p \in Paths
      PROVE  Overlay(base, made)[p] = Overlay(View, operations)[p]
  <2>1. CASE p \in undone
    <3>1. p \notin DOMAIN made /\ Overlay(base, made)[p] = Missing
      BY <1>1, <2>1 DEF Overlay
    <3>2. Overlay(View, operations)[p] = operations[p].file /\ operations[p].file = Missing
      BY <2>1 DEF Overlay, Operations
    <3> QED BY <3>1, <3>2
  <2>2. CASE p \in DOMAIN operations \ undone
    <3>1. made[p] = [operations[p] EXCEPT !.prior = Hash(base[p])] /\ p \in DOMAIN made
      BY <1>1, <2>2
    <3>2. made[p].file = operations[p].file
      BY <2>2, <3>1 DEF Operations
    <3> QED BY <2>2, <3>1, <3>2 DEF Overlay
  <2>3. CASE p \notin DOMAIN operations
    BY <1>1, <2>3 DEF Overlay, View
  <2> QED BY <2>1, <2>2, <2>3
<1>3. Overlay(base, made) = Overlay(View, operations)
  BY <1>2 DEF Overlay
<1> QED BY <1>3 DEF made

LEMMA RepairStep == RepairInv /\ [RepairNext]_repairVars => RepairInv'
<1> SUFFICES ASSUME RepairInv, [RepairNext]_repairVars
             PROVE  RepairInv'
  OBVIOUS
<1>1. CASE Propose
  <2>1. PICK P \in SUBSET Paths : \E draft :
           /\ \A p \in P : draft[p] \in Drafts(p) /\ WellFormed(p, draft[p])
           /\ edits' = [p \in P |-> Parsed(p, draft[p])]
           /\ changeset' = Cumulative(edits')
    BY <1>1 DEF Propose
  <2>2. Operations(edits')
    BY <2>1, ParsedIsWhole DEF Operations
  <2>3. /\ phase = "propose" /\ phase' \in {"accepted", "failed"}
        /\ base' = base /\ previous' = previous /\ reviewed' = reviewed
    BY <1>1 DEF Propose
  <2>4. View' = View /\ \A o : Cumulative(o)' = Cumulative(o)
    BY <2>3 DEF View, Cumulative
  <2> QED BY <2>1, <2>2, <2>3, <2>4 DEF RepairInv
<1>2. CASE Implement
  BY <1>2 DEF Implement, RepairInv, Overlay, Operations
<1>3. CASE StartRepair
  BY <1>3 DEF StartRepair, RepairInv, View, Overlay, Operations, NoChange
<1>4. CASE UNCHANGED repairVars
  BY <1>4 DEF repairVars, RepairInv, View, Overlay, Cumulative, Operations
<1> QED BY <1>1, <1>2, <1>3, <1>4 DEF RepairNext

(* What the model is shown in a round is the tree that was implemented and *)
(* reviewed.                                                               *)
THEOREM ShownIsReviewed == RepairSpec => []ViewIsReviewed
<1>1. RepairInv => ViewIsReviewed
  BY DEF RepairInv, ViewIsReviewed
<1> QED BY <1>1, RepairInitial, RepairStep, PTL DEF RepairSpec

(* A repair that is implemented leaves the reviewed tree with the edits of *)
(* its round and nothing else.                                             *)
THEOREM RepairsAreExact == RepairSpec => RepairIsExact
<1> DEFINE Exact == phase' = "implemented" /\ phase = "accepted" =>
                       reviewed' = Overlay(reviewed, edits)
<1>1. RepairInv /\ [RepairNext]_repairVars => [Exact]_repairVars
  <2> SUFFICES ASSUME RepairInv, [RepairNext]_repairVars, phase' = "implemented",
                      phase = "accepted"
               PROVE  reviewed' = Overlay(reviewed, edits)
    OBVIOUS
  <2>1. reviewed' = Overlay(base, changeset)
    BY DEF RepairNext, Propose, Implement, StartRepair, repairVars
  <2> QED BY <2>1, CumulativeIsExact DEF RepairInv
<1> QED BY <1>1, RepairInitial, RepairStep, PTL DEF RepairSpec, RepairIsExact

-----------------------------------------------------------------------------
(* StageEvidence: what holds of one run of the stage.  Its worker and its  *)
(* job, the transaction that is open and what it has inserted, the rows    *)
(* and the files are parameters.                                           *)

RunnerFields == {"pc", "evidence", "file"}
Ended        == {"failed", "timed_out"}
Finding      == {"opening", "replacing", "looking", "inserting"}
Storing      == {"storing"} \cup Finding

Steady(evidence) == \A k \in DOMAIN evidence : evidence[k].steady

(* The contents a worker has gone past have a row, at least of its own     *)
(* transaction, and a whole file; the one it is at has a file when its row *)
(* is looked for.                                                          *)
Kept(r, w, rows, own, files) ==
    /\ \A i \in DOMAIN Roles : i < w.file =>
          /\ Bundle(r)[i] \in rows \cup own
          /\ files[Bundle(r)[i]] = "whole"
    /\ w.pc \in Finding => w.file =< Len(Roles)
    /\ w.pc \in {"looking", "inserting"} => files[Bundle(r)[w.file]] = "whole"

RunKeeps(r, w, job, has, rows, own, files) ==
    /\ w = [f \in RunnerFields |-> w[f]]
    /\ w.file \in Nat \ {0}
    /\ w.pc \in {"idle", "commands", "completing", "over"} \cup Storing
    /\ w.pc = "idle" <=> job = "absent"
    /\ w.pc \in {"idle", "commands", "completing"} => own = {} /\ w.file = 1
    /\ w.pc \in {"idle", "completing"} \cup Storing \/ job = "succeeded" => Steady(w.evidence)
    /\ w.pc \in Storing => Kept(r, w, rows, own, files)
    /\ job = "succeeded" =>
          /\ w.pc = "over" /\ has
          /\ \A i \in DOMAIN Roles : Bundle(r)[i] \in rows /\ files[Bundle(r)[i]] = "whole"

Own(r, h, ins) == IF h = r THEN ins ELSE {}

EvidenceTables ==
    /\ runner = [r \in EvidenceRuns |-> runner[r]]
    /\ runJob = [r \in EvidenceRuns |-> runJob[r]]
    /\ disk \in [Blobs -> {"absent", "whole"}]
    /\ kind \in {"implement", "verify"}
    /\ holder \in EvidenceRuns \cup {NoRun}
    /\ holder = NoRun => inserted = {}
    /\ holder # NoRun => runner[holder].pc \in Storing

(* A run starts when those before it have ended without success.           *)
InTurn ==
    \A q, r \in EvidenceRuns : q < r /\ runJob[r] # "absent" => runJob[q] \in Ended

EvidenceInv ==
    /\ EvidenceTables
    /\ InTurn
    /\ \A r \in EvidenceRuns :
          RunKeeps(r, runner[r], runJob[r], r \in manifests, artifactRows,
                   Own(r, holder, inserted), disk)

LEMMA RolesAreBlobs ==
    ASSUME EvidenceTables
    PROVE  /\ Len(Roles) \in Nat /\ DOMAIN Roles = 1..Len(Roles)
           /\ \A r \in EvidenceRuns : \A i \in DOMAIN Roles : Bundle(r)[i] \in Blobs
<1>1. CASE kind = "implement"
  BY <1>1 DEF Roles, Bundle, Blob, Blobs
<1>2. CASE kind = "verify"
  BY <1>2 DEF Roles, Bundle, Blob, Blobs
<1> QED BY <1>1, <1>2 DEF EvidenceTables

LEMMA EvidenceInitial == StageEvidenceInit => EvidenceInv
<1> SUFFICES ASSUME StageEvidenceInit
             PROVE  EvidenceInv
  OBVIOUS
<1>1. EvidenceTables /\ InTurn
  BY DEF StageEvidenceInit, EvidenceTables, InTurn
<1>2. ASSUME NEW r \in EvidenceRuns
      PROVE  RunKeeps(r, runner[r], runJob[r], r \in manifests, artifactRows,
                      Own(r, holder, inserted), disk)
  <2>1. /\ runner[r] = [f \in RunnerFields |-> runner[r][f]]
        /\ runner[r].pc = "idle" /\ runner[r].file = 1 /\ runJob[r] = "absent"
        /\ runner[r].evidence = <<>>
    BY DEF StageEvidenceInit, RunnerFields
  <2>2. Own(r, holder, inserted) = {}
    BY DEF StageEvidenceInit, Own
  <2> QED BY <2>1, <2>2 DEF RunKeeps, Storing, Finding, Steady
<1> QED BY <1>1, <1>2 DEF EvidenceInv

(* What a step of run r may do.                                            *)
RunnerTo(r, w) ==
    /\ runner' = [q \in EvidenceRuns |-> runner'[q]] /\ runner'[r] = w
    /\ \A q \in EvidenceRuns : q # r => runner'[q] = runner[q]
JobTo(r, job) ==
    /\ runJob' = [q \in EvidenceRuns |-> runJob'[q]] /\ runJob'[r] = job
    /\ \A q \in EvidenceRuns : q # r => runJob'[q] = runJob[q]
JobMoves(r, job) ==
    \/ job = runJob[r]
    \/ runJob[r] = "running" /\ job # "absent"
    \/ runJob[r] = "absent" /\ (r > 1 => runJob[r - 1] \in Ended)
Stores(r) ==
    /\ artifactRows \subseteq artifactRows'
    /\ disk' \in [Blobs -> {"absent", "whole"}]
    /\ \A c \in Blobs : disk[c] = "whole" => disk'[c] = "whole"
    /\ \A q : q # r => (q \in manifests' <=> q \in manifests)
Transacts(r, own) ==
    /\ \/ holder' = holder /\ inserted' = inserted
       \/ holder \in {NoRun, r} /\ holder' \in {NoRun, r}
    /\ holder' = NoRun => inserted' = {}
    /\ own = Own(r, holder', inserted')

LEMMA TurnsKept ==
    ASSUME EvidenceInv, NEW r \in EvidenceRuns, NEW job, JobTo(r, job), JobMoves(r, job)
    PROVE  InTurn'
<1> SUFFICES ASSUME NEW q \in EvidenceRuns, NEW s \in EvidenceRuns, q < s,
                    runJob'[s] # "absent"
             PROVE  runJob'[q] \in Ended
  BY DEF InTurn
<1>1. q \in Nat /\ s \in Nat /\ r \in Nat
  BY StageEvidenceAssumption DEF EvidenceRuns
<1>2. CASE job = runJob[r]
  BY <1>2 DEF EvidenceInv, InTurn, JobTo
<1>3. CASE runJob[r] = "running" /\ job # "absent"
  BY <1>1, <1>3 DEF EvidenceInv, InTurn, JobTo, Ended
<1>4. CASE runJob[r] = "absent" /\ (r > 1 => runJob[r - 1] \in Ended)
  <2>1. CASE s = r
    <3>1. r > 1 /\ r - 1 \in EvidenceRuns /\ q =< r - 1
      BY <1>1, <2>1, StageEvidenceAssumption DEF EvidenceRuns
    <3>2. runJob[q] \in Ended
      BY <1>1, <1>4, <3>1 DEF EvidenceInv, InTurn, Ended
    <3> QED BY <1>1, <2>1, <3>2 DEF JobTo
  <2>2. CASE s # r
    BY <1>1, <1>4, <2>2 DEF EvidenceInv, InTurn, JobTo, Ended
  <2> QED BY <2>1, <2>2
<1> QED BY <1>2, <1>3, <1>4 DEF JobMoves

(* Rows and files only come.                                               *)
LEMMA StoredStays ==
    ASSUME EvidenceInv, NEW r, NEW q \in EvidenceRuns, Stores(r), NEW w, NEW job, NEW has, NEW own,
           RunKeeps(q, w, job, has, artifactRows, own, disk)
    PROVE  RunKeeps(q, w, job, has, artifactRows', own, disk')
<1>1. /\ EvidenceTables /\ w.file \in Nat \ {0}
      /\ \A i \in DOMAIN Roles : Bundle(q)[i] \in Blobs
      /\ w.pc \in Finding => w.file \in DOMAIN Roles
  BY RolesAreBlobs DEF EvidenceInv, RunKeeps, Kept, Storing
<1>2. w.pc \in Storing /\ Kept(q, w, artifactRows, own, disk)
         => Kept(q, w, artifactRows', own, disk')
  BY <1>1 DEF Stores, Kept, Finding
<1> QED BY <1>1, <1>2 DEF RunKeeps, Stores

LEMMA EvidenceFrame ==
    ASSUME EvidenceInv, NEW r \in EvidenceRuns, NEW w, NEW job, NEW own,
           kind' = kind, RunnerTo(r, w), JobTo(r, job), JobMoves(r, job), Stores(r),
           Transacts(r, own), holder' = r => w.pc \in Storing,
           RunKeeps(r, w, job, r \in manifests', artifactRows', own, disk')
    PROVE  EvidenceInv'
<1>1. EvidenceTables'
  <2>1. holder' \in EvidenceRuns \cup {NoRun}
    BY DEF EvidenceInv, EvidenceTables, Transacts
  <2>2. ASSUME holder' # NoRun
        PROVE  runner'[holder'].pc \in Storing
    BY <2>2 DEF EvidenceInv, EvidenceTables, Transacts, RunnerTo
  <2> QED BY <2>1, <2>2 DEF EvidenceInv, EvidenceTables, Transacts, RunnerTo, JobTo, Stores
<1>2. InTurn'
  BY TurnsKept
<1>3. ASSUME NEW q \in EvidenceRuns
      PROVE  RunKeeps(q, runner'[q], runJob'[q], q \in manifests', artifactRows',
                      Own(q, holder', inserted'), disk')
  <2>1. CASE q = r
    BY <2>1 DEF RunnerTo, JobTo, Transacts
  <2>2. CASE q # r
    <3>1. RunKeeps(q, runner[q], runJob[q], q \in manifests, artifactRows,
                   Own(q, holder, inserted), disk)
      BY DEF EvidenceInv
    <3>2. Own(q, holder', inserted') = Own(q, holder, inserted)
      BY <2>2, StageEvidenceAssumption DEF Transacts, Own, NoRun, EvidenceRuns
    <3>3. /\ runner'[q] = runner[q] /\ runJob'[q] = runJob[q]
          /\ (q \in manifests') = (q \in manifests)
      BY <2>2 DEF RunnerTo, JobTo, Stores
    <3>4. RunKeeps(q, runner[q], runJob[q], q \in manifests, artifactRows',
                   Own(q, holder, inserted), disk')
      BY <3>1, StoredStays
    <3> QED BY <3>2, <3>3, <3>4
  <2> QED BY <2>1, <2>2
<1>4. \A q, v, j, has, rows, o, files :
         RunKeeps(q, v, j, has, rows, o, files)' <=> RunKeeps(q, v, j, has, rows, o, files)
  BY DEF RunKeeps, Kept, Bundle, Roles, Blob, Storing, Finding, Steady
<1>5. \A q \in EvidenceRuns :
         RunKeeps(q, runner[q], runJob[q], q \in manifests, artifactRows,
                  Own(q, holder, inserted), disk)'
  BY <1>3, <1>4 DEF Own
<1> QED BY <1>1, <1>2, <1>5 DEF EvidenceInv

(* The parts of a step: what is left alone, and a worker that moves on.    *)
LEMMA JobKept ==
    ASSUME EvidenceInv, NEW r \in EvidenceRuns, runJob' = runJob
    PROVE  JobTo(r, runJob[r]) /\ JobMoves(r, runJob[r])
BY DEF EvidenceInv, EvidenceTables, JobTo, JobMoves

LEMMA JobSet ==
    ASSUME EvidenceInv, NEW r \in EvidenceRuns, NEW job, runJob' = [runJob EXCEPT ![r] = job]
    PROVE  JobTo(r, job)
BY DEF EvidenceInv, EvidenceTables, JobTo

LEMMA NothingStored ==
    ASSUME EvidenceInv, NEW r, UNCHANGED <<artifactRows, disk, manifests>>
    PROVE  Stores(r)
BY DEF EvidenceInv, EvidenceTables, Stores

LEMMA SameTransaction ==
    ASSUME EvidenceInv, NEW r, UNCHANGED <<holder, inserted>>
    PROVE  Transacts(r, Own(r, holder, inserted))
BY DEF EvidenceInv, EvidenceTables, Transacts, Own

(* The transaction of r, if it is open, is rolled back.                    *)
LEMMA RolledBack ==
    ASSUME EvidenceInv, NEW r \in EvidenceRuns,
           IF holder = r THEN holder' = NoRun /\ inserted' = {} ELSE UNCHANGED <<holder, inserted>>
    PROVE  Transacts(r, {}) /\ holder' # r
BY StageEvidenceAssumption
   DEF EvidenceInv, EvidenceTables, Transacts, Own, NoRun, EvidenceRuns

(* The worker of r moves on and keeps what it has.                         *)
LEMMA WorkerGoes ==
    ASSUME EvidenceInv, NEW r \in EvidenceRuns, NEW pc, Goes(r, pc)
    PROVE  \E w : /\ RunnerTo(r, w) /\ w = [f \in RunnerFields |-> w[f]] /\ w.pc = pc
                  /\ w.evidence = runner[r].evidence /\ w.file = runner[r].file
<1>1. /\ runner = [q \in EvidenceRuns |-> runner[q]]
      /\ runner[r] = [f \in RunnerFields |-> runner[r][f]]
  BY DEF EvidenceInv, EvidenceTables, RunKeeps
<1>2. /\ RunnerTo(r, runner'[r]) /\ runner'[r] = [f \in RunnerFields |-> runner'[r][f]]
      /\ runner'[r].pc = pc /\ runner'[r].evidence = runner[r].evidence
      /\ runner'[r].file = runner[r].file
  BY <1>1 DEF Goes, RunnerTo, RunnerFields
<1> QED BY <1>2

LEMMA WorkerGoesOn ==
    ASSUME EvidenceInv, NEW r \in EvidenceRuns, NextFile(r)
    PROVE  \E w : /\ RunnerTo(r, w) /\ w = [f \in RunnerFields |-> w[f]] /\ w.pc = "storing"
                  /\ w.evidence = runner[r].evidence /\ w.file = runner[r].file + 1
<1>1. /\ runner = [q \in EvidenceRuns |-> runner[q]]
      /\ runner[r] = [f \in RunnerFields |-> runner[r][f]]
  BY DEF EvidenceInv, EvidenceTables, RunKeeps
<1>2. /\ RunnerTo(r, runner'[r]) /\ runner'[r] = [f \in RunnerFields |-> runner'[r][f]]
      /\ runner'[r].pc = "storing" /\ runner'[r].evidence = runner[r].evidence
      /\ runner'[r].file = runner[r].file + 1
  BY <1>1 DEF NextFile, RunnerTo, RunnerFields
<1> QED BY <1>2

(* What holds of the run that takes a step.                                *)
RunIs(r) ==
    RunKeeps(r, runner[r], runJob[r], r \in manifests, artifactRows,
             Own(r, holder, inserted), disk)

(* A step of the worker that changes nothing but where it is.              *)
LEMMA OnlyGoes ==
    ASSUME EvidenceInv, NEW r \in EvidenceRuns, NEW pc, Goes(r, pc),
           UNCHANGED <<kind, runJob, disk, artifactRows, manifests, inserted, holder>>,
           runner[r].pc \notin {"idle", "over"},
           \/ runner[r].pc = "commands" /\ pc = "completing" /\ Steady(runner[r].evidence)
           \/ runner[r].pc = "completing" /\ pc = "storing"
           \/ /\ runner[r].pc \in Storing /\ pc \in Finding
              /\ runner[r].file =< Len(Roles)
              /\ pc \in {"looking", "inserting"} => disk[Current(r)] = "whole"
    PROVE  EvidenceInv'
<1>1. PICK w : /\ RunnerTo(r, w) /\ w = [f \in RunnerFields |-> w[f]] /\ w.pc = pc
               /\ w.evidence = runner[r].evidence /\ w.file = runner[r].file
  BY WorkerGoes
<1>2. /\ JobTo(r, runJob[r]) /\ JobMoves(r, runJob[r]) /\ Stores(r)
      /\ Transacts(r, Own(r, holder, inserted))
  BY JobKept, NothingStored, SameTransaction
<1>3. RunIs(r) /\ EvidenceTables
  BY DEF EvidenceInv, RunIs
<1>4. w.pc \in Storing => Kept(r, w, artifactRows, Own(r, holder, inserted), disk)
  BY SMTT(60), <1>1, <1>3, RolesAreBlobs DEF RunIs, RunKeeps, Kept, Storing, Finding, Current
<1>5. RunKeeps(r, w, runJob[r], r \in manifests', artifactRows', Own(r, holder, inserted), disk')
  BY <1>1, <1>3, <1>4 DEF RunIs, RunKeeps, Storing, Finding
<1>6. holder' = r => w.pc \in Storing
  BY <1>1, <1>3, StageEvidenceAssumption
     DEF EvidenceTables, Storing, Finding, NoRun, EvidenceRuns
<1> QED BY <1>1, <1>2, <1>5, <1>6, EvidenceFrame

LEMMA AbandonStep ==
    ASSUME EvidenceInv, NEW r \in EvidenceRuns, Abandon(r), runner[r].pc \notin {"idle", "over"}
    PROVE  EvidenceInv'
<1> DEFINE job == IF runJob[r] = "running" THEN "failed" ELSE runJob[r]
<1>1. PICK w : /\ RunnerTo(r, w) /\ w = [f \in RunnerFields |-> w[f]] /\ w.pc = "over"
               /\ w.evidence = runner[r].evidence /\ w.file = runner[r].file
  BY WorkerGoes DEF Abandon
<1>2. /\ JobTo(r, job) /\ JobMoves(r, job) /\ Stores(r) /\ Transacts(r, {}) /\ holder' # r
      /\ kind' = kind
  BY JobSet, NothingStored, RolledBack DEF Abandon, JobMoves
<1>3. RunIs(r)
  BY DEF EvidenceInv, RunIs
<1>4. job \notin {"absent", "succeeded"}
  BY <1>3 DEF RunIs, RunKeeps
<1>5. RunKeeps(r, w, job, r \in manifests', artifactRows', {}, disk')
  BY <1>1, <1>3, <1>4 DEF RunIs, RunKeeps, Storing, Finding
<1> HIDE DEF job
<1> QED BY <1>1, <1>2, <1>5, EvidenceFrame

LEMMA StartEvidenceRunStep ==
    ASSUME EvidenceInv, NEW r \in EvidenceRuns, StartEvidenceRun(r)
    PROVE  EvidenceInv'
<1>1. PICK w : /\ RunnerTo(r, w) /\ w = [f \in RunnerFields |-> w[f]]
               /\ w.pc \in {"commands", "completing"}
               /\ w.pc = "completing" <=> kind # "verify"
               /\ w.evidence = runner[r].evidence /\ w.file = runner[r].file
  BY WorkerGoes DEF StartEvidenceRun
<1>2. /\ JobTo(r, "running") /\ JobMoves(r, "running") /\ Stores(r)
      /\ Transacts(r, Own(r, holder, inserted)) /\ kind' = kind
  BY JobSet, NothingStored, SameTransaction DEF StartEvidenceRun, JobMoves, Ended
<1>3. RunIs(r) /\ EvidenceTables /\ runJob[r] = "absent"
  BY DEF EvidenceInv, RunIs, StartEvidenceRun
<1>4. Steady(w.evidence)
  BY <1>1, <1>3 DEF RunIs, RunKeeps
<1>5. RunKeeps(r, w, "running", r \in manifests', artifactRows', Own(r, holder, inserted), disk')
  BY <1>1, <1>3, <1>4 DEF RunIs, RunKeeps, Storing, Finding
<1>6. holder' # r
  BY <1>3, StageEvidenceAssumption
     DEF StartEvidenceRun, RunIs, RunKeeps, EvidenceTables, Storing, Finding, NoRun, EvidenceRuns
<1> QED BY <1>1, <1>2, <1>5, <1>6, EvidenceFrame

(* A command is reported, or skipped.                                      *)
LEMMA ReportsStep ==
    ASSUME EvidenceInv, NEW r \in EvidenceRuns, NEW evidence,
           runner[r].pc = "commands", runner' = [runner EXCEPT ![r].evidence = evidence],
           UNCHANGED <<kind, runJob, disk, artifactRows, manifests, inserted, holder>>
    PROVE  EvidenceInv'
<1>1. RunIs(r) /\ EvidenceTables
  BY DEF EvidenceInv, RunIs
<1>2. /\ runner = [q \in EvidenceRuns |-> runner[q]]
      /\ runner[r] = [f \in RunnerFields |-> runner[r][f]]
  BY <1>1 DEF EvidenceTables, RunIs, RunKeeps
<1> DEFINE w == runner'[r]
<1>3. /\ RunnerTo(r, w) /\ w = [f \in RunnerFields |-> w[f]] /\ w.pc = "commands"
      /\ w.file = runner[r].file
  BY <1>2 DEF RunnerTo, RunnerFields
<1> HIDE DEF w
<1>4. /\ JobTo(r, runJob[r]) /\ JobMoves(r, runJob[r]) /\ Stores(r)
      /\ Transacts(r, Own(r, holder, inserted))
  BY JobKept, NothingStored, SameTransaction
<1>5. RunKeeps(r, w, runJob[r], r \in manifests', artifactRows', Own(r, holder, inserted), disk')
  BY <1>1, <1>3 DEF RunIs, RunKeeps, Storing, Finding
<1>6. holder' # r
  BY <1>1, StageEvidenceAssumption DEF EvidenceTables, Storing, Finding, NoRun, EvidenceRuns
<1> QED BY <1>3, <1>4, <1>5, <1>6, EvidenceFrame

LEMMA CommandsStep ==
    ASSUME EvidenceInv, NEW r \in EvidenceRuns, RunCommand(r) \/ SkipCommand(r)
    PROVE  EvidenceInv'
<1>1. /\ runner[r].pc = "commands"
      /\ \E evidence : runner' = [runner EXCEPT ![r].evidence = evidence]
      /\ UNCHANGED <<kind, runJob, disk, artifactRows, manifests, inserted, holder>>
  BY DEF RunCommand, SkipCommand
<1> QED BY <1>1, ReportsStep

LEMMA InspectStep ==
    ASSUME EvidenceInv, NEW r \in EvidenceRuns, Inspect(r)
    PROVE  EvidenceInv'
<1>1. CASE Abandon(r)
  BY <1>1, AbandonStep DEF Inspect
<1>2. CASE ~Abandon(r)
  BY <1>2, OnlyGoes DEF Inspect, Steady, Reported
<1> QED BY <1>1, <1>2

LEMMA CompleteStep ==
    ASSUME EvidenceInv, NEW r \in EvidenceRuns, Complete(r)
    PROVE  EvidenceInv'
<1>1. CASE Abandon(r)
  BY <1>1, AbandonStep DEF Complete
<1>2. CASE ~Abandon(r)
  BY <1>2, OnlyGoes DEF Complete
<1> QED BY <1>1, <1>2

(* The file a worker is at is one of its contents.                         *)
LEMMA FileIsBlob ==
    ASSUME EvidenceInv, NEW r \in EvidenceRuns, runner[r].pc \in Storing,
           runner[r].file =< Len(Roles)
    PROVE  /\ Current(r) \in Blobs /\ runner[r].file \in DOMAIN Roles
           /\ disk[Current(r)] \in {"absent", "whole"}
<1>1. EvidenceTables /\ runner[r].file \in Nat \ {0}
  BY DEF EvidenceInv, RunKeeps
<1>2. runner[r].file \in DOMAIN Roles
  BY <1>1, RolesAreBlobs
<1> QED BY <1>1, <1>2, RolesAreBlobs DEF Current, EvidenceTables

LEMMA FindsStep ==
    ASSUME EvidenceInv, NEW r \in EvidenceRuns, LookForFile(r) \/ OpenFile(r)
    PROVE  EvidenceInv'
<1>1. CASE LookForFile(r)
  <2>1. runner[r].pc = "storing" /\ runner[r].file =< Len(Roles)
    BY <1>1 DEF LookForFile
  <2>2. disk[Current(r)] \in {"absent", "whole"}
    BY <2>1, FileIsBlob DEF Storing
  <2> DEFINE pc == IF disk[Current(r)] = "absent" THEN "opening" ELSE "looking"
  <2>3. Goes(r, pc) /\ pc \in Finding /\ (pc = "looking" => disk[Current(r)] = "whole")
        /\ pc # "inserting"
    BY <1>1, <2>2 DEF LookForFile, Finding
  <2>4. UNCHANGED <<kind, runJob, disk, artifactRows, manifests, inserted, holder>>
    BY <1>1 DEF LookForFile
  <2> HIDE DEF pc
  <2> QED BY <2>1, <2>3, <2>4, OnlyGoes DEF Storing
<1>2. CASE OpenFile(r)
  <2>1. runner[r].pc = "opening" /\ runner[r].file =< Len(Roles)
    BY <1>2 DEF OpenFile, EvidenceInv, RunKeeps, Kept, Storing, Finding
  <2> QED BY <1>2, <2>1, OnlyGoes DEF OpenFile, Storing, Finding
<1> QED BY <1>1, <1>2

LEMMA ReplaceFileStep ==
    ASSUME EvidenceInv, NEW r \in EvidenceRuns, ReplaceFile(r)
    PROVE  EvidenceInv'
<1>1. RunIs(r) /\ EvidenceTables /\ runner[r].pc = "replacing" /\ runner[r].file =< Len(Roles)
  BY DEF EvidenceInv, RunIs, ReplaceFile, RunKeeps, Kept, Storing, Finding
<1>2. PICK w : /\ RunnerTo(r, w) /\ w = [f \in RunnerFields |-> w[f]] /\ w.pc = "looking"
               /\ w.evidence = runner[r].evidence /\ w.file = runner[r].file
  BY WorkerGoes DEF ReplaceFile
<1>3. Current(r) \in Blobs /\ disk' = [disk EXCEPT ![Current(r)] = "whole"]
  BY <1>1, FileIsBlob DEF Storing, Finding, ReplaceFile
<1>4. /\ disk' \in [Blobs -> {"absent", "whole"}] /\ disk'[Current(r)] = "whole"
      /\ \A c \in Blobs : disk[c] = "whole" => disk'[c] = "whole"
  BY <1>1, <1>3 DEF EvidenceTables
<1>5. /\ JobTo(r, runJob[r]) /\ JobMoves(r, runJob[r]) /\ Stores(r)
      /\ Transacts(r, Own(r, holder, inserted)) /\ kind' = kind
  BY <1>4, JobKept, SameTransaction DEF ReplaceFile, Stores
<1>6. Kept(r, w, artifactRows, Own(r, holder, inserted), disk')
  <2>1. \A i \in DOMAIN Roles : Bundle(r)[i] \in Blobs
    BY <1>1, RolesAreBlobs
  <2>2. Bundle(r)[w.file] = Current(r)
    BY <1>2 DEF Current
  <2>3. Kept(r, runner[r], artifactRows, Own(r, holder, inserted), disk)
    BY <1>1 DEF RunIs, RunKeeps, Storing, Finding
  <2> QED BY <1>1, <1>2, <1>4, <2>1, <2>2, <2>3 DEF Kept
<1>7. RunKeeps(r, w, runJob[r], r \in manifests', artifactRows', Own(r, holder, inserted), disk')
  BY <1>1, <1>2, <1>6 DEF ReplaceFile, RunIs, RunKeeps, Storing, Finding
<1>8. w.pc \in Storing
  BY <1>2 DEF Storing, Finding
<1> QED BY <1>2, <1>5, <1>7, <1>8, EvidenceFrame

LEMMA LookForRowStep ==
    ASSUME EvidenceInv, NEW r \in EvidenceRuns, LookForRow(r)
    PROVE  EvidenceInv'
<1>1. /\ RunIs(r) /\ EvidenceTables /\ runner[r].pc = "looking"
      /\ runner[r].file =< Len(Roles) /\ disk[Current(r)] = "whole"
      /\ UNCHANGED <<kind, runJob, disk, artifactRows, manifests, inserted, holder>>
  BY DEF EvidenceInv, RunIs, LookForRow, RunKeeps, Kept, Storing, Finding, Current
<1>2. CASE Current(r) \notin artifactRows
  BY <1>1, <1>2, OnlyGoes DEF LookForRow, Storing, Finding
<1>3. CASE Current(r) \in artifactRows
  <2>1. PICK w : /\ RunnerTo(r, w) /\ w = [f \in RunnerFields |-> w[f]] /\ w.pc = "storing"
                 /\ w.evidence = runner[r].evidence /\ w.file = runner[r].file + 1
    BY <1>3, WorkerGoesOn DEF LookForRow
  <2>2. /\ JobTo(r, runJob[r]) /\ JobMoves(r, runJob[r]) /\ Stores(r)
        /\ Transacts(r, Own(r, holder, inserted))
    BY <1>1, JobKept, NothingStored, SameTransaction
  <2>3. Kept(r, w, artifactRows, Own(r, holder, inserted), disk)
    <3>1. /\ Kept(r, runner[r], artifactRows, Own(r, holder, inserted), disk)
          /\ runner[r].file \in Nat
      BY <1>1 DEF RunIs, RunKeeps, Storing, Finding
    <3>2. \A i \in DOMAIN Roles : i < w.file => i < runner[r].file \/ i = runner[r].file
      BY <1>1, <2>1, <3>1, RolesAreBlobs
    <3> QED BY <1>1, <1>3, <2>1, <3>1, <3>2 DEF Kept, Current, Finding
  <2>4. RunKeeps(r, w, runJob[r], r \in manifests', artifactRows', Own(r, holder, inserted),
                 disk')
    BY <1>1, <2>1, <2>3 DEF RunIs, RunKeeps, Storing, Finding
  <2>5. w.pc \in Storing
    BY <2>1 DEF Storing
  <2> QED BY <1>1, <2>1, <2>2, <2>4, <2>5, EvidenceFrame
<1> QED BY <1>2, <1>3

LEMMA InsertRowStep ==
    ASSUME EvidenceInv, NEW r \in EvidenceRuns, InsertRow(r)
    PROVE  EvidenceInv'
<1>1. /\ RunIs(r) /\ EvidenceTables /\ runner[r].pc = "inserting" /\ holder \in {NoRun, r}
      /\ runner[r].file =< Len(Roles) /\ disk[Current(r)] = "whole"
  BY DEF EvidenceInv, RunIs, InsertRow, MayWrite, RunKeeps, Kept, Storing, Finding, Current
<1>2. CASE Current(r) \in artifactRows
  BY <1>1, <1>2, AbandonStep DEF InsertRow
<1>3. CASE Current(r) \notin artifactRows
  <2>1. /\ inserted' = inserted \cup {Current(r)} /\ holder' = r /\ NextFile(r)
        /\ UNCHANGED <<kind, runJob, disk, artifactRows, manifests>>
    BY <1>3 DEF InsertRow
  <2>2. PICK w : /\ RunnerTo(r, w) /\ w = [f \in RunnerFields |-> w[f]] /\ w.pc = "storing"
                 /\ w.evidence = runner[r].evidence /\ w.file = runner[r].file + 1
    BY <2>1, WorkerGoesOn
  <2>3. r # NoRun /\ Own(r, holder, inserted) \subseteq inserted'
    BY <2>1, StageEvidenceAssumption DEF Own, NoRun, EvidenceRuns
  <2>4. /\ JobTo(r, runJob[r]) /\ JobMoves(r, runJob[r]) /\ Stores(r)
        /\ Transacts(r, inserted')
    BY <1>1, <2>1, <2>3, JobKept, NothingStored DEF Transacts, Own
  <2>5. Kept(r, w, artifactRows, inserted', disk)
    <3>1. /\ Kept(r, runner[r], artifactRows, Own(r, holder, inserted), disk)
          /\ runner[r].file \in Nat
      BY <1>1 DEF RunIs, RunKeeps, Storing, Finding
    <3>2. \A i \in DOMAIN Roles : i < w.file => i < runner[r].file \/ i = runner[r].file
      BY <1>1, <2>2, <3>1, RolesAreBlobs
    <3> QED BY <1>1, <2>1, <2>2, <2>3, <3>1, <3>2 DEF Kept, Current, Finding
  <2>6. RunKeeps(r, w, runJob[r], r \in manifests', artifactRows', inserted', disk')
    BY <1>1, <2>1, <2>2, <2>5 DEF RunIs, RunKeeps, Storing, Finding
  <2>7. w.pc \in Storing
    BY <2>2 DEF Storing
  <2> QED BY <2>1, <2>2, <2>4, <2>6, <2>7, EvidenceFrame
<1> QED BY <1>2, <1>3

(* A run succeeds with a row and a whole file for every content it names.  *)
LEMMA FinalizeStep ==
    ASSUME EvidenceInv, NEW r \in EvidenceRuns, Finalize(r)
    PROVE  EvidenceInv'
<1>1. /\ RunIs(r) /\ EvidenceTables /\ runner[r].pc = "storing" /\ holder \in {NoRun, r}
      /\ runner[r].file > Len(Roles)
  BY DEF EvidenceInv, RunIs, Finalize, MayWrite
<1>2. CASE runJob[r] # "running"
  BY <1>1, <1>2, AbandonStep DEF Finalize
<1>3. CASE runJob[r] = "running"
  <2>1. /\ runJob' = [runJob EXCEPT ![r] = "succeeded"] /\ Goes(r, "over")
        /\ artifactRows' = artifactRows \cup inserted /\ manifests' = manifests \cup {r}
        /\ inserted' = {} /\ holder' = NoRun /\ kind' = kind /\ disk' = disk
    BY <1>3 DEF Finalize
  <2>2. PICK w : /\ RunnerTo(r, w) /\ w = [f \in RunnerFields |-> w[f]] /\ w.pc = "over"
                 /\ w.evidence = runner[r].evidence /\ w.file = runner[r].file
    BY <2>1, WorkerGoes
  <2>3. JobTo(r, "succeeded") /\ JobMoves(r, "succeeded")
    BY <1>3, <2>1, JobSet DEF JobMoves
  <2>4. Stores(r) /\ Transacts(r, {}) /\ holder' # r
    BY <1>1, <2>1, StageEvidenceAssumption
       DEF Stores, Transacts, Own, EvidenceTables, NoRun, EvidenceRuns
  <2>5. /\ Kept(r, runner[r], artifactRows, Own(r, holder, inserted), disk)
        /\ Steady(runner[r].evidence) /\ runner[r].file \in Nat \ {0}
    BY <1>1 DEF RunIs, RunKeeps, Storing
  <2>6. Own(r, holder, inserted) \subseteq inserted
    BY DEF Own
  <2>7. \A i \in DOMAIN Roles : Bundle(r)[i] \in artifactRows' /\ disk'[Bundle(r)[i]] = "whole"
    <3>1. \A i \in DOMAIN Roles : i < runner[r].file
      BY <1>1, <2>5, RolesAreBlobs
    <3> QED BY <2>1, <2>5, <2>6, <3>1 DEF Kept
  <2>8. RunKeeps(r, w, "succeeded", r \in manifests', artifactRows', {}, disk')
    BY <2>1, <2>2, <2>5, <2>7 DEF RunKeeps, Storing, Finding
  <2> QED BY <2>1, <2>2, <2>3, <2>4, <2>8, EvidenceFrame
<1> QED BY <1>2, <1>3

LEMMA DieStep ==
    ASSUME EvidenceInv, NEW r \in EvidenceRuns, Die(r)
    PROVE  EvidenceInv'
<1>1. PICK w : /\ RunnerTo(r, w) /\ w = [f \in RunnerFields |-> w[f]] /\ w.pc = "over"
               /\ w.evidence = runner[r].evidence /\ w.file = runner[r].file
  BY WorkerGoes DEF Die
<1>2. /\ JobTo(r, runJob[r]) /\ JobMoves(r, runJob[r]) /\ Stores(r) /\ Transacts(r, {})
      /\ holder' # r /\ kind' = kind
  BY JobKept, NothingStored, RolledBack DEF Die
<1>3. RunIs(r) /\ runner[r].pc \notin {"idle", "over"}
  BY DEF EvidenceInv, RunIs, Die
<1>4. RunKeeps(r, w, runJob[r], r \in manifests', artifactRows', {}, disk')
  BY <1>1, <1>3 DEF RunIs, RunKeeps, Storing, Finding
<1> QED BY <1>1, <1>2, <1>4, EvidenceFrame

LEMMA LoseRunStep ==
    ASSUME EvidenceInv, NEW r \in EvidenceRuns, LoseRun(r)
    PROVE  EvidenceInv'
<1>1. /\ RunIs(r) /\ EvidenceTables /\ runJob[r] = "running" /\ holder' = holder
      /\ holder = NoRun /\ kind' = kind
  BY DEF EvidenceInv, RunIs, LoseRun
<1>2. RunnerTo(r, runner[r])
  BY <1>1 DEF LoseRun, RunnerTo, EvidenceTables
<1>3. /\ JobTo(r, "timed_out") /\ JobMoves(r, "timed_out") /\ Stores(r)
      /\ Transacts(r, Own(r, holder, inserted))
  BY JobSet, NothingStored, SameTransaction DEF LoseRun, JobMoves
<1>4. RunKeeps(r, runner[r], "timed_out", r \in manifests', artifactRows',
               Own(r, holder, inserted), disk')
  BY <1>1 DEF LoseRun, RunIs, RunKeeps
<1>5. holder' # r
  BY <1>1, StageEvidenceAssumption DEF NoRun, EvidenceRuns
<1> QED BY <1>1, <1>2, <1>3, <1>4, <1>5, EvidenceFrame

LEMMA EvidenceStep == EvidenceInv /\ [StageEvidenceNext]_stageEvidenceVars => EvidenceInv'
<1> SUFFICES ASSUME EvidenceInv, [StageEvidenceNext]_stageEvidenceVars
             PROVE  EvidenceInv'
  OBVIOUS
<1>1. ASSUME NEW r \in EvidenceRuns, RunStep(r)
      PROVE  EvidenceInv'
  BY <1>1, StartEvidenceRunStep, CommandsStep, AbandonStep, InspectStep, CompleteStep, FindsStep,
     ReplaceFileStep, LookForRowStep, InsertRowStep, FinalizeStep DEF RunStep, ContainerFails
<1>2. ASSUME NEW r \in EvidenceRuns, Die(r) \/ LoseRun(r)
      PROVE  EvidenceInv'
  BY <1>2, DieStep, LoseRunStep
<1>3. CASE UNCHANGED stageEvidenceVars
  <2>1. \A q, v, j, has, rows, o, files :
           RunKeeps(q, v, j, has, rows, o, files)' <=> RunKeeps(q, v, j, has, rows, o, files)
    BY <1>3 DEF stageEvidenceVars, RunKeeps, Kept, Bundle, Roles, Blob, Storing, Finding, Steady
  <2> QED BY <1>3, <2>1 DEF stageEvidenceVars, EvidenceInv, EvidenceTables, InTurn, Own
<1> QED BY <1>1, <1>2, <1>3 DEF StageEvidenceNext

(* The evidence of a run that succeeded can be read, whole and as it was   *)
(* hashed, and no other run of the stage succeeded: for every number of    *)
(* runs, wherever they crash or are lost, and of commands.                 *)
THEOREM SucceededIsReadable == StageEvidenceSpec => []EvidenceIsReadable
<1>1. EvidenceInv => EvidenceIsReadable
  <2> SUFFICES ASSUME EvidenceInv, NEW r \in EvidenceRuns, runJob[r] = "succeeded"
               PROVE  /\ RunReadable(r)
                      /\ \A k \in DOMAIN Reported(r) : Reported(r)[k].steady
                      /\ \A other \in EvidenceRuns : runJob[other] = "succeeded" => other = r
    BY DEF EvidenceIsReadable
  <2>1. RunIs(r)
    BY DEF EvidenceInv, RunIs
  <2>2. DOMAIN Bundle(r) = DOMAIN Roles
    BY DEF Bundle
  <2>3. RunReadable(r)
    BY <2>1, <2>2 DEF RunIs, RunKeeps, RunReadable, Manifest
  <2>4. Steady(Reported(r))
    BY <2>1 DEF RunIs, RunKeeps, Reported
  <2>5. ASSUME NEW other \in EvidenceRuns, runJob[other] = "succeeded"
        PROVE  other = r
    <3>1. ~(other < r) /\ ~(r < other)
      BY <2>5 DEF EvidenceInv, InTurn, Ended
    <3> QED BY <3>1, StageEvidenceAssumption DEF EvidenceRuns
  <2> QED BY <2>3, <2>4, <2>5 DEF Steady
<1> QED BY <1>1, EvidenceInitial, EvidenceStep, PTL DEF StageEvidenceSpec

-----------------------------------------------------------------------------
(* StageChain: what the writer appends follows from the version before it, *)
(* and a version that answers a repeated call is the one that call would   *)
(* have appended.                                                          *)

VersionFields ==
    {"stage", "status", "reason", "spec", "inputs", "result", "workspace", "inventory"}
VersionRow(v) ==
    v = [f \in VersionFields |-> v[f]] /\ v.stage \in {"explore", "implement", "verify"}

(* Nobody has made an inventory of a workspace that is still to be made.   *)
Uninventoried(v) ==
    v.stage = "implement" /\ v.status \in {"pending", "running"} => v.inventory = None

Restoring == "dependency_environment_restored"

(* An Implement or a Verify that was advanced to follows a success.        *)
ReasonFits(p, v) ==
    v.status = "pending" =>
        (v.reason \in {"retry_scheduled", Restoring} <=> p.status # "succeeded")

GoodVersion(v) == VersionRow(v) /\ ShapeOK(v) /\ Uninventoried(v)
GoodEdge(p, v) == EdgeOK(p, v) /\ ReasonFits(p, v)

HistoryInv ==
    /\ \E S : chain \in Seq(S)
    /\ Len(chain) > 0
    /\ \A n \in 1..Len(chain) : GoodVersion(chain[n].version)
    /\ \A n \in 2..Len(chain) :
          /\ GoodEdge(chain[n - 1].version, chain[n].version)
          /\ ReceiptOK(chain[n - 1].version, chain[n].version, n)
    /\ chain[1].version = First

Endings == {"completed", "cancellation_requested", "worker_lost"}
Advances == {"changeset_accepted", "implement_succeeded"}
RequestFits(r) ==
    \/ r.op = "start" /\ r.status = "running" /\ r.reason = "stage_started"
    \/ /\ r.op = "finish" /\ r.status \in Ends \cup {"succeeded"} /\ r.reason \in Endings
       /\ r.status # "succeeded" => r.value = None
    \/ r.op = "advance" /\ r.status = "pending" /\ r.reason \in Advances
    \/ r.op = "retry" /\ r.status = "pending" /\ r.reason = "retry_scheduled"

RequestFields == {"pc", "at", "op", "key", "status", "reason", "inputs", "value"}
CallInv(c) ==
    call[c].pc # "idle" =>
        /\ call[c] = [f \in RequestFields |-> call[c][f]]
        /\ call[c].at \in 1..Len(chain) /\ RequestFits(call[c])
        /\ call[c].pc = "append" => Admitted(call[c], chain[call[c].at].version)

Stands(c) ==
    call[c].pc = "answered" =>
        /\ call[c].at + 1 \in PositionsOf(call[c].key)
        /\ chain[call[c].at + 1].version = NextVersion(call[c], chain[call[c].at].version)

ChainInv ==
    /\ HistoryInv
    /\ DOMAIN call = Callers
    /\ \A c \in Callers : CallInv(c) /\ Stands(c)

LEMMA HistoryIs ==
    ASSUME HistoryInv
    PROVE  /\ Len(chain) \in Nat /\ DOMAIN chain = 1..Len(chain)
           /\ VerifiedHistory
<1>1. Len(chain) \in Nat /\ DOMAIN chain = 1..Len(chain)
  BY DEF HistoryInv
<1>2. DOMAIN chain \ {1} = 2..Len(chain)
  BY <1>1
<1> QED BY <1>1, <1>2 DEF HistoryInv, VerifiedHistory, GoodVersion, GoodEdge

(* What an admitted request appends can be read.                           *)
LEMMA NextIsGood ==
    ASSUME NEW p, NEW r, GoodVersion(p), RequestFits(r), Admitted(r, p),
           r.op = "start" => r.at # None
    PROVE  /\ GoodVersion(NextVersion(r, p)) /\ GoodEdge(p, NextVersion(r, p))
           /\ NextVersion(r, p).reason # Restoring
<1> DEFINE v == NextVersion(r, p)
<1> USE DEF VersionRow, VersionFields, None
<1>1. CASE r.op = "start"
  <2>1. v = StartRun(r, p)
    BY <1>1 DEF NextVersion
  <2> HIDE DEF v
  <2>2. /\ v = [f \in VersionFields |-> v[f]]
        /\ v.stage = p.stage /\ v.status = "running" /\ v.reason = "stage_started"
        /\ v.spec = r.at /\ v.inputs = p.inputs /\ v.result = p.result
        /\ v.workspace = (IF p.stage = "implement" THEN r.value ELSE p.workspace)
        /\ v.inventory = p.inventory
    BY <1>1, <2>1 DEF StartRun, GoodVersion, RequestFits
  <2>3. p.status = "pending" /\ (p.stage = "implement" <=> r.value # None)
    BY <1>1 DEF Admitted
  <2>4. GoodVersion(v)
    BY <1>1, <2>2, <2>3 DEF GoodVersion, ShapeOK, Uninventoried, Ends
  <2>5. StartEdge(p, v)
    BY <2>2, <2>3 DEF StartEdge, SameWorkspace
  <2> QED BY <2>2, <2>4, <2>5 DEF v, GoodEdge, EdgeOK, ReasonFits, Restoring
<1>2. CASE r.op = "finish"
  <2>1. v = FinishStage(r, p)
    BY <1>2 DEF NextVersion
  <2> HIDE DEF v
  <2>2. /\ v = [f \in VersionFields |-> v[f]]
        /\ v.stage = p.stage /\ v.status = r.status /\ v.reason \in Endings
        /\ v.spec = p.spec /\ v.inputs = p.inputs /\ v.result = r.value
        /\ v.workspace = p.workspace
        /\ v.inventory = (IF p.stage = "implement" THEN r.value ELSE p.inventory)
    BY <1>2, <2>1 DEF FinishStage, GoodVersion, RequestFits
  <2>3. /\ p.status = "running" \/ (p.status = "pending" /\ r.status \in Ends)
        /\ r.status \in Ends \cup {"succeeded"}
        /\ (r.status = "succeeded" <=> r.value # None)
    BY <1>2 DEF Admitted, RequestFits, Ends
  <2>4. GoodVersion(v)
    BY <2>2, <2>3 DEF GoodVersion, ShapeOK, Uninventoried, Ends
  <2>5. EndEdge(p, v) \/ AbandonEdge(p, v)
    <3>1. CASE p.status = "running"
      BY <2>2, <2>3, <3>1 DEF EndEdge
    <3>2. CASE p.status = "pending" /\ r.status \in Ends
      <4>1. p.spec = None /\ r.value = None
        BY <2>3, <3>2 DEF GoodVersion, ShapeOK, Ends
      <4>2. v.inventory = p.inventory
        BY <2>2, <3>2, <4>1 DEF GoodVersion, Uninventoried
      <4> QED BY <2>2, <3>2, <4>1, <4>2 DEF AbandonEdge, SameWorkspace
    <3> QED BY <2>3, <3>1, <3>2
  <2> QED BY <2>2, <2>3, <2>4, <2>5 DEF v, GoodEdge, EdgeOK, ReasonFits, Restoring, Ends, Endings
<1>3. CASE r.op = "advance"
  <2>1. v = AdvanceStage(r, p)
    BY <1>3 DEF NextVersion
  <2> HIDE DEF v
  <2>2. /\ v = [f \in VersionFields |-> v[f]]
        /\ v.stage = (IF p.stage = "explore" THEN "implement" ELSE "verify")
        /\ v.status = "pending" /\ v.reason \in Advances
        /\ v.spec = None /\ v.inputs = r.inputs /\ v.result = None
        /\ v.workspace = (IF p.stage = "explore" THEN None ELSE p.workspace)
        /\ v.inventory = (IF p.stage = "explore" THEN None ELSE p.inventory)
    BY <1>3, <2>1 DEF AdvanceStage, First, RequestFits
  <2>3. /\ p.status = "succeeded" /\ p.stage \in {"explore", "implement"}
        /\ Len(r.inputs) \in (IF p.stage = "explore" THEN {2} ELSE {1, 2})
        /\ r.inputs[1] = p.result
        /\ p.stage = "implement" => p.workspace # None /\ p.inventory # None
    BY <1>3 DEF Admitted
  <2>4. GoodVersion(v)
    BY <2>2, <2>3 DEF GoodVersion, ShapeOK, Uninventoried
  <2>5. AdvanceEdge(p, v)
    BY <2>2, <2>3 DEF AdvanceEdge, SameWorkspace
  <2> QED BY <2>2, <2>3, <2>4, <2>5 DEF v, GoodEdge, EdgeOK, ReasonFits, Restoring, Advances
<1>4. CASE r.op = "retry"
  <2>1. v = RetryStage(r, p)
    BY <1>4 DEF NextVersion
  <2> HIDE DEF v
  <2>2. /\ v = [f \in VersionFields |-> v[f]]
        /\ v.stage = p.stage /\ v.status = "pending" /\ v.reason = "retry_scheduled"
        /\ v.spec = None /\ v.inputs = p.inputs /\ v.result = None
        /\ v.workspace = (IF p.stage = "implement" THEN None ELSE p.workspace)
        /\ v.inventory = (IF p.stage = "implement" THEN None ELSE p.inventory)
    BY <1>4, <2>1 DEF RetryStage, GoodVersion, RequestFits
  <2>3. p.status \in {"failed", "timed_out"}
    BY <1>4 DEF Admitted
  <2>4. GoodVersion(v)
    BY <2>2, <2>3 DEF GoodVersion, ShapeOK, Uninventoried
  <2>5. RetryEdge(p, v)
    BY <2>2, <2>3 DEF RetryEdge, SameWorkspace
  <2> QED BY <2>2, <2>3, <2>4, <2>5 DEF v, GoodEdge, EdgeOK, ReasonFits, Restoring
<1> QED BY <1>1, <1>2, <1>3, <1>4 DEF RequestFits

(* What a replay compares, and what the reader knows of the two versions,  *)
(* leave one version it can be.                                            *)
LEMMA ReplayIsNext ==
    ASSUME NEW p, NEW v, NEW r, GoodVersion(p), GoodVersion(v), GoodEdge(p, v),
           RequestFits(r), Asked(r, v)
    PROVE  v = NextVersion(r, p)
<1> USE DEF VersionRow, VersionFields, None
<1>1. v.status = r.status /\ v.reason = r.reason
  BY DEF Asked
<1>2. CASE r.op = "start"
  <2>1. StartEdge(p, v)
    BY <1>1, <1>2
    DEF RequestFits, GoodEdge, EdgeOK, AbandonEdge, EndEdge, AdvanceEdge, RestoreEdge, RetryEdge,
        Ends
  <2>2. v.spec = r.at /\ (v.stage = "implement" => v.workspace = r.value)
    BY <1>2 DEF Asked
  <2>3. /\ v.result = p.result /\ v.inventory = p.inventory
        /\ v.workspace = (IF p.stage = "implement" THEN r.value ELSE p.workspace)
    BY <2>1, <2>2 DEF StartEdge, GoodVersion, ShapeOK, Uninventoried, SameWorkspace
  <2>4. v = StartRun(r, p)
    BY <1>1, <1>2, <2>1, <2>2, <2>3 DEF StartEdge, StartRun, GoodVersion, RequestFits
  <2> QED BY <1>2, <2>4 DEF NextVersion
<1>3. CASE r.op = "finish"
  <2>1. AbandonEdge(p, v) \/ EndEdge(p, v)
    BY <1>1, <1>3
    DEF RequestFits, GoodEdge, EdgeOK, StartEdge, AdvanceEdge, RestoreEdge, RetryEdge, Ends
  <2>2. v.result = r.value /\ (v.stage = "implement" => v.inventory = r.value)
    BY <1>3 DEF Asked
  <2>3. /\ v.stage = p.stage /\ v.inputs = p.inputs /\ v.spec = p.spec
        /\ v.workspace = p.workspace
        /\ v.inventory = (IF p.stage = "implement" THEN r.value ELSE p.inventory)
    BY <2>1, <2>2 DEF AbandonEdge, EndEdge, GoodVersion, ShapeOK, SameWorkspace
  <2>4. v = FinishStage(r, p)
    BY <1>1, <2>2, <2>3 DEF FinishStage, GoodVersion
  <2> QED BY <1>3, <2>4 DEF NextVersion
<1>4. CASE r.op = "advance"
  <2>1. AdvanceEdge(p, v)
    BY <1>1, <1>4
    DEF RequestFits, GoodEdge, EdgeOK, ReasonFits, StartEdge, AbandonEdge, EndEdge, RestoreEdge,
        RetryEdge, Ends, Advances, Restoring
  <2>2. v.inputs = r.inputs /\ v.status = "pending"
    BY <1>1, <1>4 DEF Asked, RequestFits
  <2>3. /\ v.stage = (IF p.stage = "explore" THEN "implement" ELSE "verify")
        /\ v.spec = None /\ v.result = None
        /\ v.workspace = (IF p.stage = "explore" THEN None ELSE p.workspace)
        /\ v.inventory = (IF p.stage = "explore" THEN None ELSE p.inventory)
    BY <2>1, <2>2 DEF AdvanceEdge, GoodVersion, ShapeOK, Uninventoried, SameWorkspace
  <2> DEFINE w == AdvanceStage(r, p)
  <2>4. /\ w = [f \in VersionFields |-> w[f]]
        /\ w.stage = (IF p.stage = "explore" THEN "implement" ELSE "verify")
        /\ w.status = "pending" /\ w.reason = r.reason
        /\ w.spec = None /\ w.inputs = r.inputs /\ w.result = None
        /\ w.workspace = (IF p.stage = "explore" THEN None ELSE p.workspace)
        /\ w.inventory = (IF p.stage = "explore" THEN None ELSE p.inventory)
    BY DEF AdvanceStage, First
  <2> HIDE DEF w
  <2>5. v = w
    BY <1>1, <2>2, <2>3, <2>4 DEF GoodVersion
  <2> QED BY <1>4, <2>5 DEF NextVersion, w
<1>5. CASE r.op = "retry"
  <2>1. RetryEdge(p, v)
    BY <1>1, <1>5
    DEF RequestFits, GoodEdge, EdgeOK, ReasonFits, StartEdge, AbandonEdge, EndEdge, AdvanceEdge,
        RestoreEdge, Ends, Restoring
  <2>2. v.spec = None /\ v.result = None /\ v.status = "pending"
    BY <1>1, <1>5 DEF RequestFits, GoodVersion, ShapeOK
  <2>3. /\ v.workspace = (IF p.stage = "implement" THEN None ELSE p.workspace)
        /\ v.inventory = (IF p.stage = "implement" THEN None ELSE p.inventory)
    BY <2>1 DEF RetryEdge, SameWorkspace
  <2>4. v = RetryStage(r, p)
    BY <1>1, <2>1, <2>2, <2>3 DEF RetryStage, RetryEdge, GoodVersion
  <2> QED BY <1>5, <2>4 DEF NextVersion
<1> QED BY <1>2, <1>3, <1>4, <1>5 DEF RequestFits
LEMMA ChainInitial == ChainInit => ChainInv
<1> SUFFICES ASSUME ChainInit
             PROVE  ChainInv
  OBVIOUS
<1> DEFINE e == [key |-> <<"start">>, version |-> First]
<1>1. chain = <<e>> /\ call = [c \in Callers |-> NoCall]
  BY DEF ChainInit
<1>2. e.version = First
  OBVIOUS
<1>3. GoodVersion(First)
  BY DEF First, GoodVersion, VersionRow, VersionFields, ShapeOK, Uninventoried, None
<1> HIDE DEF e
<1>4. chain \in Seq({e}) /\ Len(chain) = 1 /\ chain[1] = e
  BY <1>1
<1>5. HistoryInv
  BY <1>2, <1>3, <1>4 DEF HistoryInv
<1>6. \A c \in Callers : CallInv(c) /\ Stands(c)
  BY <1>1 DEF NoCall, CallInv, Stands
<1> QED BY <1>1, <1>5, <1>6 DEF ChainInv

ChainKept ==
    /\ Len(chain) <= Len(chain')
    /\ \A n \in 1..Len(chain) : chain'[n] = chain[n]

(* A version is appended that the reader accepts.                          *)
LEMMA ChainGrows ==
    ASSUME HistoryInv, NEW e, chain' = Append(chain, e),
           GoodVersion(e.version), GoodEdge(Last.version, e.version),
           restored \subseteq restored',
           e.version.reason = Restoring =>
               [failed |-> Len(chain), bundle |-> e.version.inputs[2]] \in restored'
    PROVE  /\ HistoryInv' /\ ChainKept
           /\ Len(chain') = Len(chain) + 1 /\ chain'[Len(chain) + 1] = e
<1>1. PICK S : chain \in Seq(S)
  BY DEF HistoryInv
<1>2. chain \in Seq(S \cup {e}) /\ e \in S \cup {e}
  BY <1>1
<1> DEFINE N == Len(chain)
<1>3. /\ chain' \in Seq(S \cup {e}) /\ Len(chain') = N + 1
      /\ chain'[N + 1] = e /\ \A i \in 1..N : chain'[i] = chain[i]
  BY <1>2, AppendProperties
<1>4. N \in Nat /\ N > 0 /\ Last = chain[N]
  BY HistoryIs DEF HistoryInv, Last
<1> HIDE DEF N
<1>5. \A n \in 1..N + 1 : n \in 1..N \/ n = N + 1
  BY <1>4
<1>6. \A n \in 1..N + 1 : GoodVersion(chain'[n].version)
  BY <1>3, <1>5 DEF HistoryInv, N
<1>7. ASSUME NEW n \in 2..N + 1
      PROVE  /\ GoodEdge(chain'[n - 1].version, chain'[n].version)
             /\ chain'[n].version.reason = Restoring =>
                   [failed |-> n - 1, bundle |-> chain'[n].version.inputs[2]] \in restored'
  <2>1. CASE n \in 2..N
    <3>1. n \in 1..N /\ n - 1 \in 1..N
      BY <1>4, <2>1
    <3>2. GoodEdge(chain[n - 1].version, chain[n].version)
      BY <2>1 DEF HistoryInv, N
    <3>3. chain[n].version.reason = Restoring =>
              [failed |-> n - 1, bundle |-> chain[n].version.inputs[2]] \in restored
      BY <2>1 DEF HistoryInv, N, ReceiptOK, Restoring
    <3> QED BY <1>3, <3>1, <3>2, <3>3
  <2>2. CASE n = N + 1
    <3>1. n - 1 = N /\ N \in 1..N
      BY <1>4, <2>2
    <3>2. chain'[n - 1] = Last /\ chain'[n] = e
      BY <1>3, <1>4, <2>2, <3>1
    <3> QED BY <3>1, <3>2 DEF N
  <2>3. n \in 2..N \/ n = N + 1
    BY <1>4
  <2> QED BY <2>1, <2>2, <2>3
<1>8. \A n \in 2..N + 1 : ReceiptOK(chain[n - 1].version, chain[n].version, n)'
  BY <1>7 DEF ReceiptOK, Restoring
<1>9. HistoryInv'
  BY <1>3, <1>4, <1>6, <1>7, <1>8 DEF HistoryInv, N
<1> QED BY <1>3, <1>4, <1>9 DEF ChainKept, N

LEMMA CallKept ==
    ASSUME HistoryInv, HistoryInv', ChainKept, NEW c, CallInv(c), Stands(c), call'[c] = call[c]
    PROVE  CallInv(c)' /\ Stands(c)'
<1> DEFINE r == call[c]
<1>1. /\ Len(chain) \in Nat /\ Len(chain') \in Nat
      /\ DOMAIN chain = 1..Len(chain) /\ DOMAIN chain' = 1..Len(chain')
  BY HistoryIs DEF HistoryInv
<1>2. 1..Len(chain) \subseteq 1..Len(chain') /\ \A n \in 1..Len(chain) : chain'[n] = chain[n]
  BY <1>1 DEF ChainKept
<1>3. CallInv(c)'
  <2> SUFFICES ASSUME r.pc # "idle"
               PROVE  /\ r = [f \in RequestFields |-> r[f]]
                      /\ r.at \in 1..Len(chain') /\ RequestFits(r)
                      /\ r.pc = "append" => Admitted(r, chain'[r.at].version)
    BY DEF CallInv
  <2> QED BY <1>2 DEF CallInv
<1>4. Stands(c)'
  <2> SUFFICES ASSUME r.pc = "answered"
               PROVE  /\ r.at + 1 \in {n \in DOMAIN chain' : chain'[n].key = r.key}
                      /\ chain'[r.at + 1].version = NextVersion(r, chain'[r.at].version)
    BY DEF Stands, PositionsOf
  <2>1. r.at \in 1..Len(chain)
    BY DEF CallInv
  <2>2. r.at + 1 \in DOMAIN chain /\ chain[r.at + 1].key = r.key
    BY DEF Stands, PositionsOf
  <2>3. chain[r.at + 1].version = NextVersion(r, chain[r.at].version)
    BY DEF Stands
  <2> QED BY <1>1, <1>2, <2>1, <2>2, <2>3
<1> QED BY <1>3, <1>4

(* One caller moves on, and the chain may have grown.                      *)
LEMMA OneCallMoves ==
    ASSUME ChainInv, HistoryInv', ChainKept, NEW c \in Callers, NEW r,
           call' = [call EXCEPT ![c] = r], CallInv(c)', Stands(c)'
    PROVE  ChainInv'
<1>1. HistoryInv /\ DOMAIN call = Callers /\ DOMAIN call' = Callers
  BY DEF ChainInv
<1>2. ASSUME NEW d \in Callers, d # c
      PROVE  CallInv(d)' /\ Stands(d)'
  <2>1. CallInv(d) /\ Stands(d) /\ call'[d] = call[d]
    BY <1>1, <1>2 DEF ChainInv
  <2> QED BY <1>1, <2>1, CallKept
<1> QED BY <1>1, <1>2 DEF ChainInv

LEMMA SameChain ==
    ASSUME HistoryInv, UNCHANGED <<chain, restored>>
    PROVE  HistoryInv' /\ ChainKept
BY HistoryIs DEF HistoryInv, ReceiptOK, ChainKept

LEMMA AskStep ==
    ASSUME ChainInv, NEW c \in Callers, NEW r, Ask(c, r),
           r = [f \in RequestFields |-> r[f]], r.pc = "asked", r.at = Len(chain), RequestFits(r)
    PROVE  ChainInv'
<1>1. UNCHANGED <<chain, restored>> /\ call' = [call EXCEPT ![c] = r] /\ HistoryInv
  BY DEF Ask, ChainInv
<1>2. HistoryInv' /\ ChainKept /\ call'[c] = r
  BY <1>1, SameChain DEF ChainInv
<1>3. r.at \in 1..Len(chain)
  BY <1>1, HistoryIs DEF HistoryInv
<1>4. CallInv(c)' /\ Stands(c)'
  BY <1>1, <1>2, <1>3 DEF CallInv, Stands
<1> QED BY <1>1, <1>2, <1>4, OneCallMoves

LEMMA RequestIs ==
    ASSUME NEW op, NEW key, NEW status, NEW reason, NEW inputs, NEW value, NEW r,
           r = Request(op, key, status, reason, inputs, value)
    PROVE  /\ r = [f \in RequestFields |-> r[f]] /\ r.pc = "asked" /\ r.at = Len(chain)
           /\ r.op = op /\ r.status = status /\ r.reason = reason /\ r.value = value
BY DEF Request, RequestFields

LEMMA AsksStep ==
    ASSUME ChainInv, NEW c \in Callers,
           \/ AskStart(c) \/ AskFinish(c) \/ AskCancel(c) \/ AskReconcile(c)
           \/ AskAccept(c) \/ AskVerify(c) \/ AskRetry(c)
    PROVE  ChainInv'
<1>1. ASSUME NEW op, NEW key, NEW status, NEW reason, NEW inputs, NEW value,
             Ask(c, Request(op, key, status, reason, inputs, value)),
             \/ op = "start" /\ status = "running" /\ reason = "stage_started"
             \/ /\ op = "finish" /\ status \in Ends \cup {"succeeded"} /\ reason \in Endings
                /\ status # "succeeded" => value = None
             \/ op = "advance" /\ status = "pending" /\ reason \in Advances
             \/ op = "retry" /\ status = "pending" /\ reason = "retry_scheduled"
      PROVE  ChainInv'
  <2>1. PICK r : r = Request(op, key, status, reason, inputs, value)
    OBVIOUS
  <2>2. /\ r = [f \in RequestFields |-> r[f]] /\ r.pc = "asked" /\ r.at = Len(chain)
        /\ r.op = op /\ r.status = status /\ r.reason = reason /\ r.value = value
    BY <2>1, RequestIs
  <2>3. Ask(c, r)
    BY <1>1, <2>1
  <2>4. RequestFits(r)
    BY <1>1, <2>2 DEF RequestFits
  <2> QED BY <2>2, <2>3, <2>4, AskStep
<1>2. CASE AskStart(c)
  BY <1>1, <1>2 DEF AskStart
<1>3. CASE AskFinish(c)
  <2>0. PICK status \in Outcomes \cup {"succeeded"} :
          \E value \in IF status = "succeeded" THEN Hashes ELSE {None} :
             Ask(c, Request("finish", <<"run", Len(chain) - 1, status>>,
                            status, "completed", <<>>, value))
    BY <1>3 DEF AskFinish
  <2>1. PICK value \in IF status = "succeeded" THEN Hashes ELSE {None} :
          Ask(c, Request("finish", <<"run", Len(chain) - 1, status>>,
                         status, "completed", <<>>, value))
    BY <2>0
  <2>2. status \in Ends \cup {"succeeded"} /\ (status # "succeeded" => value = None)
    BY StageChainAssumption DEF Ends
  <2> QED BY <1>1, <2>1, <2>2 DEF Endings
<1>4. CASE AskCancel(c)
  BY <1>1, <1>4 DEF AskCancel, Ends, Endings
<1>5. CASE AskReconcile(c)
  <2>1. PICK pending \in {Len(chain), Len(chain) - 1} \cap DOMAIN chain, status \in Outcomes :
          Ask(c, Request("finish", <<"reconcile", pending, status>>,
                         status, "worker_lost", <<>>, None))
    BY <1>5 DEF AskReconcile
  <2>2. status \in Ends \cup {"succeeded"}
    BY StageChainAssumption DEF Ends
  <2> QED BY <1>1, <2>1, <2>2 DEF Endings
<1>6. CASE AskAccept(c)
  BY <1>1, <1>6 DEF AskAccept, Advances
<1>7. CASE AskVerify(c)
  BY <1>1, <1>7 DEF AskVerify, Advances
<1>8. CASE AskRetry(c)
  BY <1>1, <1>8 DEF AskRetry
<1> QED BY <1>2, <1>3, <1>4, <1>5, <1>6, <1>7, <1>8

(* A reply leaves the request as it is.                                    *)
LEMMA SameRequest ==
    ASSUME NEW q, NEW r, q.op = r.op, q.at = r.at, q.status = r.status, q.reason = r.reason,
           q.inputs = r.inputs, q.value = r.value
    PROVE  /\ RequestFits(q) <=> RequestFits(r)
           /\ \A p : /\ Admitted(q, p) <=> Admitted(r, p)
                     /\ NextVersion(q, p) = NextVersion(r, p)
BY DEF RequestFits, Admitted, NextVersion, StartRun, FinishStage, AdvanceStage, RetryStage

LEMMA ReplyStep ==
    ASSUME ChainInv, HistoryInv', ChainKept, NEW c \in Callers, NEW pc, Reply(c, pc),
           call[c].pc # "idle", pc \in {"refused", "asked", "append", "answered"},
           pc = "append" => Admitted(call[c], chain'[call[c].at].version),
           pc = "answered" =>
               /\ call[c].at + 1 \in {n \in DOMAIN chain' : chain'[n].key = call[c].key}
               /\ chain'[call[c].at + 1].version = NextVersion(call[c], chain'[call[c].at].version)
    PROVE  ChainInv'
<1> DEFINE r == call[c]
<1>1. HistoryInv /\ DOMAIN call = Callers /\ CallInv(c)
  BY DEF ChainInv
<1>2. CASE pc = "refused"
  <2>1. call' = [call EXCEPT ![c] = NoCall] /\ call'[c].pc = "idle"
    BY <1>1, <1>2 DEF Reply, NoCall
  <2>2. CallInv(c)' /\ Stands(c)'
    BY <2>1 DEF CallInv, Stands
  <2> QED BY <2>1, <2>2, OneCallMoves
<1>3. CASE pc # "refused"
  <2>1. PICK q : q = [r EXCEPT !.pc = pc]
    OBVIOUS
  <2>2. call' = [call EXCEPT ![c] = q] /\ call'[c] = q
    BY <1>1, <1>3, <2>1 DEF Reply
  <2>3. r = [f \in RequestFields |-> r[f]] /\ r.at \in 1..Len(chain) /\ RequestFits(r)
    BY <1>1 DEF CallInv
  <2>4. /\ q = [f \in RequestFields |-> q[f]] /\ q.pc = pc
        /\ q.op = r.op /\ q.at = r.at /\ q.status = r.status /\ q.reason = r.reason
        /\ q.inputs = r.inputs /\ q.value = r.value /\ q.key = r.key
    BY <2>1, <2>3 DEF RequestFields
  <2>5. /\ RequestFits(q) /\ \A p : /\ Admitted(q, p) <=> Admitted(r, p)
                                    /\ NextVersion(q, p) = NextVersion(r, p)
    BY <2>3, <2>4, SameRequest
  <2>6. q.at \in 1..Len(chain')
    BY <1>1, <2>3, <2>4, HistoryIs DEF ChainKept, HistoryInv
  <2>7. CallInv(c)'
    <3> SUFFICES /\ q = [f \in RequestFields |-> q[f]]
                 /\ q.at \in 1..Len(chain') /\ RequestFits(q)
                 /\ q.pc = "append" => Admitted(q, chain'[q.at].version)
      BY <2>2 DEF CallInv
    <3> QED BY <2>4, <2>5, <2>6
  <2>8. Stands(c)'
    <3> SUFFICES ASSUME q.pc = "answered"
                 PROVE  /\ q.at + 1 \in {n \in DOMAIN chain' : chain'[n].key = q.key}
                        /\ chain'[q.at + 1].version = NextVersion(q, chain'[q.at].version)
      BY <2>2 DEF Stands, PositionsOf
    <3>1. q.at + 1 \in {n \in DOMAIN chain' : chain'[n].key = q.key}
      BY <2>4
    <3> QED BY <2>4, <2>5, <3>1
  <2> QED BY <2>2, <2>7, <2>8, OneCallMoves
<1> QED BY <1>2, <1>3

LEMMA LookStep ==
    ASSUME ChainInv, NEW c \in Callers, Look(c)
    PROVE  ChainInv'
<1> DEFINE r == call[c]
<1>1. r.pc = "asked" /\ UNCHANGED <<chain, restored>> /\ HistoryInv /\ CallInv(c)
  BY DEF Look, ChainInv
<1>2. /\ HistoryInv' /\ ChainKept
      /\ r.at \in 1..Len(chain) /\ RequestFits(r)
      /\ Len(chain) \in Nat /\ DOMAIN chain = 1..Len(chain)
  BY <1>1, SameChain, HistoryIs DEF CallInv
<1>3. PICK pc : /\ Reply(c, pc) /\ pc \in {"refused", "append", "answered"}
                /\ pc = "answered" => Replayed(r)
                /\ pc = "append" => r.at = Len(chain) /\ Admitted(r, Last.version)
  BY DEF Look
<1>4. pc = "append" => Admitted(r, chain[r.at].version)
  BY <1>3 DEF Last
<1>5. ASSUME pc = "answered"
      PROVE  /\ r.at + 1 \in PositionsOf(r.key)
             /\ chain[r.at + 1].version = NextVersion(r, chain[r.at].version)
  <2>1. r.at + 1 \in PositionsOf(r.key) /\ Asked(r, chain[r.at + 1].version)
    BY <1>3, <1>5 DEF Replayed
  <2>2. r.at + 1 \in 2..Len(chain) /\ r.at + 1 \in 1..Len(chain) /\ (r.at + 1) - 1 = r.at
    BY <1>2, <2>1 DEF PositionsOf
  <2>3. GoodVersion(chain[r.at].version) /\ GoodVersion(chain[r.at + 1].version)
    BY <1>1, <1>2, <2>2 DEF HistoryInv
  <2>4. GoodEdge(chain[(r.at + 1) - 1].version, chain[r.at + 1].version)
    BY <1>1, <2>2 DEF HistoryInv
  <2>5. GoodEdge(chain[r.at].version, chain[r.at + 1].version)
    BY <2>2, <2>4
  <2> QED BY <1>2, <2>1, <2>3, <2>5, ReplayIsNext
<1>6. pc = "answered" => /\ r.at + 1 \in {n \in DOMAIN chain' : chain'[n].key = r.key}
                         /\ chain'[r.at + 1].version = NextVersion(r, chain'[r.at].version)
  BY <1>1, <1>5 DEF PositionsOf
<1>7. r.pc # "idle" /\ (pc = "append" => Admitted(r, chain'[r.at].version))
  BY <1>1, <1>4
<1> QED BY <1>2, <1>3, <1>6, <1>7, ReplyStep

LEMMA AppendStep ==
    ASSUME ChainInv, NEW c \in Callers, AppendVersion(c)
    PROVE  ChainInv'
<1> DEFINE r == call[c]
<1>n. PICK v : v = NextVersion(r, chain[r.at].version)
  OBVIOUS
<1>1. r.pc = "append" /\ UNCHANGED restored /\ HistoryInv /\ CallInv(c)
  BY DEF AppendVersion, ChainInv
<1>2. /\ r.at \in 1..Len(chain) /\ RequestFits(r) /\ Admitted(r, chain[r.at].version)
      /\ Len(chain) \in Nat /\ DOMAIN chain = 1..Len(chain)
  BY <1>1, HistoryIs DEF CallInv
<1>3. CASE /\ r.at = Len(chain) /\ Reply(c, "answered")
           /\ chain' = Append(chain, [key |-> r.key, version |-> v])
  <2>1. PICK e : e = [key |-> r.key, version |-> v]
    OBVIOUS
  <2>2. e.key = r.key /\ e.version = v /\ chain' = Append(chain, e) /\ Last = chain[r.at]
    BY <1>3, <2>1 DEF Last
  <2>3. GoodVersion(Last.version) /\ (r.op = "start" => r.at # None)
    BY <1>1, <1>2, <2>2 DEF HistoryInv, None
  <2>4. GoodVersion(v) /\ GoodEdge(Last.version, v) /\ v.reason # Restoring
    BY <1>n, <1>2, <2>2, <2>3, NextIsGood
  <2>5. /\ HistoryInv' /\ ChainKept
        /\ Len(chain') = Len(chain) + 1 /\ chain'[Len(chain) + 1] = e
    BY <1>1, <2>2, <2>4, ChainGrows
  <2>6. chain'[r.at] = chain[r.at] /\ DOMAIN chain' = 1..Len(chain')
    BY <1>2, <2>5 DEF ChainKept, HistoryInv
  <2>7. r.at + 1 \in {n \in DOMAIN chain' : chain'[n].key = r.key}
    BY <1>2, <1>3, <2>2, <2>5, <2>6
  <2>8. chain'[r.at + 1].version = NextVersion(r, chain'[r.at].version)
    BY <1>n, <1>3, <2>2, <2>5, <2>6
  <2> QED BY <1>1, <1>3, <2>5, <2>7, <2>8, ReplyStep
<1>4. ASSUME UNCHANGED chain, NEW pc, Reply(c, pc), pc \in {"answered", "refused"},
             pc = "answered" =>
                r.at + 1 \in PositionsOf(r.key) /\ chain[r.at + 1].version = v
      PROVE  ChainInv'
  <2>1. HistoryInv' /\ ChainKept
    BY <1>1, <1>4, SameChain
  <2>2. pc = "answered" => /\ r.at + 1 \in {n \in DOMAIN chain' : chain'[n].key = r.key}
                           /\ chain'[r.at + 1].version = NextVersion(r, chain'[r.at].version)
    BY <1>n, <1>4 DEF PositionsOf
  <2> QED BY <1>1, <1>4, <2>1, <2>2, ReplyStep
<1> DEFINE fits == r.at = Len(chain) /\ PositionsOf(r.key) = {} /\ RowOK(v)
<1>5. /\ chain' = IF fits THEN Append(chain, [key |-> r.key, version |-> v]) ELSE chain
      /\ Reply(c, IF \/ fits
                     \/ r.at + 1 \in PositionsOf(r.key) /\ chain[r.at + 1].version = v
                  THEN "answered" ELSE "refused")
  BY <1>n DEF AppendVersion
<1>6. CASE fits
  BY <1>3, <1>5, <1>6
<1>7. CASE ~fits
  <2>1. CASE r.at + 1 \in PositionsOf(r.key) /\ chain[r.at + 1].version = v
    BY <1>4, <1>5, <1>7, <2>1
  <2>2. CASE ~(r.at + 1 \in PositionsOf(r.key) /\ chain[r.at + 1].version = v)
    BY <1>4, <1>5, <1>7, <2>2
  <2> QED BY <2>1, <2>2
<1> QED BY <1>6, <1>7

(* A restored verification is pending anew, with its receipt.              *)
LEMMA RestoreStep ==
    ASSUME ChainInv, RestoreEnvironment
    PROVE  ChainInv'
<1> USE DEF VersionRow, VersionFields, None
<1>1. PICK bundle \in Hashes :
        /\ restored' = restored \cup {[failed |-> Len(chain), bundle |-> bundle]}
        /\ chain' = Append(chain,
              [key |-> <<"restore", Len(chain)>>,
               version |-> [Last.version EXCEPT
                  !.status = "pending", !.reason = "dependency_environment_restored",
                  !.inputs = <<@[1], bundle>>, !.spec = None, !.result = None]])
  BY DEF RestoreEnvironment
<1>2. /\ Last.version.stage = "verify" /\ Last.version.status = "failed"
      /\ Len(Last.version.inputs) = 2 /\ UNCHANGED call /\ HistoryInv
  BY DEF RestoreEnvironment, ChainInv
<1>p. PICK p : p = Last.version
  OBVIOUS
<1>v. PICK v : v = [p EXCEPT !.status = "pending", !.reason = "dependency_environment_restored",
                             !.inputs = <<@[1], bundle>>, !.spec = None, !.result = None]
  OBVIOUS
<1>e. PICK e : e = [key |-> <<"restore", Len(chain)>>, version |-> v]
  OBVIOUS
<1>3. e.version = v /\ chain' = Append(chain, e)
  BY <1>1, <1>p, <1>v, <1>e
<1>4. GoodVersion(p)
  BY <1>2, <1>p, HistoryIs DEF HistoryInv, Last
<1>5. /\ v = [f \in VersionFields |-> v[f]]
      /\ v.stage = p.stage /\ v.status = "pending" /\ v.reason = Restoring
      /\ v.spec = None /\ v.result = None
      /\ v.inputs = <<p.inputs[1], bundle>>
      /\ v.workspace = p.workspace /\ v.inventory = p.inventory
  BY <1>v, <1>4 DEF GoodVersion, Restoring
<1>6. Len(v.inputs) = 2 /\ v.inputs[1] = p.inputs[1] /\ v.inputs[2] = bundle
  BY <1>5
<1>7. GoodVersion(v)
  BY <1>2, <1>p, <1>4, <1>5, <1>6 DEF GoodVersion, ShapeOK, Uninventoried
<1>8. RestoreEdge(p, v)
  BY <1>2, <1>p, <1>5, <1>6 DEF RestoreEdge, SameWorkspace, Restoring
<1>9. GoodEdge(p, v)
  BY <1>2, <1>p, <1>5, <1>8 DEF GoodEdge, EdgeOK, ReasonFits
<1>10. [failed |-> Len(chain), bundle |-> e.version.inputs[2]] \in restored'
  BY <1>1, <1>3, <1>6
<1>11. restored \subseteq restored'
  BY <1>1
<1>12. HistoryInv' /\ ChainKept
  BY <1>2, <1>3, <1>p, <1>7, <1>9, <1>10, <1>11, ChainGrows
<1>13. \A c \in Callers : CallInv(c)' /\ Stands(c)'
  BY <1>2, <1>12, CallKept DEF ChainInv
<1> QED BY <1>2, <1>12, <1>13 DEF ChainInv

LEMMA ChainStep == ChainInv /\ [ChainNext]_chainVars => ChainInv'
<1> SUFFICES ASSUME ChainInv, [ChainNext]_chainVars
             PROVE  ChainInv'
  OBVIOUS
<1>1. ASSUME NEW c \in Callers, Finished(c) \/ Repeat(c)
      PROVE  ChainInv'
  <2>1. /\ UNCHANGED <<chain, restored>> /\ HistoryInv /\ call[c].pc # "idle"
        /\ \/ Reply(c, "refused")
           \/ Reply(c, "asked")
    BY <1>1 DEF Finished, Repeat, ChainInv
  <2>2. HistoryInv' /\ ChainKept
    BY <2>1, SameChain
  <2> QED BY <2>1, <2>2, ReplyStep
<1>2. CASE UNCHANGED chainVars
  <2>1. UNCHANGED <<chain, restored, call>> /\ HistoryInv
    BY <1>2 DEF chainVars, ChainInv
  <2>2. HistoryInv' /\ ChainKept
    BY <2>1, SameChain
  <2> QED BY <2>1, <2>2, CallKept DEF ChainInv
<1>3. CASE ChainNext
  BY <1>1, <1>3, AsksStep, LookStep, AppendStep, RestoreStep DEF ChainNext
<1> QED BY <1>2, <1>3

LEMMA ChainIsSound == ChainSpec => []ChainInv
<1>1. ChainInit => ChainInv
  BY ChainInitial
<1>2. ChainInv /\ [ChainNext]_chainVars => ChainInv'
  BY ChainStep
<1> QED BY <1>1, <1>2, PTL DEF ChainSpec

(* Whatever the callers ask, in whatever order they are overtaken and      *)
(* repeated, the versions _append wrote are accepted by _verified_history: *)
(* for any number of callers, keys, versions and repetitions.              *)
THEOREM AttemptStaysReadable == ChainSpec => []ReaderAccepts
<1>1. ChainInv => ReaderAccepts
  BY HistoryIs DEF ChainInv, ReaderAccepts
<1> QED BY <1>1, ChainIsSound, PTL

(* A call that is told it succeeded finds in the chain what it asked for,  *)
(* also when it is a repetition that only compared a few fields            *)
(* (_replay).                                                              *)
THEOREM AnswersAreTrue == ChainSpec => []AnswersStand
<1>1. ChainInv => AnswersStand
  BY DEF ChainInv, Stands, AnswersStand
<1> QED BY <1>1, ChainIsSound, PTL

(* Both, for every value of the constants: what a call wrote into the      *)
(* chain can be read, and is what it asked for.                            *)
THEOREM ChainKeepsHolding == ChainSpec => []ChainHolds
<1>1. ReaderAccepts /\ AnswersStand => ChainHolds
  BY DEF ChainHolds
<1> QED BY <1>1, AttemptStaysReadable, AnswersAreTrue, PTL
-----------------------------------------------------------------------------
(* EvidenceChain: what a record rests on stays as it was, because states   *)
(* and records are only appended and a request that saw an older state is  *)
(* refused; and, until a task is erased, the audit chain has one event for *)
(* every record.                                                           *)

Alive(t) == shown[t] \in {"active", "archived", "deleted"}
Phases == {"planning", "plan_approved", "executing", "reviewing", "ready", "draft_pr",
           "changes_requested", "merged"}
PhaseAt(t, k, what) == k \in 1..Len(states[t]) /\ states[t][k] = what

(* A draft and the good review of the latest attempt.                      *)
FollowsReview(t, at, review) ==
    /\ records[t][review].good /\ at = records[t][review].at + 2
    /\ \A m \in Of(t, "attempt") : records[t][m].at < at => m <= records[t][review].of

(* The states a record is about.                                           *)
RecordInv(t, n) ==
    LET r == records[t][n]
    IN  /\ r.kind \in {"lock", "approval", "attempt", "review", "intent", "draft", "event"}
        /\ r.at \in 1..Len(states[t])
        /\ r.kind = "approval" =>
              /\ r.of \in Of(t, "lock") /\ r.at = records[t][r.of].at + 1
              /\ PhaseAt(t, r.at - 1, "planning") /\ PhaseAt(t, r.at, "plan_approved")
        /\ r.kind = "attempt" =>
              /\ r.of \in Of(t, "approval") /\ PhaseAt(t, r.at, "executing")
              /\ \/ r.at = records[t][r.of].at + 1
                 \/ r.number \in Nat /\ r.number >= 2 /\ PhaseAt(t, r.at - 1, "reviewing")
        /\ r.kind = "review" =>
              /\ r.of \in Of(t, "attempt") /\ records[t][r.of].at < r.at
              /\ PhaseAt(t, r.at - 1, "executing") /\ PhaseAt(t, r.at, "reviewing")
              /\ r.good => PhaseAt(t, r.at + 1, "ready")
              /\ \A m \in Resting(t, "review", r.of) : m = n
        /\ r.kind = "intent" => r.of \in Of(t, "review")
        /\ r.kind = "draft" =>
              r.of \in Of(t, "intent") /\ FollowsReview(t, r.at, records[t][r.of].of)

(* Who has written the states, and the order of attempts.                  *)
TaskInv(t) ==
    /\ Alive(t) => Len(states[t]) > 0
    /\ ~Alive(t) => Len(states[t]) = 0 /\ Len(records[t]) = 0
    /\ \A n \in 1..Len(records[t]) : RecordInv(t, n)
    /\ \A k \in 1..Len(states[t]) :
          /\ states[t][k] = "executing" => \E m \in Of(t, "attempt") : records[t][m].at = k
          /\ states[t][k] = "ready" =>
                \E m \in Of(t, "review") : records[t][m].good /\ records[t][m].at = k - 1
    /\ \A m, n \in Of(t, "attempt") : m < n => records[t][m].at < records[t][n].at
    /\ Of(t, "attempt") # {} => \E m \in Of(t, "attempt") : \A n \in Of(t, "attempt") : n <= m

(* What a request has read, and what it will append if it is in time.      *)
AskFields == {"kind", "task", "of", "path", "seen", "number", "good", "tail"}
RequestInv(c) ==
    LET a  == asked[c]
        t  == a.task
        on == records[t][a.of]
    IN  /\ a = [f \in AskFields |-> a[f]] /\ t \in Tasks
        /\ shown[t] # "erased" =>
              /\ a.of \in 1..Len(records[t]) /\ a.seen \in 1..Len(states[t])
              /\ \/ /\ a.kind = "approval" /\ a.path = <<"plan_approved">> /\ on.kind = "lock"
                    /\ on.at = a.seen /\ states[t][a.seen] = "planning"
                 \/ /\ a.kind = "attempt" /\ a.path = <<"executing">> /\ on.kind = "approval"
                    /\ \/ on.at = a.seen
                       \/ a.number \in Nat /\ a.number >= 2 /\ states[t][a.seen] = "reviewing"
                 \/ /\ a.kind = "review" /\ on.kind = "attempt" /\ on.at <= a.seen
                    /\ a.path = IF a.good THEN <<"reviewing", "ready">> ELSE <<"reviewing">>
                    /\ a.good \in BOOLEAN
                    /\ states[t][a.seen] = "executing"
                 \/ a.kind = "intent" /\ a.path = <<>> /\ on.kind = "review"
                 \/ /\ a.kind = "draft" /\ a.path = <<"draft_pr">> /\ on.kind = "intent"
                    /\ FollowsReview(t, a.seen + 1, on.of)
                 \/ a.kind = "event" /\ a.path \in {<<>>, <<"changes_requested">>, <<"merged">>}

TasksInv ==
    /\ \E S : records \in [Tasks -> Seq(S)]
    /\ states \in [Tasks -> Seq(Phases)]
    /\ DOMAIN shown = Tasks /\ DOMAIN asked = Requesters
    /\ \A t \in Tasks : TaskInv(t)
    /\ \A c \in Requesters : asked[c].kind # "none" => RequestInv(c)

LEMMA TasksAre ==
    ASSUME TasksInv, NEW t \in Tasks
    PROVE  /\ Len(records[t]) \in Nat /\ DOMAIN records[t] = 1..Len(records[t])
           /\ Len(states[t]) \in Nat /\ DOMAIN states[t] = 1..Len(states[t])
           /\ \A n, what :
                 n \in Of(t, what) <=> n \in 1..Len(records[t]) /\ records[t][n].kind = what
<1>1. PICK S : records \in [Tasks -> Seq(S)]
  BY DEF TasksInv
<1>2. records[t] \in Seq(S) /\ states[t] \in Seq(Phases)
  BY <1>1 DEF TasksInv
<1> QED BY <1>2 DEF Of

(* The records and the states of a task grow, and nothing else does.       *)
Longer(t) ==
    /\ Len(records'[t]) \in {Len(records[t]), Len(records[t]) + 1}
    /\ \A n \in 1..Len(records[t]) : records'[t][n] = records[t][n]
    /\ Len(states[t]) <= Len(states'[t])
    /\ \A k \in 1..Len(states[t]) : states'[t][k] = states[t][k]

Grows(t) ==
    /\ \E S : records' \in [Tasks -> Seq(S)]
    /\ states' \in [Tasks -> Seq(Phases)]
    /\ \A u \in Tasks \ {t} : records'[u] = records[u] /\ states'[u] = states[u]
    /\ Longer(t)

(* What is new comes after what there is.                                  *)
NewIsLate(t) ==
    \A m \in Len(records[t]) + 1..Len(records'[t]) :
        /\ records'[t][m].at \in Nat
        /\ records'[t][m].kind = "attempt" => records'[t][m].at > Len(states[t])
        /\ records'[t][m].kind = "review" => Resting(t, "review", records'[t][m].of) = {}

LEMMA GrownTasks ==
    ASSUME TasksInv, NEW t \in Tasks, Grows(t)
    PROVE  /\ Len(records'[t]) \in Nat /\ DOMAIN records'[t] = 1..Len(records'[t])
           /\ Len(states'[t]) \in Nat /\ DOMAIN states'[t] = 1..Len(states'[t])
           /\ 1..Len(records[t]) \subseteq 1..Len(records'[t])
           /\ 1..Len(states[t]) \subseteq 1..Len(states'[t])
           /\ \A n, what :
                 n \in Of(t, what)' <=> n \in 1..Len(records'[t]) /\ records'[t][n].kind = what
           /\ \A n \in 1..Len(records[t]) : \A what : n \in Of(t, what)' <=> n \in Of(t, what)
           /\ \A k, what : PhaseAt(t, k, what) => PhaseAt(t, k, what)'
<1>0. Longer(t)
  BY DEF Grows
<1>1. PICK S : records' \in [Tasks -> Seq(S)]
  BY DEF Grows
<1>2. records'[t] \in Seq(S) /\ states'[t] \in Seq(Phases)
  BY <1>1 DEF Grows
<1>3. /\ Len(records'[t]) \in Nat /\ DOMAIN records'[t] = 1..Len(records'[t])
      /\ Len(states'[t]) \in Nat /\ DOMAIN states'[t] = 1..Len(states'[t])
  BY <1>2
<1>4. /\ 1..Len(records[t]) \subseteq 1..Len(records'[t])
      /\ 1..Len(states[t]) \subseteq 1..Len(states'[t])
  <2>1. Len(records[t]) \in Nat /\ Len(states[t]) \in Nat
    BY TasksAre
  <2>2. Len(records[t]) <= Len(records'[t]) /\ Len(states[t]) <= Len(states'[t])
    BY <1>0, <1>3, <2>1 DEF Longer
  <2> QED BY <1>3, <2>1, <2>2
<1>5. \A n, what : n \in Of(t, what)' <=> n \in 1..Len(records'[t]) /\ records'[t][n].kind = what
  BY <1>3 DEF Of
<1>6. \A n \in 1..Len(records[t]) : \A what : n \in Of(t, what)' <=> n \in Of(t, what)
  <2>1. \A n \in 1..Len(records[t]) : records'[t][n] = records[t][n]
    BY <1>0 DEF Longer
  <2>2. \A n, what : n \in Of(t, what) <=> n \in 1..Len(records[t]) /\ records[t][n].kind = what
    BY TasksAre
  <2>3. \A n \in 1..Len(records[t]) : n \in 1..Len(records'[t])
    BY <1>4
  <2> QED BY <1>5, <2>1, <2>2, <2>3
<1>7. \A k, what : PhaseAt(t, k, what) => PhaseAt(t, k, what)'
  BY <1>0, <1>4 DEF PhaseAt, Longer
<1> QED BY <1>3, <1>4, <1>5, <1>6, <1>7

(* A record stays what it was.                                             *)
LEMMA RecordStays ==
    ASSUME TasksInv, NEW t \in Tasks, Grows(t), NewIsLate(t),
           NEW n \in 1..Len(records[t])
    PROVE  RecordInv(t, n)'
<1> DEFINE N == Len(records[t])
<1>0. PICK r : r = records[t][n]
  OBVIOUS
<1>1. RecordInv(t, n)
  BY DEF TasksInv, TaskInv
<1>2. /\ N \in Nat /\ Len(states[t]) \in Nat
      /\ \A k, what : k \in Of(t, what) <=> k \in 1..N /\ records[t][k].kind = what
      /\ r = records[t][n]
  BY <1>0, TasksAre
<1>3. /\ 1..N \subseteq 1..Len(records'[t]) /\ 1..Len(states[t]) \subseteq 1..Len(states'[t])
      /\ \A k \in 1..N : records'[t][k] = records[t][k]
      /\ \A k \in 1..N : \A what : k \in Of(t, what)' <=> k \in Of(t, what)
      /\ \A k, what : k \in Of(t, what)' <=> k \in 1..Len(records'[t]) /\ records'[t][k].kind = what
      /\ \A k, what : PhaseAt(t, k, what) => PhaseAt(t, k, what)'
      /\ \A m \in 1..Len(records'[t]) : m \in 1..N \/ m \in N + 1..Len(records'[t])
  <2>1. \A k \in 1..N : records'[t][k] = records[t][k]
    BY DEF Grows, Longer
  <2>2. \A m \in 1..Len(records'[t]) : m \in 1..N \/ m \in N + 1..Len(records'[t])
    BY <1>2, GrownTasks
  <2>3. /\ 1..N \subseteq 1..Len(records'[t]) /\ 1..Len(states[t]) \subseteq 1..Len(states'[t])
        /\ \A k \in 1..N : \A what : k \in Of(t, what)' <=> k \in Of(t, what)
    BY GrownTasks
  <2>4. \A k, what :
           k \in Of(t, what)' <=> k \in 1..Len(records'[t]) /\ records'[t][k].kind = what
    BY GrownTasks
  <2>5. \A k, what : PhaseAt(t, k, what) => PhaseAt(t, k, what)'
    BY GrownTasks
  <2> QED BY <2>1, <2>2, <2>3, <2>4, <2>5
<1>4. records'[t][n] = r
  BY <1>2, <1>3
<1>5. r.kind = "approval" =>
          /\ r.of \in Of(t, "lock")' /\ r.at = records'[t][r.of].at + 1
          /\ PhaseAt(t, r.at - 1, "planning")' /\ PhaseAt(t, r.at, "plan_approved")'
  BY <1>1, <1>2, <1>3 DEF RecordInv
<1>6. r.kind = "attempt" =>
          /\ r.of \in Of(t, "approval")' /\ PhaseAt(t, r.at, "executing")'
          /\ \/ r.at = records'[t][r.of].at + 1
             \/ r.number \in Nat /\ r.number >= 2 /\ PhaseAt(t, r.at - 1, "reviewing")'
  BY <1>1, <1>2, <1>3 DEF RecordInv
<1>7. ASSUME r.kind = "review"
      PROVE  /\ r.of \in Of(t, "attempt")' /\ records'[t][r.of].at < r.at
             /\ PhaseAt(t, r.at - 1, "executing")' /\ PhaseAt(t, r.at, "reviewing")'
             /\ r.good => PhaseAt(t, r.at + 1, "ready")'
             /\ \A m \in Of(t, "review")' : records'[t][m].of = r.of => m = n
  <2>1. /\ r.of \in Of(t, "attempt")' /\ records'[t][r.of].at < r.at
        /\ PhaseAt(t, r.at - 1, "executing")' /\ PhaseAt(t, r.at, "reviewing")'
        /\ r.good => PhaseAt(t, r.at + 1, "ready")'
    BY <1>1, <1>2, <1>3, <1>7 DEF RecordInv
  <2>2. ASSUME NEW m \in Of(t, "review")', records'[t][m].of = r.of
        PROVE  m = n
    <3>0. m \in 1..Len(records'[t]) /\ records'[t][m].kind = "review"
      BY <1>3
    <3>1. CASE m \in 1..N
      <4>1. m \in Resting(t, "review", r.of)
        BY <1>2, <1>3, <2>2, <3>0, <3>1 DEF Resting
      <4> QED BY <1>1, <1>2, <1>7, <4>1 DEF RecordInv
    <3>2. CASE m \in N + 1..Len(records'[t])
      <4>1. Resting(t, "review", r.of) = {}
        BY <2>2, <3>0, <3>2 DEF NewIsLate
      <4>2. n \in Resting(t, "review", r.of)
        BY <1>2, <1>7 DEF Resting
      <4> QED BY <4>1, <4>2
    <3> QED BY <1>3, <3>0, <3>1, <3>2
  <2> QED BY <2>1, <2>2
<1>8. r.kind = "intent" => r.of \in Of(t, "review")'
  BY <1>1, <1>2, <1>3 DEF RecordInv
<1>9. ASSUME r.kind = "draft"
      PROVE  /\ r.of \in Of(t, "intent")'
             /\ LET review == records'[t][r.of].of
                IN  /\ records'[t][review].good /\ r.at = records'[t][review].at + 2
                    /\ \A m \in Of(t, "attempt")' :
                          records'[t][m].at < r.at => m <= records'[t][review].of
  <2>1. /\ r.of \in Of(t, "intent") /\ r.at \in 1..Len(states[t])
        /\ FollowsReview(t, r.at, records[t][r.of].of)
    BY <1>1, <1>2, <1>9 DEF RecordInv
  <2>2. r.of \in 1..N /\ records'[t][r.of] = records[t][r.of] /\ RecordInv(t, r.of)
    BY <1>2, <1>3, <2>1 DEF TasksInv, TaskInv
  <2> DEFINE review == records[t][r.of].of
  <2>3. review \in 1..N
    BY <1>2, <2>1, <2>2 DEF RecordInv
  <2>4. ASSUME NEW m \in Of(t, "attempt")', records'[t][m].at < r.at
        PROVE  m <= records[t][review].of
    <3>0. m \in 1..Len(records'[t]) /\ records'[t][m].kind = "attempt"
      BY <1>3
    <3>1. CASE m \in 1..N
      BY <1>2, <1>3, <2>1, <2>4, <3>0, <3>1 DEF FollowsReview
    <3>2. CASE m \in N + 1..Len(records'[t])
      <4>1. records'[t][m].at > Len(states[t]) /\ records'[t][m].at \in Nat
        BY <3>0, <3>2 DEF NewIsLate
      <4> QED BY <1>2, <2>1, <2>4, <4>1
    <3> QED BY <1>3, <3>0, <3>1, <3>2
  <2> QED BY <1>3, <2>1, <2>2, <2>3, <2>4 DEF FollowsReview
<1>10. /\ r.kind \in {"lock", "approval", "attempt", "review", "intent", "draft", "event"}
       /\ r.at \in 1..Len(states'[t])
  BY <1>1, <1>2, <1>3 DEF RecordInv
<1> QED BY <1>4, <1>5, <1>6, <1>7, <1>8, <1>9, <1>10
    DEF RecordInv, FollowsReview, Resting, PhaseAt
NewRecordsFit(t) == \A m \in Len(records[t]) + 1..Len(records'[t]) : RecordInv(t, m)'

(* Whoever moves a task to executing or ready leaves the record of it.     *)
StateFits(t, k) ==
    /\ states[t][k] = "executing" => \E m \in Of(t, "attempt") : records[t][m].at = k
    /\ states[t][k] = "ready" =>
          \E m \in Of(t, "review") : records[t][m].good /\ records[t][m].at = k - 1

NewStatesFit(t) == \A k \in Len(states[t]) + 1..Len(states'[t]) : StateFits(t, k)'

LEMMA TaskGrown ==
    ASSUME TasksInv, NEW t \in Tasks, Alive(t), UNCHANGED shown,
           Grows(t), NewIsLate(t), NewRecordsFit(t), NewStatesFit(t)
    PROVE  TaskInv(t)'
<1> DEFINE N == Len(records[t])
           L == Len(states[t])
<1>1. /\ N \in Nat /\ L \in Nat /\ L > 0 /\ TaskInv(t)
      /\ \A k, what : k \in Of(t, what) <=> k \in 1..N /\ records[t][k].kind = what
  BY TasksAre DEF TasksInv, TaskInv
<1>2. /\ Len(records'[t]) \in {N, N + 1} /\ L <= Len(states'[t]) /\ Len(states'[t]) \in Nat
      /\ \A k \in 1..N : records'[t][k] = records[t][k]
      /\ \A k \in 1..L : states'[t][k] = states[t][k]
  BY GrownTasks DEF Grows, Longer
<1>3. /\ \A k \in 1..N : \A what : k \in Of(t, what)' <=> k \in Of(t, what)
      /\ \A k, what : k \in Of(t, what)' <=> k \in 1..Len(records'[t]) /\ records'[t][k].kind = what
  BY GrownTasks
<1>4. /\ \A m \in 1..Len(records'[t]) : m \in 1..N \/ (m = N + 1 /\ m \in N + 1..Len(records'[t]))
      /\ \A k \in 1..Len(states'[t]) : k \in 1..L \/ k \in L + 1..Len(states'[t])
  BY <1>1, <1>2
<1>5. Alive(t)' /\ Len(states'[t]) > 0
  BY <1>1, <1>2 DEF Alive
<1>6. \A m \in 1..Len(records'[t]) : RecordInv(t, m)'
  BY <1>4, RecordStays DEF NewRecordsFit
<1>7. ASSUME NEW k \in 1..Len(states'[t])
      PROVE  StateFits(t, k)'
  <2>1. CASE k \in 1..L
    <3>1. states[t][k] = "executing" => \E m \in Of(t, "attempt") : records[t][m].at = k
      BY <1>1, <2>1 DEF TaskInv
    <3>2. states[t][k] = "ready" =>
              \E m \in Of(t, "review") : records[t][m].good /\ records[t][m].at = k - 1
      BY <1>1, <2>1 DEF TaskInv
    <3>3. \A m, what : m \in Of(t, what) => m \in Of(t, what)' /\ records'[t][m] = records[t][m]
      BY <1>1, <1>2, <1>3
    <3> QED BY <1>2, <2>1, <3>1, <3>2, <3>3 DEF StateFits
  <2>2. CASE k \in L + 1..Len(states'[t])
    BY <2>2 DEF NewStatesFit
  <2> QED BY <1>4, <2>1, <2>2
<1>8. ASSUME NEW m \in Of(t, "attempt")', NEW n \in Of(t, "attempt")', m < n
      PROVE  records'[t][m].at < records'[t][n].at
  <2>1. /\ m \in 1..Len(records'[t]) /\ n \in 1..Len(records'[t])
        /\ records'[t][m].kind = "attempt" /\ records'[t][n].kind = "attempt"
    BY <1>3
  <2>2. CASE n \in 1..N
    <3>1. m \in 1..N
      BY <1>1, <1>4, <1>8, <2>1, <2>2
    <3>2. m \in Of(t, "attempt") /\ n \in Of(t, "attempt")
      BY <1>3, <2>2, <3>1
    <3> QED BY <1>1, <1>2, <1>8, <2>2, <3>1, <3>2 DEF TaskInv
  <2>3. CASE n = N + 1 /\ n \in N + 1..Len(records'[t])
    <3>1. m \in 1..N
      BY <1>1, <1>4, <1>8, <2>1, <2>3
    <3>2. records[t][m].at \in 1..L
      BY <1>1, <3>1 DEF TaskInv, RecordInv
    <3>3. records'[t][n].at \in Nat /\ records'[t][n].at > L
      BY <2>1, <2>3 DEF NewIsLate
    <3> QED BY SMTT(60), <1>1, <1>2, <3>1, <3>2, <3>3
  <2> QED BY <1>4, <2>1, <2>2, <2>3
<1>9. ASSUME Of(t, "attempt")' # {}
      PROVE  \E m \in Of(t, "attempt")' : \A n \in Of(t, "attempt")' : n <= m
  <2>1. CASE N + 1 \in Of(t, "attempt")'
    <3>1. \A n \in Of(t, "attempt")' : n <= N + 1
      BY <1>1, <1>3, <1>4
    <3> QED BY <2>1, <3>1
  <2>2. CASE N + 1 \notin Of(t, "attempt")'
    <3>1. \A n : n \in Of(t, "attempt")' <=> n \in Of(t, "attempt")
      BY <1>1, <1>3, <1>4, <2>2
    <3>2. Of(t, "attempt") # {}
      BY <1>9, <3>1
    <3>3. PICK m \in Of(t, "attempt") : \A n \in Of(t, "attempt") : n <= m
      BY <1>1, <3>2 DEF TaskInv
    <3> QED BY <3>1, <3>3
  <2> QED BY <2>1, <2>2
<1> QED BY <1>5, <1>6, <1>7, <1>8, <1>9 DEF TaskInv, StateFits

(* What a request has read is still there.                                 *)
LEMMA RequestKept ==
    ASSUME TasksInv, NEW t \in Tasks, UNCHANGED shown, Grows(t), NewIsLate(t),
           NEW c \in Requesters, asked[c].kind # "none", asked'[c] = asked[c]
    PROVE  RequestInv(c)'
<1>0. PICK a : a = asked[c]
  OBVIOUS
<1>1. RequestInv(c) /\ asked'[c] = a
  BY <1>0 DEF TasksInv
<1>2. /\ a = [f \in AskFields |-> a[f]] /\ a.task \in Tasks
  BY <1>0, <1>1 DEF RequestInv
<1>3. CASE shown[a.task] = "erased"
  BY <1>1, <1>2, <1>3 DEF RequestInv
<1>4. CASE shown[a.task] # "erased" /\ a.task # t
  <2>1. records'[a.task] = records[a.task] /\ states'[a.task] = states[a.task]
    BY <1>2, <1>4 DEF Grows
  <2> QED BY <1>0, <1>1, <1>4, <2>1 DEF RequestInv, FollowsReview, Of
<1>5. CASE shown[a.task] # "erased" /\ a.task = t
  <2> DEFINE N == Len(records[t])
             L == Len(states[t])
  <2>1. /\ N \in Nat /\ L \in Nat
        /\ \A k, what : k \in Of(t, what) <=> k \in 1..N /\ records[t][k].kind = what
    BY TasksAre
  <2>2. /\ 1..N \subseteq 1..Len(records'[t]) /\ 1..L \subseteq 1..Len(states'[t])
        /\ \A k \in 1..N : records'[t][k] = records[t][k]
        /\ \A k \in 1..L : states'[t][k] = states[t][k]
    BY GrownTasks DEF Grows, Longer
  <2>3. PICK on : on = records[t][a.of]
    OBVIOUS
  <2>4. /\ a.of \in 1..N /\ a.seen \in 1..L /\ records'[t][a.of] = on
        /\ states'[t][a.seen] = states[t][a.seen]
    BY <1>0, <1>1, <1>5, <2>2, <2>3 DEF RequestInv
  <2>5. ASSUME on.kind = "intent", FollowsReview(t, a.seen + 1, on.of)
        PROVE  FollowsReview(t, a.seen + 1, on.of)'
    <3>1. on.of \in 1..N
      BY <2>1, <2>3, <2>4, <2>5 DEF TasksInv, TaskInv, RecordInv
    <3>2. ASSUME NEW m \in Of(t, "attempt")', records'[t][m].at < a.seen + 1
          PROVE  m <= records[t][on.of].of
      <4>1. m \in 1..Len(records'[t]) /\ records'[t][m].kind = "attempt"
        BY GrownTasks
      <4>2. CASE m \in 1..N
        BY <2>1, <2>2, <2>5, <3>2, <4>1, <4>2 DEF FollowsReview
      <4>3. CASE m \in N + 1..Len(records'[t])
        <5>1. records'[t][m].at > L /\ records'[t][m].at \in Nat
          BY <4>1, <4>3 DEF NewIsLate
        <5> QED BY <2>1, <2>4, <3>2, <5>1
      <4> QED BY <2>1, <4>1, <4>2, <4>3, GrownTasks
    <3> QED BY <2>2, <2>5, <3>1, <3>2 DEF FollowsReview
  <2>6. \/ /\ a.kind = "approval" /\ a.path = <<"plan_approved">> /\ on.kind = "lock"
           /\ on.at = a.seen /\ states[t][a.seen] = "planning"
        \/ /\ a.kind = "attempt" /\ a.path = <<"executing">> /\ on.kind = "approval"
           /\ \/ on.at = a.seen
              \/ a.number \in Nat /\ a.number >= 2 /\ states[t][a.seen] = "reviewing"
        \/ /\ a.kind = "review" /\ on.kind = "attempt" /\ on.at <= a.seen
           /\ a.path = IF a.good THEN <<"reviewing", "ready">> ELSE <<"reviewing">>
           /\ a.good \in BOOLEAN
           /\ states[t][a.seen] = "executing"
        \/ a.kind = "intent" /\ a.path = <<>> /\ on.kind = "review"
        \/ /\ a.kind = "draft" /\ a.path = <<"draft_pr">> /\ on.kind = "intent"
           /\ FollowsReview(t, a.seen + 1, on.of)
        \/ a.kind = "event" /\ a.path \in {<<>>, <<"changes_requested">>, <<"merged">>}
    BY ZenonT(60), <1>0, <1>1, <1>5, <2>3 DEF RequestInv
  <2>7. a.of \in 1..Len(records'[t]) /\ a.seen \in 1..Len(states'[t])
    BY <2>2, <2>4
  <2> HIDE DEF N, L
  <2> QED BY <1>1, <1>2, <1>5, <2>4, <2>5, <2>6, <2>7 DEF RequestInv, FollowsReview
<1> QED BY <1>3, <1>4, <1>5

(* What is said of a task is said of its records and its states.           *)
LEMMA TaskKept ==
    ASSUME NEW t \in Tasks, TaskInv(t), records'[t] = records[t], states'[t] = states[t],
           shown'[t] \in {"active", "archived", "deleted"} <=> Alive(t)
    PROVE  TaskInv(t)'
<1>1. \A what : Of(t, what)' = Of(t, what)
  BY DEF Of
<1>2. \A of : Resting(t, "review", of)' = Resting(t, "review", of)
  BY <1>1 DEF Resting
<1>3. \A k, what : PhaseAt(t, k, what)' <=> PhaseAt(t, k, what)
  BY DEF PhaseAt
<1>4. \A at, review : FollowsReview(t, at, review)' <=> FollowsReview(t, at, review)
  BY <1>1 DEF FollowsReview
<1>5. \A n : RecordInv(t, n)' <=> RecordInv(t, n)
  BY <1>1, <1>2, <1>3, <1>4 DEF RecordInv
<1> QED BY <1>1, <1>5 DEF TaskInv, Alive

LEMMA TasksGrown ==
    ASSUME TasksInv, NEW t \in Tasks, Alive(t), UNCHANGED shown,
           Grows(t), NewIsLate(t), NewRecordsFit(t), NewStatesFit(t),
           DOMAIN asked' = Requesters,
           \A c \in Requesters : asked'[c] = asked[c] \/ asked'[c].kind = "none"
    PROVE  TasksInv'
<1>1. TaskInv(t)'
  BY TaskGrown
<1>2. ASSUME NEW u \in Tasks \ {t}
      PROVE  TaskInv(u)'
  <2>1. records'[u] = records[u] /\ states'[u] = states[u] /\ TaskInv(u)
    BY DEF Grows, TasksInv
  <2>2. shown'[u] \in {"active", "archived", "deleted"} <=> Alive(u)
    BY DEF Alive
  <2> QED BY <2>1, <2>2, TaskKept
<1>3. ASSUME NEW c \in Requesters, asked'[c].kind # "none"
      PROVE  RequestInv(c)'
  <2>1. asked'[c] = asked[c] /\ asked[c].kind # "none"
    BY <1>3
  <2> QED BY <2>1, RequestKept
<1>4. /\ \E S : records' \in [Tasks -> Seq(S)]
      /\ states' \in [Tasks -> Seq(Phases)]
      /\ DOMAIN shown' = Tasks
  BY DEF Grows, TasksInv
<1> QED BY <1>1, <1>2, <1>3, <1>4 DEF TasksInv

(* The states and the records stay, a visibility or a request changes.     *)
SameTasks ==
    /\ UNCHANGED <<states, records>>
    /\ DOMAIN shown' = Tasks
    /\ \A t \in Tasks : /\ shown'[t] = "erased" <=> shown[t] = "erased"
                        /\ shown'[t] \in {"active", "archived", "deleted"} <=> Alive(t)

LEMMA RequestSame ==
    ASSUME TasksInv, SameTasks, NEW c \in Requesters, asked[c].kind # "none",
           asked'[c] = asked[c] \/ asked'[c] = [asked[c] EXCEPT !.tail = {TailEvent}]
    PROVE  RequestInv(c)'
<1>0. PICK a : a = asked[c]
  OBVIOUS
<1>1. RequestInv(c) /\ a = [f \in AskFields |-> a[f]] /\ a.task \in Tasks
  BY <1>0 DEF TasksInv, RequestInv
<1>2. PICK b : b = asked'[c]
  OBVIOUS
<1>3. /\ b = [f \in AskFields |-> b[f]]
      /\ b.kind = a.kind /\ b.task = a.task /\ b.of = a.of /\ b.path = a.path
      /\ b.seen = a.seen /\ b.number = a.number /\ b.good = a.good
  BY <1>0, <1>1, <1>2 DEF AskFields
<1>4. shown'[a.task] = "erased" <=> shown[a.task] = "erased"
  BY <1>1 DEF SameTasks
<1>5. \A at, review : FollowsReview(a.task, at, review) => FollowsReview(a.task, at, review)'
  BY DEF SameTasks, FollowsReview, Of
<1>6. CASE shown[a.task] = "erased"
  BY <1>0, <1>1, <1>2, <1>3, <1>4, <1>6 DEF RequestInv
<1>7. CASE shown[a.task] # "erased"
  <2>1. records' = records /\ states' = states
    BY DEF SameTasks
  <2>2. PICK on : on = records[a.task][a.of]
    OBVIOUS
  <2>3. /\ a.of \in 1..Len(records[a.task]) /\ a.seen \in 1..Len(states[a.task])
        /\ \/ /\ a.kind = "approval" /\ a.path = <<"plan_approved">> /\ on.kind = "lock"
              /\ on.at = a.seen /\ states[a.task][a.seen] = "planning"
           \/ /\ a.kind = "attempt" /\ a.path = <<"executing">> /\ on.kind = "approval"
              /\ \/ on.at = a.seen
                 \/ a.number \in Nat /\ a.number >= 2 /\ states[a.task][a.seen] = "reviewing"
           \/ /\ a.kind = "review" /\ on.kind = "attempt" /\ on.at <= a.seen
              /\ a.path = IF a.good THEN <<"reviewing", "ready">> ELSE <<"reviewing">>
              /\ a.good \in BOOLEAN
              /\ states[a.task][a.seen] = "executing"
           \/ a.kind = "intent" /\ a.path = <<>> /\ on.kind = "review"
           \/ /\ a.kind = "draft" /\ a.path = <<"draft_pr">> /\ on.kind = "intent"
              /\ FollowsReview(a.task, a.seen + 1, on.of)'
           \/ a.kind = "event" /\ a.path \in {<<>>, <<"changes_requested">>, <<"merged">>}
    BY <1>0, <1>1, <1>5, <1>7, <2>2 DEF RequestInv
  <2> QED BY ZenonT(60), <1>1, <1>2, <1>3, <2>1, <2>2, <2>3 DEF RequestInv, FollowsReview
<1> QED BY <1>6, <1>7

LEMMA TasksSame ==
    ASSUME TasksInv, SameTasks, DOMAIN asked' = Requesters,
           \A c \in Requesters : asked'[c].kind # "none" => RequestInv(c)'
    PROVE  TasksInv'
<1>1. ASSUME NEW t \in Tasks
      PROVE  TaskInv(t)'
  <2>1. TaskInv(t)
    BY DEF TasksInv
  <2>2. records' = records /\ states' = states
        /\ (shown'[t] \in {"active", "archived", "deleted"} <=> Alive(t))
    BY DEF SameTasks
  <2> QED BY <2>1, <2>2, TaskKept
<1> QED BY <1>1 DEF TasksInv, SameTasks

(* What a request asks for, given what it has just read.                   *)
AskedFits(t, what, of, path, number, good) ==
    LET on == records[t][of]
        L  == Len(states[t])
    IN  \/ /\ what = "approval" /\ path = <<"plan_approved">> /\ on.kind = "lock"
           /\ on.at = L /\ states[t][L] = "planning"
        \/ /\ what = "attempt" /\ path = <<"executing">> /\ on.kind = "approval"
           /\ \/ on.at = L
              \/ number \in Nat /\ number >= 2 /\ states[t][L] = "reviewing"
        \/ /\ what = "review" /\ on.kind = "attempt" /\ on.at <= L
           /\ path = IF good THEN <<"reviewing", "ready">> ELSE <<"reviewing">>
           /\ good \in BOOLEAN
           /\ states[t][L] = "executing"
        \/ what = "intent" /\ path = <<>> /\ on.kind = "review"
        \/ /\ what = "draft" /\ path = <<"draft_pr">> /\ on.kind = "intent"
           /\ FollowsReview(t, L + 1, on.of)
        \/ what = "event" /\ path \in {<<>>, <<"changes_requested">>, <<"merged">>}

LEMMA AskedTasks ==
    ASSUME TasksInv, NEW c \in Requesters, NEW t \in Tasks, NEW what, NEW of, NEW path,
           NEW number, NEW good, AskFor(c, t, what, of, path, number, good),
           of \in 1..Len(records[t]), AskedFits(t, what, of, path, number, good)
    PROVE  TasksInv'
<1>1. SameTasks
  BY DEF TasksInv, AskFor, SameTasks, Alive
<1>2. PICK b : b = [kind |-> what, task |-> t, of |-> of, path |-> path,
                    seen |-> Len(states[t]), number |-> number, good |-> good, tail |-> {}]
  OBVIOUS
<1>3. asked' = [asked EXCEPT ![c] = b] /\ records' = records /\ states' = states
      /\ shown' = shown
  BY <1>2 DEF AskFor
<1>4. DOMAIN asked' = Requesters /\ asked'[c] = b
      /\ \A d \in Requesters \ {c} : asked'[d] = asked[d]
  BY <1>3 DEF TasksInv
<1>5. /\ b = [f \in AskFields |-> b[f]]
      /\ b.kind = what /\ b.task = t /\ b.of = of /\ b.path = path
      /\ b.seen = Len(states[t]) /\ b.number = number /\ b.good = good
  BY <1>2 DEF AskFields
<1>6. RequestInv(c)'
  <2>1. Alive(t) /\ Len(states[t]) \in 1..Len(states[t])
    <3>1. Len(records[t]) \in Nat /\ Len(states[t]) \in Nat
      BY TasksAre
    <3> QED BY <3>1 DEF TasksInv, TaskInv
  <2>2. PICK on : on = records[t][of]
    OBVIOUS
  <2>3. PICK L : L = Len(states[t])
    OBVIOUS
  <2>4. \/ /\ what = "approval" /\ path = <<"plan_approved">> /\ on.kind = "lock"
           /\ on.at = L /\ states[t][L] = "planning"
        \/ /\ what = "attempt" /\ path = <<"executing">> /\ on.kind = "approval"
           /\ \/ on.at = L
              \/ number \in Nat /\ number >= 2 /\ states[t][L] = "reviewing"
        \/ /\ what = "review" /\ on.kind = "attempt" /\ on.at <= L
           /\ path = IF good THEN <<"reviewing", "ready">> ELSE <<"reviewing">>
           /\ good \in BOOLEAN
           /\ states[t][L] = "executing"
        \/ what = "intent" /\ path = <<>> /\ on.kind = "review"
        \/ /\ what = "draft" /\ path = <<"draft_pr">> /\ on.kind = "intent"
           /\ FollowsReview(t, L + 1, on.of)'
        \/ what = "event" /\ path \in {<<>>, <<"changes_requested">>, <<"merged">>}
    BY <1>3, <2>2, <2>3 DEF AskedFits, FollowsReview, Of
  <2> QED BY <1>3, <1>4, <1>5, <2>1, <2>2, <2>3, <2>4 DEF RequestInv, FollowsReview
<1>7. ASSUME NEW d \in Requesters, asked'[d].kind # "none"
      PROVE  RequestInv(d)'
  <2>1. CASE d = c
    BY <1>6, <2>1
  <2>2. CASE d # c
    BY <1>1, <1>4, <1>7, <2>2, RequestSame
  <2> QED BY <2>1, <2>2
<1> QED BY <1>1, <1>4, <1>7, TasksSame

LEMMA ApproveStep ==
    ASSUME TasksInv, NEW c \in Requesters, NEW t \in Tasks, Approve(c, t)
    PROVE  TasksInv'
<1>1. PICK n \in Of(t, "lock") :
          /\ records[t][n].at = Len(states[t]) /\ Latest(t) = "planning"
          /\ AskFor(c, t, "approval", n, <<"plan_approved">>, 0, TRUE)
  BY DEF Approve
<1>2. n \in 1..Len(records[t]) /\ records[t][n].kind = "lock"
  BY <1>1, TasksAre
<1>3. AskedFits(t, "approval", n, <<"plan_approved">>, 0, TRUE)
  BY <1>1, <1>2 DEF AskedFits, Latest
<1> QED BY <1>1, <1>2, <1>3, AskedTasks

LEMMA StartAttemptStep ==
    ASSUME TasksInv, NEW c \in Requesters, NEW t \in Tasks, Start(c, t)
    PROVE  TasksInv'
<1>1. PICK n \in Of(t, "approval") :
          /\ records[t][n].at = Len(states[t])
          /\ AskFor(c, t, "attempt", n, <<"executing">>, Attempts(t) + 1, TRUE)
  BY DEF Start
<1>2. n \in 1..Len(records[t]) /\ records[t][n].kind = "approval"
  BY <1>1, TasksAre
<1>3. AskedFits(t, "attempt", n, <<"executing">>, Attempts(t) + 1, TRUE)
  BY <1>1, <1>2 DEF AskedFits
<1> QED BY <1>1, <1>2, <1>3, AskedTasks

LEMMA NextAttemptStep ==
    ASSUME TasksInv, NEW c \in Requesters, NEW t \in Tasks, StartNextAttempt(c, t)
    PROVE  TasksInv'
<1>1. PICK n \in Of(t, "attempt") :
          /\ Latest(t) = "reviewing"
          /\ AskFor(c, t, "attempt", records[t][n].of, <<"executing">>, Attempts(t) + 1, TRUE)
  BY DEF StartNextAttempt
<1>2. PICK of : of = records[t][n].of
  OBVIOUS
<1>3. n \in 1..Len(records[t]) /\ records[t][n].kind = "attempt"
  BY <1>1, TasksAre
<1>4. of \in 1..Len(records[t]) /\ records[t][of].kind = "approval"
  <2>1. RecordInv(t, n)
    BY <1>3 DEF TasksInv, TaskInv
  <2>2. of \in Of(t, "approval")
    BY <1>2, <1>3, <2>1 DEF RecordInv
  <2> QED BY <2>2, TasksAre
<1>5. Attempts(t) + 1 \in Nat /\ Attempts(t) + 1 >= 2
  <2>1. Of(t, "attempt") \subseteq 1..Len(records[t]) /\ Len(records[t]) \in Nat
    BY TasksAre
  <2>2. IsFiniteSet(1..Len(records[t]))
    BY <2>1, FS_Interval
  <2>3. IsFiniteSet(Of(t, "attempt"))
    BY <2>1, <2>2, FS_Subset
  <2>4. Attempts(t) \in Nat /\ Attempts(t) # 0
    BY <1>1, <2>3, FS_CardinalityType, FS_EmptySet DEF Attempts
  <2> QED BY <2>4
<1>6. AskedFits(t, "attempt", of, <<"executing">>, Attempts(t) + 1, TRUE)
  BY <1>1, <1>4, <1>5 DEF AskedFits, Latest
<1> QED BY <1>1, <1>2, <1>4, <1>6, AskedTasks

LEMMA ReviewStep ==
    ASSUME TasksInv, NEW c \in Requesters, NEW t \in Tasks, Review(c, t)
    PROVE  TasksInv'
<1>1. PICK n \in Of(t, "attempt"), good \in BOOLEAN :
          /\ Latest(t) = "executing"
          /\ AskFor(c, t, "review", n,
               IF good THEN <<"reviewing", "ready">> ELSE <<"reviewing">>, 0, good)
  BY DEF Review
<1>2. n \in 1..Len(records[t]) /\ records[t][n].kind = "attempt" /\ Len(states[t]) \in Nat
  BY <1>1, TasksAre
<1>3. records[t][n].at \in 1..Len(states[t])
  BY <1>2 DEF TasksInv, TaskInv, RecordInv
<1>4. AskedFits(t, "review", n,
          IF good THEN <<"reviewing", "ready">> ELSE <<"reviewing">>, 0, good)
  BY <1>1, <1>2, <1>3 DEF AskedFits, Latest
<1> QED BY <1>1, <1>2, <1>4, AskedTasks

LEMMA IntentStep ==
    ASSUME TasksInv, NEW c \in Requesters, NEW t \in Tasks, CreateIntent(c, t)
    PROVE  TasksInv'
<1>1. PICK n \in Of(t, "review") : AskFor(c, t, "intent", n, <<>>, 0, TRUE)
  BY DEF CreateIntent
<1>2. n \in 1..Len(records[t]) /\ records[t][n].kind = "review"
  BY <1>1, TasksAre
<1>3. AskedFits(t, "intent", n, <<>>, 0, TRUE)
  BY <1>2 DEF AskedFits
<1> QED BY <1>1, <1>2, <1>3, AskedTasks

LEMMA IngestStep ==
    ASSUME TasksInv, NEW c \in Requesters, NEW t \in Tasks, Ingest(c, t)
    PROVE  TasksInv'
<1>1. PICK n \in Of(t, "draft"), news \in {"review", "changes_requested", "merged"} :
          AskFor(c, t, "event", n,
              IF news # "review" /\ Latest(t) = "draft_pr" THEN <<news>> ELSE <<>>,
              IF Resting(t, "event", n) = {} THEN 0 ELSE Newest(Resting(t, "event", n)), TRUE)
  BY DEF Ingest
<1>2. n \in 1..Len(records[t])
  BY <1>1, TasksAre
<1>3. AskedFits(t, "event", n,
          IF news # "review" /\ Latest(t) = "draft_pr" THEN <<news>> ELSE <<>>,
          IF Resting(t, "event", n) = {} THEN 0 ELSE Newest(Resting(t, "event", n)), TRUE)
  BY DEF AskedFits
<1> QED BY <1>1, <1>2, <1>3, AskedTasks

(* The review that made the task ready is the good review of its latest    *)
(* attempt: after an older one there would be an attempt in between.       *)
LEMMA ConfirmStep ==
    ASSUME TasksInv, NEW c \in Requesters, NEW t \in Tasks, Confirm(c, t)
    PROVE  TasksInv'
<1> DEFINE N == Len(records[t])
           L == Len(states[t])
<1>1. PICK n \in Of(t, "intent") :
          /\ Latest(t) = "ready" /\ ~Stale(t, records[t][n].of)
          /\ records[t][records[t][n].of].good
          /\ AskFor(c, t, "draft", n, <<"draft_pr">>, 0, TRUE)
  BY DEF Confirm
<1>2. PICK rv : rv = records[t][n].of
  OBVIOUS
<1>3. PICK a : a = records[t][rv].of
  OBVIOUS
<1>4. /\ N \in Nat /\ L \in Nat
      /\ \A m, what : m \in Of(t, what) <=> m \in 1..N /\ records[t][m].kind = what
  BY TasksAre
<1>5. /\ n \in 1..N /\ records[t][n].kind = "intent"
      /\ rv \in 1..N /\ records[t][rv].kind = "review" /\ records[t][rv].good
      /\ a \in 1..N /\ records[t][a].kind = "attempt"
  <2>1. n \in 1..N /\ records[t][n].kind = "intent" /\ records[t][rv].good
    BY <1>1, <1>2, <1>4
  <2>2. \A m \in 1..N : RecordInv(t, m)
    BY DEF TasksInv, TaskInv
  <2>3. rv \in 1..N /\ records[t][rv].kind = "review"
    BY <1>2, <1>4, <2>1, <2>2 DEF RecordInv
  <2>4. a \in 1..N /\ records[t][a].kind = "attempt"
    BY <1>3, <1>4, <2>2, <2>3 DEF RecordInv
  <2> QED BY <2>1, <2>3, <2>4
<1>6. \A m \in Of(t, "attempt") : m <= a
  <2>1. \E m \in Of(t, "attempt") : \A k \in Of(t, "attempt") : k <= m
    BY <1>4, <1>5 DEF TasksInv, TaskInv
  <2>2. a = Newest(Of(t, "attempt"))
    BY <1>1, <1>2, <1>3 DEF Stale
  <2> QED BY <2>1, <2>2 DEF Newest
<1>7. L \in 1..L /\ states[t][L] = "ready"
  BY <1>1, <1>4, <1>5 DEF Latest, TasksInv, TaskInv
<1>8. PICK rw \in Of(t, "review") : records[t][rw].at = L - 1
  BY <1>7 DEF TasksInv, TaskInv
<1>9. /\ records[t][rv].at \in 1..L /\ records[t][a].at \in 1..L
      /\ records[t][a].at < records[t][rv].at
      /\ PhaseAt(t, records[t][rv].at + 1, "ready")
      /\ PhaseAt(t, L - 2, "executing") /\ PhaseAt(t, L - 1, "reviewing")
  <2>1. RecordInv(t, rv) /\ RecordInv(t, a) /\ RecordInv(t, rw) /\ records[t][rw].kind = "review"
    BY <1>4, <1>5, <1>8 DEF TasksInv, TaskInv
  <2>2. L - 1 - 1 = L - 2
    BY <1>4
  <2> QED BY <1>3, <1>5, <1>8, <2>1, <2>2 DEF RecordInv
<1>10. records[t][rv].at = L - 1
  <2>0. PICK x : x = records[t][rv].at
    OBVIOUS
  <2>9. x < L - 2 \/ x = L - 1
    <3>1. x \in 1..L /\ x + 1 \in 1..L /\ L - 1 \in 1..L /\ L - 2 \in 1..L
      BY <1>9, <2>0 DEF PhaseAt
    <3>2. x + 1 # L - 1 /\ x + 1 # L - 2
      BY <1>9, <2>0 DEF PhaseAt
    <3> HIDE DEF L
    <3> QED BY <1>4, <3>1, <3>2
  <2>1. SUFFICES ASSUME x < L - 2
                 PROVE  FALSE
    BY <2>0, <2>9
  <2>2. PICK m \in Of(t, "attempt") : records[t][m].at = L - 2
    BY <1>9 DEF PhaseAt, TasksInv, TaskInv
  <2>3. m \in 1..N /\ m <= a
    BY <1>4, <1>6, <2>2
  <2>4. m # a /\ ~(m < a)
    <3>1. a \in Of(t, "attempt")
      BY <1>4, <1>5
    <3>2. m < a => records[t][m].at < records[t][a].at
      BY <2>2, <3>1 DEF TasksInv, TaskInv
    <3> QED BY SMTT(60), <1>4, <1>9, <2>0, <2>1, <2>2, <3>2
  <2> QED BY <1>4, <1>5, <2>3, <2>4
<1>11. FollowsReview(t, L + 1, rv)
  BY <1>3, <1>4, <1>5, <1>6, <1>10 DEF FollowsReview
<1>12. AskedFits(t, "draft", n, <<"draft_pr">>, 0, TRUE)
  BY <1>2, <1>5, <1>11 DEF AskedFits
<1> QED BY <1>1, <1>5, <1>12, AskedTasks

(* A record more, states more.                                             *)
LEMMA RecordAdded ==
    ASSUME TasksInv, NEW t \in Tasks, NEW r,
           records' = [records EXCEPT ![t] = Append(@, r)]
    PROVE  /\ \E S : records' \in [Tasks -> Seq(S)]
           /\ \A u \in Tasks \ {t} : records'[u] = records[u]
           /\ Len(records'[t]) = Len(records[t]) + 1 /\ records'[t][Len(records[t]) + 1] = r
           /\ \A n \in 1..Len(records[t]) : records'[t][n] = records[t][n]
<1>1. PICK S : records \in [Tasks -> Seq(S)]
  BY DEF TasksInv
<1>2. records \in [Tasks -> Seq(S \cup {r})]
  <2>1. ASSUME NEW u \in Tasks
        PROVE  records[u] \in Seq(S \cup {r})
    <3>1. records[u] \in Seq(S)
      BY <1>1
    <3> QED BY <3>1
  <2> QED BY <1>1, <2>1
<1>3. PICK s \in Seq(S \cup {r}) : s = records[t]
  BY <1>2
<1>4. /\ Append(s, r) \in Seq(S \cup {r}) /\ Len(Append(s, r)) = Len(s) + 1
      /\ Append(s, r)[Len(s) + 1] = r
      /\ \A n \in 1..Len(s) : Append(s, r)[n] = s[n]
  BY <1>3, AppendProperties
<1>5. records' = [records EXCEPT ![t] = Append(s, r)]
  BY <1>3
<1>6. records' \in [Tasks -> Seq(S \cup {r})]
  BY <1>2, <1>4, <1>5
<1>7. records'[t] = Append(s, r) /\ \A u \in Tasks \ {t} : records'[u] = records[u]
  BY <1>2, <1>5
<1> QED BY <1>3, <1>4, <1>6, <1>7

LEMMA StatesAdded ==
    ASSUME TasksInv, NEW t \in Tasks, NEW path \in Seq(Phases),
           states' = [states EXCEPT ![t] = @ \o path]
    PROVE  /\ states' \in [Tasks -> Seq(Phases)]
           /\ \A u \in Tasks \ {t} : states'[u] = states[u]
           /\ Len(states'[t]) = Len(states[t]) + Len(path)
           /\ \A k \in 1..Len(states[t]) : states'[t][k] = states[t][k]
           /\ \A k \in 1..Len(path) : states'[t][Len(states[t]) + k] = path[k]
<1>1. states \in [Tasks -> Seq(Phases)]
  BY DEF TasksInv
<1>2. PICK s \in Seq(Phases) : s = states[t]
  BY <1>1
<1>3. /\ s \o path \in Seq(Phases) /\ Len(s \o path) = Len(s) + Len(path)
      /\ \A k \in 1..Len(s) : (s \o path)[k] = s[k]
      /\ \A k \in 1..Len(path) : (s \o path)[Len(s) + k] = path[k]
  BY <1>2, ConcatProperties
<1>4. states' = [states EXCEPT ![t] = s \o path]
  BY <1>2
<1>5. states'[t] = s \o path /\ \A u \in Tasks \ {t} : states'[u] = states[u]
  BY <1>1, <1>4
<1> QED BY <1>1, <1>2, <1>3, <1>4, <1>5

LEMMA LockStep ==
    ASSUME TasksInv, NEW t \in Tasks, Lock(t)
    PROVE  TasksInv'
<1> DEFINE N == Len(records[t])
           L == Len(states[t])
<1>1. PICK r : r = [kind |-> "lock", of |-> 0, at |-> L, number |-> 0, good |-> TRUE]
  OBVIOUS
<1>2. /\ records' = [records EXCEPT ![t] = Append(@, r)] /\ states' = states
      /\ shown' = shown /\ asked' = asked /\ Alive(t)
  BY <1>1 DEF Lock, Alive
<1>3. /\ \E S : records' \in [Tasks -> Seq(S)]
      /\ \A u \in Tasks \ {t} : records'[u] = records[u]
      /\ Len(records'[t]) = N + 1 /\ records'[t][N + 1] = r
      /\ \A n \in 1..N : records'[t][n] = records[t][n]
  BY <1>2, RecordAdded
<1>4. N \in Nat /\ L \in Nat /\ L > 0
  BY <1>2, TasksAre DEF TasksInv, TaskInv
<1>5. Grows(t)
  BY <1>2, <1>3, <1>4 DEF Grows, Longer, TasksInv
<1>6. \A m \in N + 1..Len(records'[t]) : m = N + 1
  BY <1>3, <1>4
<1>7. r.kind = "lock" /\ r.at = L
  BY <1>1
<1>8. NewIsLate(t)
  BY <1>3, <1>4, <1>6, <1>7 DEF NewIsLate
<1>9. NewRecordsFit(t)
  <2>1. PICK n : n = N + 1
    OBVIOUS
  <2>2. RecordInv(t, n)'
    BY <1>2, <1>3, <1>4, <1>7, <2>1 DEF RecordInv
  <2> QED BY <1>6, <2>1, <2>2 DEF NewRecordsFit
<1>10. NewStatesFit(t)
  BY <1>2, <1>4 DEF NewStatesFit
<1> QED BY <1>2, <1>5, <1>8, <1>9, <1>10, TasksGrown DEF TasksInv

LEMMA ReplanStep ==
    ASSUME TasksInv, NEW t \in Tasks, Replan(t)
    PROVE  TasksInv'
<1> DEFINE N == Len(records[t])
           L == Len(states[t])
<1>1. /\ states' = [states EXCEPT ![t] = Append(@, "planning")] /\ records' = records
      /\ shown' = shown /\ asked' = asked /\ Alive(t)
  BY DEF Replan, Alive
<1>2. N \in Nat /\ L \in Nat
  BY TasksAre
<1>3. /\ states' \in [Tasks -> Seq(Phases)]
      /\ \A u \in Tasks \ {t} : states'[u] = states[u]
      /\ Len(states'[t]) = L + 1 /\ states'[t][L + 1] = "planning"
      /\ \A k \in 1..L : states'[t][k] = states[t][k]
  <2>1. states \in [Tasks -> Seq(Phases)] /\ "planning" \in Phases
    BY DEF TasksInv, Phases
  <2>2. PICK s \in Seq(Phases) : s = states[t]
    BY <2>1
  <2>3. /\ Append(s, "planning") \in Seq(Phases)
        /\ Len(Append(s, "planning")) = Len(s) + 1
        /\ Append(s, "planning")[Len(s) + 1] = "planning"
        /\ \A n \in 1..Len(s) : Append(s, "planning")[n] = s[n]
    BY <2>1, AppendProperties
  <2>4. states' = [states EXCEPT ![t] = Append(s, "planning")]
    BY <1>1, <2>2
  <2>5. states'[t] = Append(s, "planning") /\ \A u \in Tasks \ {t} : states'[u] = states[u]
    BY <2>1, <2>4
  <2> QED BY <2>1, <2>2, <2>3, <2>4, <2>5
<1>4. Grows(t)
  BY <1>1, <1>2, <1>3 DEF Grows, Longer, TasksInv
<1>5. NewIsLate(t) /\ NewRecordsFit(t)
  BY <1>1, <1>2 DEF NewIsLate, NewRecordsFit
<1>6. NewStatesFit(t)
  <2>0. PICK k : k = L + 1
    OBVIOUS
  <2>1. \A i \in L + 1..Len(states'[t]) : i = k
    BY <1>2, <1>3, <2>0
  <2>2. StateFits(t, k)'
    BY <1>3, <2>0 DEF StateFits
  <2> QED BY <2>1, <2>2 DEF NewStatesFit
<1> QED BY <1>1, <1>4, <1>5, <1>6, TasksGrown DEF TasksInv

LEMMA EraseStep ==
    ASSUME TasksInv, NEW t \in Tasks, Erase(t)
    PROVE  TasksInv'
<1>1. /\ shown' = [shown EXCEPT ![t] = "erased"]
      /\ states' = [states EXCEPT ![t] = <<>>] /\ records' = [records EXCEPT ![t] = <<>>]
      /\ asked' = asked
  BY DEF Erase
<1>2. /\ DOMAIN shown' = Tasks /\ shown'[t] = "erased"
      /\ \A u \in Tasks \ {t} : shown'[u] = shown[u]
  BY <1>1 DEF TasksInv
<1>3. PICK S : records \in [Tasks -> Seq(S)]
  BY DEF TasksInv
<1>4. records' \in [Tasks -> Seq(S)] /\ states' \in [Tasks -> Seq(Phases)]
  <2>1. <<>> \in Seq(S) /\ <<>> \in Seq(Phases)
    OBVIOUS
  <2> QED BY <1>1, <1>3, <2>1 DEF TasksInv
<1>5. /\ \A u \in Tasks \ {t} : records'[u] = records[u] /\ states'[u] = states[u]
      /\ records'[t] = <<>> /\ states'[t] = <<>>
  BY <1>1, <1>3 DEF TasksInv
<1>6. TaskInv(t)'
  <2>1. ~Alive(t)' /\ Len(records'[t]) = 0 /\ Len(states'[t]) = 0
    BY <1>2, <1>5 DEF Alive
  <2>2. \A what : Of(t, what)' = {}
    BY <1>5 DEF Of
  <2> QED BY <2>1, <2>2 DEF TaskInv
<1>7. ASSUME NEW u \in Tasks \ {t}
      PROVE  TaskInv(u)'
  <2>1. TaskInv(u)
    BY DEF TasksInv
  <2>2. /\ records'[u] = records[u] /\ states'[u] = states[u]
        /\ shown'[u] \in {"active", "archived", "deleted"} <=> Alive(u)
    BY <1>2, <1>5 DEF Alive
  <2> QED BY <2>1, <2>2, TaskKept
<1>8. ASSUME NEW c \in Requesters, asked'[c].kind # "none"
      PROVE  RequestInv(c)'
  <2>1. RequestInv(c)
    BY <1>1, <1>8 DEF TasksInv
  <2>2. PICK a : a = asked[c]
    OBVIOUS
  <2>3. a = [f \in AskFields |-> a[f]] /\ a.task \in Tasks /\ asked'[c] = a
    BY <1>1, <2>1, <2>2 DEF RequestInv
  <2>4. CASE a.task = t
    BY <1>2, <2>3, <2>4 DEF RequestInv
  <2>5. CASE a.task # t
    <3>1. /\ shown'[a.task] = shown[a.task] /\ records'[a.task] = records[a.task]
          /\ states'[a.task] = states[a.task]
      BY <1>2, <1>5, <2>3, <2>5
    <3> QED BY <2>1, <2>2, <2>3, <3>1 DEF RequestInv, FollowsReview, Of
  <2> QED BY <2>4, <2>5
<1> QED BY <1>1, <1>2, <1>4, <1>6, <1>7, <1>8 DEF TasksInv

LEMMA OthersStep ==
    ASSUME TasksInv,
           \/ \E c \in Requesters : Prepare(c)
           \/ \E t \in Tasks : FinishVerify(t) \/ ChangeVisibility(t)
           \/ UNCHANGED evidenceVars
    PROVE  TasksInv'
<1>1. SameTasks /\ DOMAIN asked' = Requesters
  <2>1. CASE \E t \in Tasks : ChangeVisibility(t)
    BY <2>1 DEF ChangeVisibility, TasksInv, SameTasks, Shifts, Alive
  <2>2. CASE ~\E t \in Tasks : ChangeVisibility(t)
    BY <2>2 DEF Prepare, FinishVerify, evidenceVars, TasksInv, SameTasks, Alive
  <2> QED BY <2>1, <2>2
<1>2. \A c \in Requesters :
          asked'[c] = asked[c] \/ asked'[c] = [asked[c] EXCEPT !.tail = {TailEvent}]
  BY DEF Prepare, FinishVerify, ChangeVisibility, evidenceVars, TasksInv
<1>3. ASSUME NEW c \in Requesters, asked'[c].kind # "none"
      PROVE  RequestInv(c)'
  <2>1. asked[c].kind # "none"
    <3>1. CASE asked'[c] = asked[c]
      BY <1>3, <3>1
    <3>2. CASE asked'[c] = [asked[c] EXCEPT !.tail = {TailEvent}]
      BY <1>3, <3>2
    <3> QED BY <1>2, <3>1, <3>2
  <2> QED BY <1>1, <1>2, <2>1, RequestSame
<1> QED BY <1>1, <1>3, TasksSame

(* What is committed still fits what is there.                             *)
LEMMA CommitStep ==
    ASSUME TasksInv, NEW c \in Requesters, Commit(c)
    PROVE  TasksInv'
<1>1. PICK a : a = asked[c]
  OBVIOUS
<1>2. a.kind # "none" /\ RequestInv(c) /\ a.task \in Tasks
  BY <1>1 DEF Commit, TasksInv, RequestInv
<1>3. PICK t \in Tasks : t = a.task
  BY <1>2
<1>4. /\ asked' = [asked EXCEPT ![c] = NothingAsked] /\ shown' = shown
      /\ DOMAIN asked' = Requesters
      /\ \A d \in Requesters : asked'[d] = asked[d] \/ asked'[d].kind = "none"
  BY DEF Commit, TasksInv, NothingAsked
<1>5. CASE UNCHANGED <<states, records>>
  <2>1. SameTasks
    BY <1>4, <1>5 DEF SameTasks, TasksInv, Alive
  <2>2. ASSUME NEW d \in Requesters, asked'[d].kind # "none"
        PROVE  RequestInv(d)'
    <3>1. asked'[d] = asked[d] /\ asked[d].kind # "none"
      BY <1>4, <2>2
    <3> QED BY <2>1, <3>1, RequestSame
  <2> QED BY <1>4, <2>1, <2>2, TasksSame
<1>6. CASE ~UNCHANGED <<states, records>>
  <2>0. PICK N, L : N = Len(records[t]) /\ L = Len(states[t])
    OBVIOUS
  <2>1. PICK r : r = RecordOf(a)
    OBVIOUS
  <2>2. PICK path : path = a.path
    OBVIOUS
  <2>3. /\ records' = [records EXCEPT ![t] = Append(@, r)]
        /\ states' = [states EXCEPT ![t] = @ \o path]
        /\ Fits(a)
    BY <1>1, <1>3, <1>6, <2>1, <2>2 DEF Commit, Accepts
  <2>4. /\ a.of \in 1..N /\ a.seen \in 1..L /\ N \in Nat /\ L \in Nat
        /\ shown[t] # "erased"
        /\ \A m, what : m \in Of(t, what) <=> m \in 1..N /\ records[t][m].kind = what
    <3>1. shown[t] # "erased"
      BY <1>3, <2>3 DEF Fits
    <3>2. a.of \in 1..N /\ a.seen \in 1..L
      BY <1>1, <1>2, <1>3, <2>0, <3>1 DEF RequestInv
    <3>3. /\ N \in Nat /\ L \in Nat
          /\ \A m, what : m \in Of(t, what) <=> m \in 1..N /\ records[t][m].kind = what
      BY <2>0, TasksAre
    <3> QED BY <3>1, <3>2, <3>3
  <2>5. PICK on : on = records[t][a.of]
    OBVIOUS
  <2>6. \/ /\ a.kind = "approval" /\ path = <<"plan_approved">> /\ on.kind = "lock"
           /\ on.at = a.seen /\ states[t][a.seen] = "planning"
        \/ /\ a.kind = "attempt" /\ path = <<"executing">> /\ on.kind = "approval"
           /\ \/ on.at = a.seen
              \/ a.number \in Nat /\ a.number >= 2 /\ states[t][a.seen] = "reviewing"
        \/ /\ a.kind = "review" /\ on.kind = "attempt" /\ on.at <= a.seen
           /\ path = IF a.good THEN <<"reviewing", "ready">> ELSE <<"reviewing">>
           /\ a.good \in BOOLEAN
           /\ states[t][a.seen] = "executing"
        \/ a.kind = "intent" /\ path = <<>> /\ on.kind = "review"
        \/ /\ a.kind = "draft" /\ path = <<"draft_pr">> /\ on.kind = "intent"
           /\ FollowsReview(t, a.seen + 1, on.of)
        \/ a.kind = "event" /\ path \in {<<>>, <<"changes_requested">>, <<"merged">>}
    BY ZenonT(60), <1>1, <1>2, <1>3, <2>2, <2>4, <2>5 DEF RequestInv
  <2>60. /\ a.kind = "approval" => path = <<"plan_approved">>
         /\ a.kind = "attempt" => path = <<"executing">>
         /\ a.kind = "review" /\ a.good => path = <<"reviewing", "ready">>
         /\ a.kind = "review" /\ ~a.good => path = <<"reviewing">>
         /\ a.kind = "intent" => path = <<>>
         /\ a.kind = "draft" => path = <<"draft_pr">>
         /\ a.kind = "event" => path \in {<<>>, <<"changes_requested">>, <<"merged">>}
         /\ a.kind \in {"approval", "attempt", "review", "intent", "draft", "event"}
    BY <2>6
  <2>61. path \in {<<"plan_approved">>, <<"executing">>, <<"reviewing", "ready">>, <<"reviewing">>,
                   <<>>, <<"draft_pr">>, <<"changes_requested">>, <<"merged">>}
    BY <2>60
  <2>7. /\ Alive(t)
        /\ path # <<>> => L = a.seen
        /\ a.kind = "review" => Resting(t, "review", a.of) = {}
    <3>1. Alive(t)
      BY <2>0, <2>4 DEF TasksInv, TaskInv
    <3> QED BY <1>3, <2>0, <2>2, <2>3, <3>1 DEF Fits
  <2>8. path \in Seq(Phases)
    <3>1. /\ <<"plan_approved">> \in Seq(Phases) /\ <<"executing">> \in Seq(Phases)
          /\ <<"reviewing">> \in Seq(Phases) /\ <<"reviewing", "ready">> \in Seq(Phases)
          /\ <<>> \in Seq(Phases) /\ <<"draft_pr">> \in Seq(Phases)
          /\ <<"changes_requested">> \in Seq(Phases) /\ <<"merged">> \in Seq(Phases)
      BY DEF Phases
    <3> QED BY <2>61, <3>1
  <2>9. /\ \E S : records' \in [Tasks -> Seq(S)]
        /\ \A u \in Tasks \ {t} : records'[u] = records[u]
        /\ Len(records'[t]) = N + 1 /\ records'[t][N + 1] = r
        /\ \A n \in 1..N : records'[t][n] = records[t][n]
    BY <2>0, <2>3, RecordAdded
  <2>10. /\ states' \in [Tasks -> Seq(Phases)]
         /\ \A u \in Tasks \ {t} : states'[u] = states[u]
         /\ Len(states'[t]) = L + Len(path)
         /\ \A k \in 1..L : states'[t][k] = states[t][k]
         /\ \A k \in 1..Len(path) : states'[t][L + k] = path[k]
    BY ZenonT(60), <2>0, <2>3, <2>8, StatesAdded
  <2>11. /\ r.kind = a.kind /\ r.of = a.of /\ r.number = a.number /\ r.good = a.good
         /\ r.at = L + IF path = <<>> THEN 0 ELSE 1
    BY <1>3, <2>0, <2>1, <2>2 DEF RecordOf
  <2>12. /\ Len(path) \in 0..2 /\ (path = <<>> <=> Len(path) = 0)
         /\ path # <<>> => Len(path) >= 1 /\ path[1] = states'[t][L + 1]
         /\ Len(path) = 2 => path[2] = states'[t][L + 2]
    <3>1. /\ Len(path) \in 0..2 /\ (path = <<>> <=> Len(path) = 0)
          /\ path # <<>> => Len(path) >= 1
      BY <2>61
    <3> QED BY <2>10, <3>1
  <2>13. Grows(t)
    BY <2>0, <2>4, <2>9, <2>10, <2>12 DEF Grows, Longer
  <2>14. PICK n : n = N + 1
    OBVIOUS
  <2>15. /\ \A m \in N + 1..Len(records'[t]) : m = n
         /\ records'[t][n] = r /\ n \in 1..Len(records'[t]) /\ ~(n \in 1..N)
         /\ \A m \in 1..Len(records'[t]) : m \in 1..N \/ m = n
    BY <2>4, <2>9, <2>14
  <2>16. /\ \A m \in 1..N : \A what : m \in Of(t, what)' <=> m \in Of(t, what)
         /\ \A m, what : m \in Of(t, what)'
                            <=> m \in 1..Len(records'[t]) /\ records'[t][m].kind = what
         /\ \A k, what : PhaseAt(t, k, what) => PhaseAt(t, k, what)'
    BY <2>0, <2>13, GrownTasks
  <2>17. r.at \in Nat /\ r.at \in 1..Len(states'[t])
    BY <2>4, <2>10, <2>11, <2>12
  <2>62. a.kind \in {"approval", "attempt", "review", "draft"} =>
            /\ L = a.seen /\ r.at = L + 1 /\ r.at - 1 = L /\ L + 1 \in 1..Len(states'[t])
            /\ states'[t][L + 1] = path[1] /\ states'[t][L] = states[t][L]
            /\ L \in 1..Len(states'[t])
    <3>1. a.kind \in {"approval", "attempt", "review", "draft"} => path # <<>>
      BY <2>60
    <3> QED BY <2>4, <2>7, <2>10, <2>11, <2>12, <3>1
  <2>63. /\ a.kind = "approval" => path[1] = "plan_approved"
         /\ a.kind = "attempt" => path[1] = "executing"
         /\ a.kind = "review" => path[1] = "reviewing"
         /\ a.kind = "draft" => path[1] = "draft_pr"
         /\ a.kind = "event" /\ path # <<>> => path[1] \in {"changes_requested", "merged"}
    BY <2>60
  <2>64. /\ a.kind = "review" /\ a.good => Len(path) = 2 /\ path[2] = "ready"
         /\ Len(path) = 2 => a.kind = "review" /\ a.good
    BY SMTT(60), <2>60
  <2>65. Len(path) = 2 => L + 1 + 1 \in 1..Len(states'[t]) /\ states'[t][L + 1 + 1] = path[2]
    <3>1. L + 1 + 1 = L + 2
      BY <2>4
    <3> QED BY <2>4, <2>10, <2>12, <3>1
  <2>66. a.kind \notin {"approval", "attempt", "review", "draft"} => r.at \in Nat
    BY <2>17
  <2>18. NewIsLate(t)
    <3>1. r.at \in Nat /\ (r.kind = "attempt" => r.at > L)
      BY <2>4, <2>11, <2>17, <2>62
    <3>2. r.kind = "review" => Resting(t, "review", r.of) = {}
      BY <2>7, <2>11
    <3> QED BY <2>0, <2>15, <3>1, <3>2 DEF NewIsLate
  <2>19. NewRecordsFit(t)
    <3>1. a.of \in 1..N /\ records'[t][a.of] = on
      BY <2>4, <2>5, <2>9
    <3>2. \A what : on.kind = what => a.of \in Of(t, what)'
      BY <2>4, <2>5, <2>16
    <3>3. CASE a.kind = "approval"
      <4>1. r.at = L + 1 /\ L = a.seen /\ r.at - 1 = L /\ on.at = L /\ on.kind = "lock"
        BY <2>6, <2>62, <3>3
      <4>2. PhaseAt(t, L, "planning")' /\ PhaseAt(t, L + 1, "plan_approved")'
        BY <2>6, <2>62, <2>63, <3>3 DEF PhaseAt
      <4>3. RecordInv(t, n)'
        BY <2>11, <2>15, <2>17, <3>1, <3>2, <3>3, <4>1, <4>2 DEF RecordInv
      <4> QED BY <2>15, <4>3, <2>0 DEF NewRecordsFit
    <3>4. CASE a.kind = "attempt"
      <4>1. /\ r.at = L + 1 /\ L = a.seen /\ r.at - 1 = L /\ on.kind = "approval"
            /\ (on.at = L \/ (a.number \in Nat /\ a.number >= 2 /\ states[t][L] = "reviewing"))
        BY <2>6, <2>62, <3>4
      <4>2. /\ states[t][L] = "reviewing" => PhaseAt(t, L, "reviewing")'
            /\ PhaseAt(t, L + 1, "executing")'
        BY <2>6, <2>62, <2>63, <3>4 DEF PhaseAt
      <4>3. RecordInv(t, n)'
        BY <2>11, <2>15, <2>17, <3>1, <3>2, <3>4, <4>1, <4>2 DEF RecordInv
      <4> QED BY <2>15, <4>3, <2>0 DEF NewRecordsFit
    <3>5. CASE a.kind = "review"
      <4>1. /\ r.at = L + 1 /\ L = a.seen /\ r.at - 1 = L /\ on.kind = "attempt" /\ on.at <= L
        BY <2>6, <2>62, <3>5
      <4>2. /\ PhaseAt(t, L, "executing")' /\ PhaseAt(t, L + 1, "reviewing")'
        BY <2>6, <2>62, <2>63, <3>5 DEF PhaseAt
      <4>3. a.good => PhaseAt(t, L + 1 + 1, "ready")'
        BY <2>64, <2>65, <3>5 DEF PhaseAt
      <4>4. on.at < r.at
        <5>1. on.at \in 1..L
          BY <2>0, <2>4, <2>5 DEF TasksInv, TaskInv, RecordInv
        <5> QED BY <2>4, <4>1, <5>1
      <4>5. ASSUME NEW m \in Of(t, "review")', records'[t][m].of = r.of
            PROVE  m = n
        <5>1. m \in 1..N => m \in Resting(t, "review", a.of)
          BY <2>9, <2>11, <2>16, <4>5 DEF Resting
        <5> QED BY <2>7, <2>15, <2>16, <3>5, <5>1
      <4>6. RecordInv(t, n)'
        BY <2>11, <2>15, <2>17, <3>1, <3>2, <3>5, <4>1, <4>2, <4>3, <4>4, <4>5
           DEF RecordInv, Resting
      <4> QED BY <2>15, <4>6, <2>0 DEF NewRecordsFit
    <3>6. CASE a.kind \in {"intent", "event"}
      <4>1. a.kind = "intent" => on.kind = "review"
        BY <2>6
      <4>2. RecordInv(t, n)'
        BY <2>11, <2>15, <2>17, <3>1, <3>2, <3>6, <4>1 DEF RecordInv
      <4> QED BY <2>15, <4>2, <2>0 DEF NewRecordsFit
    <3>7. CASE a.kind = "draft"
      <4>1. /\ r.at = L + 1 /\ L = a.seen /\ on.kind = "intent" /\ FollowsReview(t, L + 1, on.of)
        BY <2>6, <2>62, <3>7
      <4>2. on.of \in 1..N
        <5>1. on.of \in Of(t, "review")
          BY <2>0, <2>4, <2>5, <4>1 DEF TasksInv, TaskInv, RecordInv
        <5> QED BY <2>4, <5>1
      <4>3. ASSUME NEW m \in Of(t, "attempt")', records'[t][m].at < L + 1
            PROVE  m <= records[t][on.of].of
        <5>1. m \in 1..N
          BY <2>11, <2>15, <2>16, <3>7
        <5> QED BY <2>9, <2>16, <4>1, <4>3, <5>1 DEF FollowsReview
      <4>4. FollowsReview(t, L + 1, on.of)'
        BY <2>9, <2>10, <4>1, <4>2, <4>3 DEF FollowsReview
      <4>5. RecordInv(t, n)'
        BY <2>11, <2>15, <2>17, <3>1, <3>2, <3>7, <4>1, <4>4 DEF RecordInv, FollowsReview
      <4> QED BY <2>15, <4>5, <2>0 DEF NewRecordsFit
    <3> QED BY <2>6, <3>3, <3>4, <3>5, <3>6, <3>7
  <2>20. NewStatesFit(t)
    <3>1. SUFFICES ASSUME NEW k \in L + 1..Len(states'[t])
                   PROVE  StateFits(t, k)'
      BY <2>0 DEF NewStatesFit
    <3>2. /\ Len(path) >= 1 /\ path # <<>>
          /\ (k = L + 1 \/ (k = L + 1 + 1 /\ Len(path) = 2))
      <4>0. Len(path) \in 0..2
        BY <2>12
      <4>1. PICK p \in 0..2 : p = Len(path)
        BY <4>0, Zenon
      <4>2. k \in L + 1..L + p
        BY <2>10, <4>1
      <4>3. p >= 1 /\ (k = L + 1 \/ (k = L + 1 + 1 /\ p = 2))
        BY <2>4, <4>2
      <4>4. path # <<>>
        BY <4>1, <4>3
      <4> QED BY <4>1, <4>3, <4>4
    <3>3. /\ states'[t][k] = "executing" => a.kind = "attempt" /\ k = L + 1
          /\ states'[t][k] = "ready" => a.kind = "review" /\ a.good /\ k = L + 1 + 1
      <4>1. CASE k = L + 1
        BY <2>60, <2>12, <2>63, <3>2, <4>1
      <4>2. CASE k = L + 1 + 1 /\ Len(path) = 2
        BY <2>64, <2>65, <4>2
      <4> QED BY <3>2, <4>1, <4>2
    <3>4. states'[t][k] = "executing" => n \in Of(t, "attempt")' /\ records'[t][n].at = k
      BY <2>11, <2>15, <2>16, <2>62, <3>3
    <3>5. states'[t][k] = "ready" =>
             /\ n \in Of(t, "review")' /\ records'[t][n].good /\ records'[t][n].at = k - 1
      BY <2>4, <2>11, <2>15, <2>16, <2>62, <3>3
    <3> QED BY <3>4, <3>5 DEF StateFits
  <2> QED BY <1>4, <2>7, <2>13, <2>18, <2>19, <2>20, TasksGrown
<1> QED BY <1>5, <1>6

LEMMA TasksInitial == EvidenceInit => TasksInv
<1> SUFFICES ASSUME EvidenceInit
             PROVE  TasksInv
  OBVIOUS
<1>1. /\ records = [t \in Tasks |-> <<>>] /\ DOMAIN shown = Tasks
      /\ asked = [c \in Requesters |-> NothingAsked]
      /\ \A t \in Tasks : shown[t] \in {"active", "absent"}
      /\ states = [t \in Tasks |-> IF shown[t] = "active" THEN <<"planning">> ELSE <<>>]
  BY DEF EvidenceInit
<1>2. records \in [Tasks -> Seq({})]
  <2>1. <<>> \in Seq({})
    OBVIOUS
  <2> QED BY <1>1, <2>1
<1>3. states \in [Tasks -> Seq(Phases)]
  <2>1. <<>> \in Seq(Phases) /\ <<"planning">> \in Seq(Phases)
    BY DEF Phases
  <2> QED BY <1>1, <2>1
<1>4. ASSUME NEW t \in Tasks
      PROVE  TaskInv(t)
  <2>1. records[t] = <<>> /\ \A what : Of(t, what) = {}
    BY <1>1 DEF Of
  <2>2. CASE shown[t] = "active"
    <3>1. states[t] = <<"planning">>
      BY <1>1, <2>2
    <3> QED BY <2>1, <2>2, <3>1 DEF TaskInv, Alive
  <2>3. CASE shown[t] = "absent"
    <3>1. states[t] = <<>>
      BY <1>1, <2>3
    <3> QED BY <2>1, <2>3, <3>1 DEF TaskInv, Alive
  <2> QED BY <1>1, <2>2, <2>3
<1>5. \A c \in Requesters : asked[c].kind = "none"
  BY <1>1 DEF NothingAsked
<1> QED BY <1>1, <1>2, <1>3, <1>4, <1>5 DEF TasksInv

LEMMA TasksStep == TasksInv /\ [EvidenceNext]_evidenceVars => TasksInv'
<1> SUFFICES ASSUME TasksInv, [EvidenceNext]_evidenceVars
             PROVE  TasksInv'
  OBVIOUS
<1>1. ASSUME NEW c \in Requesters, NEW t \in Tasks, TaskRequest(c, t)
      PROVE  TasksInv'
  BY <1>1, ApproveStep, StartAttemptStep, NextAttemptStep, ReviewStep, IntentStep, ConfirmStep,
     IngestStep DEF TaskRequest
<1>2. ASSUME NEW c \in Requesters, Commit(c)
      PROVE  TasksInv'
  BY <1>2, CommitStep
<1>3. ASSUME NEW t \in Tasks, Lock(t) \/ Replan(t) \/ Erase(t)
      PROVE  TasksInv'
  BY <1>3, LockStep, ReplanStep, EraseStep
<1> QED BY <1>1, <1>2, <1>3, OthersStep DEF EvidenceNext

LEMMA TasksAreSound == EvidenceSpec => []TasksInv
<1> QED BY TasksInitial, TasksStep, PTL DEF EvidenceSpec

(* A draft pull request is the outcome of the latest attempt of its task   *)
(* and of that attempt's review, with nothing in between, for any number   *)
(* of tasks, requests and attempts (confirm of publish_intents.py,         *)
(* is_stale of reviews.py).                                                *)
THEOREM DraftsFollowReviews == EvidenceSpec => []DraftFollowsReview
<1>1. TasksInv => DraftFollowsReview
  <2> SUFFICES ASSUME TasksInv, NEW t \in Tasks, NEW n \in Of(t, "draft")
               PROVE  LET review == records[t][records[t][n].of].of
                      IN  /\ records[t][review].good
                          /\ records[t][n].at = records[t][review].at + 2
                          /\ \A m \in Of(t, "attempt") :
                                records[t][m].at < records[t][n].at => m <= records[t][review].of
    BY DEF DraftFollowsReview
  <2>1. n \in 1..Len(records[t]) /\ records[t][n].kind = "draft"
    BY TasksAre
  <2>2. RecordInv(t, n)
    BY <2>1 DEF TasksInv, TaskInv
  <2> QED BY <2>1, <2>2 DEF RecordInv, FollowsReview
<1> QED BY <1>1, TasksAreSound, PTL

(* The audit chain of tasks of which none is erased.                       *)
NoneErased == \A t \in Tasks : shown[t] # "erased"

AuditedRecord(t, n) ==
    records[t][n].kind # "lock" => \E k \in DOMAIN audit : audit[k].about = <<t, n>>

TailFits(x) ==
    /\ x.number \in 0..LastNumber
    /\ x.about = IF x.number = 0 THEN <<>> ELSE audit[x.number].about

AuditInv ==
    /\ LastNumber \in Nat /\ DOMAIN audit = 1..LastNumber
    /\ audit = [k \in DOMAIN audit |-> audit[k]]
    /\ \A k \in DOMAIN audit :
          /\ audit[k].prev = IF k = 1 THEN <<>> ELSE audit[k - 1].about
          /\ \E t \in Tasks : \E n \in 0..Len(records[t]) : audit[k].about = <<t, n>>
    /\ \A k, l \in DOMAIN audit :
          audit[k].about = audit[l].about /\ audit[k].about[2] # 0 => k = l
    /\ \A t \in Tasks : \A n \in 1..Len(records[t]) : AuditedRecord(t, n)
    /\ \A c \in Requesters :
          asked[c].kind # "none" => asked[c].tail = {} \/ \E x : asked[c].tail = {x} /\ TailFits(x)

ChainsInv == TasksInv /\ (NoneErased => AuditInv)

LEMMA TailIs ==
    ASSUME NEW A, NEW N \in Nat, DOMAIN A = 1..N, A = [k \in DOMAIN A |-> A[k]]
    PROVE  (IF A = <<>> THEN 0 ELSE Newest(DOMAIN A)) = N
<1>1. CASE N = 0
  <2>1. DOMAIN A = {}
    BY <1>1
  <2>2. A = <<>>
    BY <2>1
  <2> QED BY <1>1, <2>2
<1>2. CASE N > 0
  <2>1. N \in DOMAIN A /\ \A m \in DOMAIN A : m <= N
    BY <1>2
  <2>2. A # <<>>
    BY <2>1
  <2>3. \A m \in DOMAIN A : (\A k \in DOMAIN A : k <= m) => m = N
    BY <2>1
  <2>4. Newest(DOMAIN A) = N
    BY <2>1, <2>3 DEF Newest
  <2> QED BY <2>2, <2>4
<1> QED BY <1>1, <1>2

(* The next event names the last one.                                      *)
LEMMA AuditGrows ==
    ASSUME AuditInv, NEW tail, TailFits(tail), Free(tail), NEW about,
           audit' = Extended(tail, about)
    PROVE  /\ LastNumber' = LastNumber + 1 /\ DOMAIN audit' = 1..LastNumber + 1
           /\ audit' = [k \in DOMAIN audit' |-> audit'[k]]
           /\ \A k \in DOMAIN audit : audit'[k] = audit[k]
           /\ audit'[LastNumber + 1].about = about
           /\ audit'[LastNumber + 1].prev =
                  IF LastNumber = 0 THEN <<>> ELSE audit[LastNumber].about
<1>1. PICK N \in Nat : N = LastNumber
  BY DEF AuditInv
<1>2. DOMAIN audit = 1..N
  BY <1>1 DEF AuditInv
<1>3. tail.number = N
  BY <1>1, <1>2 DEF TailFits, Free
<1>4. audit' = [k \in 1..N + 1 |->
                  IF k \in 1..N THEN audit[k] ELSE [about |-> about, prev |-> tail.about]]
  <2>1. 1..N \cup {N + 1} = 1..N + 1
    OBVIOUS
  <2> QED BY <1>2, <1>3, <2>1 DEF Extended
<1>5. DOMAIN audit' = 1..N + 1 /\ audit' = [k \in DOMAIN audit' |-> audit'[k]]
  BY <1>4
<1>6. LastNumber' = N + 1
  BY <1>5, TailIs, N + 1 \in Nat DEF LastNumber
<1>7. /\ \A k \in 1..N : audit'[k] = audit[k]
      /\ audit'[N + 1] = [about |-> about, prev |-> tail.about]
  BY <1>4
<1>8. tail.about = IF N = 0 THEN <<>> ELSE audit[N].about
  BY <1>1, <1>3 DEF TailFits
<1> QED BY <1>1, <1>2, <1>5, <1>6, <1>7, <1>8

LEMMA TailEventFits == ASSUME AuditInv PROVE TailFits(TailEvent)
<1>1. PICK N \in Nat : N = LastNumber
  BY DEF AuditInv
<1> QED BY <1>1 DEF TailFits, TailEvent

(* What the audit events are about.                                        *)
LEMMA AuditedKept ==
    ASSUME TasksInv, AuditInv, UNCHANGED audit, DOMAIN asked' = Requesters,
           \A t \in Tasks :
              /\ Len(records'[t]) \in Nat /\ Len(records[t]) <= Len(records'[t])
              /\ \A n \in 1..Len(records'[t]) :
                    \/ n \in 1..Len(records[t]) /\ records'[t][n] = records[t][n]
                    \/ records'[t][n].kind = "lock",
           \A c \in Requesters :
              asked'[c].kind # "none" =>
                 \/ asked'[c].tail = {}
                 \/ asked'[c].tail = asked[c].tail /\ asked[c].kind # "none"
                 \/ asked'[c].tail = {TailEvent}
    PROVE  AuditInv'
<1>1. PICK N \in Nat : N = LastNumber
  BY DEF AuditInv
<1>2. LastNumber' = N /\ audit' = audit
  BY <1>1 DEF LastNumber
<1>3. ASSUME NEW c \in Requesters, asked'[c].kind # "none"
      PROVE  asked'[c].tail = {} \/ \E x : asked'[c].tail = {x} /\ TailFits(x)'
  <2>1. \A x : TailFits(x) => TailFits(x)'
    BY <1>1, <1>2 DEF TailFits
  <2>2. PICK e : e = TailEvent
    OBVIOUS
  <2>3. TailFits(e)
    BY <2>2, TailEventFits
  <2>4. CASE asked'[c].tail = {e}
    BY <2>1, <2>3, <2>4
  <2>5. CASE asked'[c].tail = asked[c].tail /\ asked[c].kind # "none"
    BY <2>1, <2>5 DEF AuditInv
  <2> QED BY <1>3, <2>2, <2>4, <2>5
<1>4. ASSUME NEW t \in Tasks, NEW n \in 1..Len(records'[t])
      PROVE  AuditedRecord(t, n)'
  BY <1>2 DEF AuditInv, AuditedRecord
<1>5. ASSUME NEW k \in DOMAIN audit
      PROVE  (\E t \in Tasks : \E n \in 0..Len(records'[t]) : audit[k].about = <<t, n>>)
  <2>0. PICK t \in Tasks : \E n \in 0..Len(records[t]) : audit[k].about = <<t, n>>
    BY DEF AuditInv
  <2>1. PICK n \in 0..Len(records[t]) : audit[k].about = <<t, n>>
    BY <2>0
  <2>2. n \in 0..Len(records'[t])
    BY <2>1, TasksAre
  <2> QED BY <2>1, <2>2
<1> QED BY <1>1, <1>2, <1>3, <1>4, <1>5 DEF AuditInv

LEMMA AuditedGrown ==
    ASSUME TasksInv, AuditInv, DOMAIN asked' = Requesters,
           NEW tail, TailFits(tail), Free(tail), NEW t \in Tasks, NEW m \in Nat,
           audit' = Extended(tail, <<t, m>>),
           m = 0 \/ m = Len(records[t]) + 1,
           Len(records'[t]) \in Nat, m <= Len(records'[t]),
           \A u \in Tasks :
              /\ Len(records'[u]) \in Nat /\ Len(records[u]) <= Len(records'[u])
              /\ \A n \in 1..Len(records'[u]) :
                    \/ n \in 1..Len(records[u]) /\ records'[u][n] = records[u][n]
                    \/ u = t /\ n = m,
           \A c \in Requesters : asked'[c] = asked[c] \/ asked'[c].kind = "none"
    PROVE  AuditInv'
<1>1. PICK N \in Nat : N = LastNumber
  BY DEF AuditInv
<1>2. /\ LastNumber' = N + 1 /\ DOMAIN audit' = 1..N + 1 /\ DOMAIN audit = 1..N
      /\ audit' = [k \in DOMAIN audit' |-> audit'[k]]
      /\ \A k \in 1..N : audit'[k] = audit[k]
      /\ audit'[N + 1].about = <<t, m>>
      /\ audit'[N + 1].prev = IF N = 0 THEN <<>> ELSE audit[N].about
  BY <1>1, AuditGrows DEF AuditInv
<1>3. \A k \in 1..N + 1 : k \in 1..N \/ k = N + 1
  OBVIOUS
<1>4. ASSUME NEW k \in 1..N + 1
      PROVE  audit'[k].prev = IF k = 1 THEN <<>> ELSE audit'[k - 1].about
  <2>1. CASE k \in 1..N
    <3>1. audit[k].prev = IF k = 1 THEN <<>> ELSE audit[k - 1].about
      BY <1>2, <2>1 DEF AuditInv
    <3>2. k # 1 => k - 1 \in 1..N
      BY <2>1
    <3> QED BY <1>2, <2>1, <3>1, <3>2
  <2>2. CASE k = N + 1
    <3>1. k # 1 => k - 1 = N /\ N \in 1..N /\ N # 0
      BY <2>2
    <3>2. k = 1 => N = 0
      BY <2>2
    <3> QED BY <1>2, <2>2, <3>1, <3>2
  <2> QED BY <1>3, <2>1, <2>2
<1>5. ASSUME NEW k \in 1..N + 1
      PROVE  (\E u \in Tasks : \E n \in 0..Len(records'[u]) : audit'[k].about = <<u, n>>)
  <2>1. CASE k \in 1..N
    <3>0. PICK u \in Tasks : \E n \in 0..Len(records[u]) : audit[k].about = <<u, n>>
      BY <1>2, <2>1 DEF AuditInv
    <3>1. PICK n \in 0..Len(records[u]) : audit[k].about = <<u, n>>
      BY <3>0
    <3>2. n \in 0..Len(records'[u])
      BY <3>1, TasksAre
    <3> QED BY ZenonT(60), <1>2, <2>1, <3>1, <3>2
  <2>2. CASE k = N + 1
    <3>1. m \in 0..Len(records'[t])
      OBVIOUS
    <3> QED BY <1>2, <2>2, <3>1
  <2> QED BY <1>3, <2>1, <2>2
<1>6. ASSUME NEW k \in 1..N, m # 0
      PROVE  audit[k].about # <<t, m>>
  <2>0. PICK u \in Tasks : \E n \in 0..Len(records[u]) : audit[k].about = <<u, n>>
    BY <1>2 DEF AuditInv
  <2>1. PICK n \in 0..Len(records[u]) : audit[k].about = <<u, n>>
    BY <2>0
  <2>2. Len(records[u]) \in Nat /\ (u = t => n # m)
    BY <1>6, <2>1, TasksAre
  <2> QED BY <2>1, <2>2
<1>7. ASSUME NEW k \in 1..N + 1, NEW l \in 1..N + 1, audit'[k].about = audit'[l].about,
             audit'[k].about[2] # 0
      PROVE  k = l
  <2>1. CASE k \in 1..N /\ l \in 1..N
    <3>1. audit[k].about = audit[l].about /\ audit[k].about[2] # 0
      BY <1>2, <1>7, <2>1
    <3> QED BY <1>2, <2>1, <3>1 DEF AuditInv
  <2>2. CASE k = N + 1 \/ l = N + 1
    <3>1. <<t, m>>[2] = m
      OBVIOUS
    <3>2. m # 0
      BY <1>2, <1>7, <2>2, <3>1
    <3> QED BY ZenonT(60), <1>2, <1>3, <1>6, <1>7, <2>2, <3>2
  <2> QED BY <1>3, <2>1, <2>2
<1>8. ASSUME NEW u \in Tasks, NEW n \in 1..Len(records'[u])
      PROVE  AuditedRecord(u, n)'
  <2>1. CASE n \in 1..Len(records[u]) /\ records'[u][n] = records[u][n]
    <3>1. AuditedRecord(u, n)
      BY <2>1 DEF AuditInv
    <3>2. 1..N \subseteq 1..N + 1
      OBVIOUS
    <3> QED BY <1>2, <2>1, <3>1, <3>2 DEF AuditedRecord
  <2>2. CASE u = t /\ n = m
    <3>1. N + 1 \in DOMAIN audit'
      BY <1>2
    <3> QED BY <1>2, <2>2, <3>1 DEF AuditedRecord
  <2> QED BY <2>1, <2>2
<1>9. ASSUME NEW c \in Requesters, asked'[c].kind # "none"
      PROVE  asked'[c].tail = {} \/ \E x : asked'[c].tail = {x} /\ TailFits(x)'
  <2>1. asked'[c] = asked[c] /\ asked[c].kind # "none"
    BY <1>9
  <2>2. ASSUME NEW x, TailFits(x)
        PROVE  TailFits(x)'
    <3>1. x.number \in 0..N /\ x.about = IF x.number = 0 THEN <<>> ELSE audit[x.number].about
      BY <1>1, <2>2 DEF TailFits
    <3>2. x.number \in 0..N + 1 /\ (x.number # 0 => x.number \in 1..N)
      BY <3>1
    <3> QED BY <1>2, <3>1, <3>2 DEF TailFits
  <2> QED BY <2>1, <2>2 DEF AuditInv
<1>10. LastNumber' \in Nat /\ DOMAIN audit' = 1..LastNumber'
  BY <1>2
<1>11. \A k \in DOMAIN audit' :
          /\ audit'[k].prev = IF k = 1 THEN <<>> ELSE audit'[k - 1].about
          /\ \E u \in Tasks : \E n \in 0..Len(records'[u]) : audit'[k].about = <<u, n>>
  <2>1. \A k : k \in DOMAIN audit' <=> k \in 1..N + 1
    BY <1>2
  <2>2. \A k \in 1..N + 1 : \E u \in Tasks : \E n \in 0..Len(records'[u]) :
            audit'[k].about = <<u, n>>
    BY <1>5
  <2> QED BY <1>4, <2>1, <2>2, Zenon
<1>12. \A k, l \in DOMAIN audit' :
          audit'[k].about = audit'[l].about /\ audit'[k].about[2] # 0 => k = l
  BY <1>2, <1>7
<1> QED BY <1>2, <1>8, <1>9, <1>10, <1>11, <1>12 DEF AuditInv

LEMMA CommitAudit ==
    ASSUME TasksInv, AuditInv, NEW c \in Requesters, Commit(c)
    PROVE  AuditInv'
<1>1. PICK a : a = asked[c]
  OBVIOUS
<1>2. a.kind # "none" /\ RequestInv(c) /\ a.task \in Tasks
  BY <1>1 DEF Commit, TasksInv, RequestInv
<1>3. PICK t \in Tasks : t = a.task
  BY <1>2
<1>4. /\ DOMAIN asked' = Requesters
      /\ \A d \in Requesters : asked'[d] = asked[d] \/ asked'[d].kind = "none"
  BY DEF Commit, TasksInv, NothingAsked
<1>5. \A u \in Tasks : Len(records[u]) \in Nat
  BY TasksAre
<1>6. PICK tail : tail = IF a.kind \in Locking THEN TailEvent ELSE CHOOSE x \in a.tail : TRUE
  OBVIOUS
<1>7. CASE ~Accepts(a, tail)
  <2>1. UNCHANGED <<records, audit>>
    BY <1>1, <1>6, <1>7 DEF Commit
  <2> QED BY <1>4, <1>5, <2>1, AuditedKept
<1>8. CASE Accepts(a, tail)
  <2>1. PICK m \in Nat : m = Len(records[t]) + 1
    BY <1>5
  <2>2. PICK r : r = RecordOf(a)
    OBVIOUS
  <2>3. /\ audit' = Extended(tail, <<t, m>>) /\ Free(tail)
        /\ records' = [records EXCEPT ![t] = Append(@, r)]
    BY <1>1, <1>3, <1>6, <1>8, <2>1, <2>2 DEF Commit, Accepts
  <2>4. TailFits(tail)
    <3>1. CASE a.kind \in Locking
      BY <1>6, <3>1, TailEventFits
    <3>2. CASE a.kind \notin Locking
      <4>1. a.tail # {}
        BY <1>1, <3>2 DEF Commit
      <4>2. PICK x : a.tail = {x} /\ TailFits(x)
        BY <1>1, <1>2, <4>1 DEF AuditInv
      <4>3. tail = x
        BY <1>6, <3>2, <4>2
      <4> QED BY <4>2, <4>3
    <3> QED BY <3>1, <3>2
  <2>5. /\ \A u \in Tasks \ {t} : records'[u] = records[u]
        /\ Len(records'[t]) = m /\ \A n \in 1..Len(records[t]) : records'[t][n] = records[t][n]
    BY <2>1, <2>3, RecordAdded
  <2>6. ASSUME NEW u \in Tasks
        PROVE  /\ Len(records'[u]) \in Nat /\ Len(records[u]) <= Len(records'[u])
               /\ \A n \in 1..Len(records'[u]) :
                     \/ n \in 1..Len(records[u]) /\ records'[u][n] = records[u][n]
                     \/ u = t /\ n = m
    <3>1. CASE u = t
      BY <1>5, <2>1, <2>5, <3>1
    <3>2. CASE u # t
      BY <1>5, <2>5, <3>2
    <3> QED BY <3>1, <3>2
  <2> QED BY <1>4, <2>1, <2>3, <2>4, <2>5, <2>6, AuditedGrown
<1> QED BY <1>7, <1>8

LEMMA VisibilityAudit ==
    ASSUME TasksInv, AuditInv, NEW t \in Tasks, ChangeVisibility(t)
    PROVE  AuditInv'
<1>1. PICK tail : tail = TailEvent
  OBVIOUS
<1>2. /\ audit' = Extended(tail, <<t, 0>>) /\ records' = records /\ asked' = asked
  BY <1>1 DEF ChangeVisibility
<1>3. TailFits(tail) /\ Free(tail)
  <2>1. PICK N \in Nat : N = LastNumber /\ DOMAIN audit = 1..N
    BY DEF AuditInv
  <2>2. tail.number = N
    BY <1>1, <2>1 DEF TailEvent
  <2> QED BY <1>1, <2>1, <2>2, TailEventFits DEF Free
<1>4. \A u \in Tasks : Len(records[u]) \in Nat
  BY TasksAre
<1> QED BY <1>2, <1>3, <1>4, AuditedGrown DEF TasksInv

LEMMA LockAudit ==
    ASSUME TasksInv, AuditInv, NEW t \in Tasks, Lock(t)
    PROVE  AuditInv'
<1>1. PICK r : r = [kind |-> "lock", of |-> 0, at |-> Len(states[t]), number |-> 0,
                    good |-> TRUE]
  OBVIOUS
<1>2. records' = [records EXCEPT ![t] = Append(@, r)] /\ audit' = audit /\ asked' = asked
  BY <1>1 DEF Lock
<1>3. \A u \in Tasks : Len(records[u]) \in Nat
  BY TasksAre
<1>4. /\ \A u \in Tasks \ {t} : records'[u] = records[u]
      /\ Len(records'[t]) = Len(records[t]) + 1 /\ records'[t][Len(records[t]) + 1] = r
      /\ \A n \in 1..Len(records[t]) : records'[t][n] = records[t][n]
  BY <1>2, RecordAdded
<1>5. ASSUME NEW u \in Tasks
      PROVE  /\ Len(records'[u]) \in Nat /\ Len(records[u]) <= Len(records'[u])
             /\ \A n \in 1..Len(records'[u]) :
                   \/ n \in 1..Len(records[u]) /\ records'[u][n] = records[u][n]
                   \/ records'[u][n].kind = "lock"
  <2>1. CASE u = t
    <3>1. r.kind = "lock"
      BY <1>1
    <3>2. \A n \in 1..Len(records[t]) + 1 : n \in 1..Len(records[t]) \/ n = Len(records[t]) + 1
      BY <1>3
    <3> QED BY <1>3, <1>4, <2>1, <3>1, <3>2
  <2>2. CASE u # t
    BY <1>3, <1>4, <2>2
  <2> QED BY <2>1, <2>2
<1> QED BY <1>2, <1>5, AuditedKept DEF TasksInv

(* A request that has read leaves everything else alone.                   *)
OnlyAsks(c) ==
    /\ UNCHANGED <<states, records, shown, audit, verified>>
    /\ \E a : asked' = [asked EXCEPT ![c] = a] /\ a.tail = {}

LEMMA AskForIs ==
    ASSUME NEW c, NEW t, NEW what, NEW of, NEW path, NEW number, NEW good,
           AskFor(c, t, what, of, path, number, good)
    PROVE  OnlyAsks(c)
<1>1. PICK a : a = [kind |-> what, task |-> t, of |-> of, path |-> path,
                    seen |-> Len(states[t]), number |-> number, good |-> good, tail |-> {}]
  OBVIOUS
<1>2. a.tail = {}
  BY <1>1
<1> QED BY <1>1, <1>2 DEF AskFor, OnlyAsks

LEMMA RequestIsAsk ==
    ASSUME NEW c \in Requesters, NEW t \in Tasks, TaskRequest(c, t)
    PROVE  OnlyAsks(c)
<1>1. CASE Approve(c, t)
  BY <1>1, AskForIs DEF Approve
<1>2. CASE Start(c, t)
  BY <1>2, AskForIs DEF Start
<1>3. CASE StartNextAttempt(c, t)
  BY <1>3, AskForIs DEF StartNextAttempt
<1>4. CASE Review(c, t)
  BY <1>4, AskForIs DEF Review
<1>5. CASE CreateIntent(c, t)
  BY <1>5, AskForIs DEF CreateIntent
<1>6. CASE Confirm(c, t)
  BY <1>6, AskForIs DEF Confirm
<1>7. CASE Ingest(c, t)
  BY <1>7, AskForIs DEF Ingest
<1> QED BY <1>1, <1>2, <1>3, <1>4, <1>5, <1>6, <1>7 DEF TaskRequest

LEMMA ChainsInitial == EvidenceInit => ChainsInv
<1> SUFFICES ASSUME EvidenceInit
             PROVE  AuditInv
  BY TasksInitial DEF ChainsInv
<1>1. /\ audit = <<>> /\ DOMAIN audit = {} /\ LastNumber = 0
      /\ \A t \in Tasks : Len(records[t]) = 0
      /\ \A c \in Requesters : asked[c].kind = "none"
  BY DEF EvidenceInit, LastNumber, NothingAsked
<1>2. audit = [k \in DOMAIN audit |-> audit[k]]
  BY <1>1
<1>3. 1..0 = {}
  OBVIOUS
<1> QED BY <1>1, <1>2, <1>3 DEF AuditInv

LEMMA ChainsStep == ChainsInv /\ [EvidenceNext]_evidenceVars => ChainsInv'
<1> SUFFICES ASSUME ChainsInv, [EvidenceNext]_evidenceVars, NoneErased'
             PROVE  AuditInv'
  BY TasksStep DEF ChainsInv
<1>0. TasksInv
  BY DEF ChainsInv
<1>1. \A t \in Tasks : ~Erase(t)
  BY <1>0 DEF Erase, NoneErased, TasksInv
<1>2. AuditInv
  <2>1. NoneErased
    <3>1. CASE \E t \in Tasks : ChangeVisibility(t)
      BY <1>0, <3>1 DEF ChangeVisibility, Shifts, NoneErased, TasksInv
    <3>2. CASE UNCHANGED shown
      BY <3>2 DEF NoneErased
    <3>3. UNCHANGED shown \/ \E t \in Tasks : ChangeVisibility(t)
      BY <1>1, RequestIsAsk DEF EvidenceNext, OnlyAsks, Prepare, Commit, Lock, FinishVerify,
         Replan, evidenceVars
    <3> QED BY <3>1, <3>2, <3>3
  <2> QED BY <2>1 DEF ChainsInv
<1>3. \A u \in Tasks : Len(records[u]) \in Nat
  BY <1>0, TasksAre
<1>4. ASSUME UNCHANGED <<records, audit>>, DOMAIN asked' = Requesters,
             \A c \in Requesters : \/ asked'[c] = asked[c] \/ asked'[c].tail = {}
                                   \/ asked'[c].tail = {TailEvent}
      PROVE  AuditInv'
  BY <1>0, <1>2, <1>3, <1>4, AuditedKept
<1>5. ASSUME NEW c \in Requesters, NEW t \in Tasks, TaskRequest(c, t)
      PROVE  AuditInv'
  <2>1. PICK a : asked' = [asked EXCEPT ![c] = a] /\ a.tail = {} /\ UNCHANGED <<records, audit>>
    BY <1>5, RequestIsAsk DEF OnlyAsks
  <2> QED BY <1>0, <1>4, <2>1 DEF TasksInv
<1>6. ASSUME NEW c \in Requesters, Prepare(c)
      PROVE  AuditInv'
  <2>1. /\ asked' = [asked EXCEPT ![c].tail = {TailEvent}] /\ UNCHANGED <<records, audit>>
        /\ asked[c].kind # "none"
    BY <1>6 DEF Prepare
  <2>2. PICK a : a = asked[c]
    OBVIOUS
  <2>3. a = [f \in AskFields |-> a[f]]
    BY <1>0, <2>1, <2>2 DEF TasksInv, RequestInv
  <2>4. asked'[c].tail = {TailEvent}
    BY <1>0, <2>1, <2>2, <2>3 DEF TasksInv, AskFields
  <2> QED BY <1>0, <1>4, <2>1, <2>4 DEF TasksInv
<1>7. ASSUME NEW c \in Requesters, Commit(c)
      PROVE  AuditInv'
  BY <1>0, <1>2, <1>7, CommitAudit
<1>8. ASSUME NEW t \in Tasks, Lock(t) \/ ChangeVisibility(t)
      PROVE  AuditInv'
  BY <1>0, <1>2, <1>8, LockAudit, VisibilityAudit
<1>9. ASSUME NEW t \in Tasks, FinishVerify(t) \/ Replan(t)
      PROVE  AuditInv'
  BY <1>0, <1>4, <1>9 DEF FinishVerify, Replan, TasksInv
<1>10. CASE UNCHANGED evidenceVars
  BY <1>0, <1>4, <1>10 DEF evidenceVars, TasksInv
<1> QED BY <1>1, <1>5, <1>6, <1>7, <1>8, <1>9, <1>10 DEF EvidenceNext

LEMMA ChainsAreSound == EvidenceSpec => []ChainsInv
<1> QED BY ChainsInitial, ChainsStep, PTL DEF EvidenceSpec

LEMMA OneEvent ==
    ASSUME AuditInv, NEW t \in Tasks, NEW n \in 1..Len(records[t]), records[t][n].kind # "lock"
    PROVE  AuditOK /\ OneEventAbout(t, n)
<1>1. AuditOK
  BY DEF AuditInv, AuditOK
<1>2. PICK k \in DOMAIN audit : audit[k].about = <<t, n>>
  BY DEF AuditInv, AuditedRecord
<1>3. ASSUME NEW l \in DOMAIN audit, audit[l].about = <<t, n>>
      PROVE  l = k
  <2>1. <<t, n>>[2] # 0
    OBVIOUS
  <2>2. audit[k].about = audit[l].about /\ audit[k].about[2] # 0
    BY <1>2, <1>3, <2>1
  <2>3. \A i, j \in DOMAIN audit : audit[i].about = audit[j].about /\ audit[i].about[2] # 0 => i = j
    BY DEF AuditInv
  <2> QED BY <2>2, <2>3
<1>4. {l \in DOMAIN audit : audit[l].about = <<t, n>>} = {k}
  BY <1>2, <1>3
<1>5. Cardinality({k}) = 1
  BY FS_Singleton
<1> QED BY <1>1, <1>4, <1>5 DEF OneEventAbout

(* Whatever the requests of any number of tasks do, a record that was      *)
(* committed passes every check its readers repeat, as long as no task has *)
(* been erased (get_verified of approvals.py, executions.py, reviews.py).  *)
THEOREM RecordsStayAccepted == EvidenceSpec => []RecordsAccepted
<1>1. ChainsInv => RecordsAccepted
  <2> SUFFICES ASSUME ChainsInv, NoneErased, NEW t \in Tasks, shown[t] = "active",
                      NEW n \in DOMAIN records[t]
               PROVE  Accepted(t, n)
    BY DEF RecordsAccepted, NoneErased, Readable
  <2>1. TasksInv /\ AuditInv
    BY DEF ChainsInv
  <2>2. /\ DOMAIN records[t] = 1..Len(records[t])
        /\ \A m, what : m \in Of(t, what) <=> m \in 1..Len(records[t]) /\ records[t][m].kind = what
    BY <2>1, TasksAre
  <2>3. \A m \in 1..Len(records[t]) : RecordInv(t, m)
    BY <2>1 DEF TasksInv, TaskInv
  <2>4. \A m \in Of(t, "lock") : LockOK(t, m)
    BY DEF LockOK
  <2>5. ASSUME NEW m \in Of(t, "approval")
        PROVE  ApprovalOK(t, m)
    <3>1. AuditOK /\ OneEventAbout(t, m)
      BY <2>1, <2>2, OneEvent
    <3>2. RecordInv(t, m) /\ records[t][m].kind = "approval"
      BY <2>2, <2>3
    <3>3. /\ records[t][m].of \in Of(t, "lock")
          /\ records[t][m].at = records[t][records[t][m].of].at + 1
          /\ states[t][records[t][m].at - 1] = "planning"
          /\ states[t][records[t][m].at] = "plan_approved"
      BY <3>2 DEF RecordInv, PhaseAt
    <3> QED BY <2>4, <3>1, <3>3 DEF ApprovalOK
  <2>6. ASSUME NEW m \in Of(t, "attempt")
        PROVE  AttemptOK(t, m)
    <3>1. AuditOK /\ OneEventAbout(t, m)
      BY <2>1, <2>2, OneEvent
    <3>2. RecordInv(t, m) /\ records[t][m].kind = "attempt"
      BY <2>2, <2>3
    <3>3. StartedLegally(t, m)
      BY <3>2 DEF StartedLegally, RecordInv, PhaseAt
    <3> QED BY <2>5, <3>1, <3>2, <3>3 DEF AttemptOK, RecordInv
  <2>7. ASSUME NEW m \in Of(t, "review")
        PROVE  ReviewOK(t, m)
    BY <2>2, <2>3, <2>6 DEF ReviewOK, RecordInv
  <2>8. ASSUME NEW m \in Of(t, "intent")
        PROVE  IntentOK(t, m)
    BY <2>2, <2>3, <2>7 DEF IntentOK, RecordInv
  <2>9. /\ n \in Of(t, records[t][n].kind) /\ RecordInv(t, n)
    BY <2>2, <2>3
  <2>10. records[t][n].kind = "draft" => IntentOK(t, records[t][n].of)
    BY <2>8, <2>9 DEF RecordInv
  <2>11. records[t][n].kind \in
            {"lock", "approval", "attempt", "review", "intent", "draft", "event"}
    BY <2>9 DEF RecordInv
  <2> QED BY <2>4, <2>5, <2>6, <2>7, <2>8, <2>9, <2>10, <2>11 DEF Accepted, NewsOK
<1> QED BY <1>1, ChainsAreSound, PTL

(* Both, for every value of the constants: the records of a task can be    *)
(* read again and say what happened to it.                                 *)
THEOREM RecordsKeepHolding == EvidenceSpec => []RecordsHold
<1>1. RecordsAccepted /\ DraftFollowsReview => RecordsHold
  BY DEF RecordsHold
<1> QED BY <1>1, DraftsFollowReviews, RecordsStayAccepted, PTL
=============================================================================

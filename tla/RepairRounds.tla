---------------------------- MODULE RepairRounds ----------------------------
(***************************************************************************)
(* The change of one approved plan through its repair rounds: what the     *)
(* model is shown, what it proposes, what is made of the proposal and what *)
(* the sandbox does with it (app/coding_repair.py, coding.py, changesets.py*)
(* proposal_validation.py, sandbox_worker/implementation.py).              *)
(*                                                                         *)
(* Every round starts again from the original files.  A repair round shows *)
(* the model a view, the original files with the change of the round       *)
(* before laid over them; the edits it makes to that view are turned back  *)
(* into one cumulative change of the original files.  A file is a content  *)
(* and a mode; a hash is the content it stands for and says nothing of the *)
(* mode.                                                                   *)
(***************************************************************************)
EXTENDS Naturals

CONSTANTS
    Paths,      \* the files the plan may change
    Contents,   \* what a file may contain
    Missing,    \* a file that does not exist, and its hash
    MaxRepairs  \* repair rounds (the automation allows 2)

ASSUME RepairAssumption == MaxRepairs \in Nat /\ Missing \notin Contents

VARIABLES
    base,       \* the files of the approved commit
    reviewed,   \* the files as the last Implement left them
    previous,   \* the change set that Implement applied
    edits,      \* the operations proposed in this round, by path
    changeset,  \* the cumulative change set made of them
    repairs,
    phase       \* "propose", "accepted", "implemented" or how the round ended

repairVars == <<base, reviewed, previous, edits, changeset, repairs, phase>>

Files == [content : Contents, executable : BOOLEAN]
NoChange == [p \in {} |-> Missing]
Hash(entry) == IF entry = Missing THEN Missing ELSE entry.content

RepairInit ==
    /\ base \in [Paths -> Files \cup {Missing}]
    /\ reviewed = base
    /\ previous = NoChange
    /\ edits = NoChange
    /\ changeset = NoChange
    /\ repairs = 0
    /\ phase = "propose"

-----------------------------------------------------------------------------
(* Operations.                                                             *)

Write(prior, file) == [kind |-> "write", prior |-> prior, file |-> file]
Delete(prior)      == [kind |-> "delete", prior |-> prior, file |-> Missing]

(* A change set names no path twice and is not empty.                      *)
ChangeSetOK(operations) == DOMAIN operations # {}

(* The files after the operations, or what the model is shown of them.     *)
Overlay(files, operations) ==
    [p \in Paths |-> IF p \in DOMAIN operations THEN operations[p].file ELSE files[p]]

(* Mutant of View: a file deleted in the round before is still shown.      *)
ViewUndeleted ==
    LET kept == {p \in DOMAIN previous : previous[p].kind = "write"}
    IN  Overlay(base, [p \in kept |-> previous[p]])

View == Overlay(base, previous)

-----------------------------------------------------------------------------
(* A draft: at most one operation per path.  The model copies a hash that  *)
(* it was shown, in this round or in the first.                            *)

Drafts(p) ==
    [kind : {"edit", "write"}, prior : {Hash(View[p]), Hash(base[p])}, file : Files]
        \cup [kind : {"delete"}, prior : {Hash(View[p]), Hash(base[p])}, file : {Missing}]

(* check_proposal_structure and the tests of the parser.  Edits and        *)
(* appended text need the content they start from.                         *)
WellFormed(p, draft) ==
    /\ draft.prior = Hash(View[p])
    /\ draft.kind \in {"edit", "delete"} => View[p] # Missing

(* An edit keeps the mode of the file it edits.                            *)
Parsed(p, draft) ==
    IF draft.kind = "delete" THEN Delete(draft.prior)
    ELSE Write(draft.prior,
               IF draft.kind = "edit"
               THEN [draft.file EXCEPT !.executable = View[p].executable] ELSE draft.file)

(* Mutant of Cumulative: only the edits of this round are kept.            *)
CumulativeForgets(operations) ==
    [p \in DOMAIN operations |-> [operations[p] EXCEPT !.prior = Hash(base[p])]]

(* The edits laid over the change of the round before, bound to the        *)
(* original files again.  Deleting a file that a round before had added    *)
(* takes the addition back.                                                *)
Cumulative(operations) ==
    LET undone == {p \in DOMAIN operations :
                      operations[p].kind = "delete" /\ base[p] = Missing}
    IN  [p \in (DOMAIN previous \cup DOMAIN operations) \ undone |->
            IF p \in DOMAIN operations THEN [operations[p] EXCEPT !.prior = Hash(base[p])]
                                       ELSE previous[p]]

(* _validate_proposed_operations, against the original files.              *)
Validated(operations) ==
    \A p \in DOMAIN operations : operations[p].kind = "delete" => base[p] # Missing

(* A draft that does not hold is rejected as a whole and may be corrected. *)
Propose ==
    /\ phase = "propose"
    /\ \E P \in SUBSET Paths \ {{}} :
       \E draft \in [P -> UNION {Drafts(p) : p \in P}] :
          LET operations == [p \in P |-> Parsed(p, draft[p])]
          IN  /\ \A p \in P : draft[p] \in Drafts(p) /\ WellFormed(p, draft[p])
              /\ edits' = operations
              /\ changeset' = Cumulative(operations)
              /\ phase' = IF ChangeSetOK(changeset') /\ Validated(changeset')
                          THEN "accepted" ELSE "failed"
    /\ UNCHANGED <<base, reviewed, previous, repairs>>

-----------------------------------------------------------------------------
(* Implement, in a workspace made of the original files.                   *)

PriorOK(operation, entry) ==
    IF operation.prior = Missing THEN entry = Missing
                                 ELSE entry # Missing /\ Hash(entry) = operation.prior

Changed(before, after) == {p \in Paths : before[p] # after[p]}

(* The inspection must find exactly the paths of the change set changed.   *)
Applied(after) ==
    /\ \A p \in DOMAIN changeset : PriorOK(changeset[p], base[p])
    /\ Changed(base, after) = DOMAIN changeset

Implement ==
    LET after == Overlay(base, changeset)
    IN  /\ phase = "accepted"
        /\ IF Applied(after)
           THEN phase' = "implemented" /\ reviewed' = after
           ELSE phase' = "refused" /\ UNCHANGED reviewed
        /\ UNCHANGED <<base, previous, edits, changeset, repairs>>

(* The review blocks: the next round repairs the change set that was       *)
(* implemented.                                                            *)
StartRepair ==
    /\ phase = "implemented" /\ repairs < MaxRepairs
    /\ repairs' = repairs + 1
    /\ previous' = changeset
    /\ edits' = NoChange /\ changeset' = NoChange
    /\ phase' = "propose"
    /\ UNCHANGED <<base, reviewed>>

RepairNext == Propose \/ Implement \/ StartRepair

RepairSpec == RepairInit /\ [][RepairNext]_repairVars

-----------------------------------------------------------------------------
(* What the model is shown, and hashes are checked against, is the tree    *)
(* that was implemented and reviewed (coding_repair.py:66-96), file by     *)
(* file, after any number of additions, deletions and changes of mode.     *)
ViewIsReviewed == phase = "propose" => View = reviewed

(* A repair that Implement accepts leaves the reviewed tree with this      *)
(* round's edits and nothing else, though it was applied to the original   *)
(* files (coding_repair.py:99-122).                                        *)
RepairIsExact ==
    [][phase' = "implemented" /\ phase = "accepted" =>
          reviewed' = Overlay(reviewed, edits)]_repairVars

(* "Validate edits against the view, retain previous changes, rebase onto  *)
(* the original" (coding_repair.py:103): edits that were validated, each   *)
(* of which changes the file it was validated against, can be implemented. *)
(* They cannot when they restore an original file.                         *)
ValidatedIsImplemented ==
    phase = "refused" => \E p \in DOMAIN edits : edits[p].file = View[p]
=============================================================================

---------------------------- MODULE JobRowsProofs ----------------------------
(***************************************************************************)
(* What the writes of JobRows do to a row, for any bounds.                 *)
(***************************************************************************)
EXTENDS JobRows, TLAPS

USE JobRowsAssumption

(* Rows the constraints accept.                                            *)
GoodRow == {r \in JobRow : Consistent(r)}

-----------------------------------------------------------------------------
(* Every write to a row yields a row.                                      *)

LEMMA Times == NoLease \in Int /\ Now \in 0 .. RetryDelay
BY DEF NoLease, Now

LEMMA NewRowGood == NoRow \in GoodRow /\ NewRow \in GoodRow
<1>1. NoRow \in JobRow
  BY Times DEF JobRow, NoRow, States
<1>2. NewRow \in JobRow
  BY <1>1 DEF JobRow, NewRow, States
<1>3. Consistent(NoRow) /\ Consistent(NewRow)
  BY DEF Consistent, NoRow, NewRow
<1> QED BY <1>1, <1>2, <1>3 DEF GoodRow

LEMMA LeasedRow ==
    ASSUME NEW row \in JobRow, NEW w \in Workers, NEW age \in Ages,
           Consistent(Leased(row, w, age))
    PROVE  Leased(row, w, age) \in GoodRow
<1> DEFINE r == Leased(row, w, age)
<1>1. r.attempt_count = row.attempt_count + 1
  BY DEF JobRow, Leased
<1>2. row.attempt_count \in 0 .. MaxAttempts
  BY DEF JobRow
<1>3. row.attempt_count + 1 \in 0 .. MaxAttempts
  BY <1>1, <1>2 DEF Consistent
<1>4. LeaseTicks - age \in Int
  BY DEF Ages
<1>5. r \in JobRow
  BY <1>3, <1>4 DEF JobRow, Leased, States, Active
<1> QED BY <1>5 DEF GoodRow

LEMMA StartedRow ==
    ASSUME NEW row \in GoodRow, row.state \in Active
    PROVE  Started(row) \in GoodRow
BY DEF GoodRow, JobRow, Started, Consistent, States, Active, Terminal

LEMMA ExtendedRow ==
    ASSUME NEW row \in GoodRow, row.state \in Active, NEW age \in Ages
    PROVE  Extended(row, age) \in GoodRow
BY DEF GoodRow, JobRow, Extended, Consistent, Ages, Active, Terminal

LEMMA ClosedRow ==
    ASSUME NEW row \in JobRow, NEW outcome \in Terminal
    PROVE  Closed(row, outcome) \in GoodRow
<1>1. Closed(row, outcome) \in JobRow
  BY Times DEF JobRow, Closed, States, Terminal
<1>2. row.attempt_count \in 0 .. MaxAttempts
  BY DEF JobRow
<1>3. /\ Closed(row, outcome).attempt_count = row.attempt_count
      /\ Closed(row, outcome).state = outcome
      /\ Closed(row, outcome).lease_owner = NoWorker
      /\ Closed(row, outcome).completed = TRUE
  BY DEF JobRow, Closed
<1>4. Consistent(Closed(row, outcome))
  BY <1>2, <1>3 DEF Consistent
<1> QED BY <1>1, <1>4 DEF GoodRow

LEMMA RecoveredRow ==
    ASSUME NEW row \in JobRow, NEW d \in {"queued", "cancelled", "timed_out"}
    PROVE  Recovered(row, d) \in JobRow
BY Times DEF JobRow, Recovered, States, Terminal

LEMMA CancelRequestedRow ==
    ASSUME NEW row \in JobRow, NEW b \in BOOLEAN
    PROVE  CancelRequested(row, b) \in JobRow
BY DEF JobRow, CancelRequested, States, Terminal

LEMMA RetriedRow ==
    ASSUME NEW row \in JobRow, NEW b \in BOOLEAN, NEW wait \in 0 .. RetryDelay
    PROVE  Retried(row, b, wait) \in JobRow
BY DEF JobRow, Retried, States

(* Time leaves a row's constrained fields alone.                           *)
LEMMA AgedRow ==
    ASSUME NEW row \in JobRow
    PROVE  /\ Aged(row) \in JobRow
           /\ Consistent(row) => Consistent(Aged(row))
           /\ Aged(row).state = row.state
           /\ Aged(row).lease_owner = row.lease_owner
           /\ Aged(row).attempt_count = row.attempt_count
           /\ Aged(row).cancel_requested = row.cancel_requested
<1>1. row.lease_expires_at \in Int /\ row.run_after \in 0 .. RetryDelay
  BY DEF JobRow
<1>2. Larger(row.lease_expires_at - 1, -MaxAge) \in Int
  BY <1>1 DEF Larger
<1>3. Larger(row.run_after - 1, 0) \in 0 .. RetryDelay
  BY <1>1 DEF Larger
<1>4. Aged(row) \in JobRow
  BY <1>1, <1>2, <1>3 DEF JobRow, Aged
<1>5. /\ Aged(row).state = row.state
      /\ Aged(row).lease_owner = row.lease_owner
      /\ Aged(row).attempt_count = row.attempt_count
      /\ Aged(row).cancel_requested = row.cancel_requested
      /\ Aged(row).completed = row.completed
  BY DEF JobRow, Aged
<1> QED BY <1>4, <1>5 DEF Consistent
=============================================================================

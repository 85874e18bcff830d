----------------------------- MODULE MCJobLease -----------------------------
(***************************************************************************)
(* Instances of JobLease for TLC.                                          *)
(***************************************************************************)
EXTENDS JobLease, TLC

(* Processes of a kind are interchangeable; safety runs may permute them.  *)
ProcessSymmetry == Permutations(Workers) \cup Permutations(Clients)
=============================================================================

-------------------------- MODULE MCExecutionStage --------------------------
(***************************************************************************)
(* Instances of ExecutionStage for TLC.                                    *)
(***************************************************************************)
EXTENDS ExecutionStage, TLC

(* Processes of a kind are interchangeable; safety runs may permute them.  *)
ProcessSymmetry ==
    Permutations(Workers) \cup Permutations(Clients) \cup Permutations(Reapers)
=============================================================================

------------------------- MODULE MCRecoveryExecution -------------------------
(* Processes are interchangeable, and so are provider responses.           *)
EXTENDS RecoveryExecution, TLC

Symmetry == Permutations(Workers) \cup Permutations(Responses)
=============================================================================

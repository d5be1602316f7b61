--------------------------- MODULE MCAttemptLease ---------------------------
(* Holds, reruns, campaigns and the witnesses of one kind are              *)
(* interchangeable.                                                        *)
EXTENDS AttemptLease, TLC

Symmetry == Permutations(Holds) \cup Permutations(Reruns)
              \cup Permutations(Campaigns) \cup Permutations(Witnesses \ Forgetful)
=============================================================================

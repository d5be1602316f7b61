------------------------ MODULE MCProviderCallLedger ------------------------
(* Processes are interchangeable, and so are provider responses, decision  *)
(* cores and the instants of the clock.                                    *)
EXTENDS ProviderCallLedger, TLC

Symmetry == Permutations(Workers) \cup Permutations(Responses)
              \cup Permutations(Cores) \cup Permutations(Instants)
=============================================================================

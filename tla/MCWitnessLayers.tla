-------------------------- MODULE MCWitnessLayers --------------------------
(* Challenges of different groups and authors.  Declarations leave things  *)
(* out and invent none: an invented dependency only adds overlaps.         *)
EXTENDS WitnessLayers, TLC

EachItsOwn == [c \in Challenges |-> c]

MCInit == LayerInit /\ \A x \in DOMAIN upstream : declared[x] \subseteq upstream[x]
MCSpec == MCInit /\ [][LayerNext]_layerVars

Symmetry == Permutations(Challenges)
=============================================================================

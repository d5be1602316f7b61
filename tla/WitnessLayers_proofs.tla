------------------------ MODULE WitnessLayers_proofs ------------------------
(***************************************************************************)
(* What the layers promise of an accepted claim, for any universe, any     *)
(* authorities and any number of documents.  No inductive strengthening is *)
(* needed beyond the types: verification only reads the documents, and     *)
(* that the honest ones are true is part of the types.  The rest is the    *)
(* pigeonhole argument: a quorum larger than the number of liars contains  *)
(* an honest authority, whose document would have raised a doubt.          *)
(***************************************************************************)
EXTENDS WitnessLayers, FiniteSetTheorems, TLAPS

(* Documents keep their types and honest ones stay true.                   *)
THEOREM LayerTypeCorrect == LayerSpec => []LayerTypeOK
<1>1. LayerInit => LayerTypeOK
  BY DEF LayerInit, LayerTypeOK
<1>2. LayerTypeOK /\ [LayerNext]_layerVars => LayerTypeOK'
  <2> SUFFICES ASSUME LayerTypeOK, [LayerNext]_layerVars
               PROVE  LayerTypeOK'
    OBVIOUS
  <2> USE DEF LayerTypeOK
  <2>1. ASSUME NEW x \in Challenges \cup Registries
        PROVE  upstream[x] \in SUBSET Fingerprints
    BY DEF Declarations
  <2>2. ASSUME NEW r \in Registries, Attest(r)
        PROVE  LayerTypeOK'
    <3>1. \A c \in Challenges : TrueAttestation(r, c) \in Attestation
      BY <2>1 DEF TrueAttestation, Attestation, Complete
    <3>2. \A c \in Challenges : LET a == TrueAttestation(r, c) IN a.seen = upstream[a.challenge]
      BY DEF TrueAttestation
    <3> QED BY <2>2, <3>1, <3>2 DEF Attest
  <2>3. ASSUME NEW r \in Registries, NEW c \in Challenges, AttestAtWill(r, c)
        PROVE  LayerTypeOK'
    BY <2>3 DEF AttestAtWill
  <2>4. ASSUME NEW o \in Observers, Observe(o)
        PROVE  LayerTypeOK'
    <3>1. \A r \in Registries : TrueObservation(o, r) \in Observation
      BY <2>1 DEF TrueObservation, Observation, Complete
    <3>2. \A r \in Registries : LET b == TrueObservation(o, r) IN b.seen = upstream[b.registry]
      BY DEF TrueObservation
    <3> QED BY <2>4, <3>1, <3>2 DEF Observe
  <2>5. ASSUME NEW o \in Observers, NEW r \in Registries, ObserveAtWill(o, r)
        PROVE  LayerTypeOK'
    BY <2>5 DEF ObserveAtWill
  <2>6. CASE UNCHANGED layerVars
    BY <2>6 DEF layerVars
  <2> QED BY <2>2, <2>3, <2>4, <2>5, <2>6 DEF LayerNext
<1> QED BY <1>1, <1>2, PTL DEF LayerSpec

(* A quorum that outnumbers the liars has an honest member.                *)
LEMMA QuorumHasHonestMember ==
  ASSUME NEW A, IsFiniteSet(A), NEW Q \in SUBSET A, NEW k \in Nat,
         Cardinality(Q) >= k, Cardinality(A \ Honest) < k
  PROVE  \E w \in Q : w \in Honest
<1> SUFFICES ASSUME Q \subseteq A \ Honest
             PROVE  FALSE
  OBVIOUS
<1>1. IsFiniteSet(A \ Honest)
  <2>1. A \ Honest \in SUBSET A
    OBVIOUS
  <2> QED BY <2>1, FS_Subset
<1>2. Cardinality(Q) <= Cardinality(A \ Honest)
  BY <1>1, FS_Subset
<1>3. Cardinality(Q) \in Nat /\ Cardinality(A \ Honest) \in Nat
  BY <1>1, FS_Subset, FS_CardinalityType
<1> QED BY <1>2, <1>3

(* Among the registries of an accepted challenge an honest one has seen    *)
(* everything the measurement derives from and found it declared.          *)
LEMMA AcceptedDeclarationsAreComplete ==
  ASSUME LayerTypeOK, LiarsAreFew, Accepted, NEW c \in Challenges
  PROVE  upstream[c] \subseteq declared[c]
<1>1. Attesting(c) \in SUBSET Registries
  BY DEF Attesting, LayerTypeOK, Attestation
<1>2. Cardinality(Attesting(c)) >= RegistryQuorum
  BY DEF Accepted, RegistryLayer, RegistryQuorumMet
<1>3. PICK r \in Attesting(c) : r \in Honest
  BY <1>1, <1>2, QuorumHasHonestMember, AuthorityAssumption, QuorumAssumption DEF LiarsAreFew
<1>4. PICK a \in attestations : a.challenge = c /\ a.registry = r
  BY <1>3 DEF Attesting
<1>5. a.seen = upstream[c]
  BY <1>3, <1>4 DEF LayerTypeOK
<1>6. a.seen \subseteq declared[c]
  BY <1>4 DEF Accepted, RegistryLayer, Undoubted
<1> QED BY <1>5, <1>6

(* The dependency groups of an accepted claim are independent.             *)
LEMMA AcceptedGroupsAreIndependent ==
  ASSUME LayerTypeOK, LiarsAreFew, Accepted
  PROVE  GroupsAreIndependent
<1> SUFFICES ASSUME NEW c \in Challenges, NEW d \in Challenges,
                    DependencyGroup[c] # DependencyGroup[d]
             PROVE  upstream[c] \cap upstream[d] = {}
  BY DEF GroupsAreIndependent
<1>1. upstream[c] \subseteq declared[c] /\ upstream[d] \subseteq declared[d]
  BY AcceptedDeclarationsAreComplete
<1>2. declared[c] \cap declared[d] = {}
  BY DEF Accepted, GroupsDisjoint, Disjoint
<1> QED BY <1>1, <1>2

(* The same of a registry that attested something: an honest observer      *)
(* probed it and found what it derives from declared.                      *)
LEMMA AcceptedSourcesAreComplete ==
  ASSUME LayerTypeOK, LiarsAreFew, Accepted, NEW r \in Required
  PROVE  upstream[r] \subseteq declared[r]
<1>1. Probing(r) \in SUBSET Observers
  BY DEF Probing, LayerTypeOK, Observation
<1>2. Cardinality(Probing(r)) >= ObserverQuorum
  BY DEF Accepted, ObservationLayer, ObserverQuorumMet
<1>3. PICK o \in Probing(r) : o \in Honest
  BY <1>1, <1>2, QuorumHasHonestMember, AuthorityAssumption, QuorumAssumption DEF LiarsAreFew
<1>4. PICK b \in observations : b.registry = r /\ b.observer = o
  BY <1>3 DEF Probing
<1>5. b.seen = upstream[r]
  BY <1>3, <1>4 DEF LayerTypeOK
<1>6. b.seen \subseteq declared[r]
  BY <1>4 DEF Accepted, ObservationLayer, Undoubted
<1> QED BY <1>5, <1>6

(* The registries of an accepted challenge are independent.                *)
LEMMA AcceptedRegistriesAreIndependent ==
  ASSUME LayerTypeOK, LiarsAreFew, Accepted
  PROVE  RegistriesAreIndependent
<1> SUFFICES ASSUME NEW c \in Challenges,
                    NEW r \in Attesting(c), NEW s \in Attesting(c), r # s
             PROVE  upstream[r] \cap upstream[s] = {}
  BY DEF RegistriesAreIndependent
<1>1. r \in Required /\ s \in Required
  BY DEF Attesting, Required
<1>2. upstream[r] \subseteq declared[r] /\ upstream[s] \subseteq declared[s]
  BY <1>1, AcceptedSourcesAreComplete
<1>3. declared[r] \cap declared[s] = {}
  BY DEF Accepted, SourcesDisjoint, Disjoint
<1> QED BY <1>2, <1>3

(* Whatever is accepted while liars are few is independent in the world.   *)
THEOREM AcceptedIsAlwaysIndependent == LayerSpec => []AcceptedIsIndependent
<1>1. LayerTypeOK => AcceptedIsIndependent
  BY AcceptedGroupsAreIndependent, AcceptedRegistriesAreIndependent DEF AcceptedIsIndependent
<1> QED BY <1>1, LayerTypeCorrect, PTL

(* A doubt, once there, outlives every document that arrives later.        *)
THEOREM DoubtIsAlwaysFinal == LayerSpec => DoubtIsFinal
<1>1. [LayerNext]_layerVars => [Doubted => Doubted' /\ ~Accepted']_layerVars
  <2> SUFFICES ASSUME [LayerNext]_layerVars, Doubted
               PROVE  Doubted' /\ ~Accepted'
    OBVIOUS
  <2>1. /\ attestations \subseteq attestations' /\ observations \subseteq observations'
        /\ declared' = declared
    BY DEF LayerNext, layerVars, Attest, AttestAtWill, Observe, ObserveAtWill
  <2>2. Required \subseteq Required'
    BY <2>1 DEF Required
  <2>3. Doubted'
    BY <2>1, <2>2 DEF Doubted
  <2>4. (Doubted => ~Accepted)'
    <3>1. CASE \E a \in attestations' : a.sound /\ ~ (a.match /\ a.seen \subseteq declared'[a.challenge])
      BY <3>1 DEF Accepted, RegistryLayer, Undoubted
    <3>2. CASE \E o \in observations' : /\ o.sound /\ o.registry \in Required'
                                        /\ ~ (o.match /\ o.seen \subseteq declared'[o.registry])
      BY <3>2 DEF Accepted, ObservationLayer, Undoubted
    <3> QED BY <3>1, <3>2 DEF Doubted
  <2> QED BY <2>3, <2>4
<1> QED BY <1>1, PTL DEF LayerSpec, DoubtIsFinal
=============================================================================

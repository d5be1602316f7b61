--------------------------- MODULE WitnessLayers ---------------------------
(***************************************************************************)
(* The layers that vouch for the measurements behind held-out challenges,  *)
(* as a WITNESS_REGISTRY_OBSERVATION claim asks for all of them:           *)
(*                                                                         *)
(*   provenance         measurement authorities sign their measurements    *)
(*                      (verify_measurement_universe, src/app/model_adapter.py) *)
(*   ancestry           and declare what each one was derived from         *)
(*                      (verify_dependency_ancestry, dependency_registry.py)    *)
(*   registry           registries attest what they know of it             *)
(*                      (verify_dependency_registry, distributed_execution.py)  *)
(*   registry ancestry  and have declared their own sources                *)
(*                      (verify_registry_ancestry, registry_observation.py)     *)
(*   observation        observers probe the registries' declarations       *)
(*                      (verify_registry_observations, resource_governance.py)  *)
(*                                                                         *)
(* Every declaration is a claim by its author about the world.  The model  *)
(* keeps the world beside the declarations: upstream is what measurements  *)
(* and registries are really derived from.  An honest authority reports    *)
(* what there is, any other one whatever it likes, as often as it likes.   *)
(* Declarations are frozen before the documents arrive, in any order.      *)
(*                                                                         *)
(* A declared graph is the set of its fingerprints (AncestryGraph has the  *)
(* checks of its shape); a root is a fingerprint of its own kind.  What    *)
(* each check of a single document looks at, its signature, the commitment *)
(* of its key, the digests of what it refers to, is its field sound.       *)
(* Key separation is on, and the challenges are those of one atom.         *)
(***************************************************************************)
EXTENDS Integers, FiniteSets

CONSTANTS
    Challenges,         \* the challenge universe, all measured
    DependencyGroup,    \* of each challenge
    Author,             \* the measurement authority of each challenge
    Artifact,           \* measurement_artifact_sha256 of each challenge
    Selected,           \* the challenges drawn from the universe
    Fingerprints,
    Registries,         \* registry_authority_public_keys
    Observers,          \* observer_authority_public_keys
    Honest,             \* registries and observers that report what there is
    MinGroups,          \* minimum_universe_dependency_groups_per_atom
    MinAuthorities,     \* minimum_universe_measurement_authorities_per_atom
    MinSelectedGroups,      \* minimum_selected_dependency_groups_per_atom
    MinSelectedAuthorities, \* minimum_selected_measurement_authorities_per_atom
    RegistryQuorum,     \* registry_authority_quorum_per_challenge
    ObserverQuorum,     \* observer_quorum_per_registry_source
    Repeats             \* bound on the documents of an authority about what it has been heard on

ASSUME AuthorityAssumption == IsFiniteSet(Registries) /\ IsFiniteSet(Observers)
ASSUME QuorumAssumption == RegistryQuorum \in Nat /\ ObserverQuorum \in Nat /\ Repeats \in Nat

Attestation == [challenge: Challenges, registry: Registries,
                seen: SUBSET Fingerprints, match: BOOLEAN, sound: BOOLEAN]
Observation == [registry: Registries, observer: Observers,
                seen: SUBSET Fingerprints, match: BOOLEAN, sound: BOOLEAN]

VARIABLES
    upstream,       \* the world: what each challenge and each registry derives from
    declared,       \* the ancestry manifests, of challenges and of registries
    attestations,
    observations

layerVars == <<upstream, declared, attestations, observations>>

Declarations == [Challenges \cup Registries -> SUBSET Fingerprints]

LayerInit ==
    /\ upstream \in Declarations
    /\ declared \in Declarations
    /\ attestations = {}
    /\ observations = {}

-----------------------------------------------------------------------------
Complete(x) == upstream[x] \subseteq declared[x]

(* Of an unsound document, or one that says it found something missing,    *)
(* nothing else is looked at: one of each is enough.                       *)
Representative(doc) ==
    (doc.sound \/ doc.match) /\ (~ (doc.sound /\ doc.match) => doc.seen = {})

Repeated ==
    Cardinality(attestations) + Cardinality(observations)
      - Cardinality({<<a.registry, a.challenge>> : a \in attestations})
      - Cardinality({<<o.observer, o.registry>> : o \in observations})

(* An honest registry answers for the whole universe, an honest observer   *)
(* probes every registry.                                                  *)
TrueAttestation(r, c) ==
    [challenge |-> c, registry |-> r, seen |-> upstream[c], match |-> Complete(c), sound |-> TRUE]
TrueObservation(o, r) ==
    [registry |-> r, observer |-> o, seen |-> upstream[r], match |-> Complete(r), sound |-> TRUE]

Attest(r) ==
    /\ r \in Honest
    /\ attestations' = attestations \cup {TrueAttestation(r, c) : c \in Challenges}
    /\ UNCHANGED <<upstream, declared, observations>>

AttestAtWill(r, c) ==
    /\ r \notin Honest
    /\ \E a \in Attestation : /\ a.registry = r /\ a.challenge = c /\ Representative(a)
                              /\ attestations' = attestations \cup {a}
    /\ UNCHANGED <<upstream, declared, observations>>
    /\ Repeated' <= Repeats

Observe(o) ==
    /\ o \in Honest
    /\ observations' = observations \cup {TrueObservation(o, r) : r \in Registries}
    /\ UNCHANGED <<upstream, declared, attestations>>

ObserveAtWill(o, r) ==
    /\ o \notin Honest
    /\ \E b \in Observation : /\ b.observer = o /\ b.registry = r /\ Representative(b)
                              /\ observations' = observations \cup {b}
    /\ UNCHANGED <<upstream, declared, attestations>>
    /\ Repeated' <= Repeats

LayerNext ==
    \/ \E r \in Registries : Attest(r) \/ \E c \in Challenges : AttestAtWill(r, c)
    \/ \E o \in Observers : Observe(o) \/ \E r \in Registries : ObserveAtWill(o, r)

LayerSpec == LayerInit /\ [][LayerNext]_layerVars

-----------------------------------------------------------------------------
Disjoint(x, y) == declared[x] \cap declared[y] = {}

Diverse(set, groups, authorities) ==
    /\ Cardinality({DependencyGroup[c] : c \in set}) >= groups
    /\ Cardinality({Author[c] : c \in set}) >= authorities

(* Every challenge has its valid receipt; an artifact serves one           *)
(* dependency group; universe and selection are diverse.                   *)
Provenance ==
    /\ \A c, d \in Challenges : Artifact[c] = Artifact[d] => DependencyGroup[c] = DependencyGroup[d]
    /\ Diverse(Challenges, MinGroups, MinAuthorities)
    /\ Diverse(Selected, MinSelectedGroups, MinSelectedAuthorities)

(* No declared fingerprint in two dependency groups.                       *)
GroupsDisjoint ==
    \A c, d \in Challenges : DependencyGroup[c] # DependencyGroup[d] => Disjoint(c, d)

Attesting(c) == {a.registry : a \in {b \in attestations : b.challenge = c}}

(* Faulty variant: one of the two is enough.                               *)
UndoubtedByEither(doc, x) == doc.match \/ doc.seen \subseteq declared[x]

(* A document adds doubt, or none, to the declaration it is about.         *)
Undoubted(doc, x) == doc.match /\ doc.seen \subseteq declared[x]

(* Faulty variant: one registry short.                                     *)
RegistryQuorumMetButOne(c) == Cardinality(Attesting(c)) + 1 >= RegistryQuorum
RegistryQuorumMet(c) == Cardinality(Attesting(c)) >= RegistryQuorum

(* Duplicates, unsound documents and doubts hold, and so does a challenge  *)
(* without a quorum.                                                       *)
RegistryLayer ==
    /\ \A a, b \in attestations : a.registry = b.registry /\ a.challenge = b.challenge => a = b
    /\ \A a \in attestations : a.sound /\ Undoubted(a, a.challenge)
    /\ \A c \in Challenges : RegistryQuorumMet(c)

(* Registries of one challenge share no declared source.                   *)
SourcesDisjoint == \A c \in Challenges : \A r, s \in Attesting(c) : r # s => Disjoint(r, s)

(* Only the declarations of registries that attested something are probed. *)
Required == {a.registry : a \in attestations}
Probing(r) == {o.observer : o \in {b \in observations : b.registry = r}}

ObserverQuorumMet(r) == Cardinality(Probing(r)) >= ObserverQuorum

ObservationLayer ==
    /\ \A a, b \in observations : a.registry = b.registry /\ a.observer = b.observer => a = b
    /\ \A o \in observations : o.registry \in Required => o.sound /\ Undoubted(o, o.registry)
    /\ \A r \in Required : ObserverQuorumMet(r)

(* No layer holds.                                                         *)
Accepted ==
    Provenance /\ GroupsDisjoint /\ RegistryLayer /\ SourcesDisjoint /\ ObservationLayer

-----------------------------------------------------------------------------
(* The types of the documents, and that honest authorities are honest.     *)
LayerTypeOK ==
    /\ upstream \in Declarations
    /\ declared \in Declarations
    /\ attestations \subseteq Attestation
    /\ observations \subseteq Observation
    /\ \A a \in attestations : a.registry \in Honest => a.seen = upstream[a.challenge]
    /\ \A o \in observations : o.observer \in Honest => o.seen = upstream[o.registry]

(* Less than a quorum of the registries, and of the observers, lie.        *)
LiarsAreFew ==
    /\ Cardinality(Registries \ Honest) < RegistryQuorum
    /\ Cardinality(Observers \ Honest) < ObserverQuorum

GroupsAreIndependent ==
    \A c, d \in Challenges :
        DependencyGroup[c] # DependencyGroup[d] => upstream[c] \cap upstream[d] = {}
RegistriesAreIndependent ==
    \A c \in Challenges : \A r, s \in Attesting(c) : r # s => upstream[r] \cap upstream[s] = {}

(* An accepted claim rests on measurements that really are independent:    *)
(* what two dependency groups derive from has nothing in common, however   *)
(* their authors declared it and however a minority of registries lied;    *)
(* and on registries that really are independent, though each declares its *)
(* own sources and a minority of observers lied.                           *)
AcceptedIsIndependent ==
    LiarsAreFew /\ Accepted => GroupsAreIndependent /\ RegistriesAreIndependent

Doubted ==
    \/ \E a \in attestations : a.sound /\ ~ (a.match /\ a.seen \subseteq declared[a.challenge])
    \/ \E o \in observations : /\ o.sound /\ o.registry \in Required
                               /\ ~ (o.match /\ o.seen \subseteq declared[o.registry])

(* "A registry attestation can only add doubt, never erase it"             *)
(* (distributed_execution.py:195): once an authenticated document doubts a *)
(* declaration, no document that arrives later gets the claim accepted,    *)
(* not even a second one of the same authority.                            *)
DoubtIsFinal == [][Doubted => Doubted' /\ ~Accepted']_layerVars
=============================================================================

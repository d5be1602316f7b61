------------------------ MODULE AttemptLease_proofs ------------------------
(***************************************************************************)
(* That of the reruns of a hold one starts at most, and of the holds of a  *)
(* manifest one too, for any number of witnesses, campaigns, holds and     *)
(* reruns, and any quorum.                                                 *)
(*                                                                         *)
(* The invariant ties every lease to the history of the witness that       *)
(* signed it, and every started attempt to a quorum of leases.  Two        *)
(* quorums share a witness that keeps its state; its two leases step from  *)
(* the same anchor, so they are for the same attempt.                      *)
(***************************************************************************)
EXTENDS AttemptLease, FiniteSetTheorems, TLAPS

LeasesFollowManifests ==
    \A l \in leases : /\ l.attempt.campaign \in pinned
                      /\ l.prior = anchors[l.attempt.campaign][l.witness]

LeasesAreHistory ==
    \A l \in leases : l.witness \notin Forgetful =>
        /\ Len(l.prior) < Len(history[l.witness])
        /\ history[l.witness][Len(l.prior) + 1] = l.attempt

Leased(Q, a) == \A w \in Q : \E l \in leases : l.witness = w /\ l.attempt = a

StartedHoldQuorums ==
    \A a \in started : \E Q \in SUBSET Witnesses : Cardinality(Q) >= Quorum /\ Leased(Q, a)

LeaseInv == LeaseTypeOK /\ LeasesFollowManifests /\ LeasesAreHistory /\ StartedHoldQuorums

(* The types survive every step.                                           *)
LEMMA LeaseTypeStep == LeaseTypeOK /\ [LeaseNext]_leaseVars => LeaseTypeOK'
<1> SUFFICES ASSUME LeaseTypeOK, [LeaseNext]_leaseVars
             PROVE  LeaseTypeOK'
  OBVIOUS
<1> USE DEF LeaseTypeOK
<1>1. ASSUME NEW w \in Witnesses, NEW a \in Attempt
      PROVE  LeaseFor(w, a) \in Lease
  <2>1. anchors[a.campaign][w] \in Checkpoint /\ now \in Nat
    BY DEF Attempt
  <2> QED BY <2>1 DEF LeaseFor, Lease
<1>2. ASSUME NEW c \in Campaigns, PinManifest(c)
      PROVE  LeaseTypeOK'
  BY <1>2 DEF PinManifest
<1>3. ASSUME NEW w \in Witnesses, NEW a \in Attempt, ConsumeSlot(w, a)
      PROVE  LeaseTypeOK'
  <2>1. Append(history[w], a) \in Checkpoint
    BY DEF Checkpoint
  <2>2. history' \in [Witnesses -> Checkpoint]
    BY <1>3, <2>1 DEF ConsumeSlot
  <2>3. leases' \subseteq Lease
    BY <1>3, <1>1 DEF ConsumeSlot
  <2> QED BY <1>3, <2>2, <2>3 DEF ConsumeSlot
<1>4. ASSUME NEW w \in Witnesses, NEW a \in Attempt, SignAgain(w, a)
      PROVE  LeaseTypeOK'
  BY <1>4, <1>1 DEF SignAgain
<1>5. ASSUME NEW a \in Attempt, StartAttempt(a)
      PROVE  LeaseTypeOK'
  BY <1>5 DEF StartAttempt
<1>6. CASE Tick
  BY <1>6 DEF Tick
<1>7. CASE UNCHANGED leaseVars
  BY <1>7 DEF leaseVars
<1> QED BY <1>2, <1>3, <1>4, <1>5, <1>6, <1>7 DEF LeaseNext

(* A lease names a pinned campaign and the anchor of its manifest, which   *)
(* nothing changes once it is pinned.                                      *)
LEMMA ManifestStep ==
  LeaseTypeOK /\ LeasesFollowManifests /\ [LeaseNext]_leaseVars => LeasesFollowManifests'
<1> SUFFICES ASSUME LeaseTypeOK, LeasesFollowManifests, [LeaseNext]_leaseVars
             PROVE  LeasesFollowManifests'
  OBVIOUS
<1> USE DEF LeasesFollowManifests
<1>1. ASSUME NEW c \in Campaigns, PinManifest(c)
      PROVE  LeasesFollowManifests'
  BY <1>1 DEF PinManifest, LeaseTypeOK, Lease, Attempt
<1>2. ASSUME NEW w \in Witnesses, NEW a \in Attempt, ConsumeSlot(w, a)
      PROVE  LeasesFollowManifests'
  BY <1>2 DEF ConsumeSlot, LeaseFor
<1>3. ASSUME NEW w \in Witnesses, NEW a \in Attempt, SignAgain(w, a)
      PROVE  LeasesFollowManifests'
  BY <1>3 DEF SignAgain, LeaseFor
<1>4. ASSUME NEW a \in Attempt, StartAttempt(a)
      PROVE  LeasesFollowManifests'
  BY <1>4 DEF StartAttempt
<1>5. CASE Tick
  BY <1>5 DEF Tick
<1>6. CASE UNCHANGED leaseVars
  BY <1>6 DEF leaseVars
<1> QED BY <1>1, <1>2, <1>3, <1>4, <1>5, <1>6 DEF LeaseNext

(* A witness that keeps its state only ever extends its history, and       *)
(* signs the extension it makes.                                           *)
LEMMA HistoryStep ==
  LeaseTypeOK /\ LeasesAreHistory /\ [LeaseNext]_leaseVars => LeasesAreHistory'
<1> SUFFICES ASSUME LeaseTypeOK, LeasesAreHistory, [LeaseNext]_leaseVars
             PROVE  LeasesAreHistory'
  OBVIOUS
<1> USE DEF LeasesAreHistory
<1>1. ASSUME NEW c \in Campaigns, PinManifest(c)
      PROVE  LeasesAreHistory'
  BY <1>1 DEF PinManifest
<1>2. ASSUME NEW w \in Witnesses, NEW a \in Attempt, ConsumeSlot(w, a)
      PROVE  LeasesAreHistory'
  <2> SUFFICES ASSUME NEW l \in leases', l.witness \notin Forgetful
               PROVE  /\ Len(l.prior) < Len(history'[l.witness])
                      /\ history'[l.witness][Len(l.prior) + 1] = l.attempt
    OBVIOUS
  <2>1. history[w] \in Seq(Attempt) /\ history' = [history EXCEPT ![w] = Append(@, a)]
    BY <1>2 DEF ConsumeSlot, LeaseTypeOK, Checkpoint
  <2>2. /\ Len(history'[w]) = Len(history[w]) + 1
        /\ history'[w][Len(history[w]) + 1] = a
        /\ \A i \in 1 .. Len(history[w]) : history'[w][i] = history[w][i]
    BY <2>1 DEF LeaseTypeOK
  <2>3. CASE l \in leases
    <3>1. l.prior \in Seq(Attempt) /\ l.witness \in Witnesses
      BY <2>3 DEF LeaseTypeOK, Lease, Checkpoint
    <3>2. Len(l.prior) \in Nat
      BY <3>1
    <3>3. CASE l.witness = w
      BY <2>1, <2>2, <2>3, <3>2, <3>3
    <3>4. CASE l.witness # w
      BY <2>1, <2>3, <3>4
    <3> QED BY <3>3, <3>4
  <2>4. CASE l = LeaseFor(w, a)
    <3>1. l.witness = w /\ l.attempt = a /\ l.prior = history[w]
      BY <1>2, <2>4 DEF ConsumeSlot, LeaseFor
    <3> QED BY <2>1, <2>2, <3>1
  <2> QED BY <1>2, <2>3, <2>4 DEF ConsumeSlot
<1>3. ASSUME NEW w \in Witnesses, NEW a \in Attempt, SignAgain(w, a)
      PROVE  LeasesAreHistory'
  BY <1>3 DEF SignAgain, LeaseFor
<1>4. ASSUME NEW a \in Attempt, StartAttempt(a)
      PROVE  LeasesAreHistory'
  BY <1>4 DEF StartAttempt
<1>5. CASE Tick
  BY <1>5 DEF Tick
<1>6. CASE UNCHANGED leaseVars
  BY <1>6 DEF leaseVars
<1> QED BY <1>1, <1>2, <1>3, <1>4, <1>5, <1>6 DEF LeaseNext

(* An attempt is started by a quorum of leases for it; leases stay.        *)
LEMMA QuorumStep ==
  LeaseTypeOK /\ StartedHoldQuorums /\ [LeaseNext]_leaseVars => StartedHoldQuorums'
<1> SUFFICES ASSUME LeaseTypeOK, StartedHoldQuorums, [LeaseNext]_leaseVars
             PROVE  StartedHoldQuorums'
  OBVIOUS
<1>1. leases \subseteq leases'
  BY DEF LeaseNext, leaseVars, PinManifest, ConsumeSlot, SignAgain, StartAttempt, Tick
<1>2. ASSUME NEW a \in started
      PROVE  \E Q \in SUBSET Witnesses : Cardinality(Q) >= Quorum /\ Leased(Q, a)'
  BY <1>1 DEF StartedHoldQuorums, Leased
<1>3. ASSUME NEW a \in Attempt, StartAttempt(a)
      PROVE  \E Q \in SUBSET Witnesses : Cardinality(Q) >= Quorum /\ Leased(Q, a)'
  <2>1. PICK set \in SUBSET leases : LeaseSetVerified(set, a)
    BY <1>3 DEF StartAttempt
  <2>2. \A l \in set : l.attempt = a
    BY <2>1 DEF LeaseSetVerified, LeaseValid
  <2>3. Leased(WitnessesOf(set), a)'
    BY <1>1, <2>1, <2>2 DEF Leased, WitnessesOf
  <2>4. WitnessesOf(set) \in SUBSET Witnesses
    BY <2>1 DEF WitnessesOf, LeaseTypeOK, Lease
  <2>5. Cardinality(WitnessesOf(set)) >= Quorum
    BY <2>1 DEF LeaseSetVerified, QuorumMet
  <2> QED BY <2>3, <2>4, <2>5
<1>4. started' = started \/ \E a \in Attempt : StartAttempt(a) /\ started' = started \cup {a}
  BY DEF LeaseNext, leaseVars, PinManifest, ConsumeSlot, SignAgain, StartAttempt, Tick
<1> QED BY <1>2, <1>3, <1>4 DEF StartedHoldQuorums

(* The inductive invariant holds of every behaviour.                       *)
THEOREM LeaseCorrect == LeaseSpec => []LeaseInv
<1>1. LeaseInit => LeaseInv
  BY DEF LeaseInit, LeaseInv, LeaseTypeOK, LeasesFollowManifests, LeasesAreHistory,
         StartedHoldQuorums, Checkpoint
<1>2. LeaseInv /\ [LeaseNext]_leaseVars => LeaseInv'
  BY LeaseTypeStep, ManifestStep, HistoryStep, QuorumStep DEF LeaseInv
<1> QED BY <1>1, <1>2, PTL DEF LeaseSpec

(* The tables of the lease protocol keep their types.                      *)
THEOREM LeaseTypeCorrect == LeaseSpec => []LeaseTypeOK
<1>1. LeaseInv => LeaseTypeOK
  BY DEF LeaseInv
<1> QED BY <1>1, LeaseCorrect, PTL

(* Two quorums of a manifest whose validators also asked for QuorumsMeet   *)
(* have a witness in common that keeps its state.                          *)
LEMMA QuorumsShareAnHonestWitness ==
  ASSUME QuorumsMeet,
         NEW P \in SUBSET Witnesses, Cardinality(P) >= Quorum,
         NEW Q \in SUBSET Witnesses, Cardinality(Q) >= Quorum
  PROVE  \E w \in P \cap Q : w \notin Forgetful
<1> USE WitnessAssumption
<1>1. /\ IsFiniteSet(P) /\ IsFiniteSet(Q) /\ IsFiniteSet(P \cup Q) /\ IsFiniteSet(Forgetful)
      /\ Cardinality(P \cup Q) <= Cardinality(Witnesses)
  <2>1. P \cup Q \in SUBSET Witnesses
    OBVIOUS
  <2> QED BY <2>1, FS_Subset
<1>2. Cardinality(P \cup Q) = Cardinality(P) + Cardinality(Q) - Cardinality(P \cap Q)
  BY <1>1, FS_Union
<1>3. ASSUME P \cap Q \subseteq Forgetful
      PROVE  Cardinality(P \cap Q) <= Cardinality(Forgetful)
  BY <1>1, <1>3, FS_Subset
<1>4. /\ Cardinality(P) \in Nat /\ Cardinality(Q) \in Nat /\ Cardinality(P \cup Q) \in Nat
      /\ Cardinality(Witnesses) \in Nat /\ Cardinality(Forgetful) \in Nat
  BY <1>1, FS_CardinalityType
<1>5. IsFiniteSet(P \cap Q)
  BY <1>1, FS_Intersection
<1>6. Cardinality(P \cap Q) \in Nat /\ Quorum \in Nat
  BY <1>4, <1>5, FS_CardinalityType, QuorumAssumption
<1>7. ~ Cardinality(P \cap Q) <= Cardinality(Forgetful)
  BY <1>1, <1>2, <1>4, <1>6 DEF QuorumsMeet
<1> QED BY <1>3, <1>7

(* One attempt per manifest, whatever the driver does with the leases: the *)
(* other holds of the manifest are not covered (section 4 of the README).  *)
THEOREM OneAttemptStartsPerManifest == LeaseSpec => []OneAttemptPerManifest
<1>1. LeaseInv => OneAttemptPerManifest
  <2> SUFFICES ASSUME LeaseInv, QuorumsMeet, NEW a \in started, NEW b \in started,
                      a.campaign = b.campaign
               PROVE  a = b
    BY DEF OneAttemptPerManifest
  <2>1. PICK P \in SUBSET Witnesses : Cardinality(P) >= Quorum /\ Leased(P, a)
    BY DEF LeaseInv, StartedHoldQuorums
  <2>2. PICK Q \in SUBSET Witnesses : Cardinality(Q) >= Quorum /\ Leased(Q, b)
    BY DEF LeaseInv, StartedHoldQuorums
  <2>3. PICK w \in P \cap Q : w \notin Forgetful
    BY <2>1, <2>2, QuorumsShareAnHonestWitness
  <2>4. PICK l \in leases : l.witness = w /\ l.attempt = a
    BY <2>1, <2>3 DEF Leased
  <2>5. PICK m \in leases : m.witness = w /\ m.attempt = b
    BY <2>2, <2>3 DEF Leased
  <2>6. l.prior = m.prior
    BY <2>4, <2>5 DEF LeaseInv, LeasesFollowManifests
  <2> QED BY <2>3, <2>4, <2>5, <2>6 DEF LeaseInv, LeasesAreHistory
<1> QED BY <1>1, LeaseCorrect, PTL

(* One rerun of a hold, as the constitution of the manifest wants.         *)
THEOREM OneRerunStartsPerHold == LeaseSpec => []OneRerunPerHold
<1>1. OneAttemptPerManifest => OneRerunPerHold
  BY DEF OneAttemptPerManifest, OneRerunPerHold
<1> QED BY <1>1, OneAttemptStartsPerManifest, PTL

(* The conviction of a witness that signs twice is sound.                  *)
THEOREM EquivocationConvicts == LeaseSpec => []OnlyForgetfulWitnessesEquivocate
<1>1. LeaseInv => OnlyForgetfulWitnessesEquivocate
  BY DEF LeaseInv, LeasesAreHistory, OnlyForgetfulWitnessesEquivocate
<1> QED BY <1>1, LeaseCorrect, PTL

-----------------------------------------------------------------------------
(***************************************************************************)
(* The order of campaigns.  A witness steps to a campaign only from the    *)
(* anchor of its manifest, so what precedes the campaign in the witness's  *)
(* history is what the manifest saw when it was pinned; and of two         *)
(* manifests one at most can have seen the other's campaign.               *)
(***************************************************************************)
Keeping == Witnesses \ Forgetful

(* A witness that keeps its state had met c when the manifest of d came.   *)
Saw(c, d) == \E w \in Keeping : \E i \in DOMAIN anchors[d][w] : anchors[d][w][i].campaign = c

EntriesArePinned ==
    /\ \A w \in Witnesses : \A i \in DOMAIN history[w] : history[w][i].campaign \in pinned
    /\ \A c, d \in Campaigns : Saw(c, d) => c \in pinned

SeenOneWay == \A c, d \in Campaigns : ~ (Saw(c, d) /\ Saw(d, c))

OrderIsSeen ==
    \A w \in Keeping : \A c, d \in Campaigns : Before(w, c, d) => Saw(c, d)

OrderInv == EntriesArePinned /\ SeenOneWay /\ OrderIsSeen

(* Pinning a manifest is the only step that changes an anchor, and it      *)
(* takes over what the witnesses have met.                                 *)
LEMMA OrderPin ==
  ASSUME LeaseTypeOK, OrderInv, NEW e \in Campaigns, PinManifest(e)
  PROVE  OrderInv'
<1>1. /\ e \notin pinned /\ pinned' = pinned \cup {e}
      /\ history' = history /\ anchors' = [anchors EXCEPT ![e] = history]
      /\ anchors \in [Campaigns -> [Witnesses -> Checkpoint]]
  BY DEF PinManifest, LeaseTypeOK
<1>2. ASSUME NEW c \in Campaigns, NEW d \in Campaigns, d # e
      PROVE  Saw(c, d)' <=> Saw(c, d)
  BY <1>1, <1>2 DEF Saw
<1>3. ASSUME NEW c \in Campaigns, Saw(c, e)'
      PROVE  c \in pinned
  BY <1>1, <1>3 DEF Saw, Keeping, OrderInv, EntriesArePinned
<1>4. \A c, d \in Campaigns : Saw(c, d) => c \in pinned
  BY DEF OrderInv, EntriesArePinned
<1>5. EntriesArePinned'
  BY <1>1, <1>2, <1>3, <1>4 DEF OrderInv, EntriesArePinned
<1>6. SeenOneWay'
  BY <1>1, <1>2, <1>3, <1>4 DEF OrderInv, SeenOneWay
<1>7. OrderIsSeen'
  <2> SUFFICES ASSUME NEW w \in Keeping, NEW c \in Campaigns, NEW d \in Campaigns,
                      Before(w, c, d)'
               PROVE  Saw(c, d)'
    BY DEF OrderIsSeen
  <2>1. Before(w, c, d)
    BY <1>1 DEF Before
  <2>2. Saw(c, d) /\ d # e
    BY <1>1, <2>1 DEF OrderInv, OrderIsSeen, EntriesArePinned, Before, Keeping
  <2> QED BY <1>2, <2>2
<1> QED BY <1>5, <1>6, <1>7 DEF OrderInv

(* A witness that steps to a campaign has met what its manifest saw.       *)
LEMMA OrderConsume ==
  ASSUME LeaseTypeOK, OrderInv, NEW v \in Witnesses, NEW a \in Attempt, ConsumeSlot(v, a)
  PROVE  OrderInv'
<1>1. /\ v \in Keeping /\ a.campaign \in pinned /\ a.campaign \in Campaigns
      /\ history[v] = anchors[a.campaign][v]
      /\ UNCHANGED <<pinned, anchors>>
      /\ history[v] \in Seq(Attempt) /\ history' = [history EXCEPT ![v] = Append(@, a)]
  BY DEF ConsumeSlot, Keeping, LeaseTypeOK, Checkpoint, Attempt
<1>2. /\ history'[v] = Append(history[v], a)
      /\ \A w \in Witnesses \ {v} : history'[w] = history[w]
  BY <1>1 DEF LeaseTypeOK
<1>3. /\ Len(history[v]) \in Nat /\ DOMAIN history[v] = 1 .. Len(history[v])
      /\ DOMAIN history'[v] = 1 .. Len(history[v]) + 1
      /\ history'[v][Len(history[v]) + 1] = a
      /\ \A i \in DOMAIN history[v] : history'[v][i] = history[v][i]
  BY <1>1, <1>2
<1>4. \A c, d \in Campaigns : Saw(c, d)' <=> Saw(c, d)
  BY <1>1 DEF Saw
<1>5. EntriesArePinned'
  <2>1. ASSUME NEW i \in DOMAIN history'[v]
        PROVE  history'[v][i].campaign \in pinned
    <3>1. i \in DOMAIN history[v] \/ i = Len(history[v]) + 1
      BY <1>3
    <3> QED BY <1>1, <1>3, <3>1 DEF OrderInv, EntriesArePinned
  <2> QED BY <1>1, <1>2, <1>4, <2>1 DEF OrderInv, EntriesArePinned
<1>6. SeenOneWay'
  BY <1>4 DEF OrderInv, SeenOneWay
<1>7. OrderIsSeen'
  <2> SUFFICES ASSUME NEW w \in Keeping, NEW c \in Campaigns, NEW d \in Campaigns,
                      Before(w, c, d)'
               PROVE  Saw(c, d)
    BY <1>4 DEF OrderIsSeen
  <2>1. CASE w # v
    <3>1. Before(w, c, d)
      BY <1>2, <2>1 DEF Before, Keeping
    <3> QED BY <3>1 DEF OrderInv, OrderIsSeen
  <2>2. CASE w = v
    <3>1. PICK i \in DOMAIN history'[v], j \in DOMAIN history'[v] :
             i < j /\ history'[v][i].campaign = c /\ history'[v][j].campaign = d
      BY <2>2 DEF Before
    <3>2. i \in DOMAIN history[v] /\ (j \in DOMAIN history[v] \/ j = Len(history[v]) + 1)
      BY <1>3, <3>1
    <3>3. CASE j \in DOMAIN history[v]
      <4>1. Before(w, c, d)
        BY <1>3, <2>2, <3>1, <3>2, <3>3 DEF Before
      <4> QED BY <4>1 DEF OrderInv, OrderIsSeen
    <3>4. CASE j = Len(history[v]) + 1
      <4>1. d = a.campaign /\ anchors[d][v][i].campaign = c /\ i \in DOMAIN anchors[d][v]
        BY <1>1, <1>3, <3>1, <3>2, <3>4
      <4> QED BY <1>1, <4>1 DEF Saw
    <3> QED BY <3>2, <3>3, <3>4
  <2> QED BY <2>1, <2>2
<1> QED BY <1>5, <1>6, <1>7 DEF OrderInv

LEMMA OrderStep == LeaseTypeOK /\ OrderInv /\ [LeaseNext]_leaseVars => OrderInv'
<1> SUFFICES ASSUME LeaseTypeOK, OrderInv, [LeaseNext]_leaseVars
             PROVE  OrderInv'
  OBVIOUS
<1>1. CASE UNCHANGED <<history, pinned, anchors>>
  BY <1>1 DEF OrderInv, EntriesArePinned, SeenOneWay, OrderIsSeen, Saw, Before
<1>2. CASE \E c \in Campaigns : PinManifest(c)
  BY <1>2, OrderPin
<1>3. CASE \E w \in Witnesses, a \in Attempt : ConsumeSlot(w, a)
  BY <1>3, OrderConsume
<1> QED BY <1>1, <1>2, <1>3 DEF LeaseNext, leaseVars, SignAgain, StartAttempt, Tick

(* Whoever races for the witnesses, those that keep their state all meet   *)
(* two campaigns in the same order.                                        *)
THEOREM WitnessesAlwaysAgreeOnOrder == LeaseSpec => []WitnessesAgreeOnOrder
<1>1. LeaseInit => OrderInv
  BY DEF LeaseInit, OrderInv, EntriesArePinned, SeenOneWay, OrderIsSeen, Saw, Before, Keeping
<1>2. LeaseInv => LeaseTypeOK
  BY DEF LeaseInv
<1>3. OrderInv => WitnessesAgreeOnOrder
  BY DEF OrderInv, OrderIsSeen, SeenOneWay, WitnessesAgreeOnOrder, Keeping
<1> QED BY <1>1, <1>2, <1>3, OrderStep, LeaseCorrect, PTL DEF LeaseSpec
=============================================================================

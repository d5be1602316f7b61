---------------------------- MODULE AttemptLease ----------------------------
(***************************************************************************)
(* The leases that let a recovery attempt start: the functions of          *)
(* attempt_continuity (held by src/app/calibration.py) and their records   *)
(* in src/app/security.py.                                                 *)
(*                                                                         *)
(* A manifest pins, for every external witness, the checkpoint (sequence   *)
(* and state digest) the witness had reached.  A lease is a witness's      *)
(* signature over the step from that anchor to the state in which one      *)
(* attempt, a rerun of a hold of the campaign, has consumed the slot.  An  *)
(* attempt needs valid leases of a quorum of witnesses, fresh at the time  *)
(* its runtime seals.                                                      *)
(*                                                                         *)
(* The constitution in the manifest says ALL_ELIGIBLE_EVIDENCE_DEBT_HOLDS  *)
(* are to be covered, with ONE_SEALED_AUTHORITATIVE_RERUN_PER_ELIGIBLE_HOLD*)
(* (security.py:1949).  The second half is OneRerunPerHold, the first is   *)
(* EveryHoldIsRerun, which a single step per anchor cannot give.           *)
(*                                                                         *)
(* The witnesses and the driver are outside the repository.  A witness     *)
(* "is expected to persist this state outside Illusiontion and to advance  *)
(* it atomically" (security.py:1463); issue_recovery_attempt_lease itself  *)
(* keeps no state, so a witness that only runs it is in Forgetful.  Their  *)
(* answers may be lost: a slot is then consumed and nobody has the lease.  *)
(*                                                                         *)
(* The state digest hashes the prior state with the sequence number and    *)
(* the attempt, so it is modelled by the sequence of attempts hashed in,   *)
(* whose length is the sequence number.                                    *)
(***************************************************************************)
EXTENDS Integers, Sequences, FiniteSets

CONSTANTS
    Witnesses,  \* recovery_attempt_witnesses: unique ids and unique keys
    Forgetful,  \* witnesses that do not keep their state
    Quorum,     \* recovery_attempt_witness_quorum
    Campaigns,  \* each with its own manifest
    Holds,      \* eligible evidence-debt holds of a campaign: case id and original run
    Reruns,     \* rerun ids
    MaxAge,     \* recovery_attempt_lease_max_age_seconds
    Horizon     \* bound on the clock

ASSUME WitnessAssumption == IsFiniteSet(Witnesses) /\ Forgetful \subseteq Witnesses
(* The validators of the manifest ask only for 2 <= quorum <= witnesses.   *)
ASSUME QuorumAssumption == Quorum \in 1 .. Cardinality(Witnesses)
ASSUME TimeAssumption == MaxAge \in Nat /\ Horizon \in Nat

(* recovery_attempt_id digests the campaign, the case, the original run    *)
(* and the rerun.                                                          *)
Attempt == [campaign: Campaigns, hold: Holds, rerun: Reruns]
Checkpoint == Seq(Attempt)
Lease == [witness: Witnesses, attempt: Attempt, prior: Checkpoint, at: Nat]

VARIABLES
    history,    \* the state each witness has reached
    pinned,     \* campaigns whose manifest is out
    anchors,    \* anchor_checkpoint of each witness in each manifest
    leases,     \* every lease ever signed
    started,    \* attempts that have had a lease set verified
    now

leaseVars == <<history, pinned, anchors, leases, started, now>>

LeaseInit ==
    /\ history = [w \in Witnesses |-> <<>>]
    /\ pinned = {}
    /\ anchors = [c \in Campaigns |-> [w \in Witnesses |-> <<>>]]
    /\ leases = {}
    /\ started = {}
    /\ now = 0

-----------------------------------------------------------------------------
PinManifest(c) ==
    /\ c \notin pinned
    /\ pinned' = pinned \cup {c}
    /\ anchors' = [anchors EXCEPT ![c] = history]
    /\ UNCHANGED <<history, leases, started, now>>

(* issue_recovery_attempt_lease: the step from the manifest's anchor.      *)
LeaseFor(w, a) == [witness |-> w, attempt |-> a, prior |-> anchors[a.campaign][w], at |-> now]

(* Faulty variant: a witness that does not compare the anchor it is shown  *)
(* with the state it has reached.                                          *)
ConsumeSlotUnseen(w, a) ==
    /\ a.campaign \in pinned
    /\ Len(history[w]) < Cardinality(Campaigns)
    /\ history' = [history EXCEPT ![w] = Append(@, a)]
    /\ leases' = leases \cup {LeaseFor(w, a)}
    /\ UNCHANGED <<pinned, anchors, started, now>>

(* A witness that keeps its state steps from an anchor it still stands at. *)
ConsumeSlot(w, a) ==
    /\ w \notin Forgetful /\ a.campaign \in pinned
    /\ history[w] = anchors[a.campaign][w]
    /\ history' = [history EXCEPT ![w] = Append(@, a)]
    /\ leases' = leases \cup {LeaseFor(w, a)}
    /\ UNCHANGED <<pinned, anchors, started, now>>

(* One that does not signs whatever it is asked.                           *)
SignAgain(w, a) ==
    /\ w \in Forgetful /\ a.campaign \in pinned
    /\ leases' = leases \cup {LeaseFor(w, a)}
    /\ UNCHANGED <<history, pinned, anchors, started, now>>

(* verify_recovery_attempt_lease.  What a lease signs cannot be changed;   *)
(* the clock of the verification is runtime_issued_at.                     *)
Fresh(l) == l.at <= now /\ now - l.at <= MaxAge

LeaseValid(l, a) ==
    /\ l.attempt = a
    /\ l.prior = anchors[a.campaign][l.witness]
    /\ Fresh(l)

WitnessesOf(set) == {l.witness : l \in set}

(* Faulty variant: one witness short of the quorum.                        *)
QuorumMetButOne(set) == Cardinality(WitnessesOf(set)) + 1 >= Quorum
QuorumMet(set) == Cardinality(WitnessesOf(set)) >= Quorum

(* verify_recovery_attempt_lease_set: one lease of each witness at most,   *)
(* one faulty lease spoils the set, and valid ones of a quorum are needed. *)
LeaseSetVerified(set, a) ==
    /\ \A l, m \in set : l.witness = m.witness => l = m
    /\ \A l \in set : LeaseValid(l, a)
    /\ QuorumMet(set)

(* The rerun seals its runtime with the leases the driver selects among    *)
(* those that reached it.                                                  *)
StartAttempt(a) ==
    \E set \in SUBSET {l \in leases : l.attempt.campaign = a.campaign} :
        /\ LeaseSetVerified(set, a)
        /\ started' = started \cup {a}
        /\ UNCHANGED <<history, pinned, anchors, leases, now>>

Tick ==
    /\ now < Horizon
    /\ now' = now + 1
    /\ UNCHANGED <<history, pinned, anchors, leases, started>>

LeaseNext ==
    \/ \E c \in Campaigns : PinManifest(c)
    \/ \E w \in Witnesses, a \in Attempt : ConsumeSlot(w, a) \/ SignAgain(w, a)
    \/ \E a \in Attempt : StartAttempt(a)
    \/ Tick

LeaseSpec == LeaseInit /\ [][LeaseNext]_leaseVars

(* The most that can be hoped for of parties outside the repository: every *)
(* manifest comes out, every lease that can be had is asked for and given, *)
(* and every rerun that can start does.                                    *)
LeaseFairSpec ==
    /\ LeaseSpec
    /\ \A c \in Campaigns : WF_leaseVars(PinManifest(c))
    /\ \A w \in Witnesses, a \in Attempt : WF_leaseVars(ConsumeSlot(w, a))
    /\ \A a \in Attempt : WF_leaseVars(StartAttempt(a))

-----------------------------------------------------------------------------
LeaseTypeOK ==
    /\ history \in [Witnesses -> Checkpoint]
    /\ pinned \subseteq Campaigns
    /\ anchors \in [Campaigns -> [Witnesses -> Checkpoint]]
    /\ leases \subseteq Lease
    /\ started \subseteq Attempt
    /\ now \in Nat

(* Two quorums share a witness that keeps its state.  The manifest's       *)
(* validators do not ask for it.                                           *)
QuorumsMeet == 2 * Quorum > Cardinality(Witnesses) + Cardinality(Forgetful)

(* ONE_SEALED_AUTHORITATIVE_RERUN_PER_ELIGIBLE_HOLD: of the reruns of a    *)
(* hold one at most gets its lease set verified, however requests for      *)
(* several holds and reruns race, answers get lost, leases are kept for    *)
(* later or carried over from another campaign, and whatever the forgetful *)
(* witnesses sign.                                                         *)
OneRerunPerHold ==
    QuorumsMeet =>
        \A a, b \in started : a.campaign = b.campaign /\ a.hold = b.hold => a = b

(* The leases give more than that, and more than the constitution wants:   *)
(* a witness steps once from the anchor of a manifest, whatever the hold,  *)
(* so a manifest with several holds gets one of them rerun.                *)
OneAttemptPerManifest ==
    QuorumsMeet =>
        \A a, b \in started : a.campaign = b.campaign => a = b

(* ALL_ELIGIBLE_EVIDENCE_DEBT_HOLDS: a campaign that got one of its holds  *)
(* rerun gets all of them rerun.                                           *)
EveryHoldIsRerun ==
    \A c \in Campaigns : \A h \in Holds :
        (\E a \in started : a.campaign = c)
            ~> (\E a \in started : a.campaign = c /\ a.hold = h)

(* A lease that verifies is a step its witness has really taken, so a      *)
(* second lease from the same anchor convicts the witness that signed it.  *)
OnlyForgetfulWitnessesEquivocate ==
    \A l, m \in leases :
        l.witness = m.witness /\ l.prior = m.prior /\ l.attempt # m.attempt
            => l.witness \in Forgetful

(* All witnesses that keep their state met two campaigns in the same       *)
(* order, whoever raced for them: a manifest that is stepped from after    *)
(* another was pinned after the other had moved somebody.                  *)
Before(w, c, d) ==
    \E i, j \in DOMAIN history[w] :
        i < j /\ history[w][i].campaign = c /\ history[w][j].campaign = d

WitnessesAgreeOnOrder ==
    \A v, w \in Witnesses \ Forgetful, c, d \in Campaigns :
        c # d => ~ (Before(v, c, d) /\ Before(w, d, c))
=============================================================================

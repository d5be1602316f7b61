---------------------------- MODULE GateProperties ----------------------------
(***************************************************************************)
(* What the gate promises about every bundle, stated on what the bundle    *)
(* really is and not on the flags the gate computes.                       *)
(***************************************************************************)
EXTENDS GateCases

\* The receipts are those the runtime issues for successful isolated reviews of exactly
\* this claim, evidence and output, one from each required reviewer; below MODEL_BOUND a
\* receipt need not name a model response.
Intact(b) ==
    /\ RequiredReviewers(b.claim.profile) \subseteq Received(b)
    /\ b.runtimeKey
    /\ \A r \in Received(b) :
          LET anyOutput == [b.receipts[r] EXCEPT !.output = r]
          IN  Issued(b, r) = IF RequiresModelBinding(b.claim.profile) THEN anyOutput
                             ELSE [anyOutput EXCEPT !.modelBound = TRUE, !.response = r]

\* The acquisition of the evidence vouches for what is in the bundle.
Admitted(b) ==
    /\ b.evidenceKey
    /\ DOMAIN b.admissions = Universe(b)
    /\ \A e \in Universe(b) : b.admissions[e] =
          [version |-> b.items[e].version, capture |-> e, signed |-> TRUE,
           origin |-> b.items[e].origin, status |-> "CAPTURED"]

\* Two independent sources, by group and by attested origin, are behind atom a.
WellSourced(b, a) ==
    \E d, e \in b.claim.cites[a] \cap Universe(b) \cap b.claim.evidence :
        /\ "" \notin { b.items[d].group, b.items[e].group }
        /\ b.items[d].group # b.items[e].group
        /\ b.items[d].origin # b.items[e].origin

\* Every frame reviewer reads a once and alike, and all that is owed for a is discharged.
WellRead(b, a) ==
    /\ \E x \in { "plain", "other" } : \A r \in FrameReviewers :
          FramesBy(b, r, a) = { [by |-> r, atom |-> a, reading |-> x] }
    /\ \A d \in Due(b) : d[2] = a =>
          \E x \in b.obligations : /\ Filed(b, d) = {x}
                                   /\ x.result \in Discharging[d[1]]

\* No reviewer objects to the evidence of a.
Unchallenged(b, a) ==
    ~ \E f \in b.findings : f.ev = {} \/ f.ev \cap b.claim.cites[a] # {}

Decided == decision # Undecided

\* A claim passes only when the review is the untouched review of this very bundle by
\* every reviewer its profile requires, nobody found anything, and, from the profiles
\* that ask for them on, the evidence is admitted, the sources are two, the outputs are
\* the reviewers' own and the atoms are read alike (integrity.py, the whole of decide).
PassIsEarned ==
    Decided /\ decision.verdict = "PASS" =>
        LET p == bundle.claim.profile
        IN  /\ Intact(bundle)
            /\ bundle.findings = {}
            /\ \A e \in Universe(bundle) : ~bundle.items[e].flagged
            /\ RequiresAdmission(p) => /\ Admitted(bundle)
                                       /\ \A a \in bundle.claim.atoms : WellSourced(bundle, a)
            /\ RequiresModelBinding(p) =>
                 Cardinality({ bundle.receipts[r].output : r \in Received(bundle) }) > 1
            /\ RequiresObligations(p) => \A a \in bundle.claim.atoms : WellRead(bundle, a)

\* A claim is rejected only on the word of the evidence reviewer, in a review that is
\* intact: a fabrication nobody can trust holds the claim instead.
RejectIsTrusted ==
    Decided /\ decision.verdict = "REJECT" =>
        /\ Intact(bundle)
        /\ \E f \in bundle.findings : /\ f.by = "evidence" /\ f.type = "FABRICATION"
                                      /\ f \in bundle.receipts["evidence"].findings

\* An atom saved out of a held claim is well sourced, well read and unchallenged itself:
\* what holds the claim lies in other atoms.
SalvagedAtomsAreClear ==
    Decided /\ decision.verdict = "HOLD" =>
        \A a \in decision.usefulness.promotable :
            WellSourced(bundle, a) /\ WellRead(bundle, a) /\ Unchallenged(bundle, a)

\* "Integrity/process failures are never localized": nothing is saved out of a claim
\* whose review or acquisition is not intact.
SalvageNeedsIntegrity ==
    Decided /\ decision.usefulness.status = "SCOPED_SALVAGE" =>
        Intact(bundle) /\ Admitted(bundle) /\ LayerHolds(bundle) = {}

\* The frame reviewers agree on a reading of atom a.
AgreedOn(b, a) ==
    /\ \A r \in FrameReviewers : Cardinality(FramesBy(b, r, a)) = 1
    /\ ~Disagreement(b, a)

\* One more deviation never promotes more: neither from HOLD to PASS, nor a further atom,
\* but for an atom whose last reviewer in dispute comes round to the reading of the others.
\* Two exceptions are those of the code: a rejected claim that is then held for another
\* reason, and a claim held for stray work products only (see the README).
DeviationsNeverPromote ==
    [][ bundle' # bundle =>
          LET before  == Decide(bundle)
              settled == { a \in bundle.claim.atoms : ~AgreedOn(bundle, a) /\ AgreedOn(bundle', a) }
          IN  \/ before.verdict = "REJECT"
              \/ InvalidArtifacts(bundle) # {}
              \/ Decide(bundle').usefulness.promotable
                    \subseteq before.usefulness.promotable \cup settled
      ]_vars

\* No simulated relaxation of the debt policies releases a claim whose review is not
\* intact; outputs that are merely all the same are missing from the list of the faults that
\* exclude a relaxation (dependency_ancestry.py, _HARD_USEFULNESS_BLOCKERS), and so here.
RelaxationSparesIntegrity ==
    /\ Decided
    /\ decision.verdict = "HOLD"
    /\ \E q \in ShadowPolicies : ShadowPolicyWouldPromote(decision.calibration, q)
    =>      /\ Intact(bundle)
            /\ RequiresAdmission(bundle.claim.profile) => Admitted(bundle)

WithProfile(b, p) == [b EXCEPT !.claim.profile = p]

\* Asking for less assurance never turns a pass or a rejection into something else: the
\* profiles are cumulative, but for the correlation of outputs, which is counted over the
\* required reviewers and so may be found among fewer of them only, and for the single
\* external witness, which the quorum profiles replace.
StrongerProfileIsStricter ==
    Decided /\ decision.verdict # "HOLD" =>
        \A i \in 1..Rank(bundle.claim.profile) :
            LET b == WithProfile(bundle, Profiles[i])
            IN  \/ Profiles[i] = "EXTERNAL_WITNESS_FORTIFIED"
                \/ CorrelatedOutput(b)
                \/ Decide(b).verdict = decision.verdict
===============================================================================

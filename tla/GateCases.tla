------------------------------- MODULE GateCases -------------------------------
(***************************************************************************)
(* The gate on the bundles a review can hand it: a clean review of one of  *)
(* the claims in Claims, after at most MaxDeviations deviations.  A        *)
(* deviation is something a reviewer reports, a step of the review that    *)
(* did not go as it should, or a change of the bundle after the review.    *)
(***************************************************************************)
EXTENDS DecisionGate

CONSTANTS Claims,          \* claims under review
          Evidence,        \* the evidence objects acquired for them
          Group, Origin,   \* their source groups and origins
          Suspects,        \* the reviewers whose receipts deviate
          Reporters,       \* the reviewers that report findings
          Reports,         \* the types of findings they report
          References,      \* the sets of evidence the findings cite
          MaxDeviations    \* bound: deviations from the clean bundle

ASSUME MaxDeviationsAssumption == MaxDeviations \in Nat

\* A claim is a record of the Claim model, its atoms are a list, and AssuranceProfile is an
\* enumeration.
ASSUME ClaimsAssumption ==
    \A c \in Claims :
       /\ \E i \in DOMAIN Profiles : c.profile = Profiles[i]
       /\ IsFiniteSet(c.atoms)
       /\ c = [profile |-> c.profile, version |-> c.version, atoms |-> c.atoms,
               cites |-> c.cites, says |-> c.says, evidence |-> c.evidence]

ASSUME EvidenceAssumption == IsFiniteSet(Evidence)

VARIABLES bundle, deviations, decision

vars == << bundle, deviations, decision >>

Undecided == [verdict |-> "none"]

\* The receipt the runtime issues to r for a successful, isolated review of b.
Issued(b, r) ==
    [status |-> "SUCCESS", signed |-> TRUE, claim |-> b.claim.version, ev |-> Versions(b),
     findings |-> ReportedBy(b, r), artifacts |-> ArtifactsOf(b, r), prompt |-> "current",
     context |-> "ISOLATED", invocation |-> r, invoked |-> << b.claim.version, Versions(b), "current" >>,
     modelBound |-> TRUE, response |-> r, output |-> r]

\* b with receipts for the reviewers rs.
Review(b, rs) == [b EXCEPT !.receipts = [r \in rs |-> Issued(b, r)]]

\* b after r has handed in something else than before: its receipt covers it, and the
\* output is no longer the same as another reviewer's.
Rebind(b, r) ==
    [b EXCEPT !.receipts[r].findings = ReportedBy(b, r),
              !.receipts[r].artifacts = ArtifactsOf(b, r),
              !.receipts[r].output = IF b.receipts[r].status = "SUCCESS" THEN r ELSE ""]

CleanFrames(c) ==
    IF ~RequiresObligations(c.profile) THEN {}
    ELSE { [by |-> r, atom |-> a, reading |-> "plain"] : r \in FrameReviewers, a \in c.atoms }

CleanObligation(d) ==
    [by |-> ObligationOwner[d[1]], type |-> d[1], atom |-> d[2], ev |-> d[3], refs |-> {},
     result |-> CHOOSE x \in Discharging[d[1]] : TRUE]

CleanBundle(c) ==
    LET b == [ claim |-> c,
               items |-> [e \in Evidence |-> [version |-> 0, group |-> Group[e], source |-> e,
                                              origin |-> Origin[e], flagged |-> FALSE]],
               admissions |-> [e \in Evidence |-> [version |-> 0, capture |-> e, signed |-> TRUE,
                                                   origin |-> Origin[e], status |-> "CAPTURED"]],
               receipts |-> << >>, findings |-> {}, frames |-> {}, obligations |-> {},
               runtimeKey |-> TRUE, evidenceKey |-> TRUE, witness |-> << >> ]
        w == [b EXCEPT !.frames = CleanFrames(c),
                       !.obligations = IF RequiresObligations(c.profile)
                                       THEN { CleanObligation(d) : d \in Due(b) } ELSE {}]
    IN  Review(w, RequiredReviewers(c.profile))

Init ==
    /\ bundle \in { CleanBundle(c) : c \in Claims }
    /\ deviations = 0
    /\ decision = Undecided

Deviate(b) ==
    /\ decision = Undecided
    /\ deviations < MaxDeviations
    /\ b # bundle
    /\ bundle' = b
    /\ deviations' = deviations + 1
    /\ UNCHANGED decision

-----------------------------------------------------------------------------
\* What reviewers report

\* r reports a finding, possibly of a type it does not own.
ReviewerReports(r, t, es) ==
    \E sev \in (IF t = "FABRICATION" THEN { "CRITICAL", "WARNING" } ELSE { "CRITICAL" }) :
       Deviate(Rebind([bundle EXCEPT !.findings = @ \cup { Finding(r, t, sev, es) }], r))

\* r reads atom a in another way, does not read it, or reads it a second time.
FrameDeviates(r, a) ==
    LET own  == FramesBy(bundle, r, a)
        read(x) == [by |-> r, atom |-> a, reading |-> x]
    IN  \E fs \in { {}, { read("other") }, { read("UNKNOWN") }, own \cup { read("other") } } :
           Deviate(Rebind([bundle EXCEPT !.frames = (@ \ own) \cup fs], r))

\* An obligation is not filed, or not discharged.
ObligationDeviates(d) ==
    LET filed == Filed(bundle, d)
        failed == { [x EXCEPT !.result = "UNRESOLVED"] : x \in filed }
    IN  \E os \in { {}, failed } :
           Deviate(Rebind([bundle EXCEPT !.obligations = (@ \ filed) \cup os],
                          ObligationOwner[d[1]]))

\* Reviewer r files a frame or an obligation that is another's to file.
StrayArtifact(r, a) ==
    \/ /\ r \notin FrameReviewers
       /\ Deviate(Rebind([bundle EXCEPT !.frames = @ \cup
                            { [by |-> r, atom |-> a, reading |-> "plain"] }], r))
    \/ \E t \in { "JOINT_ENTAILMENT", "SCOPE_BOUNDARY" } :
          /\ r # ObligationOwner[t]
          /\ Deviate(Rebind([bundle EXCEPT !.obligations = @ \cup
                               { [by |-> r, type |-> t, atom |-> a, ev |-> "", refs |-> {},
                                  result |-> "UNRESOLVED"] }], r))

\* Work products are handed in for the profiles that ask for them.
WorkProductDeviates ==
    /\ RequiresObligations(bundle.claim.profile)
    /\ \/ \E r \in FrameReviewers \cap Received(bundle), a \in bundle.claim.atoms :
             FrameDeviates(r, a)
       \/ \E r \in Suspects \cap Received(bundle), a \in bundle.claim.atoms :
             StrayArtifact(r, a)
       \/ \E d \in Due(bundle) :
             ObligationOwner[d[1]] \in Received(bundle) /\ ObligationDeviates(d)

-----------------------------------------------------------------------------
\* Reviews that do not go as they should

\* The runtime closes the invocation of r with a failure receipt.
ReviewerFails(r) ==
    \E s \in { "FAILED", "TIMEOUT", "LOOP_DETECTED" } :
       LET b == [bundle EXCEPT !.findings = { f \in @ : f.by # r },
                               !.frames = { x \in @ : x.by # r },
                               !.obligations = { x \in @ : x.by # r },
                               !.receipts[r].status = s]
       IN  Deviate(Rebind(b, r))

ReceiptLost(r) ==
    Deviate([bundle EXCEPT !.receipts = [s \in Received(bundle) \ {r} |-> @[s]]])

\* The receipt of r is not the one of a successful isolated review of this claim with
\* the current prompt, or names what another receipt names.
ReceiptDeviates(r) ==
    LET was == bundle.receipts[r]
    IN  \E now \in { [was EXCEPT !.signed = FALSE], [was EXCEPT !.context = "SHARED"],
                     [was EXCEPT !.prompt = "previous", !.invoked[3] = "previous"],
                     [was EXCEPT !.claim = 1, !.invoked[1] = 1],
                     [was EXCEPT !.invocation = "scope"],
                     [was EXCEPT !.modelBound = FALSE], [was EXCEPT !.response = "scope"] } :
           Deviate([bundle EXCEPT !.receipts[r] = now])

\* The models of the reviewers rs return the same bytes, which report nothing.
SameOutput(rs) ==
    LET same == { r \in rs \cap Received(bundle) : bundle.receipts[r].status = "SUCCESS" }
    IN  /\ \A r \in same : ReportedBy(bundle, r) = {} /\ ArtifactsOf(bundle, r) = {}
        /\ Deviate([bundle EXCEPT !.receipts =
                       [r \in Received(bundle) |->
                           IF r \in same THEN [@[r] EXCEPT !.output = "same"] ELSE @[r]]])

\* A witness layer does not verify, with or without a finding.
WitnessLayerFails(l) ==
    \E ts \in { {}, { "WITNESS_SELECTION_INVALID" }, { "EXTERNAL_WITNESS_COUNTEREXAMPLE" } } :
       Deviate([bundle EXCEPT !.witness = [k \in DOMAIN @ \cup {l} |-> IF k = l THEN ts ELSE @[k]]])

-----------------------------------------------------------------------------
\* The evidence and its acquisition

\* Evidence changes, or goes, after it was admitted and reviewed.
EvidenceChanges(e) == Deviate([bundle EXCEPT !.items[e].version = @ + 1])

EvidenceDropped(e) ==
    Deviate([bundle EXCEPT !.items = [d \in Universe(bundle) \ {e} |-> @[d]]])

\* Evidence came without a source group, or with text the scan flags.
EvidenceIsPoor(e) ==
    \/ Deviate([bundle EXCEPT !.items[e].group = ""])
    \/ Deviate([bundle EXCEPT !.items[e].flagged = TRUE])

AdmissionDeviates(e) ==
    \/ Deviate([bundle EXCEPT !.admissions = [d \in DOMAIN @ \ {e} |-> @[d]]])
    \/ /\ e \in DOMAIN bundle.admissions
       /\ \/ Deviate([bundle EXCEPT !.admissions[e].signed = FALSE])
          \/ Deviate([bundle EXCEPT !.admissions[e].status = "FAILED"])
          \/ \E d \in DOMAIN bundle.admissions :
                Deviate([bundle EXCEPT !.admissions[e].capture = bundle.admissions[d].capture])

KeyUnavailable ==
    \/ Deviate([bundle EXCEPT !.runtimeKey = FALSE])
    \/ Deviate([bundle EXCEPT !.evidenceKey = FALSE])

-----------------------------------------------------------------------------
RunGate ==
    /\ decision = Undecided
    /\ decision' = Decide(bundle)
    /\ UNCHANGED << bundle, deviations >>

Next ==
    \/ \E r \in Reporters \cap Received(bundle), t \in Reports, es \in References :
          ReviewerReports(r, t, es)
    \/ WorkProductDeviates
    \/ \E r \in Suspects \cap Received(bundle) :
          ReviewerFails(r) \/ ReceiptLost(r) \/ ReceiptDeviates(r)
    \/ \E rs \in { BaseReviewers, BaseReviewers \cup SemanticReviewers } : SameOutput(rs)
    \/ \E l \in WitnessLayers : WitnessLayerFails(l)
    \/ \E e \in Universe(bundle) :
          EvidenceChanges(e) \/ EvidenceDropped(e) \/ EvidenceIsPoor(e) \/ AdmissionDeviates(e)
    \/ KeyUnavailable
    \/ RunGate

Spec == Init /\ [][Next]_vars
=============================================================================

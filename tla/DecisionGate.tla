----------------------------- MODULE DecisionGate -----------------------------
(***************************************************************************)
(* The deterministic gate: decide(claim, evidence, review, keys) as pure   *)
(* operators over one bundle b, with                                       *)
(*                                                                         *)
(*   claim       [profile, version, atoms, cites, says, evidence]          *)
(*   items       the frozen universe E0: a function from evidence ids to   *)
(*               [version, group, source, origin, flagged]                 *)
(*   admissions  a function from evidence ids to acquisition receipts      *)
(*               [version, capture, origin, signed, status]                *)
(*   receipts    a function from reviewers to runtime receipts             *)
(*   findings, frames, obligations    what the reviewers reported          *)
(*   runtimeKey, evidenceKey          whether the keys are available       *)
(*   witness     a function from the witness layers whose verification     *)
(*               fails to the types of findings they raise                 *)
(*                                                                         *)
(* A digest is the value it was taken of: a receipt carries the version of *)
(* the claim, the versions of the evidence and the findings it is about.   *)
(***************************************************************************)
EXTENDS DecisionUsefulness

BaseReviewers == { "decomposer", "evidence", "challenger", "scope", "security" }
SemanticReviewers == { "entailment", "counterexample" }

RequiredReviewers(p) ==
    BaseReviewers \cup IF AtLeast(p, "SEMANTIC_FORTIFIED") THEN SemanticReviewers ELSE {}

\* The only reviewer that may report a type of finding; other types are anybody's.
FindingOwner ==
    [ DECOMPOSITION_GAP |-> "decomposer", FABRICATION |-> "evidence",
      INSUFFICIENT_EVIDENCE |-> "evidence", STALE_EVIDENCE |-> "evidence",
      CONTRADICTION |-> "challenger", SCOPE_INFLATION |-> "scope",
      PROMPT_INJECTION |-> "security", ENTAILMENT_GAP |-> "entailment",
      COUNTEREXAMPLE_FOUND |-> "counterexample",
      REPRESENTATION_DISAGREEMENT |-> "decomposer",
      SEMANTIC_OBLIGATION_GAP |-> "decomposer",
      SEMANTIC_OBLIGATION_FAILED |-> "entailment" ]

Finding(by, type, sev, ev) == [by |-> by, type |-> type, sev |-> sev, ev |-> ev]

Universe(b) == DOMAIN b.items
RequiredGroups(p) == IF AtLeast(p, "CORROBORATED") THEN 2 ELSE 1

(* Faulty variant: a profile list that later profiles were not added to.    *)
RequiresAdmissionUntilModelBound(p) == p \in { "FORTIFIED", "MODEL_BOUND" }

RequiresAdmission(p) == AtLeast(p, "FORTIFIED")
RequiresModelBinding(p) == AtLeast(p, "MODEL_BOUND")

-----------------------------------------------------------------------------
\* Evidence admission

\* What became of the acquisition of evidence e.
AdmissionStatus(b, e) ==
    IF e \notin DOMAIN b.admissions THEN "MISSING"
    ELSE LET r == b.admissions[e]
         IN  IF \/ ~(b.evidenceKey /\ r.signed)
                \/ r.version # b.items[e].version
                \/ r.origin # b.items[e].origin
             THEN "INVALID" ELSE r.status

(* Faulty variant: captures are compared within the claim only.            *)
ReusedCapturesOfClaim(b) ==
    { e \in Universe(b) \cap DOMAIN b.admissions \cap b.claim.evidence :
        \E d \in Universe(b) \cap DOMAIN b.admissions \cap b.claim.evidence :
           d # e /\ b.admissions[d].capture = b.admissions[e].capture }

ReusedCaptures(b) ==
    { e \in Universe(b) \cap DOMAIN b.admissions :
        \E d \in Universe(b) \cap DOMAIN b.admissions :
           d # e /\ b.admissions[d].capture = b.admissions[e].capture }

AdmissionHold(b) ==
    /\ RequiresAdmission(b.claim.profile)
    /\ \/ ~b.evidenceKey
       \/ ~(DOMAIN b.admissions \subseteq Universe(b))
       \/ ReusedCaptures(b) # {}
       \/ \E e \in Universe(b) : AdmissionStatus(b, e) # "CAPTURED"

\* The type of finding each refused admission raises.
AdmissionFinding ==
    [ MISSING |-> "EVIDENCE_ADMISSION_MISSING", INVALID |-> "INVALID_EVIDENCE_ADMISSION",
      FAILED |-> "EVIDENCE_ACQUISITION_FAILED" ]

AdmissionFindings(b) ==
    IF ~RequiresAdmission(b.claim.profile) THEN {}
    ELSE { Finding("evidence", AdmissionFinding[AdmissionStatus(b, e)], "CRITICAL", {e}) :
             e \in { d \in Universe(b) : AdmissionStatus(b, d) # "CAPTURED" } }
         \cup { Finding("evidence", "DUPLICATE_EVIDENCE_CAPTURE", "CRITICAL",
                        Universe(b) \cap DOMAIN b.admissions) : e \in ReusedCaptures(b) }

TrustedOrigins(b, es) ==
    IF ~RequiresAdmission(b.claim.profile) THEN {}
    ELSE { b.admissions[e].origin :
             e \in { d \in es \cap Universe(b) : AdmissionStatus(b, d) = "CAPTURED" } }

-----------------------------------------------------------------------------
\* The structural check of the atoms

\* The evidence an atom can count on: frozen and declared by the claim.
Available(b, a) == b.claim.cites[a] \cap Universe(b) \cap b.claim.evidence

Groups(b, a) == { b.items[e].group : e \in Available(b, a) } \ {""}
Sources(b, a) == { b.items[e].source : e \in Available(b, a) }
NoProvenance(b, a) == { e \in Available(b, a) : b.items[e].group = "" }

DiversityGap(b, a) ==
    \/ Cardinality(Groups(b, a)) < RequiredGroups(b.claim.profile)
    \/ Cardinality(Sources(b, a)) < RequiredGroups(b.claim.profile)

OriginGap(b, a) ==
    /\ RequiresAdmission(b.claim.profile)
    /\ Cardinality(TrustedOrigins(b, b.claim.cites[a])) < 2

AtomHold(b, a) ==
    \/ b.claim.cites[a] = {}
    \/ ~(b.claim.cites[a] \subseteq b.claim.evidence)
    \/ ~(b.claim.cites[a] \subseteq Universe(b))
    \/ NoProvenance(b, a) # {}
    \/ DiversityGap(b, a)
    \/ OriginGap(b, a)

HeldAtoms(b) == { a \in b.claim.atoms : AtomHold(b, a) }

DuplicateStatements(b) ==
    \E a, c \in b.claim.atoms : a # c /\ b.claim.says[a] = b.claim.says[c]

AtomicHold(b) == b.claim.atoms = {} \/ DuplicateStatements(b) \/ HeldAtoms(b) # {}

AtomicFindings(b) ==
    LET on(P(_)) == { a \in b.claim.atoms : P(a) }
    IN  { Finding("decomposer", "ATOMIC_COVERAGE_GAP", "CRITICAL", {}) :
            x \in { y \in {b.claim.atoms} : y = {} } }
        \cup { Finding("decomposer", "DUPLICATE_ATOMIC_CLAIM", "WARNING", {}) :
                 x \in { y \in {TRUE} : DuplicateStatements(b) } }
        \cup { Finding("evidence", "ATOMIC_COVERAGE_GAP", "CRITICAL", {}) :
                 a \in on(LAMBDA c : b.claim.cites[c] = {}) }
        \cup { Finding("evidence", "SOURCE_PROVENANCE_MISSING", "CRITICAL", NoProvenance(b, a)) :
                 a \in on(LAMBDA c : NoProvenance(b, c) # {}) }
        \cup { Finding("evidence", "SOURCE_DIVERSITY_GAP", "WARNING", Available(b, a)) :
                 a \in on(LAMBDA c : DiversityGap(b, c)) }
        \cup { Finding("evidence", "EVIDENCE_ORIGIN_DIVERSITY_GAP", "WARNING", Available(b, a)) :
                 a \in on(LAMBDA c : OriginGap(b, c)) }

\* The deterministic scan of the evidence text.
ScanFindings(b) ==
    { Finding("security", "PROMPT_INJECTION", "CRITICAL", {e}) :
        e \in { d \in Universe(b) : b.items[d].flagged } }

-----------------------------------------------------------------------------
\* The receipts

Received(b) == DOMAIN b.receipts
Counted(b) == RequiredReviewers(b.claim.profile) \cap Received(b)
Having(b, P(_)) == \E r \in Received(b) : P(b.receipts[r])

Versions(b) == [e \in Universe(b) |-> b.items[e].version]

ReportedBy(b, r) == { f \in b.findings : f.by = r }
ArtifactsOf(b, r) == { x \in b.frames \cup b.obligations : x.by = r }

UnboundModel(b) ==
    RequiresModelBinding(b.claim.profile) /\ \E r \in Counted(b) : ~b.receipts[r].modelBound

DuplicateResponses(b) ==
    /\ RequiresModelBinding(b.claim.profile)
    /\ \E r, s \in Received(b) : /\ r # s
                                 /\ b.receipts[r].response # ""
                                 /\ b.receipts[r].response = b.receipts[s].response

\* Every required reviewer succeeded with the same non-empty raw output.
CorrelatedOutput(b) ==
    LET successes == { r \in Counted(b) : /\ b.receipts[r].status = "SUCCESS"
                                          /\ b.receipts[r].output # "" }
    IN  /\ RequiresModelBinding(b.claim.profile)
        /\ successes = RequiredReviewers(b.claim.profile)
        /\ Cardinality({ b.receipts[r].output : r \in successes }) = 1

\* A required reviewer reviewed another claim, or other evidence than the universe.
BindingMismatch(b) ==
    \E r \in Counted(b) :
       \/ b.receipts[r].claim # b.claim.version
       \/ b.receipts[r].status = "SUCCESS" /\ b.receipts[r].ev # Versions(b)

RoleViolations(b) ==
    { f \in b.findings : f.type \in DOMAIN FindingOwner /\ f.by # FindingOwner[f.type] }

BadReferences(b) == UNION { f.ev : f \in b.findings } \ Universe(b)

RoleFindings(b) ==
    { Finding("security", "REVIEWER_ROLE_VIOLATION", "CRITICAL", f.ev) : f \in RoleViolations(b) }

\* E0 evidence the claim left out and a reviewer's finding rests on.
MaterialTypes == { "CONTRADICTION", "INSUFFICIENT_EVIDENCE", "SCOPE_INFLATION",
                   "STALE_EVIDENCE", "FABRICATION" }

MaterialOmissions(b) ==
    UNION { f.ev : f \in { g \in b.findings : g.type \in MaterialTypes } }
        \cap (Universe(b) \ b.claim.evidence)

-----------------------------------------------------------------------------
\* The semantic layers

SemanticHold(b) ==
    /\ AtLeast(b.claim.profile, "SEMANTIC_FORTIFIED")
    /\ \E r \in SemanticReviewers :
          r \notin Received(b) \/ b.receipts[r].status # "SUCCESS"

RequiresObligations(p) == AtLeast(p, "REPRESENTATION_FORTIFIED")

FrameReviewers == { "decomposer", "entailment", "counterexample" }

\* Who owes each kind of obligation, and the results that discharge it.
ObligationOwner ==
    [ SOURCE_CLASSIFICATION |-> "entailment", JOINT_ENTAILMENT |-> "entailment",
      SCOPE_BOUNDARY |-> "counterexample", COUNTEREXAMPLE_SEARCH |-> "counterexample" ]
Discharging ==
    [ SOURCE_CLASSIFICATION |-> { "SUPPORTS", "NEUTRAL" }, JOINT_ENTAILMENT |-> { "SATISFIED" },
      SCOPE_BOUNDARY |-> { "WITHIN_SCOPE" },
      COUNTEREXAMPLE_SEARCH |-> { "NO_COUNTEREXAMPLE_FOUND" } ]
TokenKind ==
    [ SOURCE_CLASSIFICATION |-> "source", JOINT_ENTAILMENT |-> "joint",
      SCOPE_BOUNDARY |-> "scope", COUNTEREXAMPLE_SEARCH |-> "counterexample" ]

\* Work products nobody asked this reviewer for, or about unknown atoms or evidence.
InvalidArtifacts(b) ==
    { x \in b.frames : x.by \notin FrameReviewers \/ x.atom \notin b.claim.atoms }
    \cup { x \in b.obligations : \/ x.by # ObligationOwner[x.type]
                                 \/ x.atom \notin b.claim.atoms
                                 \/ ~((x.refs \cup {x.ev}) \ {""} \subseteq Universe(b)) }

FramesBy(b, r, a) == { x \in b.frames : x.by = r /\ x.atom = a }

\* All three reviewers read atom a once, and not the same way.
Disagreement(b, a) ==
    LET readings == { x.reading : x \in { y \in b.frames : /\ y.atom = a
                                                           /\ y.by \in FrameReviewers } }
    IN  /\ \A r \in FrameReviewers : Cardinality(FramesBy(b, r, a)) = 1
        /\ Cardinality(readings) # 1 \/ "UNKNOWN" \in readings

\* The obligations due: <<type, atom, evidence or "">>.
Due(b) ==
    { d \in { "SOURCE_CLASSIFICATION" } \X b.claim.atoms
             \X UNION { b.claim.cites[a] : a \in b.claim.atoms } : d[3] \in b.claim.cites[d[2]] }
    \cup (DOMAIN ObligationOwner \ { "SOURCE_CLASSIFICATION" }) \X b.claim.atoms \X { "" }

Filed(b, d) == { x \in b.obligations : /\ x.by = ObligationOwner[d[1]]
                                       /\ x.type = d[1] /\ x.atom = d[2] /\ x.ev = d[3] }

Token(d) == IF d[3] = "" THEN << TokenKind[d[1]], d[2] >> ELSE << TokenKind[d[1]], d[2], d[3] >>

MissingObligations(b) ==
    { << "frame", p[1], p[2] >> :
        p \in { q \in FrameReviewers \X b.claim.atoms :
                  Cardinality(FramesBy(b, q[1], q[2])) # 1 } }
    \cup { Token(d) : d \in { c \in Due(b) : Cardinality(Filed(b, c)) # 1 } }

FailedObligations(b) ==
    { Token(d) : d \in { c \in Due(b) :
        /\ Cardinality(Filed(b, c)) = 1
        /\ \A x \in Filed(b, c) : x.result \notin Discharging[c[1]] } }

\* The semantic work products of a bundle: what is missing, failed or in dispute.
Obligations(b) ==
    IF RequiresObligations(b.claim.profile)
    THEN [mismatch |-> { a \in b.claim.atoms : Disagreement(b, a) },
          missing  |-> MissingObligations(b), failed |-> FailedObligations(b)]
    ELSE [mismatch |-> {}, missing |-> {}, failed |-> {}]

ObligationHold(b) ==
    /\ RequiresObligations(b.claim.profile)
    /\ \/ InvalidArtifacts(b) # {}
       \/ Obligations(b).mismatch # {}
       \/ Obligations(b).missing # {}
       \/ Obligations(b).failed # {}

SemanticFindings(b) ==
    LET o == Obligations(b)
    IN  { Finding("decomposer", "SEMANTIC_REVIEW_COVERAGE_GAP", "CRITICAL", {}) :
            x \in { y \in {TRUE} : SemanticHold(b) } }
        \cup { Finding("decomposer", "REPRESENTATION_DISAGREEMENT", "CRITICAL", {}) :
                 a \in o.mismatch }
        \cup { Finding("decomposer", "SEMANTIC_OBLIGATION_GAP", "CRITICAL", {}) :
                 t \in o.missing }
        \cup { Finding("entailment", "SEMANTIC_OBLIGATION_FAILED", "CRITICAL", {}) :
                 t \in o.failed }

-----------------------------------------------------------------------------
\* The witness layers: which one a profile asks for

LayerProfile ==
    [ EXTERNAL_WITNESS |-> "EXTERNAL_WITNESS_FORTIFIED",
      WITNESS_QUORUM |-> "WITNESS_QUORUM_FORTIFIED",
      WITNESS_PROVENANCE |-> "WITNESS_PROVENANCE_FORTIFIED",
      WITNESS_ANCESTRY |-> "WITNESS_ANCESTRY_FORTIFIED",
      WITNESS_REGISTRY |-> "WITNESS_REGISTRY_FORTIFIED",
      WITNESS_REGISTRY_ANCESTRY |-> "WITNESS_REGISTRY_ANCESTRY_FORTIFIED",
      WITNESS_REGISTRY_OBSERVATION |-> "WITNESS_REGISTRY_OBSERVATION_FORTIFIED" ]

WitnessLayers == DOMAIN LayerProfile

\* The external witness alone is not part of the stronger profiles.
LayerApplies(p, l) ==
    IF l = "EXTERNAL_WITNESS" THEN p = LayerProfile[l] ELSE AtLeast(p, LayerProfile[l])

LayerHolds(b) == { l \in WitnessLayers \cap DOMAIN b.witness : LayerApplies(b.claim.profile, l) }

\* A layer that holds may do so without a finding.
LayerFindings(b) ==
    { Finding("counterexample", t, "CRITICAL", {}) :
        t \in UNION { b.witness[l] : l \in LayerHolds(b) } }

-----------------------------------------------------------------------------
\* The verdict

AllFindings(b) ==
    b.findings \cup AdmissionFindings(b) \cup ScanFindings(b) \cup AtomicFindings(b)
    \cup RoleFindings(b) \cup SemanticFindings(b) \cup LayerFindings(b)

\* The integrity and process failures, by the name they block salvage under.
Failures(b) ==
    LET having(P(_)) == Having(b, P)
    IN [ EVIDENCE_ADMISSION_INTEGRITY |-> AdmissionHold(b),
         RUNTIME_KEY_UNAVAILABLE |-> ~b.runtimeKey,
         CLAIM_EVIDENCE_SET_EMPTY |-> b.claim.evidence = {},
         MISSING_EVIDENCE_OBJECT |-> ~(b.claim.evidence \subseteq Universe(b)),
         MISSING_REQUIRED_REVIEWER |->
             ~(RequiredReviewers(b.claim.profile) \subseteq Received(b)),
         INVALID_RUNTIME_RECEIPT |-> having(LAMBDA r : ~(b.runtimeKey /\ r.signed)),
         REVIEWER_EXECUTION_FAILURE |-> having(LAMBDA r : r.status # "SUCCESS"),
         REVIEW_CONTEXT_CONTAMINATION |-> having(LAMBDA r : r.context # "ISOLATED"),
         REVIEW_PROMPT_MISMATCH |-> having(LAMBDA r : r.prompt # "current"),
         INVOCATION_CONTINUITY_FAILURE |->
             having(LAMBDA r : r.invoked # << b.claim.version, Versions(b), "current" >>),
         MODEL_EXECUTION_UNBOUND |-> UnboundModel(b),
         DUPLICATE_MODEL_RESPONSE |-> DuplicateResponses(b),
         CORRELATED_MODEL_OUTPUT |-> CorrelatedOutput(b),
         DUPLICATE_REVIEW_INVOCATION |->
             \E r, s \in Received(b) : r # s /\ b.receipts[r].invocation = b.receipts[s].invocation,
         REVIEW_BINDING_MISMATCH |-> BindingMismatch(b),
         REVIEW_OUTPUT_TAMPER |->
             \E r \in Received(b) : b.receipts[r].findings # ReportedBy(b, r),
         SEMANTIC_ARTIFACT_TAMPER |->
             \E r \in Received(b) : b.receipts[r].artifacts # ArtifactsOf(b, r),
         REVIEWER_ROLE_VIOLATION |-> RoleViolations(b) # {},
         BAD_EVIDENCE_REFERENCE |-> BadReferences(b) # {},
         EVIDENCE_SPACE_ADDITION |-> ~(b.claim.evidence \subseteq Universe(b)),
         MATERIAL_TRANSITION_LEAKAGE |-> MaterialOmissions(b) # {},
         SEMANTIC_REVIEW_COVERAGE_GAP |-> SemanticHold(b),
         WITNESS_LAYER_HOLD |-> LayerHolds(b) # {},
         DUPLICATE_ATOMIC_CLAIM |-> DuplicateStatements(b) ]

(* Faulty variant: a failure that is forgotten in the list of blockers.     *)
GlobalBlockersSparingContexts(b) ==
    LET fs == Failures(b) IN { n \in DOMAIN fs \ { "REVIEW_CONTEXT_CONTAMINATION" } : fs[n] }

GlobalBlockers(b) == LET fs == Failures(b) IN { n \in DOMAIN fs : fs[n] }

StructuralHold(b) == AtomicHold(b) \/ ObligationHold(b) \/ GlobalBlockers(b) # {}

\* The trust conditions on the evidence review are all part of StructuralHold, which
\* the verdict conjoins with this.
CriticalFabrication(b) ==
    \E f \in b.findings : f.type = "FABRICATION" /\ f.sev = "CRITICAL" /\ f.by = "evidence"

(* Faulty variant: a reported fabrication rejects whatever else is wrong.   *)
VerdictOfAnyReview(b) ==
    IF CriticalFabrication(b) THEN "REJECT"
    ELSE IF StructuralHold(b) \/ AllFindings(b) # {} THEN "HOLD" ELSE "PASS"

\* _HOLD_TYPES holds every type of finding but FABRICATION, and the verdict adds that.
VerdictOf(b) ==
    IF CriticalFabrication(b) /\ ~StructuralHold(b) THEN "REJECT"
    ELSE IF StructuralHold(b) \/ AllFindings(b) # {} THEN "HOLD" ELSE "PASS"

Decide(b) ==
    LET verdict    == VerdictOf(b)
        usefulness == AssessDecisionUsefulness(b.claim, b.claim.profile, verdict,
                          AllFindings(b), HeldAtoms(b), Obligations(b), GlobalBlockers(b))
    IN  [verdict |-> verdict, usefulness |-> usefulness,
         calibration |-> AssessDecisionCalibration(verdict, AllFindings(b), usefulness)]
=============================================================================

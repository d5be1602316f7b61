-------------------------- MODULE DecisionUsefulness --------------------------
(***************************************************************************)
(* What a decision is good for: which atoms of a held claim may be reused  *)
(* (assess_decision_usefulness) and which kind of debt holds it            *)
(* (assess_decision_calibration).  Pure operators; DecisionGate calls them *)
(* at the end of decide.                                                   *)
(*                                                                         *)
(* A claim is [atoms, cites, says, evidence]: its atoms, the evidence and  *)
(* the statement of each, and the evidence the claim declares.  A finding  *)
(* is [by, type, sev, ev].  The list of findings is a set: nothing here    *)
(* counts repetitions.                                                     *)
(***************************************************************************)
EXTENDS Integers, Sequences, FiniteSetsExt

\* The assurance profiles.  Every set of profiles in the gate but two is an upper
\* segment of this order.
Profiles == << "STANDARD", "CORROBORATED", "FORTIFIED", "MODEL_BOUND",
               "SEMANTIC_FORTIFIED", "REPRESENTATION_FORTIFIED",
               "EXTERNAL_WITNESS_FORTIFIED", "WITNESS_QUORUM_FORTIFIED",
               "WITNESS_PROVENANCE_FORTIFIED", "WITNESS_ANCESTRY_FORTIFIED",
               "WITNESS_REGISTRY_FORTIFIED", "WITNESS_REGISTRY_ANCESTRY_FORTIFIED",
               "WITNESS_REGISTRY_OBSERVATION_FORTIFIED" >>

Rank(p) == CHOOSE i \in DOMAIN Profiles : Profiles[i] = p

AtLeast(p, q) == Rank(p) >= Rank(q)

-----------------------------------------------------------------------------
\* Usefulness

\* Content findings: they hold only the atoms whose evidence they cite.
Localizable == { "FABRICATION", "CONTRADICTION", "INSUFFICIENT_EVIDENCE",
                 "SCOPE_INFLATION", "STALE_EVIDENCE", "ATOMIC_COVERAGE_GAP",
                 "SOURCE_DIVERSITY_GAP", "SOURCE_PROVENANCE_MISSING",
                 "EVIDENCE_ORIGIN_DIVERSITY_GAP", "ENTAILMENT_GAP",
                 "COUNTEREXAMPLE_FOUND" }

SemanticSummaries == { "REPRESENTATION_DISAGREEMENT", "SEMANTIC_OBLIGATION_GAP",
                       "SEMANTIC_OBLIGATION_FAILED" }

\* The atom a token such as <<"joint", a>> or <<"frame", reviewer, a>> is about:
\* its first part after the kind that is the id of an atom.  {} when there is none.
AtomOfToken(token, atoms) ==
    LET hits == { i \in 2..Len(token) : token[i] \in atoms }
    IN  IF hits = {} THEN {} ELSE { token[Min(hits)] }

(* Faulty variant: evidence that atoms share is charged to one of them.     *)
CitedByOne(claim, e) ==
    LET by == { a \in claim.atoms : e \in claim.cites[a] }
    IN  { a \in by : a = CHOOSE x \in by : TRUE }

CitedBy(claim, e) == { a \in claim.atoms : e \in claim.cites[a] }

Localized(claim, f) ==
    /\ f.type \in Localizable
    /\ f.ev # {}
    /\ \A e \in f.ev : CitedBy(claim, e) # {}

(* Faulty variant: atoms whose frames disagree are not held.               *)
AtomBlockersSparingDisagreement(claim, findings, heldAtoms, obligations) ==
    [a \in claim.atoms |->
        { "ATOM_ASSURANCE_HOLD" : h \in heldAtoms \cap {a} }
        \cup { "SEMANTIC_OBLIGATION_OPEN" :
                 t \in { u \in obligations.missing \cup obligations.failed :
                           a \in AtomOfToken(u, claim.atoms) } }
        \cup { f.type : f \in { g \in findings : /\ Localized(claim, g)
                                                 /\ \E e \in g.ev : a \in CitedBy(claim, e) } }]

\* What blocks each atom.  obligations is [mismatch, missing, failed]: atoms, and two
\* sets of tokens.
AtomBlockers(claim, findings, heldAtoms, obligations) ==
    [a \in claim.atoms |->
        { "ATOM_ASSURANCE_HOLD" : h \in heldAtoms \cap {a} }
        \cup { "REPRESENTATION_DISAGREEMENT" : h \in obligations.mismatch \cap {a} }
        \cup { "SEMANTIC_OBLIGATION_MISSING" :
                 t \in { u \in obligations.missing : a \in AtomOfToken(u, claim.atoms) } }
        \cup { "SEMANTIC_OBLIGATION_FAILED" :
                 t \in { u \in obligations.failed : a \in AtomOfToken(u, claim.atoms) } }
        \cup { f.type : f \in { g \in findings : /\ Localized(claim, g)
                                                 /\ \E e \in g.ev : a \in CitedBy(claim, e) } }]

\* What blocks the claim as a whole, beyond the blockers the gate hands over.
ContentBlockers(claim, findings, obligations) ==
    { (IF f.type \in Localizable THEN "UNLOCALIZED_" ELSE "GLOBAL_") \o f.type :
        f \in { g \in findings : /\ g.type \notin SemanticSummaries
                                 /\ ~Localized(claim, g) } }
    \cup { "UNLOCALIZED_SEMANTIC_OBLIGATION" :
             t \in { u \in obligations.missing \cup obligations.failed :
                       AtomOfToken(u, claim.atoms) = {} } }

SalvageEligible(claim, p) ==
    AtLeast(p, "REPRESENTATION_FORTIFIED") /\ Cardinality(claim.atoms) >= 2

Assessment(status, promotable, claim, blockers) ==
    [status |-> status, promotable |-> promotable,
     held |-> claim.atoms \ promotable, blockers |-> blockers]

AssessDecisionUsefulness(claim, p, verdict, findings, heldAtoms, obligations, global) ==
    LET onAtoms  == AtomBlockers(claim, findings, heldAtoms, obligations)
        blockers == global \cup ContentBlockers(claim, findings, obligations)
        held     == { a \in claim.atoms : onAtoms[a] # {} }
    IN  CASE verdict = "PASS" -> Assessment("FULL_PASS", claim.atoms, claim, {})
          [] verdict = "REJECT" ->
               Assessment("REJECTED", {}, claim, { "FULL_CLAIM_REJECTED" })
          [] OTHER ->
               IF blockers # {} \/ ~SalvageEligible(claim, p)
               THEN Assessment("HARD_HOLD", {}, claim,
                       blockers \cup IF SalvageEligible(claim, p) THEN {}
                                     ELSE { "PROFILE_NOT_ATOM_SALVAGE_ELIGIBLE" })
               ELSE IF held = {} \/ held = claim.atoms
               THEN Assessment("HARD_HOLD", {}, claim, { "NO_SAFE_LOCALIZED_SPLIT" })
               ELSE Assessment("SCOPED_SALVAGE", claim.atoms \ held, claim, {})

-----------------------------------------------------------------------------
\* Calibration

EvidenceDebt == { "INSUFFICIENT_EVIDENCE", "STALE_EVIDENCE", "ATOMIC_COVERAGE_GAP",
                  "SOURCE_DIVERSITY_GAP", "SOURCE_PROVENANCE_MISSING",
                  "EVIDENCE_ORIGIN_DIVERSITY_GAP" }

SemanticDebt == { "DECOMPOSITION_GAP", "ENTAILMENT_GAP", "SEMANTIC_REVIEW_COVERAGE_GAP",
                  "REPRESENTATION_DISAGREEMENT", "SEMANTIC_OBLIGATION_GAP" }

ClaimConflict == { "CONTRADICTION", "SCOPE_INFLATION", "COUNTEREXAMPLE_FOUND",
                   "SEMANTIC_OBLIGATION_FAILED", "EXTERNAL_WITNESS_COUNTEREXAMPLE",
                   "FABRICATION" }

(* Faulty variant: a list that lags behind the blockers of the gate.        *)
HardUsefulnessBlockersOfReceipts ==
      { "RUNTIME_KEY_UNAVAILABLE", "MISSING_REQUIRED_REVIEWER", "INVALID_RUNTIME_RECEIPT",
        "REVIEWER_EXECUTION_FAILURE", "REVIEW_CONTEXT_CONTAMINATION",
        "INVOCATION_CONTINUITY_FAILURE", "MODEL_EXECUTION_UNBOUND" }

\* The global blockers that count as a hard risk.
HardUsefulnessBlockers ==
      { "EVIDENCE_ADMISSION_INTEGRITY", "RUNTIME_KEY_UNAVAILABLE",
        "CLAIM_EVIDENCE_SET_EMPTY", "MISSING_EVIDENCE_OBJECT",
        "MISSING_REQUIRED_REVIEWER", "INVALID_RUNTIME_RECEIPT",
        "REVIEWER_EXECUTION_FAILURE", "REVIEW_CONTEXT_CONTAMINATION",
        "REVIEW_PROMPT_MISMATCH", "INVOCATION_CONTINUITY_FAILURE",
        "MODEL_EXECUTION_UNBOUND", "DUPLICATE_MODEL_RESPONSE",
        "DUPLICATE_REVIEW_INVOCATION", "REVIEW_BINDING_MISMATCH",
        "REVIEW_OUTPUT_TAMPER", "SEMANTIC_ARTIFACT_TAMPER",
        "REVIEWER_ROLE_VIOLATION", "BAD_EVIDENCE_REFERENCE",
        "EVIDENCE_SPACE_ADDITION", "MATERIAL_TRANSITION_LEAKAGE",
        "SEMANTIC_REVIEW_COVERAGE_GAP", "WITNESS_LAYER_HOLD", "DUPLICATE_ATOMIC_CLAIM" }

\* The status of a decision whose findings and usefulness are given.  A finding of an
\* unlisted type is a hard risk.  One fault may count in two classes, and then it is mixed.
AssessDecisionCalibration(verdict, findings, usefulness) ==
    LET types   == { f.type : f \in findings }
        debts   == EvidenceDebt \cup SemanticDebt \cup ClaimConflict
        classes == [evidence |-> types \cap EvidenceDebt, semantic |-> types \cap SemanticDebt,
                    conflict |-> types \cap ClaimConflict,
                    hard |-> (types \ debts) \cup (usefulness.blockers \cap HardUsefulnessBlockers)]
        active  == { c \in DOMAIN classes : classes[c] # {} }
    IN  CASE verdict = "PASS"   -> "CLEAR_PASS"
          [] verdict = "REJECT" -> "REJECTED"
          [] OTHER ->
               CASE active \subseteq { "hard" } -> "HARD_INTEGRITY_HOLD"
                 [] active = { "conflict" } -> "CLAIM_CONFLICT_HOLD"
                 [] active = { "evidence" } -> "EVIDENCE_DEBT_HOLD"
                 [] active = { "semantic" } -> "SEMANTIC_DEBT_HOLD"
                 [] OTHER -> "MIXED_HOLD"

ShadowPolicies == { "BASELINE_NO_RELAXATION", "NAIVE_EVIDENCE_DEBT_RELEASE",
                    "NAIVE_SEMANTIC_DEBT_RELEASE", "NAIVE_ALL_DEBT_RELEASE" }

\* Would a decision of this status be promoted under a simulated relaxation?
ShadowPolicyWouldPromote(status, policy) ==
    \/ status = "CLEAR_PASS"
    \/ /\ status = "EVIDENCE_DEBT_HOLD"
       /\ policy \in { "NAIVE_EVIDENCE_DEBT_RELEASE", "NAIVE_ALL_DEBT_RELEASE" }
    \/ /\ status = "SEMANTIC_DEBT_HOLD"
       /\ policy \in { "NAIVE_SEMANTIC_DEBT_RELEASE", "NAIVE_ALL_DEBT_RELEASE" }
=============================================================================

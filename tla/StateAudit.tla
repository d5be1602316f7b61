----------------------------- MODULE StateAudit -----------------------------
(***************************************************************************)
(* What the program concludes from the shared tables alone:                *)
(*   - audit_recovery_state_universe (held by src/app/store.py), which a   *)
(*     resuming process runs before it trusts the tables;                  *)
(*   - inspect_interrupted_attempt (held by src/app/live_acquisition.py),  *)
(*     which says what kind of crash point the tables show;                *)
(*   - verify_distributed_execution_seal (src/app/evidence_admission.py),  *)
(*     which any later reader of a published rerun applies.                *)
(* Digests, signatures and JSON schemas are what they protect in the       *)
(* tables, so the checks that recompute them are the equalities below.     *)
(***************************************************************************)
EXTENDS ProviderCallLedger

Epoch(w) == claims[w].epoch

(* The claim rows, read in epoch order, are a chain that ends at the       *)
(* attempt's current claim.                                                *)
AuditClaims ==
    /\ \A v, w \in Workers : Claimed(v) /\ Epoch(v) = Epoch(w) => v = w
    /\ \A w \in Workers : Epoch(w) = 1 => claims[w].prior = None /\ ~claims[w].takeover
    /\ \A w \in Workers : Epoch(w) > 1 =>
          /\ claims[w].takeover
          /\ \E v \in Workers : claims[w].prior = v /\ Epoch(v) = Epoch(w) - 1
    /\ currentClaim \in Workers /\ Epoch(currentClaim) = currentEpoch
    /\ \A w \in Workers : Epoch(w) <= currentEpoch

(* The state the audit recomputes from the committed actions below step n. *)
RecomputedState[n \in 0 .. StepCount] ==
    IF n = 0 THEN <<>>
    ELSE IF Committed(n - 1)
      THEN Append(RecomputedState[n - 1],
                  [by |-> permits[n - 1].claim, completion |-> commits[n - 1].completion])
      ELSE RecomputedState[n - 1]

(* Action rows are contiguous, of known claims, and in the order of epochs.*)
AuditPermit(s) ==
    /\ \A t \in 0 .. s - 1 : Authorized(t)
    /\ permits[s].step = s
    /\ permits[s].prior = RecomputedState[s]
    /\ Claimed(permits[s].claim)
    /\ \A t \in 0 .. s - 1 :
          Committed(t) => Epoch(commits[t].claim) <= Epoch(permits[s].claim)
    /\ ~Committed(s) => s = nextStep

AuditCommit(s) ==
    /\ Authorized(s)
    /\ commits[s].permit = permits[s]
    /\ commits[s].prior = RecomputedState[s]
    /\ commits[s].next = RecomputedState[s + 1]
    /\ Claimed(commits[s].claim)
    /\ Epoch(permits[s].claim) <= Epoch(commits[s].claim)

(* The attempt row agrees with the action rows.                            *)
AuditAttempt ==
    /\ \A s \in Step : Committed(s) <=> s < nextStep
    /\ state = RecomputedState[StepCount]
    /\ IF \E s \in Step : Authorized(s) /\ ~Committed(s)
         THEN nextStep \in Step /\ inFlight = permits[nextStep]
         ELSE inFlight = None
    /\ completed => nextStep = StepCount /\ \A s \in Step : Committed(s)

(* Provider rows are a prefix of the authorized actions; a completed one   *)
(* can be replayed, unless the whole attempt is done and it was purged.    *)
AuditCall(s) ==
    /\ \A t \in 0 .. s - 1 : Started(t)
    /\ Authorized(s)
    /\ calls[s].permit = permits[s]
    /\ Claimed(calls[s].claim)
    /\ Epoch(permits[s].claim) <= Epoch(calls[s].claim)
    /\ calls[s].state = "COMPLETED" =>
          /\ calls[s].response # None
          /\ calls[s].material = "AVAILABLE" \/ nextStep = StepCount
          /\ \A t \in Step \ {s} : calls[t].state = "COMPLETED" =>
                calls[t].response # calls[s].response
    /\ calls[s].state # "COMPLETED" => calls[s].response = None

(* "A committed atomic action in v0.37+ must always have a durable         *)
(* completion."                                                            *)
CommittedActionHasDurableCompletion ==
    \A s \in Step : Committed(s) => calls[s].state = "COMPLETED"

AuditReconciliation(s) ==
    /\ calls[s].state = "COMPLETED"
    /\ Claimed(recons[s])
    /\ Epoch(calls[s].claim) <= Epoch(recons[s])

AuditPasses ==
    /\ begun
    /\ AuditClaims
    /\ \A s \in Step : Authorized(s) => AuditPermit(s)
    /\ \A s \in Step : Committed(s) => AuditCommit(s)
    /\ AuditAttempt
    /\ \A s \in Step : Started(s) => AuditCall(s)
    /\ CommittedActionHasDurableCompletion
    /\ \A s \in Step : recons[s] # None => AuditReconciliation(s)

-----------------------------------------------------------------------------
Classification ==
    IF ~begun THEN "NOT_STARTED"
    ELSE IF completed \/ nextStep = StepCount THEN "READY_FOR_IDEMPOTENT_FINALIZATION"
    ELSE IF Committed(nextStep) THEN "INVALID_STATE"
    ELSE IF ~Authorized(nextStep)
      THEN IF Started(nextStep) THEN "INVALID_STATE" ELSE "RESUME_NEXT_FRESH_ACTION"
    ELSE CASE calls[nextStep].state = "NONE" -> "SAFE_PRE_NETWORK_RESUME"
           [] calls[nextStep].state = "COMPLETED" -> "SAFE_DURABLE_COMPLETION_RECONCILIATION"
           [] OTHER -> "FAIL_CLOSED_UNCERTAIN_PROVIDER_CALL"

-----------------------------------------------------------------------------
(* The seal carries a claim chain that ends at its publisher, and every    *)
(* record of the rerun was made under a claim of that chain, in an order   *)
(* of epochs that the protocol can produce.                                *)
SealedEpoch(w) == publication.chain[w].epoch

SealedStepVerifies(s) ==
    /\ SealedEpoch(permits[s].claim) >=
          (IF s = 0 THEN 1 ELSE SealedEpoch(commits[s - 1].claim))
    /\ SealedEpoch(calls[s].claim) >= SealedEpoch(permits[s].claim)
    /\ SealedEpoch(commits[s].claim) >= SealedEpoch(calls[s].claim)
    /\ recons[s] # None =>
          SealedEpoch(recons[s]) \in SealedEpoch(calls[s].claim) .. SealedEpoch(commits[s].claim)

SealVerifies ==
    /\ ClaimChain(publication.chain, publication.final)
    /\ \A s \in Step : Committed(s) /\ calls[s].state = "COMPLETED" /\ SealedStepVerifies(s)
    /\ SealedEpoch(publication.final) >= SealedEpoch(commits[StepCount - 1].claim)
=============================================================================

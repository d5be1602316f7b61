------------------------ MODULE DecisionPublication ------------------------
(***************************************************************************)
(* The trusted review agent (src/app/atomic_execution.py) from the         *)
(* acquisition of evidence to the signed answer: concurrent reviews, each  *)
(* a call of execute_trusted_review or acquire_and_execute_trusted_review, *)
(* over one decision store (timeouts.py) and one KMS key                   *)
(* (provider_execution.py).  The review and the gate themselves are in     *)
(* RecoveryExecution and DecisionGate; here they yield a decision that is  *)
(* the review's own, because its receipts carry the review's run tokens.   *)
(*                                                                         *)
(* Any exception leaves execute_trusted_review with nothing undone, so an  *)
(* exception and a crash are one action, Stop.  Firestore is external: a   *)
(* write may land long after its caller stopped waiting, and may land      *)
(* twice when its answer was lost and the client library sent it again.    *)
(***************************************************************************)
EXTENDS FiniteSets

CONSTANTS
    Reviews,    \* calls of the agent
    Claims,     \* claim ids, the document ids of the store
    Ids,        \* evidence ids
    Sources,    \* locators an acquisition plan may name
    Allowed,    \* ILLUSIONTION_EVIDENCE_ALLOWED_ORIGINS
    Moved,      \* locators that answer with a redirect
    Required,   \* evidence ids the claims and their atoms cite
    None

ASSUME SourceAssumption == Allowed \subseteq Sources /\ Moved \subseteq Sources
ASSUME RequiredAssumption == Required \subseteq Ids

(* ILLUSIONTION_DECISION_STORE: absent, "firestore", "firestore" with      *)
(* other case or surrounding blanks, or any other value.                   *)
StoreSettings == {"unset", "firestore", "spelled", "other"}
Deployments == [store: StoreSettings, pinned: BOOLEAN, signer: BOOLEAN]
Item == [id: Ids, source: Sources]
Phases == {"ready", "acquiring", "reviewing", "decided", "saving", "stored",
           "signer", "checked", "signed", "answered", "stopped"}
Proof == [named: {"firestore", "spelled", "other"}, pinned: BOOLEAN]

ASSUME NoneAssumption == None \notin Reviews \cup Claims \cup Proof

VARIABLES
    deployment, \* the environment, and whether the key is the pinned one
    run,        \* locals of each review
    inflight,   \* reviews whose write the store has yet to answer for good
    records,    \* the document of each claim
    landed,     \* reviews whose write took effect (history)
    proofs,     \* what KMS signed for each review
    over        \* reviews that were over when this one began (history)

publicationVars == <<deployment, run, inflight, records, landed, proofs, over>>

NoRun == [phase |-> "ready", claim |-> None, acquired |-> FALSE, evidence |-> {}]

PublicationInit ==
    /\ deployment \in Deployments
    /\ run = [r \in Reviews |-> NoRun]
    /\ inflight = {}
    /\ records = [c \in Claims |-> None]
    /\ landed = {}
    /\ proofs = [r \in Reviews |-> None]
    /\ over = [r \in Reviews |-> {}]

(* What _persist_decision_if_configured understands (strip, lower, default *)
(* ""), and what sign_decision writes into the proof (no strip, no lower,  *)
(* default "firestore").                                                   *)
Saves == deployment.store \in {"firestore", "spelled"}
NamedStore == IF deployment.store = "unset" THEN "firestore" ELSE deployment.store

At(r, phase) == run[r].phase = phase
MoveTo(r, phase) == run' = [run EXCEPT ![r].phase = phase]
StoreUntouched == UNCHANGED <<inflight, records, landed>>

(* A review is over when it was answered, or has stopped and left no write *)
(* behind that could still land.                                           *)
IsOver(r) == At(r, "answered") \/ (At(r, "stopped") /\ r \notin inflight)

-----------------------------------------------------------------------------
(* acquire_and_execute_trusted_review is called, or execute_trusted_review *)
(* directly with evidence that somebody else had attested.                 *)
Start(r, c, acquired) ==
    /\ At(r, "ready")
    /\ run' = [run EXCEPT ![r] =
                 [phase |-> IF acquired THEN "acquiring" ELSE "reviewing",
                  claim |-> c, acquired |-> acquired, evidence |-> {}]]
    /\ over' = [over EXCEPT ![r] = {q \in Reviews \ {r} : IsOver(q)}]
    /\ UNCHANGED <<deployment, proofs>> /\ StoreUntouched

(* Faulty variant: an id may be captured a second time.                    *)
CaptureAgain(r, item) ==
    /\ At(r, "acquiring")
    /\ item.source \in Allowed \ Moved
    /\ run' = [run EXCEPT ![r].evidence = @ \cup {item}]
    /\ UNCHANGED <<deployment, proofs, over>> /\ StoreUntouched

(* One entry of the acquisition plan.  An entry that repeats an id, whose  *)
(* origin is not allow-listed or whose fetch was redirected raises (Stop), *)
(* whatever was captured before it.                                        *)
Capture(r, item) ==
    /\ At(r, "acquiring")
    /\ item.id \notin {e.id : e \in run[r].evidence}
    /\ item.source \in Allowed
    /\ item.source \notin Moved
    /\ run' = [run EXCEPT ![r].evidence = @ \cup {item}]
    /\ UNCHANGED <<deployment, proofs, over>> /\ StoreUntouched

(* The plan, which is not empty, is done and covers what the claim requires. *)
FinishAcquisition(r) ==
    /\ At(r, "acquiring")
    /\ run[r].evidence # {}
    /\ Required \subseteq {e.id : e \in run[r].evidence}
    /\ MoveTo(r, "reviewing")
    /\ UNCHANGED <<deployment, proofs, over>> /\ StoreUntouched

(* execute_model_reviews_traced and decide.                                *)
Decide(r) ==
    /\ At(r, "reviewing")
    /\ MoveTo(r, "decided")
    /\ UNCHANGED <<deployment, proofs, over>> /\ StoreUntouched

Persist(r) ==
    /\ At(r, "decided")
    /\ IF Saves
       THEN MoveTo(r, "saving") /\ inflight' = inflight \cup {r}
       ELSE MoveTo(r, "stored") /\ UNCHANGED inflight
    /\ UNCHANGED <<deployment, records, landed, proofs, over>>

(* The store's side of document(claim_id).set: the last write that lands   *)
(* replaces the document.  A lost answer leaves the write in flight.       *)
WriteLands(r, answerLost) ==
    /\ r \in inflight
    /\ records' = [records EXCEPT ![run[r].claim] = r]
    /\ landed' = landed \cup {r}
    /\ inflight' = IF answerLost THEN inflight ELSE inflight \ {r}
    /\ UNCHANGED <<deployment, run, proofs, over>>

(* A write whose caller gave up never arrives, or is not sent again.       *)
WriteIsLost(r) ==
    /\ r \in inflight
    /\ At(r, "stopped")
    /\ inflight' = inflight \ {r}
    /\ UNCHANGED <<deployment, run, records, landed, proofs, over>>

(* Faulty variant: the save is started and not waited for.                 *)
SaveUnanswered(r) ==
    /\ At(r, "saving")
    /\ MoveTo(r, "stored")
    /\ UNCHANGED <<deployment, proofs, over>> /\ StoreUntouched

(* FirestoreDecisionStore.save returns the record id.                      *)
SaveAnswered(r) ==
    /\ At(r, "saving")
    /\ r \notin inflight
    /\ MoveTo(r, "stored")
    /\ UNCHANGED <<deployment, proofs, over>> /\ StoreUntouched

(* KmsDecisionProofSigner() raises when the key version or the pin is not  *)
(* configured: only after the decision was stored.                         *)
MakeSigner(r) ==
    /\ At(r, "stored")
    /\ deployment.signer
    /\ MoveTo(r, "signer")
    /\ UNCHANGED <<deployment, proofs, over>> /\ StoreUntouched

(* get_public_key, and the comparison with the pinned digest.              *)
CheckKey(r) ==
    /\ At(r, "signer")
    /\ deployment.pinned
    /\ MoveTo(r, "checked")
    /\ UNCHANGED <<deployment, proofs, over>> /\ StoreUntouched

(* asymmetric_sign over the decision in memory, not over the stored one.   *)
Sign(r) ==
    /\ At(r, "checked")
    /\ proofs' = [proofs EXCEPT ![r] = [named |-> NamedStore, pinned |-> deployment.pinned]]
    /\ MoveTo(r, "signed")
    /\ UNCHANGED <<deployment, over>> /\ StoreUntouched

Answer(r) ==
    /\ At(r, "signed")
    /\ MoveTo(r, "answered")
    /\ UNCHANGED <<deployment, proofs, over>> /\ StoreUntouched

(* Any call raises, or the process dies.                                   *)
Stop(r) ==
    /\ run[r].phase \notin {"ready", "answered", "stopped"}
    /\ MoveTo(r, "stopped")
    /\ UNCHANGED <<deployment, proofs, over>> /\ StoreUntouched

ReviewStep(r) ==
    \/ \E item \in Item : Capture(r, item)
    \/ FinishAcquisition(r)
    \/ Decide(r)
    \/ Persist(r)
    \/ SaveAnswered(r)
    \/ MakeSigner(r)
    \/ CheckKey(r)
    \/ Sign(r)
    \/ Answer(r)
    \/ Stop(r)

PublicationNext ==
    \E r \in Reviews :
        \/ \E c \in Claims, acquired \in BOOLEAN : Start(r, c, acquired)
        \/ ReviewStep(r)
        \/ \E answerLost \in BOOLEAN : WriteLands(r, answerLost)
        \/ WriteIsLost(r)

PublicationSpec == PublicationInit /\ [][PublicationNext]_publicationVars

-----------------------------------------------------------------------------
PublicationTypeOK ==
    /\ deployment \in Deployments
    /\ run \in [Reviews -> [phase: Phases, claim: Claims \cup {None},
                            acquired: BOOLEAN, evidence: SUBSET Item]]
    /\ inflight \subseteq Reviews
    /\ records \in [Claims -> Reviews \cup {None}]
    /\ landed \subseteq Reviews
    /\ proofs \in [Reviews -> Proof \cup {None}]
    /\ over \in [Reviews -> SUBSET Reviews]

(* A decision is stored before it is proved: a proof that names the store  *)
(* is the proof of a decision whose write took effect.  The exception is a *)
(* deployment that leaves ILLUSIONTION_DECISION_STORE unset, where nothing *)
(* is stored and the proof says "firestore" all the same.                  *)
ProofsNameARealRecord ==
    \A r \in Reviews :
        (proofs[r] # None /\ proofs[r].named \in {"firestore", "spelled"})
            => (r \in landed \/ deployment.store = "unset")

(* Last writer wins, but only among reviews that overlapped: once a        *)
(* review's record is in, the store does not hold the record of a review   *)
(* that was over before this one began, not even through a write that was  *)
(* sent again or arrived late.                                             *)
OlderReviewsDoNotComeBack ==
    \A r \in landed : records[run[r].claim] \notin over[r]

(* Nothing is answered without a proof under the pinned key, and a review  *)
(* that was answered by a storing deployment has left a record: its own,   *)
(* or that of another review of the same claim.                            *)
AnswersAreProvedAndRecorded ==
    \A r \in Reviews :
        At(r, "answered") =>
            /\ proofs[r] # None
            /\ proofs[r].pinned
            /\ Saves => /\ records[run[r].claim] # None
                        /\ run[records[run[r].claim]].claim = run[r].claim

(* What a signed decision rests on, when the agent fetched it itself, is   *)
(* complete, unambiguous, and came from allow-listed places only.          *)
ProvedEvidenceIsAdmissible ==
    \A r \in Reviews :
        (proofs[r] # None /\ run[r].acquired) =>
            /\ Required \subseteq {e.id : e \in run[r].evidence}
            /\ \A e \in run[r].evidence : e.source \in Allowed \ Moved
            /\ \A e, f \in run[r].evidence : e.id = f.id => e = f
=============================================================================

--------------------- MODULE DecisionPublication_proofs ---------------------
(***************************************************************************)
(* What the trusted review agent leaves behind, for any number of reviews, *)
(* claims and sources, and in every deployment.                            *)
(***************************************************************************)
EXTENDS DecisionPublication, TLAPS

Unstored == {"ready", "acquiring", "reviewing", "decided"}
Stored == {"stored", "signer", "checked", "signed", "answered"}

(* How far a review is, and what it has done to the store and with the key. *)
PhaseInv(r) ==
    /\ ~At(r, "ready") => run[r].claim \in Claims
    /\ run[r].phase \in Unstored => r \notin inflight \cup landed
    /\ At(r, "saving") => Saves /\ r \in inflight \cup landed
    /\ run[r].phase \in Stored => r \notin inflight /\ (Saves => r \in landed)
    /\ run[r].phase \in {"checked", "signed", "answered"} => deployment.pinned
    /\ run[r].phase \in {"signed", "answered"} => proofs[r] # None

(* What a signature says of the review it was made for.                    *)
ProofInv(r) ==
    proofs[r] # None =>
        /\ run[r].phase \in {"signed", "answered", "stopped"}
        /\ proofs[r].pinned
        /\ proofs[r].named = NamedStore
        /\ Saves => r \in landed
        /\ run[r].acquired => Required \subseteq {e.id : e \in run[r].evidence}

(* The evidence a review holds, complete once it is reviewed.              *)
EvidenceInv(r) ==
    /\ \A e \in run[r].evidence : e.source \in Allowed \ Moved
    /\ \A e, f \in run[r].evidence : e.id = f.id => e = f
    /\ (run[r].acquired /\ run[r].phase \notin {"ready", "acquiring", "stopped"})
          => Required \subseteq {e.id : e \in run[r].evidence}

(* Documents are written by reviews of their claim, and stay.              *)
RecordInv ==
    /\ \A c \in Claims : records[c] # None =>
          records[c] \in landed /\ run[records[c]].claim = c
    /\ \A r \in landed : records[run[r].claim] # None

(* A review that was over stays over: it has no write in flight.           *)
OverInv ==
    /\ \A r \in Reviews : r \notin over[r]
    /\ \A r \in Reviews : \A q \in over[r] : IsOver(q)

PublicationInv ==
    /\ PublicationTypeOK
    /\ \A r \in Reviews : PhaseInv(r)
    /\ \A r \in Reviews : ProofInv(r)
    /\ \A r \in Reviews : EvidenceInv(r)
    /\ RecordInv
    /\ OverInv
    /\ OlderReviewsDoNotComeBack
USE NoneAssumption DEF At, MoveTo, StoreUntouched
USE NoneAssumption DEF At, MoveTo, StoreUntouched

-----------------------------------------------------------------------------
(* A review that is under way and only moves on keeps the invariant when   *)
(* its own parts of it hold where it arrives.                              *)
LEMMA MoveKeeps ==
    ASSUME PublicationInv, NEW r \in Reviews, NEW p \in Phases,
           MoveTo(r, p), UNCHANGED <<deployment, inflight, records, landed, proofs, over>>,
           run[r].phase \notin {"ready", "answered", "stopped"},
           PhaseInv(r)', ProofInv(r)', EvidenceInv(r)'
    PROVE  PublicationInv'
<1>1. PublicationTypeOK'
  BY DEF PublicationInv, PublicationTypeOK
<1>2. ASSUME NEW q \in Reviews
      PROVE  /\ run'[q].claim = run[q].claim
             /\ q # r => run'[q] = run[q]
  BY DEF PublicationInv, PublicationTypeOK
<1>3. ASSUME NEW q \in Reviews
      PROVE  PhaseInv(q)' /\ ProofInv(q)' /\ EvidenceInv(q)'
  <2>1. CASE q = r
    BY <2>1
  <2>2. CASE q # r
    BY <2>2, <1>2 DEF PublicationInv, PhaseInv, ProofInv, EvidenceInv, Saves, NamedStore
  <2> QED
    BY <2>1, <2>2
<1>4. RecordInv'
  BY <1>2 DEF PublicationInv, PublicationTypeOK, RecordInv
<1>5. OverInv'
  BY <1>2 DEF PublicationInv, PublicationTypeOK, OverInv, IsOver
<1>6. OlderReviewsDoNotComeBack'
  BY <1>2 DEF PublicationInv, PublicationTypeOK, OlderReviewsDoNotComeBack
<1> QED
  BY <1>1, <1>3, <1>4, <1>5, <1>6 DEF PublicationInv

(* So do the actions that move a review on and change nothing else.        *)
LEMMA MovesKeep ==
    ASSUME PublicationInv, NEW r \in Reviews,
           \/ FinishAcquisition(r) \/ Decide(r) \/ SaveAnswered(r) \/ MakeSigner(r)
           \/ CheckKey(r) \/ Answer(r) \/ Stop(r)
    PROVE  PublicationInv'
<1> DEFINE Goes(p) == /\ MoveTo(r, p)
                      /\ UNCHANGED <<deployment, inflight, records, landed, proofs, over>>
                      /\ run[r].phase \notin {"ready", "answered", "stopped"}
<1>1. ASSUME NEW p \in Phases, Goes(p)
      PROVE  /\ run'[r].phase = p
             /\ run'[r].claim = run[r].claim
             /\ run'[r].acquired = run[r].acquired
             /\ run'[r].evidence = run[r].evidence
  BY <1>1 DEF PublicationInv, PublicationTypeOK
<1>2. CASE FinishAcquisition(r)
  <2>1. "reviewing" \in Phases /\ Goes("reviewing")
    BY <1>2 DEF FinishAcquisition, Phases
  <2>2. PhaseInv(r)'
    BY <1>2, <2>1, <1>1 DEF FinishAcquisition, PublicationInv, PhaseInv, Unstored, Stored, Saves
  <2>3. ProofInv(r)'
    BY <1>2, <2>1, <1>1 DEF FinishAcquisition, PublicationInv, ProofInv, Saves, NamedStore
  <2>4. EvidenceInv(r)'
    BY <1>2, <2>1, <1>1 DEF FinishAcquisition, PublicationInv, EvidenceInv
  <2> QED
    BY <2>1, <2>2, <2>3, <2>4, MoveKeeps
<1>3. CASE Decide(r)
  <2>1. "decided" \in Phases /\ Goes("decided")
    BY <1>3 DEF Decide, Phases
  <2>2. PhaseInv(r)'
    BY <1>3, <2>1, <1>1 DEF Decide, PublicationInv, PhaseInv, Unstored, Stored, Saves
  <2>3. ProofInv(r)'
    BY <1>3, <2>1, <1>1 DEF Decide, PublicationInv, ProofInv, Saves, NamedStore
  <2>4. EvidenceInv(r)'
    BY <1>3, <2>1, <1>1 DEF Decide, PublicationInv, EvidenceInv
  <2> QED
    BY <2>1, <2>2, <2>3, <2>4, MoveKeeps
<1>4. CASE SaveAnswered(r)
  <2>1. "stored" \in Phases /\ Goes("stored")
    BY <1>4 DEF SaveAnswered, Phases
  <2>2. PhaseInv(r)'
    BY <1>4, <2>1, <1>1 DEF SaveAnswered, PublicationInv, PhaseInv, Unstored, Stored, Saves
  <2>3. ProofInv(r)'
    BY <1>4, <2>1, <1>1 DEF SaveAnswered, PublicationInv, ProofInv, Saves, NamedStore
  <2>4. EvidenceInv(r)'
    BY <1>4, <2>1, <1>1 DEF SaveAnswered, PublicationInv, EvidenceInv
  <2> QED
    BY <2>1, <2>2, <2>3, <2>4, MoveKeeps
<1>5. CASE MakeSigner(r)
  <2>1. "signer" \in Phases /\ Goes("signer")
    BY <1>5 DEF MakeSigner, Phases
  <2>2. PhaseInv(r)'
    BY <1>5, <2>1, <1>1 DEF MakeSigner, PublicationInv, PhaseInv, Unstored, Stored, Saves
  <2>3. ProofInv(r)'
    BY <1>5, <2>1, <1>1 DEF MakeSigner, PublicationInv, ProofInv, Saves, NamedStore
  <2>4. EvidenceInv(r)'
    BY <1>5, <2>1, <1>1 DEF MakeSigner, PublicationInv, EvidenceInv
  <2> QED
    BY <2>1, <2>2, <2>3, <2>4, MoveKeeps
<1>6. CASE CheckKey(r)
  <2>1. "checked" \in Phases /\ Goes("checked")
    BY <1>6 DEF CheckKey, Phases
  <2>2. PhaseInv(r)'
    BY <1>6, <2>1, <1>1 DEF CheckKey, PublicationInv, PhaseInv, Unstored, Stored, Saves
  <2>3. ProofInv(r)'
    BY <1>6, <2>1, <1>1 DEF CheckKey, PublicationInv, ProofInv, Saves, NamedStore
  <2>4. EvidenceInv(r)'
    BY <1>6, <2>1, <1>1 DEF CheckKey, PublicationInv, EvidenceInv
  <2> QED
    BY <2>1, <2>2, <2>3, <2>4, MoveKeeps
<1>7. CASE Answer(r)
  <2>1. "answered" \in Phases /\ Goes("answered")
    BY <1>7 DEF Answer, Phases
  <2>2. PhaseInv(r)'
    BY <1>7, <2>1, <1>1 DEF Answer, PublicationInv, PhaseInv, Unstored, Stored, Saves
  <2>3. ProofInv(r)'
    BY <1>7, <2>1, <1>1 DEF Answer, PublicationInv, ProofInv, Saves, NamedStore
  <2>4. EvidenceInv(r)'
    BY <1>7, <2>1, <1>1 DEF Answer, PublicationInv, EvidenceInv
  <2> QED
    BY <2>1, <2>2, <2>3, <2>4, MoveKeeps
<1>8. CASE Stop(r)
  <2>1. "stopped" \in Phases /\ Goes("stopped")
    BY <1>8 DEF Stop, Phases
  <2>2. PhaseInv(r)'
    BY <1>8, <2>1, <1>1 DEF Stop, PublicationInv, PhaseInv, Unstored, Stored, Saves
  <2>3. ProofInv(r)'
    BY <1>8, <2>1, <1>1 DEF Stop, PublicationInv, ProofInv, Saves, NamedStore
  <2>4. EvidenceInv(r)'
    BY <1>8, <2>1, <1>1 DEF Stop, PublicationInv, EvidenceInv
  <2> QED
    BY <2>1, <2>2, <2>3, <2>4, MoveKeeps
<1> QED
  BY <1>2, <1>3, <1>4, <1>5, <1>6, <1>7, <1>8

(* A review begins: whatever is over is over for it.                       *)
LEMMA StartKeeps ==
    ASSUME PublicationInv, NEW r \in Reviews, NEW c \in Claims, NEW acquired \in BOOLEAN, Start(r, c, acquired)
    PROVE  PublicationInv'
<1> USE DEF PublicationInv, PublicationTypeOK
<1>1. PublicationTypeOK'
  BY DEF Start, Phases
<1>2. \A q \in Reviews : PhaseInv(q)'
  BY DEF Start, PhaseInv, Unstored, Stored, Saves
<1>3. \A q \in Reviews : ProofInv(q)'
  BY DEF Start, PhaseInv, ProofInv, NamedStore, Saves
<1>4. \A q \in Reviews : EvidenceInv(q)'
  BY DEF Start, EvidenceInv
<1>5. RecordInv'
  BY DEF Start, PhaseInv, RecordInv, Unstored
<1>6. OverInv'
  BY DEF Start, PhaseInv, OverInv, IsOver, Unstored, Stored
<1>7. OlderReviewsDoNotComeBack'
  BY DEF Start, OlderReviewsDoNotComeBack, PhaseInv, OverInv, IsOver, Unstored, Stored
<1> QED
  BY <1>1, <1>2, <1>3, <1>4, <1>5, <1>6, <1>7

(* An entry of the plan is captured.                                       *)
LEMMA CaptureKeeps ==
    ASSUME PublicationInv, NEW r \in Reviews, NEW item \in Item, Capture(r, item)
    PROVE  PublicationInv'
<1> USE DEF PublicationInv, PublicationTypeOK
<1>1. PublicationTypeOK'
  BY DEF Capture, Phases, Item
<1>2. \A q \in Reviews : PhaseInv(q)'
  BY DEF Capture, PhaseInv, Unstored, Stored, Saves
<1>3. \A q \in Reviews : ProofInv(q)'
  BY DEF Capture, PhaseInv, ProofInv, NamedStore, Saves
<1>4. \A q \in Reviews : EvidenceInv(q)'
  BY DEF Capture, EvidenceInv
<1>5. RecordInv'
  BY DEF Capture, PhaseInv, RecordInv, Unstored
<1>6. OverInv'
  BY DEF Capture, PhaseInv, OverInv, IsOver, Unstored, Stored
<1>7. OlderReviewsDoNotComeBack'
  BY DEF Capture, OlderReviewsDoNotComeBack, PhaseInv, OverInv, IsOver, Unstored, Stored
<1> QED
  BY <1>1, <1>2, <1>3, <1>4, <1>5, <1>6, <1>7

(* A decision is handed to the store, or the deployment stores nothing.    *)
LEMMA PersistKeeps ==
    ASSUME PublicationInv, NEW r \in Reviews, Persist(r)
    PROVE  PublicationInv'
<1> USE DEF PublicationInv, PublicationTypeOK
<1>1. PublicationTypeOK'
  BY DEF Persist, Phases
<1>2. \A q \in Reviews : PhaseInv(q)'
  BY DEF Persist, PhaseInv, Unstored, Stored, Saves
<1>3. \A q \in Reviews : ProofInv(q)'
  BY DEF Persist, PhaseInv, ProofInv, NamedStore, Saves
<1>4. \A q \in Reviews : EvidenceInv(q)'
  BY DEF Persist, EvidenceInv
<1>5. RecordInv'
  BY DEF Persist, PhaseInv, RecordInv, Unstored
<1>6. OverInv'
  BY DEF Persist, PhaseInv, OverInv, IsOver, Unstored, Stored
<1>7. OlderReviewsDoNotComeBack'
  BY DEF Persist, OlderReviewsDoNotComeBack, PhaseInv, OverInv, IsOver, Unstored, Stored
<1> QED
  BY <1>1, <1>2, <1>3, <1>4, <1>5, <1>6, <1>7

(* A write lands; its review is not over for any other.                    *)
LEMMA WriteLandsKeeps ==
    ASSUME PublicationInv, NEW r \in Reviews, NEW answerLost \in BOOLEAN, WriteLands(r, answerLost)
    PROVE  PublicationInv'
<1> USE DEF PublicationInv, PublicationTypeOK
<1>1. PublicationTypeOK'
  BY DEF WriteLands, Phases
<1>2. \A q \in Reviews : PhaseInv(q)'
  BY DEF WriteLands, PhaseInv, Unstored, Stored, Saves
<1>3. \A q \in Reviews : ProofInv(q)'
  BY DEF WriteLands, PhaseInv, ProofInv, NamedStore, Saves
<1>4. \A q \in Reviews : EvidenceInv(q)'
  BY DEF WriteLands, EvidenceInv
<1>5. RecordInv'
  BY DEF WriteLands, PhaseInv, RecordInv, Unstored
<1>6. OverInv'
  BY DEF WriteLands, PhaseInv, OverInv, IsOver, Unstored, Stored
<1>7. OlderReviewsDoNotComeBack'
  BY DEF WriteLands, OlderReviewsDoNotComeBack, PhaseInv, OverInv, IsOver, Unstored, Stored
<1> QED
  BY <1>1, <1>2, <1>3, <1>4, <1>5, <1>6, <1>7

(* A write of a review that gave up is lost.                               *)
LEMMA WriteIsLostKeeps ==
    ASSUME PublicationInv, NEW r \in Reviews, WriteIsLost(r)
    PROVE  PublicationInv'
<1> USE DEF PublicationInv, PublicationTypeOK
<1>1. PublicationTypeOK'
  BY DEF WriteIsLost, Phases
<1>2. \A q \in Reviews : PhaseInv(q)'
  BY DEF WriteIsLost, PhaseInv, Unstored, Stored, Saves
<1>3. \A q \in Reviews : ProofInv(q)'
  BY DEF WriteIsLost, PhaseInv, ProofInv, NamedStore, Saves
<1>4. \A q \in Reviews : EvidenceInv(q)'
  BY DEF WriteIsLost, EvidenceInv
<1>5. RecordInv'
  BY DEF WriteIsLost, PhaseInv, RecordInv, Unstored
<1>6. OverInv'
  BY DEF WriteIsLost, PhaseInv, OverInv, IsOver, Unstored, Stored
<1>7. OlderReviewsDoNotComeBack'
  BY DEF WriteIsLost, OlderReviewsDoNotComeBack, PhaseInv, OverInv, IsOver, Unstored, Stored
<1> QED
  BY <1>1, <1>2, <1>3, <1>4, <1>5, <1>6, <1>7

(* A decision is signed: it is stored, or named wrongly.                   *)
LEMMA SignKeeps ==
    ASSUME PublicationInv, NEW r \in Reviews, Sign(r)
    PROVE  PublicationInv'
<1> USE DEF PublicationInv, PublicationTypeOK
<1>1. PublicationTypeOK'
  BY DEF Sign, Phases, Proof, NamedStore, Deployments, StoreSettings
<1>2. \A q \in Reviews : PhaseInv(q)'
  BY DEF Sign, PhaseInv, Unstored, Stored, Saves, Proof, NamedStore, Deployments, StoreSettings
<1>3. \A q \in Reviews : ProofInv(q)'
  BY DEF Sign, PhaseInv, ProofInv, NamedStore, Saves, EvidenceInv, Proof, Deployments, Stored
<1>4. \A q \in Reviews : EvidenceInv(q)'
  BY DEF Sign, EvidenceInv
<1>5. RecordInv'
  BY DEF Sign, PhaseInv, RecordInv, Unstored
<1>6. OverInv'
  BY DEF Sign, PhaseInv, OverInv, IsOver, Unstored, Stored
<1>7. OlderReviewsDoNotComeBack'
  BY DEF Sign, OlderReviewsDoNotComeBack, PhaseInv, OverInv, IsOver, Unstored, Stored
<1> QED
  BY <1>1, <1>2, <1>3, <1>4, <1>5, <1>6, <1>7

-----------------------------------------------------------------------------
(* No run has begun: nothing is in flight, recorded or signed.             *)
LEMMA InitEstablishes ==
    PublicationInit => PublicationInv
BY DEF PublicationInit, PublicationInv, PublicationTypeOK, PhaseInv, ProofInv, EvidenceInv,
       RecordInv, OverInv, OlderReviewsDoNotComeBack, NoRun, Phases, Unstored, Stored

(* Every step of the system keeps the invariant.                           *)
LEMMA NextKeeps ==
    PublicationInv /\ [PublicationNext]_publicationVars => PublicationInv'
<1> SUFFICES ASSUME PublicationInv, [PublicationNext]_publicationVars
             PROVE  PublicationInv'
  OBVIOUS
<1>1. CASE PublicationNext
  <2> PICK r \in Reviews :
        \/ \E c \in Claims, acquired \in BOOLEAN : Start(r, c, acquired)
        \/ ReviewStep(r)
        \/ \E answerLost \in BOOLEAN : WriteLands(r, answerLost)
        \/ WriteIsLost(r)
    BY <1>1 DEF PublicationNext
  <2>1. CASE ReviewStep(r)
    <3>1. CASE \E item \in Item : Capture(r, item)
      BY <3>1, CaptureKeeps
    <3>2. CASE Persist(r)
      BY <3>2, PersistKeeps
    <3>3. CASE Sign(r)
      BY <3>3, SignKeeps
    <3> QED
      BY <2>1, <3>1, <3>2, <3>3, MovesKeep DEF ReviewStep
  <2> QED
    BY <2>1, StartKeeps, WriteLandsKeeps, WriteIsLostKeeps
<1>2. CASE UNCHANGED publicationVars
  BY <1>2 DEF publicationVars, PublicationInv, PublicationTypeOK, PhaseInv, ProofInv,
              EvidenceInv, RecordInv, OverInv, OlderReviewsDoNotComeBack, IsOver, Saves, NamedStore
<1> QED
  BY <1>1, <1>2

(* The invariant of the agent: the phase of a review tells what the store  *)
(* holds of it, and a review that is over has no write in flight.          *)
THEOREM PublicationCorrect == PublicationSpec => []PublicationInv
BY InitEstablishes, NextKeeps, PTL DEF PublicationSpec

(* Reviews, documents and proofs keep their types.                         *)
THEOREM PublicationTypeCorrect == PublicationSpec => []PublicationTypeOK
<1>1. PublicationInv => PublicationTypeOK
  BY DEF PublicationInv
<1> QED
  BY <1>1, PublicationCorrect, PTL

(* A proof that names the store has its record, except where the setting   *)
(* is absent: the decision is saved before it is signed.                   *)
THEOREM ProofsAlwaysNameARealRecord == PublicationSpec => []ProofsNameARealRecord
<1>1. PublicationInv => ProofsNameARealRecord
  BY DEF PublicationInv, PublicationTypeOK, ProofInv, ProofsNameARealRecord,
         NamedStore, Saves, Deployments, StoreSettings
<1> QED
  BY <1>1, PublicationCorrect, PTL

(* The last writer wins only among reviews that overlapped, however late a *)
(* write lands and however often it is sent.                               *)
THEOREM OlderReviewsNeverComeBack == PublicationSpec => []OlderReviewsDoNotComeBack
<1>1. PublicationInv => OlderReviewsDoNotComeBack
  BY DEF PublicationInv
<1> QED
  BY <1>1, PublicationCorrect, PTL

(* What is answered was signed under the pinned key and left a record of   *)
(* its claim where the deployment stores.                                  *)
THEOREM AnswersAreAlwaysProvedAndRecorded == PublicationSpec => []AnswersAreProvedAndRecorded
<1>1. PublicationInv => AnswersAreProvedAndRecorded
  BY DEF PublicationInv, PublicationTypeOK, PhaseInv, ProofInv, RecordInv,
         AnswersAreProvedAndRecorded, Stored
<1> QED
  BY <1>1, PublicationCorrect, PTL

(* Proved decisions rest on complete and unambiguous evidence that came    *)
(* from allow-listed places, when the agent fetched it.                    *)
THEOREM ProvedEvidenceIsAlwaysAdmissible == PublicationSpec => []ProvedEvidenceIsAdmissible
<1>1. PublicationInv => ProvedEvidenceIsAdmissible
  BY DEF PublicationInv, PublicationTypeOK, ProofInv, EvidenceInv, ProvedEvidenceIsAdmissible
<1> QED
  BY <1>1, PublicationCorrect, PTL
=============================================================================

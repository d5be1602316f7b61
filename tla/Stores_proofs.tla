----------------------------- MODULE Stores_proofs -----------------------------
(***************************************************************************)
(* Proofs about the three stores, for any sets of processes, cores, clock  *)
(* readings and responses and any number of review steps: the worker       *)
(* coordinator, then the action ledger, which leaves the coordinator's     *)
(* tables alone, then the provider call ledger, which leaves both alone.   *)
(* What is proved of one store therefore holds of the ones after it.       *)
(***************************************************************************)
EXTENDS ProviderCallLedger, TLAPS

(***************************************************************************)
(* The worker coordinator.  The inductive invariant is the conjunction of  *)
(* the invariants the runs check; none of them is inductive alone.         *)
(***************************************************************************)
CoordinatorInv ==
    /\ CoordinatorTypeOK
    /\ ClaimsFormOneChain
    /\ ReservationIsTheCurrentWorkers
    /\ SealNamesTheLastWorker

-----------------------------------------------------------------------------
(* The types hold at the start and no operation leaves them.               *)
LEMMA CoordinatorTypeInit == CoordinatorInit => CoordinatorTypeOK
BY DEF CoordinatorInit, CoordinatorTypeOK, NoClaim, Claim

LEMMA CoordinatorTypeStep ==
    CoordinatorTypeOK /\ [CoordinatorNext]_coordinatorVars => CoordinatorTypeOK'
<1> SUFFICES ASSUME CoordinatorTypeOK, [CoordinatorNext]_coordinatorVars
             PROVE  CoordinatorTypeOK'
  OBVIOUS
<1> USE NoneAssumption, NullIsNoRow DEF CoordinatorTypeOK
<1>1. ASSUME NEW w \in Workers, NEW takeover \in BOOLEAN, ClaimWorker(w, takeover)
      PROVE  CoordinatorTypeOK'
  BY <1>1 DEF ClaimWorker, Claim
<1>2. ASSUME NEW w \in Workers, NEW now \in Instants, ReservePublicationTime(w, now)
      PROVE  CoordinatorTypeOK'
  <2>1. reservation' \in Reservation
    BY <1>2 DEF ReservePublicationTime, Reservation
  <2>2. clock' \in [Workers -> Instants \cup {None}]
    BY <1>2, <2>1 DEF ReservePublicationTime, Reservation
  <2> QED BY <1>2, <2>1, <2>2 DEF ReservePublicationTime
<1>3. ASSUME NEW w \in Workers, NEW core \in Cores, NEW now \in Instants,
             Publish(w, core, now)
      PROVE  CoordinatorTypeOK'
  <2>1. reservation' \in Reservation
    BY <1>3 DEF Publish, Reservation
  <2>2. publication' \in Seal
    BY <1>3, <2>1 DEF Publish, Reservation, Seal
  <2> QED BY <1>3, <2>1, <2>2 DEF Publish
<1>4. ASSUME NEW w \in Workers, NEW core \in Cores, Republish(w, core)
      PROVE  CoordinatorTypeOK'
  BY <1>4 DEF Republish
<1>5. CASE UNCHANGED coordinatorVars
  BY <1>5 DEF coordinatorVars
<1> QED BY <1>1, <1>2, <1>3, <1>4, <1>5 DEF CoordinatorNext, CoordinatorStep

-----------------------------------------------------------------------------
(* The claim table stays one chain when a takeover extends it.             *)
LEMMA ClaimChainStep ==
    ASSUME CoordinatorTypeOK, ClaimsFormOneChain,
           NEW w \in Workers, NEW takeover \in BOOLEAN, ClaimWorker(w, takeover)
    PROVE  ClaimsFormOneChain'
<1> USE NoneAssumption DEF CoordinatorTypeOK
<1>1. /\ claims' \in [Workers -> Claim]
      /\ claims[w].epoch = 0
      /\ claims'[w] = [epoch |-> currentEpoch + 1, prior |-> currentClaim,
                       takeover |-> takeover]
      /\ \A v \in Workers \ {w} : claims'[v] = claims[v]
      /\ currentClaim' = w
      /\ currentEpoch' = currentEpoch + 1
      /\ takeover <=> currentEpoch # 0
  BY DEF ClaimWorker, ClaimAllowed, Claimed, Claim
<1>2. \A v \in Workers : claims[v].epoch \in Nat /\ claims[v].epoch <= currentEpoch
  <2> SUFFICES ASSUME NEW v \in Workers
               PROVE  claims[v].epoch \in Nat /\ claims[v].epoch <= currentEpoch
    OBVIOUS
  <2>1. claims[v].epoch \in Nat /\ currentEpoch \in Nat
    BY DEF Claim
  <2>2. CASE currentEpoch = 0
    BY <2>1, <2>2 DEF ClaimsFormOneChain, Claimed
  <2>3. CASE currentEpoch > 0
    BY <2>1, <2>3 DEF ClaimsFormOneChain, ClaimChain
  <2> QED BY <2>1, <2>2, <2>3
<1>3. \A v \in Workers : claims'[v].epoch \in Nat
  BY <1>1 DEF Claim
<1>4. \A v \in Workers : claims'[v].epoch <= claims'[w].epoch
  BY <1>1, <1>2
<1>5. \A u, v \in Workers :
         claims'[u].epoch = claims'[v].epoch /\ claims'[u].epoch # 0 => u = v
  BY <1>1, <1>2 DEF ClaimsFormOneChain, ClaimChain, Claimed
<1>6. \A v \in Workers :
         claims'[v].epoch = 1 => claims'[v].prior = None /\ ~claims'[v].takeover
  BY <1>1, <1>2 DEF ClaimsFormOneChain, ClaimChain, Claimed
<1>7. ASSUME NEW v \in Workers, claims'[v].epoch > 1
      PROVE  /\ claims'[v].takeover
             /\ claims'[v].prior \in Workers
             /\ claims'[claims'[v].prior].epoch + 1 = claims'[v].epoch
  <2>1. CASE v = w
    <3>1. currentEpoch > 0
      BY <1>1, <1>7, <2>1
    <3>2. currentClaim \in Workers \ {w} /\ claims[currentClaim].epoch = currentEpoch
      BY <3>1, <1>1 DEF ClaimsFormOneChain
    <3> QED BY <1>1, <2>1, <3>1, <3>2
  <2>2. CASE v # w
    <3>1. claims'[v] = claims[v] /\ currentEpoch > 0
      BY <1>1, <1>2, <1>7, <2>2
    <3>2. /\ claims[v].takeover
          /\ claims[v].prior \in Workers
          /\ claims[claims[v].prior].epoch + 1 = claims[v].epoch
      BY <3>1, <1>7 DEF ClaimsFormOneChain, ClaimChain
    <3>3. claims[v].prior # w
      BY <3>1, <3>2, <1>1, <1>7
    <3> QED BY <1>1, <3>1, <3>2, <3>3
  <2> QED BY <2>1, <2>2
<1>8. ClaimChain(claims', w)
  BY <1>4, <1>5, <1>6, <1>7 DEF ClaimChain
<1> QED BY <1>1, <1>8 DEF ClaimsFormOneChain, ClaimChain

LEMMA ReservationClaimStep ==
    ASSUME CoordinatorInv, CoordinatorTypeOK',
           NEW w \in Workers, NEW takeover \in BOOLEAN, ClaimWorker(w, takeover)
    PROVE  ReservationIsTheCurrentWorkers'
BY NoneAssumption DEF CoordinatorInv, CoordinatorTypeOK, ClaimWorker, ClaimAllowed,
                      ReservationIsTheCurrentWorkers, Claimed, Claim

(* What an operation of the current worker finds.                          *)
LEMMA CurrentWorker ==
    ASSUME CoordinatorInv, NEW w \in Workers, AssertCurrentWorker(w, FALSE)
    PROVE  /\ currentClaim = w
           /\ currentEpoch > 0
           /\ ~Published
           /\ publication = None
BY DEF CoordinatorInv, CoordinatorTypeOK, AssertCurrentWorker, Claimed, Published, Claim

LEMMA CoordinatorInvInit == CoordinatorInit => CoordinatorInv
BY CoordinatorTypeInit DEF CoordinatorInit, CoordinatorInv, ClaimsFormOneChain,
   ReservationIsTheCurrentWorkers, SealNamesTheLastWorker, Published, Claimed, NoClaim

LEMMA CoordinatorInvStep ==
    CoordinatorInv /\ [CoordinatorNext]_coordinatorVars => CoordinatorInv'
<1> SUFFICES ASSUME CoordinatorInv, [CoordinatorNext]_coordinatorVars
             PROVE  CoordinatorInv'
  OBVIOUS
<1> USE NoneAssumption, NullIsNoRow
<1>0. CoordinatorTypeOK /\ CoordinatorTypeOK'
  BY CoordinatorTypeStep DEF CoordinatorInv
<1>1. ASSUME NEW w \in Workers, NEW takeover \in BOOLEAN, ClaimWorker(w, takeover)
      PROVE  CoordinatorInv'
  <2>1. ClaimsFormOneChain'
    BY <1>1, ClaimChainStep DEF CoordinatorInv
  <2>2. ReservationIsTheCurrentWorkers'
    BY <1>0, <1>1, ReservationClaimStep
  <2>3. SealNamesTheLastWorker'
    BY <1>1 DEF ClaimWorker, ClaimAllowed, SealNamesTheLastWorker, Published
  <2> QED BY <1>0, <2>1, <2>2, <2>3 DEF CoordinatorInv
<1>2. ASSUME NEW w \in Workers, NEW now \in Instants, ReservePublicationTime(w, now)
      PROVE  CoordinatorInv'
  <2>1. ClaimsFormOneChain'
    BY <1>2 DEF CoordinatorInv, ReservePublicationTime, ClaimsFormOneChain, ClaimChain, Claimed
  <2>2. w = currentClaim /\ currentEpoch > 0
    <3>1. CASE AssertCurrentWorker(w, FALSE)
      BY <3>1, CurrentWorker
    <3>2. CASE Published /\ reservation # None
      BY <1>2, <3>2 DEF CoordinatorInv, ReservePublicationTime, ReservationAllowed,
                        ReservationIsTheCurrentWorkers
    <3> QED BY <1>2, <3>1, <3>2 DEF ReservePublicationTime, ReservationAllowed
  <2>3. /\ reservation' \in Reservation
        /\ reservation'.by = w
        /\ reservation # None => reservation' = reservation
    BY <1>0, <1>2 DEF CoordinatorTypeOK, ReservePublicationTime, ReservationAllowed, Reservation
  <2>4. /\ clock' = [clock EXCEPT ![w] = reservation'.at]
        /\ UNCHANGED <<currentEpoch, currentClaim, claims, publication>>
    BY <1>2 DEF ReservePublicationTime
  <2>5. Claimed(w)
    BY <2>2 DEF CoordinatorInv, ClaimsFormOneChain, Claimed
  <2>6. ReservationIsTheCurrentWorkers'
    BY <1>0, <2>2, <2>3, <2>4, <2>5
       DEF CoordinatorInv, ReservationIsTheCurrentWorkers, CoordinatorTypeOK, Claimed
  <2>7. SealNamesTheLastWorker'
    <3>1. CASE AssertCurrentWorker(w, FALSE)
      BY <2>4, <3>1, CurrentWorker DEF SealNamesTheLastWorker, Published
    <3>2. CASE Published /\ reservation # None
      BY <2>3, <2>4, <3>2 DEF CoordinatorInv, SealNamesTheLastWorker, Published
    <3> QED BY <1>2, <3>1, <3>2 DEF ReservePublicationTime, ReservationAllowed
  <2> QED BY <1>0, <2>1, <2>6, <2>7 DEF CoordinatorInv
<1>3. ASSUME NEW w \in Workers, NEW core \in Cores, NEW now \in Instants,
             Publish(w, core, now)
      PROVE  CoordinatorInv'
  <2>1. ClaimsFormOneChain'
    BY <1>3 DEF CoordinatorInv, Publish, ClaimsFormOneChain, ClaimChain, Claimed
  <2>2. w = currentClaim /\ currentEpoch > 0
    BY <1>3, CurrentWorker DEF Publish, PublishAllowed
  <2>3. /\ reservation' \in Reservation
        /\ reservation'.by = w
        /\ reservation # None => reservation' = reservation
    BY <1>0, <1>3 DEF CoordinatorTypeOK, Publish, PublishAllowed, Reservation
  <2>4. ReservationIsTheCurrentWorkers'
    BY <1>0, <1>3, <2>2, <2>3
       DEF CoordinatorInv, ReservationIsTheCurrentWorkers, CoordinatorTypeOK, Claimed, Publish
  <2>5. SealNamesTheLastWorker'
    BY <1>3, <2>2, <2>3 DEF SealNamesTheLastWorker, Published, Publish, Reservation
  <2> QED BY <1>0, <2>1, <2>4, <2>5 DEF CoordinatorInv
<1>4. ASSUME NEW w \in Workers, NEW core \in Cores, Republish(w, core)
      PROVE  CoordinatorInv'
  BY <1>0, <1>4 DEF CoordinatorInv, Republish, ClaimsFormOneChain, ClaimChain, Claimed,
     ReservationIsTheCurrentWorkers, SealNamesTheLastWorker, Published
<1>5. CASE UNCHANGED coordinatorVars
  BY <1>0, <1>5 DEF CoordinatorInv, coordinatorVars, ClaimsFormOneChain, ClaimChain, Claimed,
     ReservationIsTheCurrentWorkers, SealNamesTheLastWorker, Published
<1> QED BY <1>1, <1>2, <1>3, <1>4, <1>5 DEF CoordinatorNext, CoordinatorStep

-----------------------------------------------------------------------------
(* assert_current_worker_conn and claim_worker keep the claim table one    *)
(* chain of explicit takeovers, whatever the processes attempt.            *)
THEOREM CoordinatorCorrect == CoordinatorSpec => []CoordinatorInv
<1>1. CoordinatorInit => CoordinatorInv
  BY CoordinatorInvInit
<1>2. CoordinatorInv /\ [CoordinatorNext]_coordinatorVars => CoordinatorInv'
  BY CoordinatorInvStep
<1> QED BY <1>1, <1>2, PTL DEF CoordinatorSpec

(* The tables of the coordinator keep their types.                         *)
THEOREM CoordinatorTypeCorrect == CoordinatorSpec => []CoordinatorTypeOK
<1>1. CoordinatorInv => CoordinatorTypeOK
  BY DEF CoordinatorInv
<1> QED BY <1>1, CoordinatorCorrect, PTL

(* The claims form one chain of takeovers that ends at the current worker. *)
THEOREM ClaimsAlwaysFormOneChain == CoordinatorSpec => []ClaimsFormOneChain
<1>1. CoordinatorInv => ClaimsFormOneChain
  BY DEF CoordinatorInv
<1> QED BY <1>1, CoordinatorCorrect, PTL

(* The seal names the last worker, under its own reservation, and carries  *)
(* the whole claim table.                                                  *)
THEOREM SealAlwaysNamesTheLastWorker == CoordinatorSpec => []SealNamesTheLastWorker
<1>1. CoordinatorInv => SealNamesTheLastWorker
  BY DEF CoordinatorInv
<1> QED BY <1>1, CoordinatorCorrect, PTL

(* A reservation never survives the worker that made it.                   *)
THEOREM ReservationAlwaysTheCurrentWorkers ==
    CoordinatorSpec => []ReservationIsTheCurrentWorkers
<1>1. CoordinatorInv => ReservationIsTheCurrentWorkers
  BY DEF CoordinatorInv
<1> QED BY <1>1, CoordinatorCorrect, PTL

(* The seal carries the instant its publisher was given by                 *)
(* reserve_publication_time.                                               *)
THEOREM SealAlwaysCarriesTheReservedInstant ==
    CoordinatorSpec => []SealCarriesTheReservedInstant
<1>1. CoordinatorInv => SealCarriesTheReservedInstant
  <2> SUFFICES ASSUME CoordinatorInv, Published
               PROVE  clock[publication.final] \in {None, publication.at}
    BY DEF SealCarriesTheReservedInstant
  <2>1. publication.final = currentClaim
        /\ reservation = [by |-> publication.final, at |-> publication.at]
    BY DEF CoordinatorInv, SealNamesTheLastWorker
  <2>2. reservation # None
    BY <2>1, NullIsNoRow DEF CoordinatorInv, CoordinatorTypeOK, Published, Seal, Reservation
  <2> QED BY <2>1, <2>2 DEF CoordinatorInv, ReservationIsTheCurrentWorkers
<1> QED BY <1>1, CoordinatorCorrect, PTL

(* publish returns one seal, to whomever and however often it is called.   *)
THEOREM PublishReturnsOneSeal == CoordinatorSpec => []OneSeal
<1>1. CoordinatorInit => OneSeal
  BY DEF CoordinatorInit, OneSeal
<1>2. ASSUME CoordinatorInv, OneSeal, [CoordinatorNext]_coordinatorVars
      PROVE  OneSeal'
  <2> USE NoneAssumption, NullIsNoRow DEF OneSeal
  <2>0. CoordinatorTypeOK
    BY <1>2 DEF CoordinatorInv
  <2>1. ASSUME NEW w \in Workers, NEW takeover \in BOOLEAN, ClaimWorker(w, takeover)
        PROVE  OneSeal'
    BY <1>2, <2>1 DEF ClaimWorker
  <2>2. ASSUME NEW w \in Workers, NEW now \in Instants, ReservePublicationTime(w, now)
        PROVE  OneSeal'
    BY <1>2, <2>2 DEF ReservePublicationTime
  <2>3. ASSUME NEW w \in Workers, NEW core \in Cores, NEW now \in Instants,
               Publish(w, core, now)
        PROVE  OneSeal'
    <3>1. publication = None
      BY <1>2, <2>3, CurrentWorker DEF Publish, PublishAllowed
    <3>2. \A v \in Workers : sealed[v] = None
      BY <1>2, <3>1
    <3> QED BY <2>0, <2>3, <3>2 DEF Publish, CoordinatorTypeOK
  <2>4. ASSUME NEW w \in Workers, NEW core \in Cores, Republish(w, core)
        PROVE  OneSeal'
    BY <1>2, <2>0, <2>4 DEF Republish, CoordinatorTypeOK
  <2>5. CASE UNCHANGED coordinatorVars
    BY <1>2, <2>5 DEF coordinatorVars
  <2> QED BY <1>2, <2>1, <2>2, <2>3, <2>4, <2>5 DEF CoordinatorNext, CoordinatorStep
<1> QED BY <1>1, <1>2, CoordinatorCorrect, PTL DEF CoordinatorSpec

(* Once published, the seal, the claims and the current worker are fixed.  *)
THEOREM PublicationAlwaysFinal == CoordinatorSpec => PublicationIsFinal
<1>1. [CoordinatorNext]_coordinatorVars
      => [Published => UNCHANGED <<publication, claims, currentEpoch, currentClaim>>]_coordinatorVars
  BY DEF CoordinatorNext, CoordinatorStep, coordinatorVars, ClaimWorker, ClaimAllowed,
         ReservePublicationTime, Publish, PublishAllowed, AssertCurrentWorker, Republish
<1> QED BY <1>1, PTL DEF CoordinatorSpec, PublicationIsFinal

-----------------------------------------------------------------------------
(***************************************************************************)
(* The action ledger.  The order of the rows, the state chain and the      *)
(* order of epochs are inductive one after the other.                      *)
(***************************************************************************)
AtomicInv ==
    /\ CoordinatorInv
    /\ AtomicTypeOK
    /\ StepsAdvanceInOrder
    /\ StateChainUnbroken
    /\ EpochsNeverRegress

allAtomicVars == <<coordinatorVars, atomicVars>>

-----------------------------------------------------------------------------
(* Every step of the ledger is a step of the coordinator or leaves it.     *)
LEMMA AtomicStepsAreCoordinatorSteps ==
    [AtomicNext]_allAtomicVars => [CoordinatorNext]_coordinatorVars
BY DEF AtomicNext, AtomicStep, allAtomicVars, BeginAttempt, Authorize, CommitAction, FinalizeAtomic

(* The cases of a step, for the proofs below.                              *)
LEMMA AtomicCases ==
    ASSUME [AtomicNext]_allAtomicVars
    PROVE  \/ \E w \in Workers : BeginAttempt(w)
           \/ \E w \in Workers, s \in Step : Authorize(w, s)
           \/ \E w \in Workers, p \in IssuedPermits, c \in Completion : CommitAction(w, p, c)
           \/ \E w \in Workers : FinalizeAtomic(w)
           \/ UNCHANGED atomicVars /\ [CoordinatorNext]_coordinatorVars
BY DEF AtomicNext, AtomicStep, allAtomicVars

LEMMA StepIsNat == /\ Step \subseteq Nat
                   /\ \A s \in Step : s + 1 \in 0 .. StepCount
BY StepCountAssumption DEF Step

-----------------------------------------------------------------------------
(* A permit that is committed or recorded is a permit.                     *)
LEMMA IssuedPermitsAreTyped ==
    ASSUME AtomicTypeOK
    PROVE  IssuedPermits \subseteq Permit
BY DEF AtomicTypeOK, IssuedPermits

LEMMA NextStateIsTyped ==
    ASSUME NEW p \in Permit, NEW c \in Completion
    PROVE  NextState(p, c) \in Seq(Entry)
<1>1. p.prior \in Seq(Entry) /\ p.claim \in Workers
  BY DEF Permit
<1>2. [by |-> p.claim, completion |-> c] \in Entry
  BY <1>1 DEF Entry
<1> QED BY <1>1, <1>2 DEF NextState

LEMMA AtomicTypeInit == AtomicInit => AtomicTypeOK
<1> SUFFICES ASSUME AtomicInit
             PROVE  AtomicTypeOK
  OBVIOUS
<1>1. nextStep \in 0 .. StepCount
  BY StepCountAssumption DEF AtomicInit
<1>2. state \in Seq(Entry)
  BY DEF AtomicInit
<1>3. permits \in [Step -> Permit \cup {None}] /\ commits \in [Step -> Commit \cup {None}]
  BY DEF AtomicInit
<1> QED BY <1>1, <1>2, <1>3 DEF AtomicInit, AtomicTypeOK

LEMMA AtomicTypeStep ==
    AtomicTypeOK /\ [AtomicNext]_allAtomicVars => AtomicTypeOK'
<1> SUFFICES ASSUME AtomicTypeOK, [AtomicNext]_allAtomicVars
             PROVE  AtomicTypeOK'
  OBVIOUS
<1> USE DEF AtomicTypeOK
<1>1. ASSUME NEW w \in Workers, BeginAttempt(w)
      PROVE  AtomicTypeOK'
  BY <1>1 DEF BeginAttempt
<1>2. ASSUME NEW w \in Workers, NEW s \in Step, Authorize(w, s)
      PROVE  AtomicTypeOK'
  <2>1. [step |-> s, claim |-> w, prior |-> state] \in Permit
    BY DEF Permit
  <2>2. permits' \in [Step -> Permit \cup {None}]
    BY <1>2, <2>1 DEF Authorize
  <2> QED BY <1>2, <2>2 DEF Authorize
<1>3. ASSUME NEW w \in Workers, NEW p \in IssuedPermits, NEW c \in Completion,
             CommitAction(w, p, c)
      PROVE  AtomicTypeOK'
  <2>1. p \in Permit
    BY IssuedPermitsAreTyped
  <2>2. NextState(p, c) \in Seq(Entry)
    BY <2>1, NextStateIsTyped
  <2>3. p.step \in Step /\ p.prior \in Seq(Entry)
    BY <2>1 DEF Permit
  <2>4. [claim |-> w, permit |-> p, completion |-> c, prior |-> p.prior,
         next |-> NextState(p, c)] \in Commit
    BY <2>1, <2>2, <2>3 DEF Commit
  <2>5. commits' \in [Step -> Commit \cup {None}]
    BY <1>3, <2>4 DEF CommitAction
  <2>6. nextStep' \in 0 .. StepCount
    BY <1>3, <2>3, StepIsNat DEF CommitAction
  <2> QED BY <1>3, <2>2, <2>5, <2>6 DEF CommitAction
<1>4. ASSUME NEW w \in Workers, FinalizeAtomic(w)
      PROVE  AtomicTypeOK'
  BY <1>4 DEF FinalizeAtomic
<1>5. CASE UNCHANGED atomicVars
  BY <1>5 DEF atomicVars
<1> QED BY <1>1, <1>2, <1>3, <1>4, <1>5, AtomicCases

-----------------------------------------------------------------------------
(* The order of the rows.                                                  *)
LEMMA CommitIsAtNextStep ==
    ASSUME AtomicTypeOK, StepsAdvanceInOrder,
           NEW w \in Workers, NEW p \in IssuedPermits, CommitAllowed(w, p)
    PROVE  /\ p \in Permit
           /\ p.step \in Step
           /\ p.step = nextStep
           /\ p = permits[nextStep]
           /\ ~completed
<1>1. p \in Permit /\ p # None
  BY IssuedPermitsAreTyped DEF IssuedPermits
<1>2. p.step \in Step
  BY <1>1 DEF Permit
<1>3. p.step = nextStep
  BY <1>2, StepIsNat DEF AtomicTypeOK, StepsAdvanceInOrder, CommitAllowed
<1> QED BY <1>1, <1>2, <1>3, StepIsNat DEF AtomicTypeOK, StepsAdvanceInOrder, CommitAllowed

LEMMA StepsInit == AtomicInit => StepsAdvanceInOrder
BY StepIsNat DEF AtomicInit, StepsAdvanceInOrder, Committed, Authorized

LEMMA StepsStep ==
    AtomicTypeOK /\ AtomicTypeOK' /\ StepsAdvanceInOrder /\ [AtomicNext]_allAtomicVars
    => StepsAdvanceInOrder'
<1> SUFFICES ASSUME AtomicTypeOK, AtomicTypeOK', StepsAdvanceInOrder,
                    [AtomicNext]_allAtomicVars
             PROVE  StepsAdvanceInOrder'
  OBVIOUS
<1>1. ASSUME NEW w \in Workers, BeginAttempt(w)
      PROVE  StepsAdvanceInOrder'
  BY <1>1 DEF BeginAttempt, StepsAdvanceInOrder, Committed, Authorized
<1>2. ASSUME NEW w \in Workers, NEW s \in Step, Authorize(w, s)
      PROVE  StepsAdvanceInOrder'
  <2>1. permits'[s] # None /\ \A t \in Step \ {s} : permits'[t] = permits[t]
    <3>1. permits'[s] = [step |-> s, claim |-> w, prior |-> state]
      BY <1>2 DEF Authorize, AtomicTypeOK
    <3>2. permits'[s] \in Permit
      BY <3>1 DEF Permit, AtomicTypeOK
    <3> QED BY <1>2, <3>2, NullIsNoAction DEF Authorize, AtomicTypeOK
  <2>2. /\ s = nextStep /\ nextStep' = nextStep /\ nextStep < StepCount
        /\ inFlight = None /\ inFlight' = permits'[s]
        /\ ~completed /\ UNCHANGED <<begun, completed, commits>> /\ begun
    BY <1>2, StepCountAssumption DEF Authorize, AuthorizeAllowed, Step
  <2> QED BY <2>1, <2>2, StepIsNat DEF StepsAdvanceInOrder, Committed, Authorized
<1>3. ASSUME NEW w \in Workers, NEW p \in IssuedPermits, NEW c \in Completion,
             CommitAction(w, p, c)
      PROVE  StepsAdvanceInOrder'
  <2>1. /\ p.step \in Step /\ p.step = nextStep /\ ~completed
        /\ p = permits[nextStep] /\ p # None /\ inFlight = p
    BY <1>3, CommitIsAtNextStep DEF CommitAction, CommitAllowed, IssuedPermits
  <2>2. commits'[p.step] # None /\ \A t \in Step \ {p.step} : commits'[t] = commits[t]
    <3>1. commits'[p.step].next = NextState(p, c) /\ commits'[p.step].permit = p
      BY <1>3, <2>1 DEF CommitAction, AtomicTypeOK
    <3>2. commits'[p.step] = [claim |-> w, permit |-> p, completion |-> c,
                              prior |-> p.prior, next |-> NextState(p, c)]
      BY <1>3, <2>1 DEF CommitAction, AtomicTypeOK
    <3>3. p \in Permit
      BY IssuedPermitsAreTyped
    <3>4. commits'[p.step] \in Commit
      BY <3>2, <3>3, NextStateIsTyped DEF Commit, Permit
    <3> QED BY <1>3, <3>4, NullIsNoAction DEF CommitAction, AtomicTypeOK
  <2>3. /\ nextStep' = nextStep + 1 /\ inFlight' = None
        /\ UNCHANGED <<begun, completed, permits>> /\ begun
    BY <1>3, <2>1 DEF CommitAction, CommitAllowed
  <2> QED BY <2>1, <2>2, <2>3, StepIsNat DEF StepsAdvanceInOrder, Committed, Authorized, AtomicTypeOK
<1>4. ASSUME NEW w \in Workers, FinalizeAtomic(w)
      PROVE  StepsAdvanceInOrder'
  BY <1>4 DEF FinalizeAtomic, FinalizeAllowed, StepsAdvanceInOrder, Committed, Authorized
<1>5. CASE UNCHANGED atomicVars
  BY <1>5 DEF atomicVars, StepsAdvanceInOrder, Committed, Authorized
<1> QED BY <1>1, <1>2, <1>3, <1>4, <1>5, AtomicCases

-----------------------------------------------------------------------------
(* The state chain.                                                        *)
LEMMA ChainInit == AtomicInit => StateChainUnbroken
BY DEF AtomicInit, StateChainUnbroken, Committed, Authorized, StateBefore

LEMMA ChainAuthorize ==
    ASSUME AtomicTypeOK, StepsAdvanceInOrder, StateChainUnbroken,
           NEW w \in Workers, NEW s \in Step, Authorize(w, s)
    PROVE  StateChainUnbroken'
<1>1. /\ permits'[s] = [step |-> s, claim |-> w, prior |-> state]
      /\ \A t \in Step \ {s} : permits'[t] = permits[t]
      /\ UNCHANGED <<nextStep, state, commits>>
  BY DEF Authorize, AtomicTypeOK
<1>2. s = nextStep /\ ~Committed(s)
  BY StepIsNat DEF Authorize, AuthorizeAllowed, StepsAdvanceInOrder
<1>3. \A t \in 0 .. StepCount : StateBefore(t)' = StateBefore(t)
  BY <1>1 DEF StateBefore
<1>4. ASSUME NEW t \in Step, Authorized(t)'
      PROVE  permits'[t].step = t /\ permits'[t].prior = StateBefore(t)'
  <2>1. CASE t = s
    BY <1>1, <1>2, <2>1 DEF StateChainUnbroken, StateBefore
  <2>2. CASE t # s
    BY <1>1, <1>4, <2>2 DEF StateChainUnbroken, StateBefore, Authorized
  <2> QED BY <2>1, <2>2
<1>5. ASSUME NEW t \in Step, Committed(t)'
      PROVE  /\ commits'[t].permit = permits'[t]
             /\ commits'[t].prior = StateBefore(t)'
             /\ commits'[t].next = NextState(permits'[t], commits'[t].completion)
  <2>1. t # s /\ Committed(t)
    BY <1>1, <1>2, <1>5 DEF Committed
  <2> QED BY <1>1, <2>1 DEF StateChainUnbroken, StateBefore
<1>6. state' = StateBefore(nextStep)'
  BY <1>1 DEF StateChainUnbroken, StateBefore
<1> QED BY <1>4, <1>5, <1>6 DEF StateChainUnbroken

LEMMA ChainCommit ==
    ASSUME AtomicTypeOK, StepsAdvanceInOrder, StateChainUnbroken,
           NEW w \in Workers, NEW p \in IssuedPermits, NEW c \in Completion,
           CommitAction(w, p, c)
    PROVE  StateChainUnbroken'
<1>1. /\ p.step \in Step /\ p.step = nextStep /\ p = permits[nextStep]
  BY CommitIsAtNextStep DEF CommitAction
<1>2. /\ commits'[p.step] = [claim |-> w, permit |-> p, completion |-> c,
                             prior |-> p.prior, next |-> NextState(p, c)]
      /\ \A t \in Step \ {p.step} : commits'[t] = commits[t]
      /\ permits' = permits
      /\ nextStep' = p.step + 1
      /\ state' = NextState(p, c)
  BY <1>1 DEF CommitAction, AtomicTypeOK
<1>3. Authorized(p.step) /\ p.prior = StateBefore(p.step)
  BY <1>1 DEF CommitAction, CommitAllowed, StateChainUnbroken
<1>4. ASSUME NEW t \in Step, t <= p.step
      PROVE  StateBefore(t)' = StateBefore(t)
  <2>1. CASE t = 0
    BY <2>1 DEF StateBefore
  <2>2. CASE t # 0
    <3>1. t \in Nat /\ p.step \in Nat /\ t < StepCount
      BY <1>1, StepCountAssumption DEF Step
    <3>2. t - 1 \in Step \ {p.step}
      BY <1>4, <2>2, <3>1, StepCountAssumption DEF Step
    <3>3. commits'[t - 1] = commits[t - 1]
      BY <1>2, <3>2
    <3> QED BY <2>2, <3>3 DEF StateBefore
  <2> QED BY <2>1, <2>2
<1>5. ASSUME NEW t \in Step, Authorized(t)'
      PROVE  permits'[t].step = t /\ permits'[t].prior = StateBefore(t)'
  <2>1. Authorized(t)
    BY <1>2, <1>5 DEF Authorized
  <2>2. t <= p.step
    BY <1>1, <2>1, StepIsNat DEF StepsAdvanceInOrder
  <2> QED BY <1>2, <1>4, <2>1, <2>2 DEF StateChainUnbroken
<1>6. ASSUME NEW t \in Step, Committed(t)'
      PROVE  /\ commits'[t].permit = permits'[t]
             /\ commits'[t].prior = StateBefore(t)'
             /\ commits'[t].next = NextState(permits'[t], commits'[t].completion)
  <2>1. CASE t = p.step
    BY <1>1, <1>2, <1>3, <1>4, <2>1, StepIsNat
  <2>2. CASE t # p.step
    <3>1. Committed(t) /\ commits'[t] = commits[t]
      BY <1>2, <1>6, <2>2 DEF Committed
    <3>2. t <= p.step
      BY <1>1, <3>1, StepIsNat DEF StepsAdvanceInOrder
    <3> QED BY <1>2, <1>4, <3>1, <3>2 DEF StateChainUnbroken
  <2> QED BY <2>1, <2>2
<1>7. state' = StateBefore(nextStep)'
  <2>1. nextStep' # 0 /\ nextStep' - 1 = p.step
    <3>1. p.step \in Nat
      BY <1>1, StepIsNat
    <3> QED BY <1>2, <3>1
  <2>2. commits'[p.step].next = NextState(p, c)
    BY <1>2
  <2> QED BY <1>2, <2>1, <2>2 DEF StateBefore
<1> QED BY <1>5, <1>6, <1>7 DEF StateChainUnbroken

LEMMA ChainStep ==
    AtomicTypeOK /\ StepsAdvanceInOrder /\ StateChainUnbroken /\ [AtomicNext]_allAtomicVars
    => StateChainUnbroken'
<1> SUFFICES ASSUME AtomicTypeOK, StepsAdvanceInOrder, StateChainUnbroken,
                    [AtomicNext]_allAtomicVars
             PROVE  StateChainUnbroken'
  OBVIOUS
<1>1. CASE UNCHANGED <<nextStep, state, permits, commits>>
  BY <1>1 DEF StateChainUnbroken, Committed, Authorized, StateBefore
<1>2. ASSUME NEW w \in Workers, NEW s \in Step, Authorize(w, s)
      PROVE  StateChainUnbroken'
  BY <1>2, ChainAuthorize
<1>3. ASSUME NEW w \in Workers, NEW p \in IssuedPermits, NEW c \in Completion,
             CommitAction(w, p, c)
      PROVE  StateChainUnbroken'
  BY <1>3, ChainCommit
<1> QED BY <1>1, <1>2, <1>3, AtomicCases DEF BeginAttempt, FinalizeAtomic, atomicVars

-----------------------------------------------------------------------------
(* The order of epochs.                                                    *)
LEMMA EpochsInit == AtomicInit => EpochsNeverRegress
BY DEF AtomicInit, EpochsNeverRegress, Committed, Authorized

(* A process that passes assert_current_worker_conn has the current epoch, *)
(* which bounds every other.                                               *)
LEMMA EpochsAreBounded ==
    ASSUME CoordinatorInv
    PROVE  /\ currentEpoch \in Nat
           /\ \A w \in Workers : claims[w].epoch \in 0 .. currentEpoch
           /\ \A w \in Workers : AssertCurrentWorker(w, FALSE) =>
                 currentClaim = w /\ claims[w].epoch = currentEpoch /\ currentEpoch > 0
<1>1. currentEpoch \in Nat /\ \A w \in Workers : claims[w].epoch \in Nat
  BY DEF CoordinatorInv, CoordinatorTypeOK, Claim
<1>2. ASSUME NEW w \in Workers
      PROVE  claims[w].epoch \in 0 .. currentEpoch
  <2>1. CASE currentEpoch = 0
    BY <1>1, <2>1 DEF CoordinatorInv, ClaimsFormOneChain, Claimed
  <2>2. CASE currentEpoch > 0
    BY <1>1, <2>2 DEF CoordinatorInv, ClaimsFormOneChain, ClaimChain
  <2> QED BY <1>1, <2>1, <2>2
<1>3. ASSUME NEW w \in Workers, AssertCurrentWorker(w, FALSE)
      PROVE  currentClaim = w /\ claims[w].epoch = currentEpoch /\ currentEpoch > 0
  BY <1>1, <1>3, CurrentWorker DEF AssertCurrentWorker
<1> QED BY <1>1, <1>2, <1>3

(* A later claim does not touch the epochs of the claims before it.        *)
LEMMA EpochsGrow ==
    ASSUME CoordinatorInv, [CoordinatorNext]_coordinatorVars
    PROVE  /\ currentEpoch' \in Nat
           /\ currentEpoch <= currentEpoch'
           /\ \A w \in Workers : Claimed(w) => claims'[w] = claims[w]
<1>1. currentEpoch \in Nat
  BY DEF CoordinatorInv, CoordinatorTypeOK
<1>2. ASSUME NEW w \in Workers, NEW takeover \in BOOLEAN, ClaimWorker(w, takeover)
      PROVE  /\ currentEpoch' = currentEpoch + 1
             /\ \A v \in Workers : Claimed(v) => claims'[v] = claims[v]
  BY <1>2 DEF ClaimWorker, ClaimAllowed, CoordinatorInv, CoordinatorTypeOK
<1>3. CASE UNCHANGED <<currentEpoch, claims>>
  BY <1>1, <1>3
<1> QED BY <1>1, <1>2, <1>3
     DEF CoordinatorNext, CoordinatorStep, ReservePublicationTime, Publish, Republish, coordinatorVars

LEMMA EpochsCoordinator ==
    ASSUME CoordinatorInv, AtomicTypeOK, StepsAdvanceInOrder, EpochsNeverRegress,
           [CoordinatorNext]_coordinatorVars, UNCHANGED atomicVars
    PROVE  EpochsNeverRegress'
<1> USE DEF atomicVars
<1>1. ASSUME NEW s \in Step, Authorized(s)
      PROVE  /\ permits[s].claim \in Workers
             /\ claims'[permits[s].claim] = claims[permits[s].claim]
  <2>1. permits[s].claim \in Workers
    BY <1>1 DEF AtomicTypeOK, Authorized, Permit
  <2> QED BY <1>1, <2>1, EpochsGrow DEF EpochsNeverRegress, Claimed
<1>2. ASSUME NEW s \in Step, Committed(s)
      PROVE  /\ commits[s].claim \in Workers
             /\ claims'[commits[s].claim] = claims[commits[s].claim]
  <2>1. commits[s].claim \in Workers
    BY <1>2 DEF AtomicTypeOK, Committed, Commit
  <2>2. Authorized(s)
    BY <1>2, StepIsNat DEF StepsAdvanceInOrder
  <2>3. claims[permits[s].claim].epoch \in Nat /\ claims[permits[s].claim].epoch > 0
    BY <2>2 DEF EpochsNeverRegress
  <2>4. claims[commits[s].claim].epoch # 0
    BY <1>2, <2>3 DEF EpochsNeverRegress
  <2> QED BY <2>1, <2>4, EpochsGrow DEF Claimed
<1>3. ASSUME NEW s \in Step, Authorized(s)'
      PROVE  /\ claims'[permits'[s].claim].epoch \in 1 .. currentEpoch'
             /\ s > 0 => claims'[commits'[s - 1].claim].epoch <= claims'[permits'[s].claim].epoch
  <2>1. Authorized(s)
    BY <1>3 DEF Authorized
  <2>2. claims'[permits'[s].claim].epoch \in 1 .. currentEpoch'
    BY <1>1, <2>1, EpochsGrow, EpochsAreBounded DEF EpochsNeverRegress
  <2>3. ASSUME s > 0
        PROVE  claims'[commits'[s - 1].claim].epoch <= claims'[permits'[s].claim].epoch
    <3>1. s - 1 \in Step /\ s - 1 < nextStep
      BY <2>1, <2>3, StepCountAssumption DEF StepsAdvanceInOrder, AtomicTypeOK, Step
    <3>2. Committed(s - 1)
      BY <3>1 DEF StepsAdvanceInOrder
    <3> QED BY <1>1, <1>2, <2>1, <2>3, <3>1, <3>2 DEF EpochsNeverRegress
  <2> QED BY <2>2, <2>3
<1>4. ASSUME NEW s \in Step, Committed(s)'
      PROVE  claims'[commits'[s].claim].epoch
                \in claims'[permits'[s].claim].epoch .. currentEpoch'
  <2>1. Committed(s) /\ Authorized(s)
    BY <1>4, StepIsNat DEF Committed, StepsAdvanceInOrder
  <2> QED BY <1>1, <1>2, <2>1, EpochsGrow, EpochsAreBounded DEF EpochsNeverRegress
<1> QED BY <1>3, <1>4 DEF EpochsNeverRegress

LEMMA EpochsAuthorize ==
    ASSUME CoordinatorInv, AtomicTypeOK, StepsAdvanceInOrder, EpochsNeverRegress,
           NEW w \in Workers, NEW s \in Step, Authorize(w, s)
    PROVE  EpochsNeverRegress'
<1>1. /\ permits'[s].claim = w
      /\ \A t \in Step \ {s} : permits'[t] = permits[t]
      /\ UNCHANGED <<claims, currentEpoch, commits>>
  BY DEF Authorize, AtomicTypeOK, coordinatorVars
<1>2. claims[w].epoch = currentEpoch /\ currentEpoch \in Nat \ {0}
  <2>1. AssertCurrentWorker(w, FALSE)
    BY DEF Authorize, AuthorizeAllowed
  <2>2. claims[w].epoch = currentEpoch /\ currentEpoch > 0 /\ currentEpoch \in Nat
    BY <2>1, EpochsAreBounded
  <2> QED BY <2>2
<1>3. s = nextStep /\ ~Committed(s)
  BY StepIsNat DEF Authorize, AuthorizeAllowed, StepsAdvanceInOrder
<1>4. ASSUME NEW t \in Step, Authorized(t)'
      PROVE  /\ claims'[permits'[t].claim].epoch \in 1 .. currentEpoch'
             /\ t > 0 => claims'[commits'[t - 1].claim].epoch <= claims'[permits'[t].claim].epoch
  <2>1. CASE t = s
    <3>1. ASSUME t > 0
          PROVE  claims[commits[t - 1].claim].epoch <= currentEpoch
      <4>1. t - 1 \in Step /\ t - 1 < nextStep
        BY <1>3, <2>1, <3>1, StepCountAssumption DEF Step
      <4>2. Committed(t - 1)
        BY <4>1 DEF StepsAdvanceInOrder
      <4> QED BY <1>2, <4>1, <4>2 DEF EpochsNeverRegress
    <3> QED BY <1>1, <1>2, <2>1, <3>1
  <2>2. CASE t # s
    BY <1>1, <1>4, <2>2 DEF EpochsNeverRegress, Authorized
  <2> QED BY <2>1, <2>2
<1>5. ASSUME NEW t \in Step, Committed(t)'
      PROVE  claims'[commits'[t].claim].epoch
                \in claims'[permits'[t].claim].epoch .. currentEpoch'
  <2>1. Committed(t) /\ t # s
    BY <1>1, <1>3, <1>5 DEF Committed
  <2> QED BY <1>1, <2>1 DEF EpochsNeverRegress
<1> QED BY <1>4, <1>5 DEF EpochsNeverRegress

LEMMA EpochsCommit ==
    ASSUME CoordinatorInv, AtomicTypeOK, StepsAdvanceInOrder, EpochsNeverRegress,
           NEW w \in Workers, NEW p \in IssuedPermits, NEW c \in Completion,
           CommitAction(w, p, c)
    PROVE  EpochsNeverRegress'
<1>1. p.step \in Step /\ p.step = nextStep /\ p = permits[p.step] /\ Authorized(p.step)
  BY CommitIsAtNextStep DEF CommitAction, CommitAllowed
<1>2. /\ commits'[p.step].claim = w
      /\ \A t \in Step \ {p.step} : commits'[t] = commits[t]
      /\ UNCHANGED <<claims, currentEpoch, permits>>
  BY <1>1 DEF CommitAction, AtomicTypeOK, coordinatorVars
<1>3. claims[w].epoch = currentEpoch /\ currentEpoch \in Nat \ {0}
  <2>1. AssertCurrentWorker(w, FALSE)
    BY DEF CommitAction, CommitAllowed
  <2>2. claims[w].epoch = currentEpoch /\ currentEpoch > 0 /\ currentEpoch \in Nat
    BY <2>1, EpochsAreBounded
  <2> QED BY <2>2
<1>4. ASSUME NEW t \in Step, Authorized(t)'
      PROVE  /\ claims'[permits'[t].claim].epoch \in 1 .. currentEpoch'
             /\ t > 0 => claims'[commits'[t - 1].claim].epoch <= claims'[permits'[t].claim].epoch
  <2>1. Authorized(t) /\ t <= p.step
    BY <1>1, <1>2, <1>4, StepIsNat DEF Authorized, StepsAdvanceInOrder
  <2>2. t > 0 => t - 1 \in Step \ {p.step}
    BY <1>1, <2>1, StepCountAssumption DEF Step
  <2> QED BY <1>2, <2>1, <2>2 DEF EpochsNeverRegress
<1>5. ASSUME NEW t \in Step, Committed(t)'
      PROVE  claims'[commits'[t].claim].epoch
                \in claims'[permits'[t].claim].epoch .. currentEpoch'
  <2>1. CASE t = p.step
    BY <1>1, <1>2, <1>3, <2>1 DEF EpochsNeverRegress
  <2>2. CASE t # p.step
    BY <1>2, <1>5, <2>2 DEF EpochsNeverRegress, Committed
  <2> QED BY <2>1, <2>2
<1> QED BY <1>4, <1>5 DEF EpochsNeverRegress

LEMMA EpochsStep ==
    CoordinatorInv /\ AtomicTypeOK /\ StepsAdvanceInOrder /\ EpochsNeverRegress
    /\ [AtomicNext]_allAtomicVars => EpochsNeverRegress'
<1> SUFFICES ASSUME CoordinatorInv, AtomicTypeOK, StepsAdvanceInOrder, EpochsNeverRegress,
                    [AtomicNext]_allAtomicVars
             PROVE  EpochsNeverRegress'
  OBVIOUS
<1>1. CASE UNCHANGED <<currentEpoch, claims, permits, commits>>
  BY <1>1 DEF EpochsNeverRegress, Committed, Authorized
<1>2. ASSUME NEW w \in Workers, NEW s \in Step, Authorize(w, s)
      PROVE  EpochsNeverRegress'
  BY <1>2, EpochsAuthorize
<1>3. ASSUME NEW w \in Workers, NEW p \in IssuedPermits, NEW c \in Completion,
             CommitAction(w, p, c)
      PROVE  EpochsNeverRegress'
  BY <1>3, EpochsCommit
<1>4. CASE UNCHANGED atomicVars /\ [CoordinatorNext]_coordinatorVars
  BY <1>4, EpochsCoordinator
<1>5. ASSUME NEW w \in Workers, BeginAttempt(w) \/ FinalizeAtomic(w)
      PROVE  EpochsNeverRegress'
  BY <1>1, <1>5 DEF BeginAttempt, FinalizeAtomic, coordinatorVars
<1> QED BY <1>2, <1>3, <1>4, <1>5, AtomicCases

-----------------------------------------------------------------------------
(* Putting it together.                                                    *)
LEMMA AtomicInvInit == CoordinatorInit /\ AtomicInit => AtomicInv
BY CoordinatorInvInit, AtomicTypeInit, StepsInit, ChainInit, EpochsInit DEF AtomicInv

LEMMA AtomicInvStep == AtomicInv /\ [AtomicNext]_allAtomicVars => AtomicInv'
BY CoordinatorInvStep, AtomicStepsAreCoordinatorSteps, AtomicTypeStep, StepsStep, ChainStep,
   EpochsStep DEF AtomicInv

(* The coordinator's tables, the attempt row and the action rows agree     *)
(* after every transaction of authorize, commit, finalize and claim_worker.*)
THEOREM AtomicCorrect == AtomicSpec => []AtomicInv
<1>1. CoordinatorInit /\ AtomicInit => AtomicInv
  BY AtomicInvInit
<1>2. AtomicInv /\ [AtomicNext]_allAtomicVars => AtomicInv'
  BY AtomicInvStep
<1> QED BY <1>1, <1>2, PTL DEF AtomicSpec, StoresInit, allAtomicVars

(* The action ledger uses the coordinator as it is specified.              *)
THEOREM AtomicImplementsCoordinator == AtomicSpec => CoordinatorSpec
BY AtomicStepsAreCoordinatorSteps, PTL DEF AtomicSpec, StoresInit, CoordinatorSpec, allAtomicVars

(* The attempt row and the action rows keep their types.                   *)
THEOREM AtomicTypeCorrect == AtomicSpec => []AtomicTypeOK
<1>1. AtomicInv => AtomicTypeOK
  BY DEF AtomicInv
<1> QED BY <1>1, AtomicCorrect, PTL

(* authorize and commit advance one step at a time, however many processes *)
(* call them.                                                              *)
THEOREM StepsAlwaysAdvanceInOrder == AtomicSpec => []StepsAdvanceInOrder
<1>1. AtomicInv => StepsAdvanceInOrder
  BY DEF AtomicInv
<1> QED BY <1>1, AtomicCorrect, PTL

(* Permits and commits hash into one state chain.                          *)
THEOREM StateChainAlwaysUnbroken == AtomicSpec => []StateChainUnbroken
<1>1. AtomicInv => StateChainUnbroken
  BY DEF AtomicInv
<1> QED BY <1>1, AtomicCorrect, PTL

(* Worker epochs never decrease along permits and commits.                 *)
THEOREM EpochsNeverRegressEver == AtomicSpec => []EpochsNeverRegress
<1>1. AtomicInv => EpochsNeverRegress
  BY DEF AtomicInv
<1> QED BY <1>1, AtomicCorrect, PTL

(* authorize and commit write in the name of the current worker only, and  *)
(* nobody writes after publication.                                        *)
THEOREM OnlyTheCurrentWorkerEverWrites == AtomicSpec => OnlyTheCurrentWorkerWrites
<1> DEFINE Fenced ==
      /\ \A s \in Step : permits'[s] # permits[s] =>
            permits'[s].claim = currentClaim /\ currentClaim' = currentClaim
      /\ \A s \in Step : commits'[s] # commits[s] =>
            commits'[s].claim = currentClaim /\ currentClaim' = currentClaim
      /\ Published => UNCHANGED atomicVars
<1>1. AtomicInv /\ [AtomicNext]_allAtomicVars => [Fenced]_allAtomicVars
  <2> SUFFICES ASSUME AtomicInv, [AtomicNext]_allAtomicVars
               PROVE  [Fenced]_allAtomicVars
    OBVIOUS
  <2>0. AtomicTypeOK
    BY DEF AtomicInv
  <2>1. ASSUME NEW w \in Workers, BeginAttempt(w)
        PROVE  Fenced
    BY <2>1 DEF BeginAttempt, BeginAllowed, AssertCurrentWorker
  <2>2. ASSUME NEW w \in Workers, NEW s \in Step, Authorize(w, s)
        PROVE  Fenced
    BY <2>0, <2>2 DEF Authorize, AuthorizeAllowed, AssertCurrentWorker, AtomicTypeOK, coordinatorVars
  <2>3. ASSUME NEW w \in Workers, NEW p \in IssuedPermits, NEW c \in Completion,
               CommitAction(w, p, c)
        PROVE  Fenced
    BY <2>0, <2>3 DEF CommitAction, CommitAllowed, AssertCurrentWorker, AtomicTypeOK, coordinatorVars
  <2>4. ASSUME NEW w \in Workers, FinalizeAtomic(w)
        PROVE  Fenced
    BY <2>4 DEF FinalizeAtomic, FinalizeAllowed, AssertCurrentWorker
  <2>5. CASE UNCHANGED atomicVars
    BY <2>5 DEF atomicVars
  <2> QED BY <2>1, <2>2, <2>3, <2>4, <2>5, AtomicCases
<1> QED BY <1>1, AtomicCorrect, PTL DEF AtomicSpec, StoresInit, OnlyTheCurrentWorkerWrites, allAtomicVars

-----------------------------------------------------------------------------
(***************************************************************************)
(* The provider call ledger.  It writes only its own tables, so the calls  *)
(* can be related to the permits.                                          *)
(***************************************************************************)
LedgerInv ==
    /\ AtomicInv
    /\ LedgerTypeOK
    /\ CallsFollowTheirPermits
    /\ ResponsesAreUsedOnce

-----------------------------------------------------------------------------
LEMMA LedgerStepsAreAtomicSteps ==
    [LedgerNext]_storeVars => [AtomicNext]_allAtomicVars
BY DEF LedgerNext, LedgerStep, storeVars, allAtomicVars, BeginCall, CompleteCall, MarkUncertain,
       MarkRestartInFlightUncertain, RecordReconciliation, Purge

(* The cases of a step, for the proofs below.                              *)
LEMMA LedgerCases ==
    ASSUME [LedgerNext]_storeVars
    PROVE  \/ \E w \in Workers, p \in IssuedPermits : BeginCall(w, p)
           \/ \E w \in Workers, p \in IssuedPermits, r \in Responses : CompleteCall(w, p, r)
           \/ \E w \in Workers, p \in IssuedPermits : MarkUncertain(w, p)
           \/ \E w \in Workers : MarkRestartInFlightUncertain(w)
           \/ \E w \in Workers, s \in Step :
                 calls[s].state = "COMPLETED" /\ RecordReconciliation(w, s)
           \/ \E w \in Workers : Purge(w)
           \/ UNCHANGED ledgerVars /\ [AtomicNext]_allAtomicVars
BY DEF LedgerNext, LedgerStep, storeVars, allAtomicVars

(* A permit that was issued is the stored permit of its step.              *)
LEMMA IssuedPermitsAreStored ==
    ASSUME AtomicInv, NEW p \in IssuedPermits
    PROVE  /\ p \in Permit
           /\ p.step \in Step
           /\ p = permits[p.step]
           /\ Authorized(p.step)
<1>1. PICK s \in Step : p = permits[s] /\ p # None
  BY DEF IssuedPermits
<1>2. p \in Permit
  BY IssuedPermitsAreTyped DEF AtomicInv
<1>3. p.step = s
  BY <1>1 DEF AtomicInv, StateChainUnbroken, Authorized
<1> QED BY <1>1, <1>2, <1>3 DEF Authorized

-----------------------------------------------------------------------------
LEMMA LedgerTypeInit == LedgerInit => LedgerTypeOK
<1>1. NoCall \in Call
  BY DEF NoCall, Call, CallStates, MaterialStates
<1> QED BY <1>1 DEF LedgerInit, LedgerTypeOK

LEMMA LedgerTypeStep ==
    ASSUME AtomicInv, LedgerTypeOK, [LedgerNext]_storeVars
    PROVE  LedgerTypeOK'
<1> USE DEF LedgerTypeOK
<1>0. \A s \in Step : calls[s] \in Call
  OBVIOUS
<1>1. ASSUME NEW w \in Workers, NEW p \in IssuedPermits, BeginCall(w, p)
      PROVE  LedgerTypeOK'
  <2>1. [state |-> "IN_FLIGHT", claim |-> w, permit |-> p,
         response |-> None, material |-> "AVAILABLE"] \in Call
    BY IssuedPermitsAreStored DEF Call, CallStates, MaterialStates
  <2> QED BY <1>1, <2>1 DEF BeginCall
<1>2. ASSUME NEW w \in Workers, NEW p \in IssuedPermits, NEW r \in Responses,
             CompleteCall(w, p, r)
      PROVE  LedgerTypeOK'
  <2>1. [calls[p.step] EXCEPT !.state = "COMPLETED", !.response = r,
                              !.material = "AVAILABLE"] \in Call
    <3>1. calls[p.step] \in Call
      BY <1>0, IssuedPermitsAreStored
    <3>2. "COMPLETED" \in CallStates /\ "AVAILABLE" \in MaterialStates
      BY DEF CallStates, MaterialStates
    <3> QED BY <3>1, <3>2 DEF Call
  <2> QED BY <1>2, <2>1 DEF CompleteCall
<1>3. ASSUME NEW w \in Workers, NEW p \in IssuedPermits, MarkUncertain(w, p)
      PROVE  LedgerTypeOK'
  <2>1. [calls[p.step] EXCEPT !.state = "UNCERTAIN"] \in Call
    BY <1>0, IssuedPermitsAreStored DEF Call, CallStates
  <2> QED BY <1>3, <2>1 DEF MarkUncertain
<1>4. ASSUME NEW w \in Workers, MarkRestartInFlightUncertain(w)
      PROVE  LedgerTypeOK'
  <2>1. \A s \in Step : [calls[s] EXCEPT !.state = "UNCERTAIN"] \in Call
    BY <1>0 DEF Call, CallStates
  <2> QED BY <1>4, <2>1 DEF MarkRestartInFlightUncertain
<1>5. ASSUME NEW w \in Workers, NEW s \in Step, RecordReconciliation(w, s)
      PROVE  LedgerTypeOK'
  BY <1>5 DEF RecordReconciliation
<1>6. ASSUME NEW w \in Workers, Purge(w)
      PROVE  LedgerTypeOK'
  <2>1. \A s \in Step : [calls[s] EXCEPT !.material = "PURGED"] \in Call
    BY <1>0 DEF Call, MaterialStates
  <2> QED BY <1>6, <2>1 DEF Purge
<1>7. CASE UNCHANGED ledgerVars
  BY <1>7 DEF ledgerVars
<1> QED BY <1>1, <1>2, <1>3, <1>4, <1>5, <1>6, <1>7, LedgerCases

-----------------------------------------------------------------------------
(* What an operation on the ledger's own tables can do to a call row.      *)
CallsOnlySettle ==
    \A s \in Step :
        /\ calls'[s].permit = calls[s].permit /\ calls'[s].claim = calls[s].claim
        /\ calls'[s].state = "NONE" <=> calls[s].state = "NONE"
        /\ calls[s].state \notin {"NONE", "IN_FLIGHT"} => calls'[s].state = calls[s].state

LEMMA SettlingSteps ==
    ASSUME AtomicInv, LedgerTypeOK
    PROVE  /\ \A w \in Workers, p \in IssuedPermits, r \in Responses :
                 CompleteCall(w, p, r) => CallsOnlySettle
           /\ \A w \in Workers, p \in IssuedPermits : MarkUncertain(w, p) => CallsOnlySettle
           /\ \A w \in Workers : MarkRestartInFlightUncertain(w) => CallsOnlySettle
           /\ \A w \in Workers : Purge(w) => CallsOnlySettle
<1>0. \A s \in Step : calls[s] \in Call
  BY DEF LedgerTypeOK
<1>1. ASSUME NEW w \in Workers, NEW p \in IssuedPermits, NEW r \in Responses,
             CompleteCall(w, p, r)
      PROVE  CallsOnlySettle
  BY <1>0, <1>1, IssuedPermitsAreStored
     DEF CompleteCall, CompleteCallAllowed, InFlightFor, CallsOnlySettle, LedgerTypeOK, Call
<1>2. ASSUME NEW w \in Workers, NEW p \in IssuedPermits, MarkUncertain(w, p)
      PROVE  CallsOnlySettle
  BY <1>0, <1>2, IssuedPermitsAreStored
     DEF MarkUncertain, MarkUncertainAllowed, InFlightFor, CallsOnlySettle, LedgerTypeOK, Call
<1>3. ASSUME NEW w \in Workers, MarkRestartInFlightUncertain(w)
      PROVE  CallsOnlySettle
  BY <1>0, <1>3 DEF MarkRestartInFlightUncertain, CallsOnlySettle, LedgerTypeOK, Call
<1>4. ASSUME NEW w \in Workers, Purge(w)
      PROVE  CallsOnlySettle
  BY <1>0, <1>4 DEF Purge, CallsOnlySettle, LedgerTypeOK, Call
<1> QED BY <1>1, <1>2, <1>3, <1>4

LEMMA CallsFollowSettling ==
    ASSUME AtomicInv, LedgerTypeOK, CallsFollowTheirPermits,
           CallsOnlySettle, UNCHANGED <<recons, coordinatorVars, atomicVars>>
    PROVE  CallsFollowTheirPermits'
BY DEF CallsFollowTheirPermits, CallsOnlySettle, Started, Authorized, coordinatorVars, atomicVars

(* The other tables grow under the calls without disturbing them.          *)
LEMMA CallsFollowAtomic ==
    ASSUME AtomicInv, AtomicInv', LedgerTypeOK, CallsFollowTheirPermits,
           UNCHANGED ledgerVars, [AtomicNext]_allAtomicVars
    PROVE  CallsFollowTheirPermits'
<1>1. [CoordinatorNext]_coordinatorVars
  BY AtomicStepsAreCoordinatorSteps
<1>2. /\ currentEpoch \in Nat /\ currentEpoch' \in Nat /\ currentEpoch <= currentEpoch'
      /\ \A w \in Workers : Claimed(w) => claims'[w] = claims[w]
  BY <1>1, EpochsGrow, EpochsAreBounded DEF AtomicInv
<1>3. \A w \in Workers : claims[w].epoch \in Nat
  BY EpochsAreBounded DEF AtomicInv
<1>4. \A s \in Step : Authorized(s) => permits'[s] = permits[s]
  <2>1. ASSUME NEW w \in Workers, NEW s \in Step, Authorize(w, s)
        PROVE  \A t \in Step : Authorized(t) => permits'[t] = permits[t]
    BY <2>1 DEF Authorize, AuthorizeAllowed, AtomicInv, AtomicTypeOK
  <2> QED BY <2>1, AtomicCases DEF BeginAttempt, CommitAction, FinalizeAtomic, atomicVars
<1>5. ASSUME NEW s \in Step, Started(s)
      PROVE  /\ permits[s].claim \in Workers
             /\ claims'[permits[s].claim] = claims[permits[s].claim]
             /\ claims[permits[s].claim].epoch > 0
  <2>1. Authorized(s)
    BY <1>5 DEF CallsFollowTheirPermits
  <2>2. permits[s].claim \in Workers
    BY <2>1 DEF AtomicInv, AtomicTypeOK, Authorized, Permit
  <2>3. claims[permits[s].claim].epoch > 0
    BY <2>1, <2>2, <1>3 DEF AtomicInv, EpochsNeverRegress
  <2> QED BY <1>2, <2>2, <2>3 DEF Claimed
<1>6. ASSUME NEW s \in Step, Started(s)
      PROVE  /\ calls[s].claim \in Workers
             /\ claims'[calls[s].claim] = claims[calls[s].claim]
             /\ claims[calls[s].claim].epoch > 0
             /\ claims[calls[s].claim].epoch \in Nat
  <2>1. calls[s].claim \in Workers
        /\ claims[calls[s].claim].epoch \in claims[permits[s].claim].epoch .. currentEpoch
    BY <1>6 DEF CallsFollowTheirPermits
  <2>2. claims[permits[s].claim].epoch \in Nat /\ claims[permits[s].claim].epoch > 0
    BY <1>3, <1>5, <1>6
  <2>3. claims[calls[s].claim].epoch \in Nat /\ claims[calls[s].claim].epoch > 0
    BY <1>3, <2>1, <2>2
  <2> QED BY <1>2, <2>1, <2>3 DEF Claimed
<1>7. ASSUME NEW s \in Step, Started(s)'
      PROVE  /\ Authorized(s)' /\ calls'[s].permit = permits'[s]
             /\ calls'[s].claim \in Workers
             /\ claims'[calls'[s].claim].epoch
                   \in claims'[permits'[s].claim].epoch .. currentEpoch'
  <2>1. Started(s) /\ calls' = calls
    BY <1>7 DEF Started, ledgerVars
  <2>2. Authorized(s) /\ calls[s].permit = permits[s]
        /\ claims[calls[s].claim].epoch \in claims[permits[s].claim].epoch .. currentEpoch
    BY <2>1 DEF CallsFollowTheirPermits
  <2>3. permits'[s] = permits[s]
    BY <1>4, <2>2
  <2> QED BY <1>2, <1>3, <1>5, <1>6, <2>1, <2>2, <2>3 DEF Authorized
<1>8. ASSUME NEW s \in Step, recons'[s] # None
      PROVE  /\ calls'[s].state = "COMPLETED"
             /\ claims'[recons'[s]].epoch \in claims'[calls'[s].claim].epoch .. currentEpoch'
  <2>1. /\ calls' = calls /\ recons' = recons /\ recons[s] \in Workers
        /\ calls[s].state = "COMPLETED" /\ Started(s)
        /\ claims[recons[s]].epoch \in claims[calls[s].claim].epoch .. currentEpoch
    BY <1>8 DEF CallsFollowTheirPermits, LedgerTypeOK, ledgerVars, Started
  <2>2. claims'[recons[s]] = claims[recons[s]]
    BY <1>2, <1>3, <1>6, <2>1 DEF Claimed
  <2> QED BY <1>2, <1>3, <1>6, <2>1, <2>2
<1> QED BY <1>7, <1>8 DEF CallsFollowTheirPermits

LEMMA CallsFollowBegin ==
    ASSUME AtomicInv, LedgerTypeOK, CallsFollowTheirPermits,
           NEW w \in Workers, NEW p \in IssuedPermits, BeginCall(w, p)
    PROVE  CallsFollowTheirPermits'
<1>1. p.step \in Step /\ p = permits[p.step] /\ Authorized(p.step)
  BY IssuedPermitsAreStored
<1>2. /\ calls'[p.step] = [state |-> "IN_FLIGHT", claim |-> w, permit |-> p,
                           response |-> None, material |-> "AVAILABLE"]
      /\ \A t \in Step \ {p.step} : calls'[t] = calls[t]
      /\ UNCHANGED <<recons, claims, currentEpoch, permits>>
  BY <1>1 DEF BeginCall, LedgerTypeOK, coordinatorVars, atomicVars
<1>3. claims[w].epoch = currentEpoch
  <2>1. AssertCurrentWorker(w, FALSE)
    BY DEF BeginCall, BeginCallAllowed
  <2> QED BY <2>1, EpochsAreBounded DEF AtomicInv
<1>4. claims[p.claim].epoch \in Nat /\ claims[p.claim].epoch <= currentEpoch /\ currentEpoch \in Nat
  <2>1. p.claim \in Workers
    BY IssuedPermitsAreStored DEF Permit
  <2> QED BY <2>1, EpochsAreBounded DEF AtomicInv
<1>5. ~Started(p.step) /\ recons[p.step] = None
  BY <1>1 DEF BeginCall, BeginCallAllowed, CallsFollowTheirPermits, Started
<1>6. ASSUME NEW s \in Step, Started(s)'
      PROVE  /\ Authorized(s)' /\ calls'[s].permit = permits'[s]
             /\ calls'[s].claim \in Workers
             /\ claims'[calls'[s].claim].epoch
                   \in claims'[permits'[s].claim].epoch .. currentEpoch'
  <2>1. CASE s = p.step
    BY <1>1, <1>2, <1>3, <1>4, <2>1 DEF Authorized
  <2>2. CASE s # p.step
    BY <1>2, <1>6, <2>2 DEF CallsFollowTheirPermits, Started, Authorized
  <2> QED BY <2>1, <2>2
<1>7. ASSUME NEW s \in Step, recons'[s] # None
      PROVE  /\ calls'[s].state = "COMPLETED"
             /\ claims'[recons'[s]].epoch \in claims'[calls'[s].claim].epoch .. currentEpoch'
  BY <1>2, <1>5, <1>7 DEF CallsFollowTheirPermits
<1> QED BY <1>6, <1>7 DEF CallsFollowTheirPermits

LEMMA CallsFollowReconciliation ==
    ASSUME AtomicInv, LedgerTypeOK, CallsFollowTheirPermits,
           NEW w \in Workers, NEW s \in Step,
           calls[s].state = "COMPLETED", RecordReconciliation(w, s)
    PROVE  CallsFollowTheirPermits'
<1>1. /\ \A t \in Step : recons'[t] = recons[t] \/ (t = s /\ recons'[t] = w)
      /\ UNCHANGED <<calls, claims, currentEpoch, permits>>
  BY DEF RecordReconciliation, LedgerTypeOK, coordinatorVars, atomicVars
<1>2. claims[w].epoch = currentEpoch /\ currentEpoch \in Nat
  <2>1. AssertCurrentWorker(w, FALSE)
    BY DEF RecordReconciliation
  <2> QED BY <2>1, EpochsAreBounded DEF AtomicInv
<1>3. claims[calls[s].claim].epoch \in Nat /\ claims[calls[s].claim].epoch <= currentEpoch
  <2>1. calls[s].claim \in Workers
    BY DEF CallsFollowTheirPermits, Started
  <2> QED BY <2>1, EpochsAreBounded DEF AtomicInv
<1>4. ASSUME NEW t \in Step, recons'[t] # None
      PROVE  /\ calls'[t].state = "COMPLETED"
             /\ claims'[recons'[t]].epoch \in claims'[calls'[t].claim].epoch .. currentEpoch'
  BY <1>1, <1>2, <1>3, <1>4 DEF CallsFollowTheirPermits
<1> QED BY <1>1, <1>4 DEF CallsFollowTheirPermits, Started, Authorized

LEMMA CallsFollowStep ==
    ASSUME AtomicInv, AtomicInv', LedgerTypeOK, CallsFollowTheirPermits, [LedgerNext]_storeVars
    PROVE  CallsFollowTheirPermits'
<1>1. ASSUME NEW w \in Workers, NEW p \in IssuedPermits, NEW r \in Responses,
             CompleteCall(w, p, r)
      PROVE  CallsFollowTheirPermits'
  BY <1>1, SettlingSteps, CallsFollowSettling DEF CompleteCall
<1>2. ASSUME NEW w \in Workers, NEW p \in IssuedPermits, MarkUncertain(w, p)
      PROVE  CallsFollowTheirPermits'
  BY <1>2, SettlingSteps, CallsFollowSettling DEF MarkUncertain
<1>3. ASSUME NEW w \in Workers, MarkRestartInFlightUncertain(w)
      PROVE  CallsFollowTheirPermits'
  BY <1>3, SettlingSteps, CallsFollowSettling DEF MarkRestartInFlightUncertain
<1>4. ASSUME NEW w \in Workers, Purge(w)
      PROVE  CallsFollowTheirPermits'
  BY <1>4, SettlingSteps, CallsFollowSettling DEF Purge
<1> QED BY <1>1, <1>2, <1>3, <1>4, CallsFollowBegin, CallsFollowReconciliation,
           CallsFollowAtomic, LedgerCases

-----------------------------------------------------------------------------
(* Response ids.                                                           *)
LEMMA ResponsesStep ==
    ASSUME AtomicInv, LedgerTypeOK, ResponsesAreUsedOnce, [LedgerNext]_storeVars
    PROVE  ResponsesAreUsedOnce'
<1>0. \A s \in Step : calls[s] \in Call
  BY DEF LedgerTypeOK
<1>1. ASSUME NEW w \in Workers, NEW p \in IssuedPermits, BeginCall(w, p)
      PROVE  ResponsesAreUsedOnce'
  <2>1. p.step \in Step
    BY IssuedPermitsAreStored
  <2>2. calls'[p.step].state = "IN_FLIGHT" /\ \A t \in Step \ {p.step} : calls'[t] = calls[t]
    BY <1>1, <2>1 DEF BeginCall, LedgerTypeOK
  <2> QED BY <2>1, <2>2 DEF ResponsesAreUsedOnce
<1>2. ASSUME NEW w \in Workers, NEW p \in IssuedPermits, NEW r \in Responses,
             CompleteCall(w, p, r)
      PROVE  ResponsesAreUsedOnce'
  <2>1. p.step \in Step
    BY IssuedPermitsAreStored
  <2>2. calls'[p.step].response = r /\ \A t \in Step \ {p.step} : calls'[t] = calls[t]
    BY <1>0, <1>2, <2>1 DEF CompleteCall, LedgerTypeOK, Call
  <2>3. \A t \in Step : calls[t].state = "COMPLETED" => calls[t].response # r
    BY <1>2 DEF CompleteCall, CompleteCallAllowed, ResponseUsed
  <2> QED BY <2>1, <2>2, <2>3 DEF ResponsesAreUsedOnce
<1>3. ASSUME \A s \in Step : /\ calls'[s].response = calls[s].response
                             /\ calls'[s].state = "COMPLETED" => calls[s].state = "COMPLETED"
      PROVE  ResponsesAreUsedOnce'
  BY <1>3 DEF ResponsesAreUsedOnce
<1>4. ASSUME NEW w \in Workers, NEW p \in IssuedPermits, MarkUncertain(w, p)
      PROVE  ResponsesAreUsedOnce'
  BY <1>0, <1>3, <1>4, IssuedPermitsAreStored DEF MarkUncertain, LedgerTypeOK, Call
<1>5. ASSUME NEW w \in Workers, MarkRestartInFlightUncertain(w)
      PROVE  ResponsesAreUsedOnce'
  BY <1>0, <1>3, <1>5 DEF MarkRestartInFlightUncertain, LedgerTypeOK, Call
<1>6. ASSUME NEW w \in Workers, Purge(w)
      PROVE  ResponsesAreUsedOnce'
  BY <1>0, <1>3, <1>6 DEF Purge, LedgerTypeOK, Call
<1>7. CASE calls' = calls
  BY <1>3, <1>7
<1> QED BY <1>1, <1>2, <1>4, <1>5, <1>6, <1>7, LedgerCases DEF RecordReconciliation, ledgerVars

-----------------------------------------------------------------------------
LEMMA LedgerInvInit == CoordinatorInit /\ AtomicInit /\ LedgerInit => LedgerInv
<1> SUFFICES ASSUME CoordinatorInit, AtomicInit, LedgerInit
             PROVE  LedgerInv
  OBVIOUS
<1>1. AtomicInv /\ LedgerTypeOK
  BY AtomicInvInit, LedgerTypeInit
<1>2. CallsFollowTheirPermits /\ ResponsesAreUsedOnce
  BY DEF LedgerInit, NoCall, CallsFollowTheirPermits, ResponsesAreUsedOnce, Started
<1> QED BY <1>1, <1>2 DEF LedgerInv

LEMMA LedgerInvStep == LedgerInv /\ [LedgerNext]_storeVars => LedgerInv'
<1> SUFFICES ASSUME LedgerInv, [LedgerNext]_storeVars
             PROVE  LedgerInv'
  OBVIOUS
<1>1. AtomicInv /\ AtomicInv' /\ LedgerTypeOK
  BY LedgerStepsAreAtomicSteps, AtomicInvStep DEF LedgerInv
<1>2. LedgerTypeOK' /\ CallsFollowTheirPermits' /\ ResponsesAreUsedOnce'
  BY <1>1, LedgerTypeStep, CallsFollowStep, ResponsesStep DEF LedgerInv
<1> QED BY <1>1, <1>2 DEF LedgerInv

(* begin_call, complete_call, mark_uncertain, the reconciliation and the   *)
(* purge keep all tables consistent, whichever process calls them.         *)
THEOREM LedgerCorrect == LedgerSpec => []LedgerInv
<1>1. CoordinatorInit /\ AtomicInit /\ LedgerInit => LedgerInv
  BY LedgerInvInit
<1>2. LedgerInv /\ [LedgerNext]_storeVars => LedgerInv'
  BY LedgerInvStep
<1> QED BY <1>1, <1>2, PTL DEF LedgerSpec, AllStoresInit, StoresInit

(* The provider ledger uses the action ledger as it is specified.          *)
THEOREM LedgerImplementsActions == LedgerSpec => AtomicSpec
BY LedgerStepsAreAtomicSteps, PTL DEF LedgerSpec, AllStoresInit, AtomicSpec, allAtomicVars

(* The provider tables keep their types.                                   *)
THEOREM LedgerTypeCorrect == LedgerSpec => []LedgerTypeOK
<1>1. LedgerInv => LedgerTypeOK
  BY DEF LedgerInv
<1> QED BY <1>1, LedgerCorrect, PTL

(* Calls and reconciliations follow their permits in the order of epochs.  *)
THEOREM CallsAlwaysFollowTheirPermits == LedgerSpec => []CallsFollowTheirPermits
<1>1. LedgerInv => CallsFollowTheirPermits
  BY DEF LedgerInv
<1> QED BY <1>1, LedgerCorrect, PTL

(* complete_call admits each provider response id once.                    *)
THEOREM ResponsesAreAlwaysUsedOnce == LedgerSpec => []ResponsesAreUsedOnce
<1>1. LedgerInv => ResponsesAreUsedOnce
  BY DEF LedgerInv
<1> QED BY <1>1, LedgerCorrect, PTL

(* A call is begun once and settled once: what the at-most-once argument   *)
(* of the review loop rests on.                                            *)
THEOREM CallsAlwaysSettleOnce == LedgerSpec => CallsSettleOnce
<1> DEFINE Settles ==
      \A s \in Step :
          /\ Started(s) => calls'[s].permit = calls[s].permit
          /\ calls[s].state = "UNCERTAIN" => calls'[s] = calls[s]
          /\ calls[s].state = "COMPLETED" =>
                calls'[s].state = "COMPLETED" /\ calls'[s].response = calls[s].response
          /\ calls[s].state = "IN_FLIGHT" => calls'[s].state # "NONE"
<1>1. LedgerInv /\ [LedgerNext]_storeVars => [Settles]_storeVars
  <2> SUFFICES ASSUME LedgerInv, [LedgerNext]_storeVars
               PROVE  [Settles]_storeVars
    OBVIOUS
  <2>0. AtomicInv /\ LedgerTypeOK /\ \A s \in Step : calls[s] \in Call
    BY DEF LedgerInv, LedgerTypeOK
  <2>1. ASSUME NEW w \in Workers, NEW p \in IssuedPermits, BeginCall(w, p)
        PROVE  Settles
    <3>1. p.step \in Step
      BY <2>0, IssuedPermitsAreStored
    <3> QED BY <2>0, <2>1, <3>1 DEF BeginCall, BeginCallAllowed, Started, LedgerTypeOK
  <2>2. ASSUME NEW w \in Workers, NEW p \in IssuedPermits, NEW r \in Responses,
               CompleteCall(w, p, r)
        PROVE  Settles
    <3>1. p.step \in Step
      BY <2>0, IssuedPermitsAreStored
    <3> QED BY <2>0, <2>2, <3>1
         DEF CompleteCall, CompleteCallAllowed, InFlightFor, LedgerTypeOK, Call
  <2>3. ASSUME NEW w \in Workers, NEW p \in IssuedPermits, MarkUncertain(w, p)
        PROVE  Settles
    <3>1. p.step \in Step
      BY <2>0, IssuedPermitsAreStored
    <3> QED BY <2>0, <2>3, <3>1
         DEF MarkUncertain, MarkUncertainAllowed, InFlightFor, LedgerTypeOK, Call
  <2>4. ASSUME NEW w \in Workers, MarkRestartInFlightUncertain(w)
        PROVE  Settles
    BY <2>0, <2>4 DEF MarkRestartInFlightUncertain, LedgerTypeOK, Call
  <2>5. ASSUME NEW w \in Workers, Purge(w)
        PROVE  Settles
    BY <2>0, <2>5 DEF Purge, PurgeAllowed, Started, LedgerTypeOK, Call
  <2>6. CASE calls' = calls
    BY <2>6
  <2> QED BY <2>1, <2>2, <2>3, <2>4, <2>5, <2>6, LedgerCases DEF RecordReconciliation, ledgerVars
<1> QED BY <1>1, LedgerCorrect, PTL DEF LedgerSpec, CallsSettleOnce

(* Publication closes the provider tables to everything but the purge.     *)
THEOREM PublishedCallsAreOnlyPurged == LedgerSpec => PublishedCallsOnlyPurged
<1> DEFINE Closed ==
      Published => /\ recons' = recons
                   /\ \A s \in Step : calls'[s] \in
                         {calls[s], [calls[s] EXCEPT !.material = "PURGED"]}
<1>1. [LedgerNext]_storeVars => [Closed]_storeVars
  <2> SUFFICES ASSUME [LedgerNext]_storeVars
               PROVE  [Closed]_storeVars
    OBVIOUS
  <2>1. ASSUME NEW w \in Workers, AssertCurrentWorker(w, FALSE)
        PROVE  Closed
    BY <2>1 DEF AssertCurrentWorker
  <2>2. ASSUME NEW w \in Workers, Purge(w)
        PROVE  Closed
    BY <2>2 DEF Purge
  <2>3. CASE UNCHANGED ledgerVars
    BY <2>3 DEF ledgerVars
  <2> QED BY <2>1, <2>2, <2>3, LedgerCases
       DEF BeginCall, BeginCallAllowed, CompleteCall, CompleteCallAllowed, MarkUncertain,
           MarkUncertainAllowed, MarkRestartInFlightUncertain, RecordReconciliation
<1> QED BY <1>1, PTL DEF LedgerSpec, PublishedCallsOnlyPurged
=============================================================================

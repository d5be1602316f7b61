------------------------ MODULE RecoveryExecution_proofs ------------------------
(***************************************************************************)
(* Proofs about the execution of a recovery attempt, for any number of     *)
(* processes and review steps.  Every step of the execution is a step of   *)
(* the three stores or leaves them alone, so what is proved of the stores  *)
(* holds of it.  The inductive invariant adds what the local variables of  *)
(* a process, stale or not, have to do with the tables.                    *)
(***************************************************************************)
EXTENDS RecoveryExecution, Stores_proofs, SequenceTheorems, FiniteSetTheorems,
        WellFoundedInduction

Epochs(s) == claims[commits[s].claim].epoch

HoldsPermit == {"begin", "call", "awaiting", "uncertain", "complete", "commit",
                "replay", "reconcile", "markRestart"}
InStep == HoldsPermit \cup {"readCommit", "readState", "replayCommitted", "authorize"}
AfterLoop == {"finalize", "chain", "publish", "purge", "done"}
OwnsCall == {"call", "awaiting", "uncertain", "complete"}
Stopped == {"idle", "start", "failed", "dead"}

(* What a process has read is what the tables hold: rows never change once *)
(* they are there, and receipts are gathered from the commits of all steps *)
(* before the process's own.                                               *)
LocalsAreStored(w) ==
    /\ At(w, "idle") <=> ~Claimed(w)
    /\ At(w, "idle") \/ At(w, "start") => ~proc[w].resume
    /\ proc[w].pc \notin Stopped => begun
    /\ proc[w].permit # None => proc[w].step \in Step /\ proc[w].permit = permits[proc[w].step]
    /\ proc[w].commit # None => proc[w].step \in Step /\ proc[w].commit = commits[proc[w].step]
    /\ proc[w].pc \in HoldsPermit => proc[w].permit # None
    /\ At(w, "replayCommitted") => proc[w].commit # None
    /\ proc[w].pc \in InStep => proc[w].step \in Step
    /\ proc[w].pc \in AfterLoop => proc[w].step = StepCount
    /\ Len(proc[w].receipts) = proc[w].step
    /\ \A i \in 1 .. proc[w].step :
          Committed(i - 1) /\ commits[i - 1].completion = proc[w].receipts[i]

Answered(s) == calls[s].state = "COMPLETED"
AnswerTo(s) == [step |-> s, response |-> calls[s].response]

(* A call belongs to the process that began it: until that process has the *)
(* answer recorded, nobody completes the call or commits the step.         *)
CallsAreOwned(w) ==
    LET s == proc[w].step
    IN  /\ proc[w].pc \in OwnsCall =>
              /\ calls[s].claim = w
              /\ calls[s].state \in {"IN_FLIGHT", "UNCERTAIN"}
              /\ ~Committed(s)
        /\ At(w, "call") => created[s] = 0
        /\ proc[w].pc \in {"awaiting", "complete"} => created[s] = 1
        /\ At(w, "complete") => proc[w].response \in Responses
        /\ At(w, "commit") =>
              /\ proc[w].completion \in Completion
              /\ Started(s)
              /\ Answered(s) => proc[w].completion = AnswerTo(s)
              /\ ~Answered(s) => EmptyReplies /\ calls[s].claim = w
        /\ proc[w].pc \in {"replay", "reconcile", "replayCommitted"} => Answered(s)
        /\ At(w, "reconcile") => proc[w].completion = AnswerTo(s)
        /\ proc[w].pc \in AfterLoop => StepCount \notin oversized
        /\ proc[w].pc \in {"publish", "purge"} => CallsComplete
        /\ At(w, "purge") => Published

(* What the rows of calls and commits have to do with each other and with  *)
(* the provider.                                                           *)
RowsAgree ==
    /\ begun => currentEpoch > 0
    /\ \A s \in Step :
          /\ created[s] \in {0, 1}
          /\ ~Started(s) => created[s] = 0
          /\ Started(s) => s \notin oversized /\ calls[s].material # "NONE"
          /\ Answered(s) => calls[s].response \in Responses /\ created[s] = 1
          /\ Started(s) /\ ~Answered(s) => calls[s].response = None
          /\ calls[s].material = "PURGED" => Published
    /\ Published => CallsComplete /\ nextStep = StepCount /\ oversized = {}

CommitsFollowCalls ==
    \A s \in Step :
        /\ Committed(s) =>
              /\ Started(s)
              /\ Answered(s) => commits[s].completion = AnswerTo(s)
              /\ ~Answered(s) => EmptyReplies
              /\ claims[calls[s].claim].epoch <= Epochs(s)
              /\ recons[s] # None => claims[recons[s]].epoch <= Epochs(s)
        /\ Authorized(s) =>
              \A t \in 0 .. s - 1 : Epochs(t) <= claims[permits[s].claim].epoch

(* The reason a process that resumed may fail for, while it is current.    *)
Blocked ==
    \/ Classification = "FAIL_CLOSED_UNCERTAIN_PROVIDER_CALL"
    \/ \E s \in Step : Unanswered(s)
    \/ StuckOverBudget

(* The process that is current is alone: what it has read, or found        *)
(* missing, is still so.                                                   *)
CurrentIsAlone(w) ==
    currentClaim = w =>
        LET s == proc[w].step
        IN  /\ proc[w].pc \in HoldsPermit => ~Committed(s)
            /\ At(w, "readState") /\ proc[w].commit = None => ~Committed(s)
            /\ /\ proc[w].pc \in {"readCommit", "readState"}
               /\ proc[w].permit = None
               => ~Authorized(s)
            /\ At(w, "authorize") /\ proc[w].resume => ~Authorized(s)
            /\ At(w, "begin") => ~Started(s)
            /\ At(w, "markRestart") => calls[s].state = "IN_FLIGHT"
            /\ Published => proc[w].pc \in {"purge", "done", "dead"}
            /\ At(w, "failed") /\ proc[w].resume => Blocked

RecoveryInv ==
    /\ LedgerInv
    /\ ProcessTypeOK
    /\ RowsAgree
    /\ CommitsFollowCalls
    /\ \A w \in Workers : LocalsAreStored(w) /\ CallsAreOwned(w) /\ CurrentIsAlone(w)

-----------------------------------------------------------------------------
(***************************************************************************)
(* The execution uses the stores as they are specified.                    *)
(***************************************************************************)
(* A process that holds a permit holds the stored permit of its step.      *)
LEMMA HeldPermitIsStored ==
    ASSUME LedgerInv, NEW w \in Workers, LocalsAreStored(w), proc[w].pc \in HoldsPermit
    PROVE  /\ proc[w].step \in Step
           /\ proc[w].permit = permits[proc[w].step]
           /\ proc[w].permit \in IssuedPermits
           /\ proc[w].permit.step = proc[w].step
           /\ Authorized(proc[w].step)
<1>1. /\ proc[w].step \in Step
      /\ proc[w].permit = permits[proc[w].step]
      /\ proc[w].permit # None
  BY DEF LocalsAreStored
<1>2. Authorized(proc[w].step) /\ proc[w].permit \in IssuedPermits
  BY <1>1 DEF Authorized, IssuedPermits
<1>3. proc[w].permit.step = proc[w].step
  BY <1>1, <1>2 DEF LedgerInv, AtomicInv, StateChainUnbroken
<1> QED BY <1>1, <1>2, <1>3

(* A completed call is replayed as the answer to its own step.             *)
LEMMA ReplayIsTheAnswer ==
    ASSUME LedgerInv, RowsAgree, NEW s \in Step, Answered(s)
    PROVE  ReplayedCompletion(s) = AnswerTo(s) /\ AnswerTo(s) \in Completion
<1>1. calls[s].permit = permits[s] /\ Authorized(s)
  BY DEF LedgerInv, CallsFollowTheirPermits, Started, Answered
<1>2. permits[s].step = s
  BY <1>1 DEF LedgerInv, AtomicInv, StateChainUnbroken
<1>3. calls[s].response \in Responses
  BY DEF RowsAgree
<1> QED BY <1>1, <1>2, <1>3 DEF ReplayedCompletion, AnswerTo, Completion

(* Every step of a process is a step of the stores, or leaves them alone.  *)
StepOf(w) == ClaimAttempt(w) \/ DriverStep(w) \/ LoopStep(w) \/ Crash(w)

LEMMA NextIsAStep == [Next]_vars => (\E w \in Workers : StepOf(w)) \/ UNCHANGED vars
BY DEF Next, StepOf

LEMMA DriverUsesStores ==
    ASSUME RecoveryInv, NEW w \in Workers, DriverStep(w)
    PROVE  [LedgerNext]_storeVars
<1> USE DEF LedgerNext, LedgerStep, AtomicNext, AtomicStep, CoordinatorNext, CoordinatorStep
<1>1. CASE StartAttempt(w)
  BY <1>1 DEF StartAttempt, OnActions
<1>2. CASE StartUnresumed(w) \/ StartResumed(w) \/ FinishCalls(w)
  BY <1>2 DEF StartUnresumed, StartResumed, FinishCalls, Reading
<1>3. CASE MarkInFlight(w)
  BY <1>3 DEF MarkInFlight
<1>4. CASE FinishActions(w)
  BY <1>4 DEF FinishActions, OnActions
<1>5. CASE ReserveInstant(w)
  BY <1>5 DEF ReserveInstant, OnCoordinator
<1>6. CASE PublishRerun(w)
  BY <1>6 DEF PublishRerun, OnCoordinator
<1>7. CASE PurgeReplay(w)
  BY <1>7 DEF PurgeReplay
<1> QED BY <1>1, <1>2, <1>3, <1>4, <1>5, <1>6, <1>7 DEF DriverStep

LEMMA LoopUsesStores ==
    ASSUME RecoveryInv, NEW w \in Workers, LoopStep(w)
    PROVE  [LedgerNext]_storeVars
<1> USE DEF LedgerNext, LedgerStep
<1>0. LedgerInv /\ ProcessTypeOK /\ LocalsAreStored(w) /\ CallsAreOwned(w)
  BY DEF RecoveryInv
<1>1. CASE Reading
  BY <1>1 DEF Reading
<1>2. CASE Reconcile(w)
  <2>1. At(w, "reconcile") /\ proc[w].step \in Step /\ Answered(proc[w].step)
    BY <1>0, <1>2, HeldPermitIsStored DEF Reconcile, At, HoldsPermit, CallsAreOwned
  <2> QED BY <1>2, <2>1 DEF Reconcile, Answered
<1>3. CASE MarkRestart(w)
  BY <1>0, <1>3, HeldPermitIsStored DEF MarkRestart, At, HoldsPermit
<1>4. CASE ObtainPermit(w)
  <2>1. proc[w].step \in Step
    BY <1>0, <1>4 DEF ObtainPermit, At, InStep, LocalsAreStored
  <2> QED BY <1>4, <2>1 DEF ObtainPermit, OnActions, AtomicNext, AtomicStep
<1>5. CASE RecordCall(w)
  BY <1>0, <1>5, HeldPermitIsStored DEF RecordCall, At, HoldsPermit
<1>6. CASE SendCall(w)
  BY <1>6 DEF SendCall
<1>7. CASE RecordUncertainty(w)
  BY <1>0, <1>7, HeldPermitIsStored DEF RecordUncertainty, At, HoldsPermit
<1>8. CASE RecordCompletion(w)
  <2>1. proc[w].permit \in IssuedPermits /\ proc[w].response \in Responses
    BY <1>0, <1>8, HeldPermitIsStored DEF RecordCompletion, At, HoldsPermit, CallsAreOwned
  <2> QED BY <1>8, <2>1 DEF RecordCompletion
<1>9. CASE CommitStep(w)
  <2>1. proc[w].permit \in IssuedPermits /\ proc[w].completion \in Completion
    BY <1>0, <1>9, HeldPermitIsStored DEF CommitStep, At, HoldsPermit, CallsAreOwned
  <2> QED BY <1>9, <2>1 DEF CommitStep, OnActions, AtomicNext, AtomicStep
<1> QED BY <1>1, <1>2, <1>3, <1>4, <1>5, <1>6, <1>7, <1>8, <1>9
     DEF LoopStep, LoadPermit, LoadCommit, LoadProviderState, ReplayCommitted, ReplayAuthorized,
         RefuseInput, RefuseCall, ReceiveReply, ReceiveEmptyReply, LoseReply, BuildBundle

LEMMA ProcessesUseStores ==
    ASSUME RecoveryInv, NEW w \in Workers, StepOf(w)
    PROVE  [LedgerNext]_storeVars
<1>1. CASE ClaimAttempt(w)
  BY <1>1 DEF ClaimAttempt, OnCoordinator, LedgerNext, AtomicNext, CoordinatorNext, CoordinatorStep
<1>2. CASE Crash(w)
  BY <1>2 DEF Crash, Reading
<1> QED BY <1>1, <1>2, DriverUsesStores, LoopUsesStores DEF StepOf


-----------------------------------------------------------------------------
(***************************************************************************)
(* What a step of one process leaves to the others.                        *)
(***************************************************************************)
(* Rows are added and settled, never taken back.                           *)
RowsStay ==
    /\ begun => begun'
    /\ Published => publication' = publication
    /\ \A v \in Workers : Claimed(v) => claims'[v] = claims[v]
    /\ \A s \in Step :
          /\ Authorized(s) => permits'[s] = permits[s]
          /\ Committed(s) => commits'[s] = commits[s]
          /\ Started(s) => Started(s)' /\ calls'[s].claim = calls[s].claim
          /\ Answered(s) => Answered(s)' /\ calls'[s].response = calls[s].response
          /\ calls[s].state = "UNCERTAIN" => calls'[s].state = "UNCERTAIN"

LEMMA StoresKeepRows ==
    ASSUME LedgerInv, [LedgerNext]_storeVars
    PROVE  RowsStay
<1>0. AtomicInv /\ LedgerTypeOK /\ AtomicTypeOK /\ CoordinatorInv
  BY DEF LedgerInv, AtomicInv
<1>1. [AtomicNext]_allAtomicVars /\ [CoordinatorNext]_coordinatorVars
  BY LedgerStepsAreAtomicSteps, AtomicStepsAreCoordinatorSteps
<1>2. \A v \in Workers : Claimed(v) => claims'[v] = claims[v]
  BY <1>0, <1>1, EpochsGrow
<1>3. Published => publication' = publication
  BY <1>1 DEF CoordinatorNext, CoordinatorStep, coordinatorVars, ClaimWorker, ClaimAllowed,
              ReservePublicationTime, Publish, PublishAllowed, AssertCurrentWorker, Republish
<1>4. /\ begun => begun'
      /\ \A s \in Step : /\ Authorized(s) => permits'[s] = permits[s]
                         /\ Committed(s) => commits'[s] = commits[s]
  <2>1. ASSUME NEW w \in Workers, NEW s \in Step, Authorize(w, s)
        PROVE  /\ begun' = begun /\ commits' = commits
               /\ \A t \in Step : Authorized(t) => permits'[t] = permits[t]
    BY <1>0, <2>1 DEF Authorize, AuthorizeAllowed, AtomicTypeOK
  <2>2. ASSUME NEW w \in Workers, NEW p \in IssuedPermits, NEW c \in Completion,
               CommitAction(w, p, c)
        PROVE  /\ begun' = begun /\ permits' = permits
               /\ \A t \in Step : Committed(t) => commits'[t] = commits[t]
    BY <1>0, <2>2 DEF CommitAction, CommitAllowed, AtomicTypeOK
  <2>3. ASSUME NEW w \in Workers, BeginAttempt(w) \/ FinalizeAtomic(w)
        PROVE  (begun => begun') /\ permits' = permits /\ commits' = commits
    BY <2>3 DEF BeginAttempt, FinalizeAtomic
  <2>4. CASE UNCHANGED atomicVars
    BY <2>4 DEF atomicVars
  <2>5. CASE \E w \in Workers, s \in Step : Authorize(w, s)
    BY <2>1, <2>5
  <2>6. CASE \E w \in Workers, p \in IssuedPermits, c \in Completion : CommitAction(w, p, c)
    BY <2>2, <2>6
  <2> QED BY <1>1, <2>3, <2>4, <2>5, <2>6, AtomicCases
<1>5. \A s \in Step :
         /\ Started(s) => Started(s)' /\ calls'[s].claim = calls[s].claim
         /\ Answered(s) => Answered(s)' /\ calls'[s].response = calls[s].response
         /\ calls[s].state = "UNCERTAIN" => calls'[s].state = "UNCERTAIN"
  <2> USE DEF Started, Answered
  <2>0. \A s \in Step : calls[s] \in Call
    BY <1>0 DEF LedgerTypeOK
  <2> DEFINE CallsStay ==
        \A s \in Step :
           /\ Started(s) => Started(s)' /\ calls'[s].claim = calls[s].claim
           /\ Answered(s) => Answered(s)' /\ calls'[s].response = calls[s].response
           /\ calls[s].state = "UNCERTAIN" => calls'[s].state = "UNCERTAIN"
  <2>1. ASSUME NEW w \in Workers, NEW p \in IssuedPermits, BeginCall(w, p)
        PROVE  CallsStay
    BY <1>0, <2>1 DEF BeginCall, BeginCallAllowed, LedgerTypeOK
  <2>2. ASSUME NEW w \in Workers, NEW p \in IssuedPermits, NEW r \in Responses,
               CompleteCall(w, p, r)
        PROVE  CallsStay
    BY <1>0, <2>0, <2>2 DEF CompleteCall, CompleteCallAllowed, InFlightFor, LedgerTypeOK, Call
  <2>3. ASSUME NEW w \in Workers, NEW p \in IssuedPermits, MarkUncertain(w, p)
        PROVE  CallsStay
    BY <1>0, <2>0, <2>3 DEF MarkUncertain, MarkUncertainAllowed, InFlightFor, LedgerTypeOK, Call
  <2>4. ASSUME NEW w \in Workers, MarkRestartInFlightUncertain(w)
        PROVE  CallsStay
    BY <1>0, <2>0, <2>4 DEF MarkRestartInFlightUncertain, LedgerTypeOK, Call
  <2>5. ASSUME NEW w \in Workers, Purge(w)
        PROVE  CallsStay
    BY <1>0, <2>0, <2>5 DEF Purge, LedgerTypeOK, Call
  <2>6. CASE calls' = calls
    BY <2>6
  <2> QED BY <2>1, <2>2, <2>3, <2>4, <2>5, <2>6, LedgerCases DEF RecordReconciliation, ledgerVars
<1> QED BY <1>2, <1>3, <1>4, <1>5 DEF RowsStay

(* A process writes no other process's locals and claims for itself; if it *)
(* is not the current one afterwards it has not written to the tables, but *)
(* for its copy of the seal.                                               *)
OneProcessWrites(w) ==
    /\ \A v \in Workers \ {w} : proc'[v] = proc[v] /\ (Claimed(v)' <=> Claimed(v))
    /\ oversized' = oversized
    /\ currentClaim' # w =>
          UNCHANGED <<currentEpoch, currentClaim, claims, reservation, publication,
                      atomicVars, ledgerVars>>

LEMMA DriverWritesAlone ==
    ASSUME RecoveryInv, NEW w \in Workers, DriverStep(w)
    PROVE  OneProcessWrites(w)
<1>0. CoordinatorTypeOK /\ ProcessTypeOK /\ SealNamesTheLastWorker
  BY DEF RecoveryInv, LedgerInv, AtomicInv, CoordinatorInv
<1> USE DEF OneProcessWrites, ProcessTypeOK, Goto, Fail, Reading, Claimed,
            AssertCurrentWorker
<1>1. CASE StartAttempt(w)
  BY <1>0, <1>1 DEF StartAttempt, OnActions, BeginAttempt, BeginAllowed, coordinatorVars, storeVars
<1>2. CASE StartUnresumed(w) \/ StartResumed(w) \/ FinishCalls(w)
  BY <1>0, <1>2 DEF StartUnresumed, StartResumed, FinishCalls, storeVars, coordinatorVars
<1>3. CASE MarkInFlight(w)
  BY <1>0, <1>3 DEF MarkInFlight, OnCalls, MarkRestartInFlightUncertain, coordinatorVars, storeVars
<1>4. CASE FinishActions(w)
  BY <1>0, <1>4 DEF FinishActions, OnActions, FinalizeAtomic, FinalizeAllowed, coordinatorVars, storeVars
<1>5. CASE ReserveInstant(w)
  BY <1>0, <1>5 DEF ReserveInstant, OnCoordinator, ReservePublicationTime, ReservationAllowed,
     coordinatorVars, storeVars
<1>6. CASE PublishRerun(w)
  BY <1>0, <1>6 DEF PublishRerun, OnCoordinator, Publish, PublishAllowed, Republish,
     coordinatorVars, storeVars
<1>7. CASE PurgeReplay(w)
  BY <1>0, <1>7 DEF PurgeReplay, OnCalls, Purge, PurgeAllowed, coordinatorVars, storeVars
<1> QED BY <1>1, <1>2, <1>3, <1>4, <1>5, <1>6, <1>7 DEF DriverStep

LEMMA LoopWritesAlone ==
    ASSUME RecoveryInv, NEW w \in Workers, LoopStep(w)
    PROVE  OneProcessWrites(w)
<1>0. CoordinatorTypeOK /\ ProcessTypeOK
  BY DEF RecoveryInv, LedgerInv, AtomicInv, CoordinatorInv
<1> USE DEF OneProcessWrites, ProcessTypeOK, Goto, Fail, NextIteration, Claimed,
            AssertCurrentWorker
<1>1. CASE LoadPermit(w) \/ LoadCommit(w) \/ LoadProviderState(w) \/ RefuseInput(w)
           \/ RefuseCall(w) \/ ReceiveReply(w) \/ ReceiveEmptyReply(w) \/ LoseReply(w)
           \/ BuildBundle(w) \/ ReplayAuthorized(w) \/ ReplayCommitted(w)
  BY <1>0, <1>1 DEF LoadPermit, LoadCommit, LoadProviderState, RefuseInput, RefuseCall,
     ReceiveReply, ReceiveEmptyReply, LoseReply, BuildBundle, ReplayAuthorized, ReplayCommitted,
     Reading, storeVars, coordinatorVars
<1>2. CASE Reconcile(w)
  BY <1>0, <1>2 DEF Reconcile, OnCalls, RecordReconciliation, coordinatorVars, storeVars
<1>3. CASE MarkRestart(w) \/ RecordUncertainty(w)
  BY <1>0, <1>3 DEF MarkRestart, RecordUncertainty, OnCalls, MarkUncertain, MarkUncertainAllowed,
     coordinatorVars, storeVars
<1>4. CASE ObtainPermit(w)
  BY <1>0, <1>4 DEF ObtainPermit, OnActions, Authorize, AuthorizeAllowed, coordinatorVars, storeVars
<1>5. CASE RecordCall(w)
  BY <1>0, <1>5 DEF RecordCall, OnCalls, BeginCall, BeginCallAllowed, coordinatorVars, storeVars
<1>6. CASE SendCall(w)
  BY <1>0, <1>6 DEF SendCall, coordinatorVars, storeVars
<1>7. CASE RecordCompletion(w)
  BY <1>0, <1>7 DEF RecordCompletion, OnCalls, CompleteCall, CompleteCallAllowed,
     coordinatorVars, storeVars
<1>8. CASE CommitStep(w)
  BY <1>0, <1>8 DEF CommitStep, OnActions, CommitAction, CommitAllowed, coordinatorVars, storeVars
<1> QED BY <1>1, <1>2, <1>3, <1>4, <1>5, <1>6, <1>7, <1>8 DEF LoopStep

LEMMA ProcessesWriteAlone ==
    ASSUME RecoveryInv, NEW w \in Workers, StepOf(w)
    PROVE  OneProcessWrites(w)
<1>0. CoordinatorTypeOK /\ ProcessTypeOK
  BY DEF RecoveryInv, LedgerInv, AtomicInv, CoordinatorInv
<1>1. CASE ClaimAttempt(w)
  BY <1>0, <1>1 DEF ClaimAttempt, OnCoordinator, ClaimWorker, Goto, OneProcessWrites,
     CoordinatorTypeOK, ProcessTypeOK, Claimed
<1>2. CASE Crash(w)
  BY <1>0, <1>2 DEF Crash, Reading, OneProcessWrites, ProcessTypeOK, Claimed, storeVars,
     coordinatorVars
<1> QED BY <1>1, <1>2, DriverWritesAlone, LoopWritesAlone DEF StepOf

(* A commit, an answer or a request to the provider that is new in a step  *)
(* is that of the step's process, for its own review step.                 *)
OwnRowsOnly(w) ==
    /\ created' \in [Step -> Nat]
    /\ \A s \in Step :
          /\ Committed(s)' /\ ~Committed(s) => At(w, "commit") /\ s = proc[w].step
          /\ Answered(s)' /\ ~Answered(s) => At(w, "complete") /\ s = proc[w].step
          /\ created'[s] # created[s] =>
                At(w, "call") /\ s = proc[w].step /\ created'[s] = created[s] + 1

LEMMA ProcessesWriteTheirRows ==
    ASSUME RecoveryInv, NEW w \in Workers, StepOf(w)
    PROVE  OwnRowsOnly(w)
<1>0. /\ LedgerInv /\ AtomicTypeOK /\ LedgerTypeOK /\ ProcessTypeOK /\ LocalsAreStored(w)
      /\ \A s \in Step : calls[s] \in Call
  BY DEF RecoveryInv, LedgerInv, AtomicInv, LedgerTypeOK
<1> USE DEF OwnRowsOnly, Committed, Answered
<1>1. CASE UNCHANGED <<commits, calls, created>>
  BY <1>0, <1>1 DEF ProcessTypeOK
<1>2. CASE MarkInFlight(w) \/ PurgeReplay(w)
  <2>1. commits' = commits /\ created' = created
    BY <1>2 DEF MarkInFlight, OnCalls, MarkRestartInFlightUncertain, PurgeReplay, Purge,
       storeVars, atomicVars
  <2>2. CASE MarkRestartInFlightUncertain(w)
    BY <1>0, <2>1, <2>2 DEF MarkRestartInFlightUncertain, Call, ProcessTypeOK
  <2>3. CASE Purge(w)
    BY <1>0, <2>1, <2>3 DEF Purge, Call, ProcessTypeOK
  <2>4. CASE UNCHANGED storeVars
    BY <1>1, <2>1, <2>4 DEF storeVars, ledgerVars
  <2> QED BY <1>2, <2>2, <2>3, <2>4 DEF MarkInFlight, PurgeReplay
<1>3. CASE MarkRestart(w) \/ RecordUncertainty(w)
  <2>1. At(w, "markRestart") \/ At(w, "uncertain")
    BY <1>3 DEF MarkRestart, RecordUncertainty
  <2>2. proc[w].permit.step \in Step
    BY <1>0, <2>1, HeldPermitIsStored DEF At, HoldsPermit
  <2> QED BY <1>0, <1>3, <2>2 DEF MarkRestart, RecordUncertainty, OnCalls, MarkUncertain,
     storeVars, atomicVars, ledgerVars, LedgerTypeOK, Call, ProcessTypeOK
<1>4. CASE RecordCall(w)
  <2>1. proc[w].permit.step \in Step
    BY <1>0, <1>4, HeldPermitIsStored DEF RecordCall, At, HoldsPermit
  <2> QED BY <1>0, <1>4, <2>1 DEF RecordCall, OnCalls, BeginCall,
     storeVars, atomicVars, ledgerVars, LedgerTypeOK, Call, ProcessTypeOK
<1>5. CASE SendCall(w)
  <2>1. At(w, "call") /\ commits' = commits /\ calls' = calls
    BY <1>5 DEF SendCall, storeVars, atomicVars, ledgerVars
  <2>2. proc[w].step \in Step
    BY <1>0, <2>1 DEF At, LocalsAreStored, InStep, HoldsPermit
  <2>3. created' = [created EXCEPT ![proc[w].step] = created[proc[w].step] + 1]
    BY <1>5 DEF SendCall
  <2>4. created[proc[w].step] + 1 \in Nat
    BY <1>0, <2>2 DEF ProcessTypeOK
  <2> QED BY <1>0, <2>1, <2>2, <2>3, <2>4 DEF ProcessTypeOK
<1>6. CASE RecordCompletion(w)
  <2>1. proc[w].permit.step = proc[w].step /\ At(w, "complete")
    BY <1>0, <1>6, HeldPermitIsStored DEF RecordCompletion, At, HoldsPermit
  <2> QED BY <1>0, <1>6, <2>1 DEF RecordCompletion, OnCalls, CompleteCall,
     storeVars, atomicVars, ledgerVars, LedgerTypeOK, Call, ProcessTypeOK
<1>7. CASE CommitStep(w)
  <2>1. proc[w].permit.step = proc[w].step /\ At(w, "commit")
    BY <1>0, <1>7, HeldPermitIsStored DEF CommitStep, At, HoldsPermit
  <2> QED BY <1>0, <1>7, <2>1 DEF CommitStep, OnActions, CommitAction,
     storeVars, atomicVars, ledgerVars, AtomicTypeOK, ProcessTypeOK
<1>8. CASE ClaimAttempt(w) \/ Crash(w) \/ StartAttempt(w) \/ FinishActions(w) \/ ObtainPermit(w)
           \/ ReserveInstant(w) \/ PublishRerun(w)
  BY <1>1, <1>8 DEF ClaimAttempt, OnCoordinator, Crash, Reading, StartAttempt, OnActions,
     BeginAttempt, FinishActions, FinalizeAtomic, ObtainPermit, Authorize, ReserveInstant,
     PublishRerun, storeVars, atomicVars, ledgerVars
<1>9. CASE Reconcile(w)
  BY <1>1, <1>9 DEF Reconcile, OnCalls, RecordReconciliation, storeVars, atomicVars, ledgerVars
<1>10. CASE Reading
  BY <1>1, <1>10 DEF Reading, storeVars, atomicVars, ledgerVars
<1> QED BY <1>2, <1>3, <1>4, <1>5, <1>6, <1>7, <1>8, <1>9, <1>10
     DEF StepOf, DriverStep, LoopStep, LoadPermit, LoadCommit, LoadProviderState, ReplayCommitted,
         ReplayAuthorized, RefuseInput, RefuseCall, ReceiveReply, ReceiveEmptyReply, LoseReply,
         BuildBundle, StartUnresumed, StartResumed, FinishCalls

-----------------------------------------------------------------------------
(***************************************************************************)
(* The other processes: whatever one process does, the parts of the        *)
(* invariant about another's locals stay.                                  *)
(***************************************************************************)
(* What the steps of a process have in common.                             *)
Common(w) ==
    /\ RecoveryInv
    /\ StepOf(w)
    /\ RowsStay
    /\ OneProcessWrites(w)
    /\ OwnRowsOnly(w)
    /\ LedgerInv'

LEMMA StepsHaveInCommon ==
    ASSUME RecoveryInv, NEW w \in Workers, StepOf(w)
    PROVE  Common(w) /\ [LedgerNext]_storeVars
BY ProcessesUseStores, StoresKeepRows, ProcessesWriteAlone, ProcessesWriteTheirRows, LedgerInvStep
   DEF Common, RecoveryInv

LEMMA OthersLocalsStay ==
    ASSUME NEW w \in Workers, Common(w), NEW v \in Workers \ {w}
    PROVE  LocalsAreStored(v)'
<1>0. LocalsAreStored(v) /\ ProcessTypeOK /\ StepsAdvanceInOrder /\ proc'[v] = proc[v]
  BY DEF Common, RecoveryInv, LedgerInv, AtomicInv, OneProcessWrites
<1>1. proc[v].permit # None => /\ proc[v].permit = permits'[proc[v].step]
  BY <1>0 DEF LocalsAreStored, Common, RowsStay, Authorized
<1>2. proc[v].commit # None => proc[v].commit = commits'[proc[v].step]
  BY <1>0 DEF LocalsAreStored, Common, RowsStay, Committed
<1>3. ASSUME NEW i \in 1 .. proc[v].step
      PROVE  /\ commits'[i - 1] # None
             /\ commits'[i - 1].completion = proc[v].receipts[i]
  <2>1. i - 1 \in Step
    BY <1>0, StepCountAssumption DEF ProcessTypeOK, Process, Step
  <2> QED BY <1>0, <2>1 DEF LocalsAreStored, Common, RowsStay, Committed
<1> QED BY <1>0, <1>1, <1>2, <1>3
     DEF LocalsAreStored, Common, RowsStay, OneProcessWrites, At, Committed

LEMMA OthersCallsStay ==
    ASSUME NEW w \in Workers, Common(w), NEW v \in Workers \ {w}
    PROVE  CallsAreOwned(v)'
<1>0. /\ CallsAreOwned(v) /\ LocalsAreStored(v) /\ CallsAreOwned(w) /\ LocalsAreStored(w)
      /\ ProcessTypeOK /\ LedgerTypeOK'
      /\ proc'[v] = proc[v] /\ oversized' = oversized
  BY DEF Common, RecoveryInv, OneProcessWrites, LedgerInv
<1>s. PICK s : s = proc[v].step
  OBVIOUS
<1>1. proc[v].pc \in InStep \cup HoldsPermit => s \in Step
  BY <1>0, <1>s DEF LocalsAreStored, InStep, HoldsPermit
<1>2. ASSUME s \in Step, Started(s), calls[s].claim = v
      PROVE  /\ Answered(s)' => Answered(s)
             /\ Committed(s)' /\ ~Committed(s) => Answered(s)
             /\ created'[s] = created[s]
             /\ Started(s)' /\ calls'[s].claim = v
  <2>1. (At(w, "complete") \/ At(w, "call")) /\ proc[w].step = s => calls[s].claim = w
    BY <1>0 DEF CallsAreOwned, OwnsCall, At
  <2>2. At(w, "commit") /\ proc[w].step = s => Answered(s) \/ calls[s].claim = w
    BY <1>0 DEF CallsAreOwned, At
  <2> QED BY <1>2, <2>1, <2>2 DEF Common, OwnRowsOnly, RowsStay
<1>3. ASSUME s \in Step, Answered(s)
      PROVE  Answered(s)' /\ AnswerTo(s)' = AnswerTo(s)
  BY <1>3, <1>0 DEF Common, RowsStay, AnswerTo
<1>4. proc[v].pc \in OwnsCall => s \in Step /\ Started(s) /\ calls[s].claim = v /\ ~Answered(s)
  BY <1>0, <1>1, <1>s DEF CallsAreOwned, OwnsCall, HoldsPermit, Started, Answered
<1>5. proc[v].pc \in OwnsCall =>
         /\ calls'[s].claim = v
         /\ calls'[s].state \in {"IN_FLIGHT", "UNCERTAIN"}
         /\ ~Committed(s)'
         /\ created'[s] = created[s]
  <2>1. SUFFICES ASSUME proc[v].pc \in OwnsCall
                 PROVE  /\ calls'[s].claim = v
                        /\ calls'[s].state \in {"IN_FLIGHT", "UNCERTAIN"}
                        /\ ~Committed(s)'
                        /\ created'[s] = created[s]
    OBVIOUS
  <2>2. ~Answered(s)' /\ Started(s)' /\ calls'[s].claim = v /\ created'[s] = created[s]
        /\ (Committed(s)' => Committed(s))
    BY <1>2, <1>4, <2>1
  <2>3. calls'[s].state \in CallStates
    BY <1>0, <1>4, <2>1 DEF LedgerTypeOK, Call
  <2>4. ~Committed(s)
    BY <1>0, <1>s, <2>1 DEF CallsAreOwned
  <2> QED BY <2>2, <2>3, <2>4 DEF CallStates, Started, Answered
<1>6. At(v, "commit") =>
         /\ Started(s)'
         /\ Answered(s)' => proc[v].completion = AnswerTo(s)'
         /\ ~Answered(s)' => EmptyReplies /\ calls'[s].claim = v
  <2>1. SUFFICES ASSUME At(v, "commit")
                 PROVE  /\ Started(s)'
                        /\ Answered(s)' => proc[v].completion = AnswerTo(s)'
                        /\ ~Answered(s)' => EmptyReplies /\ calls'[s].claim = v
    OBVIOUS
  <2>2. s \in Step /\ Started(s)
    BY <1>0, <1>s, <1>1, <2>1 DEF CallsAreOwned, At, HoldsPermit
  <2>3. CASE Answered(s)
    BY <1>0, <1>s, <1>3, <2>1, <2>2, <2>3 DEF CallsAreOwned, Common, RowsStay
  <2>4. CASE ~Answered(s)
    BY <1>0, <1>s, <1>2, <2>1, <2>2, <2>4 DEF CallsAreOwned
  <2> QED BY <2>3, <2>4
<1>7. /\ proc[v].pc \in {"replay", "reconcile", "replayCommitted"} => Answered(s)'
      /\ At(v, "reconcile") => proc[v].completion = AnswerTo(s)'
  BY <1>0, <1>s, <1>1, <1>3 DEF CallsAreOwned, At, HoldsPermit, InStep
<1>8. proc[v].pc \in {"publish", "purge"} => CallsComplete'
  BY <1>0 DEF CallsAreOwned, CallsComplete, Answered, Common, RowsStay
<1>9. /\ At(v, "call") => created'[s] = 0
      /\ proc[v].pc \in {"awaiting", "complete"} => created'[s] = 1
  BY <1>0, <1>s, <1>5 DEF CallsAreOwned, OwnsCall, At
<1>10. At(v, "purge") => Published'
  BY <1>0 DEF CallsAreOwned, Common, RowsStay, Published
<1> QED BY <1>0, <1>s, <1>5, <1>6, <1>7, <1>8, <1>9, <1>10 DEF CallsAreOwned, At

LEMMA OthersStayAlone ==
    ASSUME NEW w \in Workers, Common(w), NEW v \in Workers \ {w}
    PROVE  CurrentIsAlone(v)'
<1>1. CASE currentClaim' # v
  BY <1>1 DEF CurrentIsAlone
<1>2. CASE currentClaim' = v
  <2>1. /\ UNCHANGED <<currentClaim, publication, begun, nextStep, completed, permits, commits, calls>>
        /\ oversized' = oversized /\ proc'[v] = proc[v]
    BY <1>2 DEF Common, OneProcessWrites, atomicVars, ledgerVars
  <2>2. CurrentIsAlone(v)
    BY DEF Common, RecoveryInv
  <2> QED BY <2>1, <2>2
       DEF CurrentIsAlone, At, Committed, Authorized, Started, Published, Blocked,
           Classification, Unanswered, StuckOverBudget
<1> QED BY <1>1, <1>2

-----------------------------------------------------------------------------
(***************************************************************************)
(* The local variables of the process that takes the step.                 *)
(***************************************************************************)
(* What Goto, Fail and NextIteration leave in them.                        *)
Moves(w, pc) ==
    /\ proc'[w].pc = pc
    /\ proc'[w].resume = proc[w].resume
    /\ proc'[w].step = proc[w].step
    /\ proc'[w].permit = proc[w].permit
    /\ proc'[w].commit = proc[w].commit
    /\ proc'[w].response = proc[w].response
    /\ proc'[w].completion = proc[w].completion
    /\ proc'[w].receipts = proc[w].receipts

Ends(w) ==
    /\ proc'[w].pc \in {"failed", "dead"}
    /\ proc'[w].step = 0
    /\ proc'[w].permit = None
    /\ proc'[w].commit = None
    /\ proc'[w].receipts = <<>>

Iterates(w, completion) ==
    /\ proc'[w].pc = "step"
    /\ proc'[w].resume = proc[w].resume
    /\ proc'[w].step = proc[w].step + 1
    /\ proc'[w].permit = None
    /\ proc'[w].commit = None
    /\ proc'[w].receipts = Append(proc[w].receipts, completion)

LEMMA GotoMoves ==
    ASSUME ProcessTypeOK, NEW w \in Workers, NEW pc, Goto(w, pc)
    PROVE  Moves(w, pc)
<1>1. proc'[w] = [proc[w] EXCEPT !.pc = pc]
  BY DEF ProcessTypeOK, Goto
<1>2. proc[w] \in Process
  BY DEF ProcessTypeOK
<1> QED BY <1>1, <1>2 DEF Moves, Process

LEMMA FailEnds ==
    ASSUME ProcessTypeOK, NEW w \in Workers, Fail(w)
    PROVE  Ends(w) /\ proc'[w].pc = "failed" /\ proc'[w].resume = proc[w].resume
<1>1. proc'[w] = [Fresh("failed") EXCEPT !.resume = proc[w].resume]
  BY DEF ProcessTypeOK, Fail
<1> QED BY <1>1 DEF Ends, Fresh

LEMMA CrashEnds ==
    ASSUME ProcessTypeOK, NEW w \in Workers, Crash(w)
    PROVE  Ends(w) /\ proc'[w].pc = "dead"
<1>1. proc'[w] = Fresh("dead")
  BY DEF ProcessTypeOK, Crash
<1> QED BY <1>1 DEF Ends, Fresh

LEMMA NextIterationIterates ==
    ASSUME ProcessTypeOK, NEW w \in Workers, NEW c, NextIteration(w, c)
    PROVE  Iterates(w, c)
<1>1. proc'[w] = [Fresh("step") EXCEPT
                    !.resume = proc[w].resume,
                    !.step = proc[w].step + 1,
                    !.completion = c,
                    !.receipts = Append(proc[w].receipts, c)]
  BY DEF ProcessTypeOK, NextIteration
<1> QED BY <1>1 DEF Iterates, Fresh

(* A process that has done something has a claim, and keeps it.            *)
LEMMA ActiveIsClaimed ==
    ASSUME NEW w \in Workers, Common(w), proc[w].pc # "idle"
    PROVE  Claimed(w) /\ Claimed(w)'
BY DEF Common, RecoveryInv, LocalsAreStored, At, RowsStay, Claimed

LEMMA EndedLocals ==
    ASSUME NEW w \in Workers, Common(w), proc[w].pc # "idle", Ends(w)
    PROVE  LocalsAreStored(w)' /\ CallsAreOwned(w)'
<1>1. Claimed(w)'
  BY ActiveIsClaimed
<1>2. LocalsAreStored(w)'
  BY <1>1 DEF Ends, LocalsAreStored, At, Stopped, HoldsPermit, InStep, AfterLoop
<1>3. CallsAreOwned(w)'
  BY DEF Ends, CallsAreOwned, At, OwnsCall, AfterLoop
<1> QED BY <1>2, <1>3

LEMMA MovedLocals ==
    ASSUME NEW w \in Workers, Common(w),
           proc[w].pc # "idle", proc'[w].pc # "idle",
           proc'[w].pc = "start" => ~proc'[w].resume,
           proc'[w].step = proc[w].step,
           proc'[w].receipts = proc[w].receipts,
           \/ proc'[w].permit = proc[w].permit
           \/ proc[w].step \in Step /\ proc'[w].permit = permits'[proc[w].step],
           \/ proc'[w].commit = proc[w].commit
           \/ proc[w].step \in Step /\ proc'[w].commit = commits'[proc[w].step],
           proc'[w].pc \notin Stopped => begun',
           proc'[w].pc \in HoldsPermit => proc'[w].permit # None,
           proc'[w].pc = "replayCommitted" => proc'[w].commit # None,
           proc'[w].pc \in InStep => proc[w].step \in Step,
           proc'[w].pc \in AfterLoop => proc[w].step = StepCount
    PROVE  LocalsAreStored(w)'
<1>0. LocalsAreStored(w) /\ ProcessTypeOK /\ Claimed(w)'
  BY ActiveIsClaimed DEF Common, RecoveryInv
<1>1. proc'[w].permit # None => proc[w].step \in Step /\ proc'[w].permit = permits'[proc[w].step]
  BY <1>0 DEF LocalsAreStored, Common, RowsStay, Authorized
<1>2. proc'[w].commit # None => proc[w].step \in Step /\ proc'[w].commit = commits'[proc[w].step]
  BY <1>0 DEF LocalsAreStored, Common, RowsStay, Committed
<1>3. ASSUME NEW i \in 1 .. proc[w].step
      PROVE  /\ commits'[i - 1] # None
             /\ commits'[i - 1].completion = proc[w].receipts[i]
  <2>1. i - 1 \in Step
    BY <1>0, StepCountAssumption DEF ProcessTypeOK, Process, Step
  <2> QED BY <1>0, <2>1 DEF LocalsAreStored, Common, RowsStay, Committed
<1>4. Len(proc'[w].receipts) = proc'[w].step
  BY <1>0 DEF LocalsAreStored
<1> QED BY <1>0, <1>1, <1>2, <1>3, <1>4 DEF LocalsAreStored, At, Committed

LEMMA IteratedLocals ==
    ASSUME NEW w \in Workers, Common(w), NEW c \in Completion, Iterates(w, c),
           proc[w].step \in Step, proc[w].pc \notin Stopped,
           commits'[proc[w].step] # None, commits'[proc[w].step].completion = c
    PROVE  LocalsAreStored(w)' /\ CallsAreOwned(w)'
<1>0. /\ LocalsAreStored(w) /\ ProcessTypeOK /\ Claimed(w)' /\ begun'
      /\ proc[w].step \in Nat /\ proc[w].receipts \in Seq(Completion)
  BY ActiveIsClaimed, StepIsNat
     DEF Common, RecoveryInv, Stopped, LocalsAreStored, RowsStay, ProcessTypeOK, Process
<1>1. /\ Len(proc'[w].receipts) = proc'[w].step
      /\ \A i \in 1 .. proc[w].step : proc'[w].receipts[i] = proc[w].receipts[i]
      /\ proc'[w].receipts[proc[w].step + 1] = c
  BY <1>0 DEF Iterates, LocalsAreStored
<1>2. ASSUME NEW i \in 1 .. proc'[w].step
      PROVE  commits'[i - 1] # None /\ commits'[i - 1].completion = proc'[w].receipts[i]
  <2>1. CASE i = proc[w].step + 1
    BY <1>0, <1>1, <2>1
  <2>2. CASE i # proc[w].step + 1
    <3>1. i \in 1 .. proc[w].step /\ i - 1 \in Step
      BY <1>0, <2>2, StepCountAssumption DEF Iterates, Step
    <3> QED BY <1>0, <1>1, <3>1 DEF LocalsAreStored, Common, RowsStay, Committed
  <2> QED BY <2>1, <2>2
<1>3. LocalsAreStored(w)'
  BY <1>0, <1>1, <1>2
     DEF LocalsAreStored, Iterates, At, Committed, Stopped, HoldsPermit, InStep, AfterLoop
<1>4. CallsAreOwned(w)'
  BY DEF Iterates, CallsAreOwned, At, OwnsCall, AfterLoop
<1> QED BY <1>3, <1>4

LEMMA FirstStepIsTheClaim ==
    ASSUME NEW w \in Workers, StepOf(w), proc[w].pc = "idle"
    PROVE  ClaimAttempt(w)
BY DEF StepOf, DriverStep, LoopStep, Crash, Alive, At,
       StartAttempt, StartUnresumed, StartResumed, MarkInFlight, FinishActions, FinishCalls,
       ReserveInstant, PublishRerun, PurgeReplay, LoadPermit, LoadCommit, LoadProviderState,
       ReplayCommitted, ReplayAuthorized, Reconcile, MarkRestart, ObtainPermit, RefuseInput,
       RecordCall, SendCall, RefuseCall, ReceiveReply, ReceiveEmptyReply, LoseReply,
       RecordUncertainty, RecordCompletion, CommitStep, BuildBundle

LEMMA OwnStepsOfTheStart ==
    ASSUME NEW w \in Workers, Common(w),
           ClaimAttempt(w) \/ StartAttempt(w) \/ StartUnresumed(w) \/ StartResumed(w)
           \/ MarkInFlight(w)
    PROVE  LocalsAreStored(w)' /\ CallsAreOwned(w)'
<1>0. /\ ProcessTypeOK /\ LocalsAreStored(w) /\ CoordinatorTypeOK
      /\ begun \in BOOLEAN /\ begun' \in BOOLEAN
  BY DEF Common, RecoveryInv, LedgerInv, AtomicInv, AtomicTypeOK, CoordinatorInv
<1> DEFINE Done == LocalsAreStored(w)' /\ CallsAreOwned(w)'
<1>1. CASE ClaimAttempt(w)
  <2>1. Moves(w, "start")
    BY <1>0, <1>1, GotoMoves DEF ClaimAttempt
  <2>2. Claimed(w)'
    BY <1>0, <1>1 DEF ClaimAttempt, ClaimWorker, ClaimAllowed, Claimed, CoordinatorTypeOK
  <2>3. proc[w].pc = "idle" /\ ~proc[w].resume
    BY <1>0, <1>1 DEF ClaimAttempt, At, LocalsAreStored
  <2>4. \A i \in 1 .. proc[w].step :
           Committed(i - 1)' /\ commits'[i - 1].completion = proc[w].receipts[i]
    BY <1>0, <1>1 DEF LocalsAreStored, ClaimAttempt, OnCoordinator, atomicVars, Committed
  <2>5. permits' = permits /\ commits' = commits
    BY <1>1 DEF ClaimAttempt, OnCoordinator, atomicVars
  <2>6. LocalsAreStored(w)'
    BY <1>0, <2>1, <2>2, <2>3, <2>4, <2>5
       DEF LocalsAreStored, Moves, At, Stopped, HoldsPermit, InStep, AfterLoop
  <2>7. CallsAreOwned(w)'
    BY <2>1 DEF CallsAreOwned, Moves, At, OwnsCall, AfterLoop
  <2> QED BY <2>6, <2>7
<1>2. CASE Fail(w) /\ At(w, "start")
  BY <1>0, <1>2, FailEnds, EndedLocals DEF At
<1>3. ASSUME At(w, "start"), begun', proc'[w] = [proc[w] EXCEPT !.pc = "step"]
             \/ proc'[w] = [proc[w] EXCEPT !.pc = "step", !.resume = TRUE]
      PROVE  Done
  <2>1. /\ proc'[w].pc = "step" /\ proc'[w].step = proc[w].step
        /\ proc'[w].permit = proc[w].permit /\ proc'[w].commit = proc[w].commit
        /\ proc'[w].receipts = proc[w].receipts
    BY <1>0, <1>3 DEF ProcessTypeOK, Process
  <2>2. LocalsAreStored(w)'
    BY <1>3, <2>1, MovedLocals DEF At, Stopped, HoldsPermit, InStep, AfterLoop
  <2>3. CallsAreOwned(w)'
    BY <2>1 DEF CallsAreOwned, At, OwnsCall, AfterLoop
  <2> QED BY <2>2, <2>3
<1>4. CASE StartAttempt(w)
  BY <1>0, <1>2, <1>3, <1>4 DEF StartAttempt, BeginAttempt, Goto, ProcessTypeOK
<1>5. CASE StartUnresumed(w)
  BY <1>0, <1>3, <1>5 DEF StartUnresumed, Reading, storeVars, atomicVars, Goto, ProcessTypeOK
<1>6. CASE StartResumed(w)
  BY <1>0, <1>2, <1>3, <1>6 DEF StartResumed, Reading, storeVars, atomicVars, ProcessTypeOK
<1>7. CASE MarkInFlight(w)
  <2>1. CASE Fail(w)
    BY <1>2, <1>7, <2>1 DEF MarkInFlight
  <2>2. CASE proc' = proc
    <3>1. At(w, "start") /\ ~proc[w].resume
      BY <1>0, <1>7 DEF MarkInFlight, LocalsAreStored
    <3>2. LocalsAreStored(w)'
      BY <2>2, <3>1, MovedLocals DEF At, Stopped, HoldsPermit, InStep, AfterLoop
    <3>3. CallsAreOwned(w)'
      BY <2>2, <3>1 DEF CallsAreOwned, At, OwnsCall, AfterLoop
    <3> QED BY <3>2, <3>3
  <2> QED BY <1>7, <2>1, <2>2 DEF MarkInFlight
<1> QED BY <1>1, <1>4, <1>5, <1>6, <1>7

LEMMA OwnStepsOfTheHead ==
    ASSUME NEW w \in Workers, Common(w),
           LoadPermit(w) \/ LoadCommit(w) \/ LoadProviderState(w)
           \/ ReplayCommitted(w) \/ ReplayAuthorized(w) \/ Reconcile(w) \/ MarkRestart(w)
    PROVE  LocalsAreStored(w)' /\ CallsAreOwned(w)'
<1>0. /\ ProcessTypeOK /\ LocalsAreStored(w) /\ CallsAreOwned(w) /\ LedgerInv /\ RowsAgree
      /\ CommitsFollowCalls /\ proc[w] \in Process
      /\ begun \in BOOLEAN /\ begun' \in BOOLEAN /\ (begun => begun')
  BY DEF Common, RecoveryInv, LedgerInv, AtomicInv, AtomicTypeOK, ProcessTypeOK, RowsStay
<1> DEFINE Done == LocalsAreStored(w)' /\ CallsAreOwned(w)'
<1>s. PICK s : s = proc[w].step
  OBVIOUS
<1>1. CASE Fail(w) /\ proc[w].pc # "idle"
  BY <1>0, <1>1, FailEnds, EndedLocals
<1>2. CASE LoadPermit(w)
  <2>1. /\ proc[w].step \in Step /\ At(w, "step")
        /\ UNCHANGED <<permits, commits, calls, created, oversized>>
    BY <1>0, <1>2, StepCountAssumption
       DEF LoadPermit, Process, Step, Reading, storeVars, atomicVars, ledgerVars
  <2>2. /\ proc'[w].pc \in {"readCommit", "authorize"}
        /\ proc'[w].permit = proc[w].permit \/ proc'[w].permit = permits[proc[w].step]
        /\ proc'[w].step = proc[w].step /\ proc'[w].commit = proc[w].commit
        /\ proc'[w].receipts = proc[w].receipts
    BY <1>0, <1>2 DEF LoadPermit, ProcessTypeOK, Process
  <2>3. LocalsAreStored(w)'
    BY <1>0, <2>1, <2>2, MovedLocals DEF LocalsAreStored, At, Stopped, HoldsPermit, InStep, AfterLoop
  <2>4. CallsAreOwned(w)'
    BY <2>2 DEF CallsAreOwned, At, OwnsCall, AfterLoop
  <2> QED BY <2>3, <2>4
<1>3. CASE LoadCommit(w)
  <2>1. /\ proc[w].step \in Step /\ At(w, "readCommit")
        /\ UNCHANGED <<permits, commits, calls, created, oversized>>
    BY <1>0, <1>3 DEF LoadCommit, LocalsAreStored, At, InStep, Reading, storeVars, atomicVars,
       ledgerVars
  <2>2. /\ proc'[w].pc = "readState"
        /\ proc'[w].commit = commits[proc[w].step]
        /\ proc'[w].step = proc[w].step /\ proc'[w].permit = proc[w].permit
        /\ proc'[w].receipts = proc[w].receipts
    BY <1>0, <1>3 DEF LoadCommit, ProcessTypeOK, Process
  <2>3. LocalsAreStored(w)'
    BY <1>0, <2>1, <2>2, MovedLocals DEF LocalsAreStored, At, Stopped, HoldsPermit, InStep, AfterLoop
  <2>4. CallsAreOwned(w)'
    BY <2>2 DEF CallsAreOwned, At, OwnsCall, AfterLoop
  <2> QED BY <2>3, <2>4
<1>4. CASE LoadProviderState(w)
  <2>1. /\ s \in Step /\ At(w, "readState") /\ begun
        /\ UNCHANGED <<permits, commits, calls, created, oversized>>
    BY <1>0, <1>4, <1>s DEF LoadProviderState, LocalsAreStored, At, InStep, Stopped, Reading,
       storeVars, atomicVars, ledgerVars
  <2>2. calls[s].state \in CallStates
    BY <1>0, <2>1 DEF LedgerInv, LedgerTypeOK, Call
  <2>3. CASE Fail(w)
    BY <1>1, <2>1, <2>3 DEF At
  <2>4. ASSUME NEW pc \in {"replayCommitted", "authorize", "replay", "markRestart", "begin"},
               pc = ResumePoint(proc[w].permit, proc[w].commit, calls[s].state), Goto(w, pc)
        PROVE  Done
    <3>1. Moves(w, pc)
      BY <1>0, <2>4, GotoMoves
    <3>2. /\ pc = "replayCommitted" => proc[w].commit # None
          /\ pc \in {"replay", "markRestart", "begin"} => proc[w].permit # None
          /\ pc \in {"replayCommitted", "replay"} => Answered(s)
      BY <2>2, <2>4 DEF ResumePoint, CallStates, Answered
    <3>3. LocalsAreStored(w)'
      BY <1>0, <1>s, <2>1, <3>1, <3>2, MovedLocals
         DEF Moves, At, Stopped, HoldsPermit, InStep, AfterLoop
    <3>4. CallsAreOwned(w)'
      BY <1>s, <2>1, <3>1, <3>2 DEF Moves, CallsAreOwned, At, OwnsCall, AfterLoop, Answered
    <3> QED BY <3>3, <3>4
  <2>5. ResumePoint(proc[w].permit, proc[w].commit, calls[s].state)
          \in {"replayCommitted", "authorize", "replay", "markRestart", "begin", "failed"}
    BY <2>2 DEF ResumePoint, CallStates
  <2> QED BY <1>4, <1>s, <2>3, <2>4, <2>5 DEF LoadProviderState
<1>5. CASE ReplayCommitted(w)
  <2>1. /\ s \in Step /\ At(w, "replayCommitted") /\ UNCHANGED commits
        /\ Committed(s) /\ proc[w].commit = commits[s] /\ Answered(s)
    BY <1>0, <1>5, <1>s DEF ReplayCommitted, LocalsAreStored, CallsAreOwned, At, InStep, Reading,
       storeVars, atomicVars, Committed
  <2>2. CASE Fail(w)
    BY <1>1, <2>1, <2>2 DEF At
  <2>3. CASE ReplayMatches(w) /\ NextIteration(w, ReplayedCompletion(s))
    <3>1. ReplayedCompletion(s) \in Completion
      BY <1>0, <2>1, ReplayIsTheAnswer
    <3>2. Iterates(w, ReplayedCompletion(s))
      BY <1>0, <2>3, NextIterationIterates
    <3> QED BY <1>s, <2>1, <2>3, <3>1, <3>2, IteratedLocals
         DEF ReplayMatches, At, Stopped, Committed
  <2> QED BY <1>5, <1>s, <2>2, <2>3 DEF ReplayCommitted
<1>6. CASE ReplayAuthorized(w)
  <2>1. /\ s \in Step /\ At(w, "replay") /\ Answered(s) /\ begun /\ proc[w].permit # None
        /\ UNCHANGED <<permits, commits, calls, created, oversized>>
    BY <1>0, <1>6, <1>s DEF ReplayAuthorized, LocalsAreStored, CallsAreOwned, At, InStep,
       HoldsPermit, Stopped, Reading, storeVars, atomicVars, ledgerVars
  <2>2. CASE Fail(w)
    BY <1>1, <2>1, <2>2 DEF At
  <2>3. CASE proc' = [proc EXCEPT ![w].completion = ReplayedCompletion(s), ![w].pc = "reconcile"]
    <3>1. ReplayedCompletion(s) = AnswerTo(s)
      BY <1>0, <2>1, ReplayIsTheAnswer
    <3>2. /\ proc'[w].pc = "reconcile" /\ proc'[w].completion = AnswerTo(s)
          /\ proc'[w].step = s /\ proc'[w].permit = proc[w].permit
          /\ proc'[w].commit = proc[w].commit /\ proc'[w].receipts = proc[w].receipts
      BY <1>0, <1>s, <2>3, <3>1 DEF ProcessTypeOK, Process
    <3>3. LocalsAreStored(w)'
      BY <1>0, <1>s, <2>1, <3>2, MovedLocals DEF At, Stopped, HoldsPermit, InStep, AfterLoop
    <3>4. CallsAreOwned(w)'
      BY <2>1, <3>2 DEF CallsAreOwned, At, OwnsCall, AfterLoop, Answered, AnswerTo
    <3> QED BY <3>3, <3>4
  <2> QED BY <1>6, <1>s, <2>2, <2>3 DEF ReplayAuthorized
<1>7. CASE Reconcile(w)
  <2>1. /\ s \in Step /\ At(w, "reconcile") /\ Answered(s) /\ begun /\ proc[w].permit # None
        /\ proc[w].completion = AnswerTo(s)
    BY <1>0, <1>7, <1>s DEF Reconcile, LocalsAreStored, CallsAreOwned, At, InStep, HoldsPermit, Stopped
  <2>2. CASE Fail(w)
    BY <1>1, <2>1, <2>2 DEF At
  <2>3. CASE RecordReconciliation(w, proc[w].step) /\ Goto(w, "commit")
    <3>1. Moves(w, "commit") /\ calls' = calls
      BY <1>0, <2>3, GotoMoves DEF RecordReconciliation
    <3>2. AnswerTo(s) \in Completion
      BY <1>0, <2>1, ReplayIsTheAnswer
    <3>3. LocalsAreStored(w)'
      BY <1>0, <1>s, <2>1, <3>1, MovedLocals DEF Moves, At, Stopped, HoldsPermit, InStep, AfterLoop
    <3>4. CallsAreOwned(w)'
      BY <1>s, <2>1, <3>1, <3>2
         DEF Moves, CallsAreOwned, At, OwnsCall, AfterLoop, Answered, AnswerTo, Started
    <3> QED BY <3>3, <3>4
  <2> QED BY <1>7, <2>2, <2>3 DEF Reconcile
<1>8. CASE MarkRestart(w)
  BY <1>1, <1>8 DEF MarkRestart, At
<1> QED BY <1>2, <1>3, <1>4, <1>5, <1>6, <1>7, <1>8

LEMMA OwnStepsOfTheCall ==
    ASSUME NEW w \in Workers, Common(w),
           ObtainPermit(w) \/ RefuseInput(w) \/ RecordCall(w) \/ SendCall(w) \/ RefuseCall(w)
           \/ ReceiveReply(w) \/ ReceiveEmptyReply(w) \/ LoseReply(w)
           \/ RecordUncertainty(w) \/ RecordCompletion(w) \/ CommitStep(w)
    PROVE  LocalsAreStored(w)' /\ CallsAreOwned(w)'
<1>0. /\ ProcessTypeOK /\ LocalsAreStored(w) /\ CallsAreOwned(w) /\ CurrentIsAlone(w)
      /\ LedgerInv /\ AtomicTypeOK /\ LedgerTypeOK /\ RowsAgree /\ proc[w] \in Process
      /\ begun \in BOOLEAN /\ begun' \in BOOLEAN /\ (begun => begun')
  BY DEF Common, RecoveryInv, LedgerInv, AtomicInv, AtomicTypeOK, ProcessTypeOK, RowsStay
<1> DEFINE Done == LocalsAreStored(w)' /\ CallsAreOwned(w)'
<1>s. PICK s : s = proc[w].step
  OBVIOUS
<1>1. CASE Fail(w) /\ proc[w].pc # "idle"
  BY <1>0, <1>1, FailEnds, EndedLocals
<1>2. proc[w].pc \in HoldsPermit =>
         /\ s \in Step /\ begun /\ proc[w].permit # None /\ proc[w].permit.step = s
  BY <1>0, <1>s, HeldPermitIsStored DEF LocalsAreStored, HoldsPermit, Stopped
<1>3. ASSUME NEW pc \in HoldsPermit, Moves(w, pc), proc[w].pc \in HoldsPermit
      PROVE  LocalsAreStored(w)'
  BY <1>0, <1>s, <1>2, <1>3, MovedLocals
     DEF Moves, Stopped, HoldsPermit, InStep, AfterLoop
<1>4. CASE ObtainPermit(w)
  <2>1. At(w, "authorize") /\ s \in Step /\ begun
    BY <1>0, <1>4, <1>s DEF ObtainPermit, LocalsAreStored, At, InStep, Stopped
  <2>2. CASE Fail(w)
    BY <1>1, <2>1, <2>2 DEF At
  <2>3. CASE /\ Authorize(w, s)
             /\ proc' = [proc EXCEPT ![w].permit = permits'[s], ![w].pc = "begin"]
    <3>1. permits'[s] # None
      <4>1. permits'[s] = [step |-> s, claim |-> w, prior |-> state]
        BY <1>0, <2>1, <2>3 DEF Authorize, AtomicTypeOK
      <4>2. permits'[s] \in Permit
        BY <1>0, <2>1, <4>1 DEF Permit, AtomicTypeOK
      <4> QED BY <4>2, NullIsNoAction
    <3>2. /\ proc'[w].pc = "begin" /\ proc'[w].permit = permits'[s]
          /\ proc'[w].step = s /\ proc'[w].commit = proc[w].commit
          /\ proc'[w].receipts = proc[w].receipts
      BY <1>0, <1>s, <2>3 DEF ProcessTypeOK, Process
    <3>3. LocalsAreStored(w)'
      BY <1>0, <1>s, <2>1, <3>1, <3>2, MovedLocals DEF At, Stopped, HoldsPermit, InStep, AfterLoop
    <3>4. CallsAreOwned(w)'
      BY <3>2 DEF CallsAreOwned, At, OwnsCall, AfterLoop
    <3> QED BY <3>3, <3>4
  <2> QED BY <1>4, <1>s, <2>2, <2>3 DEF ObtainPermit
<1>5. CASE RefuseInput(w) \/ RecordUncertainty(w)
  BY <1>1, <1>5 DEF RefuseInput, RecordUncertainty, At
<1>6. CASE RecordCall(w)
  <2>1. At(w, "begin") /\ proc[w].pc \in HoldsPermit
    BY <1>6 DEF RecordCall, At, HoldsPermit
  <2>2. CASE Fail(w)
    BY <1>1, <2>1, <2>2 DEF At
  <2>3. CASE BeginCall(w, proc[w].permit) /\ Goto(w, "call")
    <3>1. Moves(w, "call")
      BY <1>0, <2>3, GotoMoves
    <3>2. ~Started(s) /\ currentClaim = w
      BY <1>2, <2>1, <2>3 DEF BeginCall, BeginCallAllowed, AssertCurrentWorker
    <3>3. /\ calls'[s].claim = w /\ calls'[s].state = "IN_FLIGHT"
      BY <1>0, <1>2, <2>1, <2>3 DEF BeginCall, LedgerTypeOK
    <3>4. ~Committed(s) /\ created[s] = 0
      BY <1>0, <1>s, <1>2, <2>1, <3>2 DEF CurrentIsAlone, RowsAgree
    <3>5. ~Committed(s)' /\ created'[s] = 0
      BY <1>6, <2>3, <3>4 DEF BeginCall, atomicVars, Committed, RecordCall, OnCalls
    <3>6. CallsAreOwned(w)'
      BY <1>s, <3>1, <3>3, <3>5 DEF Moves, CallsAreOwned, At, OwnsCall, AfterLoop
    <3>7. LocalsAreStored(w)'
      BY <1>3, <2>1, <3>1 DEF HoldsPermit
    <3> QED BY <3>6, <3>7
  <2> QED BY <1>6, <2>2, <2>3 DEF RecordCall
<1>7. ASSUME NEW pc \in {"awaiting", "uncertain"}, Moves(w, pc), proc[w].pc \in OwnsCall,
             UNCHANGED <<calls, commits, oversized>>,
             pc = "awaiting" => created'[s] = 1
      PROVE  Done
  <2>1. proc[w].pc \in HoldsPermit
    BY <1>7 DEF OwnsCall, HoldsPermit
  <2>2. LocalsAreStored(w)'
    BY <1>3, <1>7, <2>1 DEF HoldsPermit
  <2>3. CallsAreOwned(w)'
    BY <1>0, <1>s, <1>7 DEF Moves, CallsAreOwned, At, OwnsCall, AfterLoop, Committed
  <2> QED BY <2>2, <2>3
<1>8. CASE SendCall(w)
  <2>1. At(w, "call") /\ Moves(w, "awaiting")
    BY <1>0, <1>8, GotoMoves DEF SendCall
  <2>2. s \in Step /\ created[s] = 0
    BY <1>0, <1>s, <1>2, <2>1 DEF At, HoldsPermit, CallsAreOwned
  <2>3. created'[s] = 1
    BY <1>0, <1>8, <1>s, <2>2 DEF SendCall, ProcessTypeOK
  <2> QED BY <1>7, <1>8, <2>1, <2>3 DEF SendCall, storeVars, atomicVars, ledgerVars, At, OwnsCall
<1>9. CASE RefuseCall(w) \/ LoseReply(w)
  <2>1. Moves(w, "uncertain") /\ proc[w].pc \in OwnsCall
    BY <1>0, <1>9, GotoMoves DEF RefuseCall, LoseReply, At, OwnsCall
  <2> QED BY <1>7, <1>9, <2>1
       DEF RefuseCall, LoseReply, Reading, storeVars, atomicVars, ledgerVars
<1>10. CASE ReceiveReply(w)
  <2>1. /\ At(w, "awaiting") /\ s \in Step /\ begun /\ proc[w].permit # None
        /\ UNCHANGED <<calls, commits, created, oversized>>
    BY <1>2, <1>10 DEF ReceiveReply, At, HoldsPermit, Reading, storeVars, atomicVars, ledgerVars
  <2>2. PICK r \in Responses : proc' = [proc EXCEPT ![w].response = r, ![w].pc = "complete"]
    BY <1>10 DEF ReceiveReply
  <2>3. /\ proc'[w].pc = "complete" /\ proc'[w].response = r
        /\ proc'[w].step = s /\ proc'[w].permit = proc[w].permit
        /\ proc'[w].commit = proc[w].commit /\ proc'[w].receipts = proc[w].receipts
    BY <1>0, <1>s, <2>2 DEF ProcessTypeOK, Process
  <2>4. LocalsAreStored(w)'
    BY <1>0, <1>s, <2>1, <2>3, MovedLocals DEF At, Stopped, HoldsPermit, InStep, AfterLoop
  <2>5. CallsAreOwned(w)'
    BY <1>0, <1>s, <2>1, <2>3 DEF CallsAreOwned, At, OwnsCall, AfterLoop, Committed
  <2> QED BY <2>4, <2>5
<1>11. CASE ReceiveEmptyReply(w)
  <2>1. /\ At(w, "awaiting") /\ proc[w].pc \in HoldsPermit /\ EmptyReplies
        /\ UNCHANGED <<calls, commits, created, oversized>>
    BY <1>11 DEF ReceiveEmptyReply, At, HoldsPermit, Reading, storeVars, atomicVars, ledgerVars
  <2>2. CASE Fail(w)
    BY <1>1, <2>1, <2>2 DEF At
  <2>3. CASE proc[w].completion # None /\ Goto(w, "commit")
    <3>1. Moves(w, "commit")
      BY <1>0, <2>3, GotoMoves
    <3>2. proc[w].completion \in Completion
      BY <1>0, <2>3 DEF Process
    <3>3. CallsAreOwned(w)'
      BY <1>0, <1>s, <2>1, <3>1, <3>2
         DEF Moves, CallsAreOwned, At, OwnsCall, AfterLoop, Answered, Started
    <3>4. LocalsAreStored(w)'
      BY <1>3, <2>1, <3>1 DEF HoldsPermit
    <3> QED BY <3>3, <3>4
  <2> QED BY <1>11, <2>2, <2>3 DEF ReceiveEmptyReply
<1>12. CASE RecordCompletion(w)
  <2>1. /\ At(w, "complete") /\ s \in Step /\ begun /\ proc[w].permit # None
        /\ proc[w].permit.step = s
    BY <1>2, <1>12 DEF RecordCompletion, At, HoldsPermit
  <2>2. CASE Fail(w)
    BY <1>1, <2>1, <2>2 DEF At
  <2>3. CASE /\ CompleteCall(w, proc[w].permit, proc[w].response)
             /\ proc' = [proc EXCEPT
                           ![w].completion = [step |-> proc[w].step, response |-> proc[w].response],
                           ![w].pc = "commit"]
    <3>1. /\ proc'[w].pc = "commit"
          /\ proc'[w].completion = [step |-> s, response |-> proc[w].response]
          /\ proc'[w].step = s /\ proc'[w].permit = proc[w].permit
          /\ proc'[w].commit = proc[w].commit /\ proc'[w].receipts = proc[w].receipts
      BY <1>0, <1>s, <2>3 DEF ProcessTypeOK, Process
    <3>2. calls'[s].state = "COMPLETED" /\ calls'[s].response = proc[w].response
      BY <1>0, <2>1, <2>3 DEF CompleteCall, LedgerTypeOK, Call
    <3>3. proc'[w].completion \in Completion
      BY <1>0, <2>1, <3>1 DEF CallsAreOwned, Completion
    <3>4. CallsAreOwned(w)'
      BY <3>1, <3>2, <3>3 DEF CallsAreOwned, At, OwnsCall, AfterLoop, Answered, Started, AnswerTo
    <3>5. LocalsAreStored(w)'
      BY <1>0, <1>s, <2>1, <3>1, MovedLocals DEF At, Stopped, HoldsPermit, InStep, AfterLoop
    <3> QED BY <3>4, <3>5
  <2> QED BY <1>12, <2>2, <2>3 DEF RecordCompletion
<1>13. CASE CommitStep(w)
  <2>1. /\ At(w, "commit") /\ s \in Step /\ proc[w].permit.step = s
        /\ proc[w].completion \in Completion
    BY <1>0, <1>2, <1>13 DEF CommitStep, At, HoldsPermit, CallsAreOwned
  <2>2. CASE Fail(w)
    BY <1>1, <2>1, <2>2 DEF At
  <2>3. CASE CommitAction(w, proc[w].permit, proc[w].completion)
             /\ NextIteration(w, proc[w].completion)
    <3>1. Iterates(w, proc[w].completion)
      BY <1>0, <2>3, NextIterationIterates
    <3>2. /\ commits'[s] = [claim |-> w, permit |-> proc[w].permit,
                            completion |-> proc[w].completion, prior |-> proc[w].permit.prior,
                            next |-> NextState(proc[w].permit, proc[w].completion)]
      BY <1>0, <2>1, <2>3 DEF CommitAction, AtomicTypeOK
    <3>3. commits'[s] # None
      <4>1. AtomicTypeOK'
        BY DEF Common, LedgerInv, AtomicInv
      <4>2. proc[w].permit \in Permit
        BY <1>0, <2>1, HeldPermitIsStored, IssuedPermitsAreTyped DEF At, HoldsPermit
      <4>3. commits'[s] \in Commit
        BY <2>1, <3>2, <4>2, NextStateIsTyped DEF Commit, Permit
      <4> QED BY <4>3, NullIsNoAction
    <3> QED BY <1>s, <2>1, <3>1, <3>2, <3>3, IteratedLocals DEF At, Stopped
  <2> QED BY <1>13, <2>2, <2>3 DEF CommitStep
<1> QED BY <1>4, <1>5, <1>6, <1>8, <1>9, <1>10, <1>11, <1>12, <1>13

LEMMA OwnStepsAfterTheLoop ==
    ASSUME NEW w \in Workers, Common(w),
           BuildBundle(w) \/ FinishActions(w) \/ FinishCalls(w)
           \/ ReserveInstant(w) \/ PublishRerun(w) \/ PurgeReplay(w)
    PROVE  LocalsAreStored(w)' /\ CallsAreOwned(w)'
<1>0. /\ ProcessTypeOK /\ LocalsAreStored(w) /\ CallsAreOwned(w) /\ proc[w] \in Process
      /\ begun \in BOOLEAN /\ begun' \in BOOLEAN /\ (begun => begun') /\ oversized' = oversized
      /\ CoordinatorTypeOK
  BY DEF Common, RecoveryInv, LedgerInv, AtomicInv, CoordinatorInv, AtomicTypeOK, ProcessTypeOK,
         RowsStay, OneProcessWrites
<1>1. CASE Fail(w) /\ proc[w].pc # "idle"
  BY <1>0, <1>1, FailEnds, EndedLocals
<1>2. ASSUME NEW pc \in AfterLoop, Moves(w, pc), proc[w].step = StepCount,
             proc[w].pc \notin Stopped, StepCount \notin oversized,
             pc \in {"publish", "purge"} => CallsComplete',
             pc = "purge" => Published'
      PROVE  LocalsAreStored(w)' /\ CallsAreOwned(w)'
  <2>1. begun'
    BY <1>0, <1>2 DEF LocalsAreStored
  <2>2. LocalsAreStored(w)'
    BY <1>0, <1>2, <2>1, MovedLocals DEF Moves, Stopped, HoldsPermit, InStep, AfterLoop
  <2>3. CallsAreOwned(w)'
    BY <1>0, <1>2 DEF Moves, CallsAreOwned, At, OwnsCall, AfterLoop
  <2> QED BY <2>2, <2>3
<1>3. proc[w].pc \in AfterLoop =>
         proc[w].step = StepCount /\ StepCount \notin oversized /\ proc[w].pc \notin Stopped
  BY <1>0 DEF LocalsAreStored, CallsAreOwned, AfterLoop, Stopped
<1>4. (CallsComplete => CallsComplete') /\ (Published => Published')
  BY DEF Common, RowsStay, CallsComplete, Answered, Published
<1>5. CASE BuildBundle(w)
  <2>1. CASE Fail(w)
    BY <1>1, <1>5, <2>1 DEF BuildBundle, At
  <2>2. CASE ~OverBudget(w) /\ Goto(w, "finalize")
    BY <1>0, <1>2, <1>5, <2>2, GotoMoves DEF BuildBundle, At, OverBudget, AfterLoop, Stopped
  <2> QED BY <1>5, <2>1, <2>2 DEF BuildBundle
<1>6. CASE FinishActions(w)
  <2>1. At(w, "finalize")
    BY <1>6 DEF FinishActions
  <2>2. CASE Fail(w)
    BY <1>1, <2>1, <2>2 DEF At
  <2>3. CASE Goto(w, "chain")
    BY <1>0, <1>2, <1>3, <2>1, <2>3, GotoMoves DEF At, AfterLoop
  <2> QED BY <1>6, <2>2, <2>3 DEF FinishActions
<1>7. CASE FinishCalls(w)
  <2>1. At(w, "chain")
    BY <1>7 DEF FinishCalls
  <2>2. CASE Fail(w)
    BY <1>1, <2>1, <2>2 DEF At
  <2>3. CASE CallsComplete /\ Goto(w, "publish")
    BY <1>0, <1>2, <1>3, <1>4, <2>1, <2>3, GotoMoves DEF At, AfterLoop
  <2> QED BY <1>7, <2>2, <2>3 DEF FinishCalls
<1>8. CASE ReserveInstant(w)
  <2>1. At(w, "publish") /\ CallsComplete
    BY <1>0, <1>8 DEF ReserveInstant, At, CallsAreOwned
  <2>2. CASE Fail(w)
    BY <1>1, <2>1, <2>2 DEF At
  <2>3. CASE proc' = proc
    BY <1>2, <1>3, <1>4, <2>1, <2>3 DEF Moves, At, AfterLoop
  <2> QED BY <1>8, <2>2, <2>3 DEF ReserveInstant
<1>9. CASE PublishRerun(w)
  <2>1. At(w, "publish") /\ CallsComplete
    BY <1>0, <1>9 DEF PublishRerun, At, CallsAreOwned
  <2>2. CASE Fail(w)
    BY <1>1, <2>1, <2>2 DEF At
  <2>3. ASSUME NEW core \in Cores, Goto(w, "purge"),
               (\E now \in Instants : Publish(w, core, now)) \/ Republish(w, core)
        PROVE  LocalsAreStored(w)' /\ CallsAreOwned(w)'
    <3>1. Published'
      <4>1. CASE Republish(w, core)
        BY <4>1 DEF Republish, RepublishAllowed, Published
      <4>2. ASSUME NEW now \in Instants, Publish(w, core, now)
            PROVE  Published'
        <5>1. reservation' \in Reservation
          BY <1>0, <4>2 DEF Publish, Reservation, CoordinatorTypeOK
        <5>2. publication' \in Seal
          BY <1>0, <4>2, <5>1 DEF Publish, Reservation, Seal, CoordinatorTypeOK
        <5> QED BY <5>2, NullIsNoRow DEF Published
      <4> QED BY <2>3, <4>1, <4>2
    <3> QED BY <1>0, <1>2, <1>3, <1>4, <2>1, <2>3, <3>1, GotoMoves DEF At, AfterLoop
  <2> QED BY <1>9, <2>2, <2>3 DEF PublishRerun
<1>10. CASE PurgeReplay(w)
  <2>1. At(w, "purge")
    BY <1>10 DEF PurgeReplay
  <2>2. Moves(w, "done")
    BY <1>0, <1>10, GotoMoves DEF PurgeReplay, Goto
  <2> QED BY <1>2, <1>3, <2>1, <2>2 DEF At, AfterLoop
<1> QED BY <1>5, <1>6, <1>7, <1>8, <1>9, <1>10

(* Every step keeps what is said of the locals of every process.           *)
LEMMA LocalsStayStored ==
    ASSUME NEW w \in Workers, Common(w)
    PROVE  \A v \in Workers : LocalsAreStored(v)' /\ CallsAreOwned(v)'
<1>1. CASE Crash(w)
  <2>1. proc[w].pc # "idle"
    BY <1>1 DEF Crash, Alive
  <2>2. Ends(w)
    BY <1>1, CrashEnds DEF Common, RecoveryInv
  <2> QED BY <2>1, <2>2, EndedLocals, OthersLocalsStay, OthersCallsStay
<1>2. LocalsAreStored(w)' /\ CallsAreOwned(w)'
  BY <1>1, OwnStepsOfTheStart, OwnStepsOfTheHead, OwnStepsOfTheCall, OwnStepsAfterTheLoop
     DEF Common, StepOf, DriverStep, LoopStep
<1> QED BY <1>2, OthersLocalsStay, OthersCallsStay

-----------------------------------------------------------------------------
(***************************************************************************)
(* The types of the local variables.                                       *)
(***************************************************************************)
LEMMA FreshIsTyped ==
    ASSUME NEW pc \in ProgramCounters
    PROVE  Fresh(pc) \in Process
<1>1. 0 \in 0 .. StepCount /\ <<>> \in Seq(Completion)
  BY StepCountAssumption
<1> QED BY <1>1 DEF Fresh, Process

LEMMA ProcessTypeStep ==
    ASSUME NEW w \in Workers, Common(w)
    PROVE  ProcessTypeOK'
<1>0. /\ ProcessTypeOK /\ LedgerInv /\ RowsAgree /\ LocalsAreStored(w) /\ CallsAreOwned(w)
      /\ OneProcessWrites(w) /\ OwnRowsOnly(w) /\ AtomicTypeOK /\ AtomicTypeOK'
      /\ proc[w] \in Process
  BY DEF Common, RecoveryInv, LedgerInv, AtomicInv, ProcessTypeOK
<1>1. ASSUME NEW new \in Process, proc' = [proc EXCEPT ![w] = new]
      PROVE  proc' \in [Workers -> Process]
  BY <1>0, <1>1 DEF ProcessTypeOK
<1>2. ASSUME NEW pc \in ProgramCounters, Goto(w, pc)
      PROVE  proc' \in [Workers -> Process]
  <2>1. [proc[w] EXCEPT !.pc = pc] \in Process
    BY <1>0 DEF Process
  <2> QED BY <1>0, <1>2, <2>1 DEF Goto, ProcessTypeOK
<1>3. ASSUME Fail(w)
      PROVE  proc' \in [Workers -> Process]
  <2>1. Fresh("failed") \in Process
    BY FreshIsTyped DEF ProgramCounters
  <2>2. [Fresh("failed") EXCEPT !.resume = proc[w].resume] \in Process
    BY <1>0, <2>1 DEF Process
  <2> QED BY <1>1, <1>3, <2>2 DEF Fail
<1>4. ASSUME NEW c \in Completion, NextIteration(w, c), proc[w].step \in Step
      PROVE  proc' \in [Workers -> Process]
  <2>1. Fresh("step") \in Process
    BY FreshIsTyped DEF ProgramCounters
  <2>2. proc[w].step + 1 \in 0 .. StepCount /\ Append(proc[w].receipts, c) \in Seq(Completion)
    BY <1>0, <1>4, StepIsNat DEF Process
  <2>3. [Fresh("step") EXCEPT !.resume = proc[w].resume, !.step = proc[w].step + 1,
            !.completion = c, !.receipts = Append(proc[w].receipts, c)] \in Process
    BY <1>0, <2>1, <2>2 DEF Process
  <2> QED BY <1>1, <1>4, <2>3 DEF NextIteration
<1>5. ASSUME ClaimAttempt(w) \/ MarkInFlight(w) \/ StartAttempt(w) \/ StartUnresumed(w)
           \/ Reconcile(w) \/ MarkRestart(w) \/ RefuseInput(w) \/ RecordCall(w) \/ SendCall(w)
           \/ RefuseCall(w) \/ ReceiveEmptyReply(w) \/ LoseReply(w) \/ RecordUncertainty(w)
           \/ BuildBundle(w) \/ FinishActions(w) \/ FinishCalls(w) \/ ReserveInstant(w)
           \/ PublishRerun(w) \/ PurgeReplay(w)
      PROVE  proc' \in [Workers -> Process]
  <2>1. Fail(w) \/ proc' = proc \/ \E pc \in ProgramCounters : Goto(w, pc)
    BY <1>5 DEF ClaimAttempt, MarkInFlight, StartAttempt, StartUnresumed, Reconcile, MarkRestart,
       RefuseInput, RecordCall, SendCall, RefuseCall, ReceiveEmptyReply, LoseReply,
       RecordUncertainty, BuildBundle, FinishActions, FinishCalls, ReserveInstant, PublishRerun,
       PurgeReplay, Goto, ProgramCounters
  <2> QED BY <1>0, <1>2, <1>3, <2>1 DEF ProcessTypeOK
<1>6. ASSUME StartResumed(w)
      PROVE  proc' \in [Workers -> Process]
  <2>1. [proc[w] EXCEPT !.pc = "step", !.resume = TRUE] \in Process
    BY <1>0 DEF Process, ProgramCounters
  <2> QED BY <1>0, <1>3, <1>6, <2>1 DEF StartResumed, ProcessTypeOK
<1>7. ASSUME LoadPermit(w)
      PROVE  proc' \in [Workers -> Process]
  <2>1. proc[w].step \in Step
    BY <1>0, <1>7, StepCountAssumption DEF LoadPermit, Process, Step
  <2>2. permits[proc[w].step] \in Permit \cup {None}
    BY <1>0, <2>1 DEF AtomicTypeOK
  <2>3. /\ [proc[w] EXCEPT !.permit = permits[proc[w].step], !.pc = "readCommit"] \in Process
        /\ [proc[w] EXCEPT !.pc = "authorize"] \in Process
    BY <1>0, <2>2 DEF Process, ProgramCounters
  <2> QED BY <1>0, <1>7, <2>3 DEF LoadPermit, ProcessTypeOK
<1>8. ASSUME LoadCommit(w)
      PROVE  proc' \in [Workers -> Process]
  <2>1. proc[w].step \in Step
    BY <1>0, <1>8 DEF LoadCommit, At, LocalsAreStored, InStep
  <2>2. commits[proc[w].step] \in Commit \cup {None}
    BY <1>0, <2>1 DEF AtomicTypeOK
  <2>3. [proc[w] EXCEPT !.commit = commits[proc[w].step], !.pc = "readState"] \in Process
    BY <1>0, <2>2 DEF Process, ProgramCounters
  <2> QED BY <1>0, <1>8, <2>3 DEF LoadCommit, ProcessTypeOK
<1>9. ASSUME LoadProviderState(w)
      PROVE  proc' \in [Workers -> Process]
  <2>1. proc[w].step \in Step
    BY <1>0, <1>9 DEF LoadProviderState, At, LocalsAreStored, InStep
  <2>2. calls[proc[w].step].state \in CallStates
    BY <1>0, <2>1 DEF LedgerInv, LedgerTypeOK, Call
  <2>3. ResumePoint(proc[w].permit, proc[w].commit, calls[proc[w].step].state) \in ProgramCounters
    BY <2>2 DEF ResumePoint, CallStates, ProgramCounters
  <2> QED BY <1>2, <1>3, <1>9, <2>3 DEF LoadProviderState
<1>10. ASSUME ReplayCommitted(w) \/ ReplayAuthorized(w)
      PROVE  proc' \in [Workers -> Process]
  <2>1. proc[w].step \in Step /\ Answered(proc[w].step)
    BY <1>0, <1>10
       DEF ReplayCommitted, ReplayAuthorized, At, LocalsAreStored, CallsAreOwned, InStep, HoldsPermit
  <2>2. ReplayedCompletion(proc[w].step) \in Completion
    BY <1>0, <2>1, ReplayIsTheAnswer
  <2>3. [proc[w] EXCEPT !.completion = ReplayedCompletion(proc[w].step), !.pc = "reconcile"]
          \in Process
    BY <1>0, <2>2 DEF Process, ProgramCounters
  <2>4. CASE ReplayCommitted(w)
    BY <1>3, <1>4, <2>1, <2>2, <2>4 DEF ReplayCommitted
  <2>5. CASE ReplayAuthorized(w)
    BY <1>0, <1>3, <2>3, <2>5 DEF ReplayAuthorized, ProcessTypeOK
  <2> QED BY <1>10, <2>4, <2>5
<1>11. ASSUME ObtainPermit(w)
      PROVE  proc' \in [Workers -> Process]
  <2>1. proc[w].step \in Step
    BY <1>0, <1>11 DEF ObtainPermit, At, LocalsAreStored, InStep
  <2>2. permits'[proc[w].step] \in Permit \cup {None}
    BY <1>0, <2>1 DEF AtomicTypeOK
  <2>3. [proc[w] EXCEPT !.permit = permits'[proc[w].step], !.pc = "begin"] \in Process
    BY <1>0, <2>2 DEF Process, ProgramCounters
  <2> QED BY <1>0, <1>3, <1>11, <2>3 DEF ObtainPermit, ProcessTypeOK
<1>12. ASSUME ReceiveReply(w)
      PROVE  proc' \in [Workers -> Process]
  <2>1. \A r \in Responses : [proc[w] EXCEPT !.response = r, !.pc = "complete"] \in Process
    BY <1>0 DEF Process, ProgramCounters
  <2> QED BY <1>0, <1>12, <2>1 DEF ReceiveReply, ProcessTypeOK
<1>13. ASSUME RecordCompletion(w)
      PROVE  proc' \in [Workers -> Process]
  <2>1. proc[w].step \in Step /\ proc[w].response \in Responses
    BY <1>0, <1>13 DEF RecordCompletion, At, LocalsAreStored, CallsAreOwned, InStep, HoldsPermit
  <2>2. [proc[w] EXCEPT !.completion = [step |-> proc[w].step, response |-> proc[w].response],
                        !.pc = "commit"] \in Process
    BY <1>0, <2>1 DEF Process, ProgramCounters, Completion
  <2> QED BY <1>0, <1>3, <1>13, <2>2 DEF RecordCompletion, ProcessTypeOK
<1>14. ASSUME CommitStep(w)
      PROVE  proc' \in [Workers -> Process]
  <2>1. proc[w].step \in Step /\ proc[w].completion \in Completion
    BY <1>0, <1>14 DEF CommitStep, At, LocalsAreStored, CallsAreOwned, InStep, HoldsPermit
  <2> QED BY <1>3, <1>4, <1>14, <2>1 DEF CommitStep
<1>15. ASSUME Crash(w)
      PROVE  proc' \in [Workers -> Process]
  <2>1. Fresh("dead") \in Process
    BY FreshIsTyped DEF ProgramCounters
  <2> QED BY <1>1, <1>15, <2>1 DEF Crash
<1>16. proc' \in [Workers -> Process]
  BY <1>5, <1>6, <1>7, <1>8, <1>9, <1>10, <1>11, <1>12, <1>13, <1>14, <1>15
     DEF Common, StepOf, DriverStep, LoopStep
<1>17. created' \in [Step -> Nat]
  BY <1>0 DEF OwnRowsOnly
<1> QED BY <1>0, <1>16, <1>17 DEF ProcessTypeOK, OneProcessWrites

-----------------------------------------------------------------------------
(***************************************************************************)
(* The rows of calls, commits and permits.                                 *)
(***************************************************************************)
(* The steps of a process that write call rows.                            *)
LEMMA CallRowSteps ==
    ASSUME NEW w \in Workers, Common(w)
    PROVE  \/ calls' = calls
           \/ At(w, "begin") /\ ~OverBudget(w) /\ BeginCall(w, proc[w].permit)
           \/ At(w, "complete") /\ CompleteCall(w, proc[w].permit, proc[w].response)
           \/ /\ At(w, "markRestart") \/ At(w, "uncertain")
              /\ MarkUncertain(w, proc[w].permit)
           \/ MarkRestartInFlightUncertain(w)
           \/ At(w, "purge") /\ Purge(w)
<1>1. CASE ClaimAttempt(w) \/ Crash(w)
  BY <1>1 DEF ClaimAttempt, OnCoordinator, Crash, Reading, storeVars, ledgerVars
<1>2. CASE DriverStep(w)
  BY <1>2 DEF DriverStep, StartAttempt, OnActions, StartUnresumed, StartResumed, Reading,
     MarkInFlight, FinishActions, FinishCalls, ReserveInstant, PublishRerun, OnCoordinator,
     PurgeReplay, storeVars, ledgerVars
<1>3. CASE Reconcile(w) \/ MarkRestart(w) \/ ObtainPermit(w) \/ RecordCall(w) \/ SendCall(w)
           \/ RecordUncertainty(w) \/ RecordCompletion(w) \/ CommitStep(w)
  BY <1>3 DEF Reconcile, RecordReconciliation, MarkRestart, ObtainPermit, OnActions, RecordCall,
     SendCall, RecordUncertainty, RecordCompletion, CommitStep, storeVars, ledgerVars
<1>4. CASE Reading
  BY <1>4 DEF Reading, storeVars, ledgerVars
<1> QED BY <1>1, <1>2, <1>3, <1>4
     DEF Common, StepOf, LoopStep, LoadPermit, LoadCommit, LoadProviderState, ReplayCommitted,
         ReplayAuthorized, RefuseInput, RefuseCall, ReceiveReply, ReceiveEmptyReply, LoseReply,
         BuildBundle

(* A process never runs ahead of the committed steps.                      *)
LEMMA EarlierStepsAreCommitted ==
    ASSUME LedgerInv, ProcessTypeOK, NEW w \in Workers, LocalsAreStored(w)
    PROVE  /\ proc[w].step \in 0 .. StepCount
           /\ nextStep \in 0 .. StepCount
           /\ proc[w].step <= nextStep
<1>1. proc[w].step \in 0 .. StepCount /\ nextStep \in 0 .. StepCount
  BY DEF ProcessTypeOK, Process, LedgerInv, AtomicInv, AtomicTypeOK
<1>2. CASE proc[w].step = 0
  BY <1>1, <1>2, StepCountAssumption
<1>3. CASE proc[w].step # 0
  <2>1. /\ proc[w].step \in 1 .. proc[w].step
        /\ proc[w].step - 1 \in Step
    BY <1>1, <1>3, StepCountAssumption DEF Step
  <2>2. Committed(proc[w].step - 1)
    BY <2>1 DEF LocalsAreStored
  <2>3. proc[w].step - 1 < nextStep
    BY <2>1, <2>2 DEF LedgerInv, AtomicInv, StepsAdvanceInOrder
  <2> QED BY <1>1, <2>3, StepCountAssumption
<1> QED BY <1>1, <1>2, <1>3

LEMMA AllStepsCommitted ==
    ASSUME LedgerInv
    PROVE  nextStep = StepCount <=> \A s \in Step : Committed(s)
<1>1. nextStep \in 0 .. StepCount /\ \A s \in Step : Committed(s) <=> s < nextStep
  BY DEF LedgerInv, AtomicInv, AtomicTypeOK, StepsAdvanceInOrder
<1>2. StepCount - 1 \in Step
  BY StepCountAssumption DEF Step
<1>3. ASSUME \A s \in Step : Committed(s)
      PROVE  nextStep = StepCount
  <2>1. StepCount - 1 < nextStep
    BY <1>1, <1>2, <1>3
  <2> QED BY <1>1, <2>1, StepCountAssumption
<1>4. ASSUME nextStep = StepCount
      PROVE  \A s \in Step : Committed(s)
  BY <1>1, <1>4, StepCountAssumption DEF Step
<1> QED BY <1>3, <1>4

LEMMA CallRowsAgree ==
    ASSUME NEW w \in Workers, Common(w), NEW s \in Step
    PROVE  /\ Started(s)' => s \notin oversized /\ calls'[s].material # "NONE"
           /\ Answered(s)' => calls'[s].response \in Responses
           /\ Started(s)' /\ ~Answered(s)' => calls'[s].response = None
           /\ calls'[s].material = "PURGED" => Published
<1>0. /\ LedgerInv /\ LedgerTypeOK /\ LocalsAreStored(w) /\ CallsAreOwned(w)
      /\ calls[s] \in Call
      /\ Started(s) => s \notin oversized /\ calls[s].material # "NONE"
      /\ Answered(s) => calls[s].response \in Responses
      /\ Started(s) /\ ~Answered(s) => calls[s].response = None
      /\ calls[s].material = "PURGED" => Published
  BY DEF Common, RecoveryInv, LedgerInv, LedgerTypeOK, RowsAgree
<1> USE DEF Started, Answered
<1>p. proc[w].pc \in HoldsPermit => proc[w].step \in Step /\ proc[w].permit.step = proc[w].step
  BY <1>0, HeldPermitIsStored
<1>1. CASE calls' = calls
  BY <1>0, <1>1
<1>2. CASE At(w, "begin") /\ ~OverBudget(w) /\ BeginCall(w, proc[w].permit)
  BY <1>0, <1>p, <1>2 DEF BeginCall, OverBudget, At, HoldsPermit, LedgerTypeOK
<1>3. CASE At(w, "complete") /\ CompleteCall(w, proc[w].permit, proc[w].response)
  <2>1. proc[w].response \in Responses /\ proc[w].permit.step = proc[w].step
    BY <1>0, <1>p, <1>3 DEF CallsAreOwned, At, HoldsPermit
  <2> QED BY <1>0, <1>3, <2>1
       DEF CompleteCall, CompleteCallAllowed, InFlightFor, LedgerTypeOK, Call
<1>4. CASE (At(w, "markRestart") \/ At(w, "uncertain")) /\ MarkUncertain(w, proc[w].permit)
  BY <1>0, <1>p, <1>4 DEF MarkUncertain, MarkUncertainAllowed, InFlightFor, At, HoldsPermit,
     LedgerTypeOK, Call
<1>5. CASE MarkRestartInFlightUncertain(w)
  BY <1>0, <1>5 DEF MarkRestartInFlightUncertain, Call
<1>6. CASE At(w, "purge") /\ Purge(w)
  BY <1>0, <1>6 DEF Purge, CallsAreOwned, Call
<1> QED BY <1>1, <1>2, <1>3, <1>4, <1>5, <1>6, CallRowSteps

LEMMA PublicationIsComplete ==
    ASSUME NEW w \in Workers, Common(w), Published'
    PROVE  CallsComplete' /\ nextStep' = StepCount /\ oversized = {}
<1>0. /\ LedgerInv /\ LedgerInv' /\ ProcessTypeOK /\ LocalsAreStored(w) /\ CallsAreOwned(w)
      /\ RowsAgree /\ CommitsFollowCalls
  BY DEF Common, RecoveryInv
<1>1. CASE Published
  <2>1. CallsComplete /\ nextStep = StepCount /\ oversized = {}
    BY <1>0, <1>1 DEF RowsAgree
  <2>2. \A s \in Step : Committed(s) /\ Committed(s)'
    BY <1>0, <2>1, AllStepsCommitted DEF Common, RowsStay, Committed
  <2>3. nextStep' \in 0 .. StepCount /\ StepCount - 1 < nextStep'
    BY <1>0, <2>2, StepCountAssumption DEF LedgerInv, AtomicInv, AtomicTypeOK, StepsAdvanceInOrder, Step
  <2> QED BY <2>1, <2>3, StepCountAssumption DEF Common, RowsStay, CallsComplete, Answered
<1>2. CASE ~Published
  <2>1. PublishRerun(w)
    <3>1. publication' # publication
      BY <1>2 DEF Published
    <3> QED BY <3>1
         DEF Common, StepOf, ClaimAttempt, ClaimWorker, Crash, Reading, DriverStep, LoopStep,
             StartAttempt, BeginAttempt, StartUnresumed, StartResumed, MarkInFlight,
             MarkRestartInFlightUncertain, FinishActions, FinalizeAtomic, FinishCalls,
             ReserveInstant, ReservePublicationTime, PurgeReplay, Purge, LoadPermit, LoadCommit,
             LoadProviderState, ReplayCommitted, ReplayAuthorized, Reconcile,
             RecordReconciliation, MarkRestart, MarkUncertain, ObtainPermit, Authorize,
             RefuseInput, RecordCall, BeginCall, SendCall, RefuseCall, ReceiveReply,
             ReceiveEmptyReply, LoseReply, RecordUncertainty, RecordCompletion, CompleteCall,
             CommitStep, CommitAction, BuildBundle, storeVars, coordinatorVars
  <2>2. At(w, "publish") /\ UNCHANGED <<atomicVars, ledgerVars>>
    BY <2>1 DEF PublishRerun, OnCoordinator
  <2>3. /\ CallsComplete /\ StepCount \notin oversized
        /\ proc[w].step = StepCount
    BY <1>0, <2>2 DEF CallsAreOwned, LocalsAreStored, At, AfterLoop
  <2>4. nextStep = StepCount
    BY <1>0, <2>3, EarlierStepsAreCommitted, StepCountAssumption
  <2>5. \A s \in Step : s \notin oversized
    BY <1>0, <2>3 DEF CallsComplete, RowsAgree, Started
  <2>6. oversized = {}
    BY <1>0, <2>3, <2>5, StepCountAssumption DEF ProcessTypeOK, Step
  <2> QED BY <2>2, <2>3, <2>4, <2>6 DEF atomicVars, ledgerVars, CallsComplete
<1> QED BY <1>1, <1>2

LEMMA RowsStillAgree ==
    ASSUME NEW w \in Workers, Common(w)
    PROVE  RowsAgree'
<1>0. /\ LedgerInv /\ RowsAgree /\ CallsAreOwned(w) /\ LocalsAreStored(w)
      /\ oversized' = oversized /\ (Published => Published')
      /\ begun \in BOOLEAN /\ begun' \in BOOLEAN
  BY DEF Common, RecoveryInv, OneProcessWrites, RowsStay, Published, LedgerInv, AtomicInv, AtomicTypeOK
<1>1. begun' => currentEpoch' > 0
  <2>1. [LedgerNext]_storeVars
    BY ProcessesUseStores DEF Common
  <2>2. [AtomicNext]_allAtomicVars /\ [CoordinatorNext]_coordinatorVars
    BY <2>1, LedgerStepsAreAtomicSteps, AtomicStepsAreCoordinatorSteps
  <2>3. CoordinatorInv /\ currentEpoch \in Nat
    BY <1>0 DEF LedgerInv, AtomicInv, CoordinatorInv, CoordinatorTypeOK
  <2>4. CASE begun
    BY <1>0, <2>2, <2>3, <2>4, EpochsGrow DEF RowsAgree
  <2>5. CASE ~begun /\ begun'
    <3>1. PICK v \in Workers : BeginAttempt(v)
      BY <2>2, <2>5, AtomicCases DEF Authorize, CommitAction, FinalizeAtomic, atomicVars
    <3> QED BY <2>3, <3>1, CurrentWorker DEF BeginAttempt, BeginAllowed, coordinatorVars
  <2> QED BY <1>0, <2>4, <2>5
<1>2. ASSUME NEW s \in Step
      PROVE  /\ created'[s] \in {0, 1}
             /\ ~Started(s)' => created'[s] = 0
             /\ Answered(s)' => created'[s] = 1
  <2>1. /\ created[s] \in {0, 1} /\ (~Started(s) => created[s] = 0)
        /\ (Answered(s) => created[s] = 1) /\ (Answered(s) => Started(s))
        /\ (Started(s) => Started(s)')
    BY <1>0 DEF RowsAgree, Answered, Started, Common, RowsStay
  <2>2. CASE created'[s] = created[s]
    <3>1. Answered(s)' /\ ~Answered(s) => created[s] = 1
      BY <1>0 DEF Common, OwnRowsOnly, CallsAreOwned, At
    <3> QED BY <2>1, <2>2, <3>1
  <2>3. CASE created'[s] # created[s]
    <3>1. At(w, "call") /\ s = proc[w].step /\ created'[s] = created[s] + 1
      BY <2>3 DEF Common, OwnRowsOnly
    <3>2. created[s] = 0 /\ Started(s)
      BY <1>0, <3>1 DEF CallsAreOwned, OwnsCall, At, Started
    <3> QED BY <2>1, <3>1, <3>2
  <2> QED BY <2>2, <2>3
<1> QED BY <1>0, <1>1, <1>2, CallRowsAgree, PublicationIsComplete DEF RowsAgree

(* A permit, commit or reconciliation that is new is that of the process   *)
(* that takes the step, which is current; a reconciliation is made before  *)
(* the commit of its step.                                                 *)
LEMMA NewRowsAreCurrent ==
    ASSUME NEW w \in Workers, Common(w), NEW s \in Step
    PROVE  /\ permits'[s] # permits[s] =>
                 permits'[s].claim = w /\ claims'[w].epoch = currentEpoch'
           /\ Committed(s)' /\ ~Committed(s) =>
                 /\ commits'[s].claim = w /\ claims'[w].epoch = currentEpoch'
                 /\ commits'[s].completion = proc[w].completion
           /\ recons'[s] # recons[s] => ~Committed(s) /\ ~Committed(s)'
<1>0. /\ LedgerInv /\ AtomicTypeOK /\ LedgerTypeOK /\ CoordinatorInv
      /\ LocalsAreStored(w) /\ CurrentIsAlone(w)
  BY DEF Common, RecoveryInv, LedgerInv, AtomicInv
<1>1. CASE ObtainPermit(w)
  <2>1. proc[w].step \in Step
    BY <1>0, <1>1 DEF ObtainPermit, At, LocalsAreStored, InStep
  <2>2. commits' = commits /\ recons' = recons
    BY <1>1 DEF ObtainPermit, OnActions, Authorize, storeVars, atomicVars, ledgerVars
  <2>3. CASE Authorize(w, proc[w].step)
    <3>1. claims[w].epoch = currentEpoch /\ claims' = claims /\ currentEpoch' = currentEpoch
      BY <2>3 DEF Authorize, AuthorizeAllowed, AssertCurrentWorker, coordinatorVars
    <3> QED BY <1>0, <2>1, <2>2, <2>3, <3>1 DEF Authorize, AtomicTypeOK, Committed
  <2>4. CASE UNCHANGED storeVars
    BY <2>2, <2>4 DEF storeVars, atomicVars, Committed
  <2> QED BY <1>1, <2>3, <2>4 DEF ObtainPermit
<1>2. CASE CommitStep(w)
  <2>1. proc[w].step \in Step /\ proc[w].permit.step = proc[w].step
    BY <1>0, <1>2, HeldPermitIsStored DEF CommitStep, At, HoldsPermit
  <2>2. permits' = permits /\ recons' = recons
    BY <1>2 DEF CommitStep, OnActions, CommitAction, storeVars, atomicVars, ledgerVars
  <2>3. CASE CommitAction(w, proc[w].permit, proc[w].completion)
    <3>1. claims[w].epoch = currentEpoch /\ claims' = claims /\ currentEpoch' = currentEpoch
      BY <2>3 DEF CommitAction, CommitAllowed, AssertCurrentWorker, coordinatorVars
    <3> QED BY <1>0, <2>1, <2>2, <2>3, <3>1 DEF CommitAction, AtomicTypeOK, Committed
  <2>4. CASE UNCHANGED storeVars
    BY <2>2, <2>4 DEF storeVars, atomicVars, Committed
  <2> QED BY <1>2, <2>3, <2>4 DEF CommitStep
<1>3. CASE Reconcile(w)
  <2>1. permits' = permits /\ commits' = commits
    BY <1>3 DEF Reconcile, RecordReconciliation, storeVars, atomicVars
  <2>2. CASE RecordReconciliation(w, proc[w].step)
    <3>1. ~Committed(proc[w].step)
      BY <1>0, <1>3, <2>2
         DEF Reconcile, RecordReconciliation, AssertCurrentWorker, CurrentIsAlone, At, HoldsPermit
    <3> QED BY <1>0, <2>1, <2>2, <3>1 DEF RecordReconciliation, LedgerTypeOK, Committed
  <2>3. CASE UNCHANGED storeVars
    BY <2>1, <2>3 DEF storeVars, ledgerVars, Committed
  <2> QED BY <1>3, <2>2, <2>3 DEF Reconcile
<1>4. CASE UNCHANGED <<permits, commits, recons>>
  BY <1>4 DEF Committed
<1> QED BY <1>1, <1>2, <1>3, <1>4
     DEF Common, StepOf, ClaimAttempt, OnCoordinator, Crash, Reading, DriverStep, LoopStep,
         StartAttempt, OnActions, BeginAttempt, StartUnresumed, StartResumed, MarkInFlight,
         MarkRestartInFlightUncertain, FinishActions, FinalizeAtomic, FinishCalls,
         ReserveInstant, PublishRerun, PurgeReplay, Purge, LoadPermit, LoadCommit,
         LoadProviderState, ReplayCommitted, ReplayAuthorized, MarkRestart, MarkUncertain,
         RefuseInput, RecordCall, BeginCall, SendCall, RefuseCall, ReceiveReply,
         ReceiveEmptyReply, LoseReply, RecordUncertainty, RecordCompletion, CompleteCall,
         BuildBundle, storeVars, atomicVars, ledgerVars

LEMMA CommitsStillFollowCalls ==
    ASSUME NEW w \in Workers, Common(w)
    PROVE  CommitsFollowCalls'
<1>0. /\ LedgerInv /\ LedgerInv' /\ RowsAgree /\ CommitsFollowCalls
      /\ LocalsAreStored(w) /\ CallsAreOwned(w) /\ RowsStay
  BY DEF Common, RecoveryInv
<1>e. \A v \in Workers : /\ claims[v].epoch \in Nat
                         /\ claims'[v].epoch \in 0 .. currentEpoch'
                         /\ currentEpoch' \in Nat
                         /\ claims[v].epoch # 0 => claims'[v] = claims[v]
  <2>1. CoordinatorInv /\ CoordinatorInv'
    BY <1>0 DEF LedgerInv, AtomicInv
  <2>2. currentEpoch' \in Nat /\ \A v \in Workers : claims'[v].epoch \in Nat
    BY <2>1 DEF CoordinatorInv, CoordinatorTypeOK, Claim
  <2>3. CASE currentEpoch' = 0
    BY <1>0, <2>1, <2>2, <2>3, EpochsAreBounded
       DEF CoordinatorInv, ClaimsFormOneChain, Claimed, RowsStay
  <2>4. CASE currentEpoch' > 0
    BY <1>0, <2>1, <2>2, <2>4, EpochsAreBounded
       DEF CoordinatorInv, ClaimsFormOneChain, ClaimChain, Claimed, RowsStay
  <2> QED BY <2>2, <2>3, <2>4
<1>1. ASSUME NEW s \in Step, Started(s)
      PROVE  /\ calls[s].claim \in Workers /\ claims'[calls[s].claim] = claims[calls[s].claim]
             /\ recons[s] # None => recons[s] \in Workers /\ claims'[recons[s]] = claims[recons[s]]
  <2>1. /\ calls[s].claim \in Workers /\ Authorized(s)
        /\ claims[calls[s].claim].epoch \in claims[permits[s].claim].epoch .. currentEpoch
    BY <1>0, <1>1 DEF LedgerInv, CallsFollowTheirPermits
  <2>2. permits[s].claim \in Workers /\ claims[permits[s].claim].epoch \in 1 .. currentEpoch
    BY <1>0, <2>1 DEF LedgerInv, AtomicInv, EpochsNeverRegress, AtomicTypeOK, Authorized, Permit
  <2>3. claims[calls[s].claim].epoch # 0
    BY <1>e, <2>1, <2>2
  <2>4. ASSUME recons[s] # None
        PROVE  recons[s] \in Workers /\ claims'[recons[s]] = claims[recons[s]]
    <3>1. recons[s] \in Workers
          /\ claims[recons[s]].epoch \in claims[calls[s].claim].epoch .. currentEpoch
      BY <1>0, <2>4 DEF LedgerInv, LedgerTypeOK, CallsFollowTheirPermits
    <3> QED BY <1>e, <2>1, <2>3, <3>1
  <2> QED BY <1>e, <2>1, <2>3, <2>4
<1>2. ASSUME NEW s \in Step, Committed(s)
      PROVE  /\ commits'[s] = commits[s] /\ commits[s].claim \in Workers
             /\ claims'[commits[s].claim] = claims[commits[s].claim]
  <2>1. Authorized(s)
    BY <1>0, <1>2, StepIsNat DEF LedgerInv, AtomicInv, StepsAdvanceInOrder
  <2>2. permits[s].claim \in Workers /\ claims[permits[s].claim].epoch \in 1 .. currentEpoch
    BY <1>0, <2>1 DEF LedgerInv, AtomicInv, EpochsNeverRegress, AtomicTypeOK, Authorized, Permit
  <2>3. /\ commits[s].claim \in Workers
        /\ claims[commits[s].claim].epoch \in claims[permits[s].claim].epoch .. currentEpoch
    BY <1>0, <1>2 DEF LedgerInv, AtomicInv, EpochsNeverRegress, AtomicTypeOK, Committed, Commit
  <2>4. claims[commits[s].claim].epoch # 0
    BY <1>e, <2>2, <2>3
  <2> QED BY <1>0, <1>2, <1>e, <2>3, <2>4 DEF RowsStay
<1>3. ASSUME NEW s \in Step, Committed(s)'
      PROVE  /\ Started(s)'
             /\ Answered(s)' => commits'[s].completion = AnswerTo(s)'
             /\ ~Answered(s)' => EmptyReplies
             /\ claims'[calls'[s].claim].epoch <= Epochs(s)'
             /\ recons'[s] # None => claims'[recons'[s]].epoch <= Epochs(s)'
  <2>1. CASE Committed(s)
    <3>1. /\ Started(s) /\ Started(s)' /\ calls'[s].claim = calls[s].claim
          /\ Answered(s) => Answered(s)' /\ AnswerTo(s)' = AnswerTo(s)
          /\ commits'[s] = commits[s]
      BY <1>0, <1>2, <2>1 DEF CommitsFollowCalls, RowsStay, AnswerTo
    <3>2. Answered(s)' => Answered(s)
      BY <1>0, <2>1 DEF Common, OwnRowsOnly, CallsAreOwned, OwnsCall, At
    <3>3. recons'[s] = recons[s]
      BY <2>1, NewRowsAreCurrent
    <3>4. Epochs(s)' = Epochs(s)
      BY <1>2, <2>1 DEF Epochs
    <3>5. /\ claims'[calls'[s].claim].epoch <= Epochs(s)'
          /\ recons'[s] # None => claims'[recons'[s]].epoch <= Epochs(s)'
      BY <1>0, <1>1, <2>1, <3>1, <3>3, <3>4 DEF CommitsFollowCalls
    <3> QED BY <1>0, <2>1, <3>1, <3>2, <3>5 DEF CommitsFollowCalls
  <2>2. CASE ~Committed(s)
    <3>1. /\ At(w, "commit") /\ s = proc[w].step
          /\ commits'[s].claim = w /\ claims'[w].epoch = currentEpoch'
          /\ commits'[s].completion = proc[w].completion
      BY <1>3, <2>2, NewRowsAreCurrent DEF Common, OwnRowsOnly
    <3>2. /\ Started(s) /\ Started(s)' /\ calls'[s].claim = calls[s].claim
          /\ Answered(s) => /\ proc[w].completion = AnswerTo(s)
                            /\ AnswerTo(s)' = AnswerTo(s)
                            /\ Answered(s)'
          /\ ~Answered(s) => EmptyReplies
      BY <1>0, <3>1 DEF CallsAreOwned, RowsStay, AnswerTo
    <3>3. Answered(s)' => Answered(s)
      BY <3>1 DEF Common, OwnRowsOnly, At
    <3>4. recons'[s] # None => recons'[s] \in Workers
      BY <1>0 DEF LedgerInv, LedgerTypeOK
    <3>5. /\ Epochs(s)' = currentEpoch'
          /\ calls'[s].claim \in Workers
      BY <1>1, <3>1, <3>2 DEF Epochs
    <3> QED BY <1>e, <3>1, <3>2, <3>3, <3>4, <3>5
  <2> QED BY <2>1, <2>2
<1>4. ASSUME NEW s \in Step, Authorized(s)', NEW t \in 0 .. s - 1
      PROVE  Epochs(t)' <= claims'[permits'[s].claim].epoch
  <2>0. t \in Step /\ t < s /\ s \in Nat
    BY StepCountAssumption DEF Step
  <2>1. CASE Authorized(s)
    <3>1. permits'[s] = permits[s]
      BY <1>0, <2>1 DEF RowsStay
    <3>2. permits[s].claim \in Workers /\ claims[permits[s].claim].epoch \in 1 .. currentEpoch
      BY <1>0, <2>1 DEF LedgerInv, AtomicInv, EpochsNeverRegress, AtomicTypeOK, Authorized, Permit
    <3>3. Committed(t)
      <4>1. s <= nextStep /\ nextStep \in Nat
        BY <1>0, <2>0, <2>1 DEF LedgerInv, AtomicInv, StepsAdvanceInOrder, AtomicTypeOK
      <4>2. t < nextStep
        BY <2>0, <4>1
      <4> QED BY <1>0, <2>0, <4>2 DEF LedgerInv, AtomicInv, StepsAdvanceInOrder
    <3>4. Epochs(t)' = Epochs(t)
      BY <1>2, <2>0, <3>3 DEF Epochs
    <3>5. claims'[permits[s].claim] = claims[permits[s].claim]
      BY <1>e, <3>2
    <3> QED BY <1>0, <2>1, <3>1, <3>4, <3>5 DEF CommitsFollowCalls
  <2>2. CASE ~Authorized(s)
    <3>1. permits'[s].claim = w /\ claims'[w].epoch = currentEpoch'
      BY <1>4, <2>2, NewRowsAreCurrent DEF Authorized
    <3>2. Committed(t)'
      <4>1. s <= nextStep' /\ nextStep' \in Nat
        BY <1>0, <1>4, <2>0 DEF LedgerInv, AtomicInv, StepsAdvanceInOrder, AtomicTypeOK
      <4>2. t < nextStep'
        BY <2>0, <4>1
      <4> QED BY <1>0, <2>0, <4>2 DEF LedgerInv, AtomicInv, StepsAdvanceInOrder
    <3>3. commits'[t].claim \in Workers
      BY <1>0, <2>0, <3>2 DEF LedgerInv, AtomicInv, AtomicTypeOK, Committed, Commit
    <3> QED BY <1>e, <3>1, <3>3 DEF Epochs
  <2> QED BY <2>1, <2>2
<1>5. ASSUME NEW s \in Step
      PROVE  Authorized(s)' => \A t \in 0 .. s - 1 : Epochs(t)' <= claims'[permits'[s].claim].epoch
  BY <1>4
<1> QED BY <1>3, <1>5 DEF CommitsFollowCalls

-----------------------------------------------------------------------------
(***************************************************************************)
(* The current process: nobody else writes, so what it has found holds     *)
(* until it acts, and it fails for good reasons only.                      *)
(***************************************************************************)
LEMMA CurrentMayWrite ==
    ASSUME CoordinatorInv, NEW w \in Workers, currentClaim = w, ~Published
    PROVE  AssertCurrentWorker(w, FALSE)
<1>1. currentEpoch \in Nat /\ currentEpoch > 0
  BY NoneAssumption DEF CoordinatorInv, CoordinatorTypeOK, ClaimsFormOneChain
<1>2. claims[w].epoch = currentEpoch
  BY <1>1 DEF CoordinatorInv, ClaimsFormOneChain
<1> QED BY <1>1, <1>2 DEF AssertCurrentWorker, Claimed

(* The one step that is authorized and not committed is the next one.      *)
LEMMA HeldStepIsNext ==
    ASSUME AtomicInv, NEW s \in Step, Authorized(s), ~Committed(s)
    PROVE  /\ s = nextStep /\ nextStep # StepCount
           /\ inFlight = permits[s]
           /\ ~completed /\ begun
<1>1. s \in Nat /\ s < StepCount /\ nextStep \in Nat
  BY StepCountAssumption DEF Step, AtomicInv, AtomicTypeOK
<1>2. s = nextStep /\ inFlight # None
  BY <1>1 DEF AtomicInv, StepsAdvanceInOrder
<1> QED BY <1>1, <1>2, StepCountAssumption DEF AtomicInv, StepsAdvanceInOrder

(* A call without a durable answer blocks the recovery.                    *)
LEMMA UncertainCallBlocks ==
    ASSUME AtomicInv, NEW s \in Step, Authorized(s), ~Committed(s),
           UNCHANGED atomicVars, calls'[s].state \in {"IN_FLIGHT", "UNCERTAIN"}
    PROVE  Blocked'
<1>1. /\ s = nextStep /\ nextStep # StepCount /\ ~completed /\ begun
  BY HeldStepIsNext
<1>2. Classification' = "FAIL_CLOSED_UNCERTAIN_PROVIDER_CALL"
  BY <1>1 DEF Classification, atomicVars, Authorized, Committed
<1> QED BY <1>2 DEF Blocked

LEMMA OnlyClaimsChangeTheCurrent ==
    ASSUME NEW w \in Workers, StepOf(w), ~ClaimAttempt(w)
    PROVE  /\ currentClaim' = currentClaim
           /\ publication' # publication => PublishRerun(w)
BY DEF StepOf, Crash, Reading, DriverStep, LoopStep, StartAttempt, BeginAttempt, StartUnresumed,
       StartResumed, MarkInFlight, MarkRestartInFlightUncertain, FinishActions, FinalizeAtomic,
       FinishCalls, ReserveInstant, ReservePublicationTime, PublishRerun, Publish, Republish,
       PurgeReplay, Purge, LoadPermit, LoadCommit, LoadProviderState, ReplayCommitted,
       ReplayAuthorized, Reconcile, RecordReconciliation, MarkRestart, MarkUncertain,
       ObtainPermit, Authorize, RefuseInput, RecordCall, BeginCall, SendCall, RefuseCall,
       ReceiveReply, ReceiveEmptyReply, LoseReply, RecordUncertainty, RecordCompletion,
       CompleteCall, CommitStep, CommitAction, BuildBundle, storeVars, coordinatorVars

(* The current process before its own step.                                *)
Current(w) ==
    /\ Common(w)
    /\ currentClaim = w
    /\ currentClaim' = w
    /\ proc[w].pc \notin {"purge", "done", "dead"} => ~Published

LEMMA CurrentFacts ==
    ASSUME NEW w \in Workers, Common(w), currentClaim' = w, ~ClaimAttempt(w)
    PROVE  Current(w)
BY OnlyClaimsChangeTheCurrent DEF Current, Common, RecoveryInv, CurrentIsAlone

LEMMA AloneAtTheStart ==
    ASSUME NEW w \in Workers, Current(w),
           StartAttempt(w) \/ StartUnresumed(w) \/ StartResumed(w) \/ MarkInFlight(w)
    PROVE  CurrentIsAlone(w)'
<1>0. /\ ProcessTypeOK /\ At(w, "start") /\ ~proc[w].resume /\ ~Published
  BY DEF Current, Common, RecoveryInv, LocalsAreStored, At, StartAttempt, StartUnresumed,
         StartResumed, MarkInFlight
<1>1. publication' = publication
  BY DEF StartAttempt, StartUnresumed, StartResumed, MarkInFlight, BeginAttempt, Reading,
         MarkRestartInFlightUncertain, storeVars, coordinatorVars
<1>2. CASE Fail(w)
  BY <1>0, <1>1, <1>2, FailEnds
     DEF CurrentIsAlone, At, Published, HoldsPermit
<1>3. CASE proc'[w].pc = "step" \/ proc' = proc
  BY <1>0, <1>1, <1>3 DEF CurrentIsAlone, At, Published, HoldsPermit
<1>4. Fail(w) \/ proc'[w].pc = "step" \/ proc' = proc
  BY <1>0 DEF StartAttempt, StartUnresumed, StartResumed, MarkInFlight, Goto, ProcessTypeOK, Process
<1> QED BY <1>2, <1>3, <1>4

LEMMA AloneAtTheHead ==
    ASSUME NEW w \in Workers, Current(w),
           LoadPermit(w) \/ LoadCommit(w) \/ LoadProviderState(w)
    PROVE  CurrentIsAlone(w)'
<1>0. /\ ProcessTypeOK /\ LedgerInv /\ LocalsAreStored(w) /\ proc[w] \in Process
      /\ CurrentIsAlone(w) /\ currentClaim = w
  BY DEF Current, Common, RecoveryInv, ProcessTypeOK
<1>1. ~Published
  BY DEF Current, LoadPermit, LoadCommit, LoadProviderState, At
<1>2. UNCHANGED <<publication, atomicVars, calls, permits, commits>>
  BY DEF LoadPermit, LoadCommit, LoadProviderState, Reading, storeVars, coordinatorVars,
         atomicVars, ledgerVars
<1>s. PICK s : s = proc[w].step
  OBVIOUS
<1>3. CASE LoadPermit(w)
  <2>1. CASE proc[w].resume
    <3>1. /\ proc'[w].pc = "readCommit" /\ proc'[w].step = s
          /\ proc'[w].permit = permits[s]
      BY <1>0, <1>s, <1>3, <2>1 DEF LoadPermit, ProcessTypeOK, Process
    <3> QED BY <1>1, <1>2, <3>1 DEF CurrentIsAlone, At, Published, HoldsPermit, Authorized
  <2>2. CASE ~proc[w].resume
    <3>1. proc'[w].pc = "authorize" /\ ~proc'[w].resume
      BY <1>0, <1>3, <2>2 DEF LoadPermit, ProcessTypeOK, Process
    <3> QED BY <1>1, <1>2, <3>1 DEF CurrentIsAlone, At, Published, HoldsPermit
  <2> QED BY <2>1, <2>2
<1>4. CASE LoadCommit(w)
  <2>1. /\ proc'[w].pc = "readState" /\ proc'[w].step = s
        /\ proc'[w].permit = proc[w].permit /\ proc'[w].commit = commits[s]
    BY <1>0, <1>s, <1>4 DEF LoadCommit, ProcessTypeOK, Process
  <2>2. proc[w].permit = None => ~Authorized(s)
    BY <1>0, <1>s, <1>4 DEF LoadCommit, CurrentIsAlone, At
  <2> QED BY <1>1, <1>2, <2>1, <2>2
       DEF CurrentIsAlone, At, Published, HoldsPermit, Authorized, Committed
<1>5. CASE LoadProviderState(w)
  <2>1. /\ s \in Step /\ At(w, "readState")
        /\ proc[w].permit = None => ~Authorized(s)
        /\ proc[w].commit = None => ~Committed(s)
        /\ proc[w].permit # None => Authorized(s)
        /\ proc[w].commit # None => Committed(s)
    BY <1>0, <1>s, <1>5
       DEF LoadProviderState, CurrentIsAlone, LocalsAreStored, At, InStep, Authorized, Committed
  <2>2. calls[s].state \in CallStates
    BY <1>0, <2>1 DEF LedgerInv, LedgerTypeOK, Call
  <2>3. ASSUME NEW pc, pc # "failed", Goto(w, pc),
               pc = ResumePoint(proc[w].permit, proc[w].commit, calls[s].state)
        PROVE  CurrentIsAlone(w)'
    <3>1. Moves(w, pc)
      BY <1>0, <2>3, GotoMoves
    <3>2. /\ pc \in {"replayCommitted", "authorize", "replay", "markRestart", "begin"}
          /\ pc \in {"replay", "markRestart", "begin"} => ~Committed(s)
          /\ pc = "authorize" => ~Authorized(s)
          /\ pc = "begin" => ~Started(s)
          /\ pc = "markRestart" => calls[s].state = "IN_FLIGHT"
      BY <2>1, <2>2, <2>3 DEF ResumePoint, CallStates, Started
    <3> QED BY <1>s, <1>1, <1>2, <3>1, <3>2
         DEF Moves, CurrentIsAlone, At, Published, HoldsPermit, Authorized, Committed, Started
  <2>4. CASE Fail(w) /\ ResumePoint(proc[w].permit, proc[w].commit, calls[s].state) = "failed"
    <3>1. Blocked'
      <4>1. CASE Committed(s)
        <5>1. calls[s].state # "COMPLETED"
          BY <2>1, <2>2, <2>4, <4>1 DEF ResumePoint
        <5>2. Unanswered(s)'
          BY <1>2, <4>1, <5>1 DEF Unanswered, Committed
        <5> QED BY <2>1, <5>2 DEF Blocked
      <4>2. CASE ~Committed(s)
        <5>1. Authorized(s) /\ calls[s].state = "UNCERTAIN"
          BY <2>1, <2>2, <2>4, <4>2 DEF ResumePoint, CallStates
        <5> QED BY <1>0, <1>2, <2>1, <4>2, <5>1, UncertainCallBlocks DEF LedgerInv
      <4> QED BY <4>1, <4>2
    <3>2. proc'[w].pc = "failed"
      BY <1>0, <2>4, FailEnds
    <3> QED BY <1>1, <1>2, <3>1, <3>2 DEF CurrentIsAlone, At, Published, HoldsPermit
  <2> QED BY <1>5, <1>s, <2>3, <2>4 DEF LoadProviderState
<1> QED BY <1>3, <1>4, <1>5

(* An unpublished attempt keeps its replay material, so a current process  *)
(* never fails to replay, and the replay comes out as it was committed.    *)
LEMMA AloneInReplay ==
    ASSUME NEW w \in Workers, Current(w),
           ReplayCommitted(w) \/ ReplayAuthorized(w) \/ Reconcile(w) \/ MarkRestart(w)
    PROVE  CurrentIsAlone(w)'
<1>0. /\ ProcessTypeOK /\ LedgerInv /\ AtomicInv /\ LocalsAreStored(w) /\ CallsAreOwned(w)
      /\ proc[w] \in Process /\ RowsAgree /\ CommitsFollowCalls
      /\ CurrentIsAlone(w) /\ currentClaim = w
  BY DEF Current, Common, RecoveryInv, ProcessTypeOK, LedgerInv
<1>s. PICK s : s = proc[w].step
  OBVIOUS
<1>1. /\ ~Published /\ s \in Step
      /\ proc[w].pc \in {"replayCommitted", "replay", "reconcile", "markRestart"}
  BY <1>0, <1>s DEF Current, ReplayCommitted, ReplayAuthorized, Reconcile, MarkRestart, At,
     LocalsAreStored, InStep, HoldsPermit
<1>2. UNCHANGED <<publication, atomicVars, permits, commits>>
  BY DEF ReplayCommitted, ReplayAuthorized, Reconcile, RecordReconciliation, MarkRestart,
         MarkUncertain, Reading, storeVars, coordinatorVars, atomicVars
<1>3. Answered(s) => Replayable(s) /\ ReplayedCompletion(s) = AnswerTo(s)
  BY <1>0, <1>1, ReplayIsTheAnswer DEF Replayable, RowsAgree, Answered
<1>4. CASE ReplayCommitted(w)
  <2>1. /\ Answered(s) /\ Committed(s) /\ proc[w].commit = commits[s]
    BY <1>0, <1>s, <1>4 DEF ReplayCommitted, LocalsAreStored, CallsAreOwned, At, Committed
  <2>2. commits[s].completion = AnswerTo(s)
    BY <1>0, <1>1, <2>1 DEF CommitsFollowCalls
  <2>3. ReplayMatches(w)
    BY <1>s, <1>3, <2>1, <2>2 DEF ReplayMatches
  <2>4. proc'[w].pc = "step"
    BY <1>0, <1>4, <2>3, NextIterationIterates DEF ReplayCommitted, Iterates
  <2> QED BY <1>1, <1>2, <2>4 DEF CurrentIsAlone, At, Published, HoldsPermit
<1>5. CASE ReplayAuthorized(w)
  <2>1. Answered(s) /\ ~Committed(s)
    BY <1>0, <1>s, <1>5 DEF ReplayAuthorized, CallsAreOwned, CurrentIsAlone, At, HoldsPermit
  <2>2. proc'[w].pc = "reconcile" /\ proc'[w].step = s
    BY <1>0, <1>s, <1>3, <1>5, <2>1 DEF ReplayAuthorized, ProcessTypeOK, Process
  <2> QED BY <1>1, <1>2, <2>1, <2>2 DEF CurrentIsAlone, At, Published, HoldsPermit, Committed
<1>6. CASE Reconcile(w)
  <2>1. AssertCurrentWorker(w, FALSE) /\ ~Committed(s)
    BY <1>0, <1>s, <1>1, <1>6, CurrentMayWrite
       DEF AtomicInv, Reconcile, CurrentIsAlone, At, HoldsPermit
  <2>2. Moves(w, "commit")
    BY <1>0, <1>6, <2>1, GotoMoves DEF Reconcile
  <2> QED BY <1>s, <1>1, <1>2, <2>1, <2>2
       DEF Moves, CurrentIsAlone, At, Published, HoldsPermit, Committed
<1>7. CASE MarkRestart(w)
  <2>1. /\ At(w, "markRestart") /\ ~Committed(s) /\ Authorized(s)
        /\ calls[s].state = "IN_FLIGHT" /\ proc[w].permit.step = s
    BY <1>0, <1>s, <1>7, HeldPermitIsStored DEF MarkRestart, CurrentIsAlone, At, HoldsPermit
  <2>2. calls'[s].state \in {"IN_FLIGHT", "UNCERTAIN"}
    <3>1. CASE MarkUncertain(w, proc[w].permit)
      BY <1>0, <1>1, <2>1, <3>1 DEF MarkUncertain, LedgerInv, LedgerTypeOK, Call
    <3>2. CASE UNCHANGED storeVars
      BY <2>1, <3>2 DEF storeVars, ledgerVars
    <3> QED BY <1>7, <3>1, <3>2 DEF MarkRestart
  <2>3. Blocked'
    BY <1>0, <1>1, <1>2, <2>1, <2>2, UncertainCallBlocks
  <2>4. proc'[w].pc = "failed"
    BY <1>0, <1>7, FailEnds DEF MarkRestart
  <2> QED BY <1>1, <1>2, <2>3, <2>4 DEF CurrentIsAlone, At, Published, HoldsPermit
<1> QED BY <1>4, <1>5, <1>6, <1>7

LEMMA AloneInTheCall ==
    ASSUME NEW w \in Workers, Current(w),
           ObtainPermit(w) \/ RefuseInput(w) \/ RecordCall(w)
    PROVE  CurrentIsAlone(w)'
<1>0. /\ ProcessTypeOK /\ LedgerInv /\ AtomicInv /\ CoordinatorInv /\ AtomicTypeOK
      /\ LocalsAreStored(w) /\ proc[w] \in Process
      /\ CurrentIsAlone(w) /\ currentClaim = w
  BY DEF Current, Common, RecoveryInv, ProcessTypeOK, LedgerInv, AtomicInv
<1>s. PICK s : s = proc[w].step
  OBVIOUS
<1>1. /\ ~Published /\ s \in Step /\ begun
      /\ proc[w].pc \in {"authorize", "begin"}
  BY <1>0, <1>s DEF Current, ObtainPermit, RefuseInput, RecordCall, At, LocalsAreStored, InStep,
     HoldsPermit, Stopped
<1>2. publication' = publication
  BY DEF ObtainPermit, Authorize, RefuseInput, RecordCall, BeginCall, Reading, storeVars,
         coordinatorVars
<1>3. AssertCurrentWorker(w, FALSE)
  BY <1>0, <1>1, CurrentMayWrite
<1>4. CASE ObtainPermit(w)
  <2>1. CASE AuthorizeAllowed(w, s)
    <3>1. Authorize(w, s) /\ proc' = [proc EXCEPT ![w].permit = permits'[s], ![w].pc = "begin"]
      BY <1>s, <1>4, <2>1 DEF ObtainPermit
    <3>2. proc'[w].pc = "begin" /\ proc'[w].step = s
      BY <1>0, <1>s, <3>1 DEF ProcessTypeOK, Process
    <3>3. ~Committed(s)
      BY <1>0, <1>1, <2>1, StepIsNat DEF AuthorizeAllowed, AtomicInv, StepsAdvanceInOrder
    <3>4. ~Started(s)
      BY <1>0, <1>1, <2>1 DEF AuthorizeAllowed, LedgerInv, CallsFollowTheirPermits
    <3>5. commits' = commits /\ calls' = calls
      BY <1>4, <3>1 DEF ObtainPermit, OnActions, Authorize, ledgerVars
    <3> QED BY <1>1, <1>2, <3>2, <3>3, <3>4, <3>5
         DEF CurrentIsAlone, At, Published, HoldsPermit, Committed, Started
  <2>2. CASE ~AuthorizeAllowed(w, s)
    <3>1. Fail(w) /\ ~Authorize(w, s)
      BY <1>s, <1>4, <2>2 DEF ObtainPermit, Authorize
    <3>2. ASSUME proc[w].resume
          PROVE  AuthorizeAllowed(w, s)
      <4>1. ~Authorized(s)
        BY <1>0, <1>s, <1>4, <3>2 DEF ObtainPermit, CurrentIsAlone
      <4>2. s <= nextStep /\ nextStep \in Nat /\ s \in Nat /\ s < StepCount
        BY <1>0, <1>1, <1>s, EarlierStepsAreCommitted, StepCountAssumption DEF Step
      <4>3. s = nextStep /\ inFlight = None
        BY <1>0, <1>1, <4>1, <4>2 DEF AtomicInv, StepsAdvanceInOrder
      <4>4. completed \in BOOLEAN /\ ~completed
        BY <1>0, <4>2, <4>3, StepCountAssumption DEF AtomicInv, AtomicTypeOK, StepsAdvanceInOrder
      <4> QED BY <1>1, <1>3, <4>1, <4>3, <4>4 DEF AuthorizeAllowed
    <3>3. proc'[w].pc = "failed" /\ ~proc'[w].resume
      BY <1>0, <2>2, <3>1, <3>2, FailEnds
    <3> QED BY <1>1, <1>2, <3>3 DEF CurrentIsAlone, At, Published, HoldsPermit
  <2> QED BY <2>1, <2>2
<1>5. CASE RefuseInput(w)
  <2>1. ~Committed(s) /\ Authorized(s) /\ s \in oversized
    BY <1>0, <1>s, <1>5, HeldPermitIsStored
       DEF RefuseInput, CurrentIsAlone, At, HoldsPermit, OverBudget
  <2>2. s = nextStep
    BY <1>0, <1>1, <2>1, HeldStepIsNext
  <2>3. UNCHANGED <<nextStep, oversized>> /\ proc'[w].pc = "failed"
    BY <1>0, <1>5, FailEnds DEF RefuseInput, Reading, storeVars, atomicVars
  <2>4. Blocked'
    BY <2>1, <2>2, <2>3 DEF Blocked, StuckOverBudget
  <2> QED BY <1>1, <1>2, <2>3, <2>4 DEF CurrentIsAlone, At, Published, HoldsPermit
<1>6. CASE RecordCall(w)
  <2>1. ~Committed(s) /\ ~Started(s) /\ proc[w].permit.step = s
    BY <1>0, <1>s, <1>6, HeldPermitIsStored DEF RecordCall, CurrentIsAlone, At, HoldsPermit
  <2>2. BeginCallAllowed(w, proc[w].permit)
    BY <1>3, <2>1 DEF BeginCallAllowed
  <2>3. Moves(w, "call") /\ commits' = commits
    BY <1>0, <1>6, <2>2, GotoMoves DEF RecordCall, BeginCall, atomicVars
  <2> QED BY <1>s, <1>1, <1>2, <2>1, <2>3
       DEF Moves, CurrentIsAlone, At, Published, HoldsPermit, Committed
<1> QED BY <1>4, <1>5, <1>6

LEMMA AloneOnTheLine ==
    ASSUME NEW w \in Workers, Current(w),
           SendCall(w) \/ RefuseCall(w) \/ ReceiveReply(w) \/ ReceiveEmptyReply(w) \/ LoseReply(w)
           \/ RecordUncertainty(w) \/ RecordCompletion(w) \/ CommitStep(w)
    PROVE  CurrentIsAlone(w)'
<1>0. /\ ProcessTypeOK /\ LedgerInv /\ AtomicInv /\ CoordinatorInv /\ LedgerTypeOK
      /\ LocalsAreStored(w) /\ CallsAreOwned(w) /\ proc[w] \in Process
      /\ CurrentIsAlone(w) /\ currentClaim = w
  BY DEF Current, Common, RecoveryInv, ProcessTypeOK, LedgerInv, AtomicInv
<1>s. PICK s : s = proc[w].step
  OBVIOUS
<1>1. /\ ~Published /\ s \in Step /\ begun /\ Authorized(s) /\ ~Committed(s)
      /\ proc[w].permit.step = s /\ proc[w].permit = permits[s]
      /\ proc[w].pc \in OwnsCall \cup {"commit"}
  <2>1. proc[w].pc \in OwnsCall \cup {"commit"}
    BY DEF SendCall, RefuseCall, ReceiveReply, ReceiveEmptyReply, LoseReply, RecordUncertainty,
           RecordCompletion, CommitStep, At, OwnsCall
  <2>2. proc[w].pc \in HoldsPermit /\ proc[w].pc \notin Stopped \cup {"purge", "done"}
    BY <2>1 DEF OwnsCall, HoldsPermit, Stopped
  <2> QED BY <1>0, <1>s, <2>1, <2>2, HeldPermitIsStored
       DEF Current, CurrentIsAlone, LocalsAreStored, Stopped
<1>2. publication' = publication
  BY DEF SendCall, RefuseCall, ReceiveReply, ReceiveEmptyReply, LoseReply, RecordUncertainty,
         MarkUncertain, RecordCompletion, CompleteCall, CommitStep, CommitAction, Reading,
         storeVars, coordinatorVars
<1>3. proc[w].pc \in OwnsCall => calls[s].state \in {"IN_FLIGHT", "UNCERTAIN"}
  BY <1>0, <1>s DEF CallsAreOwned
<1>4. ASSUME UNCHANGED commits, proc'[w].step = s,
             proc'[w].pc \in {"awaiting", "uncertain", "complete", "commit"}
      PROVE  CurrentIsAlone(w)'
  BY <1>1, <1>2, <1>4 DEF CurrentIsAlone, At, Published, Committed
<1>5. ASSUME UNCHANGED atomicVars, proc'[w].pc = "failed",
             calls'[s].state \in {"IN_FLIGHT", "UNCERTAIN"}
      PROVE  CurrentIsAlone(w)'
  <2>1. Blocked'
    BY <1>0, <1>1, <1>5, UncertainCallBlocks
  <2> QED BY <1>1, <1>2, <1>5, <2>1 DEF CurrentIsAlone, At, Published, HoldsPermit
<1>6. CASE SendCall(w) \/ RefuseCall(w) \/ LoseReply(w)
  <2>1. Moves(w, "awaiting") \/ Moves(w, "uncertain")
    BY <1>0, <1>6, GotoMoves DEF SendCall, RefuseCall, LoseReply
  <2>2. commits' = commits
    BY <1>6 DEF SendCall, RefuseCall, LoseReply, Reading, storeVars, atomicVars
  <2> QED BY <1>s, <1>4, <2>1, <2>2 DEF Moves
<1>7. CASE ReceiveReply(w)
  <2>1. proc'[w].pc = "complete" /\ proc'[w].step = s
    BY <1>0, <1>s, <1>7 DEF ReceiveReply, ProcessTypeOK, Process
  <2>2. commits' = commits
    BY <1>7 DEF ReceiveReply, Reading, storeVars, atomicVars
  <2> QED BY <1>4, <2>1, <2>2
<1>8. CASE ReceiveEmptyReply(w)
  <2>1. UNCHANGED <<atomicVars, commits, calls>>
    BY <1>8 DEF ReceiveEmptyReply, Reading, storeVars, atomicVars, ledgerVars
  <2>2. CASE Fail(w)
    BY <1>0, <1>3, <1>5, <1>8, <2>1, <2>2, FailEnds DEF ReceiveEmptyReply, At, OwnsCall
  <2>3. CASE Goto(w, "commit")
    BY <1>0, <1>s, <1>4, <2>1, <2>3, GotoMoves DEF Moves
  <2> QED BY <1>8, <2>2, <2>3 DEF ReceiveEmptyReply
<1>9. CASE RecordUncertainty(w)
  <2>1. calls'[s].state \in {"IN_FLIGHT", "UNCERTAIN"} /\ UNCHANGED atomicVars
    <3>1. CASE MarkUncertain(w, proc[w].permit)
      BY <1>0, <1>1, <3>1 DEF MarkUncertain, LedgerTypeOK, Call
    <3>2. CASE UNCHANGED storeVars
      BY <1>3, <1>9, <3>2 DEF RecordUncertainty, At, OwnsCall, storeVars, ledgerVars
    <3> QED BY <1>9, <3>1, <3>2 DEF RecordUncertainty
  <2> QED BY <1>0, <1>5, <1>9, <2>1, FailEnds DEF RecordUncertainty
<1>10. CASE RecordCompletion(w)
  <2>1. CASE Fail(w) /\ UNCHANGED storeVars
    BY <1>0, <1>3, <1>5, <1>10, <2>1, FailEnds
       DEF RecordCompletion, At, OwnsCall, storeVars, ledgerVars
  <2>2. CASE CompleteCall(w, proc[w].permit, proc[w].response) /\ ~Fail(w)
    <3>1. proc'[w].pc = "commit" /\ proc'[w].step = s /\ commits' = commits
      BY <1>0, <1>s, <1>10, <2>2
         DEF RecordCompletion, CompleteCall, atomicVars, ProcessTypeOK, Process
    <3> QED BY <1>4, <3>1
  <2>3. CASE /\ CompleteCall(w, proc[w].permit, proc[w].response)
             /\ proc' = [proc EXCEPT
                           ![w].completion = [step |-> proc[w].step, response |-> proc[w].response],
                           ![w].pc = "commit"]
    <3>1. proc'[w].pc = "commit" /\ proc'[w].step = s /\ commits' = commits
      BY <1>0, <1>s, <2>3 DEF CompleteCall, atomicVars, ProcessTypeOK, Process
    <3> QED BY <1>4, <3>1
  <2> QED BY <1>10, <2>1, <2>3 DEF RecordCompletion
<1>11. CASE CommitStep(w)
  <2>1. AssertCurrentWorker(w, FALSE)
    BY <1>0, <1>1, CurrentMayWrite
  <2>2. inFlight = permits[s]
    BY <1>0, <1>1, HeldStepIsNext
  <2>3. CommitAllowed(w, proc[w].permit)
    BY <1>1, <2>1, <2>2 DEF CommitAllowed
  <2>4. proc'[w].pc = "step"
    BY <1>0, <1>11, <2>3, NextIterationIterates DEF CommitStep, Iterates
  <2> QED BY <1>1, <1>2, <2>4 DEF CurrentIsAlone, At, Published, HoldsPermit
<1> QED BY <1>6, <1>7, <1>8, <1>9, <1>10, <1>11

(* Receipts of two steps name two reviewers, unless a step was committed   *)
(* without its durable answer.                                             *)
LEMMA OneReceiptEach ==
    ASSUME LedgerInv, ProcessTypeOK, CommitsFollowCalls, NEW w \in Workers, LocalsAreStored(w),
           ~\E s \in Step : Unanswered(s)
    PROVE  OneReceiptPerReviewer(w)
<1>1. proc[w].step \in 0 .. StepCount /\ DOMAIN proc[w].receipts = 1 .. proc[w].step
  BY DEF ProcessTypeOK, Process, LocalsAreStored
<1>2. ASSUME NEW i \in 1 .. proc[w].step
      PROVE  proc[w].receipts[i].step = i - 1
  <2>1. i - 1 \in Step
    BY <1>1, StepCountAssumption DEF Step
  <2>2. Committed(i - 1) /\ commits[i - 1].completion = proc[w].receipts[i]
    BY DEF LocalsAreStored
  <2>3. commits[i - 1].completion = AnswerTo(i - 1)
    BY <2>1, <2>2 DEF Unanswered, Answered, CommitsFollowCalls
  <2> QED BY <2>2, <2>3 DEF AnswerTo
<1>3. \A i, j \in 1 .. proc[w].step : i - 1 = j - 1 => i = j
  BY <1>1, StepCountAssumption
<1> QED BY <1>1, <1>2, <1>3 DEF OneReceiptPerReviewer

LEMMA AloneAfterTheLoop ==
    ASSUME NEW w \in Workers, Current(w),
           BuildBundle(w) \/ FinishActions(w) \/ FinishCalls(w)
           \/ ReserveInstant(w) \/ PublishRerun(w) \/ PurgeReplay(w)
    PROVE  CurrentIsAlone(w)'
<1>0. /\ ProcessTypeOK /\ LedgerInv /\ AtomicInv /\ CoordinatorInv /\ LedgerTypeOK
      /\ LocalsAreStored(w) /\ CallsAreOwned(w) /\ proc[w] \in Process
      /\ CommitsFollowCalls /\ currentClaim = w
  BY DEF Current, Common, RecoveryInv, ProcessTypeOK, LedgerInv, AtomicInv
<1>1. CASE proc'[w].pc \in {"purge", "done"}
  BY <1>1 DEF CurrentIsAlone, At, HoldsPermit
<1>2. ASSUME publication' = publication, ~Published,
             proc'[w].pc \in {"finalize", "chain", "publish"}
      PROVE  CurrentIsAlone(w)'
  BY <1>2 DEF CurrentIsAlone, At, HoldsPermit, Published
<1>3. ASSUME publication' = publication, ~Published, Fail(w), Blocked'
      PROVE  CurrentIsAlone(w)'
  BY <1>0, <1>3, FailEnds DEF CurrentIsAlone, At, HoldsPermit, Published
<1>4. ~PurgeReplay(w) => ~Published /\ AssertCurrentWorker(w, FALSE)
  BY <1>0, CurrentMayWrite
     DEF Current, BuildBundle, FinishActions, FinishCalls, ReserveInstant, PublishRerun, At
<1>5. ~PurgeReplay(w) => nextStep = StepCount
  BY <1>0, EarlierStepsAreCommitted, StepCountAssumption
     DEF BuildBundle, FinishActions, FinishCalls, ReserveInstant, PublishRerun, At,
         LocalsAreStored, AfterLoop
<1>6. CASE BuildBundle(w) /\ ~PurgeReplay(w)
  <2>1. UNCHANGED <<publication, storeVars, nextStep, commits, calls, oversized>>
        /\ proc[w].step = StepCount
    BY <1>6 DEF BuildBundle, Reading, storeVars, coordinatorVars, atomicVars, ledgerVars
  <2>2. CASE OneReceiptPerReviewer(w) /\ ~OverBudget(w)
    BY <1>0, <1>2, <1>4, <1>6, <2>1, <2>2, GotoMoves DEF BuildBundle, Moves
  <2>3. CASE OverBudget(w)
    <3>1. Blocked'
      BY <1>5, <1>6, <2>1, <2>3 DEF Blocked, StuckOverBudget, OverBudget
    <3> QED BY <1>3, <1>4, <1>6, <2>1, <2>3, <3>1 DEF BuildBundle
  <2>4. CASE ~OneReceiptPerReviewer(w)
    <3>1. PICK s \in Step : Unanswered(s)
      BY <1>0, <2>4, OneReceiptEach
    <3>2. Unanswered(s)'
      BY <2>1, <3>1 DEF Unanswered, Committed
    <3>3. Blocked'
      BY <3>2 DEF Blocked
    <3> QED BY <1>3, <1>4, <1>6, <2>1, <2>4, <3>3 DEF BuildBundle
  <2> QED BY <2>2, <2>3, <2>4
<1>7. CASE FinishActions(w) /\ ~PurgeReplay(w)
  <2>1. begun
    BY <1>0, <1>7 DEF FinishActions, LocalsAreStored, At, Stopped
  <2>2. \A s \in Step : Committed(s) /\ Authorized(s)
    BY <1>0, <1>5, <1>7, StepCountAssumption DEF AtomicInv, StepsAdvanceInOrder, Step
  <2>3. inFlight = None
    BY <1>0, <1>5, <1>7, StepCountAssumption DEF AtomicInv, StepsAdvanceInOrder
  <2>4. FinalizeAllowed(w)
    BY <1>4, <1>5, <1>7, <2>1, <2>2, <2>3 DEF FinalizeAllowed
  <2>5. Moves(w, "chain") /\ publication' = publication
    BY <1>0, <1>7, <2>4, GotoMoves DEF FinishActions, FinalizeAtomic, coordinatorVars
  <2> QED BY <1>2, <1>4, <1>7, <2>5 DEF Moves
<1>8. CASE FinishCalls(w) /\ ~PurgeReplay(w)
  <2>1. UNCHANGED <<publication, commits, calls>>
    BY <1>8 DEF FinishCalls, Reading, storeVars, coordinatorVars, atomicVars, ledgerVars
  <2>2. CASE CallsComplete
    BY <1>0, <1>2, <1>4, <1>8, <2>1, <2>2, GotoMoves DEF FinishCalls, Moves
  <2>3. CASE ~CallsComplete
    <3>1. PICK s \in Step : calls[s].state # "COMPLETED"
      BY <2>3 DEF CallsComplete
    <3>2. Committed(s)
      BY <1>0, <1>5, <1>8, AllStepsCommitted
    <3>3. Unanswered(s)'
      BY <2>1, <3>1, <3>2 DEF Unanswered, Committed
    <3>4. Blocked'
      BY <3>3 DEF Blocked
    <3> QED BY <1>3, <1>4, <1>8, <2>1, <2>3, <3>4 DEF FinishCalls
  <2> QED BY <2>2, <2>3
<1>9. reservation # None => reservation.by = w
  BY <1>0 DEF CoordinatorInv, ReservationIsTheCurrentWorkers
<1>10. CASE ReserveInstant(w) /\ ~PurgeReplay(w)
  <2>1. ReservationAllowed(w)
    BY <1>4, <1>9, <1>10 DEF ReservationAllowed
  <2>2. proc' = proc /\ publication' = publication
    BY <1>10, <2>1 DEF ReserveInstant, ReservePublicationTime
  <2> QED BY <1>2, <1>4, <1>10, <2>2 DEF ReserveInstant, At
<1>11. CASE PublishRerun(w) /\ ~PurgeReplay(w)
  <2>1. PublishAllowed(w)
    BY <1>4, <1>9, <1>11 DEF PublishAllowed
  <2>2. Goto(w, "purge")
    BY <1>11, <2>1 DEF PublishRerun
  <2> QED BY <1>0, <1>1, <2>2, GotoMoves DEF Moves
<1>12. CASE PurgeReplay(w)
  <2>1. Moves(w, "done")
    BY <1>0, <1>12, GotoMoves DEF PurgeReplay, Goto
  <2> QED BY <1>1, <2>1 DEF Moves
<1> QED BY <1>6, <1>7, <1>8, <1>10, <1>11, <1>12

LEMMA CurrentStaysAlone ==
    ASSUME NEW w \in Workers, Common(w)
    PROVE  \A v \in Workers : CurrentIsAlone(v)'
<1>1. CASE currentClaim' # w
  BY <1>1, OthersStayAlone DEF CurrentIsAlone
<1>2. CASE ClaimAttempt(w)
  <2>1. Moves(w, "start") /\ ~Published' /\ ~proc[w].resume
    BY <1>2, GotoMoves
       DEF ClaimAttempt, ClaimWorker, ClaimAllowed, Published, Common, RecoveryInv, LocalsAreStored
  <2>2. CurrentIsAlone(w)'
    BY <2>1 DEF CurrentIsAlone, Moves, At, HoldsPermit
  <2> QED BY <2>2, OthersStayAlone
<1>3. CASE Crash(w)
  <2>1. CurrentIsAlone(w)'
    BY <1>3, CrashEnds DEF Common, RecoveryInv, CurrentIsAlone, At, HoldsPermit
  <2> QED BY <2>1, OthersStayAlone
<1>4. CASE currentClaim' = w /\ ~ClaimAttempt(w) /\ ~Crash(w)
  <2>1. Current(w)
    BY <1>4, CurrentFacts
  <2>2. DriverStep(w) \/ LoopStep(w)
    BY <1>4 DEF Common, StepOf
  <2>3. CurrentIsAlone(w)'
    BY <2>1, <2>2, AloneAtTheStart, AloneAtTheHead, AloneInReplay, AloneInTheCall,
       AloneOnTheLine, AloneAfterTheLoop DEF DriverStep, LoopStep
  <2> QED BY <2>3, OthersStayAlone
<1> QED BY <1>1, <1>2, <1>3, <1>4

-----------------------------------------------------------------------------
(***************************************************************************)
(* The theorems.                                                           *)
(***************************************************************************)
LEMMA RecoveryInvInit == Init => RecoveryInv
<1> SUFFICES ASSUME Init
             PROVE  RecoveryInv
  OBVIOUS
<1>1. LedgerInv
  BY LedgerInvInit DEF Init, AllStoresInit, StoresInit
<1>2. ProcessTypeOK
  <2>1. Fresh("idle") \in Process
    BY FreshIsTyped DEF ProgramCounters
  <2> QED BY <2>1 DEF Init, ProcessTypeOK
<1>3. /\ ~begun /\ ~Published /\ currentClaim = None
      /\ \A w \in Workers : ~Claimed(w)
      /\ \A s \in Step : ~Committed(s) /\ ~Authorized(s) /\ calls[s] = NoCall /\ created[s] = 0
  BY DEF Init, AllStoresInit, StoresInit, CoordinatorInit, AtomicInit, LedgerInit, Published,
         Claimed, NoClaim, Committed, Authorized
<1>4. RowsAgree /\ CommitsFollowCalls
  BY <1>3 DEF RowsAgree, CommitsFollowCalls, Started, Answered, NoCall
<1>5. ASSUME NEW w \in Workers
      PROVE  LocalsAreStored(w) /\ CallsAreOwned(w) /\ CurrentIsAlone(w)
  <2>1. proc[w] = Fresh("idle")
    BY DEF Init
  <2>2. /\ proc[w].pc = "idle" /\ ~proc[w].resume /\ proc[w].step = 0 /\ proc[w].permit = None
        /\ proc[w].commit = None /\ proc[w].receipts = <<>>
    BY <2>1 DEF Fresh
  <2>3. LocalsAreStored(w)
    BY <1>3, <2>2 DEF LocalsAreStored, At, Stopped, HoldsPermit, InStep, AfterLoop
  <2>4. CallsAreOwned(w)
    BY <2>2 DEF CallsAreOwned, At, OwnsCall, AfterLoop
  <2>5. CurrentIsAlone(w)
    BY <1>3, NoneAssumption DEF CurrentIsAlone
  <2> QED BY <2>3, <2>4, <2>5
<1> QED BY <1>1, <1>2, <1>4, <1>5 DEF RecoveryInv

LEMMA RecoveryInvStep == RecoveryInv /\ [Next]_vars => RecoveryInv'
<1> SUFFICES ASSUME RecoveryInv, [Next]_vars
             PROVE  RecoveryInv'
  OBVIOUS
<1>1. ASSUME NEW w \in Workers, StepOf(w)
      PROVE  RecoveryInv'
  <2>1. Common(w)
    BY <1>1, StepsHaveInCommon
  <2> QED BY <2>1, ProcessTypeStep, RowsStillAgree, CommitsStillFollowCalls, LocalsStayStored,
             CurrentStaysAlone DEF Common, RecoveryInv
<1>2. CASE UNCHANGED vars
  <2>1. LedgerInv'
    BY <1>2, LedgerInvStep DEF vars, RecoveryInv
  <2>2. UNCHANGED <<begun, currentEpoch, currentClaim, claims, publication, nextStep, completed,
                    permits, commits, calls, recons, proc, created, oversized>>
    BY <1>2 DEF vars, storeVars, coordinatorVars, atomicVars, ledgerVars, procVars
  <2>3. ProcessTypeOK' /\ RowsAgree' /\ CommitsFollowCalls'
    BY <2>2 DEF RecoveryInv, ProcessTypeOK, RowsAgree, CommitsFollowCalls, Started, Answered,
       Authorized, Committed, Published, Epochs, AnswerTo, CallsComplete
  <2>4. ASSUME NEW w \in Workers
        PROVE  LocalsAreStored(w)' /\ CallsAreOwned(w)' /\ CurrentIsAlone(w)'
    <3>1. LocalsAreStored(w)' /\ CallsAreOwned(w)'
      BY <2>2 DEF RecoveryInv, LocalsAreStored, CallsAreOwned, At, Claimed, Committed, Started,
         Answered, AnswerTo, CallsComplete, Published
    <3>2. CurrentIsAlone(w)'
      BY <2>2 DEF RecoveryInv, CurrentIsAlone, At, Committed, Authorized, Started, Published,
         Blocked, Classification, Unanswered, StuckOverBudget
    <3> QED BY <3>1, <3>2
  <2> QED BY <2>1, <2>3, <2>4 DEF RecoveryInv
<1> QED BY <1>1, <1>2, NextIsAStep

(* What the loop has read, the rows it writes and the stores agree at      *)
(* every instant, whatever processes crash, are fenced or wake up late.    *)
THEOREM RecoveryCorrect == Spec => []RecoveryInv
BY RecoveryInvInit, RecoveryInvStep, PTL DEF Spec

(* Whatever the review loop and its driver do to the tables they do        *)
(* through the operations of the three stores, as those are specified.     *)
THEOREM ExecutionUsesTheStores == Spec => LedgerSpec
<1>1. Init => AllStoresInit
  BY DEF Init
<1>2. RecoveryInv /\ [Next]_vars => [LedgerNext]_storeVars
  BY NextIsAStep, ProcessesUseStores DEF vars
<1> QED BY <1>1, <1>2, RecoveryCorrect, PTL DEF Spec, LedgerSpec

-----------------------------------------------------------------------------
(***************************************************************************)
(* What follows for whoever relies on the attempt.                         *)
(***************************************************************************)
(* The steps before an authorized one are committed.                       *)
LEMMA AuthorizedStepsFollow ==
    ASSUME AtomicInv, NEW s \in Step, Authorized(s)
    PROVE  /\ s <= nextStep
           /\ \A t \in 0 .. s - 1 : t \in Step /\ Committed(t)
<1>1. s \in Nat /\ s < StepCount /\ nextStep \in Nat /\ StepCount \in Nat
  BY StepCountAssumption DEF Step, AtomicInv, AtomicTypeOK
<1>2. s <= nextStep
  BY <1>1 DEF AtomicInv, StepsAdvanceInOrder
<1>3. ASSUME NEW t \in 0 .. s - 1
      PROVE  t \in Step /\ t < nextStep
  BY <1>1, <1>2 DEF Step
<1> QED BY <1>2, <1>3 DEF AtomicInv, StepsAdvanceInOrder

(* Every claim that a row names is one of the chain, with its epoch.       *)
LEMMA RowEpochs ==
    ASSUME RecoveryInv, NEW s \in Step
    PROVE  /\ currentEpoch \in Nat /\ \A w \in Workers : claims[w].epoch \in Nat
           /\ Authorized(s) => permits[s].claim \in Workers /\ claims[permits[s].claim].epoch >= 1
           /\ Started(s) => /\ calls[s].claim \in Workers
                            /\ claims[permits[s].claim].epoch <= claims[calls[s].claim].epoch
           /\ Committed(s) => /\ commits[s].claim \in Workers
                              /\ claims[permits[s].claim].epoch <= Epochs(s)
                              /\ Epochs(s) <= currentEpoch
           /\ recons[s] # None => /\ recons[s] \in Workers /\ Answered(s)
                                  /\ claims[calls[s].claim].epoch <= claims[recons[s]].epoch
<1>1. /\ currentEpoch \in Nat /\ claims \in [Workers -> Claim]
      /\ permits[s] \in Permit \cup {None} /\ commits[s] \in Commit \cup {None}
      /\ recons[s] \in Workers \cup {None}
  BY DEF RecoveryInv, LedgerInv, AtomicInv, CoordinatorInv, CoordinatorTypeOK, AtomicTypeOK,
     LedgerTypeOK
<1>2. \A w \in Workers : claims[w].epoch \in Nat
  BY <1>1 DEF Claim
<1>3. /\ Authorized(s) => permits[s].claim \in Workers
      /\ Committed(s) => commits[s].claim \in Workers /\ Authorized(s)
  <2>1. nextStep \in Nat /\ (Committed(s) => Authorized(s))
    BY DEF RecoveryInv, LedgerInv, AtomicInv, AtomicTypeOK, StepsAdvanceInOrder
  <2> QED BY <1>1, <2>1 DEF Authorized, Committed, Permit, Commit
<1>4. Authorized(s) => claims[permits[s].claim].epoch \in 1 .. currentEpoch
  BY DEF RecoveryInv, LedgerInv, AtomicInv, EpochsNeverRegress
<1>5. Committed(s) => Epochs(s) \in claims[permits[s].claim].epoch .. currentEpoch
  BY DEF RecoveryInv, LedgerInv, AtomicInv, EpochsNeverRegress, Epochs
<1>6. Started(s) =>
        /\ Authorized(s) /\ calls[s].claim \in Workers
        /\ claims[calls[s].claim].epoch \in claims[permits[s].claim].epoch .. currentEpoch
  BY DEF RecoveryInv, LedgerInv, CallsFollowTheirPermits
<1>7. recons[s] # None =>
        /\ Answered(s)
        /\ claims[recons[s]].epoch \in claims[calls[s].claim].epoch .. currentEpoch
  BY DEF RecoveryInv, LedgerInv, CallsFollowTheirPermits, Answered
<1>8. Answered(s) => Started(s)
  BY DEF Answered, Started
<1> QED BY <1>1, <1>2, <1>3, <1>4, <1>5, <1>6, <1>7, <1>8 DEF Epochs

(* The local variables of a process keep their types.                      *)
THEOREM ProcessTypesCorrect == Spec => []ProcessTypeOK
<1>1. RecoveryInv => ProcessTypeOK
  BY DEF RecoveryInv
<1> QED BY <1>1, RecoveryCorrect, PTL

(* However many processes compete, crash or wake up late, each review step *)
(* reaches the provider at most once and in order.                         *)
THEOREM AtMostOneCallEver == Spec => []AtMostOneCallPerStep
<1>1. RecoveryInv => AtMostOneCallPerStep
  <2> SUFFICES ASSUME RecoveryInv, NEW s \in Step
               PROVE  /\ created[s] <= 1
                      /\ created[s] > 0 => \A t \in 0 .. s - 1 : Committed(t)
    BY DEF AtMostOneCallPerStep
  <2>1. created[s] \in {0, 1} /\ (created[s] > 0 => Started(s))
    BY DEF RecoveryInv, RowsAgree
  <2>2. Started(s) => Authorized(s)
    BY DEF RecoveryInv, LedgerInv, CallsFollowTheirPermits
  <2>3. AtomicInv
    BY DEF RecoveryInv, LedgerInv
  <2> QED BY <2>1, <2>2, <2>3, AuthorizedStepsFollow
<1> QED BY <1>1, RecoveryCorrect, PTL

(* What a process gathers, by running a step or by replaying it, is what   *)
(* is committed, and that was parsed from the response to that very step.  *)
THEOREM ReceiptsAreAlwaysTheCommittedOnes == Spec => []ReceiptsAreTheCommittedOnes
<1>1. RecoveryInv => ReceiptsAreTheCommittedOnes
  <2> SUFFICES ASSUME RecoveryInv PROVE ReceiptsAreTheCommittedOnes
    OBVIOUS
  <2>1. ASSUME NEW w \in Workers, NEW i \in DOMAIN proc[w].receipts
        PROVE  Committed(i - 1) /\ commits[i - 1].completion = proc[w].receipts[i]
    <3>1. LocalsAreStored(w) /\ proc[w] \in Process
      BY DEF RecoveryInv, ProcessTypeOK
    <3>2. DOMAIN proc[w].receipts = 1 .. proc[w].step
      BY <3>1 DEF LocalsAreStored, Process
    <3> QED BY <3>1, <3>2 DEF LocalsAreStored
  <2>2. ASSUME NEW s \in Step, Committed(s), ~Unanswered(s)
        PROVE  /\ commits[s].completion.step = s
               /\ commits[s].completion.response = calls[s].response
    <3>1. CommitsFollowCalls /\ Answered(s)
      BY <2>2 DEF RecoveryInv, Unanswered, Answered
    <3>2. commits[s].completion = AnswerTo(s)
      BY <2>2, <3>1 DEF CommitsFollowCalls
    <3> QED BY <3>2 DEF AnswerTo
  <2> QED BY <2>1, <2>2 DEF ReceiptsAreTheCommittedOnes
<1> QED BY <1>1, RecoveryCorrect, PTL

(* No process sends an input or publishes a bundle that is over budget.    *)
THEOREM BudgetIsNeverEverOverrun == Spec => []BudgetIsNeverOverrun
<1>1. RecoveryInv => BudgetIsNeverOverrun
  BY DEF RecoveryInv, RowsAgree, BudgetIsNeverOverrun
<1> QED BY <1>1, RecoveryCorrect, PTL

(* A resumed process that is current fails only over an uncertain call, an *)
(* empty reply or the budget: every other crash point can be resumed.      *)
THEOREM OnlyUncertainCallsEverBlockRecovery == Spec => []OnlyUncertainCallsBlockRecovery
<1>1. RecoveryInv => OnlyUncertainCallsBlockRecovery
  BY DEF RecoveryInv, CurrentIsAlone, Blocked, OnlyUncertainCallsBlockRecovery
<1> QED BY <1>1, RecoveryCorrect, PTL

(* Whatever takeovers preceded it, a published seal is one that any later  *)
(* reader accepts.                                                         *)
THEOREM PublishedSealAlwaysVerifies == Spec => []PublishedSealVerifies
<1>1. RecoveryInv => PublishedSealVerifies
  <2> SUFFICES ASSUME RecoveryInv, Published PROVE SealVerifies
    BY DEF PublishedSealVerifies
  <2>1. /\ publication.final = currentClaim /\ publication.chain = claims
        /\ publication.final \in Workers
    BY NullIsNoRow DEF RecoveryInv, LedgerInv, AtomicInv, CoordinatorInv, CoordinatorTypeOK,
       SealNamesTheLastWorker, Published, Seal
  <2>2. /\ ClaimChain(claims, currentClaim) /\ claims[currentClaim].epoch = currentEpoch
        /\ currentEpoch \in Nat
    BY <2>1, NoneAssumption
    DEF RecoveryInv, LedgerInv, AtomicInv, CoordinatorInv, CoordinatorTypeOK, ClaimsFormOneChain
  <2>3. \A s \in Step : Committed(s) /\ Answered(s)
    BY AllStepsCommitted DEF RecoveryInv, RowsAgree, CallsComplete, Answered
  <2>4. ASSUME NEW s \in Step
        PROVE  SealedStepVerifies(s)
    <3>1. Committed(s) /\ Started(s) /\ Authorized(s)
      BY <2>3 DEF RecoveryInv, LedgerInv, CallsFollowTheirPermits, Answered, Started
    <3>2. claims[calls[s].claim].epoch <= Epochs(s)
          /\ (recons[s] # None => claims[recons[s]].epoch <= Epochs(s))
      BY <3>1 DEF RecoveryInv, CommitsFollowCalls
    <3>3. s # 0 => Epochs(s - 1) <= claims[permits[s].claim].epoch
      BY <3>1, StepIsNat DEF RecoveryInv, LedgerInv, AtomicInv, EpochsNeverRegress, Epochs
    <3> QED BY <2>1, <3>1, <3>2, <3>3, RowEpochs DEF SealedStepVerifies, SealedEpoch, Epochs
  <2>5. StepCount - 1 \in Step
    BY StepCountAssumption DEF Step
  <2>6. Epochs(StepCount - 1) <= claims[currentClaim].epoch
    BY <2>2, <2>3, <2>5, RowEpochs
  <2> QED BY <2>1, <2>2, <2>3, <2>4, <2>5, <2>6, RowEpochs
       DEF SealVerifies, SealedEpoch, Epochs, Answered
<1> QED BY <1>1, RecoveryCorrect, PTL

-----------------------------------------------------------------------------
(***************************************************************************)
(* The state audit.  The state it recomputes is a recursive function, so   *)
(* what it computes is found by looking at the first step at which it      *)
(* would differ from what the rows say.                                    *)
(***************************************************************************)
LEMMA LeastElement ==
    ASSUME NEW S, S \subseteq Nat, S # {}
    PROVE  \E m \in S : \A k \in S : m <= k
<1> DEFINE T == {0 .. k : k \in S}
           R == StrictSubsetOrdering(Nat)
           F == FiniteSubsetsOf(Nat)
<1>1. IsWellFoundedOn(R, F)
  BY FS_StrictSubsetOrderingWellFounded
<1>2. T \subseteq F
  <2>1. ASSUME NEW k \in S
        PROVE  0 .. k \in F
    <3>1. IsFiniteSet(0 .. k)
      BY FS_Interval
    <3>2. 0 .. k \in SUBSET Nat
      OBVIOUS
    <3> QED BY <3>1, <3>2 DEF FiniteSubsetsOf
  <2> QED BY <2>1
<1>3. T # {}
  OBVIOUS
<1>4. PICK I \in T : \A J \in T : ~ (<<J, I>> \in R)
  <2> HIDE DEF R, F, T
  <2> QED BY <1>1, <1>2, <1>3, WFMin
<1>5. PICK m \in S : I = 0 .. m
  OBVIOUS
<1>6. ASSUME NEW k \in S, k < m
      PROVE  FALSE
  <2>1. 0 .. k \in T /\ 0 .. k \subseteq I /\ 0 .. k # I
    BY <1>5, <1>6
  <2>2. <<0 .. k, I>> \in R
    BY <2>1, <1>5 DEF StrictSubsetOrdering
  <2> QED BY <1>4, <2>1, <2>2
<1> QED BY <1>6

(* The state after the committed steps below n, read off their rows.       *)
StoredState == [n \in 0 .. StepCount |-> IF n <= nextStep THEN StateBefore(n) ELSE state]

StateAt(f, n) ==
    IF n = 0 THEN <<>>
    ELSE IF Committed(n - 1)
      THEN Append(f[n - 1], [by |-> permits[n - 1].claim, completion |-> commits[n - 1].completion])
      ELSE f[n - 1]

LEMMA StoredStateIsRecursive ==
    ASSUME AtomicInv, NEW n \in 0 .. StepCount
    PROVE  StoredState[n] = StateAt(StoredState, n)
<1>1. /\ StepCount \in Nat /\ n \in Nat /\ nextStep \in 0 .. StepCount
      /\ \A s \in Step : Committed(s) <=> s < nextStep
      /\ state = StateBefore(nextStep)
  BY StepCountAssumption DEF AtomicInv, AtomicTypeOK, StepsAdvanceInOrder, StateChainUnbroken
<1>2. CASE n = 0
  BY <1>1, <1>2 DEF StoredState, StateAt, StateBefore
<1>3. CASE n # 0
  <2>1. n - 1 \in Step /\ n - 1 \in 0 .. StepCount
    BY <1>1, <1>3 DEF Step
  <2>2. CASE n <= nextStep
    <3>1. Committed(n - 1) /\ StoredState[n] = StateBefore(n) /\ StoredState[n - 1] = StateBefore(n - 1)
      BY <1>1, <2>1, <2>2 DEF StoredState
    <3>2. Authorized(n - 1)
      BY <1>1, <2>1, <3>1 DEF AtomicInv, StepsAdvanceInOrder
    <3>3. /\ permits[n - 1].prior = StateBefore(n - 1)
          /\ commits[n - 1].next = NextState(permits[n - 1], commits[n - 1].completion)
      BY <2>1, <3>1, <3>2 DEF AtomicInv, StateChainUnbroken
    <3>4. StateBefore(n) = commits[n - 1].next
      BY <1>3 DEF StateBefore
    <3> QED BY <1>3, <3>1, <3>3, <3>4 DEF StateAt, NextState
  <2>3. CASE ~(n <= nextStep)
    <3>1. ~Committed(n - 1) /\ StoredState[n] = state
      BY <1>1, <2>1, <2>3 DEF StoredState
    <3>2. StoredState[n - 1] = state
      <4>1. CASE n - 1 = nextStep
        BY <1>1, <2>1, <4>1 DEF StoredState
      <4>2. CASE n - 1 # nextStep
        BY <1>1, <2>1, <2>3, <4>2 DEF StoredState
      <4> QED BY <4>1, <4>2
    <3> QED BY <1>3, <3>1, <3>2 DEF StateAt
  <2> QED BY <2>2, <2>3
<1> QED BY <1>2, <1>3

(* The recursive definition has a solution, so it is one.                  *)
LEMMA RecomputedStateIsRecursive ==
    ASSUME AtomicInv
    PROVE  RecomputedState = [n \in 0 .. StepCount |-> StateAt(RecomputedState, n)]
<1>1. StoredState = [n \in 0 .. StepCount |-> StateAt(StoredState, n)]
  BY StoredStateIsRecursive DEF StoredState
<1>2. \E f : f = [n \in 0 .. StepCount |-> StateAt(f, n)]
  BY <1>1
<1>3. RecomputedState = CHOOSE f : f = [n \in 0 .. StepCount |-> StateAt(f, n)]
  BY DEF RecomputedState, StateAt
<1> QED BY <1>2, <1>3, Zenon

LEMMA RecomputedIsStored ==
    ASSUME AtomicInv, NEW n \in 0 .. StepCount
    PROVE  RecomputedState[n] = StoredState[n]
<1> DEFINE Wrong == {k \in 0 .. StepCount : RecomputedState[k] # StoredState[k]}
<1>1. SUFFICES ASSUME Wrong # {}
               PROVE  FALSE
  OBVIOUS
<1>2. PICK m \in Wrong : \A k \in Wrong : m <= k
  <2>1. Wrong \subseteq Nat
    BY StepCountAssumption
  <2> HIDE DEF Wrong
  <2> QED BY <1>1, <2>1, LeastElement
<1>3. m \in 0 .. StepCount /\ m \in Nat /\ StepCount \in Nat
  BY StepCountAssumption
<1>4. /\ RecomputedState[m] = StateAt(RecomputedState, m)
      /\ StoredState[m] = StateAt(StoredState, m)
  <2>1. RecomputedState = [k \in 0 .. StepCount |-> StateAt(RecomputedState, k)]
    BY RecomputedStateIsRecursive
  <2>2. RecomputedState[m] = [k \in 0 .. StepCount |-> StateAt(RecomputedState, k)][m]
    BY <2>1
  <2> QED BY <1>3, <2>2, StoredStateIsRecursive
<1>5. CASE m = 0
  BY <1>4, <1>5 DEF StateAt
<1>6. CASE m # 0
  <2>1. m - 1 \in 0 .. StepCount /\ ~(m <= m - 1)
    BY <1>3, <1>6
  <2>2. RecomputedState[m - 1] = StoredState[m - 1]
    BY <1>2, <2>1
  <2> QED BY <1>2, <1>4, <1>6, <2>2 DEF StateAt
<1> QED BY <1>5, <1>6

LEMMA ClaimsAreAudited ==
    ASSUME RecoveryInv, begun
    PROVE  AuditClaims
<1>1. /\ currentEpoch \in Nat /\ currentEpoch > 0 /\ claims \in [Workers -> Claim]
      /\ currentClaim \in Workers /\ claims[currentClaim].epoch = currentEpoch
      /\ ClaimChain(claims, currentClaim)
  BY DEF RecoveryInv, RowsAgree, LedgerInv, AtomicInv, CoordinatorInv, CoordinatorTypeOK,
     ClaimsFormOneChain
<1>2. \A w \in Workers : claims[w].epoch \in Nat
  BY <1>1 DEF Claim
<1>3. ASSUME NEW w \in Workers, Epoch(w) > 1
      PROVE  /\ claims[w].takeover
             /\ \E v \in Workers : claims[w].prior = v /\ Epoch(v) = Epoch(w) - 1
  <2>1. /\ claims[w].takeover /\ claims[w].prior \in Workers
        /\ claims[claims[w].prior].epoch + 1 = claims[w].epoch
    BY <1>1, <1>3 DEF ClaimChain, Epoch
  <2>2. claims[claims[w].prior].epoch = claims[w].epoch - 1
    BY <1>2, <2>1
  <2> QED BY <2>1, <2>2 DEF Epoch
<1> QED BY <1>1, <1>3 DEF AuditClaims, Epoch, ClaimChain, Claimed

LEMMA PermitsAreAudited ==
    ASSUME RecoveryInv, NEW s \in Step, Authorized(s)
    PROVE  AuditPermit(s)
<1>1. AtomicInv /\ StepCount \in Nat /\ s \in 0 .. StepCount /\ nextStep \in Nat
  BY StepCountAssumption DEF RecoveryInv, LedgerInv, AtomicInv, AtomicTypeOK, Step
<1>2. s <= nextStep /\ \A t \in 0 .. s - 1 : t \in Step /\ Committed(t)
  BY <1>1, AuthorizedStepsFollow
<1>3. \A t \in 0 .. s - 1 : Authorized(t)
  BY <1>1, <1>2 DEF AtomicInv, StepsAdvanceInOrder
<1>4. permits[s].step = s /\ permits[s].prior = StateBefore(s)
  BY <1>1 DEF AtomicInv, StateChainUnbroken
<1>5. RecomputedState[s] = StateBefore(s)
  BY <1>1, <1>2, RecomputedIsStored DEF StoredState
<1>6. Claimed(permits[s].claim)
  BY RowEpochs DEF Claimed
<1>7. \A t \in 0 .. s - 1 : Epoch(commits[t].claim) <= Epoch(permits[s].claim)
  BY DEF RecoveryInv, CommitsFollowCalls, Epochs, Epoch
<1>8. ~Committed(s) => s = nextStep
  BY <1>1, HeldStepIsNext
<1> QED BY <1>3, <1>4, <1>5, <1>6, <1>7, <1>8 DEF AuditPermit

LEMMA CommitsAreAudited ==
    ASSUME RecoveryInv, NEW s \in Step, Committed(s)
    PROVE  AuditCommit(s)
<1>1. /\ AtomicInv /\ StepCount \in Nat /\ s \in 0 .. StepCount /\ nextStep \in Nat
      /\ s \in Nat /\ s + 1 \in 0 .. StepCount /\ s + 1 # 0 /\ (s + 1) - 1 = s
  BY StepCountAssumption DEF RecoveryInv, LedgerInv, AtomicInv, AtomicTypeOK, Step
<1>2. s < nextStep /\ Authorized(s)
  BY <1>1 DEF AtomicInv, StepsAdvanceInOrder
<1>3. commits[s].permit = permits[s] /\ commits[s].prior = StateBefore(s)
  BY <1>1 DEF AtomicInv, StateChainUnbroken
<1>4. RecomputedState[s] = StateBefore(s) /\ RecomputedState[s + 1] = StateBefore(s + 1)
  BY <1>1, <1>2, RecomputedIsStored DEF StoredState
<1>5. StateBefore(s + 1) = commits[s].next
  BY <1>1 DEF StateBefore
<1>6. /\ Claimed(commits[s].claim)
      /\ Epoch(permits[s].claim) <= Epoch(commits[s].claim)
  <2>1. /\ claims[permits[s].claim].epoch \in Nat /\ claims[commits[s].claim].epoch \in Nat
        /\ claims[permits[s].claim].epoch >= 1
        /\ claims[permits[s].claim].epoch <= claims[commits[s].claim].epoch
    BY <1>2, RowEpochs DEF Epochs
  <2> QED BY <2>1 DEF Claimed, Epoch
<1> QED BY <1>2, <1>3, <1>4, <1>5, <1>6 DEF AuditCommit

LEMMA AttemptIsAudited ==
    ASSUME RecoveryInv
    PROVE  AuditAttempt
<1>1. /\ AtomicInv /\ StepCount \in Nat /\ StepCount \in 0 .. StepCount
      /\ nextStep \in 0 .. StepCount
      /\ \A s \in Step : Committed(s) <=> s < nextStep
      /\ \A s \in Step : Authorized(s) <=> s < nextStep \/ (s = nextStep /\ inFlight # None)
      /\ inFlight # None => nextStep < StepCount /\ inFlight = permits[nextStep]
      /\ completed => nextStep = StepCount
      /\ state = StateBefore(nextStep)
  BY StepCountAssumption
  DEF RecoveryInv, LedgerInv, AtomicInv, AtomicTypeOK, StepsAdvanceInOrder, StateChainUnbroken
<1>2. RecomputedState[StepCount] = state
  <2>1. RecomputedState[StepCount] =
          IF StepCount <= nextStep THEN StateBefore(StepCount) ELSE state
    BY <1>1, RecomputedIsStored DEF StoredState
  <2>2. CASE nextStep = StepCount
    BY <1>1, <2>1, <2>2
  <2>3. CASE nextStep # StepCount
    BY <1>1, <2>1, <2>3
  <2> QED BY <2>2, <2>3
<1>3. ASSUME NEW s \in Step, Authorized(s), ~Committed(s)
      PROVE  nextStep \in Step /\ inFlight = permits[nextStep]
  BY <1>1, <1>3, HeldStepIsNext
<1>4. ASSUME ~\E s \in Step : Authorized(s) /\ ~Committed(s)
      PROVE  inFlight = None
  <2>1. SUFFICES ASSUME inFlight # None
                 PROVE  FALSE
    OBVIOUS
  <2>2. nextStep \in Step /\ Authorized(nextStep) /\ ~Committed(nextStep)
    BY <1>1, <2>1 DEF Step
  <2> QED BY <1>4, <2>2
<1>5. completed => nextStep = StepCount /\ \A s \in Step : Committed(s)
  BY <1>1, AllStepsCommitted DEF RecoveryInv
<1> QED BY <1>1, <1>2, <1>3, <1>4, <1>5 DEF AuditAttempt

LEMMA CallsAreAudited ==
    ASSUME RecoveryInv, NEW s \in Step, Started(s)
    PROVE  AuditCall(s)
<1>1. /\ AtomicInv /\ Authorized(s) /\ calls[s].permit = permits[s]
      /\ calls[s] \in Call
  BY DEF RecoveryInv, LedgerInv, LedgerTypeOK, CallsFollowTheirPermits
<1>2. \A t \in 0 .. s - 1 : Started(t)
  BY <1>1, AuthorizedStepsFollow DEF RecoveryInv, CommitsFollowCalls
<1>3. Claimed(calls[s].claim) /\ Epoch(permits[s].claim) <= Epoch(calls[s].claim)
  <2>1. /\ claims[permits[s].claim].epoch \in Nat /\ claims[calls[s].claim].epoch \in Nat
        /\ claims[permits[s].claim].epoch >= 1
        /\ claims[permits[s].claim].epoch <= claims[calls[s].claim].epoch
    BY <1>1, RowEpochs
  <2> QED BY <2>1 DEF Claimed, Epoch
<1>4. ASSUME Answered(s)
      PROVE  calls[s].response # None
  BY <1>4, NoneIsNoResponse DEF RecoveryInv, RowsAgree
<1>5. calls[s].material = "AVAILABLE" \/ nextStep = StepCount
  <2>1. calls[s].material \in MaterialStates /\ calls[s].material # "NONE"
        /\ (calls[s].material = "PURGED" => nextStep = StepCount)
    BY <1>1 DEF RecoveryInv, RowsAgree, Call
  <2> QED BY <2>1 DEF MaterialStates
<1>6. ASSUME Answered(s), NEW t \in Step \ {s}, Answered(t)
      PROVE  calls[t].response # calls[s].response
  BY <1>6 DEF RecoveryInv, LedgerInv, ResponsesAreUsedOnce, Answered
<1>7. ~Answered(s) => calls[s].response = None
  BY DEF RecoveryInv, RowsAgree
<1> QED BY <1>1, <1>2, <1>3, <1>4, <1>5, <1>6, <1>7 DEF AuditCall, Answered

(* The audit a resuming process runs passes at every crash point of a      *)
(* begun attempt, unless a step was committed on an empty reply, and then  *)
(* it never passes.                                                        *)
THEOREM AuditAlwaysAcceptsCrashPoints == Spec => []AuditAcceptsEveryCrashPoint
<1>1. RecoveryInv => AuditAcceptsEveryCrashPoint
  <2> SUFFICES ASSUME RecoveryInv, begun
               PROVE  AuditPasses <=> ~\E s \in Step : Unanswered(s)
    BY DEF AuditAcceptsEveryCrashPoint
  <2>1. CommittedActionHasDurableCompletion <=> ~\E s \in Step : Unanswered(s)
    BY DEF CommittedActionHasDurableCompletion, Unanswered
  <2>2. \A s \in Step : recons[s] # None => AuditReconciliation(s)
    <3> SUFFICES ASSUME NEW s \in Step, recons[s] # None
                 PROVE  AuditReconciliation(s)
      OBVIOUS
    <3>1. /\ Answered(s) /\ claims[recons[s]].epoch \in Nat
          /\ claims[calls[s].claim].epoch \in Nat
          /\ claims[calls[s].claim].epoch >= 1
          /\ claims[calls[s].claim].epoch <= claims[recons[s]].epoch
      <4>1. Answered(s) /\ Started(s) /\ Authorized(s)
        BY RowEpochs
        DEF RecoveryInv, LedgerInv, CallsFollowTheirPermits, Answered, Started
      <4> QED BY <4>1, RowEpochs
    <3> QED BY <3>1 DEF AuditReconciliation, Answered, Claimed, Epoch
  <2> QED BY <2>1, <2>2, ClaimsAreAudited, PermitsAreAudited, CommitsAreAudited,
             AttemptIsAudited, CallsAreAudited DEF AuditPasses
<1> QED BY <1>1, RecoveryCorrect, PTL

-----------------------------------------------------------------------------
(***************************************************************************)
(* The execution implements the abstract review: sending a call asks,      *)
(* committing a step records, the first publication publishes, and all     *)
(* else stutters.                                                          *)
(***************************************************************************)
Recorded == [i \in 1 .. nextStep |-> commits[i - 1].completion]
PublishedCore == IF Published THEN publication.core ELSE None

LEMMA FewStepsShow ==
    ASSUME NEW w \in Workers, StepOf(w)
    PROVE  /\ created' = created \/ SendCall(w)
           /\ UNCHANGED <<nextStep, commits>> \/ CommitStep(w)
           /\ publication' = publication \/ PublishRerun(w)
<1>1. CASE ClaimAttempt(w) \/ Crash(w)
  BY <1>1 DEF ClaimAttempt, ClaimWorker, Crash, Reading, OnCoordinator, storeVars,
     coordinatorVars, atomicVars
<1>2. CASE DriverStep(w)
  BY <1>2 DEF DriverStep, StartAttempt, BeginAttempt, StartUnresumed, StartResumed, MarkInFlight,
     MarkRestartInFlightUncertain, FinishActions, FinalizeAtomic, FinishCalls, ReserveInstant,
     ReservePublicationTime, PublishRerun, PurgeReplay, Purge, Reading, OnActions, OnCalls,
     OnCoordinator, storeVars, coordinatorVars, atomicVars
<1>3. CASE LoopStep(w)
  BY <1>3 DEF LoopStep, LoadPermit, LoadCommit, LoadProviderState, ReplayCommitted,
     ReplayAuthorized, Reconcile, RecordReconciliation, MarkRestart, MarkUncertain, ObtainPermit,
     Authorize, RefuseInput, RecordCall, BeginCall, SendCall, RefuseCall, ReceiveReply,
     ReceiveEmptyReply, LoseReply, RecordUncertainty, RecordCompletion, CompleteCall, CommitStep,
     CommitAction, BuildBundle, Reading, OnActions, OnCalls, storeVars, coordinatorVars, atomicVars
<1> QED BY <1>1, <1>2, <1>3 DEF StepOf

LEMMA SendingAsks ==
    ASSUME NEW w \in Workers, Common(w), SendCall(w)
    PROVE  /\ \E s \in 0 .. StepCount - 1 : Review!Ask(s)
           /\ UNCHANGED <<nextStep, commits, publication>>
<1>1. PICK s : s = proc[w].step
  OBVIOUS
<1>2. /\ s \in Step /\ ~Committed(s) /\ Authorized(s) /\ created[s] = 0
      /\ created \in [Step -> Nat] /\ nextStep \in Nat
      /\ AtomicInv
  <2>1. LedgerInv /\ LocalsAreStored(w) /\ CallsAreOwned(w) /\ At(w, "call") /\ ProcessTypeOK
    BY DEF Common, RecoveryInv, SendCall
  <2>2. s \in Step /\ Authorized(s)
    BY <1>1, <2>1, HeldPermitIsStored DEF At, HoldsPermit
  <2> QED BY <1>1, <2>1, <2>2
       DEF CallsAreOwned, At, OwnsCall, ProcessTypeOK, LedgerInv, AtomicInv, AtomicTypeOK
<1>3. s = nextStep
  BY <1>2, HeldStepIsNext
<1>4. UNCHANGED <<nextStep, commits, publication>>
  BY DEF SendCall, storeVars, coordinatorVars, atomicVars
<1>5. Len(Recorded) = nextStep
  BY <1>2 DEF Recorded
<1>6. created' = [created EXCEPT ![s] = 1]
  BY <1>1, <1>2 DEF SendCall
<1>7. UNCHANGED <<Recorded, PublishedCore>>
  BY <1>4 DEF Recorded, PublishedCore, Published
<1>8. Review!Ask(s)
  BY <1>2, <1>3, <1>5, <1>6, <1>7 DEF Review!Ask, Recorded, PublishedCore
<1> QED BY <1>2, <1>4, <1>8 DEF Step

LEMMA CommittingRecords ==
    ASSUME EmptyReplies = FALSE,
           NEW w \in Workers, Common(w), CommitStep(w), created' = created,
           publication' = publication
    PROVE  UNCHANGED <<nextStep, commits>> \/ \E r \in Responses : Review!Record(r)
<1>1. CASE UNCHANGED storeVars
  BY <1>1 DEF storeVars, atomicVars
<1>2. CASE CommitAction(w, proc[w].permit, proc[w].completion)
  <2>1. PICK s : s = proc[w].step
    OBVIOUS
  <2>2. /\ LedgerInv /\ LocalsAreStored(w) /\ CallsAreOwned(w) /\ At(w, "commit") /\ RowsAgree
        /\ CommitsFollowCalls /\ AtomicInv
    BY DEF Common, RecoveryInv, CommitStep, LedgerInv
  <2>3. s \in Step /\ Authorized(s) /\ proc[w].permit.step = s
    BY <2>1, <2>2, HeldPermitIsStored DEF At, HoldsPermit
  <2>4. Answered(s) /\ proc[w].completion = AnswerTo(s)
    BY <2>1, <2>2 DEF CallsAreOwned, At
  <2>5. calls[s].response \in Responses /\ created[s] = 1
    BY <2>2, <2>3, <2>4 DEF RowsAgree
  <2>6. ~Committed(s)
    BY <1>2, <2>3 DEF CommitAction, CommitAllowed
  <2>7. s = nextStep /\ nextStep \in Nat /\ s < StepCount /\ StepCount \in Nat
    BY <2>2, <2>3, <2>6, HeldStepIsNext, StepCountAssumption
    DEF AtomicInv, AtomicTypeOK, Step
  <2>8. nextStep' = nextStep + 1
    BY <1>2, <2>3, <2>7 DEF CommitAction
  <2>9. /\ commits'[s].completion = AnswerTo(s)
        /\ \A t \in Step \ {s} : commits'[t] = commits[t]
    BY <1>2, <2>2, <2>3, <2>4 DEF CommitAction, AtomicInv, AtomicTypeOK
  <2>10. Len(Recorded) = nextStep /\ DOMAIN Recorded = 1 .. nextStep
    BY <2>7 DEF Recorded
  <2>11. Recorded' = Append(Recorded, AnswerTo(s))
    <3>1. Recorded' = [i \in 1 .. nextStep + 1 |-> commits'[i - 1].completion]
      BY <2>8 DEF Recorded
    <3>2. ASSUME NEW i \in 1 .. nextStep + 1
          PROVE  commits'[i - 1].completion = IF i <= nextStep THEN Recorded[i] ELSE AnswerTo(s)
      <4>1. CASE i <= nextStep
        <5>1. i - 1 \in Step \ {s} /\ i \in 1 .. nextStep
          BY <2>7, <4>1 DEF Step
        <5> QED BY <2>9, <4>1, <5>1 DEF Recorded
      <4>2. CASE ~(i <= nextStep)
        <5>1. i - 1 = s
          BY <2>7, <4>2
        <5> QED BY <2>9, <4>2, <5>1
      <4> QED BY <4>1, <4>2
    <3>3. Append(Recorded, AnswerTo(s)) =
            [i \in 1 .. nextStep + 1 |-> IF i <= nextStep THEN Recorded[i] ELSE AnswerTo(s)]
      <4> DEFINE S == {commits[i - 1].completion : i \in 1 .. nextStep} \cup {AnswerTo(s)}
                 A == Append(Recorded, AnswerTo(s))
      <4>1. Recorded \in Seq(S)
        <5>1. Recorded \in [1 .. nextStep -> S]
          BY DEF Recorded
        <5> HIDE DEF S, Recorded
        <5> QED BY <2>7, <5>1, SeqDef
      <4>2. /\ A \in Seq(S) /\ Len(A) = nextStep + 1 /\ A[nextStep + 1] = AnswerTo(s)
            /\ \A i \in 1 .. nextStep : A[i] = Recorded[i]
        <5> HIDE DEF S
        <5>1. AnswerTo(s) \in S
          BY DEF S
        <5> QED BY <2>10, <4>1, <5>1, AppendProperties
      <4>3. A = [i \in 1 .. nextStep + 1 |-> A[i]]
        <5> HIDE DEF S, A
        <5> QED BY <4>2, <2>7
      <4>4. \A i \in 1 .. nextStep + 1 :
               A[i] = IF i <= nextStep THEN Recorded[i] ELSE AnswerTo(s)
        <5> HIDE DEF S, A
        <5> QED BY <2>7, <4>2
      <4> HIDE DEF A
      <4>5. A = [i \in 1 .. nextStep + 1 |-> IF i <= nextStep THEN Recorded[i] ELSE AnswerTo(s)]
        BY <4>3, <4>4
      <4> QED BY <4>5 DEF A
    <3> QED BY <3>1, <3>2, <3>3
  <2>12. ASSUME NEW i \in 1 .. nextStep
         PROVE  Recorded[i].response # calls[s].response
    <3>1. i - 1 \in Step /\ i - 1 # s /\ i - 1 < nextStep
      BY <2>7 DEF Step
    <3>2. Committed(i - 1)
      BY <2>2, <3>1 DEF AtomicInv, StepsAdvanceInOrder
    <3>3. Answered(i - 1) /\ commits[i - 1].completion = AnswerTo(i - 1)
      BY <2>2, <3>1, <3>2 DEF CommitsFollowCalls
    <3>4. calls[i - 1].response # calls[s].response
      BY <2>2, <2>3, <2>4, <3>1, <3>3 DEF LedgerInv, ResponsesAreUsedOnce, Answered
    <3> QED BY <3>3, <3>4 DEF Recorded, AnswerTo
  <2>13. PublishedCore' = PublishedCore
    BY DEF PublishedCore, Published
  <2>14. PICK r \in Responses : r = calls[s].response
    BY <2>5
  <2>15. Review!Record(r)
    <3>1. AnswerTo(s) = [step |-> Len(Recorded), response |-> r]
      BY <2>7, <2>10, <2>14 DEF AnswerTo
    <3>2. /\ Len(Recorded) < StepCount /\ created[Len(Recorded)] = 1
          /\ \A i \in DOMAIN Recorded : Recorded[i].response # r
      BY <2>5, <2>7, <2>10, <2>12, <2>14
    <3> QED BY <2>11, <2>13, <3>1, <3>2 DEF Review!Record, Recorded, PublishedCore
  <2> QED BY <2>15
<1> QED BY <1>1, <1>2 DEF CommitStep

LEMMA PublishingPublishes ==
    ASSUME NEW w \in Workers, Common(w), PublishRerun(w), created' = created,
           UNCHANGED <<nextStep, commits>>
    PROVE  publication' = publication \/ \E core \in Cores : Review!Publish(core)
<1>1. CASE publication' = publication
  BY <1>1
<1>2. CASE \E core \in Cores : \E now \in Instants : Publish(w, core, now)
  <2>1. PICK core \in Cores, now \in Instants : Publish(w, core, now)
    BY <1>2
  <2>2. ~Published /\ publication'.core = core
    BY <2>1 DEF Publish, PublishAllowed, AssertCurrentWorker
  <2>3. publication' \in Seal
    <3>1. publication' \in Seal \cup {None}
      BY DEF Common, LedgerInv, AtomicInv, CoordinatorInv, CoordinatorTypeOK
    <3>2. publication' # None
      <4>1. publication' = [core |-> core, final |-> w, at |-> reservation'.at, chain |-> claims]
        BY <2>1 DEF Publish
      <4>2. claims \in [Workers -> Claim]
        BY DEF Common, RecoveryInv, LedgerInv, AtomicInv, CoordinatorInv, CoordinatorTypeOK
      <4>3. reservation'.at \in Instants
        <5>1. /\ reservation \in Reservation \cup {None}
              /\ reservation' = IF reservation = None
                                  THEN [by |-> w, at |-> now] ELSE reservation
          BY <2>1 DEF Publish, Common, RecoveryInv, LedgerInv, AtomicInv, CoordinatorInv,
             CoordinatorTypeOK
        <5> QED BY <5>1 DEF Reservation
      <4>4. publication' \in Seal
        BY <4>1, <4>2, <4>3 DEF Seal
      <4> QED BY <4>4, NullIsNoRow
    <3> QED BY <3>1, <3>2
  <2>4. Published'
    BY <2>3, NullIsNoRow DEF Published
  <2>5. nextStep = StepCount /\ nextStep \in Nat
    BY <2>4, PublicationIsComplete, StepCountAssumption
  <2>6. Len(Recorded) = StepCount
    BY <2>5 DEF Recorded
  <2>7. PublishedCore = None /\ PublishedCore' = core /\ Recorded' = Recorded
    BY <2>2, <2>4 DEF PublishedCore, Recorded
  <2> QED BY <2>6, <2>7 DEF Review!Publish, Recorded, PublishedCore
<1> QED BY <1>1, <1>2 DEF PublishRerun, Republish, storeVars, coordinatorVars

(* Seen from outside, and without empty replies, a recovery attempt asks   *)
(* every reviewer once and in order, records the answer to that question,  *)
(* and publishes one core when all are recorded, whatever crashes,         *)
(* takeovers and late processes went into it.                              *)
THEOREM ExecutionImplementsReview ==
    ASSUME EmptyReplies = FALSE
    PROVE  Spec => ReviewSpec
<1>1. Init => Review!Init
  <2> SUFFICES ASSUME Init PROVE Review!Init
    OBVIOUS
  <2>1. nextStep = 0 /\ publication = None /\ created = [s \in 0 .. StepCount - 1 |-> 0]
    BY DEF Init, AllStoresInit, StoresInit, CoordinatorInit, AtomicInit, Step
  <2>2. Recorded = <<>>
    BY <2>1 DEF Recorded
  <2>3. PublishedCore = None
    BY <2>1 DEF PublishedCore, Published
  <2> QED BY <2>1, <2>2, <2>3 DEF Review!Init, Recorded, PublishedCore
<1>2. RecoveryInv /\ [Next]_vars => [Review!Next]_(Review!reviewVars)
  <2> SUFFICES ASSUME RecoveryInv, [Next]_vars
               PROVE  Review!Next \/ UNCHANGED Review!reviewVars
    OBVIOUS
  <2>1. ASSUME UNCHANGED <<created, nextStep, commits, publication>>
        PROVE  UNCHANGED Review!reviewVars
    <3>1. UNCHANGED <<Recorded, PublishedCore>>
      BY <2>1 DEF Recorded, PublishedCore, Published
    <3> QED BY <2>1, <3>1 DEF Review!reviewVars, Recorded, PublishedCore
  <2>2. ASSUME NEW w \in Workers, StepOf(w)
        PROVE  Review!Next \/ UNCHANGED Review!reviewVars
    <3>0. Common(w)
      BY <2>2, StepsHaveInCommon
    <3>1. CASE SendCall(w)
      BY <3>0, <3>1, SendingAsks DEF Review!Next
    <3>2. CASE ~SendCall(w) /\ CommitStep(w)
      <4>1. created' = created /\ publication' = publication
        BY <2>2, <3>2, FewStepsShow DEF CommitStep, CommitAction, storeVars, coordinatorVars
      <4> QED BY <2>1, <3>0, <3>2, <4>1, CommittingRecords DEF Review!Next
    <3>3. CASE ~SendCall(w) /\ ~CommitStep(w)
      <4>1. created' = created /\ UNCHANGED <<nextStep, commits>>
        BY <2>2, <3>3, FewStepsShow
      <4>2. CASE PublishRerun(w)
        BY <2>1, <3>0, <4>1, <4>2, PublishingPublishes DEF Review!Next
      <4>3. CASE ~PublishRerun(w)
        BY <2>1, <2>2, <4>1, <4>3, FewStepsShow
      <4> QED BY <4>2, <4>3
    <3> QED BY <3>1, <3>2, <3>3
  <2>3. CASE UNCHANGED vars
    BY <2>1, <2>3 DEF vars, procVars, storeVars, coordinatorVars, atomicVars
  <2> QED BY <2>2, <2>3, NextIsAStep
<1> QED BY <1>1, <1>2, RecoveryCorrect, PTL DEF Spec, ReviewSpec, Review!Spec
=============================================================================

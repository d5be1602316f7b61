-------------------------- MODULE RecoveryExecution --------------------------
(***************************************************************************)
(* One recovery attempt executed by competing, crashing processes: the     *)
(* review loop execute_model_reviews_traced (held by src/app/runtime.py)   *)
(* over the shared tables, the provider it calls, and the driver that      *)
(* claims the attempt, runs the loop, finalizes, publishes and purges.     *)
(*                                                                         *)
(* The driver is not part of the repository; it is modelled from the way   *)
(* the loop and the stores are meant to be called, and loosely: it may     *)
(* resume or not, reserve the publication instant or not, and it may take  *)
(* over at any time, whether the process it fences is dead or merely slow. *)
(*                                                                         *)
(* A step of a process is one database transaction, one read, or one       *)
(* exchange with the provider, because another process may act between any *)
(* two of those.  An operation that raises ends the process (pc "failed"). *)
(***************************************************************************)
EXTENDS StateAudit

CONSTANT EmptyReplies   \* whether a provider may answer with an empty output

ASSUME EmptyRepliesAssumption == EmptyReplies \in BOOLEAN

VARIABLES
    proc,       \* the local state of each process
    created,    \* how many provider calls each step has caused
    oversized   \* the steps whose input, and whether the bundle, is over budget

procVars == <<proc, created, oversized>>
vars == <<storeVars, procVars>>

ProgramCounters ==
    {"idle", "start", "step", "readCommit", "readState", "replayCommitted", "replay",
     "reconcile", "markRestart", "authorize", "begin", "call", "awaiting",
     "uncertain", "complete", "commit", "finalize", "chain", "publish", "purge",
     "done", "failed", "dead"}

(* Local variables of the loop; None is Python's None, or unbound.         *)
Process ==
    [pc: ProgramCounters,
     resume: BOOLEAN,                       \* resume_interrupted
     step: 0 .. StepCount,                  \* step_index
     permit: Permit \cup {None},
     commit: Commit \cup {None},            \* existing_commit
     response: Responses \cup {None},       \* raw_output and its metadata
     completion: Completion \cup {None},    \* survives from one iteration to the next
     receipts: Seq(Completion)]             \* receipts and traces so far

Fresh(pc) == [pc |-> pc, resume |-> FALSE, step |-> 0, permit |-> None, commit |-> None,
              response |-> None, completion |-> None,
              receipts |-> <<>>]

Init ==
    /\ AllStoresInit
    /\ proc = [w \in Workers |-> Fresh("idle")]
    /\ created = [s \in Step |-> 0]
    /\ oversized \in SUBSET (0 .. StepCount)

-----------------------------------------------------------------------------
At(w, pc) == proc[w].pc = pc
Goto(w, pc) == proc' = [proc EXCEPT ![w].pc = pc]
Fail(w) == proc' = [proc EXCEPT ![w] = [Fresh("failed") EXCEPT !.resume = proc[w].resume]]
Reading == UNCHANGED <<storeVars, created, oversized>>
OnCoordinator == UNCHANGED <<atomicVars, ledgerVars, created, oversized>>
OnActions == UNCHANGED <<ledgerVars, created, oversized>>
OnCalls == UNCHANGED <<created, oversized>>

(* The resource budget of the attempt is part of its plan, the input of a  *)
(* step follows from claim and evidence, and the bundle, counted as step   *)
(* StepCount, from the durable responses: every process meets the limits   *)
(* at the same places.                                                     *)
OverBudget(w) == proc[w].step \in oversized

(* Faulty variant: receipts are gathered in reverse.                       *)
NextIterationReversed(w, completion) ==
    proc' = [proc EXCEPT ![w] =
               [Fresh("step") EXCEPT
                  !.resume = proc[w].resume,
                  !.step = proc[w].step + 1,
                  !.completion = completion,
                  !.receipts = <<completion>> \o proc[w].receipts]]

(* append_completion, and the next iteration: the locals of one iteration  *)
(* start from nothing, completion does not.                                *)
NextIteration(w, completion) ==
    proc' = [proc EXCEPT ![w] =
               [Fresh("step") EXCEPT
                  !.resume = proc[w].resume,
                  !.step = proc[w].step + 1,
                  !.completion = completion,
                  !.receipts = Append(proc[w].receipts, completion)]]

(* The driver claims the attempt for a new process.                        *)
ClaimAttempt(w) ==
    /\ At(w, "idle")
    /\ \E takeover \in BOOLEAN : ClaimWorker(w, takeover)
    /\ Goto(w, "start")
    /\ OnCoordinator

(* The driver begins a new attempt, ...                                    *)
StartAttempt(w) ==
    /\ At(w, "start")
    /\ \/ BeginAttempt(w) /\ Goto(w, "step")
       \/ ~BeginAllowed(w) /\ Fail(w) /\ UNCHANGED storeVars
    /\ OnActions

(* ... or runs the loop on one begun before, without asking for a resume,  *)
StartUnresumed(w) ==
    /\ At(w, "start")
    /\ begun
    /\ Goto(w, "step")
    /\ Reading

(* ... or resumes it, which audits the tables first.  The audit reads them *)
(* one by one, outside a transaction: a process that is fenced meanwhile   *)
(* may see a mixture and reach either conclusion.  A process that is still *)
(* current when the audit ends has seen one state: nobody else may write.  *)
StartResumed(w) ==
    /\ At(w, "start")
    /\ begun
    /\ \/ /\ AuditPasses \/ currentClaim # w
          /\ proc' = [proc EXCEPT ![w].pc = "step", ![w].resume = TRUE]
       \/ /\ ~AuditPasses \/ currentClaim # w
          /\ Fail(w)
    /\ Reading

(* "Only explicit recovery code should call this": a driver may declare    *)
(* every call in flight uncertain before it resumes.                       *)
MarkInFlight(w) ==
    /\ At(w, "start")
    /\ \/ MarkRestartInFlightUncertain(w) /\ UNCHANGED proc
       \/ ~AssertCurrentWorker(w, FALSE) /\ Fail(w) /\ UNCHANGED storeVars
    /\ OnCalls

-----------------------------------------------------------------------------
(* The head of an iteration.  A resumed process looks for what the step    *)
(* already has, in three separate reads.                                   *)
LoadPermit(w) ==
    /\ At(w, "step")
    /\ proc[w].step < StepCount
    /\ proc' = IF proc[w].resume
                 THEN [proc EXCEPT ![w].permit = permits[proc[w].step],
                                   ![w].pc = "readCommit"]
                 ELSE [proc EXCEPT ![w].pc = "authorize"]
    /\ Reading

(* Faulty variant: the permit column is read for the commit column.        *)
LoadPermitForCommit(w) ==
    /\ At(w, "readCommit")
    /\ proc' = [proc EXCEPT ![w].commit = permits[proc[w].step], ![w].pc = "readState"]
    /\ Reading

LoadCommit(w) ==
    /\ At(w, "readCommit")
    /\ proc' = [proc EXCEPT ![w].commit = commits[proc[w].step], ![w].pc = "readState"]
    /\ Reading

(* Faulty variant: a call found in flight is sent again.                   *)
ResumePointRetrying(permit, commit, found) ==
    IF commit # None THEN "replayCommitted"
    ELSE IF permit = None THEN "authorize"
    ELSE IF found = "COMPLETED" THEN "replay"
    ELSE IF found = "NONE" THEN "begin" ELSE "call"

(* Where a resumed iteration goes once the three reads are in.             *)
ResumePoint(permit, commit, found) ==
    CASE commit # None -> IF found = "COMPLETED" THEN "replayCommitted" ELSE "failed"
      [] commit = None /\ permit = None -> "authorize"
      [] commit = None /\ permit # None ->
           CASE found = "COMPLETED" -> "replay"
             [] found = "IN_FLIGHT" -> "markRestart"
             [] found = "UNCERTAIN" -> "failed"
             [] found = "NONE" -> "begin"

LoadProviderState(w) ==
    /\ At(w, "readState")
    /\ LET next == ResumePoint(proc[w].permit, proc[w].commit, calls[proc[w].step].state)
       IN IF next = "failed" THEN Fail(w) ELSE Goto(w, next)
    /\ Reading

(* A committed step is rebuilt from the durable response, without another  *)
(* provider call, and must come out as it was committed.                   *)
ReplayMatches(w) ==
    /\ Replayable(proc[w].step)
    /\ proc[w].commit.completion = ReplayedCompletion(proc[w].step)

ReplayCommitted(w) ==
    /\ At(w, "replayCommitted")
    /\ IF ReplayMatches(w)
         THEN NextIteration(w, ReplayedCompletion(proc[w].step))
         ELSE Fail(w)
    /\ Reading

(* An authorized step with a durable response is parsed again, reconciled  *)
(* and committed.                                                          *)
ReplayAuthorized(w) ==
    /\ At(w, "replay")
    /\ IF Replayable(proc[w].step)
         THEN proc' = [proc EXCEPT ![w].completion = ReplayedCompletion(proc[w].step),
                                   ![w].pc = "reconcile"]
         ELSE Fail(w)
    /\ Reading

Reconcile(w) ==
    /\ At(w, "reconcile")
    /\ \/ RecordReconciliation(w, proc[w].step) /\ Goto(w, "commit")
       \/ ~AssertCurrentWorker(w, FALSE) /\ Fail(w) /\ UNCHANGED storeVars
    /\ OnCalls

(* A call that a restart finds in flight may have reached the provider.    *)
MarkRestart(w) ==
    /\ At(w, "markRestart")
    /\ \/ MarkUncertain(w, proc[w].permit)
       \/ ~MarkUncertainAllowed(w, proc[w].permit) /\ UNCHANGED storeVars
    /\ Fail(w)
    /\ OnCalls

-----------------------------------------------------------------------------
(* A fresh step: permit, call row, network, completion, commit.            *)
ObtainPermit(w) ==
    /\ At(w, "authorize")
    /\ \/ /\ Authorize(w, proc[w].step)
          /\ proc' = [proc EXCEPT ![w].permit = permits'[proc[w].step], ![w].pc = "begin"]
       \/ ~AuthorizeAllowed(w, proc[w].step) /\ Fail(w) /\ UNCHANGED storeVars
    /\ OnActions

(* The input is measured when it is composed, after the permit and before  *)
(* the call: a refusal leaves the permit in flight.  Faulty variant first: *)
(* a resumed process takes the input for measured.                         *)
RefuseInputUnlessResumed(w) ==
    /\ At(w, "begin")
    /\ OverBudget(w)
    /\ IF proc[w].resume THEN Goto(w, "call") ELSE Fail(w)
    /\ Reading

RefuseInput(w) ==
    /\ At(w, "begin")
    /\ OverBudget(w)
    /\ Fail(w)
    /\ Reading

RecordCall(w) ==
    /\ At(w, "begin")
    /\ ~OverBudget(w)
    /\ \/ BeginCall(w, proc[w].permit) /\ Goto(w, "call")
       \/ ~BeginCallAllowed(w, proc[w].permit) /\ Fail(w) /\ UNCHANGED storeVars
    /\ OnCalls

(* The supervisor starts a thread that creates the provider call; nothing  *)
(* looks at the fence any more.  Without a free slot there is no call and  *)
(* the capacity error counts as a transport failure.                       *)
SendCall(w) ==
    /\ At(w, "call")
    /\ created' = [created EXCEPT ![proc[w].step] = @ + 1]
    /\ Goto(w, "awaiting")
    /\ UNCHANGED <<storeVars, oversized>>

RefuseCall(w) ==
    /\ At(w, "call")
    /\ Goto(w, "uncertain")
    /\ Reading

(* The provider answers.  It may repeat a response id of another step.     *)
ReceiveReply(w) ==
    /\ At(w, "awaiting")
    /\ \E r \in Responses :
          proc' = [proc EXCEPT ![w].response = r, ![w].pc = "complete"]
    /\ Reading

(* An empty output is neither recorded nor parsed: the loop goes on with   *)
(* the completion variable as the previous iteration left it, or raises    *)
(* for want of one.                                                        *)
ReceiveEmptyReply(w) ==
    /\ At(w, "awaiting")
    /\ EmptyReplies
    /\ IF proc[w].completion = None THEN Fail(w) ELSE Goto(w, "commit")
    /\ Reading

(* A timeout, a transport error or an output over budget.                  *)
LoseReply(w) ==
    /\ At(w, "awaiting")
    /\ Goto(w, "uncertain")
    /\ Reading

RecordUncertainty(w) ==
    /\ At(w, "uncertain")
    /\ \/ MarkUncertain(w, proc[w].permit)
       \/ ~MarkUncertainAllowed(w, proc[w].permit) /\ UNCHANGED storeVars
    /\ Fail(w)
    /\ OnCalls

(* complete_call refuses a fenced process, a call that is not in flight    *)
(* and a response id of another call; so it does blank metadata, which has *)
(* the same effect: the row stays IN_FLIGHT and the process is gone.       *)
RecordCompletion(w) ==
    /\ At(w, "complete")
    /\ \/ /\ CompleteCall(w, proc[w].permit, proc[w].response)
          /\ proc' = [proc EXCEPT
                        ![w].completion = [step |-> proc[w].step, response |-> proc[w].response],
                        ![w].pc = "commit"]
       \/ /\ ~CompleteCallAllowed(w, proc[w].permit, proc[w].response)
          /\ Fail(w)
          /\ UNCHANGED storeVars
    /\ OnCalls

CommitStep(w) ==
    /\ At(w, "commit")
    /\ \/ /\ CommitAction(w, proc[w].permit, proc[w].completion)
          /\ NextIteration(w, proc[w].completion)
       \/ ~CommitAllowed(w, proc[w].permit) /\ Fail(w) /\ UNCHANGED storeVars
    /\ OnActions

-----------------------------------------------------------------------------
(* After the loop.  The review bundle admits one receipt per reviewer and  *)
(* as many artifacts as the budget says; the driver then finalizes both    *)
(* ledgers.                                                                *)
OneReceiptPerReviewer(w) ==
    \A i, j \in DOMAIN proc[w].receipts :
        proc[w].receipts[i].step = proc[w].receipts[j].step => i = j

BuildBundle(w) ==
    /\ At(w, "step")
    /\ proc[w].step = StepCount
    /\ IF OneReceiptPerReviewer(w) /\ ~OverBudget(w) THEN Goto(w, "finalize") ELSE Fail(w)
    /\ Reading

FinishActions(w) ==
    /\ At(w, "finalize")
    /\ \/ FinalizeAtomic(w) /\ Goto(w, "chain")
       \/ ~FinalizeAllowed(w) /\ Fail(w) /\ UNCHANGED storeVars
    /\ OnActions

FinishCalls(w) ==
    /\ At(w, "chain")
    /\ IF CallsComplete THEN Goto(w, "publish") ELSE Fail(w)
    /\ Reading

ReserveInstant(w) ==
    /\ At(w, "publish")
    /\ \/ \E now \in Instants : ReservePublicationTime(w, now) /\ UNCHANGED proc
       \/ ~ReservationAllowed(w) /\ Fail(w) /\ UNCHANGED storeVars
    /\ OnCoordinator

PublishRerun(w) ==
    /\ At(w, "publish")
    /\ \E core \in Cores :
          \/ \E now \in Instants : Publish(w, core, now) /\ Goto(w, "purge")
          \/ Republish(w, core) /\ Goto(w, "purge")
          \/ /\ ~PublishAllowed(w) /\ ~RepublishAllowed(w, core)
             /\ Fail(w)
             /\ UNCHANGED storeVars
    /\ OnCoordinator

(* Faulty variant: only a resumed process purges.                          *)
PurgeReplayIfResumed(w) ==
    /\ At(w, "purge")
    /\ IF proc[w].resume THEN Purge(w) ELSE UNCHANGED storeVars
    /\ proc' = [proc EXCEPT ![w].pc = "done"]
    /\ OnCalls

PurgeReplay(w) ==
    /\ At(w, "purge")
    /\ \/ Purge(w)
       \/ ~PurgeAllowed(w) /\ UNCHANGED storeVars
    /\ proc' = [proc EXCEPT ![w].pc = "done"]
    /\ OnCalls

(* A process may die between any two of its steps.                         *)
Alive(w) == proc[w].pc \notin {"idle", "done", "failed", "dead"}

Crash(w) ==
    /\ Alive(w)
    /\ proc' = [proc EXCEPT ![w] = Fresh("dead")]
    /\ Reading

-----------------------------------------------------------------------------
LoopStep(w) ==
    \/ LoadPermit(w) \/ LoadCommit(w) \/ LoadProviderState(w)
    \/ ReplayCommitted(w) \/ ReplayAuthorized(w) \/ Reconcile(w) \/ MarkRestart(w)
    \/ ObtainPermit(w) \/ RefuseInput(w) \/ RecordCall(w)
    \/ SendCall(w) \/ RefuseCall(w)
    \/ ReceiveReply(w) \/ ReceiveEmptyReply(w) \/ LoseReply(w)
    \/ RecordUncertainty(w) \/ RecordCompletion(w) \/ CommitStep(w)
    \/ BuildBundle(w)

DriverStep(w) ==
    \/ StartAttempt(w) \/ StartUnresumed(w) \/ StartResumed(w) \/ MarkInFlight(w)
    \/ FinishActions(w) \/ FinishCalls(w)
    \/ ReserveInstant(w) \/ PublishRerun(w) \/ PurgeReplay(w)

Next == \E w \in Workers : ClaimAttempt(w) \/ DriverStep(w) \/ LoopStep(w) \/ Crash(w)

Spec == Init /\ [][Next]_vars

(* Every process that is not stopped takes its next step: the loop is      *)
(* synchronous code, a provider call ends by its deadline and a database   *)
(* transaction by its busy timeout.  Nothing makes a driver claim.         *)
Fairness == \A w \in Workers : WF_vars(DriverStep(w) \/ LoopStep(w))

FairSpec == Spec /\ Fairness

-----------------------------------------------------------------------------
(* The types of the local variables and of the provider's count.           *)
ProcessTypeOK ==
    /\ proc \in [Workers -> Process]
    /\ created \in [Step -> Nat]
    /\ oversized \subseteq 0 .. StepCount

(* However many processes start, crash, are fenced or wake up late, each   *)
(* review step reaches the provider at most once, and not before every     *)
(* earlier step is committed.                                              *)
AtMostOneCallPerStep ==
    \A s \in Step : /\ created[s] <= 1
                    /\ created[s] > 0 => \A t \in 0 .. s - 1 : Committed(t)

(* A step committed without its durable answer: what an empty reply, and   *)
(* nothing else, leads to.                                                 *)
Unanswered(s) == Committed(s) /\ calls[s].state # "COMPLETED"

(* A crash leaves nothing that the audit refuses: in every reachable state *)
(* of a begun attempt the tables pass it, unless a step was committed on   *)
(* an empty reply, and such an attempt it never lets through.              *)
AuditAcceptsEveryCrashPoint == begun => (AuditPasses <=> ~\E s \in Step : Unanswered(s))

(* The attempt stands at an input, or at a bundle, the budget refuses.     *)
StuckOverBudget == nextStep \in oversized

(* A resumed process that is still current fails only over a call that may *)
(* have reached the provider without a durable answer, over an empty reply *)
(* or over the budget; every other crash point of the attempt can be       *)
(* resumed.  A refusal by the budget is for good, though the attempt is    *)
(* classified as safe to resume: every process meets it again.             *)
OnlyUncertainCallsBlockRecovery ==
    \A w \in Workers :
        At(w, "failed") /\ proc[w].resume /\ currentClaim = w =>
            \/ Classification = "FAIL_CLOSED_UNCERTAIN_PROVIDER_CALL"
            \/ \E s \in Step : Unanswered(s)
            \/ StuckOverBudget

(* What is over budget is neither sent nor published, whether the process  *)
(* that meets it composed the step itself or resumed at it.                *)
BudgetIsNeverOverrun ==
    /\ \A s \in Step \cap oversized : created[s] = 0
    /\ Published => oversized = {}

(* A published seal passes the verification any later reader applies.      *)
PublishedSealVerifies == Published => SealVerifies

(* The receipts a process has gathered, by running steps or by replaying   *)
(* durable responses, are those committed for the attempt, step by step;   *)
(* and each committed completion was parsed from the durable response of   *)
(* its own step, not of another one, unless there is none.                 *)
ReceiptsAreTheCommittedOnes ==
    /\ \A w \in Workers : \A i \in DOMAIN proc[w].receipts :
          Committed(i - 1) /\ commits[i - 1].completion = proc[w].receipts[i]
    /\ \A s \in Step : Committed(s) /\ ~Unanswered(s) =>
          /\ commits[s].completion.step = s
          /\ commits[s].completion.response = calls[s].response

(* A process that resumes and remains current and alive publishes, unless  *)
(* a call has become uncertain or the budget refuses the attempt.          *)
RecoveryConverges ==
    \A w \in Workers :
        Alive(w) /\ proc[w].resume ~>
            \/ Published
            \/ At(w, "dead")
            \/ currentClaim # w
            \/ \E s \in Step : calls[s].state \in {"IN_FLIGHT", "UNCERTAIN"}
            \/ StuckOverBudget

(* The replay bytes of a published attempt are purged, unless the process  *)
(* that published dies first: no other may claim the attempt any more.     *)
ReplayBytesArePurgedOrOrphaned ==
    \A w \in Workers :
        Published /\ currentClaim = w ~>
            \/ \A s \in Step : calls[s].material = "PURGED"
            \/ At(w, "dead")

(* The execution implements the abstract at-most-once review.              *)
Review == INSTANCE AtMostOnceReview WITH
    asked <- created,
    record <- [i \in 1 .. nextStep |-> commits[i - 1].completion],
    published <- IF Published THEN publication.core ELSE None

ReviewSpec == Review!Spec
=============================================================================

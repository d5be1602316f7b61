-------------------------- MODULE AtomicActionStore --------------------------
(***************************************************************************)
(* The compare-and-swap ledger of review actions: the class                *)
(* AtomicRecoveryActionStore (held by src/app/attempt_continuity.py).  An  *)
(* attempt runs its review steps 0, 1, ... one at a time: a step is first  *)
(* authorized by a permit, later committed with the classification and the *)
(* signed receipt of its completion.                                       *)
(*                                                                         *)
(* The store serves one attempt of the shared database.  Its clients here  *)
(* are any process with any claim, calling any operation at any time with  *)
(* any permit the store has issued: what holds in this module owes nothing *)
(* to the controller.                                                      *)
(*                                                                         *)
(* A digest is modelled by what it digests, so equal digests are equal     *)
(* contents: a permit is its own permit_sha256 and the state digest, which *)
(* hashes the prior digest with a permit, a class and a receipt, is the    *)
(* sequence of what has been hashed in.                                    *)
(***************************************************************************)
EXTENDS DistributedCoordinator, Sequences

CONSTANTS
    StepCount,  \* reviewers required for the claim, in their fixed order
    Responses   \* provider responses, each with its provider response id

ASSUME StepCountAssumption == StepCount \in Nat \ {0}
ASSUME NoneIsNoResponse == None \notin Responses

Step == 0 .. StepCount - 1

(* A completion parsed from a response to the invocation of a step.  The   *)
(* receipt signs the invocation and the response and the class follows     *)
(* from both, so the pair stands for action_class and receipt_signature.   *)
Completion == [step: Step, response: Responses]
(* What atomic_next_state_sha256 hashes into the state.                    *)
Entry == [by: Workers, completion: Completion]
Permit == [step: Step, claim: Workers, prior: Seq(Entry)]
Commit == [claim: Workers, permit: Permit, completion: Completion,
           prior: Seq(Entry), next: Seq(Entry)]

ASSUME NullIsNoAction == None \notin Permit /\ None \notin Commit

VARIABLES
    begun,      \* the attempts row exists
    nextStep,   \* attempts.next_step
    state,      \* attempts.state_sha256
    inFlight,   \* attempts.in_flight_permit_sha256
    completed,  \* attempts.completed
    permits,    \* actions.permit_json, by step; None while there is no row
    commits     \* actions.commit_json, by step

atomicVars == <<begun, nextStep, state, inFlight, completed, permits, commits>>

AtomicInit ==
    /\ begun = FALSE
    /\ nextStep = 0
    /\ state = <<>>
    /\ inFlight = None
    /\ completed = FALSE
    /\ permits = [s \in Step |-> None]
    /\ commits = [s \in Step |-> None]

Authorized(s) == permits[s] # None
Committed(s) == commits[s] # None
IssuedPermits == {permits[s] : s \in Step} \ {None}

-----------------------------------------------------------------------------
BeginAllowed(w) == AssertCurrentWorker(w, FALSE) /\ ~begun

BeginAttempt(w) ==
    /\ BeginAllowed(w)
    /\ begun' = TRUE
    /\ UNCHANGED <<nextStep, state, inFlight, completed, permits, commits>>
    /\ UNCHANGED coordinatorVars

(* One action at a time, in order.  The row's primary key refuses a second *)
(* permit for a step.                                                      *)
AuthorizeAllowed(w, s) ==
    /\ AssertCurrentWorker(w, FALSE)
    /\ begun
    /\ ~completed
    /\ inFlight = None
    /\ nextStep = s
    /\ ~Authorized(s)

AuthorizeFromInitialState(w, s) ==
    /\ AuthorizeAllowed(w, s)
    /\ permits' = [permits EXCEPT ![s] = [step |-> s, claim |-> w, prior |-> <<>>]]
    /\ inFlight' = permits'[s]
    /\ UNCHANGED <<begun, nextStep, state, completed, commits>>
    /\ UNCHANGED coordinatorVars

Authorize(w, s) ==
    /\ AuthorizeAllowed(w, s)
    /\ permits' = [permits EXCEPT ![s] = [step |-> s, claim |-> w, prior |-> state]]
    /\ inFlight' = permits'[s]
    /\ UNCHANGED <<begun, nextStep, state, completed, commits>>
    /\ UNCHANGED coordinatorVars

(* Only the permit in flight is committed, as it was stored, and once.     *)
CommitAllowed(w, p) ==
    /\ AssertCurrentWorker(w, FALSE)
    /\ begun
    /\ Authorized(p.step)
    /\ ~Committed(p.step)
    /\ inFlight = p
    /\ permits[p.step] = p

NextState(p, completion) ==
    Append(p.prior, [by |-> p.claim, completion |-> completion])

CommitAction(w, p, completion) ==
    /\ CommitAllowed(w, p)
    /\ commits' = [commits EXCEPT ![p.step] =
                     [claim      |-> w,
                      permit     |-> p,
                      completion |-> completion,
                      prior      |-> p.prior,
                      next       |-> NextState(p, completion)]]
    /\ nextStep' = p.step + 1
    /\ state' = NextState(p, completion)
    /\ inFlight' = None
    /\ UNCHANGED <<begun, completed, permits>>
    /\ UNCHANGED coordinatorVars

(* Faulty variant: finalization works once.                                *)
FinalizeAllowedOnce(w) ==
    /\ AssertCurrentWorker(w, FALSE)
    /\ begun /\ ~completed /\ inFlight = None /\ nextStep = StepCount

FinalizeAllowed(w) ==
    /\ AssertCurrentWorker(w, FALSE)
    /\ begun
    /\ inFlight = None
    /\ nextStep = StepCount
    /\ \A s \in Step : Authorized(s) /\ Committed(s)

FinalizeAtomic(w) ==
    /\ FinalizeAllowed(w)
    /\ completed' = TRUE
    /\ UNCHANGED <<begun, nextStep, state, inFlight, permits, commits>>
    /\ UNCHANGED coordinatorVars

AtomicStep(w) ==
    \/ BeginAttempt(w)
    \/ \E s \in Step : Authorize(w, s)
    \/ \E p \in IssuedPermits, c \in Completion : CommitAction(w, p, c)
    \/ FinalizeAtomic(w)

AtomicNext ==
    \/ \E w \in Workers : AtomicStep(w)
    \/ CoordinatorNext /\ UNCHANGED atomicVars

StoresInit == CoordinatorInit /\ AtomicInit

AtomicSpec == StoresInit /\ [][AtomicNext]_<<coordinatorVars, atomicVars>>

-----------------------------------------------------------------------------
(* The types of the attempt row and of the action rows.                    *)
AtomicTypeOK ==
    /\ begun \in BOOLEAN
    /\ nextStep \in 0 .. StepCount
    /\ state \in Seq(Entry)
    /\ inFlight \in Permit \cup {None}
    /\ completed \in BOOLEAN
    /\ permits \in [Step -> Permit \cup {None}]
    /\ commits \in [Step -> Commit \cup {None}]

(* The attempt row and the action rows agree at every instant: exactly the *)
(* steps below next_step are committed, the only other permit is the one   *)
(* in flight at next_step, and completed is set only on a full attempt.    *)
(* A crash between any two transactions leaves such a state, the one the   *)
(* resume logic relies on.                                                 *)
StepsAdvanceInOrder ==
    /\ \A s \in Step : Committed(s) <=> s < nextStep
    /\ \A s \in Step : Authorized(s) <=> s < nextStep \/ (s = nextStep /\ inFlight # None)
    /\ inFlight # None => nextStep < StepCount /\ inFlight = permits[nextStep]
    /\ completed => nextStep = StepCount
    /\ ~begun => nextStep = 0 /\ inFlight = None

(* The permits and the commits hash into one unbroken state chain: each    *)
(* permit and each commit starts from the state its predecessor left, and  *)
(* the attempt row holds the last.                                         *)
StateBefore(s) == IF s = 0 THEN <<>> ELSE commits[s - 1].next

StateChainUnbroken ==
    /\ \A s \in Step : Authorized(s) =>
          permits[s].step = s /\ permits[s].prior = StateBefore(s)
    /\ \A s \in Step : Committed(s) =>
          /\ commits[s].permit = permits[s]
          /\ commits[s].prior = StateBefore(s)
          /\ commits[s].next = NextState(permits[s], commits[s].completion)
    /\ state = StateBefore(nextStep)

(* Worker epochs never regress along the actions: a permit is issued under *)
(* the epoch of the previous commit or a later one, a commit under that of *)
(* its permit or a later one, and none exceeds the current epoch.          *)
EpochsNeverRegress ==
    /\ \A s \in Step : Authorized(s) =>
          /\ claims[permits[s].claim].epoch \in 1 .. currentEpoch
          /\ s > 0 => claims[commits[s - 1].claim].epoch <= claims[permits[s].claim].epoch
    /\ \A s \in Step : Committed(s) =>
          claims[commits[s].claim].epoch \in claims[permits[s].claim].epoch .. currentEpoch

(* A fenced process never writes: a row that appears in a step names the   *)
(* process that is current before and after it, and nothing of the attempt *)
(* changes once the rerun is published.                                    *)
OnlyTheCurrentWorkerWrites ==
    [][/\ \A s \in Step : permits'[s] # permits[s] =>
             permits'[s].claim = currentClaim /\ currentClaim' = currentClaim
       /\ \A s \in Step : commits'[s] # commits[s] =>
             commits'[s].claim = currentClaim /\ currentClaim' = currentClaim
       /\ Published => UNCHANGED atomicVars]_<<coordinatorVars, atomicVars>>
=============================================================================

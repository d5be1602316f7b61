----------------------- MODULE ProviderCallSupervisor -----------------------
(***************************************************************************)
(* The bounded pool of provider threads: the class ProviderCallSupervisor  *)
(* (held by src/app/usefulness.py).  A call takes a capacity slot, runs    *)
(* the provider function in a daemon thread of its own and waits for it    *)
(* until a deadline.  A thread that misses the deadline keeps its slot     *)
(* until it really ends.                                                   *)
(*                                                                         *)
(* A member of Calls is one invocation of call: the caller and the thread  *)
(* it starts.  Controllers in any number of threads may call at once.      *)
(***************************************************************************)
EXTENDS Integers, FiniteSets

CONSTANTS
    Calls,          \* invocations of call
    MaxOutstanding, \* max_outstanding_workers
    StartMayFail    \* whether Thread.start may raise for want of a system thread

ASSUME CallsAssumption == IsFiniteSet(Calls)
ASSUME MaxAssumption == MaxOutstanding \in Nat \ {0}
ASSUME StartAssumption == StartMayFail \in BOOLEAN

VARIABLES
    caller,         \* where each call is: idle, refused, acquired, counted, notStarted,
                    \* joining, timedOut, collecting, returned, raised
    thread,         \* where its thread is: none, running, answered, uncounted, released, ended
    answer,         \* what its results queue holds: empty, ok, err
    slots,          \* the value of the semaphore
    outstanding     \* the counter reported by outstanding_workers

supervisorVars == <<caller, thread, answer, slots, outstanding>>

SupervisorInit ==
    /\ caller = [c \in Calls |-> "idle"]
    /\ thread = [c \in Calls |-> "none"]
    /\ answer = [c \in Calls |-> "empty"]
    /\ slots = MaxOutstanding
    /\ outstanding = 0

-----------------------------------------------------------------------------
Caller(c, from, to) == caller[c] = from /\ caller' = [caller EXCEPT ![c] = to]
Thread(c, from, to) == thread[c] = from /\ thread' = [thread EXCEPT ![c] = to]

(* The slot is taken without waiting, or the call fails closed.            *)
SlotFree == slots > 0

Acquire(c) ==
    /\ SlotFree
    /\ Caller(c, "idle", "acquired")
    /\ slots' = slots - 1
    /\ UNCHANGED <<thread, answer, outstanding>>

Refuse(c) ==
    /\ ~SlotFree
    /\ Caller(c, "idle", "refused")
    /\ UNCHANGED <<thread, answer, slots, outstanding>>

Count(c) ==
    /\ Caller(c, "acquired", "counted")
    /\ outstanding' = outstanding + 1
    /\ UNCHANGED <<thread, answer, slots>>

Start(c) ==
    /\ Caller(c, "counted", "joining")
    /\ Thread(c, "none", "running")
    /\ UNCHANGED <<answer, slots, outstanding>>

(* Thread.start raises: call propagates the error and gives nothing back.  *)
FailToStart(c) ==
    /\ StartMayFail
    /\ Caller(c, "counted", "notStarted")
    /\ UNCHANGED <<thread, answer, slots, outstanding>>

(* The provider function returns or raises; then, in the finally block,    *)
(* the counter goes down before the slot is given back.                    *)
Answer(c) ==
    /\ Thread(c, "running", "answered")
    /\ \E kind \in {"ok", "err"} : answer' = [answer EXCEPT ![c] = kind]
    /\ UNCHANGED <<caller, slots, outstanding>>

(* Faulty variant: the slot of a caller that has given up is not returned. *)
ReleaseUnlessTimedOut(c) ==
    /\ caller[c] # "timedOut"
    /\ Thread(c, "uncounted", "released")
    /\ slots' = slots + 1
    /\ UNCHANGED <<caller, answer, outstanding>>

Uncount(c) ==
    /\ Thread(c, "answered", "uncounted")
    /\ outstanding' = outstanding - 1
    /\ UNCHANGED <<caller, answer, slots>>

Release(c) ==
    /\ Thread(c, "uncounted", "released")
    /\ slots' = slots + 1
    /\ UNCHANGED <<caller, answer, outstanding>>

(* Only now does is_alive turn false.                                      *)
Exit(c) ==
    /\ Thread(c, "released", "ended")
    /\ UNCHANGED <<caller, answer, slots, outstanding>>

(* Faulty variants: the slot is given back at the deadline; there is none. *)
TimeOutReleasing(c) ==
    /\ thread[c] # "ended"
    /\ Caller(c, "joining", "timedOut")
    /\ slots' = slots + 1
    /\ UNCHANGED <<thread, answer, outstanding>>
TimeOutOnlyOnceAnswered(c) ==
    /\ thread[c] \in {"answered", "uncounted", "released"}
    /\ Caller(c, "joining", "timedOut")
    /\ UNCHANGED <<thread, answer, slots, outstanding>>

(* join returns at the end of the thread or at the deadline; is_alive then *)
(* decides, so an answer queued by a thread still alive is dropped.        *)
Joined(c) == thread[c] = "ended"

Join(c) ==
    /\ Joined(c)
    /\ Caller(c, "joining", "collecting")
    /\ UNCHANGED <<thread, answer, slots, outstanding>>

TimeOut(c) ==
    /\ thread[c] # "ended"
    /\ Caller(c, "joining", "timedOut")
    /\ UNCHANGED <<thread, answer, slots, outstanding>>

Collect(c) ==
    /\ answer[c] # "empty"
    /\ Caller(c, "collecting", IF answer[c] = "ok" THEN "returned" ELSE "raised")
    /\ UNCHANGED <<thread, answer, slots, outstanding>>

CallerStep(c) ==
    \/ Acquire(c) \/ Refuse(c) \/ Count(c) \/ Start(c) \/ FailToStart(c)
    \/ Join(c) \/ TimeOut(c) \/ Collect(c)

CleanupStep(c) == Uncount(c) \/ Release(c) \/ Exit(c)

SupervisorNext == \E c \in Calls : CallerStep(c) \/ Answer(c) \/ CleanupStep(c)

(* Callers and the finally block of a thread run on; join does not outlast *)
(* its deadline.  The provider function itself may never return, and       *)
(* nobody has to call.                                                     *)
SupervisorSpec ==
    /\ SupervisorInit
    /\ [][SupervisorNext]_supervisorVars
    /\ \A c \in Calls : WF_supervisorVars(caller[c] # "idle" /\ CallerStep(c))
    /\ \A c \in Calls : WF_supervisorVars(CleanupStep(c))

-----------------------------------------------------------------------------
LiveThreads == {c \in Calls : thread[c] \in {"running", "answered", "uncounted"}}
BeforeStart == {c \in Calls : caller[c] \in {"acquired", "counted"}}

(* "retains one capacity slot until it really exits", but for the threads  *)
(* that could not be started: every other slot in use belongs to a call    *)
(* that is about to start its thread or to a thread that has not reached   *)
(* the last statement of its finally block, also when the caller timed out *)
(* long ago, and none is given back twice.  The counter, which is raised   *)
(* after the slot is taken and lowered before it is given back, never      *)
(* reports more calls than slots in use; what it misses is between the two *)
(* steps.                                                                  *)
CapacityIsAccounted ==
    /\ slots + Cardinality(LiveThreads \cup BeforeStart
                           \cup {c \in Calls : caller[c] = "notStarted"}) = MaxOutstanding
    /\ outstanding = Cardinality({c \in Calls : thread[c] \in {"running", "answered"}
                                                \/ caller[c] \in {"counted", "notStarted"}})

(* Every accepted call comes back to its controller, even if the provider  *)
(* hangs for ever.                                                         *)
CallersComeBack ==
    \A c \in Calls : caller[c] \in {"acquired", "counted", "joining", "collecting"} ~>
        caller[c] \in {"returned", "raised", "timedOut", "notStarted"}

(* A thread whose provider answered, in time or late, gives its slot back. *)
LateThreadsGiveTheirSlotBack ==
    \A c \in Calls : thread[c] = "answered" ~> thread[c] = "ended"
=============================================================================

-------------------- MODULE ProviderCallSupervisor_proofs --------------------
(***************************************************************************)
(* That the pool of provider threads accounts for its slots, for any       *)
(* number of calls and any capacity.                                       *)
(*                                                                         *)
(* A step moves one call, and that call enters or leaves the set of slots  *)
(* in use exactly when the semaphore is taken or given back.  What makes   *)
(* this inductive is that a call whose caller has not started a thread has *)
(* none, so that no call is in use for two reasons.                        *)
(***************************************************************************)
EXTENDS ProviderCallSupervisor, FiniteSetTheorems, TLAPS

NotStarted == {c \in Calls : caller[c] = "notStarted"}
InUse == LiveThreads \cup BeforeStart \cup NotStarted
Counted == {c \in Calls : thread[c] \in {"running", "answered"}
                          \/ caller[c] \in {"counted", "notStarted"}}

(* A call has a thread once its caller has started it.                     *)
Threadless == {"idle", "refused", "acquired", "counted", "notStarted"}

SupervisorTypeOK ==
    /\ caller \in [Calls -> Threadless \cup {"joining", "timedOut", "collecting",
                                             "returned", "raised"}]
    /\ thread \in [Calls -> {"none", "running", "answered", "uncounted", "released", "ended"}]
    /\ slots \in Nat
    /\ outstanding \in Int

ThreadsAreStarted == \A c \in Calls : thread[c] = "none" <=> caller[c] \in Threadless

SupervisorInv == SupervisorTypeOK /\ ThreadsAreStarted /\ CapacityIsAccounted

(* Sets of calls, and how they are counted.                                *)
LEMMA CountingCalls ==
    ASSUME NEW S, S \subseteq Calls
    PROVE  /\ Cardinality(S) \in Nat
           /\ \A c \in Calls \ S : Cardinality(S \cup {c}) = Cardinality(S) + 1
           /\ \A c \in S : Cardinality(S \ {c}) = Cardinality(S) - 1
<1>1. IsFiniteSet(S)
  BY CallsAssumption, FS_Subset
<1> QED BY <1>1, FS_CardinalityType, FS_AddElement, FS_RemoveElement

LEMMA UsedAreCalls == InUse \subseteq Calls /\ Counted \subseteq Calls /\ LiveThreads \subseteq InUse
BY DEF InUse, Counted, LiveThreads, BeforeStart, NotStarted

LEMMA SupervisorInvInit == SupervisorInit => SupervisorInv
<1> SUFFICES ASSUME SupervisorInit PROVE SupervisorInv
  OBVIOUS
<1>1. SupervisorTypeOK /\ ThreadsAreStarted
  BY MaxAssumption DEF SupervisorInit, SupervisorTypeOK, ThreadsAreStarted, Threadless
<1>2. InUse = {} /\ Counted = {}
  BY DEF SupervisorInit, InUse, Counted, LiveThreads, BeforeStart, NotStarted
<1>3. CapacityIsAccounted
  BY <1>2, FS_EmptySet, MaxAssumption
  DEF SupervisorInit, CapacityIsAccounted, InUse, NotStarted, Counted
<1> QED BY <1>1, <1>3 DEF SupervisorInv

(* The steps in which the semaphore is left alone and the call stays where *)
(* it was in the accounts.                                                 *)
QuietStep(c) ==
    \/ Refuse(c) \/ Start(c) \/ FailToStart(c) \/ Join(c) \/ TimeOut(c) \/ Collect(c)
    \/ Answer(c) \/ Exit(c)

LEMMA TypesStay ==
    ASSUME SupervisorTypeOK, ThreadsAreStarted, [SupervisorNext]_supervisorVars
    PROVE  SupervisorTypeOK' /\ ThreadsAreStarted'
<1> USE DEF SupervisorTypeOK, ThreadsAreStarted, Threadless, Caller, Thread
<1>1. ASSUME NEW c \in Calls, CallerStep(c)
      PROVE  SupervisorTypeOK' /\ ThreadsAreStarted'
  <2>1. CASE Acquire(c)
    BY <2>1 DEF Acquire, SlotFree
  <2>2. CASE Refuse(c) \/ FailToStart(c)
    BY <2>2 DEF Refuse, FailToStart
  <2>3. CASE Count(c)
    BY <2>3 DEF Count
  <2>4. CASE Start(c)
    BY <2>4 DEF Start
  <2>5. CASE Join(c) \/ TimeOut(c)
    BY <2>5 DEF Join, Joined, TimeOut
  <2>6. CASE Collect(c)
    BY <2>6 DEF Collect
  <2> QED BY <1>1, <2>1, <2>2, <2>3, <2>4, <2>5, <2>6 DEF CallerStep
<1>2. ASSUME NEW c \in Calls, Answer(c) \/ Exit(c)
      PROVE  SupervisorTypeOK' /\ ThreadsAreStarted'
  BY <1>2 DEF Answer, Exit
<1>3. ASSUME NEW c \in Calls, Uncount(c)
      PROVE  SupervisorTypeOK' /\ ThreadsAreStarted'
  BY <1>3 DEF Uncount
<1>4. ASSUME NEW c \in Calls, Release(c)
      PROVE  SupervisorTypeOK' /\ ThreadsAreStarted'
  BY <1>4 DEF Release
<1>5. CASE UNCHANGED supervisorVars
  BY <1>5 DEF supervisorVars
<1> QED BY <1>1, <1>2, <1>3, <1>4, <1>5 DEF SupervisorNext, CleanupStep

LEMMA QuietStepsStay ==
    ASSUME SupervisorInv, NEW c \in Calls, QuietStep(c)
    PROVE  UNCHANGED <<InUse, Counted, slots, outstanding>>
<1> USE DEF SupervisorInv, SupervisorTypeOK, ThreadsAreStarted, Threadless, Caller, Thread,
            InUse, Counted, LiveThreads, BeforeStart, NotStarted
<1>1. CASE Refuse(c) \/ FailToStart(c)
  BY <1>1 DEF Refuse, FailToStart
<1>2. CASE Start(c)
  BY <1>2 DEF Start
<1>3. CASE Join(c) \/ TimeOut(c)
  BY <1>3 DEF Join, Joined, TimeOut
<1>4. CASE Collect(c)
  BY <1>4 DEF Collect
<1>5. CASE Answer(c) \/ Exit(c)
  BY <1>5 DEF Answer, Exit
<1> QED BY <1>1, <1>2, <1>3, <1>4, <1>5 DEF QuietStep

LEMMA CapacityStep ==
    ASSUME SupervisorInv, [SupervisorNext]_supervisorVars
    PROVE  CapacityIsAccounted'
<1>0. /\ slots + Cardinality(InUse) = MaxOutstanding /\ outstanding = Cardinality(Counted)
      /\ slots \in Nat /\ outstanding \in Int /\ MaxOutstanding \in Nat
  BY MaxAssumption
  DEF SupervisorInv, SupervisorTypeOK, CapacityIsAccounted, InUse, Counted, NotStarted
<1>1. SUFFICES /\ slots' + Cardinality(InUse') = MaxOutstanding
               /\ outstanding' = Cardinality(Counted')
  BY DEF CapacityIsAccounted, InUse, Counted, NotStarted
<1> USE DEF SupervisorInv, SupervisorTypeOK, ThreadsAreStarted, Threadless, Caller, Thread
<1>2. ASSUME NEW c \in Calls, Acquire(c)
      PROVE  /\ slots' + Cardinality(InUse') = MaxOutstanding
             /\ outstanding' = Cardinality(Counted')
  <2>1. c \in Calls \ InUse /\ InUse' = InUse \cup {c} /\ Counted' = Counted
    BY <1>2 DEF Acquire, InUse, Counted, LiveThreads, BeforeStart, NotStarted
  <2>2. slots' = slots - 1 /\ outstanding' = outstanding
    BY <1>2 DEF Acquire
  <2> QED BY <1>0, <2>1, <2>2, CountingCalls, UsedAreCalls
<1>3. ASSUME NEW c \in Calls, Count(c)
      PROVE  /\ slots' + Cardinality(InUse') = MaxOutstanding
             /\ outstanding' = Cardinality(Counted')
  <2>1. c \in Calls \ Counted /\ Counted' = Counted \cup {c} /\ InUse' = InUse
    BY <1>3 DEF Count, InUse, Counted, LiveThreads, BeforeStart, NotStarted
  <2>2. slots' = slots /\ outstanding' = outstanding + 1
    BY <1>3 DEF Count
  <2> QED BY <1>0, <2>1, <2>2, CountingCalls, UsedAreCalls
<1>4. ASSUME NEW c \in Calls, Uncount(c)
      PROVE  /\ slots' + Cardinality(InUse') = MaxOutstanding
             /\ outstanding' = Cardinality(Counted')
  <2>1. c \in Counted /\ Counted' = Counted \ {c} /\ InUse' = InUse
    BY <1>4 DEF Uncount, InUse, Counted, LiveThreads, BeforeStart, NotStarted
  <2>2. slots' = slots /\ outstanding' = outstanding - 1
    BY <1>4 DEF Uncount
  <2> QED BY <1>0, <2>1, <2>2, CountingCalls, UsedAreCalls
<1>5. ASSUME NEW c \in Calls, Release(c)
      PROVE  /\ slots' + Cardinality(InUse') = MaxOutstanding
             /\ outstanding' = Cardinality(Counted')
  <2>1. c \in InUse /\ InUse' = InUse \ {c} /\ Counted' = Counted
    BY <1>5 DEF Release, InUse, Counted, LiveThreads, BeforeStart, NotStarted
  <2>2. slots' = slots + 1 /\ outstanding' = outstanding
    BY <1>5 DEF Release
  <2>3. Cardinality(InUse) \in Nat /\ Cardinality(InUse \ {c}) = Cardinality(InUse) - 1
    BY <2>1, CountingCalls, UsedAreCalls
  <2> QED BY <1>0, <2>1, <2>2, <2>3
<1>6. ASSUME NEW c \in Calls, QuietStep(c)
      PROVE  /\ slots' + Cardinality(InUse') = MaxOutstanding
             /\ outstanding' = Cardinality(Counted')
  <2>1. UNCHANGED <<InUse, Counted, slots, outstanding>>
    BY <1>6, QuietStepsStay
  <2> QED BY <1>0, <2>1
<1>7. CASE UNCHANGED supervisorVars
  <2>1. UNCHANGED <<InUse, Counted, slots, outstanding>>
    BY <1>7 DEF supervisorVars, InUse, Counted, LiveThreads, BeforeStart, NotStarted
  <2> QED BY <1>0, <2>1
<1>8. [SupervisorNext]_supervisorVars <=>
        \/ \E c \in Calls : \/ Acquire(c) \/ Count(c) \/ Uncount(c) \/ Release(c)
                            \/ QuietStep(c)
        \/ UNCHANGED supervisorVars
  BY Zenon DEF SupervisorNext, CallerStep, CleanupStep, QuietStep
<1> QED BY <1>2, <1>3, <1>4, <1>5, <1>6, <1>7, <1>8

(* The accounts of the pool are right at every instant, whichever calls    *)
(* race for a slot, time out, fail to start or are answered late.          *)
THEOREM SupervisorCorrect == SupervisorSpec => []SupervisorInv
<1>1. SupervisorInv /\ [SupervisorNext]_supervisorVars => SupervisorInv'
  BY TypesStay, CapacityStep DEF SupervisorInv
<1> QED BY <1>1, SupervisorInvInit, PTL DEF SupervisorSpec

(* A slot in use belongs to a call about to start its thread, to a thread  *)
(* that has not given it back, or was lost to a thread that could not be   *)
(* started; the counter never misses a call but between two statements.    *)
THEOREM CapacityIsAlwaysAccounted == SupervisorSpec => []CapacityIsAccounted
<1>1. SupervisorInv => CapacityIsAccounted
  BY DEF SupervisorInv
<1> QED BY <1>1, SupervisorCorrect, PTL

(* There are never more provider threads than max_outstanding_workers, and *)
(* outstanding_workers never reports more, whatever providers hang.        *)
THEOREM ThreadsAreBounded ==
    SupervisorSpec => [](/\ Cardinality(LiveThreads) <= MaxOutstanding
                         /\ outstanding \in 0 .. MaxOutstanding)
<1>1. SupervisorInv => /\ Cardinality(LiveThreads) <= MaxOutstanding
                       /\ outstanding \in 0 .. MaxOutstanding
  <2> SUFFICES ASSUME SupervisorInv
               PROVE  /\ Cardinality(LiveThreads) <= MaxOutstanding
                      /\ outstanding \in 0 .. MaxOutstanding
    OBVIOUS
  <2>1. /\ slots + Cardinality(InUse) = MaxOutstanding /\ outstanding = Cardinality(Counted)
        /\ slots \in Nat /\ MaxOutstanding \in Nat
    BY MaxAssumption
    DEF SupervisorInv, SupervisorTypeOK, CapacityIsAccounted, InUse, Counted, NotStarted
  <2>2. LiveThreads \subseteq InUse /\ Counted \subseteq InUse
    BY DEF InUse, Counted, LiveThreads, BeforeStart, NotStarted
  <2>3. IsFiniteSet(InUse)
    BY UsedAreCalls, CallsAssumption, FS_Subset
  <2>4. /\ Cardinality(LiveThreads) <= Cardinality(InUse)
        /\ Cardinality(Counted) <= Cardinality(InUse)
    BY <2>2, <2>3, FS_Subset
  <2>5. Cardinality(InUse) \in Nat /\ Cardinality(Counted) \in Nat /\ Cardinality(LiveThreads) \in Nat
    <3>1. LiveThreads \subseteq Calls
      BY UsedAreCalls
    <3> QED BY <3>1, UsedAreCalls, CountingCalls
  <2> QED BY <2>1, <2>4, <2>5
<1> QED BY <1>1, SupervisorCorrect, PTL
=============================================================================

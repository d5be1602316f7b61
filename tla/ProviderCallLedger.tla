------------------------- MODULE ProviderCallLedger -------------------------
(***************************************************************************)
(* The durable ledger of provider calls: the class ProviderCallLedgerStore *)
(* (held by src/app/receipts.py), which shares its database with the       *)
(* atomic action store.  A call is IN_FLIGHT before any network traffic;   *)
(* it becomes COMPLETED with the response, or UNCERTAIN, which nothing     *)
(* undoes.  A completed call can be replayed until its private material is *)
(* purged.  The store is modelled with durable_reconciliation set, so a    *)
(* call always stores its invocation and a completion its output.          *)
(*                                                                         *)
(* provider_call_id digests the permit, so a permit identifies the call.   *)
(* As in AtomicActionStore, any claimed process may call any operation     *)
(* with any issued permit.                                                 *)
(***************************************************************************)
EXTENDS AtomicActionStore

CONSTANT PrivacyMinimized   \* the store encrypts replay material and may purge it

ASSUME PrivacyAssumption == PrivacyMinimized \in BOOLEAN

VARIABLES
    calls,  \* the provider_calls rows, by step
    recons  \* provider_reconciliations, by step: the claim that reconciled, or None

ledgerVars == <<calls, recons>>
storeVars == <<coordinatorVars, atomicVars, ledgerVars>>

CallStates == {"NONE", "IN_FLIGHT", "UNCERTAIN", "COMPLETED"}
MaterialStates == {"NONE", "AVAILABLE", "PURGED"}
Call == [state: CallStates,
         claim: Workers \cup {None},
         permit: Permit \cup {None},
         response: Responses \cup {None},
         material: MaterialStates]
NoCall == [state |-> "NONE", claim |-> None, permit |-> None,
           response |-> None, material |-> "NONE"]

LedgerInit ==
    /\ calls = [s \in Step |-> NoCall]
    /\ recons = [s \in Step |-> None]

-----------------------------------------------------------------------------
Started(s) == calls[s].state # "NONE"

(* The primary key admits one call per step, whatever became of it.        *)
BeginCallAllowed(w, p) ==
    /\ AssertCurrentWorker(w, FALSE)
    /\ ~Started(p.step)

BeginCall(w, p) ==
    /\ BeginCallAllowed(w, p)
    /\ calls' = [calls EXCEPT ![p.step] =
                   [state |-> "IN_FLIGHT", claim |-> w, permit |-> p,
                    response |-> None, material |-> "AVAILABLE"]]
    /\ UNCHANGED <<recons, coordinatorVars, atomicVars>>

(* Faulty variant: the state of the row is not looked at.                  *)
RowOf(p) == calls[p.step].permit = p
InFlightFor(p) == calls[p.step].state = "IN_FLIGHT" /\ calls[p.step].permit = p

(* A provider response id completes one call only.                         *)
ResponseUsed(r) ==
    \E s \in Step : calls[s].state = "COMPLETED" /\ calls[s].response = r

(* Faulty variant: response ids are not compared.                          *)
CompleteCallAllowedTwice(w, p, r) == AssertCurrentWorker(w, FALSE) /\ InFlightFor(p)

CompleteCallAllowed(w, p, r) ==
    /\ AssertCurrentWorker(w, FALSE)
    /\ InFlightFor(p)
    /\ ~ResponseUsed(r)

CompleteCall(w, p, r) ==
    /\ CompleteCallAllowed(w, p, r)
    /\ calls' = [calls EXCEPT ![p.step] =
                   [@ EXCEPT !.state = "COMPLETED", !.response = r, !.material = "AVAILABLE"]]
    /\ UNCHANGED <<recons, coordinatorVars, atomicVars>>

MarkUncertainAllowed(w, p) ==
    /\ AssertCurrentWorker(w, FALSE)
    /\ InFlightFor(p)

MarkUncertain(w, p) ==
    /\ MarkUncertainAllowed(w, p)
    /\ calls' = [calls EXCEPT ![p.step] = [@ EXCEPT !.state = "UNCERTAIN"]]
    /\ UNCHANGED <<recons, coordinatorVars, atomicVars>>

MarkRestartInFlightUncertain(w) ==
    /\ AssertCurrentWorker(w, FALSE)
    /\ calls' = [s \in Step |-> IF calls[s].state = "IN_FLIGHT"
                                  THEN [calls[s] EXCEPT !.state = "UNCERTAIN"]
                                  ELSE calls[s]]
    /\ UNCHANGED <<recons, coordinatorVars, atomicVars>>

(* The read half of replay_completed_call.                                 *)
Replayable(s) == calls[s].state = "COMPLETED" /\ calls[s].material # "PURGED"
ReplayedCompletion(s) == [step |-> calls[s].permit.step, response |-> calls[s].response]

(* The write half: the first reconciliation of a call stays.               *)
RecordReconciliation(w, s) ==
    /\ AssertCurrentWorker(w, FALSE)
    /\ recons' = IF recons[s] = None THEN [recons EXCEPT ![s] = w] ELSE recons
    /\ UNCHANGED <<calls, coordinatorVars, atomicVars>>

(* purge_private_replay_material: every call row there is must be          *)
(* COMPLETED, and there must be one.                                       *)
PurgeAllowed(w) ==
    /\ PrivacyMinimized
    /\ AssertCurrentWorker(w, TRUE)
    /\ \E s \in Step : Started(s)
    /\ \A s \in Step : Started(s) => calls[s].state = "COMPLETED"

Purge(w) ==
    /\ PurgeAllowed(w)
    /\ calls' = [s \in Step |-> IF Started(s)
                                  THEN [calls[s] EXCEPT !.material = "PURGED"]
                                  ELSE calls[s]]
    /\ UNCHANGED <<recons, coordinatorVars, atomicVars>>

(* The guard of finalize, which only reads.                                *)
CallsComplete == \A s \in Step : calls[s].state = "COMPLETED"

LedgerStep(w) ==
    \/ \E p \in IssuedPermits :
          \/ BeginCall(w, p)
          \/ \E r \in Responses : CompleteCall(w, p, r)
          \/ MarkUncertain(w, p)
    \/ MarkRestartInFlightUncertain(w)
    \/ \E s \in Step : calls[s].state = "COMPLETED" /\ RecordReconciliation(w, s)
    \/ Purge(w)

LedgerNext ==
    \/ \E w \in Workers : LedgerStep(w)
    \/ AtomicNext /\ UNCHANGED ledgerVars

AllStoresInit == StoresInit /\ LedgerInit

LedgerSpec == AllStoresInit /\ [][LedgerNext]_storeVars

-----------------------------------------------------------------------------
(* The types of the provider tables.                                       *)
LedgerTypeOK ==
    /\ calls \in [Step -> Call]
    /\ recons \in [Step -> Workers \cup {None}]

(* Every call was begun under the stored permit of its step, by a process  *)
(* no older than the one that obtained the permit, and was reconciled by   *)
(* one no older than its own: the order of epochs that the state audit and *)
(* the seal verification require of calls and reconciliations.             *)
CallsFollowTheirPermits ==
    /\ \A s \in Step : Started(s) =>
          /\ Authorized(s) /\ calls[s].permit = permits[s]
          /\ calls[s].claim \in Workers
          /\ claims[calls[s].claim].epoch \in claims[permits[s].claim].epoch .. currentEpoch
    /\ \A s \in Step : recons[s] # None =>
          /\ calls[s].state = "COMPLETED"
          /\ claims[recons[s]].epoch \in claims[calls[s].claim].epoch .. currentEpoch

(* No provider response stands behind two review steps.                    *)
ResponsesAreUsedOnce ==
    \A s, t \in Step :
        calls[s].state = "COMPLETED" /\ calls[t].state = "COMPLETED"
        /\ calls[s].response = calls[t].response => s = t

(* A call leaves IN_FLIGHT once and for good: it is never begun again, a   *)
(* response is never replaced, an uncertain call never becomes complete,   *)
(* whichever processes race and whatever they were doing when fenced.      *)
CallsSettleOnce ==
    [][\A s \in Step :
          /\ Started(s) => calls'[s].permit = calls[s].permit
          /\ calls[s].state = "UNCERTAIN" => calls'[s] = calls[s]
          /\ calls[s].state = "COMPLETED" =>
                calls'[s].state = "COMPLETED" /\ calls'[s].response = calls[s].response
          /\ calls[s].state = "IN_FLIGHT" => calls'[s].state # "NONE"]_storeVars

(* After publication the provider tables change only by a purge.           *)
PublishedCallsOnlyPurged ==
    [][Published => /\ recons' = recons
                    /\ \A s \in Step : calls'[s] \in
                          {calls[s], [calls[s] EXCEPT !.material = "PURGED"]}]_storeVars
=============================================================================

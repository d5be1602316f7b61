----------------------- MODULE DistributedCoordinator -----------------------
(***************************************************************************)
(* Worker fencing and single-assignment publication of one recovery        *)
(* attempt: the class DistributedRecoveryCoordinator (held by the file     *)
(* src/app/evidence_admission.py).  Every process invocation obtains one   *)
(* worker claim; an explicit takeover advances the epoch and fences the    *)
(* earlier claim; the attempt publishes one rerun core.                    *)
(*                                                                         *)
(* A claim carries a fresh 24-byte nonce under its digest, so the digest   *)
(* identifies the process invocation that obtained it: a member of Workers *)
(* stands for both.  Every operation is one BEGIN IMMEDIATE transaction,   *)
(* hence one step.  An operation that raises leaves the database alone;    *)
(* what its caller does then is the business of the module that calls it.  *)
(***************************************************************************)
EXTENDS Naturals

CONSTANTS
    Workers,    \* process invocations, each with the claim it may obtain
    Cores,      \* digests of the rerun cores a process may want to publish
    Instants,   \* readings of the wall clock
    None        \* SQL NULL, the all-zero prior digest, and "nothing returned"

ASSUME NoneAssumption ==
    None \notin Workers /\ None \notin Cores /\ None \notin Instants

VARIABLES
    currentEpoch,   \* distributed_attempts.current_epoch, 0 while there is no row
    currentClaim,   \* distributed_attempts.current_claim_sha256
    claims,         \* distributed_worker_claims, by claim digest
    reservation,    \* reserved_publication_claim_sha256 and reserved_publication_at
    publication,    \* published_core_sha256 and publication_json
    clock,          \* what reserve_publication_time last returned to a process
    sealed          \* the seal publish last returned to a process

coordinatorVars ==
    <<currentEpoch, currentClaim, claims, reservation, publication, clock, sealed>>

Claim == [epoch: Nat, prior: Workers \cup {None}, takeover: BOOLEAN]
NoClaim == [epoch |-> 0, prior |-> None, takeover |-> FALSE]
Reservation == [by: Workers, at: Instants]
Seal == [core: Cores, final: Workers, at: Instants, chain: [Workers -> Claim]]

ASSUME NullIsNoRow == None \notin Reservation /\ None \notin Seal

-----------------------------------------------------------------------------
CoordinatorInit ==
    /\ currentEpoch = 0
    /\ currentClaim = None
    /\ claims = [w \in Workers |-> NoClaim]
    /\ reservation = None
    /\ publication = None
    /\ clock = [w \in Workers |-> None]
    /\ sealed = [w \in Workers |-> None]

Claimed(w) == claims[w].epoch # 0
Published == publication # None

(* Faulty variants, to show that the properties notice: a check that does  *)
(* not look at the publication, and one that does not look at the epoch.   *)
AssertCurrentWorkerIgnoringPublication(w, allowPublished) ==
    Claimed(w) /\ currentClaim = w
AssertCurrentWorkerIgnoringEpoch(w, allowPublished) ==
    Claimed(w) /\ (Published => allowPublished)

(* assert_current_worker_conn with required=True: w holds a claim, it is   *)
(* the current one by epoch and by digest, and nothing is published unless *)
(* the operation tolerates that.                                           *)
AssertCurrentWorker(w, allowPublished) ==
    /\ Claimed(w)
    /\ currentEpoch = claims[w].epoch
    /\ currentClaim = w
    /\ Published => allowPublished

(* Faulty variants: takeovers after publication, and implicit takeovers.   *)
ClaimAllowedAfterPublication(w, takeover) ==
    ~Claimed(w) /\ (takeover <=> currentEpoch # 0)
ClaimAllowedUnasked(w, takeover) == ~Claimed(w) /\ ~Published

(* The first claim creates the row and must not be a takeover; a later one *)
(* must be, is refused after publication, and drops the reservation of the *)
(* process it fences.                                                      *)
ClaimAllowed(w, takeover) ==
    /\ ~Claimed(w)
    /\ takeover <=> currentEpoch # 0
    /\ ~Published

(* Faulty variant: the reservation outlives the process that made it.      *)
ClaimWorkerKeepingReservation(w, takeover) ==
    /\ ClaimAllowed(w, takeover)
    /\ claims' = [claims EXCEPT ![w] = [epoch    |-> currentEpoch + 1,
                                        prior    |-> currentClaim,
                                        takeover |-> takeover]]
    /\ currentEpoch' = currentEpoch + 1
    /\ currentClaim' = w
    /\ UNCHANGED <<reservation, publication, clock, sealed>>

ClaimWorker(w, takeover) ==
    /\ ClaimAllowed(w, takeover)
    /\ claims' = [claims EXCEPT ![w] = [epoch    |-> currentEpoch + 1,
                                        prior    |-> currentClaim,
                                        takeover |-> takeover]]
    /\ currentEpoch' = currentEpoch + 1
    /\ currentClaim' = w
    /\ reservation' = None
    /\ UNCHANGED <<publication, clock, sealed>>

(* A reservation of another process is never handed out or overwritten.    *)
ReservationAllowed(w) ==
    /\ \/ AssertCurrentWorker(w, FALSE)
       \/ Published /\ reservation # None
    /\ reservation # None => reservation.by = w

ReservePublicationTime(w, now) ==
    /\ ReservationAllowed(w)
    /\ reservation' = IF reservation = None
                        THEN [by |-> w, at |-> now] ELSE reservation
    /\ clock' = [clock EXCEPT ![w] = reservation'.at]
    /\ UNCHANGED <<currentEpoch, currentClaim, claims, publication, sealed>>

PublishAllowed(w) ==
    /\ AssertCurrentWorker(w, FALSE)
    /\ reservation # None => reservation.by = w

(* The first publication: it reserves the instant if nobody has, and its   *)
(* seal carries every claim row.                                           *)
Publish(w, core, now) ==
    /\ PublishAllowed(w)
    /\ reservation' = IF reservation = None
                        THEN [by |-> w, at |-> now] ELSE reservation
    /\ publication' = [core  |-> core,
                       final |-> w,
                       at    |-> reservation'.at,
                       chain |-> claims]
    /\ sealed' = [sealed EXCEPT ![w] = publication']
    /\ UNCHANGED <<currentEpoch, currentClaim, claims, clock>>

(* After publication, publish answers the same core with the stored seal,  *)
(* whoever asks, and refuses another core.                                 *)
RepublishAllowed(w, core) ==
    /\ Claimed(w)
    /\ Published
    /\ publication.core = core

Republish(w, core) ==
    /\ RepublishAllowed(w, core)
    /\ sealed' = [sealed EXCEPT ![w] = publication]
    /\ UNCHANGED <<currentEpoch, currentClaim, claims, reservation, publication, clock>>

CoordinatorStep(w) ==
    \/ \E takeover \in BOOLEAN : ClaimWorker(w, takeover)
    \/ \E now \in Instants : ReservePublicationTime(w, now)
    \/ \E core \in Cores, now \in Instants : Publish(w, core, now)
    \/ \E core \in Cores : Republish(w, core)

CoordinatorNext == \E w \in Workers : CoordinatorStep(w)

CoordinatorSpec == CoordinatorInit /\ [][CoordinatorNext]_coordinatorVars

-----------------------------------------------------------------------------
(* The types of the coordinator's tables and of what it returned.          *)
CoordinatorTypeOK ==
    /\ currentEpoch \in Nat
    /\ currentClaim \in Workers \cup {None}
    /\ claims \in [Workers -> Claim]
    /\ reservation \in Reservation \cup {None}
    /\ publication \in Seal \cup {None}
    /\ clock \in [Workers -> Instants \cup {None}]
    /\ sealed \in [Workers -> Seal \cup {None}]

(* The claim rows form one chain, the one verify_distributed_execution_seal*)
(* demands: epochs count up from 1 without gap or repetition, each         *)
(* successor is a takeover that names the claim it fenced, and the row of  *)
(* the attempt points at the last claim.                                   *)
ClaimChain(chain, last) ==
    /\ \A v \in Workers : chain[v].epoch <= chain[last].epoch
    /\ \A v, w \in Workers : chain[v].epoch = chain[w].epoch /\ chain[v].epoch # 0 => v = w
    /\ \A v \in Workers : chain[v].epoch = 1 => chain[v].prior = None /\ ~chain[v].takeover
    /\ \A v \in Workers : chain[v].epoch > 1 =>
          /\ chain[v].takeover
          /\ chain[v].prior \in Workers
          /\ chain[chain[v].prior].epoch + 1 = chain[v].epoch

ClaimsFormOneChain ==
    /\ currentEpoch = 0 => currentClaim = None /\ \A w \in Workers : ~Claimed(w)
    /\ currentEpoch > 0 => /\ currentClaim \in Workers
                           /\ claims[currentClaim].epoch = currentEpoch
                           /\ ClaimChain(claims, currentClaim)

(* The published seal was issued by the last worker of the chain it        *)
(* carries, under the reservation that is still in the row: no takeover    *)
(* can slip between the seal and the claim table.                          *)
SealNamesTheLastWorker ==
    Published => /\ publication.final = currentClaim
                 /\ publication.chain = claims
                 /\ reservation = [by |-> publication.final, at |-> publication.at]

(* "A takeover clears any unconsumed reservation so the new worker cannot  *)
(* be forced to use a timestamp reserved by a fenced process": a           *)
(* reservation is the current worker's, who was told no other instant, and *)
(* a worker who holds none was told none.                                  *)
ReservationIsTheCurrentWorkers ==
    /\ \A w \in Workers : ~Claimed(w) => clock[w] = None
    /\ reservation = None /\ currentEpoch > 0 => clock[currentClaim] = None
    /\ reservation # None => /\ currentEpoch > 0
                             /\ reservation.by = currentClaim
                             /\ clock[currentClaim] \in {None, reservation.at}

(* A process that reserved the publication clock and then published did so *)
(* at the instant it was given: head and transparency checks made against  *)
(* that instant remain valid for the seal, whatever takeovers and repeated *)
(* calls came in between.                                                  *)
SealCarriesTheReservedInstant ==
    Published => clock[publication.final] \in {None, publication.at}

(* publish hands every caller, first or repeated, current or fenced, the   *)
(* same seal.                                                              *)
OneSeal == \A w \in Workers : sealed[w] # None => sealed[w] = publication

(* Publication is final: the seal is never replaced and no process joins   *)
(* the attempt afterwards.                                                 *)
PublicationIsFinal ==
    [][Published => UNCHANGED <<publication, claims, currentEpoch, currentClaim>>]_coordinatorVars
=============================================================================

# Verification of the Illusiontion recovery protocol

Illusiontion decides how far a claim may be trusted: it acquires evidence, has
several model reviewers look at the claim, combines their signed receipts in a
deterministic gate, and publishes a signed decision.  The part that is hard to
get right is the *governed recovery attempt*: a sequence of paid, unrepeatable
provider calls, executed by processes that may crash, be replaced, or wake up
after they were replaced, over one SQLite database.  That part is the core of
this project; the gate that turns a review into a decision is the second; what
surrounds them, from the leases that let an attempt start to the signed answer
that leaves the agent, is the third.

The repository has no tests and its files are shifted against their contents:
`app/attempt_continuity.py`, for example, holds the module that calls itself
atomic execution.  The tables below name the file that really holds the code.

## 1. Inventory

| component | file (src/app/) | state | operations |
|---|---|---|---|
| distributed worker fencing and publication | evidence_admission.py | tables `distributed_attempts`, `distributed_worker_claims` | `claim_worker`, `reserve_publication_time`, `publish`, the fence `assert_current_worker_conn`, `verify_distributed_execution_seal` |
| atomic action store | attempt_continuity.py | tables `attempts`, `actions` | `begin_attempt`, `authorize`, `commit`, `finalize`, `load_permit`, `load_commit` |
| provider-call ledger | receipts.py | tables `provider_calls`, `provider_reconciliations` | `begin_call`, `complete_call`, `mark_uncertain`, `mark_restart_in_flight_uncertain`, `replay_completed_call`, `purge_private_replay_material`, `finalize` |
| state audit, crash-point classification | store.py, live_acquisition.py | none (read the tables) | `audit_recovery_state_universe`, `inspect_interrupted_attempt` |
| review loop | runtime.py | local variables of one process | `execute_model_reviews_traced` |
| provider-call supervisor | usefulness.py | semaphore, counter, worker threads | `ProviderCallSupervisor.call` |
| independent review runtime | schemas.py | registry of live invocations | `begin`, `complete_model_output`, `complete_model_failure` |
| Gemini adapters | model_adapter_vertex.py, privacy_minimization.py | none | `run` |
| decision gate | integrity.py | none | `decide`: admission, atoms, receipts, semantic work products, witness layers, verdict |
| usefulness and calibration | witness_auth.py, dependency_ancestry.py | none | `assess_decision_usefulness`, `assess_decision_calibration`, `shadow_policy_would_promote` |
| runtime receipts | registry_ancestry.py | none | `issue_runtime_receipt`, `verify_runtime_receipt`, `review_invocation_digest` |
| trusted review agent | atomic_execution.py | the environment of the deployment; local variables of a call | `execute_trusted_review`, `acquire_and_execute_trusted_review` |
| decision stores, KMS proof signer | timeouts.py, provider_execution.py | a document per claim id; the pinned key | `save`, `sign_decision` |
| attempt leases, completion classification | calibration.py, records in security.py | none; each external witness keeps its own history | `issue_recovery_attempt_lease`, `verify_recovery_attempt_lease_set`, trajectory and classification |
| acquisition and admission of evidence | agent.py, measurement_provenance.py, gate.py | none | fetch, capture, admit |
| measurement provenance | model_adapter.py | none (signed receipts) | `verify_measurement_universe` |
| declared ancestry | dependency_registry.py, registry_observation.py | none (signed manifests) | `_graph_errors`, `verify_dependency_ancestry`, `verify_registry_ancestry` |
| registries, observers | distributed_execution.py, resource_governance.py | none (signed documents) | `verify_dependency_registry`, `verify_registry_observations` |
| witness sets | witness_quorum.py | none | the signature of a set; selection and quorum are imported from a module that is missing |
| resource budgets | review_controller.py | none | the limits the loop enforces, limits for the driver |
| replay vault, injection scan, schemas, helpers | prompts.py, sqlite_utils.py, security.py, state_integrity.py, interruption.py | none | encryption, validation |

How they interact.  A driver claims the attempt with the coordinator and hands
the claim to the action store and the ledger; both re-check it against the
coordinator's row inside every write transaction, which is the fence.  The
review loop calls, for each reviewer, authorize, begin_call, the adapter inside
a supervised thread, complete_call and commit; when it resumes, it audits the
tables first and replays what is durable.  The driver then finalizes both
ledgers, publishes the rerun core under a reserved instant and purges the
encrypted replay material.  The driver itself is not in the repository.

Around an attempt stand parties the code does not run.  External witnesses lease
the slot of an attempt; registries and observers sign what they know of the
measurements behind a challenge; Firestore and KMS keep and sign the decision of
the trusted review agent, which is the only caller that runs without a driver.

What is hard: two processes interleave at the granularity of a transaction; a
process can stop between any two transactions; a provider call has no
idempotency key, so a call whose answer was lost can be neither repeated nor
forgotten; a fenced process still holds a live network connection; a worker
thread outlives its deadline.  In the gate the difficulty is breadth: two dozen
checks over thirteen assurance profiles, a verdict that must be trusted, and a
second assessment that may still release single atoms of a claim that was held.
Outside an attempt it is trust: who signed what, when, and whether a document
that arrives late can undo another one; and a decision that is stored and then
signed, by calls that race and that may stop between the two.  `PROJECT.json` lists every hazard at its line.

What makes each component correct:

* coordinator: one chain of claims, one publication, issued by the last claim,
  at the instant that claim reserved;
* action store: steps in order, one hash chain, written by the current worker;
* ledger: at most one call per step, settled once, one response per step;
* audit: accepts every state a crash can leave, so recovery is never blocked by
  anything but an uncertain call;
* loop: one provider call per step, receipts equal to the commits, a rerun that
  verifies;
* budgets: what is over budget is neither sent nor published, by anyone;
* supervisor: callers come back, every slot and count is accounted for;
* gate: a pass is earned from an untouched review of exactly this bundle, a
  rejection rests on a review that can be trusted, and what a held claim still
  releases is itself beyond doubt;
* graphs: the verdict of the recursive check is exact;
* witness layers: what is accepted as independent is independent in the world,
  and a doubt once signed stays;
* leases: of the reruns of a hold one starts, and every eligible hold gets one;
* publication: a proof has its record, an old review does not come back, and what
  is proved rests on admissible evidence.

## 2. Modules

```
DistributedCoordinator          fence, claims, publication
  AtomicActionStore             EXTENDS it: permits and commits
    ProviderCallLedger          EXTENDS it: provider calls
      StateAudit                EXTENDS it: operators over the tables, no actions
        RecoveryExecution       EXTENDS it: processes, provider, crashes
            --> AtMostOnceReview   abstract promise, by INSTANCE ... WITH
ProviderCallSupervisor          independent: the thread pool
DecisionUsefulness              salvage of atoms, debts (pure operators)
  DecisionGate                  EXTENDS it: decide (pure operators)
    GateCases                   EXTENDS it: the bundles a review hands to it
      GateProperties            EXTENDS it: what a decision promises
AncestryGraph                   the check of one declared graph
WitnessLayers                   the documents about measurements, the five layers
AttemptLease                    witnesses, manifests, leases
DecisionPublication             the trusted review agent, store and key
Stores_proofs                   theorems of the three stores
  RecoveryExecution_proofs      EXTENDS it: theorems of the execution
<module>_proofs                 theorems of ProviderCallSupervisor, DecisionGate (with
                                GateCases and GateProperties), AncestryGraph,
                                WitnessLayers, AttemptLease, DecisionPublication
MC*                             what TLC needs: symmetry sets, claims and evidence
```

Each of the first three is a specification of its own (`CoordinatorSpec`,
`AtomicSpec`, `LedgerSpec`) in which *any* process with any claim calls *any*
operation at any time, so its invariants owe nothing to the caller.
`RecoveryExecution` is the opposite: operations are called as the loop calls
them, with local variables that may be stale.

**Correspondence.**  An operation of a store is one action, because it is one
`BEGIN IMMEDIATE` transaction; `XAllowed` is its guard, which comes from the
checks that would raise.  An operation that raises changes no table; in
`RecoveryExecution` the process then fails.  Reads the loop makes in separate
transactions are separate actions.  The state variables are the columns (the
comments on `VARIABLES` name them), with `clock` and `sealed` for what the
coordinator returned, and `proc` for the locals of a process.

**Abstractions.**  A digest is the thing it digests: a claim digest is the
process that obtained it (claims carry a fresh nonce), a permit is its record, a
state digest is the sequence of what was hashed into it.  A signature check by
the holder of the key always succeeds on what the program itself wrote.  A
completion is the pair of step and response, from which class and receipt
signature follow.  Times are members of a small set; `publish` takes a fresh one
unless an instant was reserved.  One attempt is modelled.  Stores are used with
`require_distributed_claim` and `durable_reconciliation` set, which is the
governed configuration, and with a resource budget.  Which inputs, and whether the
bundle, exceed the budget is fixed at the start (`oversized`): they are functions
of the attempt, so every process meets the same refusals.  An output over budget
arrives as a failed call.

**The gate.**  `decide` is a function, so `DecisionGate` is a module of operators
over one bundle: the claim, the frozen evidence, the acquisition receipts, the
reviewers' receipts and what they reported.  A digest is the value it was taken
of (a version number for a text), a signature is a flag, a witness layer is
whether it verifies and what it finds.  Reasons, messages and the per-layer
report records are left out.  `GateCases` generates the bundles: the clean review of a
claim, then up to `MaxDeviations` *deviations*.  A deviation is something a
reviewer hands in (its receipt covers it, as `complete_model_output` does), a
review that failed or was bound to something else, or a bundle that changed
after the review.  `RunGate` then decides.  `GateProperties` restates what a
decision promises on the bundle itself (`Intact`, `Admitted`, `WellSourced`,
`WellRead`, `Unchallenged`) without the flags the gate computes.

**Ancestry graphs.**  `_graph_errors`, which two modules share word for word, is
recursive; `AncestryGraph` has its stack as a variable, with a frame per active
call, and one action per thing the loop does with the next upstream id.  The
initial states are all declarable graphs, unknown ids and cycles included; lists
are taken in any order.  The role checks on node kinds are left out.

**Witness layers.**  A declaration is a claim about the world, so `WitnessLayers`
keeps the world beside it: `upstream` is what measurements and registries really
derive from, `declared` what they say.  Groups, authors, artifacts and the
selection are constants of the universe, and every challenge has its receipt.  Honest registries and observers report
the world, all others what they like, repeatedly.  Binding, signatures and
digests of a document are its field `sound`.  `Accepted` is the conjunction
`decide` builds for a `WITNESS_REGISTRY_OBSERVATION_FORTIFIED` claim.

**Leases.**  The functions of `calibration.py` are stateless; the state is that of the
witnesses.  A witness that keeps its state leases from an anchor it still stands
at ("expected to persist this state outside", `security.py:1463`); a forgetful one
only runs `issue_recovery_attempt_lease`.  A state digest is the sequence of
attempts hashed into it.  An attempt is a rerun of a hold (a case with the original
run it held), as `recovery_attempt_id` digests it.  A signed lease stays available for ever, so delay, loss
and reordering of answers are the choice of the set that is presented.

**Publication.**  A review is a process with a phase; every call it makes to Firestore
or KMS is a step, and Firestore's side of a write is an action of its own, which
may happen after the caller gave up, or twice.  `Stop` is an exception or a crash
at any point.  The environment (`deployment`) is fixed before the first call.

**The driver** (actions marked `external` in `PROJECT.json`) may claim at any
time with or without takeover, start or resume, ask that calls in flight be
marked uncertain, reserve an instant any number of times or not at all, publish
any core, and purges last.  A process obtains one claim.

## 3. Runs

| run | instance | shows |
|---|---|---|
| stores | coordinator, action store and ledger together: 2 workers, 2 steps, 2 responses, 2 cores, 2 instants | one claim chain; one seal, by the last worker; no reservation survives a takeover; hash chain, epochs, only the current worker writes; calls follow permits, settle once, no response twice |
| execution | 3 processes, 2 steps, 2 responses, empty answers and budget refusals | every crash point passes the audit; only uncertain calls, empty answers and the budget block a resume; one call per step, receipts equal commits, the seal verifies |
| recovery_converges | 2 processes, fair | a live, current, resumed process publishes unless a call is in doubt or the budget refuses; replay bytes are purged or orphaned; refinement of `AtMostOnceReview` |
| supervisor | 3 calls, 2 slots, thread start may fail | slots and counter are accounted for, callers come back, late threads give their slot back; a slot is lost by a failed start only |
| gate | 2 atoms sharing evidence, 4 evidence objects (one outside the claim), 3 profiles, 2 deviations | pass earned, rejection trusted, profiles cumulative; saved atoms are clear, no salvage or release without integrity, deviations never promote |
| graph | every declarable graph over at most 4 ids | cycle verdict, visited set and reports are exact; the output is the only sink of what passes |
| witness | 2 challenges, 2 registries and 2 observers of which one each may lie | accepted groups and registries are independent in the world; a doubt is final |
| leases | 4 witnesses of which one forgets, quorum 3, 2 campaigns, 2 reruns of a hold in each | one rerun per hold; one order of campaigns |
| publication | 2 reviews, 2 claims, 2 evidence ids, 4 locators (one not allowed, one redirected), every deployment | a proof has its record, older reviews do not come back, what is proved rests on admissible evidence |
| empty_reply, reported_summary | expected violations | the findings below |
| uncovered_hold | expected violation: 3 witnesses that keep their state, quorum 2, 2 holds of a campaign, fair | of two eligible holds one is never rerun |

The runs leave out what is proved for every value of the constants and says little
in a small instance: the types of the modules with proofs, `StepsAdvanceInOrder`,
`SealCarriesTheReservedInstant`, `PublicationIsFinal`, `VisitedInOrder`, `OneAttemptPerManifest`,
`OnlyForgetfulWitnessesEquivocate` and `AnswersAreProvedAndRecorded` (section 5).

**Bounds.**  The epoch grows by one per claim and a process claims once, so the
number of workers bounds it and every state space is finite without a constraint.
Two steps have a predecessor and a successor, a committed and an uncommitted
one; two responses admit reuse; three processes give a takeover of a takeover,
which is what a chain of claims, a twice fenced process and a late third process
need (`execution`).  In `stores` any worker calls any operation of three stores, and
a third worker multiplies the states by the interleavings of two fenced workers,
which change nothing; its theorems hold for any number.  Workers, responses,
cores and instants are symmetric; symmetry is not used where liveness is checked.

In the gate, two deviations are what its conjunctions need: one that holds an
atom and one that ought to hold the other, a fabrication and a broken receipt,
a debt and a process fault.  The reviewers are told apart by what they own, so
`Suspects`, the one whose receipt deviates, is the one the verdict depends on;
frames come from all that owe them, and findings from two that own a reported
type and one that owns neither.  The profiles are the first with the semantic
reviewers, the first with work products and salvage, and the highest;
`StrongerProfileIsStricter` evaluates each bundle under every weaker profile
too.  Evidence has two origins and two groups, so that losing one is seen.

Two properties state the exceptions the code makes.  `DeviationsNeverPromote`
leaves out a claim that would have been rejected (a second defect turns the
rejection into a hold, from which atoms the fabrication does not touch may be
saved), stray work products (section 4) and atoms that are settled: when the last
reviewer in dispute comes round to the reading of the others, a deviation repairs
the bundle.  The last takes three deviations, so two do not show it.
`StrongerProfileIsStricter` leaves out `EXTERNAL_WITNESS_FORTIFIED`, whose
layer the stronger profiles replace by a quorum, and equal outputs, which are
compared over the required reviewers only, so that a weaker profile with fewer
reviewers may hold a claim that a stronger one passes.

Four ids give a cycle off the output's path, a diamond above a cycle and an
unknown id beside each.  In `witness` one fingerprint suffices because a violation
is a single shared one; `Repeats` allows one document beyond the first of each
authority on each subject, which is what a contradiction or a duplicate needs;
declarations only omit, since inventing adds overlaps.  In `leases` four witnesses
with quorum three are the smallest set whose quorums meet in two although one
forgets; a lease older than `MaxAge` exists from the second tick.  There one hold of a
campaign has competing reruns.  A second hold only takes witnesses away from the first,
which is what `uncovered_hold` shows; the theorem has any number of both.  Two reviews are
a race; two claims and two ids let a write go to a wrong document and a plan
repeat or miss an id.

**Deadlock** checking is off: an attempt ends when it is published, a process
ends when it fails, a pool is idle when every call has returned, a bundle is
decided once, a visit is done, documents and leases are bounded, and reviews end.

**Fairness.**  `FairSpec` is weakly fair in the steps of a process that has been
claimed and not stopped: the loop is synchronous code, provider calls end by a
deadline, transactions by SQLite's busy timeout.  Claiming and crashing are not
fair.  `SupervisorSpec` is fair in the caller's steps and in the cleanup of a
thread that has its answer; nothing makes a provider answer, so
`LateThreadsGiveTheirSlotBack` speaks of threads that did.  `LeaseFairSpec` is the most
that can be hoped for of parties outside the repository, every manifest, lease and
start that can come does; it is assumed only to refute `EveryHoldIsRerun` (section 4),
which thereby fails for no want of good will.  The other specifications state no
fairness, and no liveness is claimed of them.

## 4. Findings

* `empty_reply`: when a provider answers with empty text, the loop neither
  records nor parses the answer, and commits the step with the *previous*
  reviewer's completion (`runtime.py:332`, `:340`, `:350`).  The row stays
  `IN_FLIGHT`, and the audit then refuses the attempt ("must always have a
  durable completion", `store.py:419`).  Adapters do return `""`.  Execution
  properties that this breaks are checked with `EmptyReplies = FALSE`, the
  others with `TRUE`.
* `reported_summary`: the types that the gate uses for its own summaries may
  also be reported by their owners, with evidence (`schemas.py:208`); usefulness
  skips them (`witness_auth.py:140`), so the atom objected to is saved.
* `uncovered_hold`: the constitution in a manifest demands
  `ALL_ELIGIBLE_EVIDENCE_DEBT_HOLDS` and `ONE_SEALED_AUTHORITATIVE_RERUN_PER_ELIGIBLE_HOLD`
  (`security.py:1949-1950`).  The witnesses' anchors are pinned in the same constitution
  (`:2016`), and a lease is valid only as the first step from its anchor
  (`calibration.py:222-224`), which a witness that keeps its state gives once, for
  one case and rerun.  So when quorums meet, a manifest with several eligible holds
  gets one of them rerun and the others never.  `OneRerunPerHold` is the half of the rule
  that holds; `OneAttemptStartsPerManifest` proves, for every value of the constants, the
  stronger fact that contradicts the other half.  Disjoint quorums would get further,
  at the price of `OneRerunPerHold`.

Weaknesses met while modelling, which no run of its own refutes a promise with:

* *Salvage.*  A work product filed by a reviewer it does not belong to holds the
  claim (`integrity.py:805`) without a finding or a blocker, so another atom's
  defect makes the claim salvageable again; the exception in
  `DeviationsNeverPromote` is this one.  The token `frame:<reviewer>:<atom>` is
  searched for the first part that is an atom id (`witness_auth.py:58`), so that an
  atom called like a frame reviewer takes the blame for another one (`a1` given
  the value `"decomposer"` shows it).
* *Relaxation.*  `CORRELATED_MODEL_OUTPUT` is missing from the faults that are "not
  candidates for policy relaxation" (`dependency_ancestry.py:41`), so a simulated
  relaxation releases a claim all of whose reviewers returned the same bytes,
  once it also has an evidence debt; hence the exception in
  `RelaxationSparesIntegrity`.
* *Thread start.*  If `Thread.start` raises, the slot and the counter taken before it
  are lost (`usefulness.py:41-62`); `CapacityIsAccounted` says that
  nothing else loses one.
* *Lease quorum.*  The validators accept any quorum from two up (`security.py:2182`).
  `OneRerunPerHold` needs `QuorumsMeet`, twice the quorum above the witnesses
  and the forgetful ones together; with four witnesses and quorum two it fails.
* *Silent registries.*  Observers are to "externally challenge each committed registry
  ancestry" (`resource_governance.py:183`), but only registries that attested
  something are required and looked at (`:205-213`).  A doubt about a silent
  registry is ignored; nothing accepted rests on one, so independence holds.
* *Registry coverage.*  The check for a challenge without attestations
  (`distributed_execution.py:285`) cannot fire, because the dictionary it looks in
  creates what it is asked for; the quorum check refuses such a challenge.
* *Policies.*  The quorum layer takes its policy from the innermost one given
  (`integrity.py:1068`), the provenance layer from the outermost (`:1203`), and below
  the registry-ancestry profile nothing compares the two.
* *Decision store.*  The setting is trimmed and lower-cased where the decision is saved,
  with nothing as its default (`atomic_execution.py:25`), and read as it is where the
  proof is signed, with `firestore` as its default (`provider_execution.py:174`).  With
  the setting absent the proof says `firestore` while nothing was stored, which is
  the exception in `ProofsNameARealRecord`.
* *Early purge.*  `purge_private_replay_material` promises deletion "after authoritative
  rerun publication" of a "complete provider-call population" (`receipts.py:512`, `:527`)
  and asks only that the attempt has calls and that all of them are completed (`:525`).  A
  driver that purges after the first of two steps, unpublished, is not refused, and
  the attempt cannot be resumed.
* *Orphaned replay bytes.*  A process that dies between the publication and the purge
  leaves the replay bytes for good: a new worker's claim is refused after publication, and
  the purge is the current worker's.  `ReplayBytesArePurgedOrOrphaned` says that
  nothing else leaves them behind.
* *Late configuration errors.*  A missing key version or pin, and a foreign key, are
  noticed after the decision was stored; the store may hold a decision that was
  never proved.
* *Budget.*  An input is refused after its permit was committed (`runtime.py:258`); the
  attempt is then classified as safe to resume and refused again for good.

## 5. Proofs

TLAPS proves, for every value of the constants (any set of workers, cores, instants
and responses and any positive number of steps; any calls and slots; any claims,
evidence and number of deviations; any ids, authorities, witnesses and reviews),
every invariant and every action property the runs check.  Each inductive
invariant was first checked by TLC on the instance of its run.

* **Coordinator.**  `CoordinatorInv` conjoins the types with the claim chain, the
  ownership of the reservation, the identity of publication and reservation, and
  one seal.  The chain alone is not inductive with the seal: that the seal keeps
  equal to the claim table needs the fact that a claim is refused after
  publication, and that the sealed instant is the reserved one needs to know
  what a worker was told (`clock`).  Theorems: the six invariants and
  `PublicationIsFinal`.
* **Action store.**  `AtomicInv` adds to it that permits and commits exist
  exactly below `nextStep` (a permit also at it, when in flight), that the state
  is the one the last commit left, and that epochs of permits and commits are
  ordered and bounded by the current one.  A step of the store is a step or a stutter of
  the coordinator (`AtomicImplementsCoordinator`), so the coordinator's
  invariants carry over.
* **Ledger.**  `LedgerInv` adds that a call row carries the stored permit of its
  step and a claim no older than the permit's, that responses are used once, and
  that a reconciled call is completed.  `LedgerImplementsActions` is the
  refinement, and the action properties `CallsSettleOnce` and
  `PublishedCallsOnlyPurged` follow from the invariant.
* **Execution.**  Every step of a process, an operation of the driver or a crash is a
  step of the ledger or leaves the stores alone (`ExecutionUsesTheStores`), so
  `LedgerInv` holds of it.  `RecoveryInv` adds what locals and tables have to do
  with each other.  `LocalsAreStored`: what a process remembers was read from rows
  that never change.  `CallsAreOwned`: a call that has not been answered belongs to the
  process that began it, also after the process was fenced; without this
  `created[s]` could not be bounded.  `RowsAgree` and `CommitsFollowCalls`: a commit
  carries the answer of its call, and its call was begun by a claim no newer than
  the commit.  `CurrentIsAlone`: what the current process found
  missing is still missing, because the others are fenced; from it follows why a
  resume may fail.  Theorems: the seven invariants of the run.  The audit recomputes the
  state by recursion over the steps; in place of an induction the proof takes the
  first step at which the two differ, and shows that there is none.
  `ExecutionImplementsReview` shows each step to be a step or a stutter of
  `AtMostOnceReview`, with the refinement mapping of `RecoveryExecution`; it
  assumes `EmptyReplies = FALSE`, because of the first finding.
* **Supervisor.**  A step moves one call, and a call enters or leaves the slots in use
  exactly when the semaphore is taken or given back.  `SupervisorInv` needs that a
  call has no thread exactly as long as its caller has not started one, so that no
  call is counted twice.  That there are never more threads than slots
  (`ThreadsAreBounded`) is a consequence.
* **Gate.**  The decision is a function of the bundle, so `GateInv` need only say which
  bundles a review can hand in.  The gate never compares a receipt with the issued
  one; it tests fields one by one.  That the tests add up to `Intact` and `Admitted`
  needs `ReceiptsFollow` (an invocation or a response is the reviewer's own or one
  that another receipt names as well, evidence is bound as it was acquired) and
  `CapturesFollow` (a capture that was copied is there twice until an admission is
  lost).  `SalvagedAtomsAreAlwaysClear` has two hypotheses: no atom is called like a
  frame reviewer, and reviewers do not report the types the gate summarizes with.  Without
  either it is false, as the second finding and the remark on salvage (section 4)
  show.  `StrongerProfileIsAlwaysStricter` goes check by check: what holds a claim
  under a profile holds it under each stronger one.
  `DeviationsNeverEverPromote`, under the same two hypotheses, which are needed
  here too, compares two bundles.  `Covered` is the invariant it adds: what a
  receipt says of findings and work products is what its reviewer reported, and an
  output shared with another reviewer comes without work products; so when all
  outputs were the same, which blocks a claim, nobody had read an atom, and one
  reviewer who now does leaves it unsettled.  Each of the fourteen
  kinds of deviations either shows as a blocker of the whole claim, which promotes
  nothing, or leaves a bundle that is `Worse` (`StepIsWorse`): the evidence is no
  better, receipts and layers are no better, no finding is gone and no obligation
  newly discharged.  What blocked an atom or the claim before then still blocks
  it (`PromotedBefore`).
* **Graph check.**  `GraphInv` says that the active calls form a path of upstream
  ids from the output, that active and visited nodes are distinct, and that until
  a cycle is met whatever a loop has passed was visited, or is being visited by
  the call above (`PassedWasVisited`); the last is what makes the order of visited
  nodes inductive.  `OutputIsAlwaysTheOnlySink` adds that the set of ids is finite,
  for the count of nodes to decide equality of sets.  `VisitIsAlwaysExact` needs it
  too.  That a reported cycle is there follows from the path of active calls; that none
  is missed, from the order of the visited nodes: along a cycle, the node visited
  first would depend on one visited before it.
* **Witness layers.**  Not an induction over time but over who signed: a quorum of
  authorities contains an honest one, whose document is the world, so nothing
  derived was left undeclared and disjoint declarations are disjoint worlds.
  Theorems: `AcceptedIsAlwaysIndependent`, and `DoubtIsAlwaysFinal`, which needs
  only that documents are never withdrawn.
* **Leases.**  The invariant says that what started had valid leases of a quorum, and
  that a witness that keeps its state holds one step at most from every anchor,
  because its history has passed the anchor.  Two attempts of one manifest would
  share such a witness, by counting; `OneRerunStartsPerHold` follows.  For `WitnessesAlwaysAgreeOnOrder`, `OrderInv`
  says that a witness that has `c` before `d` took up `d` from an anchor that had
  `c`, and that of two manifests at most one was pinned after the other's campaign was met.
* **Publication.**  `PublicationInv` ties the phase of a review to what the store and the
  key hold of it, and says that a review that is over has no write in flight; from
  this a late write can only be that of a review that overlaps.  The moves that
  change nothing but the phase share one lemma.

Assumptions on the constants, all named where the constants are declared: the null
value is none of the data values, a record, a permit or a proof; `StepCount` is
positive; calls, evidence, witnesses, registries and observers are finite sets; a
claim is a record with finitely many atoms whose profile is one of the thirteen; a quorum of leases is between one and the
number of witnesses.  Where a theorem needs more, its statement says so.

**Model-checked only.**  Liveness: `RecoveryConverges`,
`ReplayBytesArePurgedOrOrphaned`, `CallersComeBack` and
`LateThreadsGiveTheirSlotBack` hold under fairness, which is beyond the prover.
Every other property of a passing run is stated by a theorem.

## 6. Not modelled, and the plan

Not modelled because there is nothing to check in TLA+: parsing and prompts,
digests and encryption, regular expressions, the wording of reasons, SQLite itself (transactions are
taken to be serializable and durable, which the code states as its storage
assumption).

Not modelled because the repository does not hold it: the selection of witnesses
and their quorum (imported from a module that is absent; the gate knows whether
the layer holds) and the driver.  The trajectory of an attempt and its
classification are recomputed from the traces they are compared with, so a model
would compare a function with itself.  Budgets of files, manifests and
submissions are size comparisons that the driver calls.  The check on the kinds
of a graph's nodes, the truncation and decoding of a fetched text, and the replay
vault have no state that the properties could tell apart.

Plan: the witness layers as inputs of `DecisionGate`, in place of whether they
hold, and then the gate's theorems again with them.

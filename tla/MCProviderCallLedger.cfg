CONSTANTS
    Workers = {w1, w2}
    Cores = {core1, core2}
    Instants = {t1, t2}
    Responses = {r1, r2}
    StepCount = 2
    PrivacyMinimized = TRUE
    None = None
SPECIFICATION LedgerSpec
SYMMETRY Symmetry
INVARIANT ClaimsFormOneChain
INVARIANT SealNamesTheLastWorker
INVARIANT ReservationIsTheCurrentWorkers
INVARIANT OneSeal
INVARIANT StateChainUnbroken
INVARIANT EpochsNeverRegress
INVARIANT CallsFollowTheirPermits
INVARIANT ResponsesAreUsedOnce
PROPERTY OnlyTheCurrentWorkerWrites
PROPERTY CallsSettleOnce
PROPERTY PublishedCallsOnlyPurged
CHECK_DEADLOCK FALSE

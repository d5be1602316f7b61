CONSTANTS
    Workers = {w1, w2, w3}
    Cores = {core1}
    Instants = {t1}
    Responses = {r1, r2}
    StepCount = 2
    PrivacyMinimized = TRUE
    EmptyReplies = TRUE
    None = None
SPECIFICATION Spec
SYMMETRY Symmetry
INVARIANT ProcessTypeOK
INVARIANT AtMostOneCallPerStep
INVARIANT ReceiptsAreTheCommittedOnes
INVARIANT PublishedSealVerifies
INVARIANT AuditAcceptsEveryCrashPoint
INVARIANT OnlyUncertainCallsBlockRecovery
INVARIANT BudgetIsNeverOverrun
CHECK_DEADLOCK FALSE

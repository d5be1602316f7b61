CONSTANTS
    Workers = {w1, w2}
    Cores = {core1}
    Instants = {t1}
    Responses = {r1, r2}
    StepCount = 2
    PrivacyMinimized = TRUE
    EmptyReplies = TRUE
    None = None
SPECIFICATION Spec
SYMMETRY Symmetry
INVARIANT CommittedActionHasDurableCompletion
CHECK_DEADLOCK FALSE

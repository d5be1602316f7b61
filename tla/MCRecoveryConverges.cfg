CONSTANTS
    Workers = {w1, w2}
    Cores = {core1}
    Instants = {t1}
    Responses = {r1, r2}
    StepCount = 2
    PrivacyMinimized = TRUE
    EmptyReplies = FALSE
    None = None
SPECIFICATION FairSpec
PROPERTY RecoveryConverges
PROPERTY ReplayBytesArePurgedOrOrphaned
PROPERTY ReviewSpec
CHECK_DEADLOCK FALSE

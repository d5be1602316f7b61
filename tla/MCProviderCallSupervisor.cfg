CONSTANTS
    Calls = {c1, c2, c3}
    MaxOutstanding = 2
    StartMayFail = TRUE
SPECIFICATION SupervisorSpec
INVARIANT CapacityIsAccounted
PROPERTY CallersComeBack
PROPERTY LateThreadsGiveTheirSlotBack
CHECK_DEADLOCK FALSE

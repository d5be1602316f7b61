CONSTANTS
    Ids = {n1, n2, n3, n4}
SPECIFICATION GraphSpec
INVARIANT VisitIsExact
INVARIANT OutputIsTheOnlySink
CHECK_DEADLOCK FALSE

CONSTANTS
    Witnesses = {w1, w2, w3, w4}
    Forgetful = {w4}
    Quorum = 3
    Campaigns = {c1, c2}
    Holds = {h1}
    Reruns = {r1, r2}
    MaxAge = 0
    Horizon = 1
SPECIFICATION LeaseSpec
SYMMETRY Symmetry
INVARIANT OneRerunPerHold
INVARIANT WitnessesAgreeOnOrder
CHECK_DEADLOCK FALSE

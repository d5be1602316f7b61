CONSTANTS
    Witnesses = {w1, w2, w3}
    Forgetful = {}
    Quorum = 2
    Campaigns = {c1}
    Holds = {h1, h2}
    Reruns = {r1}
    MaxAge = 1
    Horizon = 1
SPECIFICATION LeaseFairSpec
PROPERTY EveryHoldIsRerun
CHECK_DEADLOCK FALSE

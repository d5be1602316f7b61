SPECIFICATION Spec
CONSTANTS
    a1 = a1
    a2 = a2
    e1 = e1
    e2 = e2
    e3 = e3
    e4 = e4
    ProfilesUnderTest = {"SEMANTIC_FORTIFIED", "REPRESENTATION_FORTIFIED",
                         "WITNESS_REGISTRY_OBSERVATION_FORTIFIED"}
    Claims <- MCClaims
    Evidence = {e1, e2, e3, e4}
    Group <- MCGroup
    Origin <- MCOrigin
    Suspects = {"evidence"}
    Reporters = {"evidence", "challenger", "security"}
    Reports = {"FABRICATION", "CONTRADICTION"}
    References <- MCReferences
    MaxDeviations = 2
INVARIANTS
    PassIsEarned
    RejectIsTrusted
    StrongerProfileIsStricter
    SalvagedAtomsAreClear
    SalvageNeedsIntegrity
    RelaxationSparesIntegrity
PROPERTY
    DeviationsNeverPromote
CHECK_DEADLOCK FALSE

SPECIFICATION Spec
CONSTANTS
    a1 = a1
    a2 = a2
    e1 = e1
    e2 = e2
    e3 = e3
    e4 = e4
    ProfilesUnderTest = {"REPRESENTATION_FORTIFIED"}
    Claims <- MCClaims
    Evidence = {e1, e2, e3}
    Group <- MCGroup
    Origin <- MCOrigin
    Suspects = {"counterexample"}
    Reporters = {"decomposer"}
    Reports = {"REPRESENTATION_DISAGREEMENT"}
    References <- MCReferences
    MaxDeviations = 2
INVARIANT
    SalvagedAtomsAreClear
CHECK_DEADLOCK FALSE

CONSTANTS
    Challenges = {c1, c2}
    DependencyGroup <- EachItsOwn
    Author <- EachItsOwn
    Artifact <- EachItsOwn
    Selected = {c1, c2}
    Fingerprints = {f1}
    Registries = {r1, r2}
    Observers = {o1, o2}
    Honest = {r1, o1}
    MinGroups = 2
    MinAuthorities = 2
    MinSelectedGroups = 2
    MinSelectedAuthorities = 2
    RegistryQuorum = 2
    ObserverQuorum = 2
    Repeats = 1
SPECIFICATION MCSpec
SYMMETRY Symmetry
INVARIANT AcceptedIsIndependent
PROPERTY DoubtIsFinal
CHECK_DEADLOCK FALSE

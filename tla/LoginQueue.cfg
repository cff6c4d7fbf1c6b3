SPECIFICATION Spec
CONSTANTS
    N = 2
    Ops = {o1, o2}
    Tasks = {t1, t2}
    Sessions = {s1, s2}
    None = None
SYMMETRY Symmetry
INVARIANTS
    NoBrowserLeftBehind
    SuccessIsProven
    ItemsInOrder
    FailureAwaitsDecision
PROPERTIES
    DecisionsHitTheirAttempt
    FailuresHitTheirItem

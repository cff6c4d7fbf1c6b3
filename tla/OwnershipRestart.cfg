SPECIFICATION Spec
CONSTANTS
    Accounts = {a1}
    Ops = {o1, o2}
    Preflights = {p1}
    Kinds = {"pool_login", "execution"}
    Routes = {n1}
    None = None
    MaxGeneration = 1
    MaxBindings = 1
SYMMETRY OperationSymmetry
INVARIANTS
    OneBrowserPerAccount
    DisposedMeansGone
    GatesMatchOperations
    NoStrandedBinding
    StartDispatchedAtMostOnce
PROPERTIES
    ImplementsAccountExclusion
\* every operation id may be used up and every deadline passed
CHECK_DEADLOCK FALSE

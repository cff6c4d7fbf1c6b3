SPECIFICATION Spec
CONSTANTS
    Accounts = {a1, a2}
    Ops = {o1, o2}
    Preflights = {p1}
    Kinds = {"customer_login"}
    Routes = {n1, n2}
    None = None
    MaxGeneration = 0
    MaxBindings = 1
SYMMETRY Symmetry
INVARIANTS
    RouteIsPinned
\* every operation id may be used up and every deadline passed
CHECK_DEADLOCK FALSE

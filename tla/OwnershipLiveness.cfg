SPECIFICATION FairSpec
CONSTANTS
    Accounts = {a1}
    Ops = {o1, o2}
    Preflights = {}
    Kinds = {"execution"}
    Routes = {n1}
    None = None
    MaxGeneration = 1
    MaxBindings = 0
PROPERTIES
    EveryOperationSettles
\* every operation id may be used up and every deadline passed
CHECK_DEADLOCK FALSE

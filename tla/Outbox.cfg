SPECIFICATION Spec
CONSTANTS
    x = x
    a1 = a1
    Cells = {c1}
    Requests = {r1}
    Withdrawing = {r1}
    Contents = {x}
    Accounts = {a1, a2}
    Content <- OneContent
    Wanted <- SameAccount
    Resumers = {t1, t2}
    None = None
SYMMETRY Symmetry
INVARIANT NoPoisonedCommand
INVARIANT StatusIsTrue
PROPERTY ImplementsIntentLedger

SPECIFICATION Spec
CONSTANTS
    Conversations = {c1}
    Cleaners = {e1, e2}
    Readers = {r1}
    Channel = Channel
    Own = Own
    None = None
SYMMETRY Symmetry
INVARIANTS
    DeletionIsEarned
    SettledMeansDeleted
PROPERTIES
    NoBlindRepeat
    UsesTheAccountExclusively
CHECK_DEADLOCK FALSE

SPECIFICATION Spec
CONSTANTS
    Targets = {pin, plain, rich}
    Generated = {pin, rich}
    Rich = {rich}
    Withdrawing = {pin}
    Runs = {r1, r2}
    Crashes = TRUE
    MaxRestarts = 0
    None = None
SYMMETRY Symmetry
INVARIANTS
    CleanupIsExact
PROPERTIES
    ImplementsOneShotPublication
    WithdrawalsAreOneShot
    UsesTheAccountExclusively
    RevokedStaysUnsent

SPECIFICATION FairSpec
CONSTANTS
    Targets = {pin}
    Generated = {pin}
    Rich = {}
    Withdrawing = {pin}
    Runs = {r1, r2}
    Crashes = TRUE
    MaxRestarts = 1
    None = None
PROPERTIES
    ClaimsAreAnswered
    CleanupSettles

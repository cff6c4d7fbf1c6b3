SPECIFICATION FairSpec
CONSTANTS
    Targets = {plain}
    Generated = {plain}
    Rich = {}
    Withdrawing = {}
    Runs = {r1, r2}
    Crashes = FALSE
    MaxRestarts = 0
    None = None
PROPERTIES
    UnknownKeepsReservation

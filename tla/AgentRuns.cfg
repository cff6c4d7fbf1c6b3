SPECIFICATION FairSpec
CONSTANTS
    p1 = p1
    Runs = {r1, r2}
    Executors = {e1, e2}
    Processes = {p1}
    Home <- OneProcess
    MaxCalls = 1
    Single = TRUE
    MaxCrashes = 1
    None = None
INVARIANTS
    OneRunAtATime
    OneExecution
PROPERTIES
    CallsAreOneShot
    VerdictsStand
    EveryRunEnds
\* every message may have been answered
CHECK_DEADLOCK FALSE

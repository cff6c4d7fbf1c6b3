SPECIFICATION FairSpec
CONSTANTS
    Attempts = {a1}
    Rich = {}
    Executions = {e1, e2}
    Urls = {u1, u2}
    MaxRestarts = 1
    None = None
PROPERTY LookupsAreFenced
PROPERTY EnrichmentIsKept
PROPERTY ProjectionIsStable
PROPERTY EnrichmentArrives
PROPERTY LeasesTurnOver

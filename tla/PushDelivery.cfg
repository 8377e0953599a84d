SPECIFICATION FairSpec
CONSTANTS
    Workers = {w1}
    MaxGens = 2
    MaxChanges = 1
    MaxAttempts = 2
    MaxFaults = 1
    BatchSize = 1
    None = None
INVARIANTS TypeOK NothingOwed
PROPERTIES FinalStateArrives RevokedIsForgotten

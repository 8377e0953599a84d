SPECIFICATION Spec
CONSTANTS
    Workers = {w1,w2}
    MaxGens = 2
    MaxChanges = 0
    MaxAttempts = 1
    MaxFaults = 2
    BatchSize = 2
    None = None
SYMMETRY Symmetry
INVARIANTS DeletedIsQuiet
PROPERTIES RevocationDrains

SPECIFICATION Spec
CONSTANTS
    Entries = {e1, e2, e3}
    Keys = {k1, k2}
    Contents = {msg}
    Policies = {1}
    Requested = {Omitted}
    Omitted = Omitted
    None = None
    Unissued = Unissued
    BatchSize = 1
    OldWriters = {}
    Joined = TRUE
    MaxFaults = 2
SYMMETRY Symmetry
INVARIANTS TypeOK OneLiveRow NothingLost AcceptedOnce

SPECIFICATION Spec
CONSTANTS
    Entries = {e1, e2, e3}
    Keys = {k1}
    Contents = {msg}
    Policies = {1}
    Requested = {Omitted}
    Omitted = Omitted
    None = None
    Unissued = Unissued
    BatchSize = 1
    OldWriters = {"enqueue", "retry"}
    Joined = TRUE
    MaxFaults = 3
SYMMETRY Symmetry
INVARIANTS OneLiveRow

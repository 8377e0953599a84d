SPECIFICATION FairSpec
CONSTANTS
    Entries = {e1, e2}
    Keys = {k1}
    Contents = {msg}
    Policies = {0, 2}
    Requested = {Omitted}
    Omitted = Omitted
    None = None
    Unissued = Unissued
    BatchSize = 2
    OldWriters = {"bury"}
    Joined = TRUE
    MaxFaults = 2
INVARIANTS PolicyKept
PROPERTIES EveryRowSettles

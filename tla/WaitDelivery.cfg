SPECIFICATION FairSpec
CONSTANTS
    Drivers = {cron, loop}
    Kinds = {"ci", "talon"}
    MaxExecs = 2
    MaxShifts = 2
    MaxAttempts = 2
    MaxFaults = 1
    None = None
INVARIANTS TypeOK ConsumerIsWatched
PROPERTIES NoRepeatedWake EveryEventIsTold

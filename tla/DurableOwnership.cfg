CONSTANTS
    Consumers = {core}
    CoreConsumers = {core}
    Replaying = {core}
    Events = {e1}
    Dispatchers = {d1, d2}
    Executors = {x1}
    Tokens = {t1, t2, t3}
    Mortal = {d1}
    Nobody = Nobody
    Attempts = 2
    CoreSelects = {e1}
    MaxAttempts <- MCMaxAttempts
    Selects <- MCSelects
SPECIFICATION Spec
SYMMETRY MCSymmetry
INVARIANTS
    TypeOK
    LiveOwnerKeepsItsRow
    NoOverlappingTurns
    TurnsWithinBudget
    NoLostDelivery
    InactiveConsumerIsDrained
PROPERTIES
    TerminalIsFinal

CONSTANTS
    Consumers = {core}
    CoreConsumers = {core}
    Replaying = {}
    Events = {e1}
    Dispatchers = {d1, d2}
    Executors = {}
    Tokens = {t1, t2}
    Mortal = {d1}
    Nobody = Nobody
    Attempts = 2
    CoreSelects = {e1}
    MaxAttempts <- MCMaxAttempts
    Selects <- MCSelects
SPECIFICATION FairSpec
PROPERTIES
    EveryDeliverySettles

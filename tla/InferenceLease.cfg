SPECIFICATION FairSpec
CONSTANTS
    Requests = {r1}
    Calls = {c1, c2}
    None = None
INVARIANTS TypeOK NoCallAfterRelease
PROPERTIES RouteDrains NoRevival NobodyWaitsForever

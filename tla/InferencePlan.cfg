SPECIFICATION Spec
CONSTANTS
    Requests = {r1}
    Calls = {c1}
    None = None
INVARIANTS BilledIsDurable

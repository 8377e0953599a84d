SPECIFICATION Spec
CONSTANTS
    Requests = {r1, r2}
    Calls = {c1}
    None = None
SYMMETRY Symmetry
INVARIANTS RouteFollowsRecord OneBilledLease

SPECIFICATION Spec
CONSTANTS
    Ips = {a}
    Users = {u, v}
    u = u
    v = v
    Targets <- MCTargets
    Requests = {r1, r2}
    MaxFailures = 2
    Window = 1
    Lockout = 2
    PruneAfter = 2
    AlertWindow = 1
    AlertThreshold = 2
    MaxTime = 2
    MaxMisses = 3
SYMMETRY Symmetry
INVARIANTS
    TypeOK
    WindowBudget
    AlertNotMissed
PROPERTIES
    LockNotExtended

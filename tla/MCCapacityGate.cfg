\* An API server and a worker whose clocks may be one apart, three tokens for two
\* places, a lease of four units renewed every unit and at most one late.
CONSTANTS
    Clients = {c1, c2}
    Workers = {c2}
    Tokens = {t1, t2, t3}
    Max = 2
    TTL = 4
    MinInterval = 1
    Skew = 1
    Delay = 1
    MaxTime = 5
SPECIFICATION Spec
SYMMETRY Symmetric
INVARIANTS
    LeaseLasts
    HeartbeatKeepsLease
PROPERTIES
    RefusalJustified
    GateSpec
\* Time ends.
CHECK_DEADLOCK FALSE

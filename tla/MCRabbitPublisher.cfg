\* Two publishers that share one lane, an inspection, two calls of Close, and any
\* two failures of the broker.
CONSTANTS
    a = a
    b = b
    i = i
    k1 = k1
    k2 = k2
    None = None
    Publishers = {a, b}
    Inspectors = {i}
    Closers = {k1, k2}
    Lanes = {l1}
    HasTimeout = TRUE
    MaxFaults = 2
SPECIFICATION FairSpec
INVARIANTS
    LanesConserved
    DrainIsDeterministic
    OkMeansStored
    NothingLeftOpen
PROPERTIES
    CallsReturn
\* Every call has returned, or the publisher failed to start.
CHECK_DEADLOCK FALSE

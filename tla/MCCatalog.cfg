\* Two problems with two slugs, two servers, imports of two files, an update,
\* a submission, one change by hand and one failure.
CONSTANTS
    a = a
    b = b
    padded = padded
    Ids = {i1, i2}
    Slugs = {a, b}
    Sample = a
    Importers = {m1}
    Names = {a, b, padded}
    Trim <- TrimName
    Files <- TwoFiles
    Servers = {v1, v2}
    Submits = {r1}
    Updates = {e1}
    MaxChanges = 1
    MaxFaults = 1
    None = None
SPECIFICATION Spec
SYMMETRY Symmetric
INVARIANTS
    CountsFollow
PROPERTIES
    RepeatsSucceed
\* Ids, changes and failures are bounded.
CHECK_DEADLOCK FALSE

\* Two test cases, one edit and one failure.
CONSTANTS
    i1 = i1
    i2 = i2
    None = None
    Deleted = Deleted
    CaseIds = {1, 2}
    Contents <- MCContents
    Limits = {1, 2}
    Programs <- MCPrograms
    SelfTests <- MCSelfTests
    Inputs = {i1, i2}
    Grace = 1
    MaxEdits = 1
    MaxFaults = 1
SPECIFICATION Spec
INVARIANTS
    RowsTellTheVerdict
    AcceptedIffAllPass
    SelfTestAgrees
\* The submission is judged and nobody edits the problem any more.
CHECK_DEADLOCK FALSE

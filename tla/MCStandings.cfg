\* An administrator and a user, two problems, a contest that starts at 0 and ends
\* at 2, and one edit or rejudge.
CONSTANTS
    Users = {1, 2}
    Admins = {1}
    Problems = {p1, p2}
    Times = {0, 2}
    Visibilities = {TRUE}
    MaxTime = 2
    MaxSubmissions = 2
    MaxChanges = 1
    None = None
SPECIFICATION StandingsSpec
SYMMETRY ProblemSymmetry
INVARIANTS
    StandingsAreRight
PROPERTIES
    SolvedStays
\* Time and the numbers of submissions and changes are bounded.
CHECK_DEADLOCK FALSE

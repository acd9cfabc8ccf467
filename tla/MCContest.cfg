\* An administrator and a user, two requests at a time, a contest that runs from 1
\* to 2, and one edit, deletion or rejudge.
CONSTANTS
    Users = {1, 2}
    Admins = {1}
    Problems = {p1}
    Requests = {r1, r2}
    Times = {1, 2}
    Visibilities = {TRUE, FALSE}
    MaxTime = 2
    MaxSubmissions = 2
    MaxChanges = 1
    None = None
SPECIFICATION Spec
SYMMETRY RequestSymmetry
PROPERTIES
    KeepsTables
\* Time and the numbers of submissions and changes are bounded.
CHECK_DEADLOCK FALSE

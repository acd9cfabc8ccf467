\* A program that is accepted, and a worker that is asked to stop.
CONSTANTS
    s1 = s1
    s2 = s2
    j1 = j1
    q1 = q1
    w1 = w1
    w2 = w2
    p1 = p1
    p2 = p2
    NoTask = NoTask
    Submissions = {s1}
    Rejudges = {}
    Requeues = {}
    Slots = {w1, w2}
    Workers = {p1}
    Target <- TargetFirst
    Host <- AllOnOne
    Outcomes = {"Accepted"}
    Untested = {}
    MaxInflight = 2
    MaxRetries = 1
    MaxFaults = 1
SPECIFICATION Spec
SYMMETRY SlotSymmetry
INVARIANTS
    RuntimeErrorIsThePrograms
\* Every request has ended and the slots wait for deliveries.
CHECK_DEADLOCK FALSE

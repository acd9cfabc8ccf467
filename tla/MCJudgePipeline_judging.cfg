\* A submission and a rejudge of it, a process with two slots, one retry, and any
\* two failures or stops.
CONSTANTS
    s1 = s1
    s2 = s2
    j1 = j1
    q1 = q1
    w1 = w1
    w2 = w2
    p1 = p1
    p2 = p2
    NoTask = NoTask
    Submissions = {s1}
    Rejudges = {j1}
    Requeues = {}
    Slots = {w1, w2}
    Workers = {p1}
    Target <- TargetFirst
    Host <- AllOnOne
    Outcomes = {"Accepted", "Compile Error"}
    Untested = {}
    MaxInflight = 2
    MaxRetries = 1
    MaxFaults = 2
SPECIFICATION Spec
SYMMETRY SlotSymmetry
INVARIANTS
    NoLostTask
    TokenCoversTask
    NoTokenLeak
    AcceptCountExact
    ResultsOfOneRun
PROPERTIES
    VerdictStable
\* Every request has ended and the slots wait for deliveries.
CHECK_DEADLOCK FALSE

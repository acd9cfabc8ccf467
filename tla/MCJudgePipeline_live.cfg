\* A submission to a problem that may lose its test cases, and the requeue tool; of
\* two worker processes one may fail.
CONSTANTS
    s1 = s1
    s2 = s2
    j1 = j1
    q1 = q1
    w1 = w1
    w2 = w2
    p1 = p1
    p2 = p2
    NoTask = NoTask
    Submissions = {s1}
    Rejudges = {}
    Requeues = {q1}
    Slots = {w1, w2}
    Workers = {p1, p2}
    Target <- TargetFirst
    Host <- OneEach
    Outcomes = {"Accepted"}
    Untested = {s1}
    MaxInflight = 1
    MaxRetries = 1
    MaxFaults = 1
SPECIFICATION FairSpec
PROPERTIES
    EventuallyJudged
    TokenReturned
    RequeueRecovers
\* Every request has ended and the slots wait for deliveries.
CHECK_DEADLOCK FALSE

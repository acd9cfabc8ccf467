---- MODULE ContestTables ----
(***************************************************************************)
(* What the rows of one contest may go through, whoever writes them:       *)
(* users join once, submissions appear, with a time of creation that may   *)
(* be past, and are judged and judged again, a lost confirm or a second    *)
(* delivery writes a status over a settled one, and administrators edit    *)
(* the contest.  Contest shows that the handlers do nothing else;          *)
(* Standings reads these rows.                                             *)
(***************************************************************************)
EXTENDS Integers, Sequences, FiniteSets

CONSTANTS
    Users,          \* numbered in the order of their names
    Admins,
    Problems,
    Times,          \* start and end times an administrator may choose
    Visibilities,   \* public or private
    MaxTime,        \* bound: time units
    MaxSubmissions, \* bound: submissions
    MaxChanges,     \* bound: edits, rejudges and submissions overwritten
    None            \* no time, no contest

ASSUME ContestAssumption ==
    /\ Users \subseteq Nat /\ IsFiniteSet(Users) /\ Admins \subseteq Users
    /\ Times \subseteq Nat /\ Visibilities \subseteq BOOLEAN
    /\ MaxTime \in Nat /\ MaxSubmissions \in Nat /\ MaxChanges \in Nat
    /\ None \notin Nat

Forms == [start : Times, end : Times, public : Visibilities]
Contests == {c \in Forms : c.start < c.end}
\* Pending is Judging too, and Rejected any verdict but Accepted or a System Error.
Statuses == {"Pending", "Accepted", "Rejected"}

VARIABLES
    now,
    contest,        \* row of contests, None once it is deleted
    problems,       \* rows of contest_problems
    joined,         \* created_at of the rows of contest_participants
    submissions,    \* rows of submissions with this contest_id, by id
    changes,        \* edits and rejudges so far
    overwritten     \* submissions whose settled status was written again without a rejudge

tables == <<now, contest, problems, joined, submissions, changes, overwritten>>

Init ==
    /\ now = 0
    /\ contest \in Contests
    /\ problems = Problems
    /\ joined = [u \in Users |-> None]
    /\ submissions = <<>>
    /\ changes = 0
    /\ overwritten = {}

IsJoined(u) == joined[u] # None

Tick ==
    /\ now < MaxTime /\ now' = now + 1
    /\ UNCHANGED <<contest, problems, joined, submissions, changes, overwritten>>

Join(u, t) ==
    /\ ~IsJoined(u)
    /\ joined' = [joined EXCEPT ![u] = t]
    /\ UNCHANGED <<now, contest, problems, submissions, changes, overwritten>>

\* Who submits has joined by the time of creation, or is an administrator.
Submit(u, p, t) ==
    /\ u \in Admins \/ (IsJoined(u) /\ joined[u] <= t)
    /\ Len(submissions) < MaxSubmissions
    /\ submissions' = Append(submissions,
                             [user |-> u, problem |-> p, created |-> t, status |-> "Pending"])
    /\ UNCHANGED <<now, contest, problems, joined, changes, overwritten>>

SetStatus(n, s) == submissions' = [submissions EXCEPT ![n].status = s]

\* The submission is judged, or could not be.
Judge(n) ==
    /\ submissions[n].status = "Pending"
    /\ SetStatus(n, "Accepted") \/ SetStatus(n, "Rejected")
    /\ UNCHANGED <<now, contest, problems, joined, changes, overwritten>>

\* An edit, a rejudge or a status that is written again.
MayChange == changes + Cardinality(overwritten) < MaxChanges

Mark(n) == /\ n \in overwritten \/ MayChange
           /\ overwritten' = overwritten \cup {n}

\* No write looks at the status it replaces: a publish whose confirm is late ends
\* in a System Error, and a second delivery of a task or a retry after a lost
\* commit begins, ends or fails its judging, over the verdict of the first.
Overwrite(n, s) ==
    /\ submissions[n].status # "Pending"
    /\ SetStatus(n, s)
    /\ Mark(n)
    /\ UNCHANGED <<now, contest, problems, joined, changes>>

Change == MayChange /\ changes' = changes + 1

Rejudge(n) ==
    /\ SetStatus(n, "Pending")
    /\ Change
    /\ UNCHANGED <<now, contest, problems, joined, overwritten>>

\* A deleted contest does not come back, but its list may still change.
Edit(c, ps) ==
    /\ contest = None => c = None
    /\ contest' = c /\ problems' = ps
    /\ Change
    /\ UNCHANGED <<now, joined, submissions, overwritten>>

Next ==
    \/ Tick
    \/ \E u \in Users, t \in 0 .. now : Join(u, t) \/ \E p \in Problems : Submit(u, p, t)
    \/ \E n \in DOMAIN submissions : Judge(n) \/ Rejudge(n) \/ \E s \in Statuses : Overwrite(n, s)
    \/ \E c \in Contests \cup {None}, ps \in SUBSET Problems : Edit(c, ps)

Spec == Init /\ [][Next]_tables
====

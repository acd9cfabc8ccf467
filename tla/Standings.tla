---- MODULE Standings ----
(***************************************************************************)
(* The standings of a contest, computed from four reads of the database    *)
(* while the rows change as ContestTables allows.                          *)
(***************************************************************************)
EXTENDS ContestTables, Arrangement

VARIABLES
    view,           \* a request and what it has read
    shown           \* the penalties of solved problems in the last answer

vars == <<tables, view, shown>>

Idle == [pc |-> "idle"]

StandingsInit ==
    /\ Init
    /\ view = Idle
    /\ shown = [since |-> 0, penalty |-> [u \in Users |-> [p \in Problems |-> None]]]

NoCell == [attempts |-> 0, accepted |-> FALSE, penalty |-> 0]

\* The submissions that the query takes.
Taken(v) ==
    {n \in DOMAIN v.submissions :
        /\ v.submissions[n].problem \in v.problems
        /\ v.contest.start <= v.submissions[n].created
        /\ v.submissions[n].created < v.contest.end}

\* Wrong variant: in the order of the ids.
CountedById(v) == Arrange(Taken(v), {x \in Taken(v) \X Taken(v) : x[1] < x[2]})

Before(v, m, n) == \/ v.submissions[m].created < v.submissions[n].created
                   \/ v.submissions[m].created = v.submissions[n].created /\ m < n

\* What it returns, by time of creation and id.
Counted(v) == Arrange(Taken(v), {x \in Taken(v) \X Taken(v) : Before(v, x[1], x[2])})

\* Wrong variant: a later accepted submission of a solved problem counts too.
AddSubmissionAgain(v, row, s) ==
    [row EXCEPT !.cells[s.problem].attempts = @ + 1,
                !.cells[s.problem].accepted = s.status = "Accepted",
                !.cells[s.problem].penalty = IF s.status = "Accepted"
                                             THEN s.created - v.contest.start ELSE @]

\* A solved problem takes no more submissions.
AddSubmission(v, row, s) ==
    IF row.cells[s.problem].accepted THEN row
    ELSE LET since == s.created - v.contest.start
             penalty == IF s.status = "Accepted" /\ since > 0 THEN since ELSE 0
         IN  [user |-> row.user,
              solved |-> IF s.status = "Accepted" THEN row.solved + 1 ELSE row.solved,
              total |-> row.total + penalty,
              cells |-> [row.cells EXCEPT ![s.problem] =
                            [attempts |-> @.attempts + 1, accepted |-> s.status = "Accepted",
                             penalty |-> penalty]]]

Participants(v) == {u \in Users : v.joined[u] # None}

NewRows(v) == [u \in Participants(v) |->
                 [user |-> u, solved |-> 0, total |-> 0, cells |-> [p \in v.problems |-> NoCell]]]

\* Submissions of nobody's row or from before the user joined are passed over.
AddTo(v, rows, s) ==
    IF s.user \notin Participants(v) THEN rows
    ELSE IF s.created < v.joined[s.user] THEN rows
    ELSE [rows EXCEPT ![s.user] = AddSubmission(v, @, s)]

\* The rows after all submissions, one after the other.
Rows(v) ==
    LET list == Counted(v)
        after[n \in 0 .. Len(list)] ==
            IF n = 0 THEN NewRows(v) ELSE AddTo(v, after[n - 1], v.submissions[list[n]])
    IN  after[Len(list)]

Precedes(x, y) == \/ x.solved > y.solved
                  \/ x.solved = y.solved /\ x.total < y.total
                  \/ x.solved = y.solved /\ x.total = y.total /\ x.user < y.user

Standings(v) ==
    LET rows == Rows(v)
        pairs == {x \in Participants(v) \X Participants(v) : Precedes(rows[x[1]], rows[x[2]])}
        order == Arrange(Participants(v), pairs)
    IN  [i \in DOMAIN order |-> rows[order[i]]]

ReadContest ==
    /\ view = Idle /\ contest # None
    /\ view' = [pc |-> "problems", since |-> changes, contest |-> contest]
    /\ UNCHANGED <<tables, shown>>

ReadProblems ==
    /\ view.pc = "problems"
    /\ view' = [pc |-> "participants", since |-> view.since, contest |-> view.contest,
                problems |-> problems]
    /\ UNCHANGED <<tables, shown>>

ReadParticipants ==
    /\ view.pc = "participants"
    /\ view' = [pc |-> "submissions", since |-> view.since, contest |-> view.contest,
                problems |-> view.problems, joined |-> joined]
    /\ UNCHANGED <<tables, shown>>

\* What this request answers if it reads the submissions now.
Snapshot == [contest |-> view.contest, problems |-> view.problems, joined |-> view.joined,
             submissions |-> submissions]

\* The last read, and the answer, of which the reader keeps what the next one
\* is compared with.
ReadSubmissions ==
    /\ view.pc = "submissions"
    /\ view' = Idle
    /\ LET rows == Rows(Snapshot)
       IN  shown' = [since |-> view.since,
                     penalty |-> [u \in Users |-> [p \in Problems |->
                        IF u \in DOMAIN rows /\ p \in view.problems /\ rows[u].cells[p].accepted
                        THEN rows[u].cells[p].penalty ELSE None]]]
    /\ UNCHANGED tables

StandingsNext ==
    \/ Next /\ UNCHANGED <<view, shown>>
    \/ ReadContest \/ ReadProblems \/ ReadParticipants \/ ReadSubmissions

StandingsSpec == StandingsInit /\ [][StandingsNext]_vars

----------------------------------------------------------------------------
(* Properties.                                                             *)

\* Types of the request and of the last answer.
TypeOK ==
    /\ view = Idle \/ view.contest \in Contests
    /\ view.pc \in {"idle", "problems", "participants", "submissions"}
    /\ shown.since \in 0 .. changes
    /\ shown.penalty \in [Users -> [Problems -> (0 .. now) \cup {None}]]

\* A user's submissions that a standings request takes into account for a
\* problem, and the one that solves it, if any.
Mine(v, u, p) ==
    {n \in DOMAIN v.submissions :
        LET s == v.submissions[n]
        IN  /\ s.user = u /\ s.problem = p /\ v.joined[u] <= s.created
            /\ s.created >= v.contest.start /\ s.created < v.contest.end}
Solutions(v, u, p) == {n \in Mine(v, u, p) : v.submissions[n].status = "Accepted"}
First(v, u, p) == CHOOSE n \in Solutions(v, u, p) :
                      \A m \in Solutions(v, u, p) \ {n} : Before(v, n, m)
Solved(v, u) == {p \in v.problems : Solutions(v, u, p) # {}}
Penalty(v, u, p) == v.submissions[First(v, u, p)].created - v.contest.start
\* The sum of the penalties counts units of time, each with its problem.
Total(v, u) == Cardinality(UNION {{p} \X (1 .. Penalty(v, u, p)) : p \in Solved(v, u)})
Beats(v, x, y) ==
    LET solvedX == Cardinality(Solved(v, x))
        solvedY == Cardinality(Solved(v, y))
    IN  \/ solvedX > solvedY
        \/ solvedX = solvedY /\ Total(v, x) < Total(v, y)
        \/ solvedX = solvedY /\ Total(v, x) = Total(v, y) /\ x < y

\* The types hold. The answer has one row for every participant; a user's rank is one more than
\* the number of participants that solved more, or as many in less time; a
\* problem is solved by the earliest accepted submission inside the contest,
\* which sets the penalty and ends the count of attempts.
StandingsAreRight ==
    /\ TypeOK
    /\ view.pc = "submissions" =>
        LET v == Snapshot
            rows == Standings(v)
        IN  /\ Len(rows) = Cardinality(Participants(v))
            /\ \A u \in Participants(v) :
                  LET row == rows[1 + Cardinality({w \in Participants(v) \ {u} : Beats(v, w, u)})]
                  IN  /\ row.user = u
                      /\ row.solved = Cardinality(Solved(v, u))
                      /\ row.total = Total(v, u)
                      /\ \A p \in v.problems :
                            IF p \in Solved(v, u)
                            THEN row.cells[p] = [accepted |-> TRUE, penalty |-> Penalty(v, u, p),
                                    attempts |-> 1 + Cardinality({n \in Mine(v, u, p) :
                                                        Before(v, n, First(v, u, p))})]
                            ELSE row.cells[p] = [accepted |-> FALSE, penalty |-> 0,
                                    attempts |-> Cardinality(Mine(v, u, p))]

Overwritten(u, p) ==
    \E n \in overwritten : submissions[n].user = u /\ submissions[n].problem = p

\* A problem that one answer shows as solved is solved in the next one, with no
\* more penalty, unless the contest was edited or a submission rejudged since
\* the first of the two was requested, or the settled status of a submission of
\* this user to this problem was ever written again: late verdicts, submissions
\* in flight, reads at different moments and what happens to the submissions of
\* others take nothing away.
SolvedStays ==
    [][shown'.since = shown.since /\ changes = shown.since =>
          \A u \in Users, p \in Problems :
              shown.penalty[u][p] # None /\ ~Overwritten(u, p) =>
                  shown'.penalty[u][p] # None /\ shown'.penalty[u][p] <= shown.penalty[u][p]]_vars
====

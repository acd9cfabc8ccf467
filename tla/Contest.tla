---- MODULE Contest ----
(***************************************************************************)
(* The handlers that write the rows of one contest: users join it and      *)
(* submit to its problems while it runs, administrators edit or delete it, *)
(* and submissions are judged.  Every handler reads first and writes later *)
(* what it has decided on.                                                 *)
(***************************************************************************)
EXTENDS Integers, Sequences

CONSTANTS
    Users,          \* numbered in the order of their names
    Admins,
    Problems,
    Requests,       \* concurrent requests
    Times,          \* start and end times an administrator may choose
    Visibilities,   \* public or private
    MaxTime,        \* bound: time units
    MaxSubmissions, \* bound: submissions
    MaxChanges,     \* bound: edits, rejudges and submissions overwritten
    None            \* no time, no contest

VARIABLES
    now, contest, problems, joined, submissions, changes, overwritten,  \* see ContestTables
    request                                                             \* what a request has found out

T == INSTANCE ContestTables

ASSUME ContestAssumption == T!ContestAssumption

vars == <<now, contest, problems, joined, submissions, changes, overwritten, request>>

Idle == [pc |-> "idle"]

Init == T!Init /\ request = [r \in Requests |-> Idle]

IsJoined(u) == joined[u] # None
MaySee(u) == contest # None /\ (contest.public \/ u \in Admins \/ IsJoined(u))

Set(r, record) == request' = [request EXCEPT ![r] = record]
OnlyRequests == UNCHANGED <<now, contest, problems, joined, submissions, changes, overwritten>>

Tick == T!Tick /\ UNCHANGED request

----------------------------------------------------------------------------
(* joinContest.                                                            *)

\* findVisibleContest and the test of the end; who may not see a private
\* contest may not join it.
ReadToJoin(r, u) ==
    /\ request[r] = Idle
    /\ MaySee(u) /\ now < contest.end
    /\ Set(r, [pc |-> "find", user |-> u])
    /\ OnlyRequests

\* FirstOrCreate is a SELECT and, when that finds nothing, an INSERT.
FindParticipant(r) ==
    /\ request[r].pc = "find"
    /\ Set(r, IF IsJoined(request[r].user) THEN Idle
              ELSE [pc |-> "create", user |-> request[r].user, found |-> now])
    /\ OnlyRequests

\* Wrong variant: no unique index; the later row counts.
CreateParticipantAgain(r) ==
    /\ request[r].pc = "create"
    /\ \E t \in request[r].found .. now : joined' = [joined EXCEPT ![request[r].user] = t]
    /\ Set(r, Idle)
    /\ UNCHANGED <<now, contest, problems, submissions, changes, overwritten>>

\* The unique index refuses a second row for the user.
CreateParticipant(r) ==
    /\ request[r].pc = "create"
    /\ IF IsJoined(request[r].user) THEN UNCHANGED joined
       ELSE \E t \in request[r].found .. now : joined' = [joined EXCEPT ![request[r].user] = t]
    /\ Set(r, Idle)
    /\ UNCHANGED <<now, contest, problems, submissions, changes, overwritten>>

----------------------------------------------------------------------------
(* submitContestProblem.                                                   *)

Submission(pc, u, p) == [pc |-> pc, user |-> u, problem |-> p]

\* The contest is read, with the participant when it is private, and its
\* times are compared with the clock.
ReadToSubmit(r, u, p) ==
    /\ request[r] = Idle
    /\ MaySee(u) /\ contest.start <= now /\ now < contest.end
    /\ Set(r, Submission("joined", u, p))
    /\ OnlyRequests

CheckJoined(r) ==
    /\ request[r].pc = "joined"
    /\ request[r].user \in Admins \/ IsJoined(request[r].user)
    /\ Set(r, [request[r] EXCEPT !.pc = "problem"])
    /\ OnlyRequests

\* created_at is set when the checks are done, before the row is sent.
CheckProblem(r) ==
    /\ request[r].pc = "problem" /\ request[r].problem \in problems
    /\ Set(r, [pc |-> "insert", user |-> request[r].user, problem |-> request[r].problem,
               created |-> now])
    /\ OnlyRequests

InsertSubmission(r) ==
    /\ request[r].pc = "insert"
    /\ Len(submissions) < MaxSubmissions
    /\ submissions' = Append(submissions, [user |-> request[r].user, problem |-> request[r].problem,
                                           created |-> request[r].created, status |-> "Pending"])
    /\ Set(r, [pc |-> "publish", id |-> Len(submissions) + 1])
    /\ UNCHANGED <<now, contest, problems, joined, changes, overwritten>>

\* The task is not published, or nothing is known of it in time; the status is
\* written whatever the row has become since, by a worker that got the task.
PublishFails(r) ==
    /\ request[r].pc = "publish"
    /\ T!SetStatus(request[r].id, "Rejected")
    /\ IF submissions[request[r].id].status = "Pending" THEN UNCHANGED overwritten
       ELSE T!Mark(request[r].id)
    /\ Set(r, Idle)
    /\ UNCHANGED <<now, contest, problems, joined, changes>>

\* A check that fails, a full capacity gate, an error of the database; of a
\* submission, the end of its publish, or of its status update that fails too.
Refuse(r) ==
    /\ request[r] # Idle
    /\ Set(r, Idle)
    /\ OnlyRequests

----------------------------------------------------------------------------
(* The worker, and administrators.                                         *)

Judge(n) == T!Judge(n) /\ UNCHANGED request

\* Second deliveries, retries, and a rejudge whose publish fails.
Overwrite(n, s) == T!Overwrite(n, s) /\ UNCHANGED request

Rejudge(n) == T!Rejudge(n) /\ UNCHANGED request

\* The form is checked, and the contest must exist.
ReadToEdit(r, c, ps) ==
    /\ request[r] = Idle /\ contest # None
    /\ c.start < c.end
    /\ Set(r, [pc |-> "edit", contest |-> c, problems |-> ps])
    /\ OnlyRequests

\* One transaction writes the row, unless it was deleted in the meantime, and
\* replaces the list of problems.
UpdateContest(r) ==
    /\ request[r].pc = "edit"
    /\ contest' = IF contest = None THEN None ELSE request[r].contest
    /\ problems' = request[r].problems
    /\ T!Change
    /\ Set(r, Idle)
    /\ UNCHANGED <<now, joined, submissions, overwritten>>

\* The rows of its problems, participants and submissions stay.
DeleteContest ==
    /\ contest # None /\ contest' = None
    /\ T!Change
    /\ UNCHANGED <<now, problems, joined, submissions, overwritten, request>>

Next ==
    \/ Tick
    \/ \E r \in Requests :
          \/ \E u \in Users : ReadToJoin(r, u) \/ \E p \in Problems : ReadToSubmit(r, u, p)
          \/ \E c \in T!Forms, ps \in SUBSET Problems : ReadToEdit(r, c, ps)
          \/ FindParticipant(r) \/ CreateParticipant(r)
          \/ CheckJoined(r) \/ CheckProblem(r)
          \/ InsertSubmission(r) \/ PublishFails(r)
          \/ UpdateContest(r)
          \/ Refuse(r)
    \/ \E n \in DOMAIN submissions : Judge(n) \/ Rejudge(n) \/ \E s \in T!Statuses : Overwrite(n, s)
    \/ DeleteContest

Spec == Init /\ [][Next]_vars

----------------------------------------------------------------------------
(* Properties.                                                             *)

\* Types of the tables and the requests; a contest ends after it starts, and
\* nothing was created in the future.
TypeOK ==
    /\ now \in 0 .. MaxTime
    /\ contest \in T!Contests \cup {None} /\ problems \subseteq Problems
    /\ joined \in [Users -> (0 .. now) \cup {None}]
    /\ submissions \in Seq([user : Users, problem : Problems, created : 0 .. now,
                            status : T!Statuses])
    /\ request \in [Requests ->
          {Idle} \cup [pc : {"find"}, user : Users]
                 \cup [pc : {"create"}, user : Users, found : 0 .. now]
                 \cup [pc : {"joined", "problem"}, user : Users, problem : Problems]
                 \cup [pc : {"insert"}, user : Users, problem : Problems, created : 0 .. now]
                 \cup [pc : {"publish"}, id : DOMAIN submissions]
                 \cup [pc : {"edit"}, contest : T!Contests, problems : SUBSET Problems]]
    /\ changes \in Nat /\ overwritten \subseteq DOMAIN submissions

\* Who submits to a contest has joined it, at the latest when the submission was
\* created: the standings pass over no submission of a user who is not an
\* administrator because of the time of joining, however requests interleave.
JoinedBeforeSubmitting ==
    \A n \in DOMAIN submissions :
        LET s == submissions[n]
        IN  s.user \notin Admins => IsJoined(s.user) /\ joined[s.user] <= s.created

\* The handlers do with the rows what ContestTables allows: nobody joins twice,
\* not by two requests at once either, a submission is added only for who has
\* joined, and an edit started before a deletion does not bring the contest back.
KeepsTables == T!Spec
====

---- MODULE JudgePipeline ----
(***************************************************************************)
(* The life of a submission from the API request that stores it to the     *)
(* verdict a judge worker writes: the API handlers and the requeue tool    *)
(* that publish judge tasks, the Redis capacity gate they pass, the        *)
(* RabbitMQ judge queue with manual acknowledgements, and the worker       *)
(* processes whose slots judge, retry, reject or finish a task.            *)
(*                                                                         *)
(* Every request acquires at most one capacity token, so a request is its  *)
(* own token; every submit request stores one submission, so a submission  *)
(* is the request that stores it.  A judge task is therefore the token it  *)
(* carries and the number of the attempt.                                  *)
(***************************************************************************)
EXTENDS Naturals, FiniteSets

CONSTANTS
    Submissions,    \* submit requests, each with the row it stores
    Rejudges,       \* admin rejudge requests
    Requeues,       \* iterations of the requeue-pending tool
    Target,         \* the submission a request is about
    Slots,          \* goroutines running workerLoop
    Workers,        \* worker processes, one broker connection each
    Host,           \* the process a slot runs in
    Outcomes,       \* statuses that compiling and running a program may give
    Untested,       \* submissions to a problem that may lose its test cases
    MaxInflight,    \* YOJ_JUDGE_MAX_INFLIGHT
    MaxRetries,     \* YOJ_JUDGE_MAX_RETRIES
    MaxFaults,      \* bound: failures and stops the environment injects
    NoTask          \* no delivery, no task

Requests == Submissions \cup Rejudges \cup Requeues
Tasks == [token : Requests, attempt : 0 .. MaxRetries]

Verdicts == {"Accepted", "Wrong Answer", "Compile Error", "Runtime Error",
             "Time Limit Exceeded", "Memory Limit Exceeded"}
Open == {"Pending", "Judging"}
Terminal == Verdicts \cup {"System Error"}
Statuses == {"none"} \cup Open \cup Terminal

ASSUME RequestsAssumption ==
    /\ Submissions \cap Rejudges = {}
    /\ Submissions \cap Requeues = {}
    /\ Rejudges \cap Requeues = {}
    /\ Target \in [Requests -> Submissions]
    /\ \A s \in Submissions : Target[s] = s

ASSUME WorkersAssumption ==
    /\ Host \in [Slots -> Workers]
    /\ Outcomes \subseteq Verdicts
    /\ Untested \subseteq Submissions

ASSUME BoundsAssumption ==
    /\ MaxInflight \in Nat \ {0}
    /\ MaxRetries \in Nat
    /\ MaxFaults \in Nat

ASSUME NoTaskAssumption == NoTask \notin Tasks

VARIABLES
    status,         \* submissions.status
    rows,           \* runs whose result rows submission_results holds
    acceptCount,    \* problems.accept_count
    capacity,       \* tokens in the Redis sorted set
    ready,          \* copies of each task waiting in the judge queue
    unacked,        \* the delivery the broker holds for a slot
    reqPc,          \* progress of a request
    seen,           \* the status a rejudge request has read
    pc,             \* progress of a slot
    task,           \* the task a slot works on
    verdict,        \* JudgeSubmission's finalStatus
    proc,           \* worker process: running, stopping (ctx cancelled), down
    link,           \* its consumer channel: open, closed
    abandoned,      \* history: submissions a failure left with nobody to judge
    leaked,         \* history: tokens nobody will release
    excused,        \* history: tokens that stopped covering their task
    raced,          \* history: submissions two parties worked on at once
    faults

dbVars == <<status, rows, acceptCount>>
brokerVars == <<ready, unacked>>
reqVars == <<reqPc, seen>>
slotVars == <<pc, task, verdict>>
procVars == <<proc, link>>
history == <<abandoned, leaked, excused>>
stepVars == <<dbVars, capacity, brokerVars, reqVars, slotVars, procVars, history, faults>>
vars == <<stepVars, raced>>

SubOf(t) == Target[t.token]
SlotsOf(p) == {w \in Slots : Host[w] = p}
Connected(w) == link[Host[w]] = "open"

Fault == faults < MaxFaults /\ faults' = faults + 1
Fine == UNCHANGED faults

Init ==
    /\ status = [s \in Submissions |-> "none"]
    /\ rows = [s \in Submissions |-> 0]
    /\ acceptCount = 0
    /\ capacity = {}
    /\ ready = [t \in Tasks |-> 0]
    /\ unacked = [w \in Slots |-> NoTask]
    /\ reqPc = [r \in Requests |-> "new"]
    /\ seen = [r \in Rejudges |-> "none"]
    /\ pc = [w \in Slots |-> "idle"]
    /\ task = [w \in Slots |-> NoTask]
    /\ verdict = [w \in Slots |-> "none"]
    /\ proc = [p \in Workers |-> "running"]
    /\ link = [p \in Workers |-> "open"]
    /\ abandoned = {} /\ leaked = {} /\ excused = {} /\ raced = {}
    /\ faults = 0

----------------------------------------------------------------------------
(* Requests: submitProblem, submitContestProblem, adminRejudgeSubmission    *)
(* and the loop of requeue-pending.                                         *)

ReqGoto(r, l) == reqPc' = [reqPc EXCEPT ![r] = l]
Enqueue(t) == ready' = [ready EXCEPT ![t] = @ + 1]
FirstTask(r) == [token |-> r, attempt |-> 0]

\* A rejudge request loads the submission, whatever its status is.
ReadForRejudge(r) ==
    /\ r \in Rejudges /\ reqPc[r] = "new"
    /\ status[Target[r]] # "none"
    /\ seen' = [seen EXCEPT ![r] = status[Target[r]]]
    /\ ReqGoto(r, "picked")
    /\ Fine
    /\ UNCHANGED <<dbVars, capacity, brokerVars, slotVars, procVars, history>>

\* The tool lists the Pending submissions before it publishes any of them.
ListPending(r) ==
    /\ r \in Requeues /\ reqPc[r] = "new"
    /\ status[Target[r]] = "Pending"
    /\ ReqGoto(r, "picked")
    /\ Fine
    /\ UNCHANGED <<dbVars, capacity, brokerVars, seen, slotVars, procVars, history>>

ReadyToAcquire(r) ==
    IF r \in Submissions THEN reqPc[r] = "new" ELSE reqPc[r] = "picked"

\* acquireJudgeAdmission: a full gate answers 503 and ends the request.
Acquire(r) ==
    /\ ReadyToAcquire(r)
    /\ IF Cardinality(capacity) < MaxInflight
       THEN /\ capacity' = capacity \cup {r}
            /\ ReqGoto(r, IF r \in Requeues THEN "relist" ELSE "admitted")
       ELSE /\ ReqGoto(r, "done")
            /\ UNCHANGED capacity
    /\ Fine
    /\ UNCHANGED <<dbVars, brokerVars, seen, slotVars, procVars, history>>

\* The script ran in Redis and its reply was lost: the request ends, the
\* token stays until its TTL.
AcquireReplyLost(r) ==
    /\ ReadyToAcquire(r)
    /\ Cardinality(capacity) < MaxInflight
    /\ capacity' = capacity \cup {r}
    /\ leaked' = leaked \cup {r}
    /\ ReqGoto(r, "done")
    /\ Fault
    /\ UNCHANGED <<dbVars, brokerVars, seen, slotVars, procVars, abandoned, excused>>

CreateSubmission(r) ==
    /\ r \in Submissions /\ reqPc[r] = "admitted"
    /\ status' = [status EXCEPT ![r] = "Pending"]
    /\ ReqGoto(r, "stored")
    /\ Fine
    /\ UNCHANGED <<rows, acceptCount, capacity, brokerVars, seen, slotVars, procVars,
                   history>>

\* Wrong variant: the counter is not taken back.
ResetKeepsCount(r) ==
    /\ r \in Rejudges /\ reqPc[r] = "admitted"
    /\ status' = [status EXCEPT ![Target[r]] = "Pending"]
    /\ rows' = [rows EXCEPT ![Target[r]] = 0]
    /\ ReqGoto(r, "stored")
    /\ Fine
    /\ UNCHANGED <<acceptCount, capacity, brokerVars, seen, slotVars, procVars, history>>

\* One transaction; whether to decrement is decided by the status read before.
ResetSubmission(r) ==
    /\ r \in Rejudges /\ reqPc[r] = "admitted"
    /\ status' = [status EXCEPT ![Target[r]] = "Pending"]
    /\ rows' = [rows EXCEPT ![Target[r]] = 0]
    /\ acceptCount' = IF seen[r] = "Accepted" /\ acceptCount > 0
                      THEN acceptCount - 1 ELSE acceptCount
    /\ ReqGoto(r, "stored")
    /\ Fine
    /\ UNCHANGED <<capacity, brokerVars, seen, slotVars, procVars, history>>

\* The insert or the transaction failed: answer 500, give the token back.
StoreFails(r) ==
    /\ reqPc[r] = "admitted"
    /\ ReqGoto(r, "release")
    /\ Fault
    /\ UNCHANGED <<dbVars, capacity, brokerVars, seen, slotVars, procVars, history>>

PublishConfirmed(r) ==
    /\ reqPc[r] \in {"stored", "relist"}
    /\ Enqueue(FirstTask(r))
    /\ ReqGoto(r, "done")
    /\ Fine
    /\ UNCHANGED <<dbVars, capacity, unacked, seen, slotVars, procVars, history>>

\* No lane, a refused publish, or a confirm that did not come in time: in the
\* last case the task may be in the queue although the request saw an error.
PublishFails(r) ==
    /\ reqPc[r] \in {"stored", "relist"}
    /\ \/ UNCHANGED <<ready, excused>>
       \/ Enqueue(FirstTask(r)) /\ excused' = excused \cup {r}
    /\ ReqGoto(r, IF reqPc[r] = "stored" THEN "failed" ELSE "release")
    /\ Fault
    /\ UNCHANGED <<dbVars, capacity, unacked, seen, slotVars, procVars, abandoned, leaked>>

\* Wrong variant: answers the client without giving the token back.
MarkFailedKeepsToken(r) ==
    /\ reqPc[r] = "failed"
    /\ status' = [status EXCEPT ![Target[r]] = "System Error"]
    /\ ReqGoto(r, "done")
    /\ Fine
    /\ UNCHANGED <<rows, acceptCount, capacity, brokerVars, seen, slotVars, procVars,
                   history>>

MarkPublishFailed(r) ==
    /\ reqPc[r] = "failed"
    /\ status' = [status EXCEPT ![Target[r]] = "System Error"]
    /\ ReqGoto(r, "release")
    /\ Fine
    /\ UNCHANGED <<rows, acceptCount, capacity, brokerVars, seen, slotVars, procVars,
                   history>>

\* The error of that update is ignored.
MarkPublishFailedFails(r) ==
    /\ reqPc[r] = "failed"
    /\ abandoned' = abandoned \cup {Target[r]}
    /\ ReqGoto(r, "release")
    /\ Fault
    /\ UNCHANGED <<dbVars, capacity, brokerVars, seen, slotVars, procVars, leaked, excused>>

ReleaseAdmission(r) ==
    /\ reqPc[r] = "release"
    /\ capacity' = capacity \ {r}
    /\ ReqGoto(r, "done")
    /\ Fine
    /\ UNCHANGED <<dbVars, brokerVars, seen, slotVars, procVars, history>>

ReleaseAdmissionFails(r) ==
    /\ reqPc[r] = "release"
    /\ leaked' = leaked \cup {r}
    /\ ReqGoto(r, "done")
    /\ Fault
    /\ UNCHANGED <<dbVars, capacity, brokerVars, seen, slotVars, procVars, abandoned,
                   excused>>

HoldsAdmission(r) == reqPc[r] \in {"admitted", "relist", "stored", "failed", "release"}

\* The process serving these requests dies: the API server or the tool.
ServerCrash(R) ==
    /\ \E r \in R : reqPc[r] \notin {"new", "done"}
    /\ reqPc' = [r \in Requests |->
                    IF r \in R /\ reqPc[r] # "new" THEN "done" ELSE reqPc[r]]
    /\ leaked' = leaked \cup {r \in R : HoldsAdmission(r)}
    /\ abandoned' = abandoned \cup {Target[r] : r \in {q \in R : reqPc[q] \in {"stored", "failed"}}}
    /\ Fault
    /\ UNCHANGED <<dbVars, capacity, brokerVars, seen, slotVars, procVars, excused>>

RequestStep(r) ==
    \/ ReadForRejudge(r) \/ ListPending(r)
    \/ Acquire(r)
    \/ CreateSubmission(r) \/ ResetSubmission(r)
    \/ PublishConfirmed(r)
    \/ MarkPublishFailed(r)
    \/ ReleaseAdmission(r)

RequestFault(r) ==
    \/ AcquireReplyLost(r) \/ StoreFails(r) \/ PublishFails(r)
    \/ MarkPublishFailedFails(r) \/ ReleaseAdmissionFails(r)

----------------------------------------------------------------------------
(* Worker slots: workerLoop, processDelivery and JudgeSubmission.           *)

Goto(w, l) == pc' = [pc EXCEPT ![w] = l]
SetStatus(w, v) == status' = [status EXCEPT ![SubOf(task[w])] = v]

\* The slot ends processDelivery and forgets its task.
Idle(w) ==
    /\ Goto(w, "idle")
    /\ task' = [task EXCEPT ![w] = NoTask]

Settle(w) == unacked' = [unacked EXCEPT ![w] = NoTask]
GiveBack(w) == Enqueue(unacked[w]) /\ Settle(w)

Receive(w, t) ==
    /\ pc[w] = "idle" /\ proc[Host[w]] # "down" /\ Connected(w)
    /\ ready[t] > 0
    /\ ready' = [ready EXCEPT ![t] = @ - 1]
    /\ unacked' = [unacked EXCEPT ![w] = t]
    /\ task' = [task EXCEPT ![w] = t]
    /\ Goto(w, "check")
    /\ Fine
    /\ UNCHANGED <<dbVars, capacity, reqVars, verdict, procVars, history>>

\* Wrong variants: a redelivered Judging submission counts as finished; a
\* finished submission does not.
CheckPendingOnly(w) ==
    /\ pc[w] = "check"
    /\ Goto(w, IF status[SubOf(task[w])] = "Pending" THEN "load" ELSE "ack")
    /\ Fine
    /\ UNCHANGED <<dbVars, capacity, brokerVars, reqVars, task, verdict, procVars, history>>

CheckNothing(w) ==
    /\ pc[w] = "check"
    /\ Goto(w, "load")
    /\ Fine
    /\ UNCHANGED <<dbVars, capacity, brokerVars, reqVars, task, verdict, procVars, history>>

\* submissionAlreadyFinished: a finished submission is acknowledged unjudged.
CheckFinished(w) ==
    /\ pc[w] = "check"
    /\ Goto(w, IF status[SubOf(task[w])] \in Open THEN "load" ELSE "ack")
    /\ Fine
    /\ UNCHANGED <<dbVars, capacity, brokerVars, reqVars, task, verdict, procVars, history>>

\* Wrong variant: Nack without requeue.
CheckFailsDropping(w) ==
    /\ pc[w] = "check"
    /\ IF Connected(w) THEN Settle(w) ELSE UNCHANGED unacked
    /\ Idle(w)
    /\ Fault
    /\ UNCHANGED <<dbVars, capacity, ready, reqVars, verdict, procVars, history>>

\* Nack with requeue; on a dead link it only fails.
CheckFails(w) ==
    /\ pc[w] = "check"
    /\ IF Connected(w) THEN GiveBack(w) ELSE UNCHANGED brokerVars
    /\ Idle(w)
    /\ Fault
    /\ UNCHANGED <<dbVars, capacity, reqVars, verdict, procVars, history>>

\* Loads the submission and its test cases and writes Judging.
StartJudging(w) ==
    /\ pc[w] = "load"
    /\ \/ SubOf(task[w]) \in Untested /\ SetStatus(w, "System Error") /\ Goto(w, "ack")
       \/ SetStatus(w, "Judging") /\ Goto(w, "clear")
    /\ Fine
    /\ UNCHANGED <<rows, acceptCount, capacity, brokerVars, reqVars, task, verdict,
                   procVars, history>>

\* Wrong variant: the rows of an earlier attempt stay.
KeepOldResults(w) ==
    /\ pc[w] = "clear"
    /\ Goto(w, "run")
    /\ Fine
    /\ UNCHANGED <<dbVars, capacity, brokerVars, reqVars, task, verdict, procVars, history>>

DeleteOldResults(w) ==
    /\ pc[w] = "clear"
    /\ rows' = [rows EXCEPT ![SubOf(task[w])] = 0]
    /\ Goto(w, "run")
    /\ Fine
    /\ UNCHANGED <<status, acceptCount, capacity, brokerVars, reqVars, task, verdict,
                   procVars, history>>

\* A compile error is written at once; a run leaves its result rows and waits
\* for the final transaction.
Conclude(w, v) ==
    IF v \in {"Compile Error", "System Error"}
    THEN SetStatus(w, v) /\ Goto(w, "ack") /\ UNCHANGED <<rows, verdict>>
    ELSE /\ rows' = [rows EXCEPT ![SubOf(task[w])] = @ + 1]
         /\ verdict' = [verdict EXCEPT ![w] = v]
         /\ Goto(w, "final")
         /\ UNCHANGED status

RunProgram(w) ==
    /\ pc[w] = "run"
    /\ \E v \in Outcomes : Conclude(w, v)
    /\ Fine
    /\ UNCHANGED <<acceptCount, capacity, brokerVars, reqVars, task, procVars, history>>

\* The worker's context is cancelled while a command runs: the command is
\* killed and its exit code taken for the program's, or it never starts.
RunKilledByShutdown(w) ==
    /\ pc[w] = "run" /\ proc[Host[w]] = "stopping"
    /\ \E v \in {"Compile Error", "Runtime Error", "System Error"} : Conclude(w, v)
    /\ Fine
    /\ UNCHANGED <<acceptCount, capacity, brokerVars, reqVars, task, procVars, history>>

\* No work directory, a write that fails or a command that cannot be run.
RunSystemError(w) ==
    /\ pc[w] = "run"
    /\ SetStatus(w, "System Error")
    /\ \E n \in {0, 1} : rows' = [rows EXCEPT ![SubOf(task[w])] = @ + n]
    /\ Goto(w, "ack")
    /\ Fault
    /\ UNCHANGED <<acceptCount, capacity, brokerVars, reqVars, task, verdict, procVars,
                   history>>

WriteFinalStatus(w) ==
    /\ pc[w] = "final"
    /\ SetStatus(w, verdict[w])
    /\ acceptCount' = IF verdict[w] = "Accepted" THEN acceptCount + 1 ELSE acceptCount
    /\ verdict' = [verdict EXCEPT ![w] = "none"]
    /\ Goto(w, "ack")
    /\ Fine
    /\ UNCHANGED <<rows, capacity, brokerVars, reqVars, task, procVars, history>>

\* A database error at any point of JudgeSubmission, part of whose rows may
\* have been inserted.
JudgeFails(w) ==
    /\ pc[w] \in {"load", "clear", "run", "final"}
    /\ \E n \in IF pc[w] = "run" THEN {0, 1} ELSE {0} :
          rows' = [rows EXCEPT ![SubOf(task[w])] = @ + n]
    /\ verdict' = [verdict EXCEPT ![w] = "none"]
    /\ Goto(w, "failed")
    /\ Fault
    /\ UNCHANGED <<status, acceptCount, capacity, brokerVars, reqVars, task, procVars,
                   history>>

\* The final transaction committed and its reply was lost: judging reports an
\* error although the verdict is stored.
CommitReplyLost(w) ==
    /\ pc[w] = "final"
    /\ SetStatus(w, verdict[w])
    /\ acceptCount' = IF verdict[w] = "Accepted" THEN acceptCount + 1 ELSE acceptCount
    /\ verdict' = [verdict EXCEPT ![w] = "none"]
    /\ Goto(w, "failed")
    /\ Fault
    /\ UNCHANGED <<rows, capacity, brokerVars, reqVars, task, procVars, history>>

\* Ack after judging, and after finding the submission finished.
Ack(w) ==
    /\ pc[w] = "ack"
    /\ IF Connected(w) THEN Settle(w) /\ Goto(w, "release") /\ UNCHANGED task
                       ELSE Idle(w) /\ UNCHANGED unacked
    /\ Fine
    /\ UNCHANGED <<dbVars, capacity, ready, reqVars, verdict, procVars, history>>

\* The client wrote the ack, or the nack of a dead task, and the connection died
\* before the broker read it: the delivery comes again although its token is given
\* back.
AckLost(w) ==
    /\ pc[w] \in {"ack", "reject"} /\ Connected(w)
    /\ link' = [link EXCEPT ![Host[w]] = "closed"]
    /\ Goto(w, "release")
    /\ excused' = excused \cup {task[w].token}
    /\ Fault
    /\ UNCHANGED <<dbVars, capacity, brokerVars, reqVars, task, verdict, proc, abandoned,
                   leaked>>

ReleaseCapacity(w) ==
    /\ pc[w] = "release"
    /\ capacity' = capacity \ {task[w].token}
    /\ Idle(w)
    /\ Fine
    /\ UNCHANGED <<dbVars, brokerVars, reqVars, verdict, procVars, history>>

ReleaseCapacityFails(w) ==
    /\ pc[w] = "release"
    /\ leaked' = leaked \cup {task[w].token}
    /\ Idle(w)
    /\ Fault
    /\ UNCHANGED <<dbVars, capacity, brokerVars, reqVars, verdict, procVars, abandoned,
                   excused>>

CanRetry(w) == task[w].attempt < MaxRetries
NextAttempt(w) == [task EXCEPT ![w].attempt = @ + 1]

\* The error of the status update is ignored: `written` is whether it worked.
ResetForRetry(w, written) ==
    /\ pc[w] = "failed" /\ CanRetry(w)
    /\ task' = NextAttempt(w)
    /\ IF written THEN SetStatus(w, "Pending") /\ Fine ELSE UNCHANGED status /\ Fault
    /\ Goto(w, "republish")
    /\ UNCHANGED <<rows, acceptCount, capacity, brokerVars, reqVars, verdict, procVars,
                   history>>

RepublishConfirmed(w) ==
    /\ pc[w] = "republish"
    /\ Enqueue(task[w])
    /\ Goto(w, "settle")
    /\ Fine
    /\ UNCHANGED <<dbVars, capacity, unacked, reqVars, task, verdict, procVars, history>>

\* The delivery is given back to the queue; a slot whose delivery the broker
\* already gave to somebody else has nothing to give back.
RepublishFails(w) ==
    /\ pc[w] = "republish"
    /\ \E enqueued \in BOOLEAN :
          /\ LET copies == IF enqueued THEN [ready EXCEPT ![task[w]] = @ + 1] ELSE ready
             IN  IF Connected(w)
                 THEN ready' = [copies EXCEPT ![unacked[w]] = @ + 1] /\ Settle(w)
                 ELSE ready' = copies /\ UNCHANGED unacked
          /\ excused' = IF enqueued THEN excused \cup {task[w].token} ELSE excused
    /\ abandoned' = IF unacked[w] = NoTask THEN abandoned \cup {SubOf(task[w])}
                                           ELSE abandoned
    /\ Idle(w)
    /\ Fault
    /\ UNCHANGED <<dbVars, capacity, reqVars, verdict, procVars, leaked>>

\* Wrong variant: the republished attempt gives its token back.
AckRetriedReleasing(w) ==
    /\ pc[w] = "settle"
    /\ IF Connected(w) THEN Settle(w) /\ Goto(w, "release") /\ UNCHANGED task
                       ELSE Idle(w) /\ UNCHANGED unacked
    /\ Fine
    /\ UNCHANGED <<dbVars, capacity, ready, reqVars, verdict, procVars, history>>

\* Ack of the attempt that was republished: no release, the token goes on.
AckRetried(w) ==
    /\ pc[w] = "settle"
    /\ IF Connected(w) THEN Settle(w) /\ UNCHANGED excused
                       ELSE /\ UNCHANGED unacked
                            /\ excused' = excused \cup {task[w].token}
    /\ Idle(w)
    /\ Fine
    /\ UNCHANGED <<dbVars, capacity, ready, reqVars, verdict, procVars, abandoned, leaked>>

\* Retries are exhausted; the error of this status update is ignored too.
GiveUp(w, written) ==
    /\ pc[w] = "failed" /\ ~CanRetry(w)
    /\ IF written THEN SetStatus(w, "System Error") /\ UNCHANGED abandoned /\ Fine
                  ELSE /\ UNCHANGED status
                       /\ abandoned' = abandoned \cup {SubOf(task[w])}
                       /\ Fault
    /\ Goto(w, "reject")
    /\ UNCHANGED <<rows, acceptCount, capacity, brokerVars, reqVars, task, verdict,
                   procVars, leaked, excused>>

\* Wrong variant: a dead task keeps its token.
DeadLetterKeepsToken(w) ==
    /\ pc[w] = "reject"
    /\ IF Connected(w) THEN Settle(w) ELSE UNCHANGED unacked
    /\ Idle(w)
    /\ Fine
    /\ UNCHANGED <<dbVars, capacity, ready, reqVars, verdict, procVars, history>>

\* Nack without requeue: the broker moves the task to the dead-letter queue,
\* which nothing in the repository consumes.  On a dead link the nack fails, which
\* is only logged, and the delivery comes again.
DeadLetter(w) ==
    /\ pc[w] = "reject"
    /\ IF Connected(w) THEN Settle(w) /\ Goto(w, "release") /\ UNCHANGED task
                       ELSE Idle(w) /\ UNCHANGED unacked
    /\ Fine
    /\ UNCHANGED <<dbVars, capacity, ready, reqVars, verdict, procVars, history>>

SlotStep(w) ==
    \/ \E t \in Tasks : Receive(w, t)
    \/ CheckFinished(w)
    \/ StartJudging(w) \/ DeleteOldResults(w) \/ RunProgram(w) \/ WriteFinalStatus(w)
    \/ Ack(w) \/ ReleaseCapacity(w)
    \/ ResetForRetry(w, TRUE) \/ RepublishConfirmed(w) \/ AckRetried(w)
    \/ GiveUp(w, TRUE) \/ DeadLetter(w)

SlotFault(w) ==
    \/ CheckFails(w) \/ JudgeFails(w) \/ RunSystemError(w) \/ CommitReplyLost(w)
    \/ RunKilledByShutdown(w)
    \/ AckLost(w) \/ ReleaseCapacityFails(w)
    \/ ResetForRetry(w, FALSE) \/ RepublishFails(w) \/ GiveUp(w, FALSE)

----------------------------------------------------------------------------
(* Worker processes, the broker's redeliveries and the gate's TTL.          *)

\* The slot has changed the submission and has not brought it to an end.
Working(w) == pc[w] \in {"clear", "run", "final", "failed", "republish"}
Busy(w) == pc[w] \in {"check", "load"} \/ Working(w)

\* The connection dies under a live process, which never dials again: its
\* slots finish what they hold, their acks fail, and main waits for a signal.
LinkLost(p) ==
    /\ proc[p] # "down" /\ link[p] = "open"
    /\ link' = [link EXCEPT ![p] = "closed"]
    /\ Fault
    /\ UNCHANGED <<dbVars, capacity, brokerVars, reqVars, slotVars, proc, history>>

\* SIGTERM cancels the context that judging runs under; then main closes the
\* consumer and waits for the slots.
Sigterm(p) ==
    /\ proc[p] = "running"
    /\ proc' = [proc EXCEPT ![p] = "stopping"]
    /\ Fault
    /\ UNCHANGED <<dbVars, capacity, brokerVars, reqVars, slotVars, link, history>>

CloseConsumer(p) ==
    /\ proc[p] = "stopping" /\ link[p] = "open"
    /\ link' = [link EXCEPT ![p] = "closed"]
    /\ Fine
    /\ UNCHANGED <<dbVars, capacity, brokerVars, reqVars, slotVars, proc, history>>

Exit(p) ==
    /\ proc[p] = "stopping" /\ link[p] = "closed"
    /\ \A w \in SlotsOf(p) : pc[w] = "idle"
    /\ proc' = [proc EXCEPT ![p] = "down"]
    /\ Fine
    /\ UNCHANGED <<dbVars, capacity, brokerVars, reqVars, slotVars, link, history>>

Crash(p) ==
    /\ proc[p] # "down"
    /\ proc' = [proc EXCEPT ![p] = "down"]
    /\ link' = [link EXCEPT ![p] = "closed"]
    /\ pc' = [w \in Slots |-> IF Host[w] = p THEN "idle" ELSE pc[w]]
    /\ task' = [w \in Slots |-> IF Host[w] = p THEN NoTask ELSE task[w]]
    /\ verdict' = [w \in Slots |-> IF Host[w] = p THEN "none" ELSE verdict[w]]
    /\ abandoned' = abandoned \cup
          {SubOf(task[w]) : w \in {x \in SlotsOf(p) : Working(x) /\ unacked[x] = NoTask}}
    /\ leaked' = leaked \cup {task[w].token : w \in {x \in SlotsOf(p) : pc[x] = "release"}}
    /\ excused' = excused \cup {task[w].token : w \in {x \in SlotsOf(p) : pc[x] = "settle"}}
    /\ Fault
    /\ UNCHANGED <<dbVars, capacity, brokerVars, reqVars>>

\* A new process dials a new connection, once the broker is done with the
\* deliveries of the old one.
Restart(p) ==
    /\ proc[p] = "down"
    /\ \A w \in SlotsOf(p) : unacked[w] = NoTask
    /\ proc' = [proc EXCEPT ![p] = "running"]
    /\ link' = [link EXCEPT ![p] = "open"]
    /\ Fine
    /\ UNCHANGED <<dbVars, capacity, brokerVars, reqVars, slotVars, history>>

\* The broker requeues what a closed channel had not acknowledged, whether or
\* not the slot still works on it.
Redeliver(w) ==
    /\ ~Connected(w) /\ unacked[w] # NoTask
    /\ GiveBack(w)
    /\ excused' = IF pc[w] = "idle" THEN excused ELSE excused \cup {unacked[w].token}
    /\ Fine
    /\ UNCHANGED <<dbVars, capacity, reqVars, slotVars, procVars, abandoned, leaked>>

\* keepCapacityAlive renews the token while JudgeSubmission runs, until the
\* worker's context is cancelled.
Renewed(r) ==
    \E w \in Slots : /\ pc[w] \in {"load", "clear", "run", "final"}
                     /\ task[w].token = r
                     /\ proc[Host[w]] = "running"

\* The TTL of a token runs out: any script that reads the gate drops it.  Nobody
\* renews a token whose task waits in the queue; while its task is judged it is a
\* failure, of a renewal that came late or did not reach Redis (CapacityGate tells
\* when).
Expire(r) ==
    /\ r \in capacity
    /\ capacity' = capacity \ {r}
    /\ excused' = excused \cup {r}
    /\ IF Renewed(r) THEN Fault ELSE Fine
    /\ UNCHANGED <<dbVars, brokerVars, reqVars, slotVars, procVars, abandoned, leaked>>

----------------------------------------------------------------------------
(* History of contention: who may still write the status of a submission.   *)

\* A request that will publish or write, a copy in the queue, a delivery the
\* broker will hand out again, a slot that has not reached its end.
Parties(s) ==
    {<<"request", r>> : r \in {q \in Requests : reqPc[q] \in {"stored", "failed"} /\ Target[q] = s}}
    \cup {<<"queued", t>> : t \in {u \in Tasks : ready[u] > 0 /\ SubOf(u) = s}}
    \cup {<<"redelivery", w>> : w \in {x \in Slots : /\ ~Connected(x)
                                                     /\ unacked[x] # NoTask
                                                     /\ SubOf(unacked[x]) = s}}
    \cup {<<"slot", w>> : w \in {x \in Slots : Busy(x) /\ SubOf(task[x]) = s}}

\* A rejudge request decides to decrement by a status that is no longer there.
StaleRead(s) ==
    \E r \in Rejudges : /\ reqPc[r] \in {"picked", "admitted"} /\ Target[r] = s
                        /\ (seen[r] = "Accepted") # (status[s] = "Accepted")

\* A slot is about to retry or give up a submission whose verdict is stored.
LateCommit(s) ==
    \E w \in Slots : pc[w] = "failed" /\ SubOf(task[w]) = s /\ status[s] \in Terminal

Contended(s) ==
    \/ \E x, y \in Parties(s) : x # y
    \/ \E t \in Tasks : SubOf(t) = s /\ ready[t] > 1
    \/ StaleRead(s)
    \/ LateCommit(s)

Observe == raced' = raced \cup {s \in Submissions : Contended(s)'}

Step ==
    \/ \E r \in Requests : RequestStep(r) \/ RequestFault(r) \/ Expire(r)
    \/ ServerCrash(Submissions \cup Rejudges) \/ ServerCrash(Requeues)
    \/ \E w \in Slots : SlotStep(w) \/ SlotFault(w) \/ Redeliver(w)
    \/ \E p \in Workers : \/ LinkLost(p) \/ Sigterm(p) \/ CloseConsumer(p) \/ Exit(p)
                          \/ Crash(p) \/ Restart(p)

Next == Step /\ Observe

Spec == Init /\ [][Next]_vars

\* What the Go scheduler, the broker and the handlers do on their own.  Nobody
\* promises a restart, a signal or a second attempt of a client.
Fairness ==
    /\ \A r \in Requests : WF_stepVars(RequestStep(r))
    /\ \A w \in Slots : WF_stepVars(SlotStep(w)) /\ WF_stepVars(Redeliver(w))
    /\ \A p \in Workers : WF_stepVars(CloseConsumer(p)) /\ WF_stepVars(Exit(p))

FairSpec == Spec /\ Fairness

----------------------------------------------------------------------------
(* Properties.                                                             *)

RequestLabels == {"new", "picked", "admitted", "relist", "stored", "failed", "release", "done"}
SlotLabels == {"idle", "check", "load", "clear", "run", "final", "ack", "release", "failed",
               "republish", "settle", "reject"}

\* Every variable has its type: the database, the gate, the broker, the
\* requests, the slots and the worker processes.
TypeOK ==
    /\ status \in [Submissions -> Statuses]
    /\ rows \in [Submissions -> Nat]
    /\ acceptCount \in Nat
    /\ capacity \subseteq Requests
    /\ ready \in [Tasks -> Nat]
    /\ unacked \in [Slots -> Tasks \cup {NoTask}]
    /\ reqPc \in [Requests -> RequestLabels]
    /\ seen \in [Rejudges -> Statuses]
    /\ pc \in [Slots -> SlotLabels]
    /\ task \in [Slots -> Tasks \cup {NoTask}]
    /\ \A w \in Slots : (task[w] = NoTask) <=> (pc[w] = "idle")
    /\ verdict \in [Slots -> {"none"} \cup Verdicts]
    /\ proc \in [Workers -> {"running", "stopping", "down"}]
    /\ link \in [Workers -> {"open", "closed"}]
    /\ abandoned \subseteq Submissions /\ raced \subseteq Submissions
    /\ leaked \subseteq Requests /\ excused \subseteq Requests
    /\ faults \in 0 .. MaxFaults

\* What the broker holds for a slot is what the slot works on: a connected slot
\* has its delivery until it settles it, and retries carry the same token.
DeliveryAt(w) ==
    /\ proc[Host[w]] = "down" => pc[w] = "idle"
    /\ (Connected(w) /\ pc[w] \notin {"idle", "release"}) => unacked[w] # NoTask
    /\ (pc[w] # "idle" /\ unacked[w] # NoTask) => unacked[w].token = task[w].token

DeliveryInv == \A w \in Slots : DeliveryAt(w)

\* A copy of a task for s waits in the queue; a request will still publish one;
\* a slot works on s, or has a delivery for s that it will judge or that the
\* broker will hand out again.
Queued(s) == \E t \in Tasks : SubOf(t) = s /\ ready[t] > 0
Requested(s) == \E r \in Requests : reqPc[r] \in {"stored", "failed"} /\ Target[r] = s
Holds(w, s) ==
    \/ Working(w) /\ SubOf(task[w]) = s
    \/ /\ unacked[w] # NoTask /\ SubOf(unacked[w]) = s
       /\ ~Connected(w) \/ pc[w] \in {"check", "load"}

\* Somebody will still judge s, or bring it to an end.
Covered(s) == Queued(s) \/ Requested(s) \/ \E w \in Slots : Holds(w, s)

\* A Pending or Judging submission is never forgotten: a task for it is queued
\* or will be redelivered, a slot works on it, or its request has yet to
\* publish -- through lost connections, redeliveries, retries and worker
\* crashes.  The exceptions are exactly the failures that `abandoned` records.
NoLostTask ==
    \A s \in Submissions : status[s] \in Open => Covered(s) \/ s \in abandoned

\* The token r is on a task that is queued or that a slot has taken up; an
\* attempt that has been republished has handed its token on.
Carried(r) ==
    \/ \E t \in Tasks : t.token = r /\ ready[t] > 0
    \/ \E w \in Slots : unacked[w] # NoTask /\ unacked[w].token = r /\ pc[w] # "settle"
    \/ \E w \in Slots : Busy(w) /\ task[w].token = r

\* The gate counts what is in flight: a task in the queue or in a worker holds
\* its token, so no more than MaxInflight tasks are in flight, except tokens
\* that outlived their TTL, tasks published without a confirm and tasks the
\* broker delivered twice.
TokenCoversTask ==
    \A r \in Requests : Carried(r) => r \in capacity \/ r \in excused

\* No slot of the gate is lost: a token belongs to a request that has yet to
\* publish or release, to a task in flight, or to a slot about to release it.
NoTokenLeak ==
    \A r \in capacity : \/ HoldsAdmission(r) \/ Carried(r)
                        \/ \E w \in Slots : pc[w] # "idle" /\ task[w].token = r
                        \/ r \in leaked

\* The gate as its users see it.
Gate == INSTANCE AdmissionGate WITH Tokens <- Requests, Max <- MaxInflight, held <- capacity

\* However requests, retries, releases and expiries interleave, the pipeline
\* uses the gate as AdmissionGate promises it: no task goes around it.
PassesTheGate == Gate!Spec

\* accept_count is the number of accepted submissions, over retries, crashes,
\* redeliveries after the verdict and rejudges, as long as no two parties ever
\* worked on the same submission at once.
AcceptCountExact ==
    raced = {} => acceptCount = Cardinality({s \in Submissions : status[s] = "Accepted"})

\* The stored result rows are those of the run that gave the verdict: none is
\* left over from a failed attempt or from before a rejudge.
ResultsOfOneRun ==
    \A s \in Submissions \ raced :
        /\ status[s] \in Verdicts \ {"Compile Error"} => rows[s] = 1
        /\ status[s] \in {"none", "Compile Error"} => rows[s] = 0

\* A verdict changes only by a rejudge: a redelivered, retried or requeued task
\* never judges a finished submission again.
VerdictStable ==
    [][\A s \in Submissions :
          (status[s] \in Terminal /\ status'[s] # status[s]) =>
              \/ s \in raced'
              \/ \E r \in Rejudges : Target[r] = s /\ reqPc[r] = "admitted"
                                     /\ reqPc'[r] = "stored"]_vars

\* Every submission that is stored gets its verdict, and gets a new one after
\* each rejudge, unless a recorded failure abandoned it.
EventuallyJudged ==
    \A s \in Submissions :
        status[s] \in Open ~> (status[s] \in Terminal \/ s \in abandoned)

\* A Pending submission that the requeue tool has admitted is judged, also one
\* that a crash had left without a task, if nothing else fails from then on.
RequeueRecovers ==
    \A q \in Requeues :
        (reqPc[q] = "relist" /\ faults = MaxFaults) ~> status[Target[q]] \in Terminal

\* Every admitted request gives its slot of the gate back.
TokenReturned ==
    \A r \in Requests : r \in capacity ~> (r \notin capacity \/ r \in leaked)

\* "program exited with code" is stored for programs that exit with one: a
\* Runtime Error is an outcome of the program, not of the worker's shutdown.
RuntimeErrorIsThePrograms ==
    \A s \in Submissions : status[s] = "Runtime Error" => "Runtime Error" \in Outcomes
====

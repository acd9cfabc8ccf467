---- MODULE JudgePipelineProofs ----
(***************************************************************************)
(* Proofs about JudgePipeline for every number of submissions, rejudges,   *)
(* requeues, slots and worker processes, and for every MaxInflight,        *)
(* MaxRetries and MaxFaults.                                               *)
(*                                                                         *)
(* Types; then tokens: a task in flight holds its capacity token, and no   *)
(* token stays behind.                                                     *)
(*                                                                         *)
(* Verdicts: what the pipeline stores, which is the status, the result     *)
(* rows and the counter of accepted submissions.  Every step moves at most *)
(* one submission, in one of a few ways (RequestMove, SlotMove).  As long  *)
(* as nobody contends for a submission, the one party that works on it is  *)
(* the only one that can move it, and how far that party has come tells    *)
(* status and rows (Judged).                                               *)
(***************************************************************************)
EXTENDS JudgePipeline, FiniteSetTheorems, TLAPS

----------------------------------------------------------------------------
(* Types of the values the actions write.                                  *)

LEMMA TargetType == \A r \in Requests : Target[r] \in Submissions
BY RequestsAssumption

LEMMA HostType == \A w \in Slots : Host[w] \in Workers
BY WorkersAssumption

LEMMA SubOfType == \A t \in Tasks : SubOf(t) \in Submissions /\ t.token \in Requests
BY RequestsAssumption DEF SubOf, Tasks

LEMMA StatusValues ==
    /\ Open \subseteq Statuses /\ Verdicts \subseteq Statuses /\ Outcomes \subseteq Statuses
    /\ "none" \in Statuses /\ "Pending" \in Statuses /\ "Judging" \in Statuses
    /\ "System Error" \in Statuses /\ "Compile Error" \in Statuses
    /\ "Runtime Error" \in Statuses /\ Verdicts \subseteq Terminal /\ Outcomes \subseteq Terminal
    /\ "System Error" \in Terminal /\ "Compile Error" \in Terminal /\ "Runtime Error" \in Terminal
BY WorkersAssumption DEF Statuses, Open, Verdicts, Terminal

LEMMA FirstTaskType == \A r \in Requests : FirstTask(r) \in Tasks
BY BoundsAssumption DEF FirstTask, Tasks

LEMMA EnqueueType ==
    ASSUME ready \in [Tasks -> Nat], NEW t \in Tasks, Enqueue(t)
    PROVE  ready' \in [Tasks -> Nat]
BY DEF Enqueue

LEMMA ObserveType == TypeOK /\ Observe => raced' \subseteq Submissions
BY DEF TypeOK, Observe

----------------------------------------------------------------------------
(* Type correctness.                                                       *)

LEMMA InitTypeOK == Init => TypeOK
BY BoundsAssumption DEF Init, TypeOK, Statuses, Open, Terminal, Verdicts, RequestLabels, SlotLabels

LEMMA RequestTypeOK ==
    ASSUME TypeOK, raced' \subseteq Submissions, NEW r \in Requests,
           RequestStep(r) \/ RequestFault(r) \/ Expire(r)
    PROVE  TypeOK'
<1>. USE DEF TypeOK, RequestLabels, ReqGoto, Fine, Fault,
             dbVars, brokerVars, reqVars, slotVars, procVars, history
<1>1. CASE ReadForRejudge(r) BY <1>1, TargetType DEF ReadForRejudge
<1>2. CASE ListPending(r) BY <1>2 DEF ListPending
<1>3. CASE Acquire(r) BY <1>3 DEF Acquire
<1>4. CASE CreateSubmission(r) BY <1>4, StatusValues DEF CreateSubmission
<1>5. CASE ResetSubmission(r)
  <2>1. /\ status' \in [Submissions -> Statuses]
        /\ rows' \in [Submissions -> Nat]
        /\ reqPc' \in [Requests -> RequestLabels]
    BY <1>5, StatusValues DEF ResetSubmission
  <2>2. acceptCount' \in Nat
    <3>1. acceptCount \in Nat OBVIOUS
    <3>2. acceptCount' = IF seen[r] = "Accepted" /\ acceptCount > 0
                         THEN acceptCount - 1 ELSE acceptCount
      BY <1>5 DEF ResetSubmission
    <3>. QED BY ONLY <3>1, <3>2
  <2>. QED BY <1>5, <2>1, <2>2 DEF ResetSubmission
<1>6. CASE PublishConfirmed(r)
  <2>1. ready' \in [Tasks -> Nat] BY <1>6, FirstTaskType, EnqueueType DEF PublishConfirmed
  <2>. QED BY <1>6, <2>1 DEF PublishConfirmed
<1>7. CASE MarkPublishFailed(r) BY <1>7, StatusValues DEF MarkPublishFailed
<1>8. CASE ReleaseAdmission(r) BY <1>8 DEF ReleaseAdmission
<1>9. CASE AcquireReplyLost(r) BY <1>9, BoundsAssumption DEF AcquireReplyLost
<1>10. CASE StoreFails(r) BY <1>10, BoundsAssumption DEF StoreFails
<1>11. CASE PublishFails(r)
  <2>1. ready' \in [Tasks -> Nat] /\ excused' \subseteq Requests
    BY <1>11, FirstTaskType, EnqueueType DEF PublishFails
  <2>. QED BY <1>11, <2>1, BoundsAssumption DEF PublishFails
<1>12. CASE MarkPublishFailedFails(r)
  BY <1>12, TargetType, BoundsAssumption DEF MarkPublishFailedFails
<1>13. CASE ReleaseAdmissionFails(r) BY <1>13, BoundsAssumption DEF ReleaseAdmissionFails
<1>14. CASE Expire(r) BY <1>14, BoundsAssumption DEF Expire
<1>. QED BY <1>1, <1>2, <1>3, <1>4, <1>5, <1>6, <1>7, <1>8, <1>9, <1>10, <1>11, <1>12,
            <1>13, <1>14 DEF RequestStep, RequestFault

LEMMA ServerCrashTypeOK ==
    ASSUME TypeOK, raced' \subseteq Submissions, NEW R \in SUBSET Requests, ServerCrash(R)
    PROVE  TypeOK'
BY TargetType, BoundsAssumption
   DEF ServerCrash, HoldsAdmission, TypeOK, RequestLabels, Fault, dbVars, brokerVars, slotVars,
       procVars

LEMMA GiveBackType ==
    ASSUME ready \in [Tasks -> Nat], unacked \in [Slots -> Tasks \cup {NoTask}],
           NEW w \in Slots, unacked[w] # NoTask, GiveBack(w)
    PROVE  ready' \in [Tasks -> Nat] /\ unacked' \in [Slots -> Tasks \cup {NoTask}]
BY EnqueueType DEF GiveBack, Settle

\* A slot that is not idle has a task, about a submission.
LEMMA TaskOfSlot ==
    ASSUME TypeOK, NEW w \in Slots, pc[w] # "idle"
    PROVE  task[w] \in Tasks /\ SubOf(task[w]) \in Submissions /\ task[w].token \in Requests
BY SubOfType DEF TypeOK

LEMMA NextAttemptType ==
    ASSUME NEW t \in Tasks, t.attempt < MaxRetries
    PROVE  [t EXCEPT !.attempt = @ + 1] \in Tasks
BY BoundsAssumption DEF Tasks

\* Writing a status, and moving a slot that stays busy, keep the types.
LEMMA SetStatusType ==
    ASSUME TypeOK, NEW w \in Slots, pc[w] # "idle", NEW v \in Statuses, SetStatus(w, v)
    PROVE  status' \in [Submissions -> Statuses]
BY TaskOfSlot DEF SetStatus, TypeOK

LEMMA GotoType ==
    ASSUME TypeOK, NEW w \in Slots, pc[w] # "idle", NEW l \in SlotLabels, l # "idle",
           Goto(w, l), UNCHANGED task
    PROVE  /\ pc' \in [Slots -> SlotLabels]
           /\ \A x \in Slots : (task'[x] = NoTask) <=> (pc'[x] = "idle")
BY DEF Goto, TypeOK

LEMMA IdleType ==
    ASSUME TypeOK, NEW w \in Slots, Idle(w)
    PROVE  /\ pc' \in [Slots -> SlotLabels]
           /\ task' \in [Slots -> Tasks \cup {NoTask}]
           /\ \A x \in Slots : (task'[x] = NoTask) <=> (pc'[x] = "idle")
BY DEF Idle, Goto, TypeOK, SlotLabels

LEMMA RowsType ==
    ASSUME TypeOK, NEW w \in Slots, pc[w] # "idle", NEW n \in Nat,
           rows' = [rows EXCEPT ![SubOf(task[w])] = @ + n]
    PROVE  rows' \in [Submissions -> Nat]
<1>1. rows \in [Submissions -> Nat] BY DEF TypeOK
<1>2. SubOf(task[w]) \in Submissions BY TaskOfSlot
<1>. QED BY ONLY <1>1, <1>2, n \in Nat, rows' = [rows EXCEPT ![SubOf(task[w])] = @ + n]

LEMMA FaultType == TypeOK /\ Fault => faults' \in 0 .. MaxFaults
BY BoundsAssumption DEF TypeOK, Fault

LEMMA ConcludeType ==
    ASSUME TypeOK, NEW w \in Slots, pc[w] # "idle", NEW v \in Terminal, Conclude(w, v),
           UNCHANGED task
    PROVE  /\ status' \in [Submissions -> Statuses]
           /\ rows' \in [Submissions -> Nat]
           /\ verdict' \in [Slots -> {"none"} \cup Verdicts]
           /\ pc' \in [Slots -> SlotLabels]
           /\ \A x \in Slots : (task'[x] = NoTask) <=> (pc'[x] = "idle")
<1>1. CASE v \in {"Compile Error", "System Error"}
  <2>1. v \in Statuses BY <1>1, StatusValues
  <2>. QED BY <1>1, <2>1, SetStatusType, GotoType DEF Conclude, TypeOK, SlotLabels
<1>2. CASE v \notin {"Compile Error", "System Error"}
  <2>1. rows' \in [Submissions -> Nat] BY <1>2, RowsType DEF Conclude
  <2>2. verdict' \in [Slots -> {"none"} \cup Verdicts] BY <1>2 DEF Conclude, TypeOK, Terminal
  <2>. QED BY <1>2, <2>1, <2>2, GotoType DEF Conclude, TypeOK, SlotLabels
<1>. QED BY <1>1, <1>2

LEMMA RetryType ==
    ASSUME TypeOK, NEW w \in Slots, NEW written \in BOOLEAN, ResetForRetry(w, written)
    PROVE  /\ task' \in [Slots -> Tasks \cup {NoTask}]
           /\ pc' \in [Slots -> SlotLabels]
           /\ \A x \in Slots : (task'[x] = NoTask) <=> (pc'[x] = "idle")
           /\ status' \in [Submissions -> Statuses]
<1>1. task[w] \in Tasks /\ task[w].attempt < MaxRetries /\ pc[w] = "failed"
  BY TaskOfSlot DEF ResetForRetry, CanRetry
<1>2. task' = [task EXCEPT ![w] = [task[w] EXCEPT !.attempt = @ + 1]]
  BY DEF ResetForRetry, NextAttempt
<1>3. [task[w] EXCEPT !.attempt = @ + 1] \in Tasks BY <1>1, NextAttemptType
<1>4. pc' = [pc EXCEPT ![w] = "republish"] BY DEF ResetForRetry, Goto
<1>5. status' \in [Submissions -> Statuses]
  BY <1>1, StatusValues, SetStatusType DEF ResetForRetry, TypeOK
<1>. QED BY <1>1, <1>2, <1>3, <1>4, <1>5, NoTaskAssumption DEF TypeOK, SlotLabels

LEMMA SlotStepTypeOK ==
    ASSUME TypeOK, DeliveryInv, raced' \subseteq Submissions, NEW w \in Slots, SlotStep(w)
    PROVE  TypeOK'
<1>. USE DEF TypeOK, Fine, dbVars, brokerVars, reqVars, slotVars, procVars, history
<1>1. ASSUME NEW t \in Tasks, Receive(w, t) PROVE TypeOK'
  <2>1. ready' \in [Tasks -> Nat] BY <1>1 DEF Receive
  <2>. QED BY <1>1, <2>1, NoTaskAssumption DEF Receive, Goto, SlotLabels
<1>2. CASE CheckFinished(w) BY <1>2, GotoType DEF CheckFinished, SlotLabels
<1>3. CASE StartJudging(w)
  BY <1>3, StatusValues, SetStatusType, GotoType DEF StartJudging, SlotLabels
<1>4. CASE DeleteOldResults(w) BY <1>4, TaskOfSlot, GotoType DEF DeleteOldResults, SlotLabels
<1>5. CASE RunProgram(w) BY <1>5, StatusValues, ConcludeType DEF RunProgram
<1>6. CASE WriteFinalStatus(w)
  <2>1. status' \in [Submissions -> Statuses] BY <1>6, StatusValues, SetStatusType DEF WriteFinalStatus
  <2>2. acceptCount' \in Nat
    <3>1. acceptCount' = acceptCount + 1 \/ acceptCount' = acceptCount
      BY <1>6 DEF WriteFinalStatus
    <3>. QED BY <3>1
  <2>. QED BY <1>6, <2>1, <2>2, StatusValues, GotoType DEF WriteFinalStatus, SlotLabels
<1>7. CASE Ack(w) BY <1>7, GotoType, IdleType DEF Ack, Settle, SlotLabels
<1>8. CASE ReleaseCapacity(w) BY <1>8, IdleType DEF ReleaseCapacity
<1>9. CASE ResetForRetry(w, TRUE) BY <1>9, RetryType DEF ResetForRetry
<1>10. CASE RepublishConfirmed(w)
  <2>1. ready' \in [Tasks -> Nat] BY <1>10, TaskOfSlot, EnqueueType DEF RepublishConfirmed
  <2>. QED BY <1>10, <2>1, GotoType DEF RepublishConfirmed, SlotLabels
<1>11. CASE AckRetried(w) BY <1>11, TaskOfSlot, IdleType DEF AckRetried, Settle
<1>12. CASE GiveUp(w, TRUE) BY <1>12, StatusValues, SetStatusType, GotoType DEF GiveUp, SlotLabels
<1>13. CASE DeadLetter(w) BY <1>13, GotoType, IdleType DEF DeadLetter, Settle, SlotLabels
<1>. QED BY <1>1, <1>2, <1>3, <1>4, <1>5, <1>6, <1>7, <1>8, <1>9, <1>10, <1>11, <1>12,
            <1>13 DEF SlotStep

LEMMA SlotFaultTypeOK ==
    ASSUME TypeOK, DeliveryInv, raced' \subseteq Submissions, NEW w \in Slots, SlotFault(w)
    PROVE  TypeOK'
<1>. USE FaultType
     DEF TypeOK, Fine, dbVars, brokerVars, reqVars, slotVars, procVars, history
<1>1. CASE CheckFails(w)
  <2>1. ready' \in [Tasks -> Nat] /\ unacked' \in [Slots -> Tasks \cup {NoTask}]
    BY <1>1, GiveBackType DEF CheckFails, DeliveryInv, DeliveryAt
  <2>. QED BY <1>1, <2>1, IdleType DEF CheckFails
<1>2. CASE JudgeFails(w)
  <2>0. \E n \in {0, 1} : rows' = [rows EXCEPT ![SubOf(task[w])] = @ + n]
    BY <1>2 DEF JudgeFails
  <2>1. rows' \in [Submissions -> Nat] BY <1>2, <2>0, RowsType, 0 \in Nat, 1 \in Nat DEF JudgeFails
  <2>. QED BY <1>2, <2>1, StatusValues, GotoType DEF JudgeFails, SlotLabels
<1>3. CASE RunSystemError(w)
  <2>0. \E n \in {0, 1} : rows' = [rows EXCEPT ![SubOf(task[w])] = @ + n]
    BY <1>3 DEF RunSystemError
  <2>1. rows' \in [Submissions -> Nat]
    BY <1>3, <2>0, RowsType, 0 \in Nat, 1 \in Nat DEF RunSystemError
  <2>. QED BY <1>3, <2>1, StatusValues, SetStatusType, GotoType DEF RunSystemError, SlotLabels
<1>4. CASE CommitReplyLost(w)
  <2>1. status' \in [Submissions -> Statuses] BY <1>4, StatusValues, SetStatusType DEF CommitReplyLost
  <2>2. acceptCount' \in Nat
    <3>1. acceptCount' = acceptCount + 1 \/ acceptCount' = acceptCount
      BY <1>4 DEF CommitReplyLost
    <3>. QED BY <3>1
  <2>. QED BY <1>4, <2>1, <2>2, StatusValues, GotoType DEF CommitReplyLost, SlotLabels
<1>5. CASE RunKilledByShutdown(w)
  BY <1>5, StatusValues, ConcludeType DEF RunKilledByShutdown
<1>6. CASE AckLost(w) BY <1>6, HostType, TaskOfSlot, GotoType DEF AckLost, SlotLabels
<1>7. CASE ReleaseCapacityFails(w) BY <1>7, TaskOfSlot, IdleType DEF ReleaseCapacityFails
<1>8. CASE ResetForRetry(w, FALSE) BY <1>8, RetryType DEF ResetForRetry
<1>9. CASE RepublishFails(w)
  <2>1. ready' \in [Tasks -> Nat] /\ unacked' \in [Slots -> Tasks \cup {NoTask}]
    BY <1>9, TaskOfSlot DEF RepublishFails, DeliveryInv, DeliveryAt, Settle
  <2>2. excused' \subseteq Requests /\ abandoned' \subseteq Submissions
    BY <1>9, TaskOfSlot DEF RepublishFails
  <2>. QED BY <1>9, <2>1, <2>2, IdleType DEF RepublishFails
<1>10. CASE GiveUp(w, FALSE) BY <1>10, TaskOfSlot, GotoType DEF GiveUp, SlotLabels
<1>. QED BY <1>1, <1>2, <1>3, <1>4, <1>5, <1>6, <1>7, <1>8, <1>9, <1>10 DEF SlotFault

LEMMA ProcessTypeOK ==
    ASSUME TypeOK, raced' \subseteq Submissions, NEW p \in Workers,
           \/ LinkLost(p) \/ Sigterm(p) \/ CloseConsumer(p) \/ Exit(p) \/ Crash(p) \/ Restart(p)
    PROVE  TypeOK'
<1>. USE BoundsAssumption DEF TypeOK, Fault, Fine, dbVars, brokerVars, reqVars, slotVars,
                              procVars, history
<1>1. CASE LinkLost(p) BY <1>1 DEF LinkLost
<1>2. CASE Sigterm(p) BY <1>2 DEF Sigterm
<1>3. CASE CloseConsumer(p) BY <1>3 DEF CloseConsumer
<1>4. CASE Exit(p) BY <1>4 DEF Exit
<1>5. CASE Crash(p)
  <2>1. /\ abandoned' \subseteq Submissions
        /\ leaked' \subseteq Requests
        /\ excused' \subseteq Requests
    BY <1>5, TaskOfSlot DEF Crash, SlotsOf, Working
  <2>2. /\ pc' \in [Slots -> SlotLabels]
        /\ task' \in [Slots -> Tasks \cup {NoTask}]
        /\ \A w \in Slots : (task'[w] = NoTask) <=> (pc'[w] = "idle")
        /\ verdict' \in [Slots -> {"none"} \cup Verdicts]
    BY <1>5, StatusValues DEF Crash, SlotLabels
  <2>. QED BY <1>5, <2>1, <2>2 DEF Crash
<1>6. CASE Restart(p) BY <1>6 DEF Restart
<1>. QED BY <1>1, <1>2, <1>3, <1>4, <1>5, <1>6

LEMMA RedeliverTypeOK ==
    ASSUME TypeOK, raced' \subseteq Submissions, NEW w \in Slots, Redeliver(w)
    PROVE  TypeOK'
<1>1. ready' \in [Tasks -> Nat] /\ unacked' \in [Slots -> Tasks \cup {NoTask}]
  BY GiveBackType DEF Redeliver, TypeOK
<1>2. excused' \subseteq Requests BY SubOfType DEF Redeliver, TypeOK
<1>. QED BY <1>1, <1>2 DEF Redeliver, TypeOK, Fine, dbVars, reqVars, slotVars, procVars

----------------------------------------------------------------------------
(* The broker's delivery and the slot's task agree.                        *)

LEMMA RequestFrame ==
    ASSUME NEW r \in Requests, RequestStep(r) \/ RequestFault(r) \/ Expire(r)
    PROVE  UNCHANGED <<unacked, slotVars, procVars>>
BY DEF RequestStep, RequestFault, Expire, ReadForRejudge, ListPending, Acquire, CreateSubmission,
       ResetSubmission, PublishConfirmed, MarkPublishFailed, ReleaseAdmission, AcquireReplyLost,
       StoreFails, PublishFails, MarkPublishFailedFails, ReleaseAdmissionFails,
       brokerVars, slotVars, procVars

LEMMA DeliveryFrame ==
    DeliveryInv /\ UNCHANGED <<unacked, slotVars, procVars>> => DeliveryInv'
BY DEF DeliveryInv, DeliveryAt, Connected, slotVars, procVars

LEMMA SlotStepDelivery ==
    ASSUME TypeOK, DeliveryInv, NEW w \in Slots, SlotStep(w)
    PROVE  DeliveryInv'
<1>. SUFFICES ASSUME NEW x \in Slots PROVE DeliveryAt(x)'
  BY DEF DeliveryInv
<1>0. DeliveryAt(x) BY DEF DeliveryInv
<1>. USE DEF DeliveryAt, Connected, TypeOK, Goto, Idle, Settle, brokerVars, slotVars, procVars
<1>1. ASSUME NEW t \in Tasks, Receive(w, t) PROVE DeliveryAt(x)'
  BY <1>0, <1>1, NoTaskAssumption DEF Receive
<1>2. CASE CheckFinished(w) BY <1>0, <1>2 DEF CheckFinished
<1>3. CASE StartJudging(w) BY <1>0, <1>3 DEF StartJudging
<1>4. CASE DeleteOldResults(w) BY <1>0, <1>4 DEF DeleteOldResults
<1>5. CASE RunProgram(w) BY <1>0, <1>5 DEF RunProgram, Conclude
<1>6. CASE WriteFinalStatus(w) BY <1>0, <1>6 DEF WriteFinalStatus
<1>7. CASE Ack(w) BY <1>0, <1>7 DEF Ack
<1>8. CASE ReleaseCapacity(w) BY <1>0, <1>8 DEF ReleaseCapacity
<1>9. CASE ResetForRetry(w, TRUE) BY <1>0, <1>9, TaskOfSlot DEF ResetForRetry, NextAttempt, Tasks
<1>10. CASE RepublishConfirmed(w) BY <1>0, <1>10 DEF RepublishConfirmed
<1>11. CASE AckRetried(w) BY <1>0, <1>11 DEF AckRetried
<1>12. CASE GiveUp(w, TRUE) BY <1>0, <1>12 DEF GiveUp
<1>13. CASE DeadLetter(w) BY <1>0, <1>13 DEF DeadLetter
<1>. QED BY <1>1, <1>2, <1>3, <1>4, <1>5, <1>6, <1>7, <1>8, <1>9, <1>10, <1>11, <1>12,
            <1>13 DEF SlotStep

LEMMA SlotFaultDelivery ==
    ASSUME TypeOK, DeliveryInv, NEW w \in Slots, SlotFault(w)
    PROVE  DeliveryInv'
<1>. SUFFICES ASSUME NEW x \in Slots PROVE DeliveryAt(x)'
  BY DEF DeliveryInv
<1>0. DeliveryAt(x) /\ DeliveryAt(w) BY DEF DeliveryInv
<1>. USE DEF DeliveryAt, Connected, TypeOK, Goto, Idle, Settle, brokerVars, slotVars, procVars
<1>1. CASE CheckFails(w) BY <1>0, <1>1 DEF CheckFails, GiveBack
<1>2. CASE JudgeFails(w) BY <1>0, <1>2 DEF JudgeFails
<1>3. CASE RunSystemError(w) BY <1>0, <1>3 DEF RunSystemError
<1>4. CASE CommitReplyLost(w) BY <1>0, <1>4 DEF CommitReplyLost
<1>5. CASE RunKilledByShutdown(w) BY <1>0, <1>5 DEF RunKilledByShutdown, Conclude
<1>6. CASE AckLost(w) BY <1>0, <1>6, HostType DEF AckLost
<1>7. CASE ReleaseCapacityFails(w) BY <1>0, <1>7 DEF ReleaseCapacityFails
<1>8. CASE ResetForRetry(w, FALSE) BY <1>0, <1>8, TaskOfSlot DEF ResetForRetry, NextAttempt, Tasks
<1>9. CASE RepublishFails(w) BY <1>0, <1>9 DEF RepublishFails
<1>10. CASE GiveUp(w, FALSE) BY <1>0, <1>10 DEF GiveUp
<1>. QED BY <1>1, <1>2, <1>3, <1>4, <1>5, <1>6, <1>7, <1>8, <1>9, <1>10 DEF SlotFault

LEMMA ProcessDelivery ==
    ASSUME TypeOK, DeliveryInv, NEW p \in Workers,
           \/ LinkLost(p) \/ Sigterm(p) \/ CloseConsumer(p) \/ Exit(p) \/ Crash(p) \/ Restart(p)
    PROVE  DeliveryInv'
<1>. SUFFICES ASSUME NEW x \in Slots PROVE DeliveryAt(x)'
  BY DEF DeliveryInv
<1>0. DeliveryAt(x) BY DEF DeliveryInv
<1>. USE HostType DEF DeliveryAt, Connected, TypeOK, brokerVars, slotVars, procVars
<1>1. CASE LinkLost(p) BY <1>0, <1>1 DEF LinkLost
<1>2. CASE Sigterm(p) BY <1>0, <1>2 DEF Sigterm
<1>3. CASE CloseConsumer(p) BY <1>0, <1>3 DEF CloseConsumer
<1>4. CASE Exit(p) BY <1>0, <1>4 DEF Exit, SlotsOf
<1>5. CASE Crash(p) BY <1>0, <1>5 DEF Crash
<1>6. CASE Restart(p) BY <1>0, <1>6 DEF Restart, SlotsOf
<1>. QED BY <1>1, <1>2, <1>3, <1>4, <1>5, <1>6

LEMMA RedeliverDelivery ==
    ASSUME TypeOK, DeliveryInv, NEW w \in Slots, Redeliver(w)
    PROVE  DeliveryInv'
BY DEF DeliveryInv, DeliveryAt, Connected, TypeOK, Redeliver, GiveBack, Settle, slotVars, procVars

----------------------------------------------------------------------------
(* Type correctness and delivery are invariants together.                  *)

LEMMA ServerCrashDelivery ==
    ASSUME DeliveryInv, NEW R, ServerCrash(R) PROVE DeliveryInv'
BY DeliveryFrame DEF ServerCrash, brokerVars

LEMMA InitDelivery == Init => DeliveryInv
BY HostType DEF Init, DeliveryInv, DeliveryAt, Connected

LEMMA StepKeepsTypes ==
    TypeOK /\ DeliveryInv /\ [Next]_vars => TypeOK' /\ DeliveryInv'
<1>. SUFFICES ASSUME TypeOK, DeliveryInv, [Next]_vars PROVE TypeOK' /\ DeliveryInv'
  OBVIOUS
<1>1. CASE UNCHANGED vars
  <2>1. TypeOK'
    BY <1>1 DEF TypeOK, vars, stepVars, dbVars, brokerVars, reqVars, slotVars, procVars, history
  <2>2. UNCHANGED <<unacked, slotVars, procVars>>
    BY <1>1 DEF vars, stepVars, brokerVars
  <2>. QED BY <2>1, <2>2, DeliveryFrame
<1>2. CASE Next
  <2>0. Step /\ raced' \subseteq Submissions BY <1>2, ObserveType DEF Next
  <2>1. ASSUME NEW r \in Requests, RequestStep(r) \/ RequestFault(r) \/ Expire(r)
        PROVE  TypeOK' /\ DeliveryInv'
    BY <2>0, <2>1, RequestTypeOK, RequestFrame, DeliveryFrame
  <2>2. ASSUME NEW R \in SUBSET Requests, ServerCrash(R) PROVE TypeOK' /\ DeliveryInv'
    BY <2>0, <2>2, ServerCrashTypeOK, ServerCrashDelivery
  <2>3. ASSUME NEW w \in Slots, SlotStep(w) PROVE TypeOK' /\ DeliveryInv'
    BY <2>0, <2>3, SlotStepTypeOK, SlotStepDelivery
  <2>4. ASSUME NEW w \in Slots, SlotFault(w) PROVE TypeOK' /\ DeliveryInv'
    BY <2>0, <2>4, SlotFaultTypeOK, SlotFaultDelivery
  <2>5. ASSUME NEW w \in Slots, Redeliver(w) PROVE TypeOK' /\ DeliveryInv'
    BY <2>0, <2>5, RedeliverTypeOK, RedeliverDelivery
  <2>6. ASSUME NEW p \in Workers,
               \/ LinkLost(p) \/ Sigterm(p) \/ CloseConsumer(p) \/ Exit(p) \/ Crash(p) \/ Restart(p)
        PROVE  TypeOK' /\ DeliveryInv'
    BY <2>0, <2>6, ProcessTypeOK, ProcessDelivery
  <2>. QED BY <2>0, <2>1, <2>2, <2>3, <2>4, <2>5, <2>6 DEF Step, Requests
<1>. QED BY <1>1, <1>2

\* Every variable of the pipeline keeps its type in every reachable state, for
\* any number of requests, slots and worker processes.
THEOREM TypeCorrect == Spec => []TypeOK
<1>1. Init => TypeOK /\ DeliveryInv BY InitTypeOK, InitDelivery
<1>. QED BY <1>1, StepKeepsTypes, PTL DEF Spec

\* The broker's delivery is the slot's task: a slot whose process still has its
\* connection has, until it settles it, a delivery with the token of its task.
THEOREM DeliveryIsTask == Spec => []DeliveryInv
<1>1. Init => TypeOK /\ DeliveryInv BY InitTypeOK, InitDelivery
<1>. QED BY <1>1, StepKeepsTypes, PTL DEF Spec

----------------------------------------------------------------------------
(* No submission is lost: an action keeps what covers it, or hands the cover *)
(* on, or brings the submission to its end.                                 *)

Safe(s) == status[s] \in Open => Covered(s) \/ s \in abandoned

LEMMA QueuedFrame ==
    ASSUME NEW s \in Submissions, Queued(s), UNCHANGED ready PROVE Queued(s)'
BY DEF Queued

\* An enqueued task takes nothing away, and covers its own submission.
LEMMA EnqueueQueued ==
    ASSUME ready \in [Tasks -> Nat], NEW t \in Tasks, Enqueue(t), NEW s \in Submissions,
           Queued(s) \/ SubOf(t) = s
    PROVE  Queued(s)'
<1>1. \A u \in Tasks : ready'[u] = IF u = t THEN ready[u] + 1 ELSE ready[u]
  BY DEF Enqueue
<1>2. \A u \in Tasks : ready[u] \in Nat OBVIOUS
<1>3. \A u \in Tasks : ready[u] > 0 => ready'[u] > 0 BY ONLY <1>1, <1>2
<1>4. ready'[t] > 0 BY ONLY <1>1, <1>2, t \in Tasks
<1>5. CASE Queued(s) BY <1>3, <1>5 DEF Queued, SubOf
<1>6. CASE SubOf(t) = s BY <1>4, <1>6 DEF Queued, SubOf
<1>. QED BY <1>5, <1>6

\* A slot's step leaves alone what the other slots hold, and the requests.
LEMMA OthersFrame ==
    ASSUME TypeOK, NEW w \in Slots, SlotStep(w) \/ SlotFault(w) \/ Redeliver(w)
    PROVE  /\ \A x \in Slots \ {w} : /\ pc'[x] = pc[x] /\ task'[x] = task[x]
                                     /\ unacked'[x] = unacked[x]
           /\ \A x \in Slots : ~Connected(x) => ~Connected(x)'
           /\ UNCHANGED reqPc
<1>. USE DEF TypeOK, Goto, Idle, Settle, GiveBack, Conclude, NextAttempt, Connected, brokerVars,
             reqVars, slotVars, procVars
<1>1. CASE Redeliver(w) BY <1>1 DEF Redeliver
<1>2. CASE SlotStep(w)
  <2>1. ASSUME NEW t \in Tasks, Receive(w, t)
        PROVE  /\ \A x \in Slots \ {w} : /\ pc'[x] = pc[x] /\ task'[x] = task[x]
                                         /\ unacked'[x] = unacked[x]
               /\ UNCHANGED <<link, reqPc>>
    BY <2>1 DEF Receive
  <2>2. CASE CheckFinished(w) \/ StartJudging(w) \/ DeleteOldResults(w)
    BY <2>2 DEF CheckFinished, StartJudging, DeleteOldResults
  <2>3. CASE RunProgram(w) \/ WriteFinalStatus(w) \/ Ack(w) \/ ReleaseCapacity(w)
    BY <2>3 DEF RunProgram, WriteFinalStatus, Ack, ReleaseCapacity
  <2>4. CASE ResetForRetry(w, TRUE) \/ RepublishConfirmed(w) \/ AckRetried(w)
    BY <2>4 DEF ResetForRetry, RepublishConfirmed, AckRetried
  <2>5. CASE GiveUp(w, TRUE) \/ DeadLetter(w)
    BY <2>5 DEF GiveUp, DeadLetter
  <2>. QED BY <1>2, <2>1, <2>2, <2>3, <2>4, <2>5 DEF SlotStep
<1>3. CASE SlotFault(w)
  BY <1>3, HostType DEF SlotFault, CheckFails, JudgeFails, RunSystemError, CommitReplyLost,
              RunKilledByShutdown, AckLost, ReleaseCapacityFails, ResetForRetry,
              RepublishFails, GiveUp
<1>. QED BY <1>1, <1>2, <1>3

\* What stays covered: by another slot or by a request, when w steps.
LEMMA OthersCover ==
    ASSUME TypeOK, NEW w \in Slots, SlotStep(w) \/ SlotFault(w) \/ Redeliver(w),
           NEW s \in Submissions, Requested(s) \/ \E x \in Slots \ {w} : Holds(x, s)
    PROVE  Covered(s)'
<1>1. CASE Requested(s) BY <1>1, OthersFrame DEF Requested, Covered
<1>2. ASSUME NEW x \in Slots \ {w}, Holds(x, s) PROVE Covered(s)'
  <2>1. Holds(x, s)'
    BY <1>2, OthersFrame DEF Holds, Working, SubOf
  <2>. QED BY <2>1 DEF Covered
<1>. QED BY <1>1, <1>2

LEMMA RequestSafe ==
    ASSUME TypeOK, NEW r \in Requests, RequestStep(r) \/ RequestFault(r) \/ Expire(r),
           NEW s \in Submissions, Safe(s)
    PROVE  Safe(s)'
<1>. SUFFICES ASSUME status'[s] \in Open, s \notin abandoned' PROVE Covered(s)'
  BY DEF Safe
<1>h. \A w \in Slots : Holds(w, s) => Holds(w, s)'
  BY RequestFrame DEF Holds, Working, SubOf, Connected, slotVars, procVars
<1>s. ASSUME status[s] \in Open, s \notin abandoned,
             Requested(s) => Requested(s)' \/ Queued(s)',
             Queued(s) => Queued(s)'
      PROVE  Covered(s)'
  <2>1. Covered(s) BY <1>s DEF Safe
  <2>. QED BY <2>1, <1>s, <1>h DEF Covered
<1>. USE DEF ReqGoto, brokerVars, history, dbVars, reqVars
<1>1. CASE \/ ReadForRejudge(r) \/ ListPending(r) \/ Acquire(r)
           \/ AcquireReplyLost(r) \/ StoreFails(r)
  <2>1. UNCHANGED <<status, ready, abandoned>>
    BY <1>1 DEF ReadForRejudge, ListPending, Acquire, AcquireReplyLost, StoreFails
  <2>2. Requested(s) => Requested(s)'
    BY <1>1 DEF ReadForRejudge, ListPending, Acquire, AcquireReplyLost, StoreFails,
                ReadyToAcquire, Requested, TypeOK
  <2>. QED BY <2>1, <2>2, <1>s, QueuedFrame
<1>2. CASE CreateSubmission(r) \/ ResetSubmission(r)
  <2>1. CASE s = Target[r]
    <3>1. Requested(s)'
      BY <1>2, <2>1, RequestsAssumption DEF CreateSubmission, ResetSubmission, Requested, TypeOK
    <3>. QED BY <3>1 DEF Covered
  <2>2. CASE s # Target[r]
    <3>1. status[s] \in Open /\ s \notin abandoned
      BY <1>2, <2>2, RequestsAssumption DEF CreateSubmission, ResetSubmission, TypeOK
    <3>2. Requested(s) => Requested(s)'
      BY <1>2 DEF CreateSubmission, ResetSubmission, Requested, TypeOK
    <3>3. Queued(s) => Queued(s)'
      BY <1>2, QueuedFrame DEF CreateSubmission, ResetSubmission
    <3>. QED BY <3>1, <3>2, <3>3, <1>s
  <2>. QED BY <2>1, <2>2
<1>3. CASE PublishConfirmed(r)
  <2>1. status[s] \in Open /\ s \notin abandoned BY <1>3 DEF PublishConfirmed
  <2>2. Queued(s) \/ Target[r] = s => Queued(s)'
    BY <1>3, FirstTaskType, EnqueueQueued DEF PublishConfirmed, TypeOK, FirstTask, SubOf
  <2>3. Requested(s) => Requested(s)' \/ Target[r] = s
    BY <1>3 DEF PublishConfirmed, Requested, TypeOK
  <2>. QED BY <2>1, <2>2, <2>3, <1>s
<1>4. CASE PublishFails(r)
  <2>1. status[s] \in Open /\ s \notin abandoned BY <1>4 DEF PublishFails
  <2>2. Queued(s) => Queued(s)'
    BY <1>4, QueuedFrame, FirstTaskType, EnqueueQueued DEF PublishFails, TypeOK
  <2>3. Requested(s) => Requested(s)' BY <1>4 DEF PublishFails, Requested, TypeOK
  <2>. QED BY <2>1, <2>2, <2>3, <1>s
<1>5. CASE MarkPublishFailed(r) \/ MarkPublishFailedFails(r)
  <2>1. s # Target[r]
    BY <1>5, TargetType
       DEF MarkPublishFailed, MarkPublishFailedFails, TypeOK, Open
  <2>2. status[s] \in Open /\ s \notin abandoned
    BY <1>5, <2>1 DEF MarkPublishFailed, MarkPublishFailedFails, TypeOK
  <2>3. Requested(s) => Requested(s)'
    BY <1>5, <2>1 DEF MarkPublishFailed, MarkPublishFailedFails, Requested, TypeOK
  <2>4. Queued(s) => Queued(s)'
    BY <1>5, QueuedFrame DEF MarkPublishFailed, MarkPublishFailedFails
  <2>. QED BY <2>2, <2>3, <2>4, <1>s
<1>6. CASE ReleaseAdmission(r) \/ ReleaseAdmissionFails(r) \/ Expire(r)
  <2>1. UNCHANGED <<status, ready, abandoned>>
    BY <1>6 DEF ReleaseAdmission, ReleaseAdmissionFails, Expire
  <2>2. Requested(s) => Requested(s)'
    BY <1>6 DEF ReleaseAdmission, ReleaseAdmissionFails, Expire, Requested, TypeOK
  <2>. QED BY <2>1, <2>2, <1>s, QueuedFrame
<1>. QED BY <1>1, <1>2, <1>3, <1>4, <1>5, <1>6 DEF RequestStep, RequestFault

\* A server that dies abandons what its requests would still have published.
LEMMA ServerCrashSafe ==
    ASSUME TypeOK, NEW R \in SUBSET Requests, ServerCrash(R), NEW s \in Submissions, Safe(s)
    PROVE  Safe(s)'
<1>. SUFFICES ASSUME status'[s] \in Open, s \notin abandoned' PROVE Covered(s)'
  BY DEF Safe
<1>1. Covered(s) BY DEF Safe, ServerCrash, dbVars
<1>2. Requested(s) => Requested(s)' BY DEF ServerCrash, Requested, TypeOK
<1>3. Queued(s) => Queued(s)' BY QueuedFrame DEF ServerCrash, brokerVars
<1>4. \A w \in Slots : Holds(w, s) => Holds(w, s)'
  BY DEF ServerCrash, Holds, Working, SubOf, Connected, brokerVars, slotVars, procVars
<1>. QED BY <1>1, <1>2, <1>3, <1>4 DEF Covered

LEMMA SameSubmission ==
    ASSUME DeliveryInv, NEW w \in Slots, pc[w] # "idle", unacked[w] # NoTask
    PROVE  SubOf(unacked[w]) = SubOf(task[w])
BY DEF DeliveryInv, DeliveryAt, SubOf

\* The slot's step keeps s covered if it keeps the queue and its own hold on s.
LEMMA SlotKeeps ==
    ASSUME TypeOK, NEW w \in Slots, SlotStep(w) \/ SlotFault(w) \/ Redeliver(w),
           NEW s \in Submissions, Safe(s), status[s] \in Open, s \notin abandoned,
           Queued(s) => Queued(s)' \/ Holds(w, s)', Holds(w, s) => Holds(w, s)' \/ Queued(s)'
    PROVE  Covered(s)'
<1>1. Covered(s) BY DEF Safe
<1>2. CASE Requested(s) \/ \E x \in Slots \ {w} : Holds(x, s) BY <1>2, OthersCover
<1>3. CASE Queued(s) \/ Holds(w, s) BY <1>3 DEF Covered
<1>. QED BY <1>1, <1>2, <1>3 DEF Covered

LEMMA ConcludeCovers ==
    ASSUME TypeOK, DeliveryInv, NEW w \in Slots, SlotStep(w) \/ SlotFault(w), pc[w] = "run",
           NEW v \in Terminal, Conclude(w, v), UNCHANGED <<brokerVars, task, procVars, history>>,
           NEW s \in Submissions, Safe(s), status'[s] \in Open, s \notin abandoned'
    PROVE  Covered(s)'
<1>. USE DEF Goto, Connected, brokerVars, slotVars, procVars, history
<1>1. status[s] \in Open /\ s \notin abandoned
      /\ (SubOf(task[w]) = s => v \notin {"Compile Error", "System Error"})
  BY TaskOfSlot DEF Conclude, SetStatus, TypeOK, Open, Terminal, Verdicts
<1>2. Queued(s) => Queued(s)' BY QueuedFrame
<1>3. Holds(w, s) => Holds(w, s)'
  BY <1>1, SameSubmission DEF Conclude, Holds, Working, TypeOK, SubOf
<1>. QED BY <1>1, <1>2, <1>3, SlotKeeps

LEMMA SlotStepSafe ==
    ASSUME TypeOK, DeliveryInv, NEW w \in Slots, SlotStep(w), NEW s \in Submissions, Safe(s)
    PROVE  Safe(s)'
<1>. SUFFICES ASSUME status'[s] \in Open, s \notin abandoned' PROVE Covered(s)'
  BY DEF Safe
<1>. USE DEF Goto, Idle, Settle, Connected, brokerVars, slotVars, procVars, dbVars, history
<1>1. ASSUME NEW t \in Tasks, Receive(w, t) PROVE Covered(s)'
  <2>1. status[s] \in Open /\ s \notin abandoned BY <1>1 DEF Receive
  <2>2. ~Holds(w, s) BY <1>1 DEF Receive, Holds, Working
  <2>3. Queued(s) => Queued(s)' \/ Holds(w, s)'
    <3>1. CASE SubOf(t) = s
      BY <1>1, <3>1, NoTaskAssumption DEF Receive, Holds, TypeOK, SubOf
    <3>2. CASE SubOf(t) # s
      BY <1>1, <3>2 DEF Receive, Queued, TypeOK, SubOf
    <3>. QED BY <3>1, <3>2
  <2>. QED BY <2>1, <2>2, <2>3, SlotKeeps
<1>2. CASE CheckFinished(w)
  <2>1. status[s] \in Open /\ s \notin abandoned BY <1>2 DEF CheckFinished
  <2>2. Queued(s) => Queued(s)' BY <1>2, QueuedFrame DEF CheckFinished
  <2>3. Holds(w, s) => Holds(w, s)'
    BY <1>2, <2>1, SameSubmission DEF CheckFinished, Holds, Working, TypeOK, SubOf
  <2>. QED BY <2>1, <2>2, <2>3, SlotKeeps
<1>3. CASE StartJudging(w)
  <2>1. Queued(s) => Queued(s)' BY <1>3, QueuedFrame DEF StartJudging
  <2>2. CASE s = SubOf(task[w])
    <3>1. Working(w)' /\ SubOf(task[w])' = s
      BY <1>3, <2>2 DEF StartJudging, SetStatus, Working, TypeOK, SubOf, Open
    <3>. QED BY <3>1 DEF Covered, Holds
  <2>3. CASE s # SubOf(task[w])
    <3>1. status[s] \in Open /\ s \notin abandoned
      BY <1>3, <2>3 DEF StartJudging, SetStatus, TypeOK
    <3>2. Holds(w, s) => Holds(w, s)'
      BY <1>3, <2>3, SameSubmission DEF StartJudging, Holds, Working, TypeOK, SubOf
    <3>. QED BY <2>1, <3>1, <3>2, SlotKeeps
  <2>. QED BY <2>2, <2>3
<1>4. CASE DeleteOldResults(w)
  <2>1. status[s] \in Open /\ s \notin abandoned BY <1>4 DEF DeleteOldResults
  <2>2. Queued(s) => Queued(s)' BY <1>4, QueuedFrame DEF DeleteOldResults
  <2>3. Holds(w, s) => Holds(w, s)'
    BY <1>4 DEF DeleteOldResults, Holds, Working, TypeOK, SubOf
  <2>. QED BY <2>1, <2>2, <2>3, SlotKeeps
<1>6. CASE RunProgram(w) BY <1>6, ConcludeCovers, StatusValues DEF RunProgram
<1>7. CASE WriteFinalStatus(w)
  <2>1. s # SubOf(task[w])
    BY <1>7, TaskOfSlot DEF WriteFinalStatus, SetStatus, TypeOK, Open, Verdicts
  <2>2. status[s] \in Open /\ s \notin abandoned
    BY <1>7, <2>1 DEF WriteFinalStatus, SetStatus, TypeOK
  <2>3. Queued(s) => Queued(s)' BY <1>7, QueuedFrame DEF WriteFinalStatus
  <2>4. Holds(w, s) => Holds(w, s)'
    BY <1>7, <2>1, SameSubmission DEF WriteFinalStatus, Holds, Working, TypeOK, SubOf
  <2>. QED BY <2>2, <2>3, <2>4, SlotKeeps
<1>8. CASE Ack(w) \/ ReleaseCapacity(w) \/ AckRetried(w) \/ DeadLetter(w)
  <2>1. status[s] \in Open /\ s \notin abandoned
    BY <1>8 DEF Ack, ReleaseCapacity, AckRetried, DeadLetter
  <2>2. Queued(s) => Queued(s)'
    BY <1>8, QueuedFrame DEF Ack, ReleaseCapacity, AckRetried, DeadLetter
  <2>3. Holds(w, s) => Holds(w, s)'
    BY <1>8 DEF Ack, ReleaseCapacity, AckRetried, DeadLetter, Holds, Working, SubOf
  <2>. QED BY <2>1, <2>2, <2>3, SlotKeeps
<1>9. CASE ResetForRetry(w, TRUE)
  <2>1. Working(w)' /\ SubOf(task[w])' = SubOf(task[w]) /\ Working(w)
    BY <1>9, TaskOfSlot DEF ResetForRetry, NextAttempt, Working, TypeOK, SubOf, Tasks
  <2>2. CASE s = SubOf(task[w]) BY <2>1, <2>2 DEF Covered, Holds
  <2>3. CASE s # SubOf(task[w])
    <3>1. status[s] \in Open /\ s \notin abandoned
      BY <1>9, <2>3 DEF ResetForRetry, SetStatus, TypeOK
    <3>2. Queued(s) => Queued(s)' BY <1>9, QueuedFrame DEF ResetForRetry
    <3>3. Holds(w, s) => Holds(w, s)'
      BY <1>9, <2>1, <2>3 DEF ResetForRetry, Holds, SubOf
    <3>. QED BY <3>1, <3>2, <3>3, SlotKeeps
  <2>. QED BY <2>2, <2>3
<1>10. CASE RepublishConfirmed(w)
  <2>1. status[s] \in Open /\ s \notin abandoned BY <1>10 DEF RepublishConfirmed
  <2>2. Queued(s) \/ SubOf(task[w]) = s => Queued(s)'
    BY <1>10, TaskOfSlot, EnqueueQueued DEF RepublishConfirmed, TypeOK
  <2>3. Holds(w, s) => Holds(w, s)' \/ SubOf(task[w]) = s
    BY <1>10 DEF RepublishConfirmed, Holds, SubOf
  <2>. QED BY <2>1, <2>2, <2>3, SlotKeeps
<1>11. CASE GiveUp(w, TRUE)
  <2>1. s # SubOf(task[w]) BY <1>11, TaskOfSlot DEF GiveUp, SetStatus, TypeOK, Open
  <2>2. status[s] \in Open /\ s \notin abandoned
    BY <1>11, <2>1 DEF GiveUp, SetStatus, TypeOK
  <2>3. Queued(s) => Queued(s)' BY <1>11, QueuedFrame DEF GiveUp
  <2>4. Holds(w, s) => Holds(w, s)'
    BY <1>11, <2>1 DEF GiveUp, Holds, Working, SubOf
  <2>. QED BY <2>2, <2>3, <2>4, SlotKeeps
<1>. QED BY <1>1, <1>2, <1>3, <1>4, <1>6, <1>7, <1>8, <1>9, <1>10, <1>11 DEF SlotStep

LEMMA GiveBackCovers ==
    ASSUME TypeOK, NEW w \in Slots, unacked[w] # NoTask, GiveBack(w), NEW s \in Submissions,
           Queued(s) \/ SubOf(unacked[w]) = s
    PROVE  Queued(s)'
BY EnqueueQueued DEF GiveBack, TypeOK

LEMMA SlotFaultSafe ==
    ASSUME TypeOK, DeliveryInv, NEW w \in Slots, SlotFault(w), NEW s \in Submissions, Safe(s)
    PROVE  Safe(s)'
<1>. SUFFICES ASSUME status'[s] \in Open, s \notin abandoned' PROVE Covered(s)'
  BY DEF Safe
<1>. USE DEF Goto, Idle, Settle, Connected, brokerVars, slotVars, procVars, dbVars, history
<1>1. CASE CheckFails(w)
  <2>1. status[s] \in Open /\ s \notin abandoned BY <1>1 DEF CheckFails
  <2>2. CASE Connected(w)
    <3>1. unacked[w] # NoTask BY <1>1, <2>2 DEF CheckFails, DeliveryInv, DeliveryAt
    <3>2. Queued(s) => Queued(s)' BY <1>1, <2>2, <3>1, GiveBackCovers DEF CheckFails
    <3>3. Holds(w, s) => Queued(s)'
      BY <1>1, <2>2, <3>1, GiveBackCovers DEF CheckFails, Holds, Working
    <3>. QED BY <2>1, <3>2, <3>3, SlotKeeps
  <2>3. CASE ~Connected(w)
    <3>1. Queued(s) => Queued(s)' BY <1>1, <2>3, QueuedFrame DEF CheckFails
    <3>2. Holds(w, s) => Holds(w, s)' BY <1>1, <2>3 DEF CheckFails, Holds, Working, SubOf
    <3>. QED BY <2>1, <3>1, <3>2, SlotKeeps
  <2>. QED BY <2>2, <2>3
<1>2. CASE JudgeFails(w)
  <2>1. status[s] \in Open /\ s \notin abandoned BY <1>2 DEF JudgeFails
  <2>2. Queued(s) => Queued(s)' BY <1>2, QueuedFrame DEF JudgeFails
  <2>3. Holds(w, s) => Holds(w, s)'
    BY <1>2, SameSubmission DEF JudgeFails, Holds, Working, TypeOK, SubOf
  <2>. QED BY <2>1, <2>2, <2>3, SlotKeeps
<1>3. CASE RunSystemError(w) \/ CommitReplyLost(w)
  <2>1. s # SubOf(task[w])
    BY <1>3, TaskOfSlot DEF RunSystemError, CommitReplyLost, SetStatus, TypeOK, Open, Verdicts
  <2>2. status[s] \in Open /\ s \notin abandoned
    BY <1>3, <2>1 DEF RunSystemError, CommitReplyLost, SetStatus, TypeOK
  <2>3. Queued(s) => Queued(s)'
    BY <1>3, QueuedFrame DEF RunSystemError, CommitReplyLost
  <2>4. Holds(w, s) => Holds(w, s)'
    BY <1>3, <2>1, SameSubmission DEF RunSystemError, CommitReplyLost, Holds, Working, SubOf
  <2>. QED BY <2>2, <2>3, <2>4, SlotKeeps
<1>4. CASE RunKilledByShutdown(w)
  BY <1>4, ConcludeCovers, StatusValues DEF RunKilledByShutdown
<1>5. CASE AckLost(w) \/ ReleaseCapacityFails(w)
  <2>1. status[s] \in Open /\ s \notin abandoned BY <1>5 DEF AckLost, ReleaseCapacityFails
  <2>2. Queued(s) => Queued(s)' BY <1>5, QueuedFrame DEF AckLost, ReleaseCapacityFails
  <2>3. Holds(w, s) => Holds(w, s)'
    BY <1>5 DEF AckLost, ReleaseCapacityFails, Holds, Working, SubOf
  <2>. QED BY <2>1, <2>2, <2>3, SlotKeeps
<1>6. CASE ResetForRetry(w, FALSE)
  <2>1. Working(w)' /\ SubOf(task[w])' = SubOf(task[w]) /\ Working(w)
    BY <1>6, TaskOfSlot DEF ResetForRetry, NextAttempt, Working, TypeOK, SubOf, Tasks
  <2>2. status[s] \in Open /\ s \notin abandoned BY <1>6 DEF ResetForRetry
  <2>3. Queued(s) => Queued(s)' BY <1>6, QueuedFrame DEF ResetForRetry
  <2>4. Holds(w, s) => Holds(w, s)' BY <1>6, <2>1 DEF ResetForRetry, Holds, SubOf
  <2>. QED BY <2>2, <2>3, <2>4, SlotKeeps
<1>7. CASE RepublishFails(w)
  <2>1. status[s] \in Open /\ s \notin abandoned BY <1>7 DEF RepublishFails
  <2>2. \A u \in Tasks : ready[u] > 0 => ready'[u] > 0
    BY <1>7, TaskOfSlot DEF RepublishFails, TypeOK, DeliveryInv, DeliveryAt
  <2>3. Queued(s) => Queued(s)' BY <2>2 DEF Queued, SubOf
  <2>4. CASE Connected(w)
    <3>1. unacked[w] \in Tasks /\ unacked[w] # NoTask
      BY <1>7, <2>4 DEF RepublishFails, DeliveryInv, DeliveryAt, TypeOK
    <3>2. ready'[unacked[w]] > 0
      BY <1>7, <2>4, <3>1, TaskOfSlot DEF RepublishFails, TypeOK
    <3>3. SubOf(unacked[w]) = s => Queued(s)' BY <3>1, <3>2 DEF Queued, SubOf
    <3>4. Holds(w, s) => SubOf(unacked[w]) = s
      BY <1>7, <2>4, <3>1, SameSubmission DEF RepublishFails, Holds
    <3>. QED BY <2>1, <2>3, <3>3, <3>4, SlotKeeps
  <2>5. CASE ~Connected(w)
    <3>1. UNCHANGED <<unacked, link>> BY <1>7, <2>5 DEF RepublishFails
    <3>2. Holds(w, s) => Holds(w, s)'
      BY <1>7, <2>5, <3>1, SameSubmission DEF RepublishFails, Holds, SubOf
    <3>. QED BY <2>1, <2>3, <3>2, SlotKeeps
  <2>. QED BY <2>4, <2>5
<1>8. CASE GiveUp(w, FALSE)
  <2>1. s # SubOf(task[w]) BY <1>8 DEF GiveUp
  <2>2. status[s] \in Open /\ s \notin abandoned BY <1>8 DEF GiveUp
  <2>3. Queued(s) => Queued(s)' BY <1>8, QueuedFrame DEF GiveUp
  <2>4. Holds(w, s) => Holds(w, s)' BY <1>8, <2>1 DEF GiveUp, Holds, Working, SubOf
  <2>. QED BY <2>2, <2>3, <2>4, SlotKeeps
<1>. QED BY <1>1, <1>2, <1>3, <1>4, <1>5, <1>6, <1>7, <1>8 DEF SlotFault

LEMMA RedeliverSafe ==
    ASSUME TypeOK, NEW w \in Slots, Redeliver(w), NEW s \in Submissions, Safe(s)
    PROVE  Safe(s)'
<1>. SUFFICES ASSUME status'[s] \in Open, s \notin abandoned' PROVE Covered(s)'
  BY DEF Safe
<1>1. status[s] \in Open /\ s \notin abandoned BY DEF Redeliver, dbVars
<1>2. Queued(s) \/ SubOf(unacked[w]) = s => Queued(s)' BY GiveBackCovers DEF Redeliver
<1>3. Holds(w, s) => Holds(w, s)' \/ SubOf(unacked[w]) = s
  BY DEF Redeliver, Holds, Working, SubOf, slotVars
<1>. QED BY <1>1, <1>2, <1>3, SlotKeeps

LEMMA ProcessSafe ==
    ASSUME TypeOK, DeliveryInv, NEW p \in Workers,
           \/ LinkLost(p) \/ Sigterm(p) \/ CloseConsumer(p) \/ Exit(p) \/ Crash(p) \/ Restart(p),
           NEW s \in Submissions, Safe(s)
    PROVE  Safe(s)'
<1>. SUFFICES ASSUME status'[s] \in Open, s \notin abandoned' PROVE Covered(s)'
  BY DEF Safe
<1>. USE DEF brokerVars, slotVars, procVars, dbVars, reqVars, history
<1>1. /\ status[s] \in Open /\ s \notin abandoned
      /\ UNCHANGED <<ready, unacked, reqPc>>
  BY DEF LinkLost, Sigterm, CloseConsumer, Exit, Crash, Restart
<1>2. Covered(s) BY <1>1 DEF Safe
<1>3. Queued(s) \/ Requested(s) => Covered(s)'
  BY <1>1 DEF Queued, Requested, Covered
<1>4. ASSUME NEW x \in Slots, Holds(x, s) PROVE Holds(x, s)'
  <2>. USE <1>1, <1>4, HostType DEF Connected, TypeOK
  <2>1. CASE LinkLost(p) \/ Sigterm(p) \/ CloseConsumer(p) \/ Exit(p)
    BY <2>1 DEF LinkLost, Sigterm, CloseConsumer, Exit, Holds, Working, SubOf
  <2>2. CASE Crash(p)
    <3>1. CASE Host[x] # p BY <2>2, <3>1 DEF Crash, Holds, Working, SubOf
    <3>2. CASE Host[x] = p
      <4>1. ~Connected(x)' /\ unacked'[x] = unacked[x] BY <2>2, <3>2 DEF Crash
      <4>2. unacked[x] # NoTask
        BY <2>2, <3>2 DEF Crash, Holds, SlotsOf
      <4>3. SubOf(unacked[x]) = s
        BY <4>2, SameSubmission DEF Holds, Working
      <4>. QED BY <4>1, <4>2, <4>3 DEF Holds, SubOf
    <3>. QED BY <3>1, <3>2
  <2>3. CASE Restart(p)
    BY <2>3 DEF Restart, SlotsOf, Holds, Working, SubOf, DeliveryInv, DeliveryAt
  <2>. QED BY <2>1, <2>2, <2>3
<1>. QED BY <1>2, <1>3, <1>4 DEF Covered

\* No submission that is Pending or Judging is forgotten, for any number of
\* requests, slots, worker processes, retries and failures: a task for it is
\* queued, will be redelivered or is in a worker's hands, or its request has yet
\* to publish, unless one of the failures `abandoned` records left it behind.
THEOREM NoTaskIsLost == Spec => []NoLostTask
<1>1. Init => TypeOK /\ DeliveryInv /\ NoLostTask
  BY InitTypeOK, InitDelivery DEF Init, NoLostTask, Open
<1>2. TypeOK /\ DeliveryInv /\ NoLostTask /\ [Next]_vars => NoLostTask'
  <2>. SUFFICES ASSUME TypeOK, DeliveryInv, NoLostTask, [Next]_vars, NEW s \in Submissions
                PROVE  Safe(s)'
    BY DEF NoLostTask, Safe
  <2>1. Safe(s) BY DEF NoLostTask, Safe
  <2>2. CASE UNCHANGED vars
    BY <2>1, <2>2 DEF Safe, Covered, Queued, Requested, Holds, Working, SubOf, Connected, vars,
                      stepVars, dbVars, brokerVars, reqVars, slotVars, procVars, history
  <2>3. CASE Next
    <3>1. Step BY <2>3 DEF Next
    <3>2. ASSUME NEW R \in SUBSET Requests, ServerCrash(R) PROVE Safe(s)'
      BY <2>1, <3>2, ServerCrashSafe
    <3>3. Submissions \cup Rejudges \in SUBSET Requests /\ Requeues \in SUBSET Requests
      BY DEF Requests
    <3>. QED BY <2>1, <3>1, <3>2, <3>3, RequestSafe, SlotStepSafe, SlotFaultSafe, RedeliverSafe,
                ProcessSafe DEF Step
  <2>. QED BY <2>2, <2>3
<1>. QED BY <1>1, <1>2, StepKeepsTypes, PTL DEF Spec

\* The pipeline implements the abstract gate, for any number of requests and
\* places: every request, worker or failure drops tokens, or admits one of its
\* own while there is a place.
THEOREM ImplementsGate == Spec => PassesTheGate
<1>1. Init => Gate!Init BY DEF Init, Gate!Init
<1>2. ASSUME [Next]_vars PROVE [Gate!Next]_capacity
  <2>. USE DEF stepVars, history, dbVars, brokerVars, reqVars, slotVars, procVars
  <2>1. ASSUME capacity' \subseteq capacity PROVE Gate!Next
    <3>1. capacity' = capacity \ (capacity \ capacity') BY <2>1
    <3>. QED BY <3>1 DEF Gate!Next, Gate!Drop
  <2>2. ASSUME NEW r \in Requests, capacity' = capacity \cup {r}, Cardinality(capacity) < MaxInflight
        PROVE  [Gate!Next]_capacity
    <3>1. CASE r \in capacity BY <2>2, <3>1
    <3>2. CASE r \notin capacity
      <4>1. Gate!Admit(r, {}) BY <2>2, <3>2 DEF Gate!Admit, Gate!Cardinality, Cardinality
      <4>. QED BY <4>1 DEF Gate!Next
    <3>. QED BY <3>1, <3>2
  <2>3. ASSUME NEW r \in Requests, RequestStep(r) \/ RequestFault(r) \/ Expire(r)
        PROVE  \/ capacity' \subseteq capacity
               \/ capacity' = capacity \cup {r} /\ Cardinality(capacity) < MaxInflight
    BY <2>3 DEF RequestStep, RequestFault, ReadForRejudge, ListPending, Acquire, AcquireReplyLost,
       CreateSubmission, ResetSubmission, StoreFails, PublishConfirmed, PublishFails,
       MarkPublishFailed, MarkPublishFailedFails, ReleaseAdmission, ReleaseAdmissionFails, Expire
  <2>4. ASSUME NEW R, ServerCrash(R) PROVE capacity' \subseteq capacity
    BY <2>4 DEF ServerCrash
  <2>5. ASSUME NEW w \in Slots, SlotStep(w) PROVE capacity' \subseteq capacity
    BY <2>5 DEF SlotStep, Receive, CheckFinished, StartJudging, DeleteOldResults, RunProgram,
       Conclude, WriteFinalStatus, Ack, ReleaseCapacity, ResetForRetry, RepublishConfirmed,
       AckRetried, GiveUp, DeadLetter
  <2>6. ASSUME NEW w \in Slots, SlotFault(w) \/ Redeliver(w) PROVE capacity' \subseteq capacity
    BY <2>6 DEF SlotFault, CheckFails, JudgeFails, RunSystemError, Conclude, CommitReplyLost,
       RunKilledByShutdown, AckLost, ReleaseCapacityFails, ResetForRetry, RepublishFails, GiveUp,
       Redeliver
  <2>7. ASSUME NEW p \in Workers,
               \/ LinkLost(p) \/ Sigterm(p) \/ CloseConsumer(p) \/ Exit(p) \/ Crash(p) \/ Restart(p)
        PROVE  capacity' \subseteq capacity
    BY <2>7 DEF LinkLost, Sigterm, CloseConsumer, Exit, Crash, Restart
  <2>8. CASE UNCHANGED vars BY <2>8 DEF vars
  <2>. QED BY <1>2, <2>1, <2>2, <2>3, <2>4, <2>5, <2>6, <2>7, <2>8 DEF Next, Step
<1>. QED BY <1>1, <1>2, PTL DEF Spec, PassesTheGate, Gate!Spec

----------------------------------------------------------------------------
(* Tasks and verdicts: the inductive invariants.                           *)

\* The broker holds a delivery with token r for w, or w works on such a task.
AtSlot(w, r) ==
    \/ unacked[w] # NoTask /\ unacked[w].token = r
    \/ pc[w] # "idle" /\ task[w].token = r

\* The task with token r is in one place: with its request until that is done,
\* then one copy in the queue or at one slot.  A slot that has only to settle
\* the attempt it republished does not count.
OnePlace(r) ==
    /\ reqPc[r] # "done" => /\ \A t \in Tasks : t.token = r => ready[t] = 0
                            /\ \A w \in Slots : ~AtSlot(w, r)
    /\ \A t, u \in Tasks :
          (t.token = r /\ u.token = r /\ ready[t] > 0 /\ ready[u] > 0) => t = u /\ ready[t] = 1
    /\ \A t \in Tasks, w \in Slots :
          (t.token = r /\ ready[t] > 0 /\ AtSlot(w, r)) => pc[w] = "settle"
    /\ \A w, x \in Slots :
          (AtSlot(w, r) /\ AtSlot(x, r) /\ pc[w] # "settle" /\ pc[x] # "settle") => w = x
    /\ \A w \in Slots : (pc[w] = "release" /\ task[w].token = r) => unacked[w] = NoTask

PlacesInv == \A r \in Requests : r \in excused \/ OnePlace(r)

Covers(r) == (HoldsAdmission(r) \/ Carried(r)) => r \in capacity \/ r \in excused

CoversInv == \A r \in Requests : Covers(r)

\* The broker holds nothing for a connected slot that has settled its delivery.
EmptyAt(w) == (Connected(w) /\ pc[w] \in {"idle", "release"}) => unacked[w] = NoTask

EmptyInv == \A w \in Slots : EmptyAt(w)

\* Where a token that still has its place will be released from.
Anchored(r) ==
    \/ HoldsAdmission(r)
    \/ \E t \in Tasks : t.token = r /\ ready[t] > 0
    \/ \E w \in Slots : unacked[w] # NoTask /\ unacked[w].token = r /\ pc[w] # "settle"
    \/ \E w \in Slots : pc[w] = "release" /\ task[w].token = r

AnchorInv == \A r \in Requests : r \in capacity => Anchored(r) \/ r \in leaked

----------------------------------------------------------------------------
(* What a step of a slot does with the token of its task.                  *)

More(t) == ready' = [ready EXCEPT ![t] = @ + 1]
SameGate == UNCHANGED <<capacity, leaked, excused>>

Keeps(w) ==
    /\ Busy(w) /\ pc'[w] \notin {"idle", "settle", "release"}
    /\ task'[w].token = task[w].token
    /\ UNCHANGED <<ready, unacked>> /\ SameGate

Takes(w) ==
    \E t \in Tasks : /\ ready[t] > 0 /\ ready' = [ready EXCEPT ![t] = @ - 1]
                     /\ unacked'[w] = t /\ task'[w] = t
                     /\ pc[w] = "idle" /\ Connected(w) /\ pc'[w] = "check"
                     /\ SameGate

Settles(w) ==
    /\ pc[w] \in {"ack", "reject"} /\ pc'[w] = "release"
    /\ unacked[w] # NoTask /\ unacked'[w] = NoTask
    /\ UNCHANGED <<ready, task>> /\ SameGate

Leaves(w) ==
    /\ pc[w] \notin {"idle", "settle", "release"} /\ pc'[w] = "idle" /\ ~Connected(w)
    /\ UNCHANGED <<ready, unacked>> /\ SameGate

GivesBack(w) ==
    /\ pc[w] \notin {"settle", "release"} /\ pc'[w] = "idle"
    /\ unacked[w] # NoTask /\ unacked'[w] = NoTask
    /\ More(unacked[w]) /\ SameGate

Republishes(w) ==
    /\ pc[w] = "republish" /\ pc'[w] = "settle"
    /\ More(task[w])
    /\ UNCHANGED <<unacked, task>> /\ SameGate

Retires(w) ==
    /\ pc[w] = "settle" /\ pc'[w] = "idle"
    /\ unacked'[w] = NoTask
    /\ UNCHANGED ready /\ SameGate

Releases(w) ==
    /\ pc[w] = "release" /\ pc'[w] = "idle"
    /\ \/ capacity' = capacity \ {task[w].token} /\ UNCHANGED leaked
       \/ leaked' = leaked \cup {task[w].token} /\ UNCHANGED capacity
    /\ UNCHANGED <<ready, unacked, excused>>

\* A failure after which the token no longer covers its task.
Excuses(w) ==
    LET r == task[w].token
    IN  /\ pc[w] # "idle" /\ excused' = excused \cup {r}
        /\ \A t \in Tasks : /\ ready[t] > 0 => ready'[t] > 0
                            /\ t.token # r => ready'[t] = ready[t]
        /\ unacked'[w] = NoTask \/ (unacked'[w] = unacked[w] /\ ~Connected(w)')
        /\ pc'[w] = "idle" \/ task'[w] = task[w]
        /\ \/ \E t \in Tasks : t.token = r /\ ready'[t] > 0
           \/ pc'[w] = "release"
           \/ unacked'[w] = unacked[w] /\ pc'[w] # "settle" /\ pc[w] # "release"
        /\ pc[w] = "release" => pc'[w] = "release"
        /\ UNCHANGED <<capacity, leaked>>

Shape(w) ==
    \/ Keeps(w) \/ Takes(w) \/ Settles(w) \/ Leaves(w) \/ GivesBack(w)
    \/ Republishes(w) \/ Retires(w) \/ Releases(w) \/ Excuses(w)

LEMMA RetryToken ==
    ASSUME TypeOK, NEW w \in Slots, NEW written \in BOOLEAN, ResetForRetry(w, written)
    PROVE  task'[w].token = task[w].token
<1>1. task[w] \in Tasks BY TaskOfSlot DEF ResetForRetry
<1>2. task' = [task EXCEPT ![w] = [task[w] EXCEPT !.attempt = @ + 1]]
  BY DEF ResetForRetry, NextAttempt
<1>3. task'[w] = [task[w] EXCEPT !.attempt = @ + 1] BY <1>2 DEF TypeOK
<1>. QED BY <1>1, <1>3 DEF Tasks

LEMMA SlotStepShape ==
    ASSUME TypeOK, DeliveryInv, NEW w \in Slots, SlotStep(w)
    PROVE  Shape(w)
<1>. USE DEF SameGate, Goto, Idle, Settle, brokerVars, history, reqVars, slotVars
<1>d. DeliveryAt(w) /\ pc \in [Slots -> SlotLabels] /\ task \in [Slots -> Tasks \cup {NoTask}]
      /\ unacked \in [Slots -> Tasks \cup {NoTask}]
  BY DEF DeliveryInv, TypeOK
<1>1. ASSUME NEW t \in Tasks, Receive(w, t) PROVE Takes(w)
  BY <1>1, <1>d DEF Receive, Takes
<1>2. CASE CheckFinished(w) \/ StartJudging(w) \/ DeleteOldResults(w)
  <2>1. Keeps(w)
    BY <1>2, <1>d DEF CheckFinished, StartJudging, DeleteOldResults, Keeps, Busy, Working
  <2>. QED BY <2>1 DEF Shape
<1>3. CASE RunProgram(w) \/ WriteFinalStatus(w)
  <2>1. Keeps(w) BY <1>3, <1>d DEF RunProgram, Conclude, WriteFinalStatus, Keeps, Busy, Working
  <2>. QED BY <2>1 DEF Shape
<1>4. CASE ResetForRetry(w, TRUE) \/ GiveUp(w, TRUE)
  <2>1. Keeps(w)
    BY <1>4, <1>d, RetryToken DEF ResetForRetry, GiveUp, Keeps, Busy, Working
  <2>. QED BY <2>1 DEF Shape
<1>5. CASE Ack(w) \/ DeadLetter(w)
  <2>1. CASE Connected(w)
    BY <1>5, <2>1, <1>d DEF Ack, DeadLetter, Settles, Shape, DeliveryAt
  <2>2. CASE ~Connected(w)
    BY <1>5, <2>2, <1>d DEF Ack, DeadLetter, Leaves, Shape
  <2>. QED BY <2>1, <2>2
<1>6. CASE ReleaseCapacity(w) BY <1>6, <1>d DEF ReleaseCapacity, Releases, Shape
<1>7. CASE RepublishConfirmed(w) BY <1>7, <1>d DEF RepublishConfirmed, Republishes, Shape, More, Enqueue
<1>8. CASE AckRetried(w)
  <2>1. CASE Connected(w) BY <1>8, <2>1, <1>d DEF AckRetried, Retires, Shape
  <2>2. CASE ~Connected(w)
    BY <1>8, <2>2, <1>d DEF AckRetried, Excuses, Shape, Connected, procVars
  <2>. QED BY <2>1, <2>2
<1>. QED BY <1>1, <1>2, <1>3, <1>4, <1>5, <1>6, <1>7, <1>8 DEF SlotStep, Shape

LEMMA SlotFaultShape ==
    ASSUME TypeOK, DeliveryInv, NEW w \in Slots, SlotFault(w)
    PROVE  Shape(w)
<1>. USE DEF SameGate, Goto, Idle, Settle, brokerVars, history, reqVars, slotVars
<1>d. DeliveryAt(w) /\ pc \in [Slots -> SlotLabels] /\ task \in [Slots -> Tasks \cup {NoTask}]
      /\ unacked \in [Slots -> Tasks \cup {NoTask}] /\ ready \in [Tasks -> Nat]
  BY DEF DeliveryInv, TypeOK
<1>1. CASE CheckFails(w)
  <2>1. CASE Connected(w)
    BY <1>1, <2>1, <1>d DEF CheckFails, GiveBack, Enqueue, GivesBack, More, Shape, DeliveryAt
  <2>2. CASE ~Connected(w) BY <1>1, <2>2, <1>d DEF CheckFails, Leaves, Shape
  <2>. QED BY <2>1, <2>2
<1>2. CASE JudgeFails(w) \/ RunSystemError(w) \/ CommitReplyLost(w) \/ RunKilledByShutdown(w)
  <2>1. Keeps(w)
    BY <1>2, <1>d DEF JudgeFails, RunSystemError, CommitReplyLost, RunKilledByShutdown, Conclude,
                      Keeps, Busy, Working
  <2>. QED BY <2>1 DEF Shape
<1>3. CASE ResetForRetry(w, FALSE) \/ GiveUp(w, FALSE)
  <2>1. Keeps(w)
    BY <1>3, <1>d, RetryToken DEF ResetForRetry, GiveUp, Keeps, Busy, Working
  <2>. QED BY <2>1 DEF Shape
<1>4. CASE AckLost(w)
  <2>1. ~Connected(w)' BY <1>4, HostType DEF AckLost, Connected, TypeOK
  <2>. QED BY <1>4, <1>d, <2>1 DEF AckLost, Excuses, Shape
<1>5. CASE ReleaseCapacityFails(w) BY <1>5, <1>d DEF ReleaseCapacityFails, Releases, Shape
<1>6. CASE RepublishFails(w)
  <2>1. PICK enqueued \in BOOLEAN :
           /\ LET copies == IF enqueued THEN [ready EXCEPT ![task[w]] = @ + 1] ELSE ready
              IN  IF Connected(w)
                  THEN ready' = [copies EXCEPT ![unacked[w]] = @ + 1] /\ Settle(w)
                  ELSE ready' = copies /\ UNCHANGED unacked
           /\ excused' = IF enqueued THEN excused \cup {task[w].token} ELSE excused
    BY <1>6 DEF RepublishFails
  <2>2. /\ pc[w] = "republish" /\ pc'[w] = "idle" /\ task[w] \in Tasks
        /\ UNCHANGED <<capacity, leaked>>
    BY <1>6, <1>d, TaskOfSlot DEF RepublishFails
  <2>3. Connected(w) => /\ unacked[w] \in Tasks /\ unacked[w] # NoTask
                        /\ unacked[w].token = task[w].token
    BY <1>d, <2>2 DEF DeliveryAt
  <2>4. CASE ~enqueued
    BY <2>1, <2>2, <2>3, <2>4, <1>d DEF GivesBack, Leaves, More, Shape
  <2>5. CASE enqueued
    <3>1. \A t \in Tasks : /\ ready[t] > 0 => ready'[t] > 0
                           /\ t.token # task[w].token => ready'[t] = ready[t]
      BY <2>1, <2>2, <2>3, <2>5, <1>d
    <3>2. ready'[task[w]] > 0 BY <2>1, <2>2, <2>3, <2>5, <1>d
    <3>3. unacked'[w] = NoTask \/ (unacked'[w] = unacked[w] /\ ~Connected(w)')
      BY <1>6, <2>1, <1>d DEF RepublishFails, procVars, Connected
    <3>4. excused' = excused \cup {task[w].token} BY <2>1, <2>5
    <3>. QED BY <2>2, <3>1, <3>2, <3>3, <3>4 DEF Excuses, Shape
  <2>. QED BY <2>4, <2>5
<1>. QED BY <1>1, <1>2, <1>3, <1>4, <1>5, <1>6 DEF SlotFault

LEMMA RedeliverShape ==
    ASSUME TypeOK, DeliveryInv, NEW w \in Slots, Redeliver(w)
    PROVE  Shape(w)
<1>. USE DEF SameGate, Settle, GiveBack, Enqueue, brokerVars, reqVars, slotVars
<1>d. DeliveryAt(w) /\ ready \in [Tasks -> Nat] /\ unacked \in [Slots -> Tasks \cup {NoTask}]
      /\ unacked[w] \in Tasks
  BY DEF DeliveryInv, TypeOK, Redeliver
<1>1. CASE pc[w] = "idle" BY <1>1, <1>d DEF Redeliver, GivesBack, More, Shape
<1>2. CASE pc[w] # "idle"
  <2>1. unacked[w].token = task[w].token BY <1>2, <1>d DEF DeliveryAt, Redeliver
  <2>2. \A t \in Tasks : ready'[t] = IF t = unacked[w] THEN ready[t] + 1 ELSE ready[t]
    BY <1>d DEF Redeliver
  <2>3. \A t \in Tasks : /\ ready[t] > 0 => ready'[t] > 0
                         /\ t.token # task[w].token => ready'[t] = ready[t]
    BY <2>1, <2>2, <1>d
  <2>4. ready'[unacked[w]] > 0 BY <2>2, <1>d
  <2>5. /\ excused' = excused \cup {task[w].token} /\ unacked'[w] = NoTask
        /\ UNCHANGED <<pc, task, capacity, leaked>>
    BY <1>2, <1>d, <2>1 DEF Redeliver
  <2>. QED BY <1>2, <1>d, <2>1, <2>3, <2>4, <2>5 DEF Excuses, Shape
<1>. QED BY <1>1, <1>2

----------------------------------------------------------------------------
(* Every token has one place.                                              *)

\* A step that only takes places away.
LEMMA PlaceFrame ==
    ASSUME TypeOK, TypeOK', NEW r \in Requests, OnePlace(r),
           reqPc'[r] # "done" => reqPc[r] # "done",
           \A t \in Tasks : t.token = r => ready'[t] <= ready[t],
           \A x \in Slots : AtSlot(x, r)' => AtSlot(x, r) /\ (pc[x] = "settle" => pc'[x] = "settle"),
           \A x \in Slots : (pc'[x] = "release" /\ task'[x].token = r) => unacked'[x] = NoTask
    PROVE  OnePlace(r)'
<1>t. ready \in [Tasks -> Nat] /\ ready' \in [Tasks -> Nat] BY DEF TypeOK
<1>1. \A t \in Tasks : t.token = r => /\ ready'[t] \in Nat /\ ready[t] \in Nat
                                      /\ ready'[t] > 0 => ready[t] > 0
                                      /\ ready[t] = 0 => ready'[t] = 0
                                      /\ (ready[t] = 1 /\ ready'[t] > 0) => ready'[t] = 1
  BY <1>t
<1>2. (reqPc[r] # "done" => /\ \A t \in Tasks : t.token = r => ready[t] = 0
                            /\ \A x \in Slots : ~AtSlot(x, r))'
  BY <1>1 DEF OnePlace
<1>3. \A t, u \in Tasks :
         (t.token = r /\ u.token = r /\ ready'[t] > 0 /\ ready'[u] > 0) => t = u /\ ready'[t] = 1
  BY <1>1 DEF OnePlace
<1>4. (\A t \in Tasks, x \in Slots :
         (t.token = r /\ ready[t] > 0 /\ AtSlot(x, r)) => pc[x] = "settle")'
  BY <1>1 DEF OnePlace
<1>5. (\A x, y \in Slots :
         (AtSlot(x, r) /\ AtSlot(y, r) /\ pc[x] # "settle" /\ pc[y] # "settle") => x = y)'
  BY DEF OnePlace
<1>. QED BY <1>2, <1>3, <1>4, <1>5 DEF OnePlace

\* A slot puts the task, or its next attempt, into the queue.
LEMMA PlaceHandedOn ==
    ASSUME TypeOK, NEW r \in Requests, OnePlace(r), NEW w \in Slots, AtSlot(w, r), pc[w] # "settle",
           NEW t \in Tasks, t.token = r, More(t), UNCHANGED reqPc,
           \A x \in Slots \ {w} : AtSlot(x, r)' => AtSlot(x, r) /\ pc'[x] = pc[x],
           AtSlot(w, r)' => pc'[w] = "settle",
           \A x \in Slots : (pc'[x] = "release" /\ task'[x].token = r) => unacked'[x] = NoTask
    PROVE  OnePlace(r)'
<1>t. ready \in [Tasks -> Nat] BY DEF TypeOK
<1>0. reqPc'[r] = "done" BY DEF OnePlace
<1>1. \A u \in Tasks : u.token = r => ready[u] = 0
  BY <1>t DEF OnePlace
<1>2. \A u \in Tasks : u.token = r => ready'[u] = IF u = t THEN 1 ELSE 0
  BY <1>1, <1>t DEF More
<1>3. (\A x \in Slots : AtSlot(x, r) => pc[x] = "settle")'
  BY DEF OnePlace
<1>. QED BY <1>0, <1>2, <1>3 DEF OnePlace

LEMMA PlaceTaken ==
    ASSUME TypeOK, NEW r \in Requests, OnePlace(r), NEW w \in Slots,
           NEW t \in Tasks, t.token = r, ready[t] > 0, ready' = [ready EXCEPT ![t] = @ - 1],
           UNCHANGED reqPc, pc'[w] = "check",
           \A x \in Slots \ {w} : AtSlot(x, r)' => AtSlot(x, r) /\ pc'[x] = pc[x],
           \A x \in Slots : (pc'[x] = "release" /\ task'[x].token = r) => unacked'[x] = NoTask
    PROVE  OnePlace(r)'
<1>t. ready \in [Tasks -> Nat] BY DEF TypeOK
<1>0. reqPc'[r] = "done" BY DEF OnePlace
<1>1. \A u \in Tasks : u.token = r => ready[u] = IF u = t THEN 1 ELSE 0
  BY <1>t DEF OnePlace
<1>2. \A u \in Tasks : u.token = r => ready'[u] = 0
  BY <1>1, <1>t
<1>3. (\A x \in Slots \ {w} : AtSlot(x, r) => pc[x] = "settle")'
  BY DEF OnePlace
<1>. QED BY <1>0, <1>2, <1>3 DEF OnePlace

LEMMA SlotPlaces ==
    ASSUME TypeOK, TypeOK', DeliveryInv, NEW w \in Slots,
           SlotStep(w) \/ SlotFault(w) \/ Redeliver(w),
           NEW r \in Requests, r \in excused \/ OnePlace(r)
    PROVE  r \in excused' \/ OnePlace(r)'
<1>s. Shape(w) BY SlotStepShape, SlotFaultShape, RedeliverShape
<1>. SUFFICES ASSUME r \notin excused' PROVE OnePlace(r)'
  OBVIOUS
<1>e. OnePlace(r)
  BY <1>s DEF Shape, Keeps, Takes, Settles, Leaves, GivesBack, Republishes, Retires, Releases,
              Excuses, SameGate
<1>t. /\ ready \in [Tasks -> Nat] /\ pc \in [Slots -> SlotLabels]
      /\ task \in [Slots -> Tasks \cup {NoTask}] /\ unacked \in [Slots -> Tasks \cup {NoTask}]
  BY DEF TypeOK
<1>o. /\ \A x \in Slots \ {w} : pc'[x] = pc[x] /\ task'[x] = task[x] /\ unacked'[x] = unacked[x]
      /\ UNCHANGED reqPc
  BY OthersFrame
<1>x. \A x \in Slots \ {w} : AtSlot(x, r)' <=> AtSlot(x, r)
  BY <1>o DEF AtSlot
<1>r. \A x \in Slots : (pc[x] = "release" /\ task[x].token = r) => unacked[x] = NoTask
  BY <1>e DEF OnePlace
<1>d. pc[w] # "idle" => /\ task[w] \in Tasks
                        /\ unacked[w] # NoTask => unacked[w].token = task[w].token
  BY TaskOfSlot DEF DeliveryInv, DeliveryAt
<1>f. ASSUME \A t \in Tasks : t.token = r => ready'[t] <= ready[t],
             AtSlot(w, r)' => AtSlot(w, r) /\ (pc[w] = "settle" => pc'[w] = "settle"),
             (pc'[w] = "release" /\ task'[w].token = r) => unacked'[w] = NoTask
      PROVE  OnePlace(r)'
  BY <1>e, <1>f, <1>o, <1>x, <1>r, PlaceFrame
<1>1. CASE Keeps(w)
  <2>1. \A t \in Tasks : ready'[t] <= ready[t] BY <1>1, <1>t DEF Keeps
  <2>2. AtSlot(w, r)' => AtSlot(w, r) /\ (pc[w] = "settle" => pc'[w] = "settle")
    BY <1>1 DEF Keeps, AtSlot, Busy, Working
  <2>. QED BY <1>1, <1>f, <2>1, <2>2 DEF Keeps
<1>2. CASE Takes(w)
  <2>1. PICK t \in Tasks : /\ ready[t] > 0 /\ ready' = [ready EXCEPT ![t] = @ - 1]
                           /\ unacked'[w] = t /\ task'[w] = t
                           /\ pc[w] = "idle" /\ pc'[w] = "check"
    BY <1>2 DEF Takes
  <2>2. CASE t.token = r BY <2>1, <2>2, <1>e, <1>o, <1>x, <1>r, PlaceTaken
  <2>3. CASE t.token # r
    <3>1. \A u \in Tasks : u.token = r => ready'[u] <= ready[u] BY <2>1, <2>3, <1>t
    <3>. QED BY <3>1, <2>1, <2>3, <1>f DEF AtSlot
  <2>. QED BY <2>2, <2>3
<1>3. CASE Settles(w) \/ Leaves(w) \/ Retires(w) \/ Releases(w)
  <2>1. \A t \in Tasks : ready'[t] <= ready[t]
    BY <1>3, <1>t DEF Settles, Leaves, Retires, Releases
  <2>2. AtSlot(w, r)' => AtSlot(w, r) /\ (pc[w] = "settle" => pc'[w] = "settle")
    BY <1>3 DEF Settles, Leaves, Retires, Releases, AtSlot
  <2>3. pc'[w] = "release" => unacked'[w] = NoTask
    BY <1>3 DEF Settles, Leaves, Retires, Releases
  <2>. QED BY <2>1, <2>2, <2>3, <1>f
<1>4. CASE GivesBack(w)
  <2>1. unacked[w] \in Tasks BY <1>4, <1>t DEF GivesBack
  <2>2. ~AtSlot(w, r)' BY <1>4 DEF GivesBack, AtSlot
  <2>3. CASE unacked[w].token = r
    <3>1. AtSlot(w, r) BY <1>4, <2>3 DEF GivesBack, AtSlot
    <3>. QED BY <1>4, <2>1, <2>2, <2>3, <3>1, <1>e, <1>o, <1>x, <1>r, PlaceHandedOn DEF GivesBack
  <2>4. CASE unacked[w].token # r
    <3>1. \A t \in Tasks : t.token = r => ready'[t] <= ready[t]
      BY <1>4, <2>1, <2>4, <1>t DEF GivesBack, More
    <3>. QED BY <3>1, <2>2, <1>4, <1>f DEF GivesBack
  <2>. QED BY <2>3, <2>4
<1>5. CASE Republishes(w)
  <2>1. task[w] \in Tasks BY <1>5, <1>d DEF Republishes
  <2>2. CASE task[w].token = r
    <3>1. AtSlot(w, r) BY <1>5, <2>2 DEF Republishes, AtSlot
    <3>. QED BY <1>5, <2>1, <2>2, <3>1, <1>e, <1>o, <1>x, <1>r, PlaceHandedOn DEF Republishes
  <2>3. CASE task[w].token # r
    <3>1. \A t \in Tasks : t.token = r => ready'[t] <= ready[t]
      BY <1>5, <2>1, <2>3, <1>t DEF Republishes, More
    <3>2. ~AtSlot(w, r)' BY <1>5, <2>3, <1>d DEF Republishes, AtSlot
    <3>. QED BY <3>1, <3>2, <1>5, <1>f DEF Republishes
  <2>. QED BY <2>2, <2>3
<1>6. CASE Excuses(w)
  <2>1. task[w].token # r /\ pc[w] # "idle" BY <1>6 DEF Excuses
  <2>2. \A t \in Tasks : t.token = r => ready'[t] <= ready[t] BY <1>6, <2>1, <1>t DEF Excuses
  <2>3. ~AtSlot(w, r)' BY <1>6, <2>1, <1>d DEF Excuses, AtSlot
  <2>. QED BY <2>1, <2>2, <2>3, <1>6, <1>f DEF Excuses
<1>. QED BY <1>s, <1>1, <1>2, <1>3, <1>4, <1>5, <1>6 DEF Shape

\* What a step of a request does with its token.
Moves(q) ==
    /\ reqPc[q] # "done" /\ (HoldsAdmission(q)' <=> HoldsAdmission(q))
    /\ UNCHANGED ready /\ SameGate

Enters(q) ==
    /\ reqPc[q] # "done" /\ capacity' = capacity \cup {q}
    /\ HoldsAdmission(q)' \/ q \in leaked'
    /\ leaked \subseteq leaked'
    /\ UNCHANGED <<ready, excused>>

Publishes(q) ==
    /\ HoldsAdmission(q) /\ reqPc'[q] = "done"
    /\ More(FirstTask(q)) /\ SameGate

Ends(q) ==
    /\ reqPc[q] = "release" /\ reqPc'[q] = "done"
    /\ \/ capacity' = capacity \ {q} /\ UNCHANGED leaked
       \/ leaked' = leaked \cup {q} /\ UNCHANGED capacity
    /\ UNCHANGED <<ready, excused>>

Uncovers(q) ==
    /\ excused' = excused \cup {q}
    /\ \/ capacity' = capacity \ {q} /\ UNCHANGED <<reqPc, ready>>
       \/ More(FirstTask(q)) /\ HoldsAdmission(q)' /\ UNCHANGED capacity
    /\ UNCHANGED leaked

LEMMA RequestShape ==
    ASSUME TypeOK, NEW q \in Requests, RequestStep(q) \/ RequestFault(q) \/ Expire(q)
    PROVE  /\ Moves(q) \/ Enters(q) \/ Publishes(q) \/ Ends(q) \/ Uncovers(q)
           /\ \A r \in Requests \ {q} : reqPc'[r] = reqPc[r]
<1>. USE DEF SameGate, HoldsAdmission, ReqGoto, dbVars, brokerVars, reqVars, history
<1>t. reqPc \in [Requests -> RequestLabels] BY DEF TypeOK
<1>1. CASE ReadForRejudge(q) \/ ListPending(q)
  <2>1. Moves(q) BY <1>1, <1>t DEF ReadForRejudge, ListPending, Moves
  <2>. QED BY <1>1, <1>t, <2>1 DEF ReadForRejudge, ListPending
<1>2. CASE CreateSubmission(q) \/ ResetSubmission(q) \/ StoreFails(q)
  <2>1. Moves(q) BY <1>2, <1>t DEF CreateSubmission, ResetSubmission, StoreFails, Moves
  <2>. QED BY <1>2, <1>t, <2>1 DEF CreateSubmission, ResetSubmission, StoreFails
<1>3. CASE MarkPublishFailed(q) \/ MarkPublishFailedFails(q)
  <2>1. Moves(q) BY <1>3, <1>t DEF MarkPublishFailed, MarkPublishFailedFails, Moves
  <2>. QED BY <1>3, <1>t, <2>1 DEF MarkPublishFailed, MarkPublishFailedFails
<1>4. CASE Acquire(q) \/ AcquireReplyLost(q)
  <2>1. Moves(q) \/ Enters(q)
    BY <1>4, <1>t DEF Acquire, AcquireReplyLost, ReadyToAcquire, Moves, Enters
  <2>. QED BY <1>4, <1>t, <2>1 DEF Acquire, AcquireReplyLost
<1>5. CASE PublishConfirmed(q)
  <2>1. Publishes(q) BY <1>5, <1>t DEF PublishConfirmed, Publishes, Enqueue, More
  <2>. QED BY <1>5, <1>t, <2>1 DEF PublishConfirmed
<1>6. CASE PublishFails(q)
  <2>1. Moves(q) \/ Uncovers(q)
    BY <1>6, <1>t DEF PublishFails, Moves, Uncovers, Enqueue, More
  <2>. QED BY <1>6, <1>t, <2>1 DEF PublishFails
<1>7. CASE ReleaseAdmission(q) \/ ReleaseAdmissionFails(q)
  <2>1. Ends(q) BY <1>7, <1>t DEF ReleaseAdmission, ReleaseAdmissionFails, Ends
  <2>. QED BY <1>7, <1>t, <2>1 DEF ReleaseAdmission, ReleaseAdmissionFails
<1>8. CASE Expire(q)
  <2>1. Uncovers(q) BY <1>8 DEF Expire, Uncovers
  <2>. QED BY <1>8, <2>1 DEF Expire
<1>. QED BY <1>1, <1>2, <1>3, <1>4, <1>5, <1>6, <1>7, <1>8 DEF RequestStep, RequestFault

LEMMA RequestPlaces ==
    ASSUME TypeOK, TypeOK', NEW q \in Requests, RequestStep(q) \/ RequestFault(q) \/ Expire(q),
           NEW r \in Requests, r \in excused \/ OnePlace(r)
    PROVE  r \in excused' \/ OnePlace(r)'
<1>s. /\ Moves(q) \/ Enters(q) \/ Publishes(q) \/ Ends(q) \/ Uncovers(q)
      /\ r # q => reqPc'[r] = reqPc[r]
  BY RequestShape
<1>. SUFFICES ASSUME r \notin excused' PROVE OnePlace(r)'
  OBVIOUS
<1>e. OnePlace(r)
  BY <1>s DEF Moves, Enters, Publishes, Ends, Uncovers, SameGate
<1>u. UNCHANGED <<unacked, pc, task>> BY RequestFrame DEF slotVars
<1>x. \A x \in Slots : AtSlot(x, r)' <=> AtSlot(x, r) BY <1>u DEF AtSlot
<1>t. ready \in [Tasks -> Nat] BY DEF TypeOK
<1>p. FirstTask(q) \in Tasks /\ FirstTask(q).token = q BY FirstTaskType DEF FirstTask
<1>1. CASE Publishes(q) /\ r = q
  <2>1. /\ \A t \in Tasks : t.token = r => ready[t] = 0
        /\ \A x \in Slots : ~AtSlot(x, r)
    BY <1>1, <1>e DEF Publishes, HoldsAdmission, OnePlace
  <2>2. \A t \in Tasks : t.token = r => ready'[t] = IF t = FirstTask(q) THEN 1 ELSE 0
    BY <1>1, <1>p, <1>t, <2>1 DEF Publishes, More
  <2>3. \A x \in Slots : (pc'[x] = "release" /\ task'[x].token = r) => unacked'[x] = NoTask
    BY <1>u, <1>e DEF OnePlace
  <2>. QED BY <1>1, <1>x, <2>1, <2>2, <2>3 DEF Publishes, OnePlace
<1>2. CASE ~(Publishes(q) /\ r = q)
  <2>1. \A t \in Tasks : t.token = r => ready'[t] <= ready[t]
    BY <1>2, <1>s, <1>p, <1>t DEF Moves, Enters, Publishes, Ends, Uncovers, More
  <2>2. reqPc'[r] # "done" => reqPc[r] # "done"
    BY <1>2, <1>s DEF Moves, Enters, Ends, Uncovers
  <2>3. \A x \in Slots : (pc'[x] = "release" /\ task'[x].token = r) => unacked'[x] = NoTask
    BY <1>u, <1>e DEF OnePlace
  <2>. QED BY <1>e, <1>u, <1>x, <2>1, <2>2, <2>3, PlaceFrame
<1>. QED BY <1>1, <1>2

LEMMA ServerCrashPlaces ==
    ASSUME TypeOK, TypeOK', NEW R \in SUBSET Requests, ServerCrash(R),
           NEW r \in Requests, r \in excused \/ OnePlace(r)
    PROVE  r \in excused' \/ OnePlace(r)'
<1>1. CASE r \in excused BY <1>1 DEF ServerCrash
<1>2. CASE OnePlace(r)
  <2>1. UNCHANGED <<ready, unacked, pc, task>> BY DEF ServerCrash, brokerVars, slotVars
  <2>2. reqPc'[r] # "done" => reqPc[r] # "done" BY DEF ServerCrash
  <2>3. \A x \in Slots : AtSlot(x, r)' <=> AtSlot(x, r) BY <2>1 DEF AtSlot
  <2>4. \A t \in Tasks : ready'[t] <= ready[t] BY <2>1 DEF TypeOK
  <2>5. \A x \in Slots : (pc'[x] = "release" /\ task'[x].token = r) => unacked'[x] = NoTask
    BY <1>2, <2>1 DEF OnePlace
  <2>. QED BY <1>2, <2>1, <2>2, <2>3, <2>4, <2>5, PlaceFrame
<1>. QED BY <1>1, <1>2

LEMMA ProcessPlaces ==
    ASSUME TypeOK, TypeOK', DeliveryInv, NEW p \in Workers,
           \/ LinkLost(p) \/ Sigterm(p) \/ CloseConsumer(p) \/ Exit(p) \/ Crash(p) \/ Restart(p),
           NEW r \in Requests, r \in excused \/ OnePlace(r)
    PROVE  r \in excused' \/ OnePlace(r)'
<1>. USE DEF brokerVars, reqVars, slotVars, history
<1>u. UNCHANGED <<ready, unacked, reqPc>> /\ excused \subseteq excused'
  BY DEF LinkLost, Sigterm, CloseConsumer, Exit, Crash, Restart
<1>. SUFFICES ASSUME OnePlace(r), r \notin excused' PROVE OnePlace(r)'
  BY <1>u
<1>1. ASSUME NEW x \in Slots, AtSlot(x, r)'
      PROVE  AtSlot(x, r) /\ (pc[x] = "settle" => pc'[x] = "settle")
  <2>1. CASE Crash(p)
    <3>1. CASE Host[x] # p BY <1>1, <2>1, <3>1, <1>u DEF Crash, AtSlot
    <3>2. CASE Host[x] = p
      <4>1. unacked[x] # NoTask /\ unacked[x].token = r
        BY <1>1, <2>1, <3>2, <1>u DEF Crash, AtSlot
      <4>2. pc[x] # "settle"
        BY <4>1, <2>1, <3>2 DEF Crash, SlotsOf, DeliveryInv, DeliveryAt
      <4>. QED BY <4>1, <4>2 DEF AtSlot
    <3>. QED BY <3>1, <3>2
  <2>2. CASE UNCHANGED <<pc, task>> BY <1>1, <2>2, <1>u DEF AtSlot
  <2>. QED BY <2>1, <2>2 DEF LinkLost, Sigterm, CloseConsumer, Exit, Restart
<1>2. \A x \in Slots : (pc'[x] = "release" /\ task'[x].token = r) => unacked'[x] = NoTask
  BY <1>u DEF LinkLost, Sigterm, CloseConsumer, Exit, Crash, Restart, OnePlace
<1>3. \A t \in Tasks : ready'[t] <= ready[t] BY <1>u DEF TypeOK
<1>. QED BY <1>u, <1>1, <1>2, <1>3, PlaceFrame

----------------------------------------------------------------------------
(* A connected slot that has settled holds no delivery.                    *)

LEMMA SlotEmpties ==
    ASSUME TypeOK, DeliveryInv, EmptyInv, NEW w \in Slots,
           SlotStep(w) \/ SlotFault(w) \/ Redeliver(w)
    PROVE  EmptyInv'
<1>s. Shape(w) BY SlotStepShape, SlotFaultShape, RedeliverShape
<1>o. /\ \A x \in Slots \ {w} : pc'[x] = pc[x] /\ unacked'[x] = unacked[x]
      /\ \A x \in Slots : ~Connected(x) => ~Connected(x)'
  BY OthersFrame
<1>1. ASSUME NEW x \in Slots \ {w} PROVE EmptyAt(x)'
  BY <1>1, <1>o DEF EmptyInv, EmptyAt
<1>2. EmptyAt(w)'
  BY <1>s, <1>o DEF EmptyInv, EmptyAt, Shape, Keeps, Takes, Settles, Leaves, GivesBack,
                    Republishes, Retires, Releases, Excuses
<1>. QED BY <1>1, <1>2 DEF EmptyInv

LEMMA ProcessEmpties ==
    ASSUME TypeOK, DeliveryInv, EmptyInv, NEW p \in Workers,
           \/ LinkLost(p) \/ Sigterm(p) \/ CloseConsumer(p) \/ Exit(p) \/ Crash(p) \/ Restart(p)
    PROVE  EmptyInv'
<1>. USE DEF brokerVars, slotVars
<1>u. UNCHANGED unacked
  BY DEF LinkLost, Sigterm, CloseConsumer, Exit, Crash, Restart
<1>1. ASSUME NEW x \in Slots PROVE EmptyAt(x)'
  <2>. USE <1>u, HostType DEF EmptyInv, EmptyAt, Connected, TypeOK
  <2>1. CASE LinkLost(p) \/ Sigterm(p) \/ CloseConsumer(p) \/ Exit(p)
    BY <2>1 DEF LinkLost, Sigterm, CloseConsumer, Exit
  <2>2. CASE Crash(p) BY <2>2 DEF Crash
  <2>3. CASE Restart(p) BY <2>3 DEF Restart, SlotsOf
  <2>. QED BY <2>1, <2>2, <2>3
<1>. QED BY <1>1 DEF EmptyInv

----------------------------------------------------------------------------
(* A task in flight holds its token.                                       *)

CarriedAt(w, r) ==
    \/ unacked[w] # NoTask /\ unacked[w].token = r /\ pc[w] # "settle"
    \/ Busy(w) /\ task[w].token = r

LEMMA CarriedIn ==
    \A r : Carried(r) <=> \/ \E t \in Tasks : t.token = r /\ ready[t] > 0
                          \/ \E w \in Slots : CarriedAt(w, r)
BY DEF Carried, CarriedAt

\* Outside its excuses a step of a slot takes no task up that was not in flight.
LEMMA SlotCarries ==
    ASSUME TypeOK, DeliveryInv, NEW w \in Slots, Shape(w), NEW r \in Requests, r \notin excused'
    PROVE  /\ \A t \in Tasks : (t.token = r /\ ready'[t] > 0) => Carried(r)
           /\ CarriedAt(w, r)' => Carried(r)
<1>t. /\ ready \in [Tasks -> Nat] /\ unacked \in [Slots -> Tasks \cup {NoTask}]
      /\ pc[w] # "idle" => /\ task[w] \in Tasks
                           /\ unacked[w] # NoTask => unacked[w].token = task[w].token
  BY TaskOfSlot DEF TypeOK, DeliveryInv, DeliveryAt
<1>. USE DEF Carried
<1>1. CASE Keeps(w) BY <1>1 DEF Keeps, CarriedAt, Busy, Working
<1>2. CASE Takes(w)
  <2>1. PICK t \in Tasks : /\ ready[t] > 0 /\ ready' = [ready EXCEPT ![t] = @ - 1]
                           /\ unacked'[w] = t /\ task'[w] = t
    BY <1>2 DEF Takes
  <2>2. \A u \in Tasks : ready'[u] > 0 => ready[u] > 0 BY <2>1, <1>t
  <2>. QED BY <2>1, <2>2 DEF CarriedAt
<1>3. CASE Settles(w) \/ Leaves(w) \/ Retires(w) \/ Releases(w)
  BY <1>3 DEF Settles, Leaves, Retires, Releases, CarriedAt, Busy, Working
<1>4. CASE GivesBack(w)
  <2>1. unacked[w] \in Tasks BY <1>4, <1>t DEF GivesBack
  <2>2. \A u \in Tasks : u # unacked[w] => ready'[u] = ready[u] BY <1>4, <1>t DEF GivesBack, More
  <2>. QED BY <1>4, <2>1, <2>2 DEF GivesBack, CarriedAt, Busy, Working
<1>5. CASE Republishes(w)
  <2>1. task[w] \in Tasks BY <1>5, <1>t DEF Republishes
  <2>2. \A u \in Tasks : u # task[w] => ready'[u] = ready[u] BY <1>5, <1>t DEF Republishes, More
  <2>. QED BY <1>5, <2>1, <2>2 DEF Republishes, CarriedAt, Busy, Working
<1>6. CASE Excuses(w)
  <2>1. task[w].token # r /\ pc[w] # "idle" BY <1>6 DEF Excuses
  <2>2. \A t \in Tasks : t.token = r => ready'[t] = ready[t] BY <1>6, <2>1 DEF Excuses
  <2>3. ~CarriedAt(w, r)' BY <1>6, <2>1, <1>t DEF Excuses, CarriedAt, Busy, Working
  <2>. QED BY <2>2, <2>3
<1>. QED BY <1>1, <1>2, <1>3, <1>4, <1>5, <1>6 DEF Shape

LEMMA SlotCovers ==
    ASSUME TypeOK, DeliveryInv, NEW w \in Slots, SlotStep(w) \/ SlotFault(w) \/ Redeliver(w),
           NEW r \in Requests, r \in excused \/ OnePlace(r), Covers(r)
    PROVE  Covers(r)'
<1>s. Shape(w) BY SlotStepShape, SlotFaultShape, RedeliverShape
<1>. SUFFICES ASSUME r \notin excused', HoldsAdmission(r)' \/ Carried(r)'
              PROVE  r \in capacity'
  BY DEF Covers
<1>o. /\ \A x \in Slots \ {w} : pc'[x] = pc[x] /\ task'[x] = task[x] /\ unacked'[x] = unacked[x]
      /\ HoldsAdmission(r)' <=> HoldsAdmission(r)
  BY OthersFrame DEF HoldsAdmission
<1>x. \A x \in Slots \ {w} : CarriedAt(x, r)' <=> CarriedAt(x, r)
  BY <1>o DEF CarriedAt, Busy, Working
<1>c. \/ \E t \in Tasks : t.token = r /\ ready'[t] > 0
      \/ \E x \in Slots : CarriedAt(x, r)'
      \/ HoldsAdmission(r)
  BY <1>o DEF Carried, CarriedAt, Busy, Working
<1>1. HoldsAdmission(r) \/ Carried(r) BY <1>s, <1>c, <1>x, SlotCarries, CarriedIn
<1>2. r \notin excused
  BY <1>s DEF Shape, Keeps, Takes, Settles, Leaves, GivesBack, Republishes, Retires, Releases,
              Excuses, SameGate
<1>3. r \in capacity BY <1>1, <1>2 DEF Covers
<1>4. CASE Releases(w) /\ task[w].token = r
  <2>1. AtSlot(w, r) /\ pc[w] = "release" /\ unacked'[w] = NoTask /\ pc'[w] = "idle"
        /\ UNCHANGED ready /\ OnePlace(r)
    BY <1>2, <1>4 DEF Releases, AtSlot, OnePlace
  <2>2. ~HoldsAdmission(r) BY <2>1 DEF OnePlace, HoldsAdmission
  <2>3. \A t \in Tasks : t.token = r => ~(ready'[t] > 0) BY <2>1 DEF OnePlace
  <2>4. ~CarriedAt(w, r)' BY <2>1 DEF CarriedAt, Busy, Working
  <2>5. \A x \in Slots : CarriedAt(x, r) => AtSlot(x, r) /\ pc[x] # "settle"
    BY DEF CarriedAt, AtSlot, Busy, Working
  <2>6. \A x \in Slots \ {w} : ~CarriedAt(x, r) BY <2>1, <2>5 DEF OnePlace
  <2>. QED BY <1>c, <1>x, <2>2, <2>3, <2>4, <2>6
<1>5. CASE ~(Releases(w) /\ task[w].token = r)
  BY <1>s, <1>3, <1>5 DEF Shape, Keeps, Takes, Settles, Leaves, GivesBack, Republishes, Retires,
                          Releases, Excuses, SameGate
<1>. QED BY <1>4, <1>5

LEMMA RequestCovers ==
    ASSUME TypeOK, NEW q \in Requests, RequestStep(q) \/ RequestFault(q) \/ Expire(q),
           NEW r \in Requests, r \in excused \/ OnePlace(r), Covers(r)
    PROVE  Covers(r)'
<1>s. /\ Moves(q) \/ Enters(q) \/ Publishes(q) \/ Ends(q) \/ Uncovers(q)
      /\ r # q => (HoldsAdmission(r)' <=> HoldsAdmission(r))
  BY RequestShape DEF HoldsAdmission
<1>u. UNCHANGED <<unacked, pc, task>> BY RequestFrame DEF slotVars
<1>x. \A x \in Slots : CarriedAt(x, r)' <=> CarriedAt(x, r) BY <1>u DEF CarriedAt, Busy, Working
<1>p. FirstTask(q) \in Tasks /\ FirstTask(q).token = q /\ ready \in [Tasks -> Nat]
  BY FirstTaskType DEF FirstTask, TypeOK
<1>c. Carried(r)' <=> \/ \E t \in Tasks : t.token = r /\ ready'[t] > 0
                      \/ \E x \in Slots : CarriedAt(x, r)'
  BY DEF Carried, CarriedAt, Busy, Working
<1>1. ASSUME UNCHANGED ready PROVE Carried(r)' <=> Carried(r)
  BY <1>1, <1>c, <1>x, CarriedIn
<1>2. CASE Moves(q) BY <1>1, <1>2, <1>s DEF Moves, Covers, SameGate
<1>3. CASE Enters(q) BY <1>1, <1>3, <1>s DEF Enters, Covers
<1>4. CASE Publishes(q)
  <2>1. r # q => \A t \in Tasks : t.token = r => ready'[t] = ready[t]
    BY <1>4, <1>p DEF Publishes, More
  <2>2. r # q => (Carried(r)' <=> Carried(r)) BY <2>1, <1>c, <1>x, CarriedIn
  <2>. QED BY <1>4, <1>s, <2>2 DEF Publishes, Covers, SameGate
<1>5. CASE Ends(q)
  <2>1. CASE r = q
    <3>1. ~HoldsAdmission(r)' BY <1>5, <2>1 DEF Ends, HoldsAdmission
    <3>2. OnePlace(r) => ~Carried(r)
      BY <1>5, <2>1, <1>p DEF Ends, OnePlace, AtSlot, Carried, Busy, Working
    <3>. QED BY <1>1, <1>5, <3>1, <3>2 DEF Ends, Covers
  <2>2. CASE r # q BY <1>1, <1>5, <1>s, <2>2 DEF Ends, Covers
  <2>. QED BY <2>1, <2>2
<1>6. CASE Uncovers(q)
  <2>1. CASE r = q BY <1>6, <2>1 DEF Uncovers, Covers
  <2>2. CASE r # q
    <3>1. \A t \in Tasks : t.token = r => ready'[t] = ready[t]
      BY <1>6, <1>p, <2>2 DEF Uncovers, More
    <3>2. Carried(r)' <=> Carried(r) BY <3>1, <1>c, <1>x, CarriedIn
    <3>. QED BY <1>6, <1>s, <2>2, <3>2 DEF Uncovers, Covers
  <2>. QED BY <2>1, <2>2
<1>. QED BY <1>s, <1>2, <1>3, <1>4, <1>5, <1>6

LEMMA ServerCrashCovers ==
    ASSUME NEW R \in SUBSET Requests, ServerCrash(R), NEW r \in Requests, Covers(r)
    PROVE  Covers(r)'
<1>1. UNCHANGED <<ready, unacked, pc, task, capacity, excused>>
  BY DEF ServerCrash, brokerVars, slotVars
<1>2. Carried(r)' <=> Carried(r) BY <1>1 DEF Carried, Busy, Working
<1>3. HoldsAdmission(r)' => HoldsAdmission(r) BY DEF ServerCrash, HoldsAdmission
<1>. QED BY <1>1, <1>2, <1>3 DEF Covers

LEMMA ProcessCovers ==
    ASSUME TypeOK, DeliveryInv, NEW p \in Workers,
           \/ LinkLost(p) \/ Sigterm(p) \/ CloseConsumer(p) \/ Exit(p) \/ Crash(p) \/ Restart(p),
           NEW r \in Requests, Covers(r)
    PROVE  Covers(r)'
<1>. USE DEF brokerVars, reqVars, slotVars, history
<1>u. UNCHANGED <<ready, unacked, reqPc, capacity>> /\ excused \subseteq excused'
  BY DEF LinkLost, Sigterm, CloseConsumer, Exit, Crash, Restart
<1>. SUFFICES ASSUME r \notin excused', Carried(r)' PROVE Carried(r)
  BY <1>u DEF Covers, HoldsAdmission
<1>1. ASSUME NEW x \in Slots, CarriedAt(x, r)' PROVE CarriedAt(x, r)
  <2>1. CASE Crash(p)
    <3>1. CASE Host[x] # p BY <1>1, <2>1, <3>1, <1>u DEF Crash, CarriedAt, Busy, Working
    <3>2. CASE Host[x] = p
      <4>1. unacked[x] # NoTask /\ unacked[x].token = r
        BY <1>1, <2>1, <3>2, <1>u DEF Crash, CarriedAt, Busy, Working
      <4>2. pc[x] # "settle"
        BY <4>1, <2>1, <3>2 DEF Crash, SlotsOf, DeliveryInv, DeliveryAt
      <4>. QED BY <4>1, <4>2 DEF CarriedAt
    <3>. QED BY <3>1, <3>2
  <2>2. CASE UNCHANGED <<pc, task>> BY <1>1, <2>2, <1>u DEF CarriedAt, Busy, Working
  <2>. QED BY <2>1, <2>2 DEF LinkLost, Sigterm, CloseConsumer, Exit, Restart
<1>2. \/ \E t \in Tasks : t.token = r /\ ready[t] > 0
      \/ \E x \in Slots : CarriedAt(x, r)'
  BY <1>u DEF Carried, CarriedAt, Busy, Working
<1>. QED BY <1>1, <1>2, CarriedIn

----------------------------------------------------------------------------
(* No token stays behind.                                                  *)

AnchoredAt(w, r) ==
    \/ unacked[w] # NoTask /\ unacked[w].token = r /\ pc[w] # "settle"
    \/ pc[w] = "release" /\ task[w].token = r

LEMMA AnchoredIn ==
    \A r : Anchored(r) <=> \/ HoldsAdmission(r)
                           \/ \E t \in Tasks : t.token = r /\ ready[t] > 0
                           \/ \E w \in Slots : AnchoredAt(w, r)
BY DEF Anchored, AnchoredAt

\* A step of a slot keeps the token's anchor, hands it on or gives the token up.
LEMMA SlotHandsOn ==
    ASSUME TypeOK, DeliveryInv, EmptyInv, NEW w \in Slots, Shape(w), NEW r \in Requests
    PROVE  /\ \A t \in Tasks : (t.token = r /\ ready[t] > 0) => Anchored(r)'
           /\ AnchoredAt(w, r) => Anchored(r)' \/ r \notin capacity' \/ r \in leaked'
<1>t. /\ ready \in [Tasks -> Nat] /\ unacked \in [Slots -> Tasks \cup {NoTask}]
      /\ pc[w] # "idle" => /\ task[w] \in Tasks
                           /\ unacked[w] # NoTask => unacked[w].token = task[w].token
  BY TaskOfSlot DEF TypeOK, DeliveryInv, DeliveryAt
<1>. USE DEF Anchored
<1>1. CASE Keeps(w) BY <1>1 DEF Keeps, AnchoredAt, Busy, Working
<1>2. CASE Takes(w)
  <2>1. PICK t \in Tasks : /\ ready[t] > 0 /\ ready' = [ready EXCEPT ![t] = @ - 1]
                           /\ unacked'[w] = t /\ task'[w] = t
                           /\ pc[w] = "idle" /\ Connected(w) /\ pc'[w] = "check"
    BY <1>2 DEF Takes
  <2>2. \A u \in Tasks : u # t => ready'[u] = ready[u] BY <2>1, <1>t
  <2>3. ~AnchoredAt(w, r) BY <2>1 DEF AnchoredAt, EmptyInv, EmptyAt
  <2>. QED BY <2>1, <2>2, <2>3, NoTaskAssumption
<1>3. CASE Settles(w) BY <1>3, <1>t DEF Settles, AnchoredAt
<1>4. CASE Leaves(w) \/ Retires(w) BY <1>4 DEF Leaves, Retires, AnchoredAt
<1>5. CASE GivesBack(w)
  <2>1. unacked[w] \in Tasks BY <1>5, <1>t DEF GivesBack
  <2>2. \A u \in Tasks : ready'[u] = IF u = unacked[w] THEN ready[u] + 1 ELSE ready[u]
    BY <1>5, <1>t, <2>1 DEF GivesBack, More
  <2>3. /\ \A u \in Tasks : ready[u] > 0 => ready'[u] > 0
        /\ ready'[unacked[w]] > 0
    BY <2>1, <2>2, <1>t
  <2>. QED BY <1>5, <2>1, <2>3 DEF GivesBack, AnchoredAt
<1>6. CASE Republishes(w)
  <2>1. task[w] \in Tasks BY <1>6, <1>t DEF Republishes
  <2>2. \A u \in Tasks : ready'[u] = IF u = task[w] THEN ready[u] + 1 ELSE ready[u]
    BY <1>6, <1>t, <2>1 DEF Republishes, More
  <2>3. /\ \A u \in Tasks : ready[u] > 0 => ready'[u] > 0
        /\ ready'[task[w]] > 0
    BY <2>1, <2>2, <1>t
  <2>. QED BY <1>6, <1>t, <2>1, <2>3 DEF Republishes, AnchoredAt
<1>7. CASE Releases(w) BY <1>7 DEF Releases, AnchoredAt
<1>8. CASE Excuses(w)
  <2>1. \A t \in Tasks : ready[t] > 0 => ready'[t] > 0 BY <1>8 DEF Excuses
  <2>2. AnchoredAt(w, r) => task[w].token = r BY <1>8, <1>t DEF Excuses, AnchoredAt
  <2>3. AnchoredAt(w, r) => Anchored(r)' BY <1>8, <1>t, <2>2 DEF Excuses, AnchoredAt
  <2>. QED BY <2>1, <2>3
<1>. QED BY <1>1, <1>2, <1>3, <1>4, <1>5, <1>6, <1>7, <1>8 DEF Shape

LEMMA SlotAnchors ==
    ASSUME TypeOK, DeliveryInv, EmptyInv, NEW w \in Slots,
           SlotStep(w) \/ SlotFault(w) \/ Redeliver(w),
           NEW r \in Requests, r \in capacity => Anchored(r) \/ r \in leaked
    PROVE  r \in capacity' => Anchored(r)' \/ r \in leaked'
<1>s. Shape(w) BY SlotStepShape, SlotFaultShape, RedeliverShape
<1>o. /\ \A x \in Slots \ {w} : pc'[x] = pc[x] /\ task'[x] = task[x] /\ unacked'[x] = unacked[x]
      /\ HoldsAdmission(r)' <=> HoldsAdmission(r)
  BY OthersFrame DEF HoldsAdmission
<1>x. \A x \in Slots \ {w} : AnchoredAt(x, r) => Anchored(r)'
  BY <1>o DEF AnchoredAt, Anchored
<1>1. capacity' \subseteq capacity /\ leaked \subseteq leaked'
  BY <1>s DEF Shape, Keeps, Takes, Settles, Leaves, GivesBack, Republishes, Retires, Releases,
              Excuses, SameGate
<1>2. HoldsAdmission(r) => Anchored(r)' BY <1>o DEF Anchored
<1>. QED BY <1>s, <1>x, <1>1, <1>2, SlotHandsOn, AnchoredIn

LEMMA RequestAnchors ==
    ASSUME TypeOK, NEW q \in Requests, RequestStep(q) \/ RequestFault(q) \/ Expire(q),
           NEW r \in Requests, r \in capacity => Anchored(r) \/ r \in leaked
    PROVE  r \in capacity' => Anchored(r)' \/ r \in leaked'
<1>s. /\ Moves(q) \/ Enters(q) \/ Publishes(q) \/ Ends(q) \/ Uncovers(q)
      /\ r # q => (HoldsAdmission(r)' <=> HoldsAdmission(r))
  BY RequestShape DEF HoldsAdmission
<1>u. UNCHANGED <<unacked, pc, task>> BY RequestFrame DEF slotVars
<1>p. FirstTask(q) \in Tasks /\ FirstTask(q).token = q /\ ready \in [Tasks -> Nat]
  BY FirstTaskType DEF FirstTask, TypeOK
<1>1. ASSUME More(FirstTask(q))
      PROVE  /\ \A t \in Tasks : ready[t] > 0 => ready'[t] > 0
             /\ ready'[FirstTask(q)] > 0
  <2>1. \A t \in Tasks : ready'[t] = IF t = FirstTask(q) THEN ready[t] + 1 ELSE ready[t]
    BY <1>1, <1>p DEF More
  <2>. QED BY <2>1, <1>p
<1>2. \A t \in Tasks : ready[t] > 0 => ready'[t] > 0
  BY <1>s, <1>1 DEF Moves, Enters, Publishes, Ends, Uncovers
<1>3. Anchored(r) /\ (HoldsAdmission(r) => HoldsAdmission(r)') => Anchored(r)'
  BY <1>u, <1>2 DEF Anchored
<1>4. CASE r # q
  <2>1. (r \in capacity' => r \in capacity) /\ leaked \subseteq leaked'
    BY <1>s, <1>4 DEF Moves, Enters, Publishes, Ends, Uncovers, SameGate
  <2>. QED BY <1>s, <1>3, <1>4, <2>1
<1>5. CASE r = q
  <2>1. CASE Moves(q) BY <1>3, <1>5, <2>1 DEF Moves, SameGate
  <2>2. CASE Enters(q) BY <1>5, <2>2 DEF Enters, Anchored
  <2>3. CASE Publishes(q) BY <1>1, <1>5, <1>p, <2>3 DEF Publishes, Anchored
  <2>4. CASE Ends(q) BY <1>5, <2>4 DEF Ends
  <2>5. CASE Uncovers(q) BY <1>5, <2>5 DEF Uncovers, Anchored
  <2>. QED BY <1>s, <2>1, <2>2, <2>3, <2>4, <2>5
<1>. QED BY <1>4, <1>5

LEMMA ServerCrashAnchors ==
    ASSUME NEW R \in SUBSET Requests, ServerCrash(R),
           NEW r \in Requests, r \in capacity => Anchored(r) \/ r \in leaked
    PROVE  r \in capacity' => Anchored(r)' \/ r \in leaked'
<1>1. UNCHANGED <<ready, unacked, pc, task, capacity>> /\ leaked \subseteq leaked'
  BY DEF ServerCrash, brokerVars, slotVars
<1>2. HoldsAdmission(r) => HoldsAdmission(r)' \/ r \in leaked' BY DEF ServerCrash, HoldsAdmission
<1>. QED BY <1>1, <1>2 DEF Anchored

LEMMA ProcessAnchors ==
    ASSUME TypeOK, DeliveryInv, NEW p \in Workers,
           \/ LinkLost(p) \/ Sigterm(p) \/ CloseConsumer(p) \/ Exit(p) \/ Crash(p) \/ Restart(p),
           NEW r \in Requests, r \in capacity => Anchored(r) \/ r \in leaked
    PROVE  r \in capacity' => Anchored(r)' \/ r \in leaked'
<1>. USE DEF brokerVars, reqVars, slotVars, history
<1>u. UNCHANGED <<ready, unacked, reqPc, capacity>> /\ leaked \subseteq leaked'
  BY DEF LinkLost, Sigterm, CloseConsumer, Exit, Crash, Restart
<1>1. ASSUME NEW x \in Slots, AnchoredAt(x, r) PROVE AnchoredAt(x, r)' \/ r \in leaked'
  <2>1. CASE Crash(p) BY <1>1, <2>1, <1>u DEF Crash, AnchoredAt, SlotsOf
  <2>2. CASE UNCHANGED <<pc, task>> BY <1>1, <2>2, <1>u DEF AnchoredAt
  <2>. QED BY <2>1, <2>2 DEF LinkLost, Sigterm, CloseConsumer, Exit, Restart
<1>2. (HoldsAdmission(r) \/ \E t \in Tasks : t.token = r /\ ready[t] > 0) => Anchored(r)'
  BY <1>u DEF Anchored, HoldsAdmission
<1>3. \A x \in Slots : AnchoredAt(x, r)' => Anchored(r)' BY DEF Anchored, AnchoredAt
<1>. QED BY <1>u, <1>1, <1>2, <1>3, AnchoredIn

----------------------------------------------------------------------------
(* The theorems.                                                           *)

TokenInv == PlacesInv /\ CoversInv /\ EmptyInv /\ AnchorInv

LEMMA InitTokenInv == Init => TokenInv
<1>. SUFFICES ASSUME Init PROVE TokenInv
  OBVIOUS
<1>. USE DEF Init
<1>1. \A r \in Requests : OnePlace(r) BY DEF OnePlace, AtSlot
<1>2. \A r \in Requests : ~HoldsAdmission(r) /\ ~Carried(r)
  BY DEF HoldsAdmission, Carried, Busy, Working
<1>. QED BY <1>1, <1>2 DEF TokenInv, PlacesInv, CoversInv, Covers, EmptyInv, EmptyAt, AnchorInv

LEMMA EmptyFrame ==
    EmptyInv /\ UNCHANGED <<unacked, slotVars, procVars>> => EmptyInv'
BY DEF EmptyInv, EmptyAt, Connected, slotVars, procVars

\* The four parts about one token, over one step of the pipeline.
LEMMA StepKeepsTokens ==
    TokenInv /\ TypeOK /\ TypeOK' /\ DeliveryInv /\ [Next]_vars => TokenInv'
<1>. SUFFICES ASSUME TokenInv, TypeOK, TypeOK', DeliveryInv, [Next]_vars
              PROVE  TokenInv'
  OBVIOUS
<1>. DEFINE P(r) == r \in excused \/ OnePlace(r)
            A(r) == r \in capacity => Anchored(r) \/ r \in leaked
<1>1. EmptyInv /\ \A r \in Requests : P(r) /\ Covers(r) /\ A(r)
  BY DEF TokenInv, PlacesInv, CoversInv, AnchorInv
<1>2. CASE UNCHANGED vars
  BY <1>1, <1>2, EmptyFrame
     DEF TokenInv, PlacesInv, CoversInv, AnchorInv, OnePlace, AtSlot, Covers, Carried, Anchored,
         HoldsAdmission, Busy, Working, vars, stepVars, dbVars, brokerVars, reqVars, slotVars,
         procVars, history
<1>3. ASSUME NEW q \in Requests, RequestStep(q) \/ RequestFault(q) \/ Expire(q)
      PROVE  EmptyInv' /\ \A r \in Requests : (P(r) /\ Covers(r) /\ A(r))'
  BY <1>1, <1>3, RequestFrame, EmptyFrame, RequestPlaces, RequestCovers, RequestAnchors
<1>4. ASSUME NEW R \in SUBSET Requests, ServerCrash(R)
      PROVE  EmptyInv' /\ \A r \in Requests : (P(r) /\ Covers(r) /\ A(r))'
  <2>1. UNCHANGED <<unacked, slotVars, procVars>> BY <1>4 DEF ServerCrash, brokerVars
  <2>. QED BY <1>1, <1>4, <2>1, EmptyFrame, ServerCrashPlaces, ServerCrashCovers, ServerCrashAnchors
<1>5. ASSUME NEW w \in Slots, SlotStep(w) \/ SlotFault(w) \/ Redeliver(w)
      PROVE  EmptyInv' /\ \A r \in Requests : (P(r) /\ Covers(r) /\ A(r))'
  BY <1>1, <1>5, SlotEmpties, SlotPlaces, SlotCovers, SlotAnchors
<1>6. ASSUME NEW p \in Workers,
             \/ LinkLost(p) \/ Sigterm(p) \/ CloseConsumer(p) \/ Exit(p) \/ Crash(p) \/ Restart(p)
      PROVE  EmptyInv' /\ \A r \in Requests : (P(r) /\ Covers(r) /\ A(r))'
  BY <1>1, <1>6, ProcessEmpties, ProcessPlaces, ProcessCovers, ProcessAnchors
<1>7. CASE Next
  <2>1. Step BY <1>7 DEF Next
  <2>2. Submissions \cup Rejudges \in SUBSET Requests /\ Requeues \in SUBSET Requests
    BY DEF Requests
  <2>3. EmptyInv' /\ \A r \in Requests : (P(r) /\ Covers(r) /\ A(r))'
    BY <2>1, <2>2, <1>3, <1>4, <1>5, <1>6 DEF Step
  <2>. QED BY <2>3 DEF TokenInv, PlacesInv, CoversInv, AnchorInv
<1>. QED BY <1>2, <1>7

\* The invariant in every reachable state: outside the failures that excuse a
\* token, its task is in one place (PlacesInv), so a redelivered, republished or
\* given-back attempt is never judged by two slots.
THEOREM TokensAreInvariant == Spec => []TokenInv
<1>1. Init => TypeOK /\ DeliveryInv /\ TokenInv BY InitTypeOK, InitDelivery, InitTokenInv
<1>2. TypeOK /\ DeliveryInv /\ [Next]_vars => TypeOK' /\ DeliveryInv' BY StepKeepsTypes
<1>3. TypeOK /\ TypeOK' /\ DeliveryInv /\ TokenInv /\ [Next]_vars => TokenInv'
  BY StepKeepsTokens
<1>. QED BY <1>1, <1>2, <1>3, PTL DEF Spec

\* What is in flight holds its token, for any number of requests, slots, worker
\* processes, retries and failures: a release, by a request or by a worker,
\* comes when no copy of the task is left, unless its token expired, its confirm
\* was lost or the broker delivered it twice.
THEOREM TokensCoverTasks == Spec => []TokenCoversTask
<1>1. TokenInv => TokenCoversTask BY DEF TokenInv, CoversInv, Covers, TokenCoversTask
<1>. QED BY <1>1, TokensAreInvariant, PTL

\* No place of the gate is lost: a token that is neither released nor expired
\* still has somebody who will release it, unless a crash or a failed Redis call
\* left it to its TTL.
THEOREM NoTokenStays == Spec => []NoTokenLeak
<1>1. TypeOK /\ TokenInv => NoTokenLeak
  <2>. SUFFICES ASSUME TypeOK, TokenInv, NEW r \in capacity, r \notin leaked,
                       ~HoldsAdmission(r), ~Carried(r)
                PROVE  \E w \in Slots : pc[w] # "idle" /\ task[w].token = r
    BY DEF NoTokenLeak
  <2>1. Anchored(r) BY DEF TokenInv, AnchorInv, TypeOK
  <2>. QED BY <2>1 DEF Anchored, Carried
<1>. QED BY <1>1, TypeCorrect, TokensAreInvariant, PTL

----------------------------------------------------------------------------
(* What is about a submission that is not stored yet.                       *)

RunVerdicts == Verdicts \ {"Compile Error"}
Known(s) == status[s] # "none"

\* A request, a queued copy, a delivery and a slot are about a stored submission.
KnownByRequest(r) ==
    /\ reqPc[r] \in {"stored", "failed", "relist"} => Known(Target[r])
    /\ (r \notin Submissions /\ reqPc[r] # "new") => Known(Target[r])
KnownByTask(t) == ready[t] > 0 => Known(SubOf(t))
KnownBySlot(w) ==
    /\ unacked[w] # NoTask => Known(SubOf(unacked[w]))
    /\ pc[w] # "idle" => Known(SubOf(task[w]))
    /\ pc[w] = "final" => verdict[w] \in RunVerdicts
Unknown(s) ==
    /\ reqPc[s] \in {"new", "admitted"} => ~Known(s)
    /\ ~Known(s) => rows[s] = 0
KnownInv ==
    /\ \A r \in Requests : KnownByRequest(r)
    /\ \A t \in Tasks : KnownByTask(t)
    /\ \A w \in Slots : KnownBySlot(w)
    /\ \A s \in Submissions : Unknown(s)

\* How a slot's step moves the submission s it works on: judging goes from load to
\* a verdict, fails on the way, or is retried or given up; no other step of a
\* slot writes to the database.
Held(s) == status'[s] = status[s] /\ rows'[s] = rows[s]
Quiet == {"idle", "check", "ack", "release", "settle", "reject"}
JudgeMove(w, s) ==
    \/ Held(s) /\ acceptCount' = acceptCount /\ pc'[w] \in Quiet
    \/ /\ pc[w] = "check" /\ pc'[w] = "load" /\ status[s] \in Open
       /\ Held(s) /\ acceptCount' = acceptCount
    \/ /\ pc[w] = "load" /\ pc'[w] = "clear" /\ status'[s] = "Judging"
       /\ rows'[s] = rows[s] /\ acceptCount' = acceptCount
    \/ /\ pc[w] = "load" /\ pc'[w] = "ack" /\ status'[s] = "System Error"
       /\ rows'[s] = rows[s] /\ acceptCount' = acceptCount
    \/ /\ pc[w] = "clear" /\ pc'[w] = "run" /\ status'[s] = status[s]
       /\ rows'[s] = 0 /\ acceptCount' = acceptCount
    \/ /\ pc[w] = "run" /\ pc'[w] = "ack" /\ acceptCount' = acceptCount
       /\ \/ status'[s] = "Compile Error" /\ rows'[s] = rows[s]
          \/ status'[s] = "System Error"
    \/ /\ pc[w] = "run" /\ pc'[w] = "final" /\ status'[s] = status[s]
       /\ rows'[s] = rows[s] + 1 /\ acceptCount' = acceptCount
    \/ /\ pc[w] = "final" /\ pc'[w] \in {"ack", "failed"} /\ status'[s] = verdict[w]
       /\ rows'[s] = rows[s]
       /\ acceptCount' = IF verdict[w] = "Accepted" THEN acceptCount + 1 ELSE acceptCount
    \/ /\ pc[w] \in {"load", "clear", "run", "final"} /\ pc'[w] = "failed"
       /\ status'[s] = status[s] /\ acceptCount' = acceptCount
    \/ /\ pc[w] = "failed" /\ pc'[w] \in {"republish", "reject"}
       /\ rows'[s] = rows[s] /\ acceptCount' = acceptCount
       /\ \/ status'[s] = status[s]
          \/ pc'[w] = "republish" /\ status'[s] = "Pending"
          \/ pc'[w] = "reject" /\ status'[s] = "System Error"

\* A step of a slot moves the submission of its task and no other, and keeps its
\* task or the token of it until it is idle.
SlotMove(w) ==
    /\ \A s \in Submissions : pc[w] = "idle" \/ SubOf(task[w]) # s => Held(s)
    /\ IF pc[w] = "idle" THEN pc'[w] = "check" /\ acceptCount' = acceptCount
                         ELSE JudgeMove(w, SubOf(task[w]))
    /\ (pc[w] # "idle" /\ pc'[w] # "idle") => task'[w].token = task[w].token
    /\ pc'[w] = "final" => verdict'[w] \in RunVerdicts
    /\ \A x \in Slots \ {w} : verdict'[x] = verdict[x]
    /\ \A s \in Submissions : Known(s) => Known(s)'

\* One write moves the submission it names.
LEMMA SetStatusMoves ==
    ASSUME TypeOK, NEW w \in Slots, pc[w] # "idle", NEW v, SetStatus(w, v)
    PROVE  /\ status'[SubOf(task[w])] = v
           /\ \A s \in Submissions : SubOf(task[w]) # s => status'[s] = status[s]
           /\ v # "none" => \A s \in Submissions : Known(s) => Known(s)'
BY TaskOfSlot DEF SetStatus, TypeOK, Known

LEMMA RowsMove ==
    ASSUME TypeOK, NEW w \in Slots, pc[w] # "idle", NEW n,
           rows' = [rows EXCEPT ![SubOf(task[w])] = n]
    PROVE  /\ rows'[SubOf(task[w])] = n
           /\ \A s \in Submissions : SubOf(task[w]) # s => rows'[s] = rows[s]
BY TaskOfSlot DEF TypeOK

LEMMA ConcludeMoves ==
    ASSUME TypeOK, NEW w \in Slots, pc[w] = "run", NEW v \in Terminal, Conclude(w, v),
           v = "System Error" \/ v \in Verdicts, UNCHANGED <<acceptCount, task>>
    PROVE  SlotMove(w)
<1>. DEFINE s == SubOf(task[w])
<1>1. CASE v \in {"Compile Error", "System Error"}
  <2>1. /\ status'[s] = v /\ rows' = rows /\ verdict' = verdict /\ pc'[w] = "ack"
        /\ \A x \in Submissions : s # x => Held(x)
        /\ \A x \in Submissions : Known(x) => Known(x)'
    BY <1>1, SetStatusMoves DEF Conclude, Goto, TypeOK, Held
  <2>. QED BY <1>1, <2>1, TaskOfSlot, StatusValues DEF SlotMove, JudgeMove, TypeOK
<1>2. CASE v \notin {"Compile Error", "System Error"}
  <2>1. /\ status' = status /\ pc'[w] = "final" /\ verdict' = [verdict EXCEPT ![w] = v]
        /\ rows' = [rows EXCEPT ![s] = rows[s] + 1]
        /\ v \in RunVerdicts
    BY <1>2 DEF Conclude, Goto, TypeOK, RunVerdicts
  <2>2. rows'[s] = rows[s] + 1 /\ \A x \in Submissions : s # x => Held(x)
    BY <2>1, RowsMove DEF Held
  <2>. QED BY <2>1, <2>2, TaskOfSlot DEF SlotMove, JudgeMove, TypeOK, Known
<1>. QED BY <1>1, <1>2

LEMMA SlotStepMoves ==
    ASSUME TypeOK, KnownInv, NEW w \in Slots, SlotStep(w)
    PROVE  SlotMove(w)
<1>. USE DEF Goto, Idle, Fine, dbVars, Quiet, Held, Known
<1>1. ASSUME NEW t \in Tasks, Receive(w, t) PROVE SlotMove(w)
  BY <1>1 DEF Receive, SlotMove, TypeOK
<1>2. CASE CheckFinished(w)
  BY <1>2, TaskOfSlot DEF CheckFinished, SlotMove, JudgeMove, TypeOK
<1>3. CASE StartJudging(w)
  <2>0. pc[w] # "idle" BY <1>3 DEF StartJudging
  <2>1. CASE SetStatus(w, "System Error") /\ pc'[w] = "ack"
    <3>1. /\ status'[SubOf(task[w])] = "System Error"
          /\ \A s \in Submissions : SubOf(task[w]) # s => status'[s] = status[s]
          /\ \A s \in Submissions : Known(s) => Known(s)'
      BY ONLY <2>0, <2>1, SetStatusMoves, TypeOK, w \in Slots
    <3>. QED BY <1>3, <2>1, <3>1, TaskOfSlot DEF StartJudging, SlotMove, JudgeMove, TypeOK
  <2>2. CASE SetStatus(w, "Judging") /\ pc'[w] = "clear"
    <3>1. /\ status'[SubOf(task[w])] = "Judging"
          /\ \A s \in Submissions : SubOf(task[w]) # s => status'[s] = status[s]
          /\ \A s \in Submissions : Known(s) => Known(s)'
      BY ONLY <2>0, <2>2, SetStatusMoves, TypeOK, w \in Slots
    <3>. QED BY <1>3, <2>2, <3>1, TaskOfSlot DEF StartJudging, SlotMove, JudgeMove, TypeOK
  <2>. QED BY <1>3, <2>1, <2>2 DEF StartJudging, TypeOK
<1>4. CASE DeleteOldResults(w)
  <2>1. /\ rows'[SubOf(task[w])] = 0
        /\ \A s \in Submissions : SubOf(task[w]) # s => rows'[s] = rows[s]
    BY <1>4, RowsMove DEF DeleteOldResults
  <2>. QED BY <1>4, <2>1, TaskOfSlot DEF DeleteOldResults, SlotMove, JudgeMove, TypeOK
<1>5. CASE RunProgram(w)
  BY <1>5, ConcludeMoves, WorkersAssumption, StatusValues DEF RunProgram
<1>6. CASE WriteFinalStatus(w)
  <2>1. verdict[w] \in RunVerdicts BY <1>6 DEF WriteFinalStatus, KnownInv, KnownBySlot
  <2>2. verdict[w] \in Statuses \ {"none"}
    BY <2>1, StatusValues DEF RunVerdicts, Verdicts
  <2>. QED BY <1>6, <2>2, TaskOfSlot, SetStatusMoves
           DEF WriteFinalStatus, SlotMove, JudgeMove, TypeOK
<1>7. CASE Ack(w) BY <1>7, TaskOfSlot DEF Ack, SlotMove, JudgeMove, TypeOK
<1>8. CASE ReleaseCapacity(w) BY <1>8, TaskOfSlot DEF ReleaseCapacity, SlotMove, JudgeMove, TypeOK
<1>9. CASE ResetForRetry(w, TRUE)
  BY <1>9, TaskOfSlot, StatusValues, SetStatusMoves
     DEF ResetForRetry, NextAttempt, Tasks, SlotMove, JudgeMove, TypeOK
<1>10. CASE RepublishConfirmed(w)
  BY <1>10, TaskOfSlot DEF RepublishConfirmed, SlotMove, JudgeMove, TypeOK
<1>11. CASE AckRetried(w) BY <1>11, TaskOfSlot DEF AckRetried, SlotMove, JudgeMove, TypeOK
<1>12. CASE GiveUp(w, TRUE)
  BY <1>12, TaskOfSlot, StatusValues, SetStatusMoves DEF GiveUp, SlotMove, JudgeMove, TypeOK
<1>13. CASE DeadLetter(w) BY <1>13, TaskOfSlot DEF DeadLetter, SlotMove, JudgeMove, TypeOK
<1>. QED BY <1>1, <1>2, <1>3, <1>4, <1>5, <1>6, <1>7, <1>8, <1>9, <1>10, <1>11, <1>12,
            <1>13 DEF SlotStep

LEMMA SlotFaultMoves ==
    ASSUME TypeOK, KnownInv, NEW w \in Slots, SlotFault(w)
    PROVE  SlotMove(w)
<1>. USE DEF Goto, Idle, Fine, dbVars, Quiet, Held, Known
<1>1. CASE CheckFails(w) BY <1>1, TaskOfSlot DEF CheckFails, SlotMove, JudgeMove, TypeOK
<1>2. CASE JudgeFails(w)
  <2>1. \A s \in Submissions : SubOf(task[w]) # s => rows'[s] = rows[s]
    BY <1>2, RowsMove DEF JudgeFails
  <2>. QED BY <1>2, <2>1, TaskOfSlot DEF JudgeFails, SlotMove, JudgeMove, TypeOK
<1>3. CASE RunSystemError(w)
  <2>1. \A s \in Submissions : SubOf(task[w]) # s => rows'[s] = rows[s]
    BY <1>3, RowsMove DEF RunSystemError
  <2>2. /\ status'[SubOf(task[w])] = "System Error"
        /\ \A s \in Submissions : SubOf(task[w]) # s => status'[s] = status[s]
        /\ \A s \in Submissions : Known(s) => Known(s)'
    BY ONLY <1>3, SetStatusMoves, TypeOK, w \in Slots DEF RunSystemError
  <2>. QED BY <1>3, <2>1, <2>2, TaskOfSlot DEF RunSystemError, SlotMove, JudgeMove, TypeOK
<1>4. CASE CommitReplyLost(w)
  <2>1. verdict[w] \in RunVerdicts BY <1>4 DEF CommitReplyLost, KnownInv, KnownBySlot
  <2>2. verdict[w] \in Statuses \ {"none"}
    BY <2>1, StatusValues DEF RunVerdicts, Verdicts
  <2>. QED BY <1>4, <2>2, TaskOfSlot, SetStatusMoves
           DEF CommitReplyLost, SlotMove, JudgeMove, TypeOK
<1>5. CASE RunKilledByShutdown(w)
  BY <1>5, ConcludeMoves, StatusValues DEF RunKilledByShutdown, Verdicts
<1>6. CASE AckLost(w) BY <1>6, TaskOfSlot DEF AckLost, SlotMove, JudgeMove, TypeOK
<1>7. CASE ReleaseCapacityFails(w)
  BY <1>7, TaskOfSlot DEF ReleaseCapacityFails, SlotMove, JudgeMove, TypeOK
<1>8. CASE ResetForRetry(w, FALSE)
  BY <1>8, TaskOfSlot DEF ResetForRetry, NextAttempt, Tasks, SlotMove, JudgeMove, TypeOK
<1>9. CASE RepublishFails(w)
  BY <1>9, TaskOfSlot DEF RepublishFails, SlotMove, JudgeMove, TypeOK
<1>10. CASE GiveUp(w, FALSE) BY <1>10, TaskOfSlot DEF GiveUp, SlotMove, JudgeMove, TypeOK
<1>. QED BY <1>1, <1>2, <1>3, <1>4, <1>5, <1>6, <1>7, <1>8, <1>9, <1>10 DEF SlotFault

\* How a request moves the submission it is about.
RequestMove(r) ==
    LET s == Target[r]
    IN  /\ \A x \in Submissions \ {s} : Held(x)
        /\ \A q \in Requests \ {r} : reqPc'[q] = reqPc[q]
        /\ \/ /\ Held(s) /\ acceptCount' = acceptCount
              /\ reqPc'[r] \in {"stored", "failed"} => reqPc[r] = "stored"
           \/ /\ r = s /\ reqPc[r] = "admitted" /\ reqPc'[r] = "stored"
              /\ status'[s] = "Pending" /\ rows'[s] = rows[s] /\ acceptCount' = acceptCount
           \/ /\ r \in Rejudges /\ reqPc[r] = "admitted" /\ reqPc'[r] = "stored"
              /\ status'[s] = "Pending" /\ rows'[s] = 0
              /\ acceptCount' = IF seen[r] = "Accepted" /\ acceptCount > 0
                                THEN acceptCount - 1 ELSE acceptCount
           \/ /\ reqPc[r] = "failed" /\ reqPc'[r] = "release" /\ status'[s] = "System Error"
              /\ rows'[s] = rows[s] /\ acceptCount' = acceptCount

LEMMA RequestMoves ==
    ASSUME TypeOK, NEW r \in Requests, RequestStep(r) \/ RequestFault(r)
    PROVE  RequestMove(r)
<1>. USE TargetType DEF TypeOK, ReqGoto, Fine, dbVars, reqVars, Held, RequestMove
<1>1. CASE ReadForRejudge(r) BY <1>1 DEF ReadForRejudge
<1>2. CASE ListPending(r) BY <1>2 DEF ListPending
<1>3. CASE Acquire(r) BY <1>3 DEF Acquire
<1>4. CASE CreateSubmission(r) BY <1>4, RequestsAssumption DEF CreateSubmission
<1>5. CASE ResetSubmission(r)
  <2>1. /\ status'[Target[r]] = "Pending" /\ rows'[Target[r]] = 0
        /\ \A x \in Submissions \ {Target[r]} : Held(x)
    BY <1>5 DEF ResetSubmission
  <2>. QED BY <1>5, <2>1 DEF ResetSubmission
<1>6. CASE PublishConfirmed(r) BY <1>6 DEF PublishConfirmed
<1>7. CASE MarkPublishFailed(r) BY <1>7 DEF MarkPublishFailed
<1>8. CASE ReleaseAdmission(r) BY <1>8 DEF ReleaseAdmission
<1>9. CASE AcquireReplyLost(r) BY <1>9 DEF AcquireReplyLost
<1>10. CASE StoreFails(r) BY <1>10 DEF StoreFails
<1>11. CASE PublishFails(r) BY <1>11 DEF PublishFails
<1>12. CASE MarkPublishFailedFails(r) BY <1>12 DEF MarkPublishFailedFails
<1>13. CASE ReleaseAdmissionFails(r) BY <1>13 DEF ReleaseAdmissionFails
<1>. QED BY <1>1, <1>2, <1>3, <1>4, <1>5, <1>6, <1>7, <1>8, <1>9, <1>10, <1>11, <1>12,
            <1>13 DEF RequestStep, RequestFault

----------------------------------------------------------------------------
(* Everything is about a stored submission.                                *)

\* A request learns of a submission from its row or from the row it inserts.
LEMMA RequestKnown ==
    ASSUME TypeOK, KnownInv, NEW r \in Requests, RequestStep(r) \/ RequestFault(r)
    PROVE  KnownInv'
<1>. DEFINE s == Target[r]
<1>1. RequestMove(r) BY RequestMoves
<1>2. s \in Submissions /\ (r \in Submissions => r = s) BY RequestsAssumption
<1>3. \A x \in Submissions : Known(x) => Known(x)'
  BY <1>1, <1>2 DEF RequestMove, Known, Held
<1>4. \A w \in Slots : KnownBySlot(w)'
  BY <1>3, RequestFrame, SubOfType DEF KnownInv, KnownBySlot, slotVars, SubOf, TypeOK
<1>5. ASSUME NEW t \in Tasks PROVE KnownByTask(t)'
  <2>1. KnownByTask(t) /\ SubOf(t) \in Submissions BY SubOfType DEF KnownInv
  <2>2. CASE ready'[t] = ready[t] BY <1>3, <2>1, <2>2 DEF KnownByTask, SubOf
  <2>3. CASE ready' # ready /\ ready'[t] # ready[t]
    <3>1. reqPc[r] \in {"stored", "relist"} /\ Enqueue(FirstTask(r))
      BY <2>3 DEF RequestStep, RequestFault, ReadForRejudge, ListPending, Acquire, CreateSubmission,
         ResetSubmission, PublishConfirmed, MarkPublishFailed, ReleaseAdmission, AcquireReplyLost,
         StoreFails, PublishFails, MarkPublishFailedFails, ReleaseAdmissionFails, brokerVars
    <3>2. t = FirstTask(r) BY <2>3, <3>1 DEF Enqueue, TypeOK
    <3>3. SubOf(t) = s BY <3>2 DEF SubOf, FirstTask
    <3>4. Known(s) BY <3>1 DEF KnownInv, KnownByRequest
    <3>. QED BY <1>2, <1>3, <3>3, <3>4 DEF KnownByTask, SubOf
  <2>. QED BY <2>2, <2>3
<1>6. ASSUME NEW q \in Requests PROVE KnownByRequest(q)'
  <2>1. KnownByRequest(q) /\ Target[q] \in Submissions BY TargetType DEF KnownInv
  <2>2. CASE q # r BY <1>1, <1>3, <2>1, <2>2 DEF RequestMove, KnownByRequest
  <2>3. CASE q = r
    <3>. USE <1>3, <2>1, <2>3, RequestsAssumption
         DEF KnownByRequest, Known, TypeOK, ReqGoto, dbVars, reqVars
    <3>1. CASE ReadForRejudge(r) BY <3>1 DEF ReadForRejudge
    <3>2. CASE ListPending(r) BY <3>2 DEF ListPending
    <3>3. CASE Acquire(r) BY <3>3 DEF Acquire, ReadyToAcquire
    <3>4. CASE CreateSubmission(r) BY <3>4 DEF CreateSubmission
    <3>5. CASE ResetSubmission(r) BY <3>5 DEF ResetSubmission
    <3>6. CASE PublishConfirmed(r) BY <3>6 DEF PublishConfirmed
    <3>7. CASE MarkPublishFailed(r) BY <3>7 DEF MarkPublishFailed
    <3>8. CASE ReleaseAdmission(r) BY <3>8 DEF ReleaseAdmission
    <3>9. CASE AcquireReplyLost(r) BY <3>9 DEF AcquireReplyLost, ReadyToAcquire
    <3>10. CASE StoreFails(r) BY <3>10 DEF StoreFails
    <3>11. CASE PublishFails(r) BY <3>11 DEF PublishFails
    <3>12. CASE MarkPublishFailedFails(r) BY <3>12 DEF MarkPublishFailedFails
    <3>13. CASE ReleaseAdmissionFails(r) BY <3>13 DEF ReleaseAdmissionFails
    <3>. QED BY <3>1, <3>2, <3>3, <3>4, <3>5, <3>6, <3>7, <3>8, <3>9, <3>10, <3>11, <3>12,
                <3>13 DEF RequestStep, RequestFault
  <2>. QED BY <2>2, <2>3
<1>7. ASSUME NEW x \in Submissions PROVE Unknown(x)'
  <2>1. Unknown(x) BY DEF KnownInv
  <2>2. CASE x # s
    <3>1. x # r /\ Held(x) /\ reqPc'[x] = reqPc[x]
      BY <1>1, <1>2, <2>2 DEF RequestMove, Requests
    <3>. QED BY <2>1, <3>1 DEF Unknown, Held, Known
  <2>3. CASE x = s /\ r = s
    <3>1. /\ reqPc'[r] # "new"
          /\ reqPc'[r] = "admitted" => status'[r] = status[r] /\ reqPc[r] = "new"
      BY <2>3, RequestsAssumption DEF TypeOK, ReqGoto, RequestStep, RequestFault, ReadForRejudge,
         ListPending, Acquire, ReadyToAcquire, CreateSubmission, ResetSubmission,
         PublishConfirmed, MarkPublishFailed, ReleaseAdmission, AcquireReplyLost, StoreFails,
         PublishFails, MarkPublishFailedFails, ReleaseAdmissionFails, dbVars
    <3>2. ~Known(x)' => Held(x)
      BY <1>1, <2>3 DEF RequestMove, Known
    <3>. QED BY <1>3, <2>1, <2>3, <3>1, <3>2 DEF Unknown, Known, Held
  <2>4. CASE x = s /\ r # s
    <3>1. reqPc'[x] = reqPc[x] BY <1>1, <2>4 DEF RequestMove, Requests
    <3>2. r \notin Submissions BY <1>2, <2>4
    <3>3. CASE Held(x) BY <2>1, <3>1, <3>3 DEF Unknown, Known, Held
    <3>4. CASE ~Held(x)
      <4>1. reqPc[r] # "new" BY <1>1, <2>4, <3>4 DEF RequestMove
      <4>2. Known(x) BY <2>4, <3>2, <4>1 DEF KnownInv, KnownByRequest
      <4>. QED BY <1>3, <2>1, <3>1, <4>2 DEF Unknown
    <3>. QED BY <3>3, <3>4
  <2>. QED BY <2>2, <2>3, <2>4
<1>. QED BY <1>4, <1>5, <1>6, <1>7 DEF KnownInv

\* Where the tasks a slot enqueues, holds and works on come from.
LEMMA SlotTasks ==
    ASSUME TypeOK, DeliveryInv, NEW w \in Slots, SlotStep(w) \/ SlotFault(w)
    PROVE  /\ \A t \in Tasks : ready'[t] > 0 => \/ ready[t] > 0
                                                \/ pc[w] # "idle" /\ t = task[w]
                                                \/ unacked[w] # NoTask /\ t = unacked[w]
           /\ unacked'[w] # NoTask => \/ unacked'[w] = unacked[w]
                                      \/ \E t \in Tasks : ready[t] > 0 /\ unacked'[w] = t
           /\ pc'[w] # "idle" => \/ pc[w] # "idle" /\ task'[w].token = task[w].token
                                 \/ \E t \in Tasks : ready[t] > 0 /\ task'[w] = t
<1>. USE DEF TypeOK, Goto, Idle, Settle, brokerVars, slotVars
<1>1. ASSUME NEW t \in Tasks, Receive(w, t)
      PROVE  /\ \A u \in Tasks : ready'[u] > 0 => ready[u] > 0
             /\ unacked'[w] = t /\ task'[w] = t /\ ready[t] > 0
  BY <1>1 DEF Receive
<1>2. ASSUME UNCHANGED ready PROVE \A t \in Tasks : ready'[t] > 0 => ready[t] > 0
  BY <1>2
<1>3. CASE CheckFinished(w) BY <1>2, <1>3 DEF CheckFinished
<1>4. CASE StartJudging(w) BY <1>2, <1>4 DEF StartJudging
<1>5. CASE DeleteOldResults(w) BY <1>2, <1>5 DEF DeleteOldResults
<1>6. CASE RunProgram(w) BY <1>2, <1>6 DEF RunProgram, Conclude
<1>7. CASE WriteFinalStatus(w) BY <1>2, <1>7 DEF WriteFinalStatus
<1>8. CASE Ack(w) BY <1>2, <1>8 DEF Ack
<1>9. CASE ReleaseCapacity(w) BY <1>2, <1>9 DEF ReleaseCapacity
<1>10. CASE ResetForRetry(w, TRUE) \/ ResetForRetry(w, FALSE)
  BY <1>2, <1>10, TaskOfSlot DEF ResetForRetry, NextAttempt, Tasks
<1>11. CASE RepublishConfirmed(w)
  <2>1. \A t \in Tasks : ready'[t] > 0 => ready[t] > 0 \/ t = task[w]
    BY <1>11, TaskOfSlot DEF RepublishConfirmed, Enqueue
  <2>. QED BY <1>11, <2>1 DEF RepublishConfirmed
<1>12. CASE AckRetried(w) BY <1>2, <1>12 DEF AckRetried
<1>13. CASE GiveUp(w, TRUE) \/ GiveUp(w, FALSE) BY <1>2, <1>13 DEF GiveUp
<1>14. CASE DeadLetter(w) BY <1>2, <1>14 DEF DeadLetter
<1>15. CASE CheckFails(w)
  <2>1. Connected(w) => unacked[w] # NoTask
    BY <1>15 DEF CheckFails, DeliveryInv, DeliveryAt
  <2>2. \A t \in Tasks : ready'[t] > 0 => ready[t] > 0 \/ (unacked[w] # NoTask /\ t = unacked[w])
    BY <1>15, <2>1 DEF CheckFails, GiveBack, Enqueue
  <2>. QED BY <1>15, <2>2 DEF CheckFails, GiveBack
<1>16. CASE JudgeFails(w) BY <1>2, <1>16 DEF JudgeFails
<1>17. CASE RunSystemError(w) BY <1>2, <1>17 DEF RunSystemError
<1>18. CASE CommitReplyLost(w) BY <1>2, <1>18 DEF CommitReplyLost
<1>19. CASE RunKilledByShutdown(w) BY <1>2, <1>19 DEF RunKilledByShutdown, Conclude
<1>20. CASE AckLost(w) BY <1>2, <1>20 DEF AckLost
<1>21. CASE ReleaseCapacityFails(w) BY <1>2, <1>21 DEF ReleaseCapacityFails
<1>22. CASE RepublishFails(w)
  <2>1. Connected(w) => unacked[w] # NoTask
    BY <1>22 DEF RepublishFails, DeliveryInv, DeliveryAt
  <2>2. \A t \in Tasks : ready'[t] > 0 => \/ ready[t] > 0 \/ t = task[w]
                                          \/ unacked[w] # NoTask /\ t = unacked[w]
    BY <1>22, <2>1, TaskOfSlot DEF RepublishFails
  <2>. QED BY <1>22, <2>2 DEF RepublishFails
<1>. QED BY <1>1, <1>3, <1>4, <1>5, <1>6, <1>7, <1>8, <1>9, <1>10, <1>11, <1>12, <1>13, <1>14,
            <1>15, <1>16, <1>17, <1>18, <1>19, <1>20, <1>21, <1>22 DEF SlotStep, SlotFault

\* A slot works on what the broker delivered.
LEMMA SlotKnown ==
    ASSUME TypeOK, DeliveryInv, KnownInv, NEW w \in Slots, SlotStep(w) \/ SlotFault(w)
    PROVE  KnownInv'
<1>1. SlotMove(w) BY SlotStepMoves, SlotFaultMoves
<1>2. \A s \in Submissions : Known(s) => Known(s)' BY <1>1 DEF SlotMove
<1>3. reqPc' = reqPc BY OthersFrame
<1>4. ASSUME NEW r \in Requests PROVE KnownByRequest(r)'
  BY <1>2, <1>3, TargetType DEF KnownInv, KnownByRequest
<1>5. ASSUME NEW t \in Tasks PROVE KnownByTask(t)'
  <2>1. SubOf(t) \in Submissions BY SubOfType
  <2>2. ASSUME ready'[t] > 0 PROVE Known(SubOf(t))
    <3>1. CASE ready[t] > 0 BY <3>1 DEF KnownInv, KnownByTask
    <3>2. CASE pc[w] # "idle" /\ t = task[w] BY <3>2 DEF KnownInv, KnownBySlot
    <3>3. CASE unacked[w] # NoTask /\ t = unacked[w] BY <3>3 DEF KnownInv, KnownBySlot
    <3>. QED BY <2>2, <3>1, <3>2, <3>3, SlotTasks
  <2>. QED BY <1>2, <2>1, <2>2 DEF KnownByTask, SubOf
<1>6. ASSUME NEW x \in Slots PROVE KnownBySlot(x)'
  <2>0. KnownBySlot(x) BY DEF KnownInv
  <2>1. CASE x # w
    <3>1. pc'[x] = pc[x] /\ task'[x] = task[x] /\ unacked'[x] = unacked[x]
      BY <2>1, OthersFrame
    <3>2. verdict'[x] = verdict[x] BY <1>1, <2>1 DEF SlotMove
    <3>3. /\ unacked[x] # NoTask => SubOf(unacked[x]) \in Submissions
          /\ pc[x] # "idle" => SubOf(task[x]) \in Submissions
      BY SubOfType DEF TypeOK
    <3>. QED BY <1>2, <2>0, <3>1, <3>2, <3>3 DEF KnownBySlot, SubOf
  <2>2. CASE x = w
    <3>1. ASSUME unacked'[w] # NoTask PROVE Known(SubOf(unacked[w]))'
      <4>1. CASE unacked'[w] = unacked[w]
        <5>1. Known(SubOf(unacked[w])) /\ SubOf(unacked[w]) \in Submissions
          BY <2>0, <2>2, <3>1, <4>1, SubOfType DEF KnownBySlot, TypeOK
        <5>. QED BY <1>2, <4>1, <5>1 DEF SubOf
      <4>2. ASSUME NEW t \in Tasks, ready[t] > 0, unacked'[w] = t
            PROVE  Known(SubOf(unacked[w]))'
        <5>1. Known(SubOf(t)) /\ SubOf(t) \in Submissions
          BY <4>2, SubOfType DEF KnownInv, KnownByTask
        <5>. QED BY <1>2, <4>2, <5>1 DEF SubOf
      <4>. QED BY <3>1, <4>1, <4>2, SlotTasks
    <3>2. ASSUME pc'[w] # "idle" PROVE Known(SubOf(task[w]))'
      <4>1. CASE pc[w] # "idle" /\ task'[w].token = task[w].token
        <5>1. Known(SubOf(task[w])) /\ SubOf(task[w]) \in Submissions
          BY <2>0, <2>2, <4>1, TaskOfSlot DEF KnownBySlot
        <5>. QED BY <1>2, <4>1, <5>1 DEF SubOf
      <4>2. ASSUME NEW t \in Tasks, ready[t] > 0, task'[w] = t
            PROVE  Known(SubOf(task[w]))'
        <5>1. Known(SubOf(t)) /\ SubOf(t) \in Submissions
          BY <4>2, SubOfType DEF KnownInv, KnownByTask
        <5>. QED BY <1>2, <4>2, <5>1 DEF SubOf
      <4>. QED BY <3>2, <4>1, <4>2, SlotTasks
    <3>. QED BY <1>1, <2>2, <3>1, <3>2 DEF KnownBySlot, SlotMove
  <2>. QED BY <2>1, <2>2
<1>7. ASSUME NEW s \in Submissions PROVE Unknown(s)'
  <2>1. Unknown(s) BY DEF KnownInv
  <2>2. CASE Held(s) BY <1>3, <2>1, <2>2 DEF Unknown, Held, Known
  <2>3. CASE ~Held(s)
    <3>1. pc[w] # "idle" /\ SubOf(task[w]) = s BY <1>1, <2>3 DEF SlotMove
    <3>2. Known(s) BY <3>1 DEF KnownInv, KnownBySlot
    <3>. QED BY <1>2, <1>3, <2>1, <3>2 DEF Unknown
  <2>. QED BY <2>2, <2>3
<1>. QED BY <1>4, <1>5, <1>6, <1>7 DEF KnownInv

\* The other steps write nothing to the database and bring no new task.
LEMMA OthersKnown ==
    ASSUME TypeOK, KnownInv,
           \/ \E R \in SUBSET Requests : ServerCrash(R)
           \/ \E w \in Slots : Redeliver(w)
           \/ \E r \in Requests : Expire(r)
           \/ \E p \in Workers : \/ LinkLost(p) \/ Sigterm(p) \/ CloseConsumer(p) \/ Exit(p)
                                 \/ Crash(p) \/ Restart(p)
           \/ UNCHANGED vars
    PROVE  KnownInv'
<1>1. UNCHANGED dbVars
  BY DEF ServerCrash, Redeliver, Expire, LinkLost, Sigterm, CloseConsumer, Exit, Crash, Restart,
         vars, stepVars
<1>2. \A r \in Requests : reqPc'[r] = reqPc[r] \/ (reqPc[r] # "new" /\ reqPc'[r] = "done")
  BY DEF ServerCrash, Redeliver, Expire, LinkLost, Sigterm, CloseConsumer, Exit, Crash, Restart,
         vars, stepVars, reqVars, TypeOK
<1>3. \A w \in Slots : \/ pc'[w] = pc[w] /\ task'[w] = task[w] /\ verdict'[w] = verdict[w]
                       \/ pc'[w] = "idle"
  BY DEF ServerCrash, Redeliver, Expire, LinkLost, Sigterm, CloseConsumer, Exit, Crash, Restart,
         vars, stepVars, slotVars, TypeOK
<1>4. /\ \A w \in Slots : unacked'[w] = unacked[w] \/ unacked'[w] = NoTask
      /\ \A t \in Tasks : ready'[t] > 0 =>
            ready[t] > 0 \/ \E w \in Slots : unacked[w] # NoTask /\ unacked[w] = t
  <2>1. ASSUME NEW w \in Slots, Redeliver(w) PROVE <1>4
    BY <2>1 DEF Redeliver, GiveBack, Settle, Enqueue, TypeOK
  <2>2. CASE UNCHANGED brokerVars BY <2>2 DEF brokerVars
  <2>3. UNCHANGED brokerVars \/ \E w \in Slots : Redeliver(w)
    BY DEF ServerCrash, Expire, LinkLost, Sigterm, CloseConsumer, Exit, Crash, Restart, vars,
           stepVars
  <2>. QED BY <2>1, <2>2, <2>3
<1>5. ASSUME NEW r \in Requests PROVE KnownByRequest(r)'
  BY <1>1, <1>2 DEF KnownInv, KnownByRequest, Known, dbVars
<1>6. ASSUME NEW t \in Tasks PROVE KnownByTask(t)'
  BY <1>1, <1>4 DEF KnownInv, KnownByTask, KnownBySlot, Known, SubOf, dbVars
<1>7. ASSUME NEW w \in Slots PROVE KnownBySlot(w)'
  BY <1>1, <1>3, <1>4 DEF KnownInv, KnownBySlot, Known, SubOf, dbVars
<1>8. ASSUME NEW s \in Submissions PROVE Unknown(s)'
  BY <1>1, <1>2 DEF KnownInv, Unknown, Known, dbVars, Requests
<1>. QED BY <1>5, <1>6, <1>7, <1>8 DEF KnownInv

----------------------------------------------------------------------------
(* A submission only one party works on is judged by one run at a time.     *)

On(w, s) == Busy(w) /\ SubOf(task[w]) = s
Storing(r, s) == reqPc[r] \in {"stored", "failed"} /\ Target[r] = s

\* What a history without contention says of the parties of s.
Alone(s) ==
    /\ \A w, x \in Slots : On(w, s) /\ On(x, s) => w = x
    /\ \A r \in Requests, w \in Slots : ~(Storing(r, s) /\ On(w, s))
    /\ \A r, q \in Requests : Storing(r, s) /\ Storing(q, s) => r = q
    /\ \A r \in Rejudges : reqPc[r] \in {"picked", "admitted"} /\ Target[r] = s =>
          ((seen[r] = "Accepted") <=> (status[s] = "Accepted"))
    /\ \A w \in Slots : pc[w] = "failed" /\ SubOf(task[w]) = s => status[s] \notin Terminal

RowsFit(s) ==
    /\ status[s] \in RunVerdicts => rows[s] = 1
    /\ status[s] \in {"none", "Compile Error"} => rows[s] = 0
SlotFits(w, s) ==
    On(w, s) =>
        /\ pc[w] \in {"load", "failed", "republish"} => status[s] \in Open
        /\ pc[w] \in {"clear", "run", "final"} => status[s] = "Judging"
        /\ pc[w] = "run" => rows[s] = 0
        /\ pc[w] = "final" => rows[s] = 1
Judged(s) ==
    /\ Alone(s)
    /\ RowsFit(s)
    /\ \A r \in Requests : Storing(r, s) => status[s] = "Pending"
    /\ \A w \in Slots : SlotFits(w, s)
JudgedInv == \A s \in Submissions : s \notin raced => Judged(s)

\* A submission that was not raced has one party at most, also after this step.
LEMMA ObservedAlone ==
    ASSUME NEW s \in Submissions, Observe, s \notin raced' PROVE Alone(s)' /\ s \notin raced
<1>1. s \notin raced /\ ~Contended(s)' BY DEF Observe
<1>2. \A a, b : a \in Parties(s)' /\ b \in Parties(s)' => a = b BY <1>1 DEF Contended
<1>3. \A w \in Slots : On(w, s)' => <<"slot", w>> \in Parties(s)'
  BY DEF Parties, On, SubOf, Busy, Working
<1>4. \A r \in Requests : Storing(r, s)' => <<"request", r>> \in Parties(s)'
  BY DEF Parties, Storing
<1>5. \A w, x \in Slots : On(w, s)' /\ On(x, s)' => w = x
  BY <1>2, <1>3
<1>6. \A r \in Requests, w \in Slots : ~(Storing(r, s)' /\ On(w, s)')
  BY <1>2, <1>3, <1>4
<1>7. \A r, q \in Requests : Storing(r, s)' /\ Storing(q, s)' => r = q
  BY <1>2, <1>4
<1>8. \A r \in Rejudges : reqPc'[r] \in {"picked", "admitted"} /\ Target[r] = s =>
          ((seen'[r] = "Accepted") <=> (status'[s] = "Accepted"))
  BY <1>1 DEF Contended, StaleRead
<1>9. \A w \in Slots : pc'[w] = "failed" /\ SubOf(task'[w]) = s => status'[s] \notin Terminal
  BY <1>1 DEF Contended, LateCommit, SubOf
<1>. QED BY <1>1, <1>5, <1>6, <1>7, <1>8, <1>9 DEF Alone, SubOf

\* The verdict of a submission with one party is final until a rejudge resets it.
Kept(s) == status[s] \in Terminal => status'[s] = status[s]
ResetBy(r, s) == r \in Rejudges /\ Target[r] = s /\ reqPc[r] = "admitted" /\ reqPc'[r] = "stored"

LEMMA StatusNames ==
    /\ RunVerdicts \subseteq Terminal /\ "Compile Error" \notin RunVerdicts
    /\ "System Error" \notin RunVerdicts /\ "Pending" \notin RunVerdicts
    /\ "Judging" \notin RunVerdicts /\ "none" \notin RunVerdicts
    /\ Open = {"Pending", "Judging"} /\ Open \cap Terminal = {} /\ "none" \notin Terminal
    /\ "none" \notin Open
BY DEF RunVerdicts, Verdicts, Terminal, Open

\* A request that moves s resets it, or is the only one to work on it.
LEMMA RequestJudged ==
    ASSUME TypeOK, KnownInv, NEW r \in Requests, RequestStep(r) \/ RequestFault(r),
           NEW s \in Submissions, Judged(s), Alone(s)'
    PROVE  Judged(s)' /\ (Kept(s) \/ ResetBy(r, s))
<1>0. RequestMove(r) BY RequestMoves
<1>1. \A w \in Slots : pc'[w] = pc[w] /\ (On(w, s)' <=> On(w, s))
  BY RequestFrame DEF On, Busy, Working, SubOf, slotVars
<1>2. CASE Held(s) /\ \A q \in Requests : Storing(q, s)' => Storing(q, s)
  BY <1>1, <1>2 DEF Judged, RowsFit, SlotFits, Held, Kept
<1>3. CASE Target[r] # s
  <2>1. Held(s) BY <1>0, <1>3 DEF RequestMove
  <2>2. \A q \in Requests : Storing(q, s)' => Storing(q, s)
    BY <1>0, <1>3 DEF RequestMove, Storing
  <2>. QED BY <1>2, <2>1, <2>2
<1>4. CASE Target[r] = s
  <2>1. CASE Held(s) /\ (reqPc'[r] \in {"stored", "failed"} => reqPc[r] = "stored")
    <3>1. \A q \in Requests : Storing(q, s)' => Storing(q, s)
      BY <1>0, <2>1 DEF RequestMove, Storing
    <3>. QED BY <1>2, <2>1, <3>1
  <2>2. CASE /\ reqPc[r] = "admitted" /\ reqPc'[r] = "stored" /\ status'[s] = "Pending"
             /\ \/ r = s /\ rows'[s] = rows[s]
                \/ r \in Rejudges /\ rows'[s] = 0
    <3>1. RowsFit(s)' BY <2>2, StatusNames DEF RowsFit
    <3>2. \A w \in Slots : ~On(w, s)' BY <1>4, <2>2 DEF Alone, Storing
    <3>3. r = s => status[s] = "none" BY <2>2 DEF KnownInv, Unknown, Known
    <3>4. Kept(s) \/ ResetBy(r, s) BY <1>4, <2>2, <3>3, StatusNames DEF Kept, ResetBy
    <3>. QED BY <2>2, <3>1, <3>2, <3>4 DEF Judged, SlotFits
  <2>3. CASE /\ reqPc[r] = "failed" /\ reqPc'[r] = "release" /\ status'[s] = "System Error"
             /\ rows'[s] = rows[s]
    <3>1. Storing(r, s) BY <1>4, <2>3 DEF Storing
    <3>2. RowsFit(s)' BY <2>3, StatusNames DEF RowsFit
    <3>3. \A w \in Slots : ~On(w, s)' BY <1>1, <3>1 DEF Judged, Alone
    <3>4. \A q \in Requests : ~Storing(q, s)'
      BY <1>0, <2>3, <3>1 DEF Judged, Alone, Storing, RequestMove
    <3>5. Kept(s) BY <3>1, StatusNames DEF Judged, Kept
    <3>. QED BY <3>2, <3>3, <3>4, <3>5 DEF Judged, SlotFits
  <2>4. \/ Held(s) /\ (reqPc'[r] \in {"stored", "failed"} => reqPc[r] = "stored")
        \/ /\ reqPc[r] = "admitted" /\ reqPc'[r] = "stored" /\ status'[s] = "Pending"
           /\ \/ r = s /\ rows'[s] = rows[s]
              \/ r \in Rejudges /\ rows'[s] = 0
        \/ /\ reqPc[r] = "failed" /\ reqPc'[r] = "release" /\ status'[s] = "System Error"
           /\ rows'[s] = rows[s]
    BY <1>0, <1>4 DEF RequestMove
  <2>. QED BY <2>1, <2>2, <2>3, <2>4
<1>. QED BY <1>3, <1>4

\* A slot that moves s is the only one to work on it.
LEMMA SlotJudged ==
    ASSUME TypeOK, KnownInv, NEW w \in Slots, SlotStep(w) \/ SlotFault(w),
           NEW s \in Submissions, Judged(s), Alone(s)'
    PROVE  Judged(s)' /\ Kept(s)
<1>0. SlotMove(w) BY SlotStepMoves, SlotFaultMoves
<1>1. reqPc' = reqPc /\ \A r \in Requests : Storing(r, s)' <=> Storing(r, s)
  BY OthersFrame DEF Storing
<1>2. \A x \in Slots \ {w} : pc'[x] = pc[x] /\ (On(x, s)' <=> On(x, s))
  BY OthersFrame DEF On, Busy, Working, SubOf
<1>3. CASE pc[w] = "idle" \/ SubOf(task[w]) # s
  <2>1. Held(s) BY <1>0, <1>3 DEF SlotMove
  <2>2. On(w, s)' => pc'[w] = "check"
    BY <1>0, <1>3 DEF SlotMove, On, Busy, Working, SubOf
  <2>3. SlotFits(w, s)' BY <2>2 DEF SlotFits
  <2>. QED BY <1>1, <1>2, <2>1, <2>3 DEF Judged, RowsFit, SlotFits, Held, Kept
<1>4. CASE pc[w] # "idle" /\ SubOf(task[w]) = s
  <2>0. JudgeMove(w, s) /\ rows[s] \in Nat BY <1>0, <1>4 DEF SlotMove, TypeOK
  <2>1. CASE Held(s) /\ pc'[w] \in Quiet
    <3>1. SlotFits(w, s)' BY <2>1 DEF SlotFits, Quiet
    <3>. QED BY <1>1, <1>2, <2>1, <3>1 DEF Judged, RowsFit, SlotFits, Held, Kept
  <2>2. CASE pc[w] = "check" /\ pc'[w] = "load" /\ status[s] \in Open /\ Held(s)
    <3>1. SlotFits(w, s)' BY <2>2 DEF SlotFits, Held
    <3>. QED BY <1>1, <1>2, <2>2, <3>1 DEF Judged, RowsFit, SlotFits, Held, Kept
  <2>3. CASE pc[w] \in {"load", "clear", "run", "final", "failed"}
    <3>1. On(w, s) BY <1>4, <2>3 DEF On, Busy, Working
    <3>2. /\ \A x \in Slots \ {w} : ~On(x, s)'
          /\ \A r \in Requests : ~Storing(r, s)'
      BY <1>1, <1>2, <3>1 DEF Judged, Alone
    <3>3. SlotFits(w, s) /\ RowsFit(s) BY DEF Judged
    <3>4. Kept(s) /\ RowsFit(s)' /\ SlotFits(w, s)'
      <4>1. CASE /\ pc[w] = "load" /\ pc'[w] = "clear" /\ status'[s] = "Judging"
                 /\ rows'[s] = rows[s]
        BY <3>1, <3>3, <4>1, StatusNames DEF SlotFits, RowsFit, Kept
      <4>2. CASE /\ pc[w] = "load" /\ pc'[w] = "ack" /\ status'[s] = "System Error"
        BY <3>1, <3>3, <4>2, StatusNames DEF SlotFits, RowsFit, Kept
      <4>3. CASE /\ pc[w] = "clear" /\ pc'[w] = "run" /\ status'[s] = status[s]
                 /\ rows'[s] = 0
        BY <3>1, <3>3, <4>3, StatusNames DEF SlotFits, RowsFit, Kept
      <4>4. CASE /\ pc[w] = "run" /\ pc'[w] = "ack"
                 /\ \/ status'[s] = "Compile Error" /\ rows'[s] = rows[s]
                    \/ status'[s] = "System Error"
        BY <3>1, <3>3, <4>4, StatusNames DEF SlotFits, RowsFit, Kept
      <4>5. CASE /\ pc[w] = "run" /\ pc'[w] = "final" /\ status'[s] = status[s]
                 /\ rows'[s] = rows[s] + 1
        <5>1. rows[s] = 0 /\ status[s] = "Judging" BY <3>1, <3>3, <4>5 DEF SlotFits
        <5>2. rows'[s] = 1 BY ONLY <4>5, <5>1
        <5>. QED BY <4>5, <5>1, <5>2, StatusNames DEF SlotFits, RowsFit, Kept
      <4>6. CASE /\ pc[w] = "final" /\ pc'[w] \in {"ack", "failed"} /\ status'[s] = verdict[w]
                 /\ rows'[s] = rows[s]
        <5>1. verdict[w] \in RunVerdicts BY <4>6 DEF KnownInv, KnownBySlot
        <5>2. pc'[w] # "failed"
          BY <1>0, <1>4, <4>6, <5>1, StatusNames DEF Alone, SlotMove, SubOf
        <5>. QED BY <3>1, <3>3, <4>6, <5>1, <5>2, StatusNames DEF SlotFits, RowsFit, Kept
      <4>7. CASE /\ pc[w] \in {"load", "clear", "run", "final"} /\ pc'[w] = "failed"
                 /\ status'[s] = status[s]
        BY <3>1, <3>3, <4>7, StatusNames DEF SlotFits, RowsFit, Kept
      <4>8. CASE /\ pc[w] = "failed" /\ pc'[w] \in {"republish", "reject"}
                 /\ rows'[s] = rows[s]
                 /\ \/ status'[s] = status[s]
                    \/ pc'[w] = "republish" /\ status'[s] = "Pending"
                    \/ pc'[w] = "reject" /\ status'[s] = "System Error"
        BY <3>1, <3>3, <4>8, StatusNames DEF SlotFits, RowsFit, Kept
      <4>9. CASE Held(s) /\ pc'[w] \in Quiet
        BY <3>3, <4>9 DEF SlotFits, RowsFit, Kept, Held, Quiet
      <4>. QED BY <2>0, <2>3, <4>1, <4>2, <4>3, <4>4, <4>5, <4>6, <4>7, <4>8, <4>9 DEF JudgeMove
    <3>. QED BY <3>2, <3>4 DEF Judged, SlotFits
  <2>. QED BY <2>0, <2>1, <2>2, <2>3 DEF JudgeMove
<1>. QED BY <1>3, <1>4

LEMMA OthersJudged ==
    ASSUME TypeOK, NEW s \in Submissions, Judged(s), Alone(s)',
           \/ \E R \in SUBSET Requests : ServerCrash(R)
           \/ \E w \in Slots : Redeliver(w)
           \/ \E r \in Requests : Expire(r)
           \/ \E p \in Workers : \/ LinkLost(p) \/ Sigterm(p) \/ CloseConsumer(p) \/ Exit(p)
                                 \/ Crash(p) \/ Restart(p)
    PROVE  Judged(s)' /\ Kept(s) /\ UNCHANGED dbVars
<1>1. UNCHANGED dbVars
  BY DEF ServerCrash, Redeliver, Expire, LinkLost, Sigterm, CloseConsumer, Exit, Crash, Restart
<1>2. \A r \in Requests : reqPc'[r] = reqPc[r] \/ reqPc'[r] = "done"
  BY DEF ServerCrash, Redeliver, Expire, LinkLost, Sigterm, CloseConsumer, Exit, Crash, Restart,
         reqVars, TypeOK
<1>3. \A w \in Slots : (pc'[w] = pc[w] /\ task'[w] = task[w]) \/ pc'[w] = "idle"
  BY DEF ServerCrash, Redeliver, Expire, LinkLost, Sigterm, CloseConsumer, Exit, Crash, Restart,
         slotVars, TypeOK
<1>4. \A r \in Requests : Storing(r, s)' => Storing(r, s)
  BY <1>2 DEF Storing
<1>5. \A w \in Slots : On(w, s)' => On(w, s) /\ pc'[w] = pc[w]
  BY <1>3 DEF On, Busy, Working, SubOf
<1>. QED BY <1>1, <1>4, <1>5 DEF Judged, RowsFit, SlotFits, Kept, dbVars

\* What a step does, for a submission that stays with one party.
LEMMA StepJudged ==
    ASSUME TypeOK, DeliveryInv, KnownInv, JudgedInv, [Next]_vars,
           NEW s \in Submissions, s \notin raced'
    PROVE  Judged(s)' /\ (Kept(s) \/ \E r \in Rejudges : ResetBy(r, s))
<1>1. CASE UNCHANGED vars
  <2>1. Judged(s) BY <1>1 DEF JudgedInv, vars
  <2>. QED BY <1>1, <2>1 DEF Judged, Alone, On, Storing, Busy, Working, SubOf, RowsFit, SlotFits,
               Kept, vars, stepVars, dbVars, reqVars, slotVars
<1>2. CASE Next
  <2>1. Alone(s)' /\ Judged(s) BY <1>2, ObservedAlone DEF Next, JudgedInv
  <2>2. ASSUME NEW r \in Requests, RequestStep(r) \/ RequestFault(r)
        PROVE  Judged(s)' /\ (Kept(s) \/ \E q \in Rejudges : ResetBy(q, s))
    BY <2>1, <2>2, RequestJudged DEF ResetBy
  <2>3. ASSUME NEW w \in Slots, SlotStep(w) \/ SlotFault(w) PROVE Judged(s)' /\ Kept(s)
    BY <2>1, <2>3, SlotJudged
  <2>4. CASE \/ \E R \in SUBSET Requests : ServerCrash(R)
             \/ \E w \in Slots : Redeliver(w)
             \/ \E r \in Requests : Expire(r)
             \/ \E p \in Workers : \/ LinkLost(p) \/ Sigterm(p) \/ CloseConsumer(p) \/ Exit(p)
                                   \/ Crash(p) \/ Restart(p)
    BY <2>1, <2>4, OthersJudged
  <2>5. Submissions \cup Rejudges \in SUBSET Requests /\ Requeues \in SUBSET Requests
    BY DEF Requests
  <2>. QED BY <1>2, <2>2, <2>3, <2>4, <2>5 DEF Next, Step
<1>. QED BY <1>1, <1>2

LEMMA StepKnown ==
    ASSUME TypeOK, DeliveryInv, KnownInv, [Next]_vars PROVE KnownInv'
<1>1. CASE UNCHANGED vars BY <1>1, OthersKnown
<1>2. CASE Next
  <2>1. ASSUME NEW r \in Requests, RequestStep(r) \/ RequestFault(r) PROVE KnownInv'
    BY <2>1, RequestKnown
  <2>2. ASSUME NEW w \in Slots, SlotStep(w) \/ SlotFault(w) PROVE KnownInv'
    BY <2>2, SlotKnown
  <2>3. CASE \/ \E R \in SUBSET Requests : ServerCrash(R)
             \/ \E w \in Slots : Redeliver(w)
             \/ \E r \in Requests : Expire(r)
             \/ \E p \in Workers : \/ LinkLost(p) \/ Sigterm(p) \/ CloseConsumer(p) \/ Exit(p)
                                   \/ Crash(p) \/ Restart(p)
    BY <2>3, OthersKnown
  <2>4. Submissions \cup Rejudges \in SUBSET Requests /\ Requeues \in SUBSET Requests
    BY DEF Requests
  <2>. QED BY <1>2, <2>1, <2>2, <2>3, <2>4 DEF Next, Step
<1>. QED BY <1>1, <1>2

VerdictInv == TypeOK /\ DeliveryInv /\ KnownInv /\ JudgedInv

LEMMA VerdictStart == Init => VerdictInv
<1>. SUFFICES ASSUME Init PROVE VerdictInv OBVIOUS
<1>1. TypeOK /\ DeliveryInv BY InitTypeOK, InitDelivery
<1>2. KnownInv
  BY RequestsAssumption
     DEF Init, KnownInv, KnownByRequest, KnownByTask, KnownBySlot, Unknown, Known, Requests
<1>3. ASSUME NEW s \in Submissions PROVE Judged(s)
  BY StatusNames
     DEF Init, Judged, Alone, On, Storing, Busy, Working, RowsFit, SlotFits, Requests
<1>. QED BY <1>1, <1>2, <1>3 DEF VerdictInv, JudgedInv

LEMMA VerdictStep == VerdictInv /\ [Next]_vars => VerdictInv'
BY StepKeepsTypes, StepKnown, StepJudged DEF VerdictInv, JudgedInv

\* The result rows of a submission nobody contended for are those of the run that
\* gave its verdict: JudgeSubmission clears them before it inserts new ones, and
\* neither a retry, a redelivery after the verdict nor a rejudge leaves old ones.
THEOREM RowsOfOneRun == Spec => []ResultsOfOneRun
<1>1. VerdictInv => ResultsOfOneRun
  BY DEF VerdictInv, JudgedInv, Judged, RowsFit, RunVerdicts, ResultsOfOneRun
<1>. QED BY <1>1, VerdictStart, VerdictStep, PTL DEF Spec

\* A stored verdict is changed by the reset of a rejudge only, whatever is
\* redelivered, retried or requeued, unless two parties contend for the
\* submission: submissionAlreadyFinished keeps every other task from judging it.
THEOREM VerdictsStay == Spec => VerdictStable
<1>1. VerdictInv /\ [Next]_vars =>
         [\A s \in Submissions :
            (status[s] \in Terminal /\ status'[s] # status[s]) =>
                \/ s \in raced'
                \/ \E r \in Rejudges : Target[r] = s /\ reqPc[r] = "admitted"
                                       /\ reqPc'[r] = "stored"]_vars
  BY StepJudged DEF VerdictInv, Kept, ResetBy
<1>. QED BY <1>1, VerdictStart, VerdictStep, PTL DEF Spec, VerdictStable

----------------------------------------------------------------------------
(* The counter of accepted submissions.                                    *)

AcceptedOnes == {s \in Submissions : status[s] = "Accepted"}
CountInv == raced = {} => /\ IsFiniteSet(AcceptedOnes)
                          /\ acceptCount = Cardinality(AcceptedOnes)

\* The three ways the counter and the statuses move.
LEMMA CountSame ==
    ASSUME CountInv, raced = {}, acceptCount' = acceptCount,
           \A s \in Submissions : (status'[s] = "Accepted") <=> (status[s] = "Accepted")
    PROVE  CountInv'
<1>1. AcceptedOnes' = AcceptedOnes BY DEF AcceptedOnes
<1>. QED BY <1>1 DEF CountInv

LEMMA CountOneMore ==
    ASSUME CountInv, raced = {}, acceptCount' = acceptCount + 1,
           NEW s \in Submissions, status[s] # "Accepted", status'[s] = "Accepted",
           \A x \in Submissions \ {s} : status'[x] = status[x]
    PROVE  CountInv'
<1>1. AcceptedOnes' = AcceptedOnes \cup {s} /\ s \notin AcceptedOnes BY DEF AcceptedOnes
<1>2. IsFiniteSet(AcceptedOnes) /\ acceptCount = Cardinality(AcceptedOnes) BY DEF CountInv
<1>3. /\ IsFiniteSet(AcceptedOnes \cup {s})
      /\ Cardinality(AcceptedOnes \cup {s}) = Cardinality(AcceptedOnes) + 1
  BY <1>1, <1>2, FS_AddElement
<1>. QED BY <1>1, <1>2, <1>3 DEF CountInv

LEMMA CountOneLess ==
    ASSUME CountInv, raced = {},
           acceptCount' = IF acceptCount > 0 THEN acceptCount - 1 ELSE acceptCount,
           NEW s \in Submissions, status[s] = "Accepted", status'[s] # "Accepted",
           \A x \in Submissions \ {s} : status'[x] = status[x]
    PROVE  CountInv'
<1>1. AcceptedOnes' = AcceptedOnes \ {s} /\ s \in AcceptedOnes BY DEF AcceptedOnes
<1>2. IsFiniteSet(AcceptedOnes) /\ acceptCount = Cardinality(AcceptedOnes) BY DEF CountInv
<1>3. /\ IsFiniteSet(AcceptedOnes \ {s})
      /\ Cardinality(AcceptedOnes \ {s}) = Cardinality(AcceptedOnes) - 1
  BY <1>1, <1>2, FS_RemoveElement
<1>4. acceptCount \in Nat /\ acceptCount # 0
  BY <1>1, <1>2, FS_CardinalityType, FS_EmptySet
<1>5. acceptCount' = acceptCount - 1 BY <1>4
<1>. QED BY <1>1, <1>2, <1>3, <1>5 DEF CountInv

LEMMA RequestCounts ==
    ASSUME VerdictInv, CountInv, raced = {}, NEW r \in Requests, RequestStep(r) \/ RequestFault(r)
    PROVE  CountInv'
<1>. DEFINE s == Target[r]
<1>0. RequestMove(r) /\ s \in Submissions BY RequestMoves, TargetType DEF VerdictInv
<1>1. \A x \in Submissions \ {s} : status'[x] = status[x] BY <1>0 DEF RequestMove, Held
<1>2. Judged(s) BY <1>0 DEF VerdictInv, JudgedInv
<1>3. CASE acceptCount' = acceptCount /\ (status'[s] = "Accepted" <=> status[s] = "Accepted")
  BY <1>1, <1>3, CountSame
<1>4. CASE r \in Rejudges /\ reqPc[r] = "admitted" /\ status'[s] = "Pending"
           /\ acceptCount' = IF seen[r] = "Accepted" /\ acceptCount > 0
                             THEN acceptCount - 1 ELSE acceptCount
  <2>1. seen[r] = "Accepted" <=> status[s] = "Accepted" BY <1>2, <1>4 DEF Judged, Alone
  <2>2. CASE status[s] = "Accepted" BY <1>0, <1>1, <1>4, <2>1, <2>2, CountOneLess
  <2>3. CASE status[s] # "Accepted" BY <1>1, <1>4, <2>1, <2>3, CountSame
  <2>. QED BY <2>2, <2>3
<1>5. CASE /\ r = s /\ reqPc[r] = "admitted" /\ status'[s] = "Pending"
           /\ acceptCount' = acceptCount
  <2>1. status[s] = "none" BY <1>0, <1>5 DEF VerdictInv, KnownInv, Unknown, Known
  <2>. QED BY <1>3, <1>5, <2>1
<1>6. CASE reqPc[r] = "failed" /\ status'[s] = "System Error" /\ acceptCount' = acceptCount
  <2>1. status[s] = "Pending" BY <1>2, <1>6 DEF Judged, Storing
  <2>. QED BY <1>3, <1>6, <2>1
<1>. QED BY <1>0, <1>3, <1>4, <1>5, <1>6 DEF RequestMove, Held

LEMMA SlotCounts ==
    ASSUME VerdictInv, CountInv, raced = {}, NEW w \in Slots, SlotStep(w) \/ SlotFault(w)
    PROVE  CountInv'
<1>0. SlotMove(w) BY SlotStepMoves, SlotFaultMoves DEF VerdictInv
<1>1. CASE pc[w] = "idle" BY <1>0, <1>1, CountSame DEF SlotMove, Held
<1>2. CASE pc[w] # "idle"
  <2>. DEFINE s == SubOf(task[w])
  <2>0. s \in Submissions BY <1>2, TaskOfSlot DEF VerdictInv
  <2>1. JudgeMove(w, s) /\ \A x \in Submissions \ {s} : status'[x] = status[x]
    BY <1>0, <1>2 DEF SlotMove, Held
  <2>2. Judged(s) BY <2>0 DEF VerdictInv, JudgedInv
  <2>3. pc[w] \in {"load", "clear", "run", "final", "failed"} => status[s] \in Open
    BY <2>2, StatusNames DEF Judged, SlotFits, On, Busy, Working
  <2>4. status[s] \in Open => status[s] # "Accepted" BY DEF Open
  <2>5. CASE acceptCount' = acceptCount /\ (status'[s] = "Accepted" <=> status[s] = "Accepted")
    BY <2>1, <2>5, CountSame
  <2>6. CASE /\ pc[w] = "final" /\ status'[s] = verdict[w]
             /\ acceptCount' = IF verdict[w] = "Accepted" THEN acceptCount + 1 ELSE acceptCount
    <3>1. CASE verdict[w] = "Accepted"
      BY <2>0, <2>1, <2>3, <2>4, <2>6, <3>1, CountOneMore
    <3>2. CASE verdict[w] # "Accepted" BY <2>3, <2>4, <2>5, <2>6, <3>2
    <3>. QED BY <3>1, <3>2
  <2>7. CASE /\ acceptCount' = acceptCount /\ pc[w] \in {"load", "clear", "run", "final", "failed"}
             /\ \/ status'[s] = status[s]
                \/ status'[s] \in {"Judging", "System Error", "Compile Error", "Pending"}
    BY <2>3, <2>4, <2>5, <2>7
  <2>. QED BY <2>1, <2>5, <2>6, <2>7 DEF JudgeMove, Held
<1>. QED BY <1>1, <1>2

LEMMA CountStep ==
    VerdictInv /\ CountInv /\ [Next]_vars => CountInv'
<1>. SUFFICES ASSUME VerdictInv, CountInv, [Next]_vars, raced' = {} PROVE CountInv'
  BY DEF CountInv
<1>1. CASE UNCHANGED vars
  <2>1. raced = {} /\ status' = status /\ acceptCount' = acceptCount
    BY <1>1 DEF vars, stepVars, dbVars
  <2>. QED BY <2>1, CountSame
<1>2. CASE Next
  <2>1. raced = {} BY <1>2 DEF Next, Observe
  <2>2. ASSUME NEW r \in Requests, RequestStep(r) \/ RequestFault(r) PROVE CountInv'
    BY <2>1, <2>2, RequestCounts
  <2>3. ASSUME NEW w \in Slots, SlotStep(w) \/ SlotFault(w) PROVE CountInv'
    BY <2>1, <2>3, SlotCounts
  <2>4. CASE UNCHANGED dbVars BY <2>1, <2>4, CountSame DEF dbVars
  <2>. QED BY <1>2, <2>2, <2>3, <2>4
           DEF Next, Step, ServerCrash, Redeliver, Expire, LinkLost, Sigterm, CloseConsumer, Exit,
               Crash, Restart
<1>. QED BY <1>1, <1>2

\* accept_count counts the accepted submissions, through retries, crashes, lost
\* replies and rejudges, until two parties contend for one submission: the final
\* transaction increments it once and a rejudge takes that back once.
THEOREM CountIsExact == Spec => []AcceptCountExact
<1>1. Init => CountInv
  <2>. SUFFICES ASSUME Init PROVE CountInv OBVIOUS
  <2>1. AcceptedOnes = {} BY DEF Init, AcceptedOnes
  <2>. QED BY <2>1, FS_EmptySet DEF Init, CountInv
<1>2. CountInv => AcceptCountExact BY DEF CountInv, AcceptedOnes, AcceptCountExact
<1>. QED BY <1>1, <1>2, CountStep, VerdictStart, VerdictStep, PTL DEF Spec
====

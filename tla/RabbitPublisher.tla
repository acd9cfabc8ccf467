---- MODULE RabbitPublisher ----
(***************************************************************************)
(* The publisher of judge tasks: a pool of confirm-mode channels (lanes)   *)
(* on one connection, borrowed by concurrent PublishTask calls, a channel  *)
(* for queue inspections, and Close, which a lifecycle lock keeps apart    *)
(* from the calls.  Start-up opens the objects one by one and undoes what  *)
(* it opened when one of them fails; a lost connection is never dialled    *)
(* again.                                                                  *)
(***************************************************************************)
EXTENDS Naturals, Sequences, FiniteSets

CONSTANTS
    Publishers,     \* calls of PublishTask, each with one task
    Inspectors,     \* calls of Inspect
    Closers,        \* calls of Close
    Lanes,          \* the YOJ_RABBITMQ_PUBLISH_CHANNELS channels of the pool
    HasTimeout,     \* publishTimeout > 0
    MaxFaults,      \* bound: broker and connection failures
    None            \* no lane, no lock owner

Calls == Publishers \cup Inspectors \cup Closers
Readers == Publishers \cup Inspectors
Objects == {"connection", "inspect"} \cup Lanes

ASSUME CallsAssumption ==
    /\ Publishers \cap Inspectors = {} /\ Readers \cap Closers = {}
    /\ None \notin Calls \cup Lanes

ASSUME PoolAssumption ==
    /\ IsFiniteSet(Lanes) /\ Lanes # {}
    /\ Lanes \cap {"connection", "inspect"} = {}
    /\ HasTimeout \in BOOLEAN
    /\ MaxFaults \in Nat

VARIABLES
    stage,          \* start-up: the object it opens next, "ready" or "failed"
    making,         \* the channel newPublisherLane has opened, not yet a lane
    opened,         \* AMQP objects this process has opened and not closed
    alive,          \* channels that neither side has closed
    pool,           \* the buffered channel of free lanes
    readers,        \* calls that hold lifecycleMu for reading
    writer,         \* the Close that holds or waits for lifecycleMu
    closed,
    inspecting,     \* the call that holds inspectMu
    pc,
    lane,           \* the lane a publisher has borrowed
    answer,         \* what a call returned
    sentOn,         \* the lane on which the task of a call was sent
    stored,         \* tasks the broker has put in the queue
    confirm,        \* the confirm of each task: none, ack, nack
    faults

poolVars == <<alive, pool>>
lockVars == <<readers, writer, closed>>
callVars == <<pc, lane, answer>>
brokerVars == <<sentOn, stored, confirm>>
startVars == <<stage, making, opened>>
vars == <<startVars, poolVars, lockVars, inspecting, callVars, brokerVars, faults>>

Init ==
    /\ stage = "connection" /\ making = None
    /\ opened = {}
    /\ alive = {}
    /\ pool = <<>>
    /\ readers = {} /\ writer = None
    /\ closed = FALSE
    /\ inspecting = None
    /\ pc = [c \in Calls |-> "call"]
    /\ lane = [p \in Publishers |-> None]
    /\ answer = [c \in Calls |-> "none"]
    /\ sentOn = [p \in Publishers |-> None]
    /\ stored = {}
    /\ confirm = [p \in Publishers |-> "none"]
    /\ faults = 0

Goto(c, l) == pc' = [pc EXCEPT ![c] = l]
Answer(c, a) == answer' = [answer EXCEPT ![c] = a]
Fault == faults < MaxFaults /\ faults' = faults + 1
Fine == UNCHANGED faults

----------------------------------------------------------------------------
(* NewRabbitPublisher.                                                      *)

OpenNext ==
    /\ stage \in {"connection", "inspect"}
    /\ opened' = opened \cup {stage}
    /\ alive' = IF stage = "inspect" THEN alive \cup {stage} ELSE alive
    /\ stage' = IF stage = "connection" THEN "inspect" ELSE "topology"
    /\ Fine
    /\ UNCHANGED <<making, pool, lockVars, inspecting, callVars, brokerVars>>

DeclareTopology ==
    /\ stage = "topology" /\ "inspect" \in alive
    /\ stage' = "lanes"
    /\ Fine
    /\ UNCHANGED <<making, opened, poolVars, lockVars, inspecting, callVars, brokerVars>>

\* newPublisherLane opens a channel ...
OpenLane ==
    /\ stage = "lanes" /\ making = None /\ Lanes \ opened # {}
    /\ making' = CHOOSE l \in Lanes \ opened : TRUE
    /\ opened' = opened \cup {making'} /\ alive' = alive \cup {making'}
    /\ Fine
    /\ UNCHANGED <<stage, pool, lockVars, inspecting, callVars, brokerVars>>

\* ... and puts it into confirm mode; then it is a lane of the pool.
KeepLane ==
    /\ making # None /\ making \in alive
    /\ pool' = Append(pool, making) /\ making' = None
    /\ stage' = IF Lanes \subseteq opened THEN "ready" ELSE "lanes"
    /\ Fine
    /\ UNCHANGED <<opened, alive, lockVars, inspecting, callVars, brokerVars>>

Pooled == {pool[n] : n \in DOMAIN pool}

\* Wrong variant: newPublisherLane leaves its channel open when Confirm fails.
ClosedButTheNewLane ==
    CASE stage = "connection" -> {}
      [] stage = "inspect" -> {"connection"}
      [] stage = "topology" -> {"inspect", "connection"}
      [] stage = "lanes" -> Pooled \cup {"inspect", "connection"}

\* What the path of a step that fails closes: nothing when the dial fails, the
\* connection when the inspect channel cannot be opened, both when the topology is
\* refused, and when a lane cannot be made its own channel, if that was opened, the
\* lanes that are drained from the pool, and both.
ClosedOnFailure ==
    CASE stage = "connection" -> {}
      [] stage = "inspect" -> {"connection"}
      [] stage = "topology" -> {"inspect", "connection"}
      [] stage = "lanes" -> ({making} \ {None}) \cup Pooled \cup {"inspect", "connection"}

\* A step fails, for a reason of its own or because its channel is dead already.
StartFails ==
    /\ stage \notin {"ready", "failed"}
    /\ opened' = opened \ ClosedOnFailure
    /\ alive' = alive \ ClosedOnFailure
    /\ pool' = <<>> /\ making' = None
    /\ stage' = "failed"
    /\ IF \/ stage = "topology" /\ "inspect" \notin alive
          \/ making # None /\ making \notin alive
       THEN Fine ELSE Fault
    /\ UNCHANGED <<lockVars, inspecting, callVars, brokerVars>>

----------------------------------------------------------------------------
(* PublishTask and Inspect under the read lock.                             *)

\* A reader waits while a writer holds the lock or waits for it.
ReadLock(c) ==
    /\ stage = "ready" /\ pc[c] = "call"
    /\ writer = None
    /\ readers' = readers \cup {c}
    /\ IF closed THEN Goto(c, "unlock") /\ Answer(c, "error")
                 ELSE Goto(c, IF c \in Publishers THEN "lane" ELSE "mutex") /\ UNCHANGED answer
    /\ Fine
    /\ UNCHANGED <<startVars, poolVars, writer, closed, inspecting, lane, brokerVars>>

\* Wrong variant: peeks at the first lane.
AcquireLaneSharing(p) ==
    /\ pc[p] = "lane" /\ pool # <<>>
    /\ lane' = [lane EXCEPT ![p] = Head(pool)]
    /\ Goto(p, "publish")
    /\ Fine
    /\ UNCHANGED <<startVars, poolVars, lockVars, inspecting, answer, brokerVars>>

AcquireLane(p) ==
    /\ pc[p] = "lane" /\ pool # <<>>
    /\ lane' = [lane EXCEPT ![p] = Head(pool)]
    /\ pool' = Tail(pool)
    /\ Goto(p, "publish")
    /\ Fine
    /\ UNCHANGED <<startVars, alive, lockVars, inspecting, answer, brokerVars>>

\* No lane became free in time.
LaneTimeout(p) ==
    /\ HasTimeout /\ pc[p] = "lane"
    /\ Answer(p, "error")
    /\ Goto(p, "unlock")
    /\ Fine
    /\ UNCHANGED <<startVars, poolVars, lockVars, inspecting, lane, brokerVars>>

\* The task goes to the socket, or the channel is closed already.
Publish(p) ==
    /\ pc[p] = "publish"
    /\ IF lane[p] \in alive
       THEN Goto(p, "wait") /\ sentOn' = [sentOn EXCEPT ![p] = lane[p]] /\ UNCHANGED answer
       ELSE Goto(p, "return") /\ Answer(p, "error") /\ UNCHANGED sentOn
    /\ Fine
    /\ UNCHANGED <<startVars, poolVars, lockVars, inspecting, lane, stored, confirm>>

\* Wrong variant: takes the confirm of any task on the lane for its own.
ConfirmedByAny(p) ==
    /\ pc[p] = "wait"
    /\ \E q \in Publishers : /\ sentOn[q] = lane[p] /\ confirm[q] # "none"
                            /\ Answer(p, IF confirm[q] = "ack" THEN "ok" ELSE "error")
    /\ Goto(p, "return")
    /\ Fine
    /\ UNCHANGED <<startVars, poolVars, lockVars, inspecting, lane, brokerVars>>

\* The deferred confirmation of this task, found by its delivery tag: late
\* confirms of earlier tasks on the same lane do not count.
Confirmed(p) ==
    /\ pc[p] = "wait" /\ confirm[p] # "none"
    /\ Answer(p, IF confirm[p] = "ack" THEN "ok" ELSE "error")
    /\ Goto(p, "return")
    /\ Fine
    /\ UNCHANGED <<startVars, poolVars, lockVars, inspecting, lane, brokerVars>>

ConfirmTimeout(p) ==
    /\ HasTimeout /\ pc[p] = "wait"
    /\ Answer(p, "error")
    /\ Goto(p, "return")
    /\ Fine
    /\ UNCHANGED <<startVars, poolVars, lockVars, inspecting, lane, brokerVars>>

\* Wrong variant: a lane whose task failed is not put back.
ReturnLaneIfOk(p) ==
    /\ pc[p] = "return"
    /\ pool' = IF answer[p] = "ok" THEN Append(pool, lane[p]) ELSE pool
    /\ lane' = [lane EXCEPT ![p] = None]
    /\ Goto(p, "unlock")
    /\ Fine
    /\ UNCHANGED <<startVars, alive, lockVars, inspecting, answer, brokerVars>>

\* Deferred calls run last in, first out: the lane goes back before the lock.
ReturnLane(p) ==
    /\ pc[p] = "return"
    /\ pool' = Append(pool, lane[p])
    /\ lane' = [lane EXCEPT ![p] = None]
    /\ Goto(p, "unlock")
    /\ Fine
    /\ UNCHANGED <<startVars, alive, lockVars, inspecting, answer, brokerVars>>

ReadUnlock(c) ==
    /\ c \in Readers /\ pc[c] = "unlock"
    /\ readers' = readers \ {c}
    /\ Goto(c, "done")
    /\ Fine
    /\ UNCHANGED <<startVars, poolVars, writer, closed, inspecting, lane, answer, brokerVars>>

InspectLock(i) ==
    /\ pc[i] = "mutex" /\ inspecting = None
    /\ inspecting' = i
    /\ Goto(i, "inspect")
    /\ Fine
    /\ UNCHANGED <<startVars, poolVars, lockVars, lane, answer, brokerVars>>

\* QueueInspect is a call to the broker without a timeout: it returns when the
\* broker answers, or with an error once the channel is closed.
InspectQueue(i) ==
    /\ pc[i] = "inspect"
    /\ inspecting' = None
    /\ Answer(i, IF "inspect" \in alive THEN "ok" ELSE "error")
    /\ Goto(i, "unlock")
    /\ Fine
    /\ UNCHANGED <<startVars, poolVars, lockVars, lane, brokerVars>>

----------------------------------------------------------------------------
(* Close under the write lock.                                              *)

RequestWriteLock(k) ==
    /\ stage = "ready" /\ pc[k] = "call"
    /\ writer = None
    /\ writer' = k
    /\ Goto(k, "lock")
    /\ Fine
    /\ UNCHANGED <<startVars, poolVars, readers, closed, inspecting, lane, answer,
                   brokerVars>>

\* Wrong variant: does not wait for the calls in progress.
WriteLockAtOnce(k) ==
    /\ pc[k] = "lock"
    /\ IF closed THEN Goto(k, "unlock") ELSE Goto(k, "drain")
    /\ closed' = TRUE
    /\ Fine
    /\ UNCHANGED <<startVars, poolVars, readers, writer, inspecting, lane, answer, brokerVars>>

WriteLock(k) ==
    /\ pc[k] = "lock" /\ readers = {}
    /\ IF closed THEN Goto(k, "unlock") ELSE Goto(k, "drain")
    /\ closed' = TRUE
    /\ Fine
    /\ UNCHANGED <<startVars, poolVars, readers, writer, inspecting, lane, answer, brokerVars>>

\* Takes as many lanes from the pool as it was made for and closes each; the close
\* of a channel waits for the broker's answer without a timeout.
DrainLane(k) ==
    /\ pc[k] = "drain" /\ opened \cap Lanes # {}
    /\ pool # <<>>
    /\ pool' = Tail(pool)
    /\ opened' = opened \ {Head(pool)}
    /\ alive' = alive \ {Head(pool)}
    /\ Fine
    /\ UNCHANGED <<stage, making, lockVars, inspecting, callVars, brokerVars>>

\* The inspect channel and the connection, whose closes wait for the broker as well.
CloseConnection(k) ==
    /\ pc[k] = "drain" /\ opened \cap Lanes = {}
    /\ opened' = opened \ {"inspect", "connection"}
    /\ alive' = alive \ {"inspect"}
    /\ Goto(k, "unlock")
    /\ Fine
    /\ UNCHANGED <<stage, making, pool, lockVars, inspecting, lane, answer, brokerVars>>

WriteUnlock(k) ==
    /\ k \in Closers /\ pc[k] = "unlock"
    /\ writer' = None
    /\ Answer(k, "ok")
    /\ Goto(k, "done")
    /\ Fine
    /\ UNCHANGED <<startVars, poolVars, readers, closed, inspecting, lane, brokerVars>>

----------------------------------------------------------------------------
(* The broker and the connection.                                           *)

\* A task that was sent is stored some time later, also when its call has given
\* up waiting; the confirm may come at any later time or never.
Store(p) ==
    /\ sentOn[p] # None /\ p \notin stored /\ confirm[p] = "none"
    /\ stored' = stored \cup {p}
    /\ Fine
    /\ UNCHANGED <<startVars, poolVars, lockVars, inspecting, callVars, sentOn, confirm>>

Confirm(p) ==
    /\ p \in stored /\ confirm[p] = "none" /\ sentOn[p] \in alive
    /\ confirm' = [confirm EXCEPT ![p] = "ack"]
    /\ Fine
    /\ UNCHANGED <<startVars, poolVars, lockVars, inspecting, callVars, sentOn, stored>>

Refuse(p) ==
    /\ sentOn[p] \in alive /\ p \notin stored /\ confirm[p] = "none"
    /\ confirm' = [confirm EXCEPT ![p] = "nack"]
    /\ Fault
    /\ UNCHANGED <<startVars, poolVars, lockVars, inspecting, callVars, sentOn, stored>>

\* The broker closes some channels, or all with the connection: the client
\* library resolves what they still wait for as not confirmed.
ChannelsLost(gone) ==
    /\ gone \cap alive # {}
    /\ alive' = alive \ gone
    /\ confirm' = [p \in Publishers |->
                      IF sentOn[p] \in gone /\ confirm[p] = "none" THEN "nack" ELSE confirm[p]]
    /\ Fault
    /\ UNCHANGED <<startVars, pool, lockVars, inspecting, callVars, sentOn, stored>>

StartStep == OpenNext \/ DeclareTopology \/ OpenLane \/ KeepLane

PublishStep(p) ==
    \/ ReadLock(p) \/ AcquireLane(p) \/ LaneTimeout(p) \/ Publish(p)
    \/ Confirmed(p) \/ ConfirmTimeout(p) \/ ReturnLane(p) \/ ReadUnlock(p)

InspectStep(i) == ReadLock(i) \/ InspectLock(i) \/ InspectQueue(i) \/ ReadUnlock(i)

CloseStep(k) ==
    \/ RequestWriteLock(k) \/ WriteLock(k) \/ DrainLane(k) \/ CloseConnection(k)
    \/ WriteUnlock(k)

BrokerStep ==
    \/ \E p \in Publishers : Store(p) \/ Confirm(p) \/ Refuse(p)
    \/ \E l \in Lanes \cup {"inspect"} : ChannelsLost({l})
    \/ ChannelsLost(Lanes \cup {"inspect"})

Next ==
    \/ StartStep \/ StartFails
    \/ \E p \in Publishers : PublishStep(p)
    \/ \E i \in Inspectors : InspectStep(i)
    \/ \E k \in Closers : CloseStep(k)
    \/ BrokerStep

Spec == Init /\ [][Next]_vars

\* A call waits for the broker in QueueInspect and in the closes of channels and
\* connection, which have no timeout.  QueueInspect fails at once on a dead channel,
\* and a Close that finds no lane in the pool waits for the lane.
AwaitsBroker(c) ==
    \/ pc[c] = "inspect" /\ "inspect" \in alive
    \/ pc[c] = "drain" /\ (pool # <<>> \/ opened \cap Lanes = {})

\* The goroutines of the calls run and the timeouts of PublishTask fire.  Nothing
\* is promised of the broker, nor of the steps that wait for its answer.
Fairness ==
    /\ \A p \in Publishers : WF_vars(PublishStep(p))
    /\ \A i \in Inspectors : WF_vars(~AwaitsBroker(i) /\ InspectStep(i))
    /\ \A k \in Closers : WF_vars(~AwaitsBroker(k) /\ CloseStep(k))

FairSpec == Spec /\ Fairness

----------------------------------------------------------------------------
(* Properties.                                                             *)

\* Types of the start-up, the pool, the locks, the calls and the broker.
TypeOK ==
    /\ stage \in {"connection", "inspect", "topology", "lanes", "ready", "failed"}
    /\ making \in Lanes \cup {None}
    /\ opened \subseteq Objects /\ alive \subseteq opened \ {"connection"}
    /\ pool \in Seq(Lanes)
    /\ readers \subseteq Readers /\ writer \in Closers \cup {None}
    /\ closed \in BOOLEAN
    /\ inspecting \in Inspectors \cup {None}
    /\ pc \in [Calls -> {"call", "lane", "publish", "wait", "return", "mutex", "inspect",
                         "lock", "drain", "unlock", "done"}]
    /\ lane \in [Publishers -> Lanes \cup {None}]
    /\ answer \in [Calls -> {"none", "ok", "error"}]
    /\ sentOn \in [Publishers -> Lanes \cup {None}]
    /\ stored \subseteq Publishers
    /\ confirm \in [Publishers -> {"none", "ack", "nack"}]
    /\ faults \in 0 .. MaxFaults

Borrowed == {lane[p] : p \in Publishers} \ {None}

\* A channel carries one task at a time: every lane is either free, once in the
\* pool, or borrowed by one call, and none is ever lost, whatever fails.  The
\* channel that start-up is making into a lane is neither yet.
LanesConserved ==
    /\ \A m, n \in DOMAIN pool : pool[m] = pool[n] => m = n
    /\ \A p, q \in Publishers : (p # q /\ lane[p] # None) => lane[p] # lane[q]
    /\ Pooled \cap Borrowed = {}
    /\ Pooled \cup Borrowed = (opened \cap Lanes) \ {making}

\* "The write lock guarantees that no PublishTask call is still borrowing a
\* lane": Close never waits for a lane while it holds the lock, and it closes
\* no channel under a call.
DrainIsDeterministic ==
    \A k \in Closers : pc[k] = "drain" => /\ Borrowed = {} /\ inspecting = None
                                          /\ Pooled = opened \cap Lanes

\* A call reports success only for a task the broker has stored: the request
\* that answers 200, or the worker that acknowledges a retried delivery, has its
\* task in the queue, also when confirms come late on a lane used again.
OkMeansStored == \A p \in Publishers : answer[p] = "ok" => p \in stored

\* A publisher that failed to start, at whatever step, or that was closed has
\* closed everything it opened.
NothingLeftOpen ==
    (stage = "failed" \/ \E k \in Closers : pc[k] = "done") => opened = {}

\* A call of PublishTask that has the lifecycle lock returns, whatever the broker
\* does; and once the publisher has started every call of PublishTask, Inspect and
\* Close returns, unless an inspection or a Close waits for the broker for ever.
CallsReturn ==
    /\ \A p \in Publishers : pc[p] = "lane" ~> pc[p] = "done"
    /\ \/ <>[](\E c \in Calls : AwaitsBroker(c))
       \/ stage = "ready" ~> \A c \in Calls : pc[c] = "done"
====

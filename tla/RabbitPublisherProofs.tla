---- MODULE RabbitPublisherProofs ----
(***************************************************************************)
(* Proofs about the publisher for any number of calls and lanes: who holds *)
(* the lifecycle lock follows from where the calls are, and every lane is  *)
(* in the pool or with one call.  That Close drains the pool without       *)
(* waiting follows from the two.                                           *)
(***************************************************************************)
EXTENDS RabbitPublisher, SequenceTheorems, TLAPS

PublisherAt == {"call", "lane", "publish", "wait", "return", "unlock", "done"}
InspectorAt == {"call", "mutex", "inspect", "unlock", "done"}
CloserAt == {"call", "lock", "drain", "unlock", "done"}

\* Each kind of call has its own labels, and holds what its label says.
CallInv ==
    /\ \A p \in Publishers : /\ pc[p] \in PublisherAt
                             /\ lane[p] # None <=> pc[p] \in {"publish", "wait", "return"}
    /\ \A i \in Inspectors : pc[i] \in InspectorAt /\ (pc[i] = "inspect" <=> inspecting = i)
    /\ \A k \in Closers : /\ pc[k] \in CloserAt
                          /\ pc[k] \in {"lock", "drain", "unlock"} <=> writer = k
    /\ \A c \in Readers : c \in readers <=> pc[c] \notin {"call", "done"}
    /\ stage # "ready" => \A c \in Calls : pc[c] = "call"

\* A Close that drains or is about to unlock is alone.
LockInv == \A k \in Closers : pc[k] \in {"drain", "unlock"} => readers = {}

LEMMA TypeStep == TypeOK /\ CallInv /\ [Next]_vars => TypeOK'
<1>. SUFFICES ASSUME TypeOK, CallInv, [Next]_vars PROVE TypeOK'
  OBVIOUS
<1>. USE CallsAssumption, PoolAssumption DEF TypeOK, Calls, Readers, Objects, Fine, Fault,
         Goto, Answer, startVars, poolVars, lockVars, callVars, brokerVars
<1>1. CASE OpenNext BY <1>1 DEF OpenNext
<1>2. CASE DeclareTopology BY <1>2 DEF DeclareTopology
<1>3. CASE OpenLane
  <2>1. making' \in Lanes BY <1>3 DEF OpenLane
  <2>. QED BY <1>3, <2>1 DEF OpenLane
<1>18. CASE KeepLane
  <2>1. pool' \in Seq(Lanes) BY <1>18, AppendProperties DEF KeepLane
  <2>. QED BY <1>18, <2>1 DEF KeepLane
<1>4. CASE StartFails
  <2>1. pool' \in Seq(Lanes) BY <1>4, EmptySeq DEF StartFails
  <2>2. opened' \subseteq Objects /\ alive' \subseteq opened' \ {"connection"} BY <1>4 DEF StartFails
  <2>3. faults' \in 0 .. MaxFaults BY <1>4 DEF StartFails
  <2>4. stage' = "failed" /\ making' = None BY <1>4 DEF StartFails
  <2>5. UNCHANGED <<lockVars, inspecting, callVars, brokerVars>> BY <1>4 DEF StartFails
  <2>. QED BY <2>1, <2>2, <2>3, <2>4, <2>5
<1>5. ASSUME NEW c \in Readers, ReadLock(c) PROVE TypeOK' BY <1>5 DEF ReadLock
<1>6. ASSUME NEW p \in Publishers, AcquireLane(p) PROVE TypeOK'
  <2>1. Head(pool) \in Lanes /\ Tail(pool) \in Seq(Lanes)
    BY <1>6, HeadTailProperties DEF AcquireLane
  <2>. QED BY <1>6, <2>1 DEF AcquireLane
<1>7. ASSUME NEW p \in Publishers, LaneTimeout(p) \/ Publish(p) PROVE TypeOK'
  <2>1. CASE LaneTimeout(p) BY <2>1, SMTT(30) DEF LaneTimeout
  <2>2. CASE Publish(p) BY <2>2, SMTT(30) DEF Publish
  <2>. QED BY <1>7, <2>1, <2>2
<1>8. ASSUME NEW p \in Publishers, Confirmed(p) \/ ConfirmTimeout(p) PROVE TypeOK'
  <2>1. CASE Confirmed(p) BY <2>1, SMTT(30) DEF Confirmed
  <2>2. CASE ConfirmTimeout(p) BY <2>2, SMTT(30) DEF ConfirmTimeout
  <2>. QED BY <1>8, <2>1, <2>2
<1>9. ASSUME NEW p \in Publishers, ReturnLane(p) PROVE TypeOK'
  <2>1. lane[p] \in Lanes BY <1>9 DEF CallInv, ReturnLane
  <2>2. Append(pool, lane[p]) \in Seq(Lanes) BY <2>1, AppendProperties
  <2>. QED BY <1>9, <2>2 DEF ReturnLane
<1>10. ASSUME NEW c \in Readers, ReadUnlock(c) PROVE TypeOK' BY <1>10 DEF ReadUnlock
<1>11. ASSUME NEW i \in Inspectors, InspectLock(i) \/ InspectQueue(i) PROVE TypeOK'
  <2>1. CASE InspectLock(i) BY <2>1, SMTT(30) DEF InspectLock
  <2>2. CASE InspectQueue(i) BY <2>2, SMTT(30) DEF InspectQueue
  <2>. QED BY <1>11, <2>1, <2>2
<1>12. ASSUME NEW k \in Closers, RequestWriteLock(k) \/ WriteLock(k) \/ WriteUnlock(k) PROVE TypeOK'
  <2>1. CASE RequestWriteLock(k) BY <2>1, SMTT(30) DEF RequestWriteLock
  <2>2. CASE WriteLock(k) BY <2>2, SMTT(30) DEF WriteLock
  <2>3. CASE WriteUnlock(k) BY <2>3, SMTT(30) DEF WriteUnlock
  <2>. QED BY <1>12, <2>1, <2>2, <2>3
<1>13. ASSUME NEW k \in Closers, DrainLane(k) PROVE TypeOK'
  <2>1. Tail(pool) \in Seq(Lanes) BY <1>13, HeadTailProperties DEF DrainLane
  <2>. QED BY <1>13, <2>1 DEF DrainLane
<1>14. ASSUME NEW k \in Closers, CloseConnection(k) PROVE TypeOK'
  BY <1>14 DEF CloseConnection
<1>15. ASSUME NEW p \in Publishers, Store(p) \/ Confirm(p) \/ Refuse(p) PROVE TypeOK'
  <2>1. CASE Store(p) BY <2>1, SMTT(30) DEF Store
  <2>2. CASE Confirm(p) BY <2>2, SMTT(30) DEF Confirm
  <2>3. CASE Refuse(p) BY <2>3, SMTT(30) DEF Refuse
  <2>. QED BY <1>15, <2>1, <2>2, <2>3
<1>16. ASSUME NEW gone, ChannelsLost(gone) PROVE TypeOK'
  <2>1. confirm' \in [Publishers -> {"none", "ack", "nack"}] BY <1>16 DEF ChannelsLost
  <2>2. faults' \in 0 .. MaxFaults BY <1>16 DEF ChannelsLost
  <2>3. alive' \subseteq opened' \ {"connection"} BY <1>16 DEF ChannelsLost
  <2>. QED BY <1>16, <2>1, <2>2, <2>3, SMTT(30) DEF ChannelsLost
<1>17. CASE UNCHANGED vars BY <1>17 DEF vars
<1>. QED
  BY <1>1, <1>2, <1>3, <1>4, <1>5, <1>6, <1>7, <1>8, <1>9, <1>10, <1>11, <1>12, <1>13, <1>14,
     <1>15, <1>16, <1>17, <1>18
     DEF Next, StartStep, PublishStep, InspectStep, CloseStep, BrokerStep

\* Start-up makes a channel into a lane only while it opens the lanes.
MakingInv == making # None => stage = "lanes" /\ making \in opened

LEMMA MakingStep == TypeOK /\ CallInv /\ MakingInv /\ [Next]_vars => MakingInv'
<1>. SUFFICES ASSUME TypeOK, CallInv, MakingInv, [Next]_vars PROVE MakingInv'
  OBVIOUS
<1>. USE CallsAssumption, PoolAssumption DEF TypeOK, CallInv, MakingInv, Calls, Readers, startVars,
         poolVars, lockVars, callVars, brokerVars
<1>1. CASE StartStep \/ StartFails
  BY <1>1 DEF StartStep, OpenNext, DeclareTopology, OpenLane, KeepLane, StartFails
<1>2. ASSUME NEW c \in Readers, ReadLock(c) \/ ReadUnlock(c) PROVE MakingInv'
  BY <1>2 DEF ReadLock, ReadUnlock
<1>3. ASSUME NEW p \in Publishers, PublishStep(p) PROVE MakingInv'
  BY <1>3 DEF PublishStep, ReadLock, AcquireLane, LaneTimeout, Publish, Confirmed, ConfirmTimeout,
              ReturnLane, ReadUnlock
<1>4. ASSUME NEW i \in Inspectors, InspectStep(i) PROVE MakingInv'
  BY <1>4 DEF InspectStep, ReadLock, InspectLock, InspectQueue, ReadUnlock
<1>5. ASSUME NEW k \in Closers, CloseStep(k) PROVE MakingInv'
  BY <1>5 DEF CloseStep, RequestWriteLock, WriteLock, DrainLane, CloseConnection, WriteUnlock
<1>6. ASSUME NEW p \in Publishers, Store(p) \/ Confirm(p) \/ Refuse(p) PROVE MakingInv'
  BY <1>6 DEF Store, Confirm, Refuse
<1>7. ASSUME NEW gone, ChannelsLost(gone) PROVE MakingInv' BY <1>7 DEF ChannelsLost
<1>8. CASE UNCHANGED vars BY <1>8 DEF vars
<1>. QED BY <1>1, <1>3, <1>4, <1>5, <1>6, <1>7, <1>8 DEF Next, BrokerStep

LEMMA CallStep == TypeOK /\ CallInv /\ LockInv /\ MakingInv /\ [Next]_vars => CallInv' /\ LockInv'
<1>. SUFFICES ASSUME TypeOK, CallInv, LockInv, MakingInv, [Next]_vars PROVE CallInv' /\ LockInv'
  OBVIOUS
<1>. USE CallsAssumption DEF TypeOK, CallInv, LockInv, Calls, Readers, Goto, Answer, startVars,
         poolVars, lockVars, callVars, brokerVars, PublisherAt, InspectorAt, CloserAt
<1>1. CASE OpenNext \/ DeclareTopology \/ OpenLane \/ StartFails
  BY <1>1 DEF OpenNext, DeclareTopology, OpenLane, StartFails
<1>13. CASE KeepLane
  <2>1. stage # "ready" BY <1>13 DEF MakingInv, KeepLane
  <2>. QED BY <1>13, <2>1 DEF KeepLane
<1>2. ASSUME NEW c \in Readers, ReadLock(c) PROVE CallInv' /\ LockInv' BY <1>2 DEF ReadLock
<1>3. ASSUME NEW p \in Publishers, AcquireLane(p) PROVE CallInv' /\ LockInv'
  <2>1. Head(pool) # None BY <1>3, HeadTailProperties, PoolAssumption DEF AcquireLane
  <2>. QED BY <1>3, <2>1 DEF AcquireLane
<1>4. ASSUME NEW p \in Publishers, LaneTimeout(p) \/ Publish(p) PROVE CallInv' /\ LockInv'
  BY <1>4 DEF LaneTimeout, Publish
<1>5. ASSUME NEW p \in Publishers, Confirmed(p) \/ ConfirmTimeout(p) \/ ReturnLane(p) PROVE CallInv' /\ LockInv'
  <2>1. CASE Confirmed(p) BY <2>1, SMTT(30) DEF Confirmed
  <2>2. CASE ConfirmTimeout(p) BY <2>2, SMTT(30) DEF ConfirmTimeout
  <2>3. CASE ReturnLane(p) BY <2>3, SMTT(30) DEF ReturnLane
  <2>. QED BY <1>5, <2>1, <2>2, <2>3
<1>6. ASSUME NEW c \in Readers, ReadUnlock(c) PROVE CallInv' /\ LockInv' BY <1>6 DEF ReadUnlock
<1>7. ASSUME NEW i \in Inspectors, InspectLock(i) \/ InspectQueue(i) PROVE CallInv' /\ LockInv'
  BY <1>7 DEF InspectLock, InspectQueue
<1>8. ASSUME NEW k \in Closers, RequestWriteLock(k) \/ WriteLock(k) \/ WriteUnlock(k)
      PROVE  CallInv' /\ LockInv'
  BY <1>8 DEF RequestWriteLock, WriteLock, WriteUnlock
<1>9. ASSUME NEW k \in Closers, DrainLane(k) \/ CloseConnection(k) PROVE CallInv' /\ LockInv'
  BY <1>9 DEF DrainLane, CloseConnection
<1>10. ASSUME NEW p \in Publishers, Store(p) \/ Confirm(p) \/ Refuse(p) PROVE CallInv' /\ LockInv'
  BY <1>10 DEF Store, Confirm, Refuse
<1>11. ASSUME NEW gone, ChannelsLost(gone) PROVE CallInv' /\ LockInv' BY <1>11 DEF ChannelsLost
<1>12. CASE UNCHANGED vars BY <1>12 DEF vars
<1>. QED
  BY <1>1, <1>2, <1>3, <1>4, <1>5, <1>6, <1>7, <1>8, <1>9, <1>10, <1>11, <1>12, <1>13
     DEF Next, StartStep, PublishStep, InspectStep, CloseStep, BrokerStep

\* The sequence holds no element twice.
OnceEach(s) == \A m, n \in DOMAIN s : s[m] = s[n] => m = n
Members(s) == {s[n] : n \in DOMAIN s}

LEMMA PoolTail ==
  ASSUME NEW S, NEW s \in Seq(S), s # <<>>, OnceEach(s)
  PROVE  OnceEach(Tail(s)) /\ Members(Tail(s)) = Members(s) \ {Head(s)} /\ Head(s) \in Members(s)
<1>1. /\ Len(s) \in Nat \ {0} /\ DOMAIN s = 1 .. Len(s) /\ Head(s) = s[1]
      /\ Len(Tail(s)) = Len(s) - 1
      /\ \A n \in 1 .. Len(Tail(s)) : Tail(s)[n] = s[n + 1]
  BY HeadTailProperties, EmptySeq, LenProperties
<1>2. Tail(s) \in Seq(S) BY HeadTailProperties
<1>3. DOMAIN Tail(s) = 1 .. Len(s) - 1 BY <1>1, <1>2, LenProperties
<1>4. OnceEach(Tail(s)) BY <1>1, <1>3 DEF OnceEach
<1>5. Members(Tail(s)) \subseteq Members(s) \ {Head(s)}
  BY <1>1, <1>3 DEF Members, OnceEach
<1>6. ASSUME NEW e \in Members(s) \ {Head(s)} PROVE e \in Members(Tail(s))
  <2>1. PICK n \in 1 .. Len(s) : e = s[n] BY <1>1, <1>6 DEF Members
  <2>2. n # 1 BY <1>1, <1>6, <2>1
  <2>3. n - 1 \in 1 .. Len(s) - 1 /\ (n - 1) + 1 = n BY <1>1, <2>1, <2>2
  <2>4. Tail(s)[n - 1] = s[n] BY <1>1, <2>3
  <2>. QED BY <1>3, <2>1, <2>3, <2>4 DEF Members
<1>. QED BY <1>1, <1>4, <1>5, <1>6 DEF Members

LEMMA PoolAppend ==
  ASSUME NEW S, NEW s \in Seq(S), NEW e \in S, OnceEach(s), e \notin Members(s)
  PROVE  OnceEach(Append(s, e)) /\ Members(Append(s, e)) = Members(s) \cup {e}
<1>1. /\ Len(s) \in Nat /\ DOMAIN s = 1 .. Len(s)
      /\ DOMAIN Append(s, e) = 1 .. Len(s) + 1
      /\ Append(s, e)[Len(s) + 1] = e
      /\ \A n \in 1 .. Len(s) : Append(s, e)[n] = s[n]
  BY AppendProperties, LenProperties
<1>2. \A n \in DOMAIN Append(s, e) : n \in 1 .. Len(s) \/ n = Len(s) + 1 BY <1>1
<1>3. OnceEach(Append(s, e)) BY <1>1, <1>2 DEF OnceEach, Members
<1>4. Members(Append(s, e)) \subseteq Members(s) \cup {e} BY <1>1, <1>2 DEF Members
<1>5. Members(s) \cup {e} \subseteq Members(Append(s, e))
  <2>1. Len(s) + 1 \in DOMAIN Append(s, e) BY <1>1
  <2>2. \A n \in DOMAIN s : n \in DOMAIN Append(s, e) BY <1>1
  <2>. QED BY <1>1, <2>1, <2>2 DEF Members
<1>. QED BY <1>3, <1>4, <1>5

\* LanesConserved over the whole lists, as the proofs use it.
LEMMA Conserved ==
  LanesConserved <=> /\ OnceEach(pool)
                     /\ \A p, q \in Publishers : (p # q /\ lane[p] # None) => lane[p] # lane[q]
                     /\ Members(pool) \cap Borrowed = {}
                     /\ Members(pool) \cup Borrowed = (opened \cap Lanes) \ {making}
BY DEF LanesConserved, OnceEach, Members, Pooled

\* Nothing of the pool, the borrowed lanes and the open lanes changes.
LEMMA SameLanes ==
  ASSUME LanesConserved, pool' = pool, lane' = lane, making' = making,
         opened' \cap Lanes = opened \cap Lanes
  PROVE  LanesConserved'
BY DEF LanesConserved, Pooled, Borrowed

\* What is open at each stage of the start; and once closed, everything is gone or
\* one Close is at it.
OpenInv ==
    /\ stage \in {"connection", "failed"} => opened = {}
    /\ stage = "inspect" => opened \subseteq {"connection"}
    /\ stage = "topology" => opened \subseteq {"connection", "inspect"}
    /\ closed => stage = "ready" /\ (opened = {} \/ \E k \in Closers : pc[k] = "drain")
    /\ \A k \in Closers : /\ pc[k] = "drain" => closed
                          /\ pc[k] \in {"unlock", "done"} => closed /\ opened = {}

\* Every path of a failed start closes all that the start has opened.
LEMMA FailedStart ==
  ASSUME TypeOK, CallInv, LanesConserved, OpenInv, StartFails
  PROVE  opened' = {} /\ Borrowed = {} /\ pool' = <<>> /\ lane' = lane /\ making' = None
<1>1. stage \in {"connection", "inspect", "topology", "lanes"} BY DEF TypeOK, StartFails
<1>2. Borrowed = {} BY <1>1 DEF CallInv, Borrowed, Calls, Readers
<1>3. opened \subseteq ClosedOnFailure
  <2>1. CASE stage \in {"connection", "inspect", "topology"} BY <2>1 DEF OpenInv, ClosedOnFailure
  <2>2. CASE stage = "lanes"
    <3>1. ClosedOnFailure = ({making} \ {None}) \cup Pooled \cup {"inspect", "connection"}
      BY <2>2 DEF ClosedOnFailure
    <3>2. opened \cap Lanes \subseteq Pooled \cup ({making} \ {None})
      BY <1>2, CallsAssumption DEF LanesConserved, Calls
    <3>. QED BY <3>1, <3>2 DEF TypeOK, Objects
  <2>. QED BY <1>1, <2>1, <2>2
<1>. QED BY <1>2, <1>3 DEF StartFails, callVars

LEMMA LaneStep ==
  TypeOK /\ CallInv /\ LockInv /\ MakingInv /\ LanesConserved /\ OpenInv /\ [Next]_vars
    => LanesConserved'
<1>. SUFFICES ASSUME TypeOK, CallInv, LockInv, MakingInv, LanesConserved, OpenInv, [Next]_vars
              PROVE  LanesConserved'
  OBVIOUS
<1>. USE CallsAssumption, PoolAssumption DEF Calls, Readers, startVars, poolVars, lockVars, callVars,
         brokerVars
<1>0. /\ pool \in Seq(Lanes) /\ OnceEach(pool) /\ lane \in [Publishers -> Lanes \cup {None}]
      /\ \A p, q \in Publishers : (p # q /\ lane[p] # None) => lane[p] # lane[q]
      /\ Members(pool) \cap Borrowed = {}
      /\ Members(pool) \cup Borrowed = (opened \cap Lanes) \ {making}
  BY Conserved DEF TypeOK
<1>. DEFINE Goal == /\ OnceEach(pool')
                    /\ \A p, q \in Publishers : (p # q /\ lane'[p] # None) => lane'[p] # lane'[q]
                    /\ Members(pool') \cap Borrowed' = {}
                    /\ Members(pool') \cup Borrowed' = (opened' \cap Lanes) \ {making'}
<1>a. Goal => LanesConserved' BY DEF LanesConserved, OnceEach, Members, Pooled, Borrowed
<1>b. stage # "ready" => Borrowed = {}
  BY DEF CallInv, Borrowed
<1>1. CASE OpenNext
  <2>1. opened' \cap Lanes = opened \cap Lanes BY <1>1 DEF OpenNext
  <2>. QED BY <1>1, <2>1, SameLanes DEF OpenNext
<1>2. CASE DeclareTopology BY <1>2, SameLanes DEF DeclareTopology
<1>3. CASE OpenLane
  <2>1. making' \in Lanes \ opened /\ making = None BY <1>3 DEF OpenLane
  <2>2. pool' = pool /\ opened' = opened \cup {making'} /\ lane' = lane BY <1>3 DEF OpenLane
  <2>3. (opened' \cap Lanes) \ {making'} = (opened \cap Lanes) \ {making} BY <2>1, <2>2
  <2>4. Borrowed' = Borrowed BY <2>2 DEF Borrowed
  <2>. QED BY <1>0, <1>a, <2>2, <2>3, <2>4
<1>16. CASE KeepLane
  <2>1. making \in Lanes /\ making \in opened BY <1>16 DEF TypeOK, MakingInv, KeepLane
  <2>2. /\ pool' = Append(pool, making) /\ opened' = opened /\ lane' = lane /\ making' = None
        /\ making # None
    BY <1>16 DEF KeepLane
  <2>3. making \notin Members(pool) BY <1>0
  <2>4. OnceEach(pool') /\ Members(pool') = Members(pool) \cup {making}
    BY <1>0, <2>1, <2>2, <2>3, PoolAppend
  <2>5. Borrowed' = {} /\ Borrowed = {} BY <1>b, <1>16, <2>2 DEF Borrowed, MakingInv
  <2>. QED BY <1>0, <1>a, <2>1, <2>2, <2>4, <2>5
<1>4. CASE StartFails
  <2>1. pool' = <<>> /\ opened' = {} /\ lane' = lane /\ Borrowed = {} BY <1>4, FailedStart
  <2>2. OnceEach(pool') /\ Members(pool') = {} BY <2>1 DEF OnceEach, Members
  <2>3. Borrowed' = {} BY <2>1 DEF Borrowed
  <2>. QED BY <1>0, <1>a, <2>1, <2>2, <2>3
<1>5. ASSUME NEW c \in Readers, ReadLock(c) \/ ReadUnlock(c) PROVE LanesConserved'
  BY <1>5, SameLanes DEF ReadLock, ReadUnlock
<1>6. ASSUME NEW p \in Publishers, AcquireLane(p) PROVE LanesConserved'
  <2>1. /\ OnceEach(pool') /\ Members(pool') = Members(pool) \ {Head(pool)}
        /\ Head(pool) \in Members(pool)
    BY <1>0, <1>6, PoolTail DEF AcquireLane
  <2>2. Head(pool) \in Lanes BY <1>0, <1>6, HeadTailProperties DEF AcquireLane
  <2>3. /\ lane' = [lane EXCEPT ![p] = Head(pool)] /\ opened' = opened /\ lane[p] = None
        /\ making' = making
    BY <1>6 DEF AcquireLane, CallInv
  <2>4. Borrowed' = Borrowed \cup {Head(pool)} BY <1>0, <2>2, <2>3 DEF Borrowed
  <2>5. Head(pool) \notin Borrowed BY <1>0, <2>1
  <2>6. \A q \in Publishers : lane[q] # Head(pool) BY <2>2, <2>5 DEF Borrowed
  <2>7. \A q, r \in Publishers : (q # r /\ lane'[q] # None) => lane'[q] # lane'[r]
    BY <1>0, <2>3, <2>6
  <2>. QED BY <1>0, <1>a, <2>1, <2>3, <2>4, <2>5, <2>7
<1>7. ASSUME NEW p \in Publishers, LaneTimeout(p) \/ Publish(p) \/ Confirmed(p) \/ ConfirmTimeout(p)
      PROVE  LanesConserved'
  BY <1>7, SameLanes DEF LaneTimeout, Publish, Confirmed, ConfirmTimeout
<1>8. ASSUME NEW p \in Publishers, ReturnLane(p) PROVE LanesConserved'
  <2>1. /\ lane[p] \in Lanes /\ pool' = Append(pool, lane[p]) /\ opened' = opened
        /\ lane' = [lane EXCEPT ![p] = None] /\ making' = making
    BY <1>0, <1>8 DEF ReturnLane, CallInv
  <2>2. lane[p] \in Borrowed BY <2>1 DEF Borrowed
  <2>3. OnceEach(pool') /\ Members(pool') = Members(pool) \cup {lane[p]}
    BY <1>0, <2>1, <2>2, PoolAppend
  <2>4. Borrowed' = Borrowed \ {lane[p]} BY <1>0, <2>1 DEF Borrowed
  <2>5. \A q, r \in Publishers : (q # r /\ lane'[q] # None) => lane'[q] # lane'[r]
    BY <1>0, <2>1
  <2>. QED BY <1>0, <1>a, <2>1, <2>2, <2>3, <2>4, <2>5
<1>9. ASSUME NEW i \in Inspectors, InspectLock(i) \/ InspectQueue(i) PROVE LanesConserved'
  BY <1>9, SameLanes DEF InspectLock, InspectQueue
<1>10. ASSUME NEW k \in Closers, RequestWriteLock(k) \/ WriteLock(k) \/ WriteUnlock(k)
       PROVE  LanesConserved'
  BY <1>10, SameLanes DEF RequestWriteLock, WriteLock, WriteUnlock
<1>11. ASSUME NEW k \in Closers, DrainLane(k) PROVE LanesConserved'
  <2>1. Borrowed = {} BY <1>11 DEF DrainLane, LockInv, CallInv, Borrowed
  <2>2. OnceEach(pool') /\ Members(pool') = Members(pool) \ {Head(pool)}
    BY <1>0, <1>11, PoolTail DEF DrainLane
  <2>3. opened' = opened \ {Head(pool)} /\ lane' = lane /\ making' = making BY <1>11 DEF DrainLane
  <2>4. Borrowed' = {} BY <2>1, <2>3 DEF Borrowed
  <2>. QED BY <1>0, <1>a, <2>1, <2>2, <2>3, <2>4
<1>12. ASSUME NEW k \in Closers, CloseConnection(k) PROVE LanesConserved'
  <2>1. opened' \cap Lanes = opened \cap Lanes BY <1>12 DEF CloseConnection
  <2>. QED BY <1>12, <2>1, SameLanes DEF CloseConnection
<1>13. ASSUME NEW p \in Publishers, Store(p) \/ Confirm(p) \/ Refuse(p) PROVE LanesConserved'
  BY <1>13, SameLanes DEF Store, Confirm, Refuse
<1>14. ASSUME NEW gone, ChannelsLost(gone) PROVE LanesConserved'
  BY <1>14, SameLanes DEF ChannelsLost
<1>15. CASE UNCHANGED vars BY <1>15, SameLanes DEF vars
<1>. QED
  BY <1>1, <1>2, <1>3, <1>4, <1>5, <1>6, <1>7, <1>8, <1>9, <1>10, <1>11, <1>12, <1>13, <1>14, <1>15,
     <1>16
     DEF Next, StartStep, PublishStep, InspectStep, CloseStep, BrokerStep

\* An acknowledged task is stored, and a call that reports success was acknowledged.
StoredInv ==
    /\ \A p \in Publishers : confirm[p] = "ack" => p \in stored
    /\ OkMeansStored

LEMMA StoredStep == TypeOK /\ StoredInv /\ [Next]_vars => StoredInv'
<1>. SUFFICES ASSUME TypeOK, StoredInv, [Next]_vars PROVE StoredInv'
  OBVIOUS
<1>. USE CallsAssumption DEF TypeOK, StoredInv, OkMeansStored, Calls, Readers, Answer,
         startVars, poolVars, lockVars, callVars, brokerVars
<1>1. CASE StartStep \/ StartFails
  BY <1>1 DEF StartStep, OpenNext, DeclareTopology, OpenLane, KeepLane, StartFails
<1>2. ASSUME NEW c \in Readers, ReadLock(c) \/ ReadUnlock(c) PROVE StoredInv'
  BY <1>2 DEF ReadLock, ReadUnlock
<1>3. ASSUME NEW p \in Publishers, AcquireLane(p) \/ LaneTimeout(p) \/ Publish(p) PROVE StoredInv'
  BY <1>3 DEF AcquireLane, LaneTimeout, Publish
<1>4. ASSUME NEW p \in Publishers, Confirmed(p) \/ ConfirmTimeout(p) \/ ReturnLane(p)
      PROVE  StoredInv'
  BY <1>4 DEF Confirmed, ConfirmTimeout, ReturnLane
<1>5. ASSUME NEW i \in Inspectors, InspectLock(i) \/ InspectQueue(i) PROVE StoredInv'
  BY <1>5 DEF InspectLock, InspectQueue
<1>6. ASSUME NEW k \in Closers, CloseStep(k) PROVE StoredInv'
  BY <1>6 DEF CloseStep, RequestWriteLock, WriteLock, DrainLane, CloseConnection, WriteUnlock
<1>7. ASSUME NEW p \in Publishers, Store(p) \/ Confirm(p) \/ Refuse(p) PROVE StoredInv'
  BY <1>7 DEF Store, Confirm, Refuse
<1>8. ASSUME NEW gone, ChannelsLost(gone) PROVE StoredInv' BY <1>8 DEF ChannelsLost
<1>9. CASE UNCHANGED vars BY <1>9 DEF vars
<1>. QED
  BY <1>1, <1>2, <1>3, <1>4, <1>5, <1>6, <1>7, <1>8, <1>9
     DEF Next, PublishStep, InspectStep, BrokerStep

LEMMA OpenStep ==
  TypeOK /\ CallInv /\ MakingInv /\ LanesConserved /\ OpenInv /\ [Next]_vars => OpenInv'
<1>. SUFFICES ASSUME TypeOK, CallInv, MakingInv, LanesConserved, OpenInv, [Next]_vars PROVE OpenInv'
  OBVIOUS
<1>. USE CallsAssumption, PoolAssumption DEF TypeOK, OpenInv, CallInv, Calls, Readers, Goto,
         startVars, poolVars, lockVars, callVars, brokerVars
<1>1. CASE StartStep
  <2>1. CASE OpenNext BY <2>1 DEF OpenNext
  <2>2. CASE DeclareTopology \/ OpenLane BY <2>2 DEF DeclareTopology, OpenLane
  <2>3. CASE KeepLane BY <2>3 DEF KeepLane, MakingInv
  <2>. QED BY <1>1, <2>1, <2>2, <2>3 DEF StartStep
<1>14. CASE StartFails
  <2>1. opened' = {} BY <1>14, FailedStart
  <2>. QED BY <1>14, <2>1 DEF StartFails
<1>2. ASSUME NEW c \in Readers, ReadLock(c) \/ ReadUnlock(c) PROVE OpenInv'
  BY <1>2 DEF ReadLock, ReadUnlock
<1>3. ASSUME NEW p \in Publishers, AcquireLane(p) \/ LaneTimeout(p) \/ Publish(p) PROVE OpenInv'
  BY <1>3 DEF AcquireLane, LaneTimeout, Publish
<1>4. ASSUME NEW p \in Publishers, Confirmed(p) \/ ConfirmTimeout(p) \/ ReturnLane(p)
      PROVE  OpenInv'
  BY <1>4 DEF Confirmed, ConfirmTimeout, ReturnLane
<1>5. ASSUME NEW i \in Inspectors, InspectLock(i) \/ InspectQueue(i) PROVE OpenInv'
  BY <1>5 DEF InspectLock, InspectQueue
<1>6. ASSUME NEW k \in Closers, RequestWriteLock(k) PROVE OpenInv' BY <1>6 DEF RequestWriteLock
<1>7. ASSUME NEW k \in Closers, WriteLock(k) PROVE OpenInv'
  <2>1. writer = k /\ \A j \in Closers : j # k => pc[j] # "drain" BY <1>7 DEF WriteLock
  <2>. QED BY <1>7, <2>1 DEF WriteLock
<1>8. ASSUME NEW k \in Closers, DrainLane(k) PROVE OpenInv'
  <2>1. \A j \in Closers : j # k => pc[j] # "unlock" BY <1>8 DEF DrainLane
  <2>. QED BY <1>8, <2>1 DEF DrainLane
<1>9. ASSUME NEW k \in Closers, CloseConnection(k) PROVE OpenInv'
  <2>1. opened' = {} BY <1>9 DEF CloseConnection, Objects
  <2>. QED BY <1>9, <2>1 DEF CloseConnection
<1>10. ASSUME NEW k \in Closers, WriteUnlock(k) PROVE OpenInv' BY <1>10 DEF WriteUnlock
<1>11. ASSUME NEW p \in Publishers, Store(p) \/ Confirm(p) \/ Refuse(p) PROVE OpenInv'
  BY <1>11 DEF Store, Confirm, Refuse
<1>12. ASSUME NEW gone, ChannelsLost(gone) PROVE OpenInv' BY <1>12 DEF ChannelsLost
<1>13. CASE UNCHANGED vars BY <1>13 DEF vars
<1>. QED
  BY <1>1, <1>2, <1>3, <1>4, <1>5, <1>6, <1>7, <1>8, <1>9, <1>10, <1>11, <1>12, <1>13, <1>14
     DEF Next, PublishStep, InspectStep, CloseStep, BrokerStep

IInv == TypeOK /\ CallInv /\ LockInv /\ MakingInv /\ LanesConserved /\ StoredInv /\ OpenInv

LEMMA Initially == Init => IInv
<1>. SUFFICES ASSUME Init PROVE IInv
  OBVIOUS
<1>. USE CallsAssumption, PoolAssumption DEF Init, Calls, Readers
<1>1. TypeOK
  <2>1. pool \in Seq(Lanes) BY EmptySeq
  <2>2. faults \in 0 .. MaxFaults OBVIOUS
  <2>3. opened \subseteq Objects /\ alive \subseteq opened \ {"connection"} OBVIOUS
  <2>4. pc \in [Calls -> {"call", "lane", "publish", "wait", "return", "mutex", "inspect",
                         "lock", "drain", "unlock", "done"}]
    OBVIOUS
  <2>5. /\ lane \in [Publishers -> Lanes \cup {None}]
        /\ answer \in [Calls -> {"none", "ok", "error"}]
        /\ sentOn \in [Publishers -> Lanes \cup {None}]
        /\ confirm \in [Publishers -> {"none", "ack", "nack"}]
    OBVIOUS
  <2>. QED BY <2>1, <2>2, <2>3, <2>4, <2>5 DEF TypeOK
<1>2. CallInv /\ LockInv
  BY DEF CallInv, LockInv, PublisherAt, InspectorAt, CloserAt
<1>3. LanesConserved BY DEF LanesConserved, Pooled, Borrowed
<1>4. StoredInv /\ OpenInv /\ MakingInv
  BY DEF StoredInv, OkMeansStored, OpenInv, MakingInv
<1>. QED BY <1>1, <1>2, <1>3, <1>4 DEF IInv

LEMMA Always == Spec => []IInv
<1>1. IInv /\ [Next]_vars => IInv'
  BY TypeStep, CallStep, MakingStep, LaneStep, StoredStep, OpenStep DEF IInv
<1>. QED BY Initially, <1>1, PTL DEF Spec

\* For any number of calls and lanes, the variables of the publisher (rabbit.go,
\* RabbitPublisher) keep their types through start-up, calls and Close.
THEOREM TypeCorrect == Spec => []TypeOK
<1>1. IInv => TypeOK BY DEF IInv
<1>. QED BY <1>1, Always, PTL

\* Every open lane is in the pool once or with exactly one call of PublishTask,
\* whatever call fails, and none is lost.
THEOREM LanesAreConserved == Spec => []LanesConserved
<1>1. IInv => LanesConserved BY DEF IInv
<1>. QED BY <1>1, Always, PTL

\* When Close drains the pool no call has a lane or inspects a queue, so that
\* every open lane is waiting in the pool: its loop of receives cannot block.
THEOREM CloseDrainsDeterministically == Spec => []DrainIsDeterministic
<1>1. IInv => DrainIsDeterministic
  <2>. SUFFICES ASSUME IInv, NEW k \in Closers, pc[k] = "drain"
                PROVE  Borrowed = {} /\ inspecting = None /\ Pooled = opened \cap Lanes
    BY DEF DrainIsDeterministic
  <2>1. readers = {} BY DEF IInv, LockInv
  <2>2. Borrowed = {} BY <2>1 DEF IInv, CallInv, Borrowed, Readers
  <2>3. inspecting = None BY <2>1 DEF IInv, TypeOK, CallInv, Readers
  <2>4. making \notin Lanes BY CallsAssumption DEF IInv, OpenInv, MakingInv, Calls
  <2>. QED BY <2>2, <2>3, <2>4 DEF IInv, LanesConserved
<1>. QED BY <1>1, Always, PTL

\* PublishTask returns nil only when the broker has the task in the queue.
THEOREM SuccessIsStored == Spec => []OkMeansStored
<1>1. IInv => OkMeansStored BY DEF IInv, StoredInv
<1>. QED BY <1>1, Always, PTL

\* Neither a failed start nor a finished Close leaves a channel or the
\* connection open.
THEOREM NothingIsLeftOpen == Spec => []NothingLeftOpen
<1>1. IInv => NothingLeftOpen BY DEF IInv, OpenInv, NothingLeftOpen
<1>. QED BY <1>1, Always, PTL
====

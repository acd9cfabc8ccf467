---- MODULE ContestProofs ----
(***************************************************************************)
(* What the handlers of a contest keep for every number of users, problems *)
(* and concurrent requests, and that they do with the rows what            *)
(* ContestTables allows.                                                   *)
(***************************************************************************)
EXTENDS Contest, TLAPS

\* What a request has found out about its user stays true until it inserts.
ChecksHold ==
    \A r \in Requests :
        /\ request[r].pc = "problem" => request[r].user \in Admins \/ IsJoined(request[r].user)
        /\ request[r].pc = "insert" =>
              \/ request[r].user \in Admins
              \/ IsJoined(request[r].user) /\ joined[request[r].user] <= request[r].created

Inv == TypeOK /\ ChecksHold /\ JoinedBeforeSubmitting

USE ContestAssumption DEF T!ContestAssumption

\* The kinds of records a request may be, by its pc.
Finding == [pc : {"find"}, user : Users]
Creating(n) == [pc : {"create"}, user : Users, found : 0 .. n]
Checking == [pc : {"joined", "problem"}, user : Users, problem : Problems]
Inserting(n) == [pc : {"insert"}, user : Users, problem : Problems, created : 0 .. n]
Publishing(d) == [pc : {"publish"}, id : d]
Editing == [pc : {"edit"}, contest : T!Contests, problems : SUBSET Problems]
Kinds(n, d) == {Idle} \cup Finding \cup Creating(n) \cup Checking \cup Inserting(n)
                      \cup Publishing(d) \cup Editing

Ids == DOMAIN submissions
Rows(n) == [user : Users, problem : Problems, created : 0 .. n, status : T!Statuses]

TablesOK ==
    /\ now \in 0 .. MaxTime
    /\ contest \in T!Contests \cup {None} /\ problems \subseteq Problems
    /\ joined \in [Users -> (0 .. now) \cup {None}]
    /\ submissions \in Seq(Rows(now))
    /\ changes \in Nat /\ overwritten \subseteq DOMAIN submissions

LEMMA TypeSplit == TypeOK <=> TablesOK /\ request \in [Requests -> Kinds(now, Ids)]
BY DEF TypeOK, TablesOK, Kinds, Finding, Creating, Checking, Inserting, Publishing, Editing,
   Rows, Ids

LEMMA TypeSplitNext == TypeOK' <=> TablesOK' /\ request' \in [Requests -> Kinds(now', Ids')]
BY DEF TypeOK, TablesOK, Kinds, Finding, Creating, Checking, Inserting, Publishing, Editing,
   Rows, Ids

\* The pc of a request tells what else it has.
LEMMA KindByPc ==
    ASSUME NEW n \in Nat, NEW d, NEW q \in Kinds(n, d)
    PROVE  /\ q.pc \in {"idle", "find", "create", "joined", "problem", "insert", "publish", "edit"}
           /\ q.pc = "find" => q \in Finding
           /\ q.pc = "create" => q \in Creating(n)
           /\ q.pc \in {"joined", "problem"} => q \in Checking
           /\ q.pc = "insert" => q \in Inserting(n)
           /\ q.pc = "publish" => q \in Publishing(d)
           /\ q.pc = "edit" => q \in Editing
           /\ q.pc = "idle" => q = Idle
BY DEF Kinds, Finding, Creating, Checking, Inserting, Publishing, Editing, Idle

\* Time and new submissions only widen the kinds.
LEMMA KindsGrow ==
    ASSUME NEW n \in Nat, NEW m \in Nat, n <= m, NEW d, NEW e, d \subseteq e, NEW q \in Kinds(n, d)
    PROVE  q \in Kinds(m, e)
BY DEF Kinds, Creating, Inserting, Publishing

\* A new status leaves a sequence of rows, of the same length, that agree with
\* the old ones in everything else.
LEMMA StatusSet ==
    ASSUME submissions \in Seq(Rows(now)), NEW n \in DOMAIN submissions,
           NEW s \in T!Statuses, T!SetStatus(n, s)
    PROVE  /\ submissions' \in Seq(Rows(now))
           /\ DOMAIN submissions' = DOMAIN submissions
           /\ \A m \in DOMAIN submissions : /\ submissions'[m].user = submissions[m].user
                                            /\ submissions'[m].created = submissions[m].created
<1> DEFINE row == [submissions[n] EXCEPT !.status = s]
<1>1. submissions[n] \in Rows(now) OBVIOUS
<1>2. row = [user |-> submissions[n].user, problem |-> submissions[n].problem,
             created |-> submissions[n].created, status |-> s]
  BY <1>1 DEF Rows
<1>3. row \in Rows(now) BY <1>1, <1>2 DEF Rows
<1>4. submissions' = [submissions EXCEPT ![n] = row] BY DEF T!SetStatus
<1> HIDE DEF row
<1>5. /\ submissions' \in Seq(Rows(now))
      /\ DOMAIN submissions' = DOMAIN submissions
      /\ \A m \in DOMAIN submissions : submissions'[m] = IF m = n THEN row ELSE submissions[m]
  BY <1>3, <1>4
<1> QED BY <1>2, <1>5

\* A step of one request that leaves the rows alone.
LEMMA RequestSteps ==
    ASSUME TypeOK, NEW r \in Requests, NEW q \in Kinds(now, Ids), Set(r, q), OnlyRequests
    PROVE  TypeOK'
<1>1. request' \in [Requests -> Kinds(now', Ids')]
  BY TypeSplit DEF Set, OnlyRequests, Ids
<1>2. TablesOK'
  BY TypeSplit DEF TablesOK, Rows, OnlyRequests
<1> QED BY <1>1, <1>2, TypeSplitNext

\* What is done with submission n, other than by a request that publishes it.
Writes(n) == Judge(n) \/ Rejudge(n) \/ \E s \in T!Statuses : Overwrite(n, s)

LEMMA WritesStatus ==
    ASSUME NEW n, Writes(n)
    PROVE  \E s \in T!Statuses : T!SetStatus(n, s)
<1>1. {"Pending", "Accepted", "Rejected"} = T!Statuses BY DEF T!Statuses
<1> QED BY <1>1 DEF Writes, Judge, Rejudge, Overwrite, T!Judge, T!Rejudge, T!Overwrite

LEMMA TypeInit == Init => TypeOK
<1> SUFFICES ASSUME Init PROVE TypeOK OBVIOUS
<1>1. TablesOK BY DEF Init, T!Init, TablesOK, T!Contests
<1>2. request \in [Requests -> Kinds(now, Ids)] BY DEF Init, Kinds
<1> QED BY <1>1, <1>2, TypeSplit

LEMMA TypeNext == TypeOK /\ [Next]_vars => TypeOK'
<1> SUFFICES ASSUME TypeOK, [Next]_vars PROVE TypeOK' OBVIOUS
<1> USE TypeSplit
<1>0. /\ now \in Nat /\ now \in 0 .. MaxTime
      /\ request \in [Requests -> Kinds(now, Ids)]
  BY DEF TablesOK
<1>1. CASE Tick
  <2>1. now' = now + 1 /\ now' \in 0 .. MaxTime BY <1>1, <1>0 DEF Tick, T!Tick
  <2>2. 0 .. now \subseteq 0 .. now' BY <2>1, <1>0
  <2>3. TablesOK'
    <3>1. Rows(now) \subseteq Rows(now') BY <2>2 DEF Rows
    <3>2. Seq(Rows(now)) \subseteq Seq(Rows(now')) BY <3>1
    <3> QED BY <1>1, <2>1, <2>2, <3>2 DEF TablesOK, Tick, T!Tick
  <2>4. request' \in [Requests -> Kinds(now', Ids')]
    <3>1. Ids' = Ids /\ request' = request BY <1>1 DEF Tick, T!Tick, Ids
    <3>2. now' \in Nat /\ now <= now' BY <2>1, <1>0
    <3> QED BY <3>1, <3>2, <1>0, KindsGrow
  <2> QED BY <2>3, <2>4, TypeSplitNext
<1>2. ASSUME NEW r \in Requests, NEW u \in Users, ReadToJoin(r, u) PROVE TypeOK'
  <2>1. [pc |-> "find", user |-> u] \in Kinds(now, Ids) BY DEF Kinds, Finding
  <2> QED BY <1>2, <2>1, RequestSteps DEF ReadToJoin
<1>3. ASSUME NEW r \in Requests, NEW u \in Users, NEW p \in Problems, ReadToSubmit(r, u, p)
      PROVE TypeOK'
  <2>1. Submission("joined", u, p) \in Kinds(now, Ids) BY DEF Kinds, Checking, Submission
  <2> QED BY <1>3, <2>1, RequestSteps DEF ReadToSubmit
<1>4. ASSUME NEW r \in Requests, NEW c \in T!Forms, NEW ps \in SUBSET Problems, ReadToEdit(r, c, ps)
      PROVE TypeOK'
  <2>1. [pc |-> "edit", contest |-> c, problems |-> ps] \in Kinds(now, Ids)
    BY <1>4 DEF Kinds, Editing, ReadToEdit, T!Contests
  <2> QED BY <1>4, <2>1, RequestSteps DEF ReadToEdit
<1>5. ASSUME NEW r \in Requests, FindParticipant(r) PROVE TypeOK'
  <2>1. request[r] \in Finding BY <1>5, <1>0, KindByPc DEF FindParticipant
  <2>2. [pc |-> "create", user |-> request[r].user, found |-> now] \in Kinds(now, Ids)
    BY <2>1, <1>0 DEF Kinds, Creating, Finding
  <2>3. Idle \in Kinds(now, Ids) BY DEF Kinds
  <2> QED BY <1>5, <2>2, <2>3, RequestSteps DEF FindParticipant
<1>6. ASSUME NEW r \in Requests, CreateParticipant(r) PROVE TypeOK'
  <2>1. request[r] \in Creating(now) BY <1>6, <1>0, KindByPc DEF CreateParticipant
  <2>2. joined' \in [Users -> (0 .. now) \cup {None}]
    <3>1. \A t \in request[r].found .. now : t \in 0 .. now BY <2>1, <1>0 DEF Creating
    <3> QED BY <1>6, <2>1, <3>1 DEF CreateParticipant, TablesOK
  <2>3. TablesOK' BY <1>6, <2>2 DEF CreateParticipant, TablesOK
  <2>4. request' \in [Requests -> Kinds(now', Ids')]
    BY <1>6 DEF CreateParticipant, Set, Kinds, Ids
  <2> QED BY <2>3, <2>4, TypeSplitNext
<1>7. ASSUME NEW r \in Requests, CheckJoined(r) PROVE TypeOK'
  <2>1. request[r] \in Checking BY <1>7, <1>0, KindByPc DEF CheckJoined
  <2>2. [request[r] EXCEPT !.pc = "problem"] \in Kinds(now, Ids) BY <2>1 DEF Kinds, Checking
  <2> QED BY <1>7, <2>2, RequestSteps DEF CheckJoined
<1>8. ASSUME NEW r \in Requests, CheckProblem(r) PROVE TypeOK'
  <2>1. request[r] \in Checking BY <1>8, <1>0, KindByPc DEF CheckProblem
  <2>2. [pc |-> "insert", user |-> request[r].user, problem |-> request[r].problem,
         created |-> now] \in Kinds(now, Ids)
    BY <2>1, <1>0 DEF Kinds, Checking, Inserting
  <2> QED BY <1>8, <2>2, RequestSteps DEF CheckProblem
<1>9. ASSUME NEW r \in Requests, InsertSubmission(r) PROVE TypeOK'
  <2>1. request[r] \in Inserting(now) BY <1>9, <1>0, KindByPc DEF InsertSubmission
  <2>2. [user |-> request[r].user, problem |-> request[r].problem,
         created |-> request[r].created, status |-> "Pending"] \in Rows(now)
    BY <2>1 DEF Inserting, Rows, T!Statuses
  <2> DEFINE row == [user |-> request[r].user, problem |-> request[r].problem,
                     created |-> request[r].created, status |-> "Pending"]
  <2> HIDE DEF row
  <2>3. submissions' = Append(submissions, row) /\ row \in Rows(now) /\ submissions \in Seq(Rows(now))
    BY <1>9, <2>2 DEF InsertSubmission, TablesOK, row
  <2>4. /\ submissions' \in Seq(Rows(now))
        /\ Ids \subseteq Ids' /\ Len(submissions) + 1 \in Ids'
    BY <2>3 DEF Ids
  <2>5. TablesOK' BY <1>9, <2>4 DEF InsertSubmission, TablesOK, Ids
  <2>6. request' \in [Requests -> Kinds(now', Ids')]
    <3>1. [pc |-> "publish", id |-> Len(submissions) + 1] \in Kinds(now, Ids')
      BY <2>4 DEF Kinds, Publishing
    <3>2. \A q \in Requests : request[q] \in Kinds(now, Ids') BY <1>0, <2>4, KindsGrow
    <3> QED BY <1>9, <3>1, <3>2 DEF InsertSubmission, Set
  <2> QED BY <2>5, <2>6, TypeSplitNext
<1>10. ASSUME NEW r \in Requests, UpdateContest(r) PROVE TypeOK'
  <2>1. request[r] \in Editing BY <1>10, <1>0, KindByPc DEF UpdateContest
  <2>2. changes' \in Nat BY <1>10 DEF UpdateContest, T!Change, TablesOK
  <2>3. TablesOK' BY <1>10, <2>1, <2>2 DEF UpdateContest, TablesOK, Editing
  <2>4. request' \in [Requests -> Kinds(now', Ids')]
    BY <1>10 DEF UpdateContest, Set, Kinds, Ids
  <2> QED BY <2>3, <2>4, TypeSplitNext
<1>11. ASSUME NEW r \in Requests, Refuse(r) PROVE TypeOK'
  BY <1>11, RequestSteps DEF Refuse, Kinds
<1>12. ASSUME NEW n \in DOMAIN submissions, Writes(n) PROVE TypeOK'
  <2>1. submissions' \in Seq(Rows(now)) /\ Ids' = Ids
    <3>1. PICK s \in T!Statuses : T!SetStatus(n, s) BY <1>12, WritesStatus
    <3> QED BY <3>1, StatusSet DEF TablesOK, Ids
  <2>2. changes' \in Nat
    BY <1>12 DEF TablesOK, T!Change, Writes, Judge, Rejudge, Overwrite, T!Judge, T!Rejudge, T!Overwrite
  <2>3. UNCHANGED <<now, contest, problems, joined, request>>
    BY <1>12 DEF Writes, Judge, Rejudge, Overwrite, T!Judge, T!Rejudge, T!Overwrite
  <2>4. overwritten' \subseteq Ids
    BY <1>12 DEF TablesOK, Ids, Writes, Judge, Rejudge, Overwrite, T!Judge, T!Rejudge, T!Overwrite, T!Mark
  <2>5. TablesOK' BY <2>1, <2>2, <2>3, <2>4 DEF TablesOK, Ids
  <2> QED BY <2>1, <2>3, <2>5, TypeSplitNext
<1>15. ASSUME NEW r \in Requests, PublishFails(r) PROVE TypeOK'
  <2>1. request[r] \in Publishing(Ids) BY <1>15, <1>0, KindByPc DEF PublishFails
  <2> DEFINE n == request[r].id
  <2>2. n \in DOMAIN submissions BY <2>1 DEF Publishing, Ids
  <2>3. T!SetStatus(n, "Rejected") /\ "Rejected" \in T!Statuses
    BY <1>15 DEF PublishFails, T!Statuses
  <2>4. overwritten' \subseteq Ids
    BY <1>15, <2>2 DEF PublishFails, T!Mark, TablesOK, Ids
  <2> HIDE DEF n
  <2>5. submissions' \in Seq(Rows(now)) /\ Ids' = Ids
    BY <2>2, <2>3, StatusSet DEF TablesOK, Ids
  <2>6. TablesOK' BY <1>15, <2>4, <2>5 DEF PublishFails, TablesOK, Ids
  <2>7. request' \in [Requests -> Kinds(now', Ids')]
    BY <1>15, <2>5 DEF PublishFails, Set, Kinds
  <2> QED BY <2>6, <2>7, TypeSplitNext
<1>13. CASE DeleteContest
  <2>1. changes' \in Nat BY <1>13 DEF DeleteContest, T!Change, TablesOK
  <2>2. TablesOK' BY <1>13, <2>1 DEF DeleteContest, TablesOK
  <2> QED BY <1>13, <2>2, TypeSplitNext DEF DeleteContest, Ids
<1>14. CASE UNCHANGED vars BY <1>14 DEF TypeOK, vars
<1> QED BY <1>1, <1>2, <1>3, <1>4, <1>5, <1>6, <1>7, <1>8, <1>9, <1>10, <1>11, <1>12, <1>13, <1>14,
           <1>15 DEF Next, Writes

\* Tables and requests keep their types; a contest ends after it starts and
\* nothing is created in the future.
THEOREM TypeCorrect == Spec => []TypeOK
BY TypeInit, TypeNext, PTL DEF Spec

----------------------------------------------------------------------------
(* Joining before submitting.                                              *)

\* Only an insertion that finds no row writes a time of joining.
LEMMA JoinedStays ==
    ASSUME TypeOK, [Next]_vars, NEW u \in Users, IsJoined(u)
    PROVE  joined'[u] = joined[u]
<1>1. joined \in [Users -> (0 .. now) \cup {None}] BY DEF TypeOK
<1>2. ASSUME NEW r \in Requests, CreateParticipant(r) PROVE joined'[u] = joined[u]
  BY <1>1, <1>2 DEF CreateParticipant, IsJoined
<1>3. CASE UNCHANGED joined BY <1>3
<1>4. CASE UNCHANGED vars BY <1>4 DEF vars
<1>5. CASE Next
  <2>1. UNCHANGED joined \/ \E r \in Requests : CreateParticipant(r)
    BY <1>5 DEF Next, Tick, T!Tick, ReadToJoin, ReadToSubmit, ReadToEdit, FindParticipant,
        CheckJoined, CheckProblem, InsertSubmission, PublishFails, UpdateContest, Refuse,
        OnlyRequests, Judge, Rejudge, Overwrite, T!Judge, T!Rejudge, T!Overwrite, DeleteContest
  <2> QED BY <2>1, <1>2, <1>3
<1> QED BY <1>4, <1>5

\* Every step makes at most one request go on, and none but the requests that
\* pass the two checks get to "problem" and "insert".
LEMMA ChecksNext == TypeOK /\ ChecksHold /\ [Next]_vars => ChecksHold'
<1> SUFFICES ASSUME TypeOK, ChecksHold, [Next]_vars, NEW r \in Requests
             PROVE  /\ request'[r].pc = "problem" =>
                           request'[r].user \in Admins \/ joined'[request'[r].user] # None
                    /\ request'[r].pc = "insert" =>
                           \/ request'[r].user \in Admins
                           \/ /\ joined'[request'[r].user] # None
                              /\ joined'[request'[r].user] <= request'[r].created
  BY DEF ChecksHold, IsJoined
<1>1. now \in Nat /\ request \in [Requests -> Kinds(now, Ids)] BY TypeSplit DEF TablesOK
<1>2. /\ request[r].pc \in {"problem", "insert"} => request[r].user \in Users
      /\ request[r].pc = "joined" => request[r].user \in Users
  BY <1>1, KindByPc DEF Checking, Inserting
<1>5. ASSUME NEW q \in Requests, CheckJoined(q), q = r
      PROVE  /\ request'[r].pc = "problem"
             /\ request'[r].user \in Admins \/ joined'[request'[r].user] # None
  <2>1. request[r] \in Checking BY <1>1, <1>5, KindByPc DEF CheckJoined
  <2>2. request'[r] = [request[r] EXCEPT !.pc = "problem"] BY <1>1, <1>5 DEF CheckJoined, Set
  <2>3. request'[r].pc = "problem" /\ request'[r].user = request[r].user BY <2>1, <2>2 DEF Checking
  <2> QED BY <2>3, <1>5 DEF CheckJoined, OnlyRequests, IsJoined
<1>6. ASSUME NEW q \in Requests, CheckProblem(q), q = r
      PROVE  /\ request'[r].pc = "insert"
             /\ \/ request'[r].user \in Admins
                \/ /\ joined'[request'[r].user] # None
                   /\ joined'[request'[r].user] <= request'[r].created
  <2>1. request[r] \in Checking BY <1>1, <1>6, KindByPc DEF CheckProblem
  <2>2. request'[r] = [pc |-> "insert", user |-> request[r].user,
                       problem |-> request[r].problem, created |-> now]
    BY <1>1, <1>6 DEF CheckProblem, Set
  <2>3. IsJoined(request[r].user) => joined[request[r].user] <= now
    <3>1. request[r].user \in Users BY <2>1 DEF Checking
    <3>2. joined[request[r].user] \in (0 .. now) \cup {None} BY <3>1 DEF TypeOK
    <3> QED BY <3>2, <1>1 DEF IsJoined
  <2> QED BY <2>2, <2>3, <1>6 DEF CheckProblem, OnlyRequests, IsJoined, ChecksHold
<1>7. CASE request'[r] = request[r]
  <2>1. ASSUME request[r].pc \in {"problem", "insert"}, IsJoined(request[r].user)
        PROVE  joined'[request[r].user] # None /\ joined'[request[r].user] = joined[request[r].user]
    <3>1. joined'[request[r].user] = joined[request[r].user] BY <1>2, <2>1, JoinedStays
    <3> QED BY <1>7, <2>1, <3>1 DEF IsJoined
  <2> QED BY <1>7, <2>1 DEF ChecksHold
<1>8. CASE request'[r] # request[r] /\ request'[r].pc \notin {"problem", "insert"} BY <1>8
<1>9. CASE request'[r] # request[r] /\ request'[r].pc \in {"problem", "insert"}
  <2>1. CheckJoined(r) \/ CheckProblem(r)
    <3>1. ~UNCHANGED request BY <1>9
    <3>2. PICK q \in Requests :
             \/ \E u \in Users : ReadToJoin(q, u) \/ \E p \in Problems : ReadToSubmit(q, u, p)
             \/ \E c \in T!Forms, ps \in SUBSET Problems : ReadToEdit(q, c, ps)
             \/ FindParticipant(q) \/ CreateParticipant(q)
             \/ CheckJoined(q) \/ CheckProblem(q) \/ InsertSubmission(q) \/ PublishFails(q)
             \/ UpdateContest(q)
             \/ Refuse(q)
      BY <3>1 DEF Next, vars, Tick, Judge, Rejudge, Overwrite, DeleteContest
    <3>3. \A k : Set(q, k) => request'[r] = request[r] \/ (r = q /\ request'[r] = k)
      BY <1>1 DEF Set
    <3>4. CASE \/ \E u \in Users : ReadToJoin(q, u) \/ \E p \in Problems : ReadToSubmit(q, u, p)
               \/ \E c \in T!Forms, ps \in SUBSET Problems : ReadToEdit(q, c, ps)
      <4>1. ASSUME NEW u \in Users, ReadToJoin(q, u) PROVE FALSE
        BY <3>3, <4>1, <1>9 DEF ReadToJoin
      <4>2. ASSUME NEW u \in Users, NEW p \in Problems, ReadToSubmit(q, u, p) PROVE FALSE
        BY <3>3, <4>2, <1>9 DEF ReadToSubmit, Submission
      <4>3. ASSUME NEW c \in T!Forms, NEW ps \in SUBSET Problems, ReadToEdit(q, c, ps) PROVE FALSE
        BY <3>3, <4>3, <1>9 DEF ReadToEdit
      <4> QED BY <3>4, <4>1, <4>2, <4>3
    <3>5. CASE \/ FindParticipant(q) \/ CreateParticipant(q) \/ InsertSubmission(q)
               \/ PublishFails(q) \/ UpdateContest(q) \/ Refuse(q)
      BY <3>3, <3>5, <1>9 DEF FindParticipant, CreateParticipant, InsertSubmission,
         PublishFails, UpdateContest, Refuse, Idle
    <3>6. CASE CheckJoined(q) \/ CheckProblem(q)
      BY <3>3, <3>6, <1>9 DEF CheckJoined, CheckProblem
    <3> QED BY <3>2, <3>4, <3>5, <3>6
  <2> QED BY <2>1, <1>5, <1>6
<1> QED BY <1>7, <1>8, <1>9

LEMMA JoinedNext ==
    TypeOK /\ ChecksHold /\ JoinedBeforeSubmitting /\ [Next]_vars => JoinedBeforeSubmitting'
<1> SUFFICES ASSUME TypeOK, ChecksHold, JoinedBeforeSubmitting, [Next]_vars
             PROVE  JoinedBeforeSubmitting'
  OBVIOUS
<1> DEFINE Fair(s) == s.user \notin Admins => joined'[s.user] # None /\ joined'[s.user] <= s.created
<1>1. /\ now \in Nat /\ request \in [Requests -> Kinds(now, Ids)]
      /\ submissions \in Seq(Rows(now))
  BY TypeSplit DEF TablesOK
<1>2. \A n \in DOMAIN submissions : Fair(submissions[n])
  <2> SUFFICES ASSUME NEW n \in DOMAIN submissions, submissions[n].user \notin Admins
               PROVE  joined'[submissions[n].user] # None
                      /\ joined'[submissions[n].user] <= submissions[n].created
    OBVIOUS
  <2>0. submissions[n] \in Rows(now) BY <1>1
  <2>1. submissions[n].user \in Users BY <2>0 DEF Rows
  <2>2. IsJoined(submissions[n].user) /\ joined[submissions[n].user] <= submissions[n].created
    BY DEF JoinedBeforeSubmitting
  <2>3. joined'[submissions[n].user] = joined[submissions[n].user] BY <2>1, <2>2, JoinedStays
  <2> QED BY <2>2, <2>3 DEF IsJoined
<1>3. CASE UNCHANGED submissions BY <1>2, <1>3 DEF JoinedBeforeSubmitting, IsJoined
<1>4. ASSUME NEW r \in Requests, InsertSubmission(r) PROVE JoinedBeforeSubmitting'
  <2> DEFINE s == [user |-> request[r].user, problem |-> request[r].problem,
                   created |-> request[r].created, status |-> "Pending"]
  <2>1. Fair(s) BY <1>4 DEF InsertSubmission, ChecksHold, IsJoined
  <2>2. \A n \in DOMAIN submissions' :
            \/ submissions'[n] = s
            \/ (n \in DOMAIN submissions /\ submissions'[n] = submissions[n])
    BY <1>1, <1>4 DEF InsertSubmission
  <2> HIDE DEF s
  <2>3. \A n \in DOMAIN submissions' : Fair(submissions'[n]) BY <1>2, <2>1, <2>2
  <2> QED BY <2>3 DEF JoinedBeforeSubmitting, IsJoined
<1>5. ASSUME NEW n \in DOMAIN submissions,
             Writes(n) \/ \E r \in Requests : PublishFails(r) /\ request[r].id = n
      PROVE  JoinedBeforeSubmitting'
  <2>1. \E s \in T!Statuses : T!SetStatus(n, s)
    BY <1>5, WritesStatus DEF PublishFails, T!Statuses
  <2>2. /\ DOMAIN submissions' = DOMAIN submissions
        /\ \A m \in DOMAIN submissions : /\ submissions'[m].user = submissions[m].user
                                         /\ submissions'[m].created = submissions[m].created
    BY <1>1, <2>1, StatusSet
  <2>3. \A m \in DOMAIN submissions' : Fair(submissions'[m]) BY <1>2, <2>2
  <2> QED BY <2>3 DEF JoinedBeforeSubmitting, IsJoined
<1>6. UNCHANGED submissions \/ (\E r \in Requests : InsertSubmission(r) \/ PublishFails(r))
      \/ \E n \in DOMAIN submissions : Writes(n)
  BY DEF Next, Writes, vars, Tick, T!Tick, ReadToJoin, ReadToSubmit, ReadToEdit, FindParticipant,
     CreateParticipant, CheckJoined, CheckProblem, UpdateContest, Refuse, OnlyRequests,
     DeleteContest
<1>7. ASSUME NEW r \in Requests, PublishFails(r) PROVE JoinedBeforeSubmitting'
  <2>1. request[r] \in Publishing(Ids) BY <1>1, <1>7, KindByPc DEF PublishFails
  <2>2. request[r].id \in DOMAIN submissions BY <2>1 DEF Publishing, Ids
  <2> QED BY <1>5, <1>7, <2>2
<1> QED BY <1>3, <1>4, <1>5, <1>6, <1>7

LEMMA InvHolds == Spec => []Inv
<1>1. Init => Inv
  <2>1. Init => ChecksHold /\ JoinedBeforeSubmitting
    BY DEF Init, T!Init, ChecksHold, JoinedBeforeSubmitting, Idle
  <2> QED BY <2>1, TypeInit DEF Inv
<1>2. Inv /\ [Next]_vars => Inv' BY TypeNext, ChecksNext, JoinedNext DEF Inv
<1> QED BY <1>1, <1>2, PTL DEF Spec

\* Whoever is not an administrator has joined before a submission of theirs was
\* created, for any number of users and requests in any interleaving.
THEOREM JoinedFirst == Spec => []JoinedBeforeSubmitting
<1>1. Inv => JoinedBeforeSubmitting BY DEF Inv
<1> QED BY <1>1, InvHolds, PTL

----------------------------------------------------------------------------
(* The handlers implement ContestTables.                                   *)

LEMMA StepRefines == Inv /\ [Next]_vars => [T!Next]_(T!tables)
<1> SUFFICES ASSUME Inv, [Next]_vars PROVE T!Next \/ UNCHANGED T!tables BY DEF T!tables
<1>1. /\ now \in Nat /\ request \in [Requests -> Kinds(now, Ids)]
      /\ submissions \in Seq(Rows(now))
  BY TypeSplit DEF TablesOK, Inv
<1>2. CASE Tick BY <1>2 DEF Tick, T!Next
<1>3. ASSUME NEW r \in Requests, CreateParticipant(r) PROVE T!Next \/ UNCHANGED T!tables
  <2>1. request[r] \in Creating(now) BY <1>1, <1>3, KindByPc DEF CreateParticipant
  <2>2. CASE IsJoined(request[r].user) BY <1>3, <2>2 DEF CreateParticipant, T!tables
  <2>3. CASE ~IsJoined(request[r].user)
    <3>1. PICK t \in request[r].found .. now : joined' = [joined EXCEPT ![request[r].user] = t]
      BY <1>3, <2>3 DEF CreateParticipant
    <3>2. t \in 0 .. now /\ request[r].user \in Users BY <1>1, <2>1 DEF Creating
    <3>3. T!Join(request[r].user, t)
      BY <1>3, <2>3, <3>1 DEF CreateParticipant, T!Join, T!IsJoined, IsJoined
    <3> QED BY <3>2, <3>3 DEF T!Next
  <2> QED BY <2>2, <2>3
<1>4. ASSUME NEW r \in Requests, InsertSubmission(r) PROVE T!Next
  <2>1. request[r] \in Inserting(now) BY <1>1, <1>4, KindByPc DEF InsertSubmission
  <2>2. T!Submit(request[r].user, request[r].problem, request[r].created)
    BY <1>4 DEF InsertSubmission, T!Submit, Inv, ChecksHold, IsJoined, T!IsJoined
  <2>3. /\ request[r].user \in Users /\ request[r].problem \in Problems
        /\ request[r].created \in 0 .. now
    BY <2>1 DEF Inserting
  <2> QED BY <2>2, <2>3 DEF T!Next
<1>5. ASSUME NEW n \in DOMAIN submissions, Writes(n) PROVE T!Next
  BY <1>5 DEF Writes, Judge, Rejudge, Overwrite, T!Next
<1>6. ASSUME NEW r \in Requests, UpdateContest(r) PROVE T!Next \/ UNCHANGED T!tables
  <2>1. request[r] \in Editing BY <1>1, <1>6, KindByPc DEF UpdateContest
  <2>2. T!Edit(contest', problems')
    BY <1>6 DEF UpdateContest, T!Edit
  <2>3. contest' \in T!Contests \cup {None} /\ problems' \in SUBSET Problems
    BY <1>6, <2>1 DEF UpdateContest, Editing
  <2> QED BY <2>2, <2>3 DEF T!Next
<1>7. CASE DeleteContest
  <2>1. T!Edit(None, problems) BY <1>7 DEF DeleteContest, T!Edit
  <2>2. problems \in SUBSET Problems BY DEF Inv, TypeOK
  <2> QED BY <2>1, <2>2 DEF T!Next
<1>8. CASE UNCHANGED vars BY <1>8 DEF vars, T!tables
<1>9. CASE OnlyRequests BY <1>9 DEF OnlyRequests, T!tables
<1>10. \/ Tick \/ DeleteContest \/ OnlyRequests \/ UNCHANGED vars
       \/ \E r \in Requests : \/ CreateParticipant(r) \/ InsertSubmission(r)
                              \/ PublishFails(r) \/ UpdateContest(r)
       \/ \E n \in DOMAIN submissions : Writes(n)
  BY DEF Next, Writes, ReadToJoin, ReadToSubmit, ReadToEdit, FindParticipant, CheckJoined, CheckProblem, Refuse
<1>11. ASSUME NEW r \in Requests, PublishFails(r) PROVE T!Next
  <2>1. request[r] \in Publishing(Ids) BY <1>1, <1>11, KindByPc DEF PublishFails
  <2>2. request[r].id \in DOMAIN submissions BY <2>1 DEF Publishing, Ids
  <2>3. CASE submissions[request[r].id].status = "Pending"
    BY <1>11, <2>2, <2>3 DEF PublishFails, T!Judge, T!Next
  <2>4. CASE submissions[request[r].id].status # "Pending"
    <3>1. "Rejected" \in T!Statuses BY DEF T!Statuses
    <3>2. T!Overwrite(request[r].id, "Rejected") BY <1>11, <2>4 DEF PublishFails, T!Overwrite
    <3> QED BY <2>2, <3>1, <3>2 DEF T!Next
  <2> QED BY <2>3, <2>4
<1> QED BY <1>2, <1>3, <1>4, <1>5, <1>6, <1>7, <1>8, <1>9, <1>10, <1>11

\* Every step of a handler is a step of ContestTables or leaves the rows alone.
THEOREM ImplementsTables == Spec => KeepsTables
<1>1. Init => T!Init BY DEF Init
<1> QED BY <1>1, InvHolds, StepRefines, PTL DEF Spec, KeepsTables, T!Spec
====

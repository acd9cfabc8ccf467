---- MODULE CapacityGateProofs ----
(***************************************************************************)
(* Proofs about the capacity gate for any number of processes and tokens,  *)
(* any limit, TTL, clock skew and delay.  The inductive invariant says how *)
(* the score of a member relates to the true time of its last write, and   *)
(* how late a heartbeat can be.                                            *)
(***************************************************************************)
EXTENDS CapacityGate, FiniteSetTheorems, TLAPS

\* The members are finitely many tokens that were admitted and not released.
HeldInv == IsFiniteSet(held) /\ \A t \in held : state[t] = "admitted"

\* The score of a member is its last write plus TTL, up to the skew; a token
\* that is neither a member nor released was dropped when its time had come.
ScoreInv ==
    /\ \A t \in held : /\ deadline[t] >= writtenAt[t] + TTL
                       /\ deadline[t] <= writtenAt[t] + TTL + Skew
    /\ \A t \in Tokens :
          (state[t] = "admitted" /\ t \notin held) => now - writtenAt[t] >= TTL - Skew

\* A heartbeat fires at most Delay late, and one that has renewed its token did
\* so within the interval before it fires next.
BeatInv ==
    /\ \A t \in Tokens : writtenAt[t] <= now
    /\ \A b \in beats : now <= due[b] + Delay /\ state[b[2]] \notin {"new", "refused"}
    /\ \A b \in steady : state[b[2]] = "admitted" => writtenAt[b[2]] >= due[b] - Interval

LEMMA IntervalNat == Interval \in Nat
BY GateAssumption DEF Interval

LEMMA LiveFacts ==
  ASSUME TypeOK, NEW c \in Clients
  PROVE  /\ Clock(c) \in Nat /\ Clock(c) >= now /\ Clock(c) <= now + Skew
         /\ Live(c) \subseteq held
         /\ \A t \in held \ Live(c) : deadline[t] <= Clock(c)
         /\ \A t \in Live(c) : deadline[t] > Clock(c)
BY GateAssumption DEF TypeOK, Clock, Live, Expired

LEMMA WriteType ==
  ASSUME TypeOK, NEW c \in Clients, NEW t \in Tokens, Write(c, t)
  PROVE  deadline' \in [Tokens -> Nat] /\ writtenAt' \in [Tokens -> Nat]
BY GateAssumption, LiveFacts DEF TypeOK, Write

\* The leases, clocks, heartbeats and answers of the gate keep their types for any
\* number of clients, tokens and places (capacity.go, CapacityGate).
THEOREM TypeCorrect == Spec => []TypeOK
<1>1. Init => TypeOK
  BY GateAssumption DEF Init, TypeOK, States
<1>2. TypeOK /\ [Next]_vars => TypeOK'
  <2>. SUFFICES ASSUME TypeOK, [Next]_vars PROVE TypeOK'
    OBVIOUS
  <2>1. ASSUME NEW c \in Clients, NEW t \in Tokens, Acquire(c, t) PROVE TypeOK'
    BY <2>1, LiveFacts, WriteType DEF Acquire, TypeOK, States
  <2>2. ASSUME NEW c \in Clients, Stats(c) PROVE TypeOK'
    BY <2>2, LiveFacts DEF Stats, TypeOK
  <2>3. ASSUME NEW c \in Workers, NEW t \in Tokens,
               StartHeartbeat(c, t) \/ StopHeartbeat(c, t) PROVE TypeOK'
    BY <2>3, IntervalNat DEF StartHeartbeat, StopHeartbeat, TypeOK
  <2>4. ASSUME NEW c \in Workers, NEW t \in Tokens, Renew(c, t) \/ RenewFails(c, t) PROVE TypeOK'
    <3>1. c \in Clients BY GateAssumption
    <3>2. due' \in [Workers \X Tokens -> Nat]
      BY <2>4, IntervalNat DEF Renew, RenewFails, Beat, TypeOK
    <3>3. deadline' \in [Tokens -> Nat] /\ writtenAt' \in [Tokens -> Nat]
      BY <2>4, <3>1, WriteType DEF Renew, RenewFails, Renewal, TypeOK
    <3>4. held' \subseteq Tokens
      BY <2>4, <3>1, LiveFacts DEF Renew, RenewFails, Renewal, TypeOK
    <3>5. steady' \subseteq beats /\ UNCHANGED <<now, offset, state, beats>>
      BY <2>4 DEF Renew, RenewFails, Beat, TypeOK
    <3>. QED BY <3>2, <3>3, <3>4, <3>5 DEF TypeOK
  <2>6. ASSUME NEW t \in Tokens, Release(t) PROVE TypeOK'
    BY <2>6 DEF Release, TypeOK, States
  <2>7. CASE Tick BY <2>7 DEF Tick, TypeOK
  <2>8. CASE UNCHANGED vars BY <2>8 DEF vars, TypeOK
  <2>. QED BY <2>1, <2>2, <2>3, <2>4, <2>6, <2>7, <2>8 DEF Next
<1>. QED BY <1>1, <1>2, PTL DEF Spec

\* The steps that matter to the members: a client drops what expired on its
\* clock and may write one member, a release, and time.
LEMMA GateStep ==
  ASSUME TypeOK, [Next]_vars
  PROVE  \/ /\ \E c \in Clients :
                  \/ /\ held' = Live(c)
                     /\ \/ UNCHANGED <<deadline, writtenAt, state>>
                        \/ \E t \in Live(c) : Write(c, t) /\ UNCHANGED state
                        \/ \E t \in Tokens :
                              /\ state[t] = "new" /\ ~(Cardinality(Live(c)) < Max)
                              /\ state' = [state EXCEPT ![t] = "refused"]
                              /\ UNCHANGED <<deadline, writtenAt>>
                  \/ \E t \in Tokens :
                        /\ state[t] = "new" /\ Cardinality(Live(c)) < Max
                        /\ held' = Live(c) \cup {t} /\ Write(c, t)
                        /\ state' = [state EXCEPT ![t] = "admitted"]
            /\ now' = now
         \/ /\ \E t \in Tokens : state[t] = "admitted" /\ held' = held \ {t}
                                 /\ state' = [state EXCEPT ![t] = "released"]
            /\ UNCHANGED <<now, deadline, writtenAt>>
         \/ now' = now + 1 /\ UNCHANGED <<held, deadline, writtenAt, state>>
         \/ UNCHANGED <<now, held, deadline, writtenAt, state>>
<1>1. ASSUME NEW c \in Workers, NEW t \in Tokens, Renew(c, t) \/ RenewFails(c, t)
      PROVE  /\ \/ \E d \in Clients :
                     /\ held' = Live(d)
                     /\ \/ UNCHANGED <<deadline, writtenAt, state>>
                        \/ \E u \in Live(d) : Write(d, u) /\ UNCHANGED state
                \/ UNCHANGED <<held, deadline, writtenAt, state>>
             /\ now' = now
  BY <1>1, GateAssumption DEF Renew, RenewFails, Renewal
<1>. QED
  BY <1>1 DEF Next, vars, Acquire, Stats, StartHeartbeat, StopHeartbeat, Release, Tick
----------------------------------------------------------------------------
(* The number of members.                                                   *)

LEMMA HeldStep == TypeOK /\ HeldInv /\ [Next]_vars => HeldInv'
<1>. SUFFICES ASSUME TypeOK, HeldInv, [Next]_vars PROVE HeldInv'
  OBVIOUS
<1>1. \A c \in Clients : Live(c) \subseteq held /\ IsFiniteSet(Live(c))
  BY LiveFacts, FS_Subset DEF HeldInv
<1>2. IsFiniteSet(held')
  <2>1. \A c \in Clients, t \in Tokens : IsFiniteSet(Live(c) \cup {t})
    BY <1>1, FS_AddElement
  <2>2. \A t \in Tokens : IsFiniteSet(held \ {t}) BY FS_Subset DEF HeldInv
  <2>. QED BY <1>1, <2>1, <2>2, GateStep DEF HeldInv
<1>3. \A t \in held' : state'[t] = "admitted"
  BY <1>1, GateStep DEF HeldInv, TypeOK
<1>. QED BY <1>2, <1>3 DEF HeldInv

\* Only tokens that were admitted and not released are members, finitely many:
\* neither a renewal nor a late request brings back what was released.
THEOREM MembersAreAdmitted == Spec => []HeldInv
<1>1. Init => HeldInv BY FS_EmptySet DEF Init, HeldInv
<1>. QED BY <1>1, HeldStep, TypeCorrect, PTL DEF Spec

\* The gate never holds more than Max tokens.
THEOREM GateIsBounded == Spec => []NeverOverMax
<1>1. Init => NeverOverMax BY FS_EmptySet, GateAssumption DEF Init, NeverOverMax
<1>2. TypeOK /\ HeldInv /\ NeverOverMax /\ [Next]_vars => NeverOverMax'
  <2>. SUFFICES ASSUME TypeOK, HeldInv, NeverOverMax, [Next]_vars PROVE NeverOverMax'
    OBVIOUS
  <2>1. ASSUME NEW S, S \subseteq held PROVE Cardinality(S) <= Max
    <3>1. Cardinality(S) <= Cardinality(held) /\ Cardinality(S) \in Nat
      BY <2>1, FS_Subset, FS_CardinalityType DEF HeldInv
    <3>2. Cardinality(held) \in Nat BY FS_CardinalityType DEF HeldInv
    <3>. QED BY <3>1, <3>2, GateAssumption DEF NeverOverMax
  <2>2. ASSUME NEW c \in Clients, NEW t \in Tokens, Cardinality(Live(c)) < Max
        PROVE  Cardinality(Live(c) \cup {t}) <= Max
    <3>1. IsFiniteSet(Live(c)) BY LiveFacts, FS_Subset DEF HeldInv
    <3>2. Cardinality(Live(c)) \in Nat BY <3>1, FS_CardinalityType
    <3>3. \/ Cardinality(Live(c) \cup {t}) = Cardinality(Live(c)) + 1
          \/ Cardinality(Live(c) \cup {t}) = Cardinality(Live(c))
      BY <3>1, FS_AddElement
    <3>. QED BY <2>2, <3>2, <3>3, GateAssumption
  <2>3. \A c \in Clients : Live(c) \subseteq held BY LiveFacts
  <2>. QED BY <2>1, <2>2, <2>3, GateStep DEF NeverOverMax
<1>. QED BY <1>1, <1>2, TypeCorrect, MembersAreAdmitted, PTL DEF Spec

\* The gate with its clocks and leases implements the abstract gate.
THEOREM ImplementsAdmissionGate == Spec => GateSpec
<1>1. Init => Gate!Init BY DEF Init, Gate!Init
<1>2. TypeOK /\ HeldInv /\ [Next]_vars => [Gate!Next]_held
  <2>. SUFFICES ASSUME TypeOK, HeldInv, [Next]_vars PROVE Gate!Next \/ held' = held
    OBVIOUS
  <2>1. ASSUME NEW c \in Clients, held' = Live(c) PROVE Gate!Next
    <3>1. Gate!Drop(held \ Live(c)) BY <2>1, LiveFacts DEF Gate!Drop
    <3>. QED BY <3>1 DEF Gate!Next
  <2>2. ASSUME NEW c \in Clients, NEW t \in Tokens, state[t] = "new",
               Cardinality(Live(c)) < Max, held' = Live(c) \cup {t}
        PROVE  Gate!Next
    <3>1. t \notin held BY <2>2 DEF HeldInv
    <3>2. held \ (held \ Live(c)) = Live(c) BY LiveFacts
    <3>3. Gate!Admit(t, held \ Live(c)) BY <2>2, <3>1, <3>2 DEF Gate!Admit, Gate!Cardinality, Cardinality
    <3>. QED BY <3>3 DEF Gate!Next
  <2>3. ASSUME NEW t \in Tokens, t \in held, held' = held \ {t} PROVE Gate!Next
    <3>1. {t} \in SUBSET held /\ Gate!Drop({t}) BY <2>3 DEF Gate!Drop
    <3>. QED BY <3>1 DEF Gate!Next
  <2>. QED BY <2>1, <2>2, <2>3, GateStep
<1>. QED BY <1>1, <1>2, TypeCorrect, MembersAreAdmitted, PTL DEF Spec, Gate!Spec, GateSpec

----------------------------------------------------------------------------
(* Leases.                                                                 *)

LEMMA ScoreStep == TypeOK /\ HeldInv /\ ScoreInv /\ [Next]_vars => ScoreInv'
<1>. SUFFICES ASSUME TypeOK, HeldInv, ScoreInv, [Next]_vars PROVE ScoreInv'
  OBVIOUS
<1>. USE GateAssumption
<1>1. ASSUME NEW c \in Clients, held' = Live(c), UNCHANGED <<now, deadline, writtenAt>>,
             \A t \in Tokens : state'[t] = "admitted" => state[t] = "admitted"
      PROVE  ScoreInv'
  BY <1>1, LiveFacts DEF ScoreInv, TypeOK
<1>2. ASSUME NEW c \in Clients, NEW u \in Live(c), held' = Live(c), Write(c, u),
             UNCHANGED <<now, state>>
      PROVE  ScoreInv'
  BY <1>2, LiveFacts DEF ScoreInv, TypeOK, Write
<1>3. ASSUME NEW c \in Clients, NEW u \in Tokens, state[u] = "new",
             held' = Live(c) \cup {u}, Write(c, u), now' = now,
             state' = [state EXCEPT ![u] = "admitted"]
      PROVE  ScoreInv'
  BY <1>3, LiveFacts DEF ScoreInv, TypeOK, Write
<1>4. ASSUME NEW u \in Tokens, held' = held \ {u},
             state' = [state EXCEPT ![u] = "released"], UNCHANGED <<now, deadline, writtenAt>>
      PROVE  ScoreInv'
  BY <1>4 DEF ScoreInv, TypeOK
<1>5. CASE now' = now + 1 /\ UNCHANGED <<held, deadline, writtenAt, state>>
  BY <1>5 DEF ScoreInv, TypeOK
<1>6. CASE UNCHANGED <<now, held, deadline, writtenAt, state>> BY <1>6 DEF ScoreInv
<1>7. \A u \in Tokens : state' = [state EXCEPT ![u] = "refused"] =>
         \A t \in Tokens : state'[t] = "admitted" => state[t] = "admitted"
  BY DEF TypeOK
<1>8. UNCHANGED state => \A t \in Tokens : state'[t] = "admitted" => state[t] = "admitted"
  OBVIOUS
<1>. QED BY <1>1, <1>2, <1>3, <1>4, <1>5, <1>6, <1>7, <1>8, GateStep

\* The score of every member is its last write plus TTL, up to the skew.
THEOREM ScoresAreLeases == Spec => []ScoreInv
<1>1. Init => ScoreInv BY DEF Init, ScoreInv
<1>. QED BY <1>1, ScoreStep, TypeCorrect, MembersAreAdmitted, PTL DEF Spec

\* A token that was written less than TTL - Skew ago keeps its place.
THEOREM LeasesLast == Spec => []LeaseLasts
<1>1. TypeOK /\ ScoreInv => LeaseLasts
  BY GateAssumption DEF TypeOK, ScoreInv, LeaseLasts
<1>. QED BY <1>1, TypeCorrect, ScoresAreLeases, PTL

\* A request is refused only for the sake of Max recent tokens.
THEOREM RefusalsAreJustified == Spec => RefusalJustified
<1>. DEFINE Recent == {u \in held : now - writtenAt[u] < TTL + Skew}
            Justified == \A t \in Tokens :
               (state[t] = "new" /\ state'[t] = "refused") => Cardinality(Recent) >= Max
<1>1. TypeOK /\ HeldInv /\ ScoreInv /\ [Next]_vars => [Justified]_vars
  <2>. SUFFICES ASSUME TypeOK, HeldInv, ScoreInv, [Next]_vars,
                       NEW t \in Tokens, state[t] = "new", state'[t] = "refused"
                PROVE  Cardinality(Recent) >= Max
    OBVIOUS
  <2>1. PICK c \in Clients : ~(Cardinality(Live(c)) < Max)
    BY GateStep DEF TypeOK
  <2>2. Live(c) \subseteq Recent
    BY LiveFacts, GateAssumption DEF ScoreInv, TypeOK
  <2>3. IsFiniteSet(Recent) BY FS_Subset DEF HeldInv
  <2>4. /\ Cardinality(Live(c)) \in Nat /\ Cardinality(Recent) \in Nat
        /\ Cardinality(Live(c)) <= Cardinality(Recent)
    BY <2>2, <2>3, FS_Subset, FS_CardinalityType
  <2>. QED BY <2>1, <2>4, GateAssumption
<1>. QED BY <1>1, TypeCorrect, MembersAreAdmitted, ScoresAreLeases, PTL DEF Spec, RefusalJustified

\* A token never comes back once it lost its place.
THEOREM NoResurrection == Spec => NeverResurrected
<1>. DEFINE StaysOut == \A t \in Tokens : (state[t] # "new" /\ t \notin held) => t \notin held'
<1>1. TypeOK /\ [Next]_vars => [StaysOut]_vars
  <2>. SUFFICES ASSUME TypeOK, [Next]_vars, NEW t \in Tokens, state[t] # "new", t \notin held
                PROVE  t \notin held'
    OBVIOUS
  <2>1. \A c \in Clients : t \notin Live(c) BY LiveFacts
  <2>. QED BY <2>1, GateStep
<1>. QED BY <1>1, TypeCorrect, PTL DEF Spec, NeverResurrected
----------------------------------------------------------------------------
(* Heartbeats.                                                             *)

LEMMA BeatStep == TypeOK /\ BeatInv /\ [Next]_vars => BeatInv'
<1>. SUFFICES ASSUME TypeOK, BeatInv, [Next]_vars PROVE BeatInv'
  OBVIOUS
<1>. USE GateAssumption, IntervalNat
<1>0. \A b \in beats : b \in Workers \X Tokens /\ b[2] \in Tokens /\ b = <<b[1], b[2]>>
  BY DEF TypeOK
<1>1. ASSUME NEW c \in Clients, NEW t \in Tokens, Acquire(c, t) PROVE BeatInv'
  <2>1. \A b \in beats : b[2] # t /\ state'[b[2]] = state[b[2]] /\ writtenAt'[b[2]] = writtenAt[b[2]]
    BY <1>0, <1>1 DEF Acquire, BeatInv, TypeOK, Write
  <2>2. \A u \in Tokens : writtenAt'[u] <= now
    BY <1>1 DEF Acquire, BeatInv, TypeOK, Write
  <2>. QED BY <1>1, <2>1, <2>2 DEF Acquire, BeatInv, TypeOK
<1>2. ASSUME NEW c \in Workers, NEW t \in Tokens, StartHeartbeat(c, t) PROVE BeatInv'
  BY <1>0, <1>2 DEF StartHeartbeat, BeatInv, TypeOK
<1>3. ASSUME NEW c \in Workers, NEW t \in Tokens, StopHeartbeat(c, t) PROVE BeatInv'
  BY <1>0, <1>3 DEF StopHeartbeat, BeatInv, TypeOK
<1>4. ASSUME NEW c \in Workers, NEW t \in Tokens, Renew(c, t) \/ RenewFails(c, t) PROVE BeatInv'
  <2>1. /\ <<c, t>> \in beats /\ due[<<c, t>>] <= now /\ due[<<c, t>>] \in Nat
        /\ due' = [due EXCEPT ![<<c, t>>] = due[<<c, t>>] + Interval]
        /\ UNCHANGED <<now, state, beats>>
    BY <1>4 DEF Renew, RenewFails, Beat, TypeOK
  <2>2. \A u \in Tokens : /\ writtenAt'[u] <= now /\ writtenAt'[u] >= writtenAt[u]
                           /\ writtenAt'[u] \in Nat
    BY <1>4 DEF Renew, RenewFails, Renewal, Write, BeatInv, TypeOK
  <2>3. \A b \in beats : now <= due'[b] + Delay
    BY <2>1 DEF BeatInv, TypeOK
  <2>4. <<c, t>> \in steady' => writtenAt'[t] = now
    BY <1>4 DEF Renew, RenewFails, Renewal, Write, TypeOK
  <2>5. \A b \in steady' : b # <<c, t>> => b \in steady /\ due'[b] = due[b]
    BY <1>4, <2>1 DEF Renew, RenewFails, Renewal, TypeOK
  <2>6. ASSUME NEW b \in steady', state[b[2]] = "admitted"
        PROVE  writtenAt'[b[2]] >= due'[b] - Interval
    <3>1. CASE b = <<c, t>>
      <4>1. due'[b] = due[<<c, t>>] + Interval BY <2>1, <3>1 DEF TypeOK
      <4>2. writtenAt'[b[2]] = now BY <2>4, <3>1
      <4>. QED BY <2>1, <4>1, <4>2
    <3>2. CASE b # <<c, t>>
      <4>1. b \in steady /\ due'[b] = due[b] /\ b[2] \in Tokens /\ due[b] \in Nat
        BY <1>0, <2>5, <3>2 DEF TypeOK
      <4>2. writtenAt[b[2]] >= due[b] - Interval BY <2>6, <4>1 DEF BeatInv
      <4>3. writtenAt'[b[2]] >= writtenAt[b[2]] /\ writtenAt'[b[2]] \in Nat /\ writtenAt[b[2]] \in Nat
        BY <2>2, <4>1 DEF TypeOK
      <4>. QED BY <4>1, <4>2, <4>3
    <3>. QED BY <3>1, <3>2
  <2>. QED BY <2>1, <2>2, <2>3, <2>6 DEF BeatInv
<1>6. ASSUME NEW t \in Tokens, Release(t) PROVE BeatInv'
  BY <1>0, <1>6 DEF Release, BeatInv, TypeOK
<1>7. ASSUME NEW c \in Clients, Stats(c) PROVE BeatInv'
  BY <1>7 DEF Stats, BeatInv
<1>8. CASE Tick BY <1>0, <1>8 DEF Tick, BeatInv, TypeOK
<1>9. CASE UNCHANGED vars BY <1>9 DEF vars, BeatInv
<1>. QED BY <1>1, <1>2, <1>3, <1>4, <1>6, <1>7, <1>8, <1>9 DEF Next

\* A heartbeat is at most Delay late, and one that renews has renewed recently.
THEOREM BeatsAreTimely == Spec => []BeatInv
<1>1. Init => BeatInv BY DEF Init, BeatInv
<1>. QED BY <1>1, BeatStep, TypeCorrect, PTL DEF Spec

\* A heartbeat that renews keeps the token of its task in the gate, provided a
\* lease is longer than one interval, one delay and the skew together: a third of
\* the TTL leaves room for both, the ten seconds' floor on the interval does not
\* when the TTL is set to ten seconds or less.
THEOREM HeartbeatsKeepLeases ==
  ASSUME Interval + Delay + Skew < TTL
  PROVE  Spec => []HeartbeatKeepsLease
<1>1. TypeOK /\ BeatInv /\ LeaseLasts => HeartbeatKeepsLease
  <2>. SUFFICES ASSUME TypeOK, BeatInv, LeaseLasts, NEW b \in steady, state[b[2]] = "admitted"
                PROVE  b[2] \in held
    BY DEF HeartbeatKeepsLease
  <2>1. /\ b \in beats /\ b[2] \in Tokens /\ due[b] \in Nat /\ writtenAt[b[2]] \in Nat /\ now \in Nat
    BY DEF TypeOK
  <2>2. now <= due[b] + Delay /\ writtenAt[b[2]] >= due[b] - Interval
    BY <2>1 DEF BeatInv
  <2>3. now - writtenAt[b[2]] < TTL - Skew
    BY <2>1, <2>2, IntervalNat, GateAssumption
  <2>. QED BY <2>1, <2>3 DEF LeaseLasts
<1>. QED BY <1>1, TypeCorrect, BeatsAreTimely, LeasesLast, PTL
====

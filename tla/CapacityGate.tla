---- MODULE CapacityGate ----
(***************************************************************************)
(* The Redis capacity gate with its leases and clocks.  Every API server   *)
(* and worker runs the gate's scripts with the time of its own clock: a    *)
(* token is a member of a sorted set whose score is the deadline its last  *)
(* writer computed, and whoever runs a script first drops the members      *)
(* whose deadline has passed on the clock of the caller.  Workers renew    *)
(* the token of a task they judge by a ticker (keepCapacityAlive).         *)
(***************************************************************************)
EXTENDS Integers, FiniteSets

CONSTANTS
    Clients,        \* processes that run the scripts: API servers and workers
    Workers,        \* those that renew
    Tokens,         \* tokens, each drawn once by randomToken
    Max,            \* YOJ_JUDGE_MAX_INFLIGHT
    TTL,            \* YOJ_JUDGE_ADMISSION_TTL_SECONDS
    MinInterval,    \* the 10 seconds below which the ticker never goes
    Skew,           \* bound: how far two clocks may be apart
    Delay,          \* bound: how late a renewal may reach Redis
    MaxTime         \* bound: end of time

ASSUME GateAssumption ==
    /\ Workers \subseteq Clients
    /\ Max \in Nat \ {0}
    /\ TTL \in Nat \ {0}
    /\ MinInterval \in Nat \ {0}
    /\ Skew \in Nat
    /\ Delay \in Nat
    /\ MaxTime \in Nat

VARIABLES
    now,            \* true time
    offset,         \* how far each client's clock is ahead
    held,           \* members of the sorted set
    deadline,       \* their scores
    writtenAt,      \* history: true time at which a score was written last
    state,          \* a token: new, refused, admitted, released
    beats,          \* heartbeats: pairs of a worker and the token it renews
    due,            \* when the ticker of a heartbeat fires next
    steady          \* history: heartbeats that renewed and have not failed since

vars == <<now, offset, held, deadline, writtenAt, state, beats, due, steady>>

Clock(c) == now + offset[c]
Interval == IF TTL \div 3 < MinInterval THEN MinInterval ELSE TTL \div 3

\* ZREMRANGEBYSCORE from -inf to the caller's time, the start of every script.
Expired(c) == {t \in held : deadline[t] <= Clock(c)}
Live(c) == held \ Expired(c)

\* Wrong variant: a lease of one renewal interval.
WriteShort(c, t) ==
    /\ deadline' = [deadline EXCEPT ![t] = Clock(c) + Interval]
    /\ writtenAt' = [writtenAt EXCEPT ![t] = now]

\* ZADD with the deadline of the caller's clock.
Write(c, t) ==
    /\ deadline' = [deadline EXCEPT ![t] = Clock(c) + TTL]
    /\ writtenAt' = [writtenAt EXCEPT ![t] = now]

Init ==
    /\ now = 0
    /\ offset \in [Clients -> 0 .. Skew]
    /\ held = {}
    /\ deadline = [t \in Tokens |-> 0]
    /\ writtenAt = [t \in Tokens |-> 0]
    /\ state = [t \in Tokens |-> "new"]
    /\ beats = {}
    /\ due = [b \in Workers \X Tokens |-> 0]
    /\ steady = {}

\* Wrong variant: expired members keep their places.
AcquireWithoutExpiry(c, t) ==
    /\ state[t] = "new"
    /\ IF Cardinality(held) < Max
       THEN /\ held' = held \cup {t}
            /\ Write(c, t)
            /\ state' = [state EXCEPT ![t] = "admitted"]
       ELSE /\ held' = held
            /\ state' = [state EXCEPT ![t] = "refused"]
            /\ UNCHANGED <<deadline, writtenAt>>
    /\ UNCHANGED <<now, offset, beats, due, steady>>

Acquire(c, t) ==
    /\ state[t] = "new"
    /\ IF Cardinality(Live(c)) < Max
       THEN /\ held' = Live(c) \cup {t}
            /\ Write(c, t)
            /\ state' = [state EXCEPT ![t] = "admitted"]
       ELSE /\ held' = Live(c)
            /\ state' = [state EXCEPT ![t] = "refused"]
            /\ UNCHANGED <<deadline, writtenAt>>
    /\ UNCHANGED <<now, offset, beats, due, steady>>

\* A worker starts to judge the task of a token, maybe one that another worker
\* judges as well: the ticker fires for the first time after one interval.
StartHeartbeat(c, t) ==
    /\ state[t] # "new" /\ state[t] # "refused" /\ <<c, t>> \notin beats
    /\ beats' = beats \cup {<<c, t>>}
    /\ due' = [due EXCEPT ![<<c, t>>] = now + Interval]
    /\ UNCHANGED <<now, offset, held, deadline, writtenAt, state, steady>>

StopHeartbeat(c, t) ==
    /\ <<c, t>> \in beats
    /\ beats' = beats \ {<<c, t>>}
    /\ steady' = steady \ {<<c, t>>}
    /\ due' = [due EXCEPT ![<<c, t>>] = 0]
    /\ UNCHANGED <<now, offset, held, deadline, writtenAt, state>>

Beat(c, t) ==
    /\ <<c, t>> \in beats /\ due[<<c, t>>] <= now
    /\ due' = [due EXCEPT ![<<c, t>>] = @ + Interval]

\* Wrong variants: a renewal that adds the token, and one that does not write.
RenewAdding(c, t) ==
    /\ Beat(c, t)
    /\ held' = Live(c) \cup {t}
    /\ Write(c, t)
    /\ steady' = steady \cup {<<c, t>>}
    /\ UNCHANGED <<now, offset, state, beats>>

RenewReadingOnly(c, t) ==
    /\ Beat(c, t)
    /\ held' = Live(c)
    /\ steady' = IF t \in Live(c) THEN steady \cup {<<c, t>>} ELSE steady \ {<<c, t>>}
    /\ UNCHANGED <<now, offset, deadline, writtenAt, state, beats>>

\* Only a member is renewed (XX): a token that is gone stays gone.
Renewal(c, t) ==
    /\ held' = Live(c)
    /\ IF t \in Live(c) THEN Write(c, t) ELSE UNCHANGED <<deadline, writtenAt>>

Renew(c, t) ==
    /\ Beat(c, t)
    /\ Renewal(c, t)
    /\ steady' = IF t \in Live(c) THEN steady \cup {<<c, t>>} ELSE steady \ {<<c, t>>}
    /\ UNCHANGED <<now, offset, state, beats>>

\* Redis does not answer in time, maybe after it ran the script: the ticker goes on.
RenewFails(c, t) ==
    /\ Beat(c, t)
    /\ Renewal(c, t) \/ UNCHANGED <<held, deadline, writtenAt>>
    /\ steady' = steady \ {<<c, t>>}
    /\ UNCHANGED <<now, offset, state, beats>>

\* ZREM, without the purge of the scripts.
Release(t) ==
    /\ state[t] = "admitted"
    /\ held' = held \ {t}
    /\ state' = [state EXCEPT ![t] = "released"]
    /\ UNCHANGED <<now, offset, deadline, writtenAt, beats, due, steady>>

Stats(c) ==
    /\ held' = Live(c)
    /\ UNCHANGED <<now, offset, deadline, writtenAt, state, beats, due, steady>>

\* Time passes; a renewal that is due is at most Delay late.
Tick ==
    /\ now < MaxTime
    /\ \A b \in beats : now < due[b] + Delay
    /\ now' = now + 1
    /\ UNCHANGED <<offset, held, deadline, writtenAt, state, beats, due, steady>>

Next ==
    \/ \E c \in Clients : Stats(c) \/ \E t \in Tokens : Acquire(c, t)
    \/ \E c \in Workers, t \in Tokens : \/ StartHeartbeat(c, t) \/ StopHeartbeat(c, t)
                                        \/ Renew(c, t) \/ RenewFails(c, t)
    \/ \E t \in Tokens : Release(t)
    \/ Tick

Spec == Init /\ [][Next]_vars

Gate == INSTANCE AdmissionGate

----------------------------------------------------------------------------
(* Properties.                                                             *)

States == {"new", "refused", "admitted", "released"}

\* Types of the clocks, of the sorted set with its scores and of the heartbeats.
TypeOK ==
    /\ now \in Nat
    /\ offset \in [Clients -> 0 .. Skew]
    /\ held \subseteq Tokens
    /\ deadline \in [Tokens -> Nat]
    /\ writtenAt \in [Tokens -> Nat]
    /\ state \in [Tokens -> States]
    /\ beats \subseteq Workers \X Tokens
    /\ due \in [Workers \X Tokens -> Nat]
    /\ steady \subseteq beats

\* The gate never holds more tokens than YOJ_JUDGE_MAX_INFLIGHT, whatever the
\* clocks say and however acquisitions, renewals and expiries interleave.
NeverOverMax == Cardinality(held) <= Max

\* A lease lasts: a token that is not released keeps its place until TTL less
\* the clock skew has passed since it was acquired or renewed.
LeaseLasts ==
    \A t \in Tokens :
        (state[t] = "admitted" /\ now - writtenAt[t] < TTL - Skew) => t \in held

\* A lease ends: a request is refused only because of tokens that were acquired
\* or renewed within the last TTL plus the clock skew.  A token that a
\* crash left behind does not keep the gate full.
RefusalJustified ==
    [][\A t \in Tokens :
          (state[t] = "new" /\ state'[t] = "refused") =>
              Cardinality({u \in held : now - writtenAt[u] < TTL + Skew}) >= Max]_vars

\* A token that lost its place or was released never gets it back, also when a
\* renewal of another worker comes after the release.
NeverResurrected ==
    [][\A t \in Tokens : (state[t] # "new" /\ t \notin held) => t \notin held']_vars

\* While a worker's heartbeat renews a token in time, the gate does not drop it.
HeartbeatKeepsLease ==
    \A b \in steady : state[b[2]] = "admitted" => b[2] \in held

\* The gate with its clocks implements the gate that the pipeline uses.
GateSpec == Gate!Spec
====

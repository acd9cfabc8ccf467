---- MODULE AdmissionGate ----
(***************************************************************************)
(* What the capacity gate promises to the code that passes it: a set of    *)
(* tokens, never more than Max of them, that a token enters at most once   *)
(* and may leave at any time, because its holder released it or because    *)
(* its lease ran out.  CapacityGate implements it with leases in a Redis   *)
(* sorted set, JudgePipeline uses it.                                      *)
(***************************************************************************)
EXTENDS Naturals, FiniteSets

CONSTANTS Tokens, Max

VARIABLE held

Init == held = {}

\* The tokens of `gone` lose their places.
Drop(gone) == held' = held \ gone

\* A new token enters, when there is a place left without those of `gone`.
Admit(t, gone) ==
    /\ t \notin held
    /\ Cardinality(held \ gone) < Max
    /\ held' = (held \ gone) \cup {t}

Next ==
    \E gone \in SUBSET held : Drop(gone) \/ \E t \in Tokens : Admit(t, gone)

Spec == Init /\ [][Next]_held
====

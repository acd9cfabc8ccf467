---- MODULE Arrangement ----
(***************************************************************************)
(* Lists that a query returns or a sort leaves in an order.                *)
(***************************************************************************)
EXTENDS Integers, FiniteSets

\* The elements of S one after the other, in the order of the pairs.
Arrange(S, before) ==
    CHOOSE s \in [1 .. Cardinality(S) -> S] :
        /\ \A x \in S : \E i \in DOMAIN s : s[i] = x
        /\ \A i, j \in DOMAIN s : i < j => <<s[i], s[j]>> \in before
====

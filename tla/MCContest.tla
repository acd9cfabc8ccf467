---- MODULE MCContest ----
(***************************************************************************)
(* An instance of Contest for TLC: an administrator and a user, and two    *)
(* requests at a time, which are interchangeable.                          *)
(***************************************************************************)
EXTENDS Contest, TLC

RequestSymmetry == Permutations(Requests)
====

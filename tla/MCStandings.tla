---- MODULE MCStandings ----
(***************************************************************************)
(* An instance of Standings for TLC; the problems are interchangeable.     *)
(***************************************************************************)
EXTENDS Standings, TLC

ProblemSymmetry == Permutations(Problems)
====

---- MODULE MCCapacityGate ----
(***************************************************************************)
(* An instance of CapacityGate for TLC.                                    *)
(***************************************************************************)
EXTENDS CapacityGate, TLC

Symmetric == Permutations(Tokens)
====

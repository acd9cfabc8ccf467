---- MODULE MCCatalog ----
(***************************************************************************)
(* An instance of Catalog for TLC: imports of a file of two slugs, one of  *)
(* which is the sample problem's, or of a file that spells the other one   *)
(* with a blank in front.                                                  *)
(***************************************************************************)
EXTENDS Catalog, TLC

CONSTANTS a, b, padded

TrimName == [name \in Names |-> IF name = padded THEN b ELSE name]
TwoFiles == {{a, b}, {padded}}

Symmetric == Permutations(Ids) \cup Permutations(Submits) \cup Permutations(Servers)
====

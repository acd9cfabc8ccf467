---- MODULE MCBrowser ----
(***************************************************************************)
(* An instance of Browser for TLC: two tabs, of one browser or of two, two *)
(* problems and contests, a catalogue of three problems.                   *)
(***************************************************************************)
EXTENDS Browser

CONSTANTS t1, t2, b1, b2, s1, s2, l1, l2, all, hard

MCHomes == {[t \in Windows |-> b1], [t \in Windows |-> IF t = t1 THEN b1 ELSE b2]}
MCListOf == [s \in Watched |-> IF s = s1 THEN l1 ELSE l2]
MCPageOf == [s \in Watched |-> 1]
\* The filter "hard" leaves out the second problem.
MCMatches == [f \in Filters |-> (Catalogue \cup NewProblems) \ (IF f = all THEN {} ELSE {2, 5})]
====

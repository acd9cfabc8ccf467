---- MODULE MCJudgePipeline ----
(***************************************************************************)
(* Instances of JudgePipeline for TLC: who the requests are about and how  *)
(* the slots are spread over worker processes.                             *)
(***************************************************************************)
EXTENDS JudgePipeline, TLC

CONSTANTS s1, s2, j1, q1, w1, w2, p1, p2

\* Every rejudge and every requeue is about the first submission.
TargetFirst == [r \in Requests |-> IF r \in Submissions THEN r ELSE s1]

OneEach == [w \in Slots |-> IF w = w1 THEN p1 ELSE p2]
AllOnOne == [w \in Slots |-> p1]

SlotSymmetry == Permutations(Slots)
====

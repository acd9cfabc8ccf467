---- MODULE MCSolvePage ----
(***************************************************************************)
(* An instance of SolvePage for TLC: one tab.                              *)
(***************************************************************************)
EXTENDS SolvePage
====

---- MODULE ClientValues ----
(***************************************************************************)
(* Values the modules of the web client share.                             *)
(***************************************************************************)
EXTENDS Integers, FiniteSets

CONSTANTS
    None,       \* nothing: no page, no row, no answer
    Blank,      \* the empty text
    Languages

ASSUME ValuesAssumption == None # Blank
====

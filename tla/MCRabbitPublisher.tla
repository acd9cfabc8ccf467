---- MODULE MCRabbitPublisher ----
(***************************************************************************)
(* An instance of RabbitPublisher for TLC.                                 *)
(***************************************************************************)
EXTENDS RabbitPublisher, TLC

CONSTANTS a, b, i, k1, k2
====

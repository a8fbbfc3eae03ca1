---------------------------- MODULE MCAntOperator ---------------------------
(***************************************************************************)
(* Instances of AntOperator for TLC.                                       *)
(***************************************************************************)
EXTENDS AntOperator, TLC

CONSTANTS c1, c2, s1, s2, d1

Ants    == [c \in Claims |-> "ant"]
Zeros   == [c \in Claims |-> 0]

\* The daemon beside the submit server (a submit has no use for a role).
Daemons == [w \in Workers |-> "daemon"]
=============================================================================

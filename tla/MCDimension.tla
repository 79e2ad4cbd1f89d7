---------------------------- MODULE MCDimension ----------------------------
(* Small instances of CustomerDimension for TLC. *)
EXTENDS CustomerDimension

CONSTANTS c1, c2, o1

FirstCustomer == [o \in {o1} |-> c1]
=============================================================================

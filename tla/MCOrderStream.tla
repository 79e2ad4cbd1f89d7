--------------------------- MODULE MCOrderStream ---------------------------
(* Small instances of OrderStream for TLC. *)
EXTENDS OrderStream

CONSTANTS o1, o2
=============================================================================

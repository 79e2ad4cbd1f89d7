---------------------------- MODULE MCOperations ----------------------------
(* Small instances of CdcOperations for TLC. *)
EXTENDS CdcOperations, TLC

CONSTANTS j1, j2

MCCollectors == <<"postgres", "kafka", "debezium">>
=============================================================================

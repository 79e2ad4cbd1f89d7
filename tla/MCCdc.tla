------------------------------- MODULE MCCdc -------------------------------
(* Small instances of CdcMaterializer for TLC. *)
EXTENDS CdcMaterializer

CONSTANTS c1, c2, p1, p2, daemon, once

\* Both customers hash to one partition, or to one each.
SamePartition == [k \in {c1, c2} |-> p1]
OwnPartition == [k \in {c1, c2} |-> IF k = c1 THEN p1 ELSE p2]
OneCustomer == [k \in {c1} |-> p1]
=============================================================================

------------------------------ MODULE MCSales ------------------------------
(* Small instances of SalesMarts for TLC. *)
EXTENDS SalesMarts, TLC

CONSTANTS i1, i2, mon, tue, wed

\* Items and days are interchangeable; every property of the runs is safety.
Symmetry == Permutations(Items) \cup Permutations(Days)
=============================================================================

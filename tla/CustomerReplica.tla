-------------------------- MODULE CustomerReplica --------------------------
(***************************************************************************)
(* What the customer CDC path promises to dbt, without Kafka, Debezium or  *)
(* PostgreSQL transactions: cdc_silver.customers_current shows, for every  *)
(* customer, the row public.customers had at some source LSN, and that LSN *)
(* only moves forward.  Different customers may be shown at different      *)
(* LSNs.  CdcMaterializer is shown to implement this module.               *)
(***************************************************************************)
EXTENDS Integers, Sequences

CONSTANT Customers

VARIABLES
    history,    \* history[n] is the source table after the change with LSN n
    asOf,       \* asOf[k] is the LSN at which customer k is shown
    view        \* view[k] is the row image shown for k; 0 when k is not shown

vars == <<history, asOf, view>>

\* The source table at an LSN.  A row image is named by the LSN of the
\* change that wrote it; 0 stands for "no such row".
TableAt(n) == IF n = 0 THEN [k \in Customers |-> 0] ELSE history[n]

Init ==
    /\ history = <<>>
    /\ asOf = [k \in Customers |-> 0]
    /\ view = [k \in Customers |-> 0]

\* The source commits one change of one customer: a new image or a delete.
SourceCommit(k) ==
    \E image \in {0, Len(history) + 1}:
        /\ history' = Append(history, [TableAt(Len(history)) EXCEPT ![k] = image])
        /\ UNCHANGED <<asOf, view>>

\* The replica catches up, atomically, for any set of customers.
Refresh ==
    /\ asOf' \in [Customers -> 0..Len(history)]
    /\ \A k \in Customers: asOf'[k] >= asOf[k]
    /\ view' = [k \in Customers |-> TableAt(asOf'[k])[k]]
    /\ UNCHANGED history

Next == Refresh \/ \E k \in Customers: SourceCommit(k)

Spec == Init /\ [][Next]_vars
=============================================================================

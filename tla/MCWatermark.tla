---------------------------- MODULE MCWatermark ----------------------------
(* Small instances of WatermarkPipeline for TLC: orders and order_items     *)
(* stand for the four polled tables.                                        *)
EXTENDS WatermarkPipeline

CONSTANTS r1, r2, c1

TwoTables == {"orders", "order_items"}
ItemsReferToOrders == {<<"order_items", "orders">>}
OneTable == {"orders"}
NoRefs == {}
OneCustomer == [r \in {r1, r2} |-> c1]

\* The code allows one or two retries per task; one is enough to start over.
\* The sinks have none here, so that a single fault can fail a run.
RetryMostOnce == [x \in Tasks |-> IF x \in Sinks \cup {"count"} THEN 0 ELSE 1]
NoRetry == [x \in Tasks |-> 0]
=============================================================================

----------------------------- MODULE MCGateway -----------------------------
(* An instance of JobGateway for TLC: the two DAG tasks with the retries of *)
(* the code and its timeouts divided by four, in ticks of five minutes.     *)
EXTENDS JobGateway

Tasks == {"ingest", "maintenance"}

CodeRetryDelay == [c \in Tasks |-> IF c = "ingest" THEN 1 ELSE 2]
CodeRetries == [c \in Tasks |-> IF c = "ingest" THEN 1 ELSE 2]

ShortCallTimeout == [c \in Tasks |-> IF c = "ingest" THEN 3 ELSE 6]
=============================================================================

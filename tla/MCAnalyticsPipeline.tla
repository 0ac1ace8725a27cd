------------------------ MODULE MCAnalyticsPipeline ------------------------
(* Both event streams, with a channel and a batch that a few events fill,  *)
(* and a worker that reports its connections.                              *)
EXTENDS HealthTelemetry

(* Events and reports share nothing but the end of the captain and of its  *)
(* ClickHouse connection, so each is checked beside an idle other.         *)
MCBound ==
    \/ opened = 0 /\ reports = 0 /\ ~measured /\ session = "none"
    \/ \A s \in Streams : accepted[s] = 0
=============================================================================

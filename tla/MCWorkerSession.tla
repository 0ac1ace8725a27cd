-------------------------- MODULE MCWorkerSession --------------------------
(* Channels for one event each, two changes of the pool and one fault.     *)
EXTENDS WorkerSession
=============================================================================

-------------------------- MODULE MCCaptainStore --------------------------
(* Two pools that follow each other under one tag, a worker in the second  *)
(* of two regions, a user and two requests at a time.                      *)
EXTENDS CaptainStore, TLC

CONSTANTS r1, r2, t1

MCTagOf == [p \in PoolIds |-> t1]
MCWorkerRegion == [w \in WorkerIds |-> r2]

StoreSymmetry == Permutations(Admins) \cup Permutations(PoolIds) \cup Permutations(Settings)
=============================================================================

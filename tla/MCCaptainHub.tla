---------------------------- MODULE MCCaptainHub ----------------------------
(* Instances of the hub: one worker id with several connections, and two   *)
(* workers of different pools.                                             *)
EXTENDS CaptainHub, TLC

CONSTANTS c1, c2, c3, w1, w2, p1, p2

OneWorker  == [c \in Conns |-> w1]
TwoWorkers == [c \in Conns |-> IF c = c1 THEN w1 ELSE w2]
OnePool    == [w \in WorkerIds |-> p1]
TwoPools   == [w \in WorkerIds |-> IF w = w1 THEN p1 ELSE p2]

(* Every worker connected and configured, nothing queued: a state the hub  *)
(* reaches from Init, and the one its broadcasts start from.               *)
ConnectedInit ==
    /\ registry = [w \in WorkerIds |-> CHOOSE c \in Conns : WorkerOf[c] = w]
    /\ lock = Free
    /\ sock = [c \in Conns |-> "open"]
    /\ egress = [c \in Conns |-> << >>]
    /\ sealed = [c \in Conns |-> FALSE]
    /\ serve = [c \in Conns |-> "done"]
    /\ config = [c \in Conns |-> "sent"]
    /\ reader = [c \in Conns |-> "reading"]
    /\ writer = [c \in Conns |-> "writing"]
    /\ todo = [a \in Admins |-> {}]
    /\ process = "serving"
    /\ panics = {}

ConnectedSpec == ConnectedInit /\ [][Next]_vars /\ Fairness

ConnSymmetry == Permutations(Conns)
=============================================================================

-------------------------- MODULE MCWorkerOutbound --------------------------
(* Two connections, two lists that share an upstream, one sticky session.  *)
(* The deployed command, http --always, has them all; the others, whose    *)
(* handlers differ only in how they come to an upstream and in a dial that *)
(* fails, have one connection at a time and no session.                    *)
EXTENDS WorkerOutbound, FiniteSets, TLC

CONSTANTS a, b

MCLists == {<<a, b>>, <<b>>}
MCSymmetry == Permutations(Conns) \cup Permutations(Users) \cup Permutations(Checks)

MCBound ==
    \/ proxy = "http" /\ always
    \/ /\ Cardinality({c \in Conns : stage[c] # "closed"}) <= 1
       /\ \A c \in Conns : session[c] = NoSession
=============================================================================

--------------------------- MODULE MCUserManager ---------------------------
(* One user, whom several clients try to be at the same time.  Its account *)
(* is active at first, where Init allows a barred one too: a login that    *)
(* finds an entry it may not be served from evicts it, as one with a wrong *)
(* password does, and the run on changes bars the account.                 *)
EXTENDS UserManager

MCInit == Init /\ account = [u \in Users |-> "active"]

MCSpec == MCInit /\ [][Next]_vars
MCFairSpec == MCSpec /\ Fairness
=============================================================================

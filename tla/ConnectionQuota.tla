-------------------------- MODULE ConnectionQuota --------------------------
(***************************************************************************)
(* What the count of a user's connections promises: it is a counting       *)
(* semaphore.  A connection takes a place while there is one, and gives it *)
(* back once.  A place may be lost with its connection; the count begins   *)
(* again, lost places included, when no connection has a place.            *)
(* Once the count has been disturbed nothing is promised any more.         *)
(***************************************************************************)
EXTENDS Naturals

CONSTANTS
    Conns,
    Limit   \* how many places there are

VARIABLES
    taken,     \* the connections that have a place
    free,      \* the places to be had
    disturbed

quotaVars == <<taken, free, disturbed>>

QuotaInit == taken = {} /\ free = Limit /\ disturbed = FALSE

Take(c) ==
    /\ c \notin taken /\ free > 0
    /\ taken' = taken \cup {c} /\ free' = free - 1
    /\ UNCHANGED disturbed

GiveBack(c) ==
    /\ c \in taken
    /\ taken' = taken \ {c} /\ free' = free + 1
    /\ UNCHANGED disturbed

Lose(c) ==
    /\ c \in taken
    /\ taken' = taken \ {c}
    /\ UNCHANGED <<free, disturbed>>

BeginAgain ==
    /\ taken = {}
    /\ free' = Limit
    /\ UNCHANGED <<taken, disturbed>>

Disturb ==
    /\ disturbed' = TRUE
    /\ taken' = {} /\ free' = Limit

QuotaNext ==
    /\ ~disturbed
    /\ \/ \E c \in Conns : Take(c) \/ GiveBack(c) \/ Lose(c)
       \/ BeginAgain \/ Disturb

QuotaSpec == QuotaInit /\ [][QuotaNext]_quotaVars
=============================================================================

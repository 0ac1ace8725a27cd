--------------------------- MODULE WorkerRegistry ---------------------------
(***************************************************************************)
(* What the hub promises to those who use its registry, without channels,  *)
(* sockets and mutexes.  A connection is listed at most once in its life,  *)
(* and only if no connection of its worker was listed when it asked.  It   *)
(* leaves the list when another one of its worker replaces it, when a pump *)
(* of a connection of its worker ends, each pump counting once, or when    *)
(* the captain stops.  While a change is being announced the list stands   *)
(* still, and every connection it concerns is told, once.                  *)
(***************************************************************************)
CONSTANTS Conns, WorkerIds, Pools, WorkerOf, PoolOf

VARIABLES
    place,       \* of a connection: "new" "admitted" "listed" "gone"
    pump,        \* each pump of a connection: "off" "on" "leaving" "done"
    announcing,  \* is a change being announced
    untold       \* the connections that have still to be told

registryVars == <<place, pump, announcing, untold>>

Pumps == {"read", "write"}

RegistryInit ==
    /\ place = [c \in Conns |-> "new"]
    /\ pump = [c \in Conns |-> [p \in Pumps |-> "off"]]
    /\ announcing = FALSE
    /\ untold = {}

Listed == {c \in Conns : place[c] = "listed"}

OfSameWorker(c) == {d \in Conns : WorkerOf[d] = WorkerOf[c]}

(* The connections of S that were listed are so no more.                   *)
Delisted(S) == [c \in Conns |-> IF c \in Listed \cap S THEN "gone" ELSE place[c]]

-----------------------------------------------------------------------------
Admit(c) ==
    /\ ~announcing /\ place[c] = "new"
    /\ Listed \cap OfSameWorker(c) = {}
    /\ place' = [place EXCEPT ![c] = "admitted"]
    /\ UNCHANGED <<pump, announcing, untold>>

Refuse(c) ==
    /\ ~announcing /\ place[c] = "new"
    /\ Listed \cap OfSameWorker(c) # {}
    /\ place' = [place EXCEPT ![c] = "gone"]
    /\ UNCHANGED <<pump, announcing, untold>>

(* Two connections admitted together: the later one replaces the earlier.  *)
List(c) ==
    /\ ~announcing /\ place[c] = "admitted"
    /\ place' = [Delisted(OfSameWorker(c)) EXCEPT ![c] = "listed"]
    /\ pump' = [pump EXCEPT ![c] = [p \in Pumps |-> "on"]]
    /\ UNCHANGED <<announcing, untold>>

EndPump(c, p) ==
    /\ pump[c][p] = "on"
    /\ pump' = [pump EXCEPT ![c][p] = "leaving"]
    /\ UNCHANGED <<place, announcing, untold>>

(* A pump that ends takes its worker off the list, once, whichever of the  *)
(* worker's connections is listed.                                         *)
Leave(c, p) ==
    /\ ~announcing /\ pump[c][p] = "leaving"
    /\ pump' = [pump EXCEPT ![c][p] = "done"]
    /\ place' = Delisted(OfSameWorker(c))
    /\ UNCHANGED <<announcing, untold>>

(* A change concerns every worker, or those of one pool.                   *)
Announce ==
    /\ ~announcing
    /\ announcing' = TRUE
    /\ \/ untold' = Listed
       \/ \E p \in Pools : untold' = {c \in Listed : PoolOf[WorkerOf[c]] = p}
    /\ UNCHANGED <<place, pump>>

Tell(c) ==
    /\ announcing /\ c \in untold
    /\ untold' = untold \ {c}
    /\ UNCHANGED <<place, pump, announcing>>

Finish ==
    /\ announcing /\ untold = {}
    /\ announcing' = FALSE
    /\ UNCHANGED <<place, pump, untold>>

Close ==
    /\ ~announcing
    /\ place' = Delisted(Conns)
    /\ UNCHANGED <<pump, announcing, untold>>

RegistryNext ==
    \/ \E c \in Conns :
          \/ Admit(c) \/ Refuse(c) \/ List(c) \/ Tell(c)
          \/ \E p \in Pumps : EndPump(c, p) \/ Leave(c, p)
    \/ Announce \/ Finish \/ Close

RegistrySpec == RegistryInit /\ [][RegistryNext]_registryVars

-----------------------------------------------------------------------------
(* What users of the registry may rely on: a worker has one connection to  *)
(* be told over, whoever has still to be told is on the list, and a        *)
(* connection that has left the list does not come back to it.             *)
OneListedPerWorker == \A c, d \in Listed : WorkerOf[c] = WorkerOf[d] => c = d

UntoldAreListed == untold \subseteq Listed

GoneForGood == [][\A c \in Conns : place[c] = "gone" => place'[c] = "gone"]_registryVars
=============================================================================

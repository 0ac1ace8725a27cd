-------------------------- MODULE ProxyConnections --------------------------
(***************************************************************************)
(* The connections of one user through the worker's HTTP or SOCKS5 proxy,  *)
(* whichever the process runs: how each takes and gives back one of the    *)
(* user's places, how its two copying goroutines end it, and the counters  *)
(* both touch.                                                             *)
(* Source: worker/services/{http,socks}.go, worker/utils/functions.go,     *)
(* worker/manager/user_manager.go (addConnection, removeConnection,        *)
(* resetConnectionCount) and health_collector.go.                          *)
(*                                                                         *)
(* Abstractions.  A place is counted in the User object the cache holds;   *)
(* the objects are told apart because a new login makes a new one.  The    *)
(* counter is an int without a lock: a check reads it, and the increment   *)
(* or decrement that follows uses that value or reads it again.  How the   *)
(* proxy reaches its destination is one step that succeeds or fails.       *)
(***************************************************************************)
EXTENDS Integers, FiniteSets

CONSTANTS
    Conns,    \* bound: client connections at a time
    Users,    \* bound: User objects in use at a time
    NoUser,   \* no entry in the cache
    Limit,    \* places of a user (50)
    MaxReloads  \* bound: updates that read the counter again and find it changed

ASSUME ProxyAssumption ==
    /\ IsFiniteSet(Conns)
    /\ NoUser \notin Users
    /\ Limit \in Nat \ {0} /\ MaxReloads \in Nat

VARIABLES
    service,  \* the proxy this process runs: HTTP or SOCKS5
    entry,    \* the user's entry in the cache
    count,    \* connectionCount of each User object
    stage,    \* where the goroutines of a connection are
    user,     \* the User object a connection is updating
    seen,     \* the count it has read
    reloads,  \* bound: how many updates have read a changed count
    ended,    \* the copying goroutines that have ended: "upload", "download"
    active,   \* activeConnections of the health collector
    timer,    \* resetConnectionCount: the object it is resetting
    blur      \* history: what has made the counts inexact

vars == <<service, entry, count, stage, user, seen, reloads, ended, active, timer, blur>>

Stages == {"closed", "add", "increment", "connect", "relay", "udp", "report", "remove",
           "decrement", "close", "panicked", "stuck"}

(* The goroutines that copy between client and destination.                *)
Directions == {"upload", "download"}

(* "restarted": the minute timer, or a new or removed cache entry, began   *)
(* the count again while connections were open; "race": two updates        *)
(* overlapped; "lost": an HTTP connection found no destination, a handler  *)
(* panicked, or a report waits for ever.                                   *)
Causes == {"restarted", "race", "lost"}

TypeOK ==
    /\ service \in {"http", "socks"}
    /\ entry \in Users \cup {NoUser} /\ timer \in Users \cup {NoUser}
    /\ count \in [Users -> Int]
    /\ stage \in [Conns -> Stages]
    /\ user \in [Conns -> Users \cup {NoUser}]
    /\ \A c \in Conns : stage[c] \in {"increment", "decrement"} => user[c] \in Users
    /\ seen \in [Conns -> Int] /\ reloads \in 0..MaxReloads
    /\ ended \in [Conns -> SUBSET Directions]
    /\ active \in Int
    /\ blur \subseteq Causes

Init ==
    /\ service \in {"http", "socks"}
    /\ entry \in Users /\ timer = NoUser
    /\ count = [u \in Users |-> 0]
    /\ stage = [c \in Conns |-> "closed"]
    /\ user = [c \in Conns |-> NoUser]
    /\ seen = [c \in Conns |-> 0] /\ reloads = 0
    /\ ended = [c \in Conns |-> {}]
    /\ active = 0
    /\ blur = {}

HoldingStages == {"connect", "relay", "udp", "report", "remove", "stuck"}
Holding == {c \in Conns : stage[c] \in HoldingStages}
Relaying == {c \in Conns : stage[c] \in {"relay", "udp"}}
Updating == {c \in Conns : stage[c] \in {"increment", "decrement"}}
NoneOpen == Holding = {} /\ Updating = {}

Blurs(cause, condition) == blur' = IF condition THEN blur \cup {cause} ELSE blur

-----------------------------------------------------------------------------
(* addConnection, called once VerifyUser has let the client in: by HTTP    *)
(* with the credentials of its request, by SOCKS5 in the handshake.  A     *)
(* slot that was closed stands for the next client.                        *)

Open(c) ==
    /\ stage[c] = "closed"
    /\ stage' = [stage EXCEPT ![c] = "add"]
    /\ UNCHANGED <<entry, count, user, seen, reloads, ended, active, timer, blur>>

OpenHTTP(c) == service = "http" /\ Open(c)
OpenSocks(c) == service = "socks" /\ Open(c)

(* Faulty variant: one place too many.                                     *)
HasPlaceTooMany == count[entry] <= Limit

HasPlace == count[entry] < Limit

AddConnection(c) ==
    /\ stage[c] = "add"
    /\ entry # NoUser /\ HasPlace
    /\ stage' = [stage EXCEPT ![c] = "increment"]
    /\ user' = [user EXCEPT ![c] = entry]
    /\ seen' = [seen EXCEPT ![c] = count[entry]]
    /\ UNCHANGED <<entry, count, reloads, ended, active, timer, blur>>

(* No place left, or the entry went between VerifyUser and here: 429.      *)
Refuse(c) ==
    /\ stage[c] = "add"
    /\ entry # NoUser => ~HasPlace
    /\ stage' = [stage EXCEPT ![c] = "close"]
    /\ UNCHANGED <<entry, count, user, seen, reloads, ended, active, timer, blur>>

(* x++ and x-- read the counter once more, unless the compiler has kept    *)
(* what the check read, and store: an update in between is overwritten.    *)
Reload(c) ==
    /\ c \in Updating /\ seen[c] # count[user[c]]
    /\ seen' = [seen EXCEPT ![c] = count[user[c]]]
    /\ reloads < MaxReloads /\ reloads' = reloads + 1
    /\ Blurs("race", TRUE)
    /\ UNCHANGED <<entry, count, stage, user, ended, active, timer>>

Store(c, change) ==
    /\ count' = [count EXCEPT ![user[c]] = seen[c] + change]
    /\ Blurs("race", seen[c] # count[user[c]])
    /\ user' = [user EXCEPT ![c] = NoUser]
    /\ seen' = [seen EXCEPT ![c] = 0]

Increment(c) ==
    /\ stage[c] = "increment"
    /\ Store(c, 1)
    /\ stage' = [stage EXCEPT ![c] = "connect"]
    /\ UNCHANGED <<entry, reloads, ended, active, timer>>

-----------------------------------------------------------------------------
(* OutToTCP and handleUDP.                                                 *)

(* The health collector's count of connections, which is atomic.           *)
CountActive(change) == active' = active + change

Connect(c) ==
    /\ stage[c] = "connect"
    /\ stage' = [stage EXCEPT ![c] = "relay"]
    /\ ended' = [ended EXCEPT ![c] = {}]
    /\ CountActive(1)
    /\ UNCHANGED <<entry, count, user, seen, reloads, timer, blur>>

(* Faulty variant: SOCKS5 forgets the place as HTTP does.                  *)
SocksForgets(c) ==
    /\ service = "socks"
    /\ stage[c] = "connect"
    /\ stage' = [stage EXCEPT ![c] = "close"]
    /\ UNCHANGED <<entry, count, user, seen, reloads, ended, active, timer, blur>>

(* SOCKS5 gives the place back when the request is malformed or the        *)
(* destination cannot be reached.                                          *)
SocksFails(c) ==
    /\ service = "socks"
    /\ stage[c] = "connect"
    /\ stage' = [stage EXCEPT ![c] = "remove"]
    /\ UNCHANGED <<entry, count, user, seen, reloads, ended, active, timer, blur>>

(* HTTP closes the client's socket and forgets the place.                  *)
HTTPFails(c) ==
    /\ service = "http"
    /\ stage[c] = "connect"
    /\ stage' = [stage EXCEPT ![c] = "close"]
    /\ Blurs("lost", TRUE)
    /\ UNCHANGED <<entry, count, user, seen, reloads, ended, active, timer>>

(* A handler that panics (HTTP on the nil connection of an upstream it     *)
(* could not reach, SOCKS5 on an upstream provider without credentials) is *)
(* recovered: the place is not given back and the socket stays open.       *)
Panic(c) ==
    /\ stage[c] \in {"connect", "udp"}
    /\ stage' = [stage EXCEPT ![c] = "panicked"]
    /\ Blurs("lost", TRUE)
    /\ UNCHANGED <<entry, count, user, seen, reloads, ended, active, timer>>

(* A UDP association is served by the handler itself.                      *)
Associate(c) ==
    /\ service = "socks"
    /\ stage[c] = "connect"
    /\ stage' = [stage EXCEPT ![c] = "udp"]
    /\ UNCHANGED <<entry, count, user, seen, reloads, ended, active, timer, blur>>

DisAssociate(c) ==
    /\ stage[c] = "udp"
    /\ stage' = [stage EXCEPT ![c] = "remove"]
    /\ UNCHANGED <<entry, count, user, seen, reloads, ended, active, timer, blur>>

(* IoBind: each direction ends with an error, end of file included; the    *)
(* first one calls back, which begins with the health counter.             *)
EveryEnd(c) == TRUE    \* faulty variant: without the sync.Once

FirstEnd(c) == ended[c] = {}

CopyEnds(c, d) ==
    /\ stage[c] \in {"relay", "report"} /\ d \notin ended[c]
    /\ ended' = [ended EXCEPT ![c] = @ \cup {d}]
    /\ IF FirstEnd(c)
       THEN CountActive(-1) /\ stage' = [stage EXCEPT ![c] = "report"]
       ELSE UNCHANGED <<active, stage>>
    /\ UNCHANGED <<entry, count, user, seen, reloads, timer, blur>>

(* RecordDataUsage queues an event for the captain.                        *)
Report(c) ==
    /\ stage[c] = "report"
    /\ stage' = [stage EXCEPT ![c] = "remove"]
    /\ UNCHANGED <<entry, count, user, seen, reloads, ended, active, timer, blur>>

(* The channel is full and its session has ended: the send never returns.  *)
ReportBlocks(c) ==
    /\ stage[c] \in {"report", "udp"}
    /\ stage' = [stage EXCEPT ![c] = "stuck"]
    /\ Blurs("lost", TRUE)
    /\ UNCHANGED <<entry, count, user, seen, reloads, ended, active, timer>>

-----------------------------------------------------------------------------
(* removeConnection, in whatever object the cache then holds.              *)

(* Faulty variant: without the check of the count.                         *)
HoldsAny == TRUE

HoldsPlace == count[entry] >= 0

(* Faulty variant: whether the cache has an entry is not checked.          *)
RemoveUnchecked(c) ==
    /\ stage[c] = "remove"
    /\ entry # NoUser => HoldsPlace
    /\ stage' = [stage EXCEPT ![c] = "decrement"]
    /\ user' = [user EXCEPT ![c] = entry]
    /\ UNCHANGED <<entry, count, seen, reloads, ended, active, timer, blur>>

RemoveConnection(c) ==
    /\ stage[c] = "remove"
    /\ entry # NoUser /\ HoldsPlace
    /\ stage' = [stage EXCEPT ![c] = "decrement"]
    /\ user' = [user EXCEPT ![c] = entry]
    /\ seen' = [seen EXCEPT ![c] = count[entry]]
    /\ UNCHANGED <<entry, count, reloads, ended, active, timer, blur>>

NothingToRemove(c) ==
    /\ stage[c] = "remove"
    /\ entry # NoUser => ~HoldsPlace
    /\ stage' = [stage EXCEPT ![c] = "close"]
    /\ UNCHANGED <<entry, count, user, seen, reloads, ended, active, timer, blur>>

(* Faulty variant: whoever calls it gives the place back once more.        *)
DecrementAgain(c) ==
    /\ stage[c] = "decrement"
    /\ Store(c, -1)
    /\ stage' = [stage EXCEPT ![c] = "remove"]
    /\ UNCHANGED <<entry, reloads, ended, active, timer>>

Decrement(c) ==
    /\ stage[c] = "decrement"
    /\ Store(c, -1)
    /\ stage' = [stage EXCEPT ![c] = "close"]
    /\ UNCHANGED <<entry, reloads, ended, active, timer>>

(* CloseConn also ends whatever still copies.                              *)
Close(c) ==
    /\ stage[c] = "close"
    /\ stage' = [stage EXCEPT ![c] = "closed"]
    /\ ended' = [ended EXCEPT ![c] = {}]
    /\ UNCHANGED <<entry, count, user, seen, reloads, active, timer, blur>>

-----------------------------------------------------------------------------
(* The minute timer: it copies the cache, zeroes the count of each object  *)
(* and files the object again.                                             *)
ResetRead ==
    /\ timer = NoUser /\ entry # NoUser
    /\ timer' = entry
    /\ UNCHANGED <<entry, count, stage, user, seen, reloads, ended, active, blur>>

ResetWrite ==
    /\ timer # NoUser
    /\ count' = [count EXCEPT ![timer] = 0]
    /\ entry' = timer /\ timer' = NoUser
    /\ Blurs("restarted", ~NoneOpen)
    /\ UNCHANGED <<stage, user, seen, reloads, ended, active>>

(* The entry expires, is removed with a change of the user, or is replaced *)
(* by the next login's object.                                             *)
Replace(u) ==
    /\ u = NoUser \/ \A c \in Conns : u \notin {entry, timer, user[c]}
    /\ entry' = u
    /\ count' = IF u = NoUser THEN count ELSE [count EXCEPT ![u] = 0]
    /\ Blurs("restarted", ~NoneOpen)
    /\ UNCHANGED <<stage, user, seen, reloads, ended, active, timer>>

-----------------------------------------------------------------------------
Handle(c) ==
    \/ OpenHTTP(c) \/ OpenSocks(c)
    \/ AddConnection(c) \/ Refuse(c) \/ Increment(c) \/ Reload(c)
    \/ Connect(c) \/ SocksFails(c) \/ HTTPFails(c) \/ Panic(c)
    \/ Associate(c) \/ DisAssociate(c)
    \/ Report(c) \/ ReportBlocks(c)
    \/ RemoveConnection(c) \/ NothingToRemove(c) \/ Decrement(c) \/ Close(c)

Next ==
    /\ \/ \E c \in Conns : Handle(c) \/ \E d \in Directions : CopyEnds(c, d)
       \/ ResetRead \/ ResetWrite
       \/ \E u \in Users \cup {NoUser} : Replace(u)
    /\ UNCHANGED service

Spec == Init /\ [][Next]_vars

-----------------------------------------------------------------------------
(* The connections whose place the count has to cover, and the places that *)
(* it leaves: those of the abstract ConnectionQuota, as long as nothing has *)
(* disturbed the count.                                                    *)
Taken == {c \in Conns : stage[c] \in HoldingStages \cup {"decrement"}}

Undisturbed == blur \cap {"restarted", "race"} = {}

PlacesTaken == IF Undisturbed THEN Taken ELSE {}

PlacesFree == IF Undisturbed /\ entry # NoUser THEN Limit - count[entry] ELSE Limit

Quota == INSTANCE ConnectionQuota WITH
             taken <- PlacesTaken, free <- PlacesFree, disturbed <- ~Undisturbed

(* addConnection and removeConnection make the count a semaphore, though   *)
(* it is checked and changed in two steps, in an object that may be        *)
(* replaced: every place is taken while there is one, and given back once, *)
(* until one of the two causes disturbs it.                                *)
KeepsQuota == Quota!QuotaSpec

(* The limit on a user's connections holds: more of them are open only     *)
(* where the minute timer zeroed the count under open connections, a new   *)
(* User object began at zero, or two updates overlapped.                   *)
OverLimitOnlyByCause ==
    Cardinality(Relaying) > Limit => ~Undisturbed

(* The count is that of the places taken, in every interleaving, until one *)
(* of the three causes has made it inexact: in particular a SOCKS5         *)
(* connection that cannot be served gives its place back, once.            *)
CountIsExact ==
    blur = {} /\ entry # NoUser =>
        count[entry] = Cardinality(Taken)

(* Connections that outlive the minute timer take the count below zero by  *)
(* one, no matter how many they are, unless their updates overlap: a user  *)
(* gains at most one place by it.                                          *)
CountFloor == "race" \notin blur => \A u \in Users : count[u] >= -1

(* The health collector counts the connections being relayed: each is      *)
(* counted off by the first of its two copying goroutines to end, once.    *)
ActiveIsExact == active = Cardinality({c \in Conns : stage[c] = "relay"})
=============================================================================

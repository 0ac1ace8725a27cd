--------------------------- MODULE ConnectionPools ---------------------------
(***************************************************************************)
(* The worker's pools of connections to upstreams: one for each address    *)
(* the list held when the proxy started.  A module of operators for        *)
(* WorkerOutbound.                                                         *)
(* Source: worker/utils/pool.go and OutPool in worker/utils/structs.go.    *)
(*                                                                         *)
(* NewOutPool makes a pool for each address in a loop, and each pool's     *)
(* Factory dials the loop's variable.  The module is built as go 1.18      *)
(* (worker/go.mod), where a loop has one variable for all its rounds: a    *)
(* pool is filled from its own address while its round lasts, and every    *)
(* dial after the loop goes to the last address.  The daemon's goroutines  *)
(* share address and pool of their loop in the same way, and wake together *)
(* to look at the same pool: their looks are one step here.                *)
(*                                                                         *)
(* Abstraction.  A pooled connection is the address it leads to; whether   *)
(* its far end has closed it meanwhile is not seen (IsActive is constant). *)
(***************************************************************************)
EXTENDS Integers, Sequences

CONSTANTS
    Addresses,   \* of upstreams
    NoAddress,
    InitialCap   \* connections a pool is filled to (20)

ASSUME PoolAssumption == NoAddress \notin Addresses /\ InitialCap \in Nat \ {0}

VARIABLES
    pooled,      \* addresses that have a pool
    pools,       \* the connections in each pool
    fillers,     \* pools with a goroutine that refills them
    last,        \* what the variable of NewOutPool's loop was left at
    probed       \* the pool the daemon's goroutines have still to look at

poolVars == <<pooled, pools, fillers, last, probed>>

PoolTypeOK ==
    /\ pooled \subseteq Addresses /\ fillers \subseteq pooled
    /\ pools \in [Addresses -> Seq(Addresses)]
    /\ \A a \in Addresses : Len(pools[a]) <= InitialCap
    /\ last \in Addresses \cup {NoAddress} /\ probed \in pooled \cup {NoAddress}

NoPools ==
    /\ pooled = {} /\ pools = [a \in Addresses |-> <<>>] /\ fillers = {}
    /\ last = NoAddress /\ probed = NoAddress

ForgetPools ==
    /\ pooled' = {} /\ pools' = [a \in Addresses |-> <<>>] /\ fillers' = {}
    /\ last' = NoAddress /\ probed' = NoAddress

Dialled(address, n) == [i \in 1..n |-> address]

-----------------------------------------------------------------------------
(* NewOutPool: the first filling of a pool ends at the first dial that     *)
(* fails, and then the pool gets no goroutine.                             *)
NewOutPool(list) ==
    LET addresses == {list[i] : i \in DOMAIN list}
    IN  /\ pooled' = addresses
        /\ last' = list[Len(list)]
        /\ \E filled \in [addresses -> 0..InitialCap] :
              /\ pools' = [a \in Addresses |->
                             IF a \in addresses THEN Dialled(a, filled[a]) ELSE <<>>]
              /\ fillers' = {a \in addresses : filled[a] = InitialCap}
        /\ probed' \in addresses

NeedsFill(a) == a \in fillers /\ Len(pools[a]) <= InitialCap \div 2

(* Faulty variant: the fill ends one connection too late.                  *)
RoomForOneMore(a) == InitialCap + 1 - Len(pools[a])

Room(a) == InitialCap - Len(pools[a])

(* The goroutine of a pool, every two seconds.  It holds the pool's lock   *)
(* while it dials; some of its dials may fail.                             *)
Fill(a) ==
    /\ NeedsFill(a)
    /\ \E n \in 1..Room(a) : pools' = [pools EXCEPT ![a] = @ \o Dialled(last, n)]
    /\ UNCHANGED <<pooled, fillers, last, probed>>

(* Three seconds after the start the daemon's goroutines dial the address, *)
(* and empty the pool if it does not answer.                               *)
Probe ==
    /\ probed # NoAddress
    /\ probed' = NoAddress
    /\ \/ UNCHANGED pools
       \/ pools' = [pools EXCEPT ![probed] = <<>>]
    /\ UNCHANGED <<pooled, fillers, last>>

-----------------------------------------------------------------------------
(* GetConnFromConnectionPool.                                              *)
Pooled(a) == a \in pooled /\ pools[a] # <<>>

Take(a) ==
    /\ pools' = [pools EXCEPT ![a] = Tail(@)]
    /\ UNCHANGED <<pooled, fillers, last, probed>>

(* An empty pool dials, and keeps nothing of it.                           *)
Empty(a) == a \in pooled /\ pools[a] = <<>>
=============================================================================

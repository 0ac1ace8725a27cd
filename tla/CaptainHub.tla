----------------------------- MODULE CaptainHub -----------------------------
(***************************************************************************)
(* The captain's websocket hub: the registry of connected workers, the     *)
(* goroutines of each connection (ServeWS handler, initial-configuration   *)
(* goroutine, read pump, write pump), the bounded egress channel they      *)
(* share, the API requests that broadcast a change while holding the hub's *)
(* lock, and the shutdown of the process.                                  *)
(* Source: captain/internal/server/websocket/{ws_manager,websocket_client} *)
(* .go and captain/cmd/server/main.go.                                     *)
(*                                                                         *)
(* Abstractions.  A message is its event type.  A request from the worker  *)
(* is the reply its handler produces (handlers that send nothing leave the *)
(* hub unchanged).  A socket is "open" until either side closes it or the  *)
(* network loses it; the read deadline and the write deadline turn a lost  *)
(* peer into an error of both pumps, so both causes are "closed".          *)
(***************************************************************************)
EXTENDS Naturals, Sequences

CONSTANTS
    Conns,      \* the Worker structs, one for each upgraded websocket
    WorkerIds,  \* the worker ids of the workers table
    Pools,      \* the pools the workers belong to
    WorkerOf,   \* the ID field of each Worker struct
    PoolOf,     \* the PoolId of each worker
    Admins,     \* concurrent API requests that call Notify*
    EgressCap,  \* capacity of a Worker's egress channel (100 in the code)
    NoConn,     \* "no entry" in the Workers map
    Free        \* the holder of an unlocked mutex

ASSUME HubAssumption ==
    /\ WorkerOf \in [Conns -> WorkerIds]
    /\ PoolOf \in [WorkerIds -> Pools]
    /\ EgressCap \in Nat \ {0}
    /\ NoConn \notin Conns
    /\ Free \notin Admins

VARIABLES
    registry,   \* WebsocketManager.Workers
    lock,       \* holder of the embedded RWMutex across steps
    sock,       \* the websocket connection of each Worker struct
    egress,     \* contents of each egress channel
    sealed,     \* egress channels that have been closed
    serve,      \* ServeWS: "idle" "check" "add" "done" "rejected"
    config,     \* initial config goroutine: "idle" "query" "send" "sent" "failed"
    reader,     \* read pump: "off" "reading" "replying" "removing" "closing" "done"
    writer,     \* write pump: "off" "writing" "removing" "done"
    todo,       \* the connections a broadcast has still to reach
    process,    \* main: "serving" "draining" "stopped" "exited"
    panics      \* the goroutines that have panicked

vars == <<registry, lock, sock, egress, sealed, serve, config, reader, writer,
          todo, process, panics>>

(* Event types: "config" for the initial configuration; "reply" for what a *)
(* read pump answers a request with, a configuration asked for later       *)
(* included; "change" for user_change and pool_change.                     *)
Events == {"config", "reply", "change"}

Registered == {registry[w] : w \in WorkerIds} \ {NoConn}

(* A panic of a goroutine the hub starts ends the process: none of them    *)
(* recovers.  A panic of an API request is recovered by net/http.          *)
Alive == panics \subseteq {"notify"} /\ process # "exited"

(* Every channel holds at most its capacity.                               *)
ChannelsOK ==
    /\ egress \in [Conns -> Seq(Events)]
    /\ \A c \in Conns : Len(egress[c]) <= EgressCap

TypeOK ==
    /\ ChannelsOK
    /\ registry \in [WorkerIds -> Conns \cup {NoConn}]
    /\ lock \in Admins \cup {Free}
    /\ sock \in [Conns -> {"none", "open", "closed"}]
    /\ sealed \in [Conns -> BOOLEAN]
    /\ serve \in [Conns -> {"idle", "check", "add", "done", "rejected"}]
    /\ config \in [Conns -> {"idle", "query", "send", "sent", "failed"}]
    /\ reader \in [Conns -> {"off", "reading", "replying", "removing", "closing", "done"}]
    /\ writer \in [Conns -> {"off", "writing", "removing", "done"}]
    /\ todo \in [Admins -> SUBSET Conns]
    /\ process \in {"serving", "draining", "stopped", "exited"}
    /\ panics \subseteq {"initial_config", "reader", "notify", "shutdown"}

Init ==
    /\ registry = [w \in WorkerIds |-> NoConn]
    /\ lock = Free
    /\ sock = [c \in Conns |-> "none"]
    /\ egress = [c \in Conns |-> << >>]
    /\ sealed = [c \in Conns |-> FALSE]
    /\ serve = [c \in Conns |-> "idle"]
    /\ config = [c \in Conns |-> "idle"]
    /\ reader = [c \in Conns |-> "off"]
    /\ writer = [c \in Conns |-> "off"]
    /\ todo = [a \in Admins |-> {}]
    /\ process = "serving"
    /\ panics = {}

-----------------------------------------------------------------------------
(* Channel and registry operations.                                        *)

(* A send blocks while the buffer is full and panics on a closed channel.  *)
CanSendOneTooMany(c) == sealed[c] \/ Len(egress[c]) <= EgressCap    \* faulty variant

CanSend(c) == sealed[c] \/ Len(egress[c]) < EgressCap

Panic(who) == panics' = panics \cup {who}

Send(c, e, who) ==
    /\ CanSend(c)
    /\ IF sealed[c]
       THEN Panic(who) /\ UNCHANGED egress
       ELSE egress' = [egress EXCEPT ![c] = Append(@, e)] /\ UNCHANGED panics

(* RemoveWorker(w): whatever connection is registered under w's ID is      *)
(* unregistered, and w's own connection is closed.                         *)
Unregister(c) ==
    /\ registry' = [registry EXCEPT ![WorkerOf[c]] = NoConn]
    /\ sock' = [sock EXCEPT ![c] = IF registry[WorkerOf[c]] = NoConn THEN @ ELSE "closed"]

(* Faulty variants: without the mutex; nothing done for a closed socket.   *)
RemoveWorkerUnlocked(c) == Unregister(c)
RemoveWorkerIfOpen(c) ==
    lock = Free /\ IF sock[c] = "open" THEN Unregister(c) ELSE UNCHANGED <<registry, sock>>

RemoveWorker(c) == lock = Free /\ Unregister(c)

-----------------------------------------------------------------------------
(* ServeWS: upgrade, duplicate check under the read lock, registration     *)
(* under the write lock.  The two critical sections are separate.          *)

Connect(c) ==
    /\ Alive
    /\ process \in {"serving", "draining"}   \* a request in flight outlives the listener
    /\ serve[c] = "idle"
    /\ serve' = [serve EXCEPT ![c] = "check"]
    /\ sock' = [sock EXCEPT ![c] = "open"]
    /\ UNCHANGED <<registry, lock, egress, sealed, config, reader,
                   writer, todo, process, panics>>

(* Faulty variant: the duplicate is cleaned up with RemoveWorker.          *)
RejectRemoves(c) == RemoveWorker(c)

Reject(c) == sock' = [sock EXCEPT ![c] = "closed"] /\ UNCHANGED registry

CheckDuplicate(c) ==
    /\ Alive
    /\ serve[c] = "check"
    /\ lock = Free
    /\ IF registry[WorkerOf[c]] # NoConn
       THEN /\ serve' = [serve EXCEPT ![c] = "rejected"]
            /\ Reject(c)
            /\ UNCHANGED config
       ELSE /\ serve' = [serve EXCEPT ![c] = "add"]
            /\ config' = [config EXCEPT ![c] = "query"]
            /\ UNCHANGED <<registry, sock>>
    /\ UNCHANGED <<lock, egress, sealed, reader, writer,
                   todo, process, panics>>

AddWorker(c) ==
    /\ Alive
    /\ serve[c] = "add"
    /\ lock = Free
    /\ serve' = [serve EXCEPT ![c] = "done"]
    /\ registry' = [registry EXCEPT ![WorkerOf[c]] = c]
    /\ reader' = [reader EXCEPT ![c] = "reading"]
    /\ writer' = [writer EXCEPT ![c] = "writing"]
    /\ UNCHANGED <<lock, sock, egress, sealed, config, todo,
                   process, panics>>

(* The initial configuration is fetched and queued by a goroutine of its   *)
(* own; a failed query or an empty result is only logged.                  *)
QueryConfig(c) ==
    /\ Alive
    /\ config[c] = "query"
    /\ \E outcome \in {"send", "failed"} :
          config' = [config EXCEPT ![c] = outcome]
    /\ UNCHANGED <<registry, lock, sock, egress, sealed, serve, reader,
                   writer, todo, process, panics>>

SendConfig(c) ==
    /\ Alive
    /\ config[c] = "send"
    /\ Send(c, "config", "initial_config")
    /\ config' = [config EXCEPT ![c] = "sent"]
    /\ UNCHANGED <<registry, lock, sock, sealed, serve, reader, writer,
                   todo, process>>

-----------------------------------------------------------------------------
(* The read pump.                                                          *)

Receive(c) ==
    /\ Alive
    /\ reader[c] = "reading"
    /\ sock[c] = "open"
    /\ \/ reader' = [reader EXCEPT ![c] = "replying"]
       \/ reader' = [reader EXCEPT ![c] = "removing"]     \* malformed frame
    /\ UNCHANGED <<registry, lock, sock, egress, sealed, serve, config, writer,
                   todo, process, panics>>

Reply(c) ==
    /\ Alive
    /\ reader[c] = "replying"
    /\ Send(c, "reply", "reader")
    /\ reader' = [reader EXCEPT ![c] = "reading"]
    /\ UNCHANGED <<registry, lock, sock, sealed, serve, config, writer, todo,
                   process>>

(* Faulty variant: the read loop carries on after an error.                *)
ReadFailsRetries(c) ==
    /\ Alive
    /\ reader[c] = "reading"
    /\ sock[c] = "closed"
    /\ UNCHANGED vars

ReadFails(c) ==
    /\ Alive
    /\ reader[c] = "reading"
    /\ sock[c] = "closed"
    /\ reader' = [reader EXCEPT ![c] = "removing"]
    /\ UNCHANGED <<registry, lock, sock, egress, sealed, serve, config,
                   writer, todo, process, panics>>

ReaderRemoves(c) ==
    /\ Alive
    /\ reader[c] = "removing"
    /\ RemoveWorker(c)
    /\ reader' = [reader EXCEPT ![c] = "closing"]
    /\ UNCHANGED <<lock, egress, sealed, serve, config, writer, todo,
                   process, panics>>

(* Connection.Close() and close(egress); closing a closed channel panics.  *)
ReaderCloses(c) ==
    /\ Alive
    /\ reader[c] = "closing"
    /\ sock' = [sock EXCEPT ![c] = "closed"]
    /\ IF sealed[c] THEN Panic("reader") ELSE UNCHANGED panics
    /\ sealed' = [sealed EXCEPT ![c] = TRUE]
    /\ reader' = [reader EXCEPT ![c] = "done"]
    /\ UNCHANGED <<registry, lock, egress, serve, config, writer, todo,
                   process>>

-----------------------------------------------------------------------------
(* The write pump.  A closed channel still yields its buffered events; the *)
(* event in hand is lost when the write fails.                             *)

Write(c) ==
    /\ Alive
    /\ writer[c] = "writing"
    /\ egress[c] # << >>
    /\ egress' = [egress EXCEPT ![c] = Tail(@)]
    /\ writer' = [writer EXCEPT ![c] = IF sock[c] = "open" THEN @ ELSE "removing"]
    /\ UNCHANGED <<registry, lock, sock, sealed, serve, config, reader,
                   todo, process, panics>>

WriterSeesEnd(c) ==
    /\ Alive
    /\ writer[c] = "writing"
    /\ \/ sealed[c] /\ egress[c] = << >>      \* closed and drained
       \/ sock[c] = "closed"                  \* the periodic ping fails
    /\ writer' = [writer EXCEPT ![c] = "removing"]
    /\ sock' = [sock EXCEPT ![c] = "closed"]
    /\ UNCHANGED <<registry, lock, egress, sealed, serve, config, reader,
                   todo, process, panics>>

WriterRemoves(c) ==
    /\ Alive
    /\ writer[c] = "removing"
    /\ RemoveWorker(c)
    /\ writer' = [writer EXCEPT ![c] = "done"]
    /\ UNCHANGED <<lock, egress, sealed, serve, config, reader, todo,
                   process, panics>>

(* The peer goes away, or its silence exceeds the deadlines.               *)
LinkLost(c) ==
    /\ Alive
    /\ sock[c] = "open"
    /\ sock' = [sock EXCEPT ![c] = "closed"]
    /\ UNCHANGED <<registry, lock, egress, sealed, serve, config, reader,
                   writer, todo, process, panics>>

-----------------------------------------------------------------------------
(* NotifyUserChange and NotifyPoolChange: the lock is held while one       *)
(* blocking send after the other is made, in map order.                    *)

InPool(p) == {c \in Registered : PoolOf[WorkerOf[c]] = p}

NotifyBegin(a) ==
    /\ Alive
    /\ lock = Free
    /\ lock' = a
    /\ \E told \in {Registered} \cup {InPool(p) : p \in Pools} :
          todo' = [todo EXCEPT ![a] = told]
    /\ UNCHANGED <<registry, sock, egress, sealed, serve, config, reader,
                   writer, process, panics>>

NotifySend(a, c) ==
    /\ Alive
    /\ lock = a
    /\ c \in todo[a]
    /\ Send(c, "change", "notify")
    /\ todo' = [todo EXCEPT ![a] = IF sealed[c] THEN {} ELSE @ \ {c}]
    /\ lock' = IF sealed[c] THEN Free ELSE lock     \* the deferred Unlock
    /\ UNCHANGED <<registry, sock, sealed, serve, config, reader, writer,
                   process>>

(* Faulty variant: the mutex is not released.                              *)
NotifyKeepsLock(a) ==
    /\ Alive
    /\ lock = a
    /\ todo[a] = {}
    /\ UNCHANGED vars

(* Faulty variant: a broadcast gives up on a channel that is full.         *)
NotifyGivesUp(a) ==
    /\ Alive
    /\ lock = a
    /\ todo[a] = {} \/ \E c \in todo[a] : Len(egress[c]) = EgressCap
    /\ lock' = Free
    /\ UNCHANGED <<registry, sock, egress, sealed, serve, config, reader,
                   writer, todo, process, panics>>

NotifyEnd(a) ==
    /\ Alive
    /\ lock = a
    /\ todo[a] = {}
    /\ lock' = Free
    /\ UNCHANGED <<registry, sock, egress, sealed, serve, config, reader,
                   writer, todo, process, panics>>

-----------------------------------------------------------------------------
(* main: the interrupt stops the listener, then Shutdown closes every      *)
(* registered connection and its channel, then the process exits.          *)

Interrupt ==
    /\ Alive
    /\ process = "serving"
    /\ process' = "draining"
    /\ UNCHANGED <<registry, lock, sock, egress, sealed, serve, config, reader,
                   writer, todo, panics>>

Shutdown ==
    /\ Alive
    /\ process = "draining"
    /\ lock = Free
    /\ IF \E c \in Registered : sealed[c]
       THEN Panic("shutdown") /\ UNCHANGED <<registry, sock, sealed, process>>
       ELSE /\ sock' = [c \in Conns |-> IF c \in Registered THEN "closed" ELSE sock[c]]
            /\ sealed' = [c \in Conns |-> sealed[c] \/ c \in Registered]
            /\ registry' = [w \in WorkerIds |-> NoConn]
            /\ process' = "stopped"
            /\ UNCHANGED panics
    /\ UNCHANGED <<lock, egress, serve, config, reader, writer, todo>>

Exit ==
    /\ Alive
    /\ process = "stopped"
    /\ process' = "exited"
    /\ UNCHANGED <<registry, lock, sock, egress, sealed, serve, config, reader,
                   writer, todo, panics>>

-----------------------------------------------------------------------------
Serve(c)  == Connect(c) \/ CheckDuplicate(c) \/ AddWorker(c)
Config(c) == QueryConfig(c) \/ SendConfig(c)
Reader(c) == \/ Receive(c) \/ Reply(c) \/ ReadFails(c)
             \/ ReaderRemoves(c) \/ ReaderCloses(c)
Writer(c) == Write(c) \/ WriterSeesEnd(c) \/ WriterRemoves(c)
Notify(a) == NotifyBegin(a) \/ NotifyEnd(a) \/ \E c \in Conns : NotifySend(a, c)

Next ==
    \/ \E c \in Conns : Serve(c) \/ Config(c) \/ Reader(c) \/ Writer(c) \/ LinkLost(c)
    \/ \E a \in Admins : Notify(a)
    \/ Interrupt \/ Shutdown \/ Exit

(* Every goroutine that can take a step eventually takes one.  The mutex   *)
(* is strongly fair (a waiting Go mutex turns to starvation mode), and so  *)
(* are the sends of a broadcast (blocked senders are served in order).     *)
(* Nothing obliges a worker to connect, to send or to lose its link, an    *)
(* administrator to change anything, or anyone to interrupt the process.   *)
AcquiresLock(c) ==
    CheckDuplicate(c) \/ AddWorker(c) \/ ReaderRemoves(c) \/ WriterRemoves(c)

Fairness ==
    /\ SF_vars((\E c \in Conns : AcquiresLock(c)) \/ Shutdown)
    /\ \A c \in Conns :
          /\ WF_vars(Config(c))
          /\ WF_vars(Reply(c) \/ ReadFails(c) \/ ReaderCloses(c))
          /\ WF_vars(Write(c) \/ WriterSeesEnd(c))
    /\ \A a \in Admins :
          /\ SF_vars(\E c \in Conns : NotifySend(a, c))
          /\ WF_vars(NotifyEnd(a))
    /\ WF_vars(Exit)

Spec == Init /\ [][Next]_vars
FairSpec == Spec /\ Fairness

-----------------------------------------------------------------------------
(* Safety.                                                                 *)

(* A connection that broadcasts can reach has finished ServeWS, is filed   *)
(* under its own worker id, and its egress channel has not been closed:    *)
(* ReadMessage unregisters before it closes the channel.                   *)
RegisteredIsLive ==
    \A w \in WorkerIds : registry[w] # NoConn =>
        /\ WorkerOf[registry[w]] = w
        /\ serve[registry[w]] = "done"
        /\ ~sealed[registry[w]]

(* A broadcast never sends on a closed channel, whatever pumps end while   *)
(* it is blocked on another worker, and Shutdown never closes a channel a  *)
(* second time.                                                            *)
NoHubPanic == panics \cap {"notify", "shutdown"} = {}

(* Before Shutdown has run, the only goroutine that can crash the captain  *)
(* is the one that sends the initial configuration: the pumps and Shutdown *)
(* itself never close or use a channel another goroutine has closed.       *)
OnlyInitialConfigCrashes ==
    panics \subseteq {"initial_config"} \/ process = "stopped"

(* Nothing but these ends the captain.                                     *)
CrashesOnlyByCause == NoHubPanic /\ OnlyInitialConfigCrashes

(* While a broadcast holds the mutex, no connection is registered or       *)
(* removed: Go's map iteration and the set of workers told about a change  *)
(* are those of the moment the broadcast began.                            *)
RegistryStableDuringBroadcast ==
    [][lock # Free /\ lock' = lock => UNCHANGED registry]_vars

(* The hub keeps the promise of WorkerRegistry: a connection passes the    *)
(* duplicate check, is registered and is removed at most once, removed     *)
(* only by the end of a pump of its worker, by a replacement or by         *)
(* Shutdown, and a broadcast tells whoever was registered when it began.   *)
PlaceOf(c) ==
    IF serve[c] \in {"idle", "check"} THEN "new"
    ELSE IF serve[c] = "add" THEN "admitted"
    ELSE IF registry[WorkerOf[c]] = c THEN "listed" ELSE "gone"

StageOf(pump) ==
    IF pump = "off" THEN "off"
    ELSE IF pump \in {"reading", "replying", "writing"} THEN "on"
    ELSE IF pump = "removing" THEN "leaving" ELSE "done"

Place  == [c \in Conns |-> PlaceOf(c)]
Stages == [c \in Conns |-> [p \in {"read", "write"} |->
             StageOf(IF p = "read" THEN reader[c] ELSE writer[c])]]
Untold == IF lock = Free THEN {} ELSE todo[lock]

Registry == INSTANCE WorkerRegistry WITH
    place <- Place, pump <- Stages, announcing <- lock # Free, untold <- Untold

KeepsRegistryPromise == Registry!RegistrySpec

(* A worker whose connection is the only one ever accepted for its id is   *)
(* in the registry, so told about every change, as long as its pumps run:  *)
(* a duplicate that was rejected does not disturb it.                      *)
SoleConnection(c) ==
    \A d \in Conns : d # c /\ WorkerOf[d] = WorkerOf[c]
                        => serve[d] \in {"idle", "check", "rejected"}

SoleConnectionIsRegistered ==
    \A c \in Conns :
        /\ SoleConnection(c)
        /\ reader[c] \in {"reading", "replying"}
        /\ writer[c] = "writing"
        /\ process # "stopped" /\ process # "exited"
        => registry[WorkerOf[c]] = c

(* Liveness.                                                               *)

Full(c) == Len(egress[c]) = EgressCap

(* A broadcast that waits, with the mutex held, for a connection whose     *)
(* write pump has ended: nothing will ever drain that channel.             *)
BroadcastWedged ==
    \E a \in Admins, c \in Conns :
        lock = a /\ c \in todo[a] /\ Full(c) /\ writer[c] # "writing"

(* A read pump that waits for its own write pump, which has ended.         *)
ReaderWedged(c) == reader[c] = "replying" /\ Full(c) /\ writer[c] # "writing"

(* There is no way out of either wedge: the write pump of the connection   *)
(* is not started again, nothing else empties its channel, and nobody can  *)
(* take it off the registry.  Only Shutdown, which needs the mutex itself, *)
(* ends a read pump's wait, by closing its channel.                        *)
WedgesAreFinal ==
    [][/\ BroadcastWedged => BroadcastWedged' /\ UNCHANGED registry
       /\ \A c \in Conns :
             ReaderWedged(c) /\ ~sealed[c] => ReaderWedged(c)']_vars

Ended(c) == reader[c] = "done" /\ writer[c] = "done"

(* Once the socket of a connection is closed both its pumps end, and with  *)
(* them its registration, unless the channel filled up first: the two      *)
(* wedges above are the only ways a connection is leaked.                  *)
ConnectionsAreTornDown ==
    \A c \in Conns :
        sock[c] = "closed" /\ serve[c] = "done"
            ~> Ended(c) \/ ReaderWedged(c) \/ BroadcastWedged \/ ~Alive

(* Every broadcast gives the mutex back, with the same one exception.      *)
BroadcastsEnd ==
    \A a \in Admins : lock = a ~> lock # a \/ BroadcastWedged \/ ~Alive

-----------------------------------------------------------------------------
(* Claims of the repository that the code does not meet.                   *)

(* ws_manager.go: a configuration that cannot be sent is logged ("Failed   *)
(* to send initial configuration to worker"); it does not end the process. *)
FailedConfigIsOnlyLogged == "initial_config" \notin panics

=============================================================================

------------------------- MODULE CaptainHub_proofs -------------------------
(* Safety of the hub for every number of connections, workers and          *)
(* administrators and every channel capacity.                              *)
EXTENDS CaptainHub, TLAPS, SequenceTheorems

(* What the actions rely on besides RegisteredIsLive: pumps exist only     *)
(* after ServeWS, a channel is closed by its own read pump or by Shutdown, *)
(* a read pump past RemoveWorker is not registered, and whoever a          *)
(* broadcast has still to tell is registered.                              *)
PumpsFollowServe == \A c \in Conns : reader[c] # "off" => serve[c] = "done"

SealedFollowsServe == \A c \in Conns : sealed[c] => serve[c] = "done"

SealedByReaderOrShutdown ==
    \A c \in Conns : sealed[c] => reader[c] = "done" \/ process \in {"stopped", "exited"}

RemovedBeforeClose ==
    \A c \in Conns : reader[c] \in {"closing", "done"} => registry[WorkerOf[c]] # c

BroadcastTargets ==
    lock # Free => todo[lock] \subseteq Registered

HubInv ==
    /\ RegisteredIsLive
    /\ NoHubPanic
    /\ OnlyInitialConfigCrashes
    /\ PumpsFollowServe
    /\ SealedFollowsServe
    /\ SealedByReaderOrShutdown
    /\ RemovedBeforeClose
    /\ BroadcastTargets

-----------------------------------------------------------------------------
(* The channels stay well formed when they are left alone, sent to or read. *)
LEMMA ChannelsFrame == ASSUME ChannelsOK, UNCHANGED egress PROVE ChannelsOK'
  BY DEF ChannelsOK

LEMMA SendChannels ==
    ASSUME ChannelsOK, NEW c \in Conns, NEW e \in Events, NEW who, Send(c, e, who)
    PROVE  ChannelsOK'
<1>1. CASE sealed[c]
  BY <1>1, ChannelsFrame DEF Send
<1>2. CASE ~sealed[c]
  <2>1. egress' = [egress EXCEPT ![c] = Append(@, e)] /\ Len(egress[c]) < EgressCap
    BY <1>2 DEF Send, CanSend
  <2>2. egress[c] \in Seq(Events)
    BY DEF ChannelsOK
  <2>3. Append(egress[c], e) \in Seq(Events) /\ Len(Append(egress[c], e)) = Len(egress[c]) + 1
    BY <2>2, AppendProperties
  <2>4. Len(egress[c]) \in Nat
    BY <2>2, LenProperties
  <2>5. Len(Append(egress[c], e)) <= EgressCap
    BY <2>1, <2>3, <2>4, HubAssumption
  <2> QED
    BY <2>1, <2>3, <2>5 DEF ChannelsOK
<1> QED
  BY <1>1, <1>2

LEMMA WriteChannels ==
    ASSUME ChannelsOK, NEW c \in Conns, Write(c) PROVE ChannelsOK'
<1>1. egress[c] \in Seq(Events) /\ egress[c] # << >>
  BY DEF Write, ChannelsOK
<1>2. Tail(egress[c]) \in Seq(Events) /\ Len(Tail(egress[c])) = Len(egress[c]) - 1
  BY <1>1, HeadTailProperties
<1>3. Len(egress[c]) \in Nat /\ Len(egress[c]) <= EgressCap
  BY <1>1, LenProperties DEF ChannelsOK
<1>4. Len(Tail(egress[c])) <= EgressCap
  BY <1>2, <1>3, HubAssumption
<1> QED
  BY <1>2, <1>4 DEF Write, ChannelsOK

(* A send adds at most its own goroutine to those that have panicked.      *)
LEMMA SendPanics ==
    ASSUME NEW c, NEW e, NEW who, Send(c, e, who)
    PROVE  /\ panics' \subseteq panics \cup {who}
           /\ ~sealed[c] => panics' = panics
  BY DEF Send, Panic

(* Every reachable state is well typed: in particular no channel ever      *)
(* holds more events than its capacity.                                    *)
THEOREM TypeCorrect == Spec => []TypeOK
<1>1. Init => TypeOK
  BY HubAssumption DEF Init, TypeOK, ChannelsOK
<1>2. TypeOK /\ [Next]_vars => TypeOK'
  <2> SUFFICES ASSUME TypeOK, [Next]_vars PROVE TypeOK'
    OBVIOUS
  <2>0. /\ WorkerOf \in [Conns -> WorkerIds]
        /\ ChannelsOK
    BY HubAssumption DEF TypeOK
  <2>1. ASSUME NEW c \in Conns, Serve(c) PROVE TypeOK'
    <3>1. ChannelsOK'
      BY <2>0, <2>1, ChannelsFrame DEF Serve, Connect, CheckDuplicate, AddWorker
    <3>2. CASE Connect(c)
      BY <3>1, <3>2 DEF Connect, TypeOK
    <3>3. CASE CheckDuplicate(c)
      BY <3>1, <3>3 DEF CheckDuplicate, Reject, TypeOK
    <3>4. CASE AddWorker(c)
      BY <2>0, <3>1, <3>4 DEF AddWorker, TypeOK
    <3> QED BY <2>1, <3>2, <3>3, <3>4 DEF Serve
  <2>2. ASSUME NEW c \in Conns, QueryConfig(c) PROVE TypeOK'
    <3>1. ChannelsOK'
      BY <2>0, <2>2, ChannelsFrame DEF QueryConfig
    <3> QED BY <2>2, <3>1 DEF QueryConfig, TypeOK
  <2>3. ASSUME NEW c \in Conns, SendConfig(c) PROVE TypeOK'
    <3>1. Send(c, "config", "initial_config")
      BY <2>3 DEF SendConfig
    <3>2. ChannelsOK'
      BY <2>0, <3>1, SendChannels DEF Events
    <3>3. panics' \subseteq {"initial_config", "reader", "notify", "shutdown"}
      <4>1. panics \subseteq {"initial_config", "reader", "notify", "shutdown"}
        BY DEF TypeOK
      <4> QED BY <3>1, <4>1, SendPanics
    <3> QED BY <2>3, <3>2, <3>3 DEF SendConfig, TypeOK
  <2>4. ASSUME NEW c \in Conns, Receive(c) PROVE TypeOK'
    <3>1. ChannelsOK'
      BY <2>0, <2>4, ChannelsFrame DEF Receive
    <3> QED BY <2>4, <3>1 DEF Receive, TypeOK
  <2>5. ASSUME NEW c \in Conns, Reply(c) PROVE TypeOK'
    <3>1. Send(c, "reply", "reader") /\ "reply" \in Events
      BY <2>5 DEF Reply, Events, TypeOK
    <3>2. ChannelsOK'
      BY <2>0, <3>1, SendChannels
    <3>3. panics' \subseteq {"initial_config", "reader", "notify", "shutdown"}
      <4>1. panics \subseteq {"initial_config", "reader", "notify", "shutdown"}
        BY DEF TypeOK
      <4> QED BY <3>1, <4>1, SendPanics
    <3> QED BY <2>5, <3>2, <3>3 DEF Reply, TypeOK
  <2>6. ASSUME NEW c \in Conns, ReadFails(c) \/ ReaderRemoves(c) \/ ReaderCloses(c)
        PROVE TypeOK'
    <3>1. ChannelsOK'
      BY <2>0, <2>6, ChannelsFrame DEF ReadFails, ReaderRemoves, ReaderCloses
    <3>2. CASE ReadFails(c)
      BY <3>1, <3>2 DEF ReadFails, TypeOK
    <3>3. CASE ReaderRemoves(c)
      BY <2>0, <3>1, <3>3 DEF ReaderRemoves, RemoveWorker, Unregister, TypeOK
    <3>4. CASE ReaderCloses(c)
      BY <3>1, <3>4 DEF ReaderCloses, Panic, TypeOK
    <3> QED BY <2>6, <3>2, <3>3, <3>4
  <2>7. ASSUME NEW c \in Conns, Write(c) PROVE TypeOK'
    <3>1. ChannelsOK'
      BY <2>0, <2>7, WriteChannels
    <3> QED BY <2>7, <3>1 DEF Write, TypeOK
  <2>8. ASSUME NEW c \in Conns, WriterSeesEnd(c) \/ WriterRemoves(c) \/ LinkLost(c)
        PROVE TypeOK'
    <3>1. ChannelsOK'
      BY <2>0, <2>8, ChannelsFrame DEF WriterSeesEnd, WriterRemoves, LinkLost
    <3>2. CASE WriterSeesEnd(c)
      BY <3>1, <3>2 DEF WriterSeesEnd, TypeOK
    <3>3. CASE WriterRemoves(c)
      BY <2>0, <3>1, <3>3 DEF WriterRemoves, RemoveWorker, Unregister, TypeOK
    <3>4. CASE LinkLost(c)
      BY <3>1, <3>4 DEF LinkLost, TypeOK
    <3> QED BY <2>8, <3>2, <3>3, <3>4
  <2>9. ASSUME NEW a \in Admins, NotifyBegin(a) \/ NotifyEnd(a) PROVE TypeOK'
    <3>1. ChannelsOK'
      BY <2>0, <2>9, ChannelsFrame DEF NotifyBegin, NotifyEnd
    <3>2. CASE NotifyBegin(a)
      BY <3>1, <3>2 DEF NotifyBegin, InPool, Registered, TypeOK
    <3>3. CASE NotifyEnd(a)
      BY <3>1, <3>3 DEF NotifyEnd, TypeOK
    <3> QED BY <2>9, <3>2, <3>3
  <2>10. ASSUME NEW a \in Admins, NEW c \in Conns, NotifySend(a, c) PROVE TypeOK'
    <3>1. Send(c, "change", "notify") /\ "change" \in Events
      BY <2>10 DEF NotifySend, Events
    <3>2. ChannelsOK'
      BY <2>0, <3>1, SendChannels
    <3>3. panics' \subseteq {"initial_config", "reader", "notify", "shutdown"}
      <4>1. panics \subseteq {"initial_config", "reader", "notify", "shutdown"}
        BY DEF TypeOK
      <4> QED BY <3>1, <4>1, SendPanics
    <3> QED BY <2>10, <3>2, <3>3 DEF NotifySend, TypeOK
  <2>11. CASE Interrupt \/ Shutdown \/ Exit
    <3>1. ChannelsOK'
      BY <2>0, <2>11, ChannelsFrame DEF Interrupt, Shutdown, Exit
    <3>2. CASE Interrupt \/ Exit
      BY <3>1, <3>2 DEF Interrupt, Exit, TypeOK
    <3>3. CASE Shutdown
      <4>1. panics' \subseteq {"initial_config", "reader", "notify", "shutdown"}
        BY <3>3 DEF Shutdown, Panic, TypeOK
      <4>2. /\ registry' \in [WorkerIds -> Conns \cup {NoConn}]
            /\ sock' \in [Conns -> {"none", "open", "closed"}]
            /\ sealed' \in [Conns -> BOOLEAN]
            /\ process' \in {"serving", "draining", "stopped", "exited"}
        <5>1. CASE \E c \in Registered : sealed[c]
          BY <3>3, <5>1 DEF Shutdown, TypeOK
        <5>2. CASE ~\E c \in Registered : sealed[c]
          <6>1. /\ sock' = [c \in Conns |-> IF c \in Registered THEN "closed" ELSE sock[c]]
                /\ sealed' = [c \in Conns |-> sealed[c] \/ c \in Registered]
                /\ registry' = [w \in WorkerIds |-> NoConn]
                /\ process' = "stopped"
            BY <3>3, <5>2 DEF Shutdown
          <6>2. sealed' \in [Conns -> BOOLEAN]
            BY <6>1
          <6> QED BY <6>1, <6>2 DEF TypeOK
        <5> QED BY <5>1, <5>2
      <4> QED BY <3>1, <3>3, <4>1, <4>2 DEF Shutdown, TypeOK
    <3> QED BY <2>11, <3>2, <3>3
  <2>12. CASE UNCHANGED vars
    <3>1. ChannelsOK'
      BY <2>0, <2>12, ChannelsFrame DEF vars
    <3> QED BY <2>12, <3>1 DEF vars, TypeOK
  <2> QED
    BY <2>1, <2>2, <2>3, <2>4, <2>5, <2>6, <2>7, <2>8, <2>9, <2>10, <2>11, <2>12
    DEF Next, Config, Reader, Writer, Notify
<1> QED
  BY <1>1, <1>2, PTL DEF Spec

-----------------------------------------------------------------------------
(* The registry names w's own connection, and nobody else's, under w.      *)
LEMMA RegisteredMeaning ==
    ASSUME RegisteredIsLive, NEW c \in Registered
    PROVE  registry[WorkerOf[c]] = c /\ ~sealed[c] /\ serve[c] = "done"
  BY DEF RegisteredIsLive, Registered

LEMMA HubInit == Init => HubInv
  BY HubAssumption
  DEF Init, HubInv, RegisteredIsLive, NoHubPanic, OnlyInitialConfigCrashes,
      PumpsFollowServe, SealedFollowsServe, SealedByReaderOrShutdown,
      RemovedBeforeClose, BroadcastTargets

(* A step of the hub's goroutines preserves the invariant.  The registry   *)
(* shrinks or grows only while no broadcast is under way, and a read pump  *)
(* closes its channel only after it has left the registry.                 *)
LEMMA HubStep == TypeOK /\ HubInv /\ [Next]_vars => HubInv'
<1> SUFFICES ASSUME TypeOK, HubInv, [Next]_vars PROVE HubInv'
  OBVIOUS
<1> USE DEF HubInv
<1>0. /\ WorkerOf \in [Conns -> WorkerIds]
      /\ NoConn \notin Conns
      /\ Free \notin Admins
      /\ registry \in [WorkerIds -> Conns \cup {NoConn}]
      /\ sealed \in [Conns -> BOOLEAN]
      /\ serve \in [Conns -> {"idle", "check", "add", "done", "rejected"}]
      /\ reader \in [Conns -> {"off", "reading", "replying", "removing", "closing", "done"}]
      /\ todo \in [Admins -> SUBSET Conns]
      /\ lock \in Admins \cup {Free}
  BY HubAssumption DEF TypeOK
<1>1. ASSUME NEW c \in Conns, Connect(c) \/ CheckDuplicate(c) PROVE HubInv'
  <2>1. /\ UNCHANGED <<registry, lock, sealed, reader, todo, process, panics>>
        /\ serve[c] \in {"idle", "check"}
        /\ \E s \in {"check", "add", "rejected"} : serve' = [serve EXCEPT ![c] = s]
    BY <1>1 DEF Connect, CheckDuplicate, Reject
  <2>2. \A d \in Conns : serve[d] = "done" => serve'[d] = "done"
    BY <1>0, <2>1
  <2>3. RegisteredIsLive'
    BY <1>0, <2>1, <2>2 DEF RegisteredIsLive
  <2>4. PumpsFollowServe' /\ SealedFollowsServe'
    BY <2>1, <2>2 DEF PumpsFollowServe, SealedFollowsServe
  <2> QED BY <2>1, <2>3, <2>4 DEF NoHubPanic, OnlyInitialConfigCrashes,
             SealedByReaderOrShutdown, RemovedBeforeClose, BroadcastTargets, Registered
<1>2. ASSUME NEW c \in Conns, AddWorker(c) PROVE HubInv'
  <2>1. /\ serve[c] = "add" /\ lock = Free
        /\ registry' = [registry EXCEPT ![WorkerOf[c]] = c]
        /\ serve' = [serve EXCEPT ![c] = "done"]
        /\ reader' = [reader EXCEPT ![c] = "reading"]
        /\ UNCHANGED <<lock, sealed, todo, process, panics>>
    BY <1>2 DEF AddWorker
  <2>2. ~sealed[c] /\ reader[c] = "off"
    BY <1>0, <2>1 DEF PumpsFollowServe, SealedFollowsServe
  <2>3. RegisteredIsLive'
    BY <1>0, <2>1, <2>2 DEF RegisteredIsLive
  <2>4. PumpsFollowServe' /\ SealedFollowsServe'
    BY <1>0, <2>1 DEF PumpsFollowServe, SealedFollowsServe
  <2>5. SealedByReaderOrShutdown'
    BY <1>0, <2>1, <2>2 DEF SealedByReaderOrShutdown
  <2>6. RemovedBeforeClose'
    BY <1>0, <2>1, <2>2 DEF RemovedBeforeClose
  <2> QED BY <2>1, <2>3, <2>4, <2>5, <2>6
          DEF NoHubPanic, OnlyInitialConfigCrashes, BroadcastTargets
<1>3. ASSUME NEW c \in Conns, Config(c) PROVE HubInv'
  <2>1. UNCHANGED <<registry, lock, sealed, serve, reader, todo, process>>
    BY <1>3 DEF Config, QueryConfig, SendConfig
  <2>2. panics' \subseteq panics \cup {"initial_config"}
    BY <1>3, SendPanics DEF Config, QueryConfig, SendConfig
  <2>3. NoHubPanic' /\ OnlyInitialConfigCrashes'
    BY <2>1, <2>2 DEF NoHubPanic, OnlyInitialConfigCrashes
  <2> QED BY <2>1, <2>3 DEF RegisteredIsLive, PumpsFollowServe, SealedFollowsServe,
             SealedByReaderOrShutdown, RemovedBeforeClose, BroadcastTargets, Registered
<1>4. ASSUME NEW c \in Conns, Receive(c) \/ ReadFails(c) PROVE HubInv'
  <2>1. /\ UNCHANGED <<registry, lock, sealed, serve, todo, process, panics>>
        /\ reader[c] = "reading"
        /\ \E r \in {"replying", "removing"} : reader' = [reader EXCEPT ![c] = r]
    BY <1>4 DEF Receive, ReadFails
  <2>2. PumpsFollowServe' /\ SealedByReaderOrShutdown' /\ RemovedBeforeClose'
    BY <1>0, <2>1 DEF PumpsFollowServe, SealedByReaderOrShutdown, RemovedBeforeClose
  <2> QED BY <2>1, <2>2 DEF RegisteredIsLive, NoHubPanic, OnlyInitialConfigCrashes,
             SealedFollowsServe, BroadcastTargets, Registered
<1>5. ASSUME NEW c \in Conns, Reply(c) PROVE HubInv'
  <2>1. /\ UNCHANGED <<registry, lock, sealed, serve, todo, process>>
        /\ reader[c] = "replying"
        /\ reader' = [reader EXCEPT ![c] = "reading"]
        /\ Alive
        /\ Send(c, "reply", "reader")
    BY <1>5 DEF Reply
  <2>2. PumpsFollowServe' /\ SealedByReaderOrShutdown' /\ RemovedBeforeClose'
    BY <1>0, <2>1 DEF PumpsFollowServe, SealedByReaderOrShutdown, RemovedBeforeClose
  <2>3. panics' \subseteq panics \cup {"reader"} /\ (~sealed[c] => panics' = panics)
    BY <2>1, SendPanics
  <2>4. sealed[c] => process = "stopped"
    BY <1>0, <2>1 DEF SealedByReaderOrShutdown, Alive
  <2>5. NoHubPanic' /\ OnlyInitialConfigCrashes'
    BY <2>1, <2>3, <2>4 DEF NoHubPanic, OnlyInitialConfigCrashes
  <2> QED BY <2>1, <2>2, <2>5 DEF RegisteredIsLive, SealedFollowsServe,
             BroadcastTargets, Registered
<1>6. ASSUME NEW c \in Conns, ReaderRemoves(c) \/ WriterRemoves(c) PROVE HubInv'
  <2>1. /\ lock = Free
        /\ registry' = [registry EXCEPT ![WorkerOf[c]] = NoConn]
        /\ UNCHANGED <<lock, sealed, serve, todo, process, panics>>
        /\ reader' = reader \/ (reader[c] = "removing" /\ reader' = [reader EXCEPT ![c] = "closing"])
    BY <1>6 DEF ReaderRemoves, WriterRemoves, RemoveWorker, Unregister
  <2>2. RegisteredIsLive'
    BY <1>0, <2>1 DEF RegisteredIsLive
  <2>3. PumpsFollowServe' /\ SealedByReaderOrShutdown'
    BY <1>0, <2>1 DEF PumpsFollowServe, SealedByReaderOrShutdown
  <2>4. RemovedBeforeClose'
    BY <1>0, <2>1 DEF RemovedBeforeClose
  <2> QED BY <2>1, <2>2, <2>3, <2>4 DEF NoHubPanic, OnlyInitialConfigCrashes,
             SealedFollowsServe, BroadcastTargets
<1>7. ASSUME NEW c \in Conns, ReaderCloses(c) PROVE HubInv'
  <2>1. /\ Alive
        /\ reader[c] = "closing"
        /\ panics' = IF sealed[c] THEN panics \cup {"reader"} ELSE panics
        /\ sealed' = [sealed EXCEPT ![c] = TRUE]
        /\ reader' = [reader EXCEPT ![c] = "done"]
        /\ UNCHANGED <<registry, lock, serve, todo, process>>
    BY <1>7 DEF ReaderCloses, Panic
  <2>2. registry[WorkerOf[c]] # c /\ serve[c] = "done"
    BY <1>0, <2>1 DEF RemovedBeforeClose, PumpsFollowServe
  <2>3. RegisteredIsLive'
    BY <1>0, <2>1, <2>2 DEF RegisteredIsLive
  <2>4. PumpsFollowServe' /\ SealedFollowsServe' /\ SealedByReaderOrShutdown'
    BY <1>0, <2>1, <2>2 DEF PumpsFollowServe, SealedFollowsServe, SealedByReaderOrShutdown
  <2>5. RemovedBeforeClose'
    BY <1>0, <2>1, <2>2 DEF RemovedBeforeClose
  <2>6. sealed[c] => process = "stopped"
    BY <1>0, <2>1 DEF SealedByReaderOrShutdown, Alive
  <2>7. NoHubPanic' /\ OnlyInitialConfigCrashes'
    BY <2>1, <2>6 DEF NoHubPanic, OnlyInitialConfigCrashes
  <2> QED BY <2>1, <2>3, <2>4, <2>5, <2>7 DEF BroadcastTargets, Registered
<1>8. ASSUME NEW c \in Conns, Write(c) \/ WriterSeesEnd(c) \/ LinkLost(c) PROVE HubInv'
  <2>1. UNCHANGED <<registry, lock, sealed, serve, reader, todo, process, panics>>
    BY <1>8 DEF Write, WriterSeesEnd, LinkLost
  <2> QED BY <2>1 DEF RegisteredIsLive, NoHubPanic, OnlyInitialConfigCrashes,
             PumpsFollowServe, SealedFollowsServe, SealedByReaderOrShutdown,
             RemovedBeforeClose, BroadcastTargets, Registered
<1>9. ASSUME NEW a \in Admins, NotifyBegin(a) \/ NotifyEnd(a) PROVE HubInv'
  <2>1. UNCHANGED <<registry, sealed, serve, reader, process, panics>>
    BY <1>9 DEF NotifyBegin, NotifyEnd
  <2>2. BroadcastTargets'
    BY <1>0, <1>9 DEF NotifyBegin, NotifyEnd, InPool, BroadcastTargets, Registered
  <2> QED BY <2>1, <2>2 DEF RegisteredIsLive, NoHubPanic, OnlyInitialConfigCrashes,
             PumpsFollowServe, SealedFollowsServe, SealedByReaderOrShutdown,
             RemovedBeforeClose
<1>10. ASSUME NEW a \in Admins, NEW c \in Conns, NotifySend(a, c) PROVE HubInv'
  <2>1. /\ lock = a /\ c \in todo[a]
        /\ Send(c, "change", "notify")
        /\ UNCHANGED <<registry, sealed, serve, reader, process>>
    BY <1>10 DEF NotifySend
  <2>2. c \in Registered
    BY <1>0, <2>1 DEF BroadcastTargets
  <2>3. ~sealed[c]
    BY <2>2, RegisteredMeaning
  <2>4. UNCHANGED panics
    BY <2>1, <2>3, SendPanics
  <2>5. todo' = [todo EXCEPT ![a] = @ \ {c}] /\ UNCHANGED lock
    BY <1>10, <2>3 DEF NotifySend
  <2>6. BroadcastTargets'
    BY <1>0, <2>1, <2>5 DEF BroadcastTargets, Registered
  <2> QED BY <2>1, <2>4, <2>6 DEF RegisteredIsLive, NoHubPanic, OnlyInitialConfigCrashes,
             PumpsFollowServe, SealedFollowsServe, SealedByReaderOrShutdown,
             RemovedBeforeClose
<1>11. CASE Interrupt \/ Exit
  <2>1. /\ UNCHANGED <<registry, lock, sealed, serve, reader, todo, panics>>
        /\ \/ process = "serving" /\ process' = "draining"
           \/ process = "stopped" /\ process' = "exited" /\ panics \subseteq {"notify"}
    BY <1>11 DEF Interrupt, Exit, Alive
  <2>2. OnlyInitialConfigCrashes'
    BY <2>1 DEF OnlyInitialConfigCrashes, NoHubPanic
  <2>3. SealedByReaderOrShutdown'
    BY <2>1 DEF SealedByReaderOrShutdown
  <2> QED BY <2>1, <2>2, <2>3 DEF RegisteredIsLive, NoHubPanic, PumpsFollowServe,
             SealedFollowsServe, RemovedBeforeClose, BroadcastTargets, Registered
<1>12. CASE Shutdown
  <2>1. ~\E c \in Registered : sealed[c]
    BY RegisteredMeaning
  <2>2. /\ lock = Free
        /\ sealed' = [c \in Conns |-> sealed[c] \/ c \in Registered]
        /\ registry' = [w \in WorkerIds |-> NoConn]
        /\ process' = "stopped"
        /\ UNCHANGED <<lock, serve, reader, todo, panics>>
    BY <1>12, <2>1 DEF Shutdown
  <2>3. RegisteredIsLive' /\ RemovedBeforeClose'
    BY <1>0, <2>2 DEF RegisteredIsLive, RemovedBeforeClose
  <2>4. SealedFollowsServe'
    BY <1>0, <2>2, RegisteredMeaning DEF SealedFollowsServe
  <2> QED BY <2>2, <2>3, <2>4 DEF NoHubPanic, OnlyInitialConfigCrashes,
             PumpsFollowServe, SealedByReaderOrShutdown, BroadcastTargets
<1>13. CASE UNCHANGED vars
  BY <1>13 DEF vars, RegisteredIsLive, NoHubPanic, OnlyInitialConfigCrashes,
     PumpsFollowServe, SealedFollowsServe, SealedByReaderOrShutdown,
     RemovedBeforeClose, BroadcastTargets, Registered
<1> QED
  BY <1>1, <1>2, <1>3, <1>4, <1>5, <1>6, <1>7, <1>8, <1>9, <1>10, <1>11, <1>12, <1>13
  DEF Next, Serve, Reader, Writer, Notify

(* In every reachable state what the registry names is alive and filed     *)
(* under its own worker, no broadcast or Shutdown touches a closed         *)
(* channel, and before Shutdown only the initial-configuration goroutine   *)
(* can crash the captain.                                                  *)
THEOREM HubSafety ==
    Spec => [](RegisteredIsLive /\ NoHubPanic /\ OnlyInitialConfigCrashes)
<1>1. Spec => []HubInv
  BY TypeCorrect, HubInit, HubStep, PTL DEF Spec
<1>2. HubInv => RegisteredIsLive /\ NoHubPanic /\ OnlyInitialConfigCrashes
  BY DEF HubInv
<1> QED
  BY <1>1, <1>2, PTL

(* Neither a broadcast nor Shutdown ever sends on a closed channel or      *)
(* closes one twice, and before Shutdown nothing but the goroutine of an   *)
(* initial configuration can end the captain with a panic.                 *)
THEOREM CrashesHaveCauses == Spec => []CrashesOnlyByCause
<1>1. RegisteredIsLive /\ NoHubPanic /\ OnlyInitialConfigCrashes => CrashesOnlyByCause
  BY DEF CrashesOnlyByCause
<1> QED
  BY <1>1, HubSafety, PTL

-----------------------------------------------------------------------------
(* A connection that is the only one ever accepted for its worker stays    *)
(* registered while its pumps run.                                         *)
WriterFollowsServe == \A c \in Conns : writer[c] # "off" => serve[c] = "done"

SoleInv == WriterFollowsServe /\ SoleConnectionIsRegistered

(* A step that leaves the registry alone, starts no pump and takes back no *)
(* ServeWS.                                                                *)
LEMMA SoleFrame ==
    ASSUME SoleInv, UNCHANGED registry,
           process' \notin {"stopped", "exited"} => process \notin {"stopped", "exited"},
           \A c \in Conns :
              /\ reader'[c] \in {"reading", "replying"} => reader[c] \in {"reading", "replying"}
              /\ writer'[c] = "writing" => writer[c] = "writing"
              /\ writer'[c] # "off" => writer[c] # "off"
              /\ serve'[c] \in {"idle", "check", "rejected"} => serve[c] \in {"idle", "check", "rejected"}
              /\ serve[c] = "done" => serve'[c] = "done"
    PROVE  SoleInv'
<1>1. WriterFollowsServe'
  BY DEF SoleInv, WriterFollowsServe
<1>2. \A c \in Conns : SoleConnection(c)' => SoleConnection(c)
  BY DEF SoleConnection
<1>3. SoleConnectionIsRegistered'
  BY <1>2 DEF SoleInv, SoleConnectionIsRegistered
<1> QED
  BY <1>1, <1>3 DEF SoleInv

(* Only the connection's own pumps could remove it, and they are running.  *)
LEMMA SoleRemove ==
    ASSUME TypeOK, PumpsFollowServe, SoleInv,
           NEW c \in Conns, ReaderRemoves(c) \/ WriterRemoves(c)
    PROVE  SoleInv'
<1> USE DEF SoleInv
<1>0. WorkerOf \in [Conns -> WorkerIds] /\ registry \in [WorkerIds -> Conns \cup {NoConn}]
  BY HubAssumption DEF TypeOK
<1>1. registry' = [registry EXCEPT ![WorkerOf[c]] = NoConn] /\ UNCHANGED <<serve, process>>
  BY DEF ReaderRemoves, WriterRemoves, RemoveWorker, Unregister
<1>2. \/ reader[c] = "removing" /\ reader' = [reader EXCEPT ![c] = "closing"] /\ writer' = writer
      \/ writer[c] = "removing" /\ writer' = [writer EXCEPT ![c] = "done"] /\ reader' = reader
  BY DEF ReaderRemoves, WriterRemoves
<1>3. reader \in [Conns -> {"off", "reading", "replying", "removing", "closing", "done"}]
      /\ writer \in [Conns -> {"off", "writing", "removing", "done"}]
  BY DEF TypeOK
<1>4. serve[c] = "done"
  BY <1>2 DEF PumpsFollowServe, WriterFollowsServe
<1>5. WriterFollowsServe'
  BY <1>1, <1>2, <1>3 DEF WriterFollowsServe
<1>6. ASSUME NEW d \in Conns, SoleConnection(d)', reader'[d] \in {"reading", "replying"},
             writer'[d] = "writing", process' # "stopped" /\ process' # "exited"
      PROVE  registry'[WorkerOf[d]] = d
  <2>1. SoleConnection(d)
    BY <1>1, <1>6 DEF SoleConnection
  <2>2. d # c
    BY <1>2, <1>3, <1>6
  <2>3. WorkerOf[d] # WorkerOf[c]
    BY <1>4, <2>1, <2>2 DEF SoleConnection
  <2>4. reader[d] \in {"reading", "replying"} /\ writer[d] = "writing"
    BY <1>2, <1>3, <1>6, <2>2
  <2>5. registry[WorkerOf[d]] = d
    BY <1>1, <1>6, <2>1, <2>4 DEF SoleConnectionIsRegistered
  <2> QED
    BY <1>0, <1>1, <2>3, <2>5
<1> QED
  BY <1>5, <1>6 DEF SoleConnectionIsRegistered

LEMMA SoleAdd ==
    ASSUME TypeOK, SoleInv, NEW c \in Conns, AddWorker(c) PROVE SoleInv'
<1> USE DEF SoleInv
<1>0. WorkerOf \in [Conns -> WorkerIds] /\ registry \in [WorkerIds -> Conns \cup {NoConn}]
      /\ serve \in [Conns -> {"idle", "check", "add", "done", "rejected"}]
      /\ reader \in [Conns -> {"off", "reading", "replying", "removing", "closing", "done"}]
      /\ writer \in [Conns -> {"off", "writing", "removing", "done"}]
  BY HubAssumption DEF TypeOK
<1>1. /\ serve' = [serve EXCEPT ![c] = "done"]
      /\ registry' = [registry EXCEPT ![WorkerOf[c]] = c]
      /\ reader' = [reader EXCEPT ![c] = "reading"]
      /\ writer' = [writer EXCEPT ![c] = "writing"]
      /\ UNCHANGED process
  BY DEF AddWorker
<1>2. WriterFollowsServe'
  BY <1>0, <1>1 DEF WriterFollowsServe
<1>3. ASSUME NEW d \in Conns, SoleConnection(d)', reader'[d] \in {"reading", "replying"},
             writer'[d] = "writing", process' # "stopped" /\ process' # "exited"
      PROVE  registry'[WorkerOf[d]] = d
  <2>1. CASE d = c
    BY <1>0, <1>1, <2>1
  <2>2. CASE d # c
    <3>1. serve'[c] = "done"
      BY <1>0, <1>1
    <3>2. WorkerOf[d] # WorkerOf[c]
      BY <1>3, <2>2, <3>1 DEF SoleConnection
    <3>3. SoleConnection(d)
      BY <1>0, <1>1, <1>3, <3>2 DEF SoleConnection
    <3>4. registry[WorkerOf[d]] = d
      BY <1>0, <1>1, <1>3, <2>2, <3>3 DEF SoleConnectionIsRegistered
    <3> QED
      BY <1>0, <1>1, <3>2, <3>4
  <2> QED
    BY <2>1, <2>2
<1> QED
  BY <1>2, <1>3 DEF SoleConnectionIsRegistered

LEMMA SoleStep ==
    ASSUME TypeOK, HubInv, SoleInv, [Next]_vars PROVE SoleInv'
<1>0. /\ serve \in [Conns -> {"idle", "check", "add", "done", "rejected"}]
      /\ reader \in [Conns -> {"off", "reading", "replying", "removing", "closing", "done"}]
      /\ writer \in [Conns -> {"off", "writing", "removing", "done"}]
  BY DEF TypeOK
<1>1. ASSUME NEW c \in Conns, Connect(c) \/ CheckDuplicate(c) PROVE SoleInv'
  <2>1. /\ UNCHANGED <<registry, reader, writer, process>>
        /\ serve[c] \in {"idle", "check"}
        /\ \E s \in {"check", "add", "rejected"} : serve' = [serve EXCEPT ![c] = s]
    BY <1>1 DEF Connect, CheckDuplicate, Reject
  <2> QED
    BY <1>0, <2>1, SoleFrame
<1>2. ASSUME NEW c \in Conns, Config(c) \/ LinkLost(c) PROVE SoleInv'
  BY <1>2, SoleFrame DEF Config, QueryConfig, SendConfig, LinkLost
<1>3. ASSUME NEW c \in Conns, Receive(c) \/ Reply(c) \/ ReadFails(c) \/ ReaderCloses(c) PROVE SoleInv'
  <2>1. /\ UNCHANGED <<registry, serve, writer, process>>
        /\ \/ reader[c] \in {"reading", "replying"}
           \/ reader'[c] = "done"
        /\ \A d \in Conns \ {c} : reader'[d] = reader[d]
    BY <1>0, <1>3 DEF Receive, Reply, ReadFails, ReaderCloses
  <2> QED
    BY <1>0, <2>1, SoleFrame
<1>4. ASSUME NEW c \in Conns, Write(c) \/ WriterSeesEnd(c) PROVE SoleInv'
  <2>1. /\ UNCHANGED <<registry, serve, reader, process>>
        /\ writer[c] = "writing"
        /\ \A d \in Conns \ {c} : writer'[d] = writer[d]
    BY <1>0, <1>4 DEF Write, WriterSeesEnd
  <2> QED
    BY <1>0, <2>1, SoleFrame
<1>5. ASSUME NEW c \in Conns, ReaderRemoves(c) \/ WriterRemoves(c) PROVE SoleInv'
  BY <1>5, SoleRemove DEF HubInv
<1>6. ASSUME NEW c \in Conns, AddWorker(c) PROVE SoleInv'
  BY <1>6, SoleAdd
<1>7. ASSUME NEW a \in Admins, Notify(a) PROVE SoleInv'
  BY <1>7, SoleFrame DEF Notify, NotifyBegin, NotifyEnd, NotifySend
<1>8. CASE Shutdown
  <2>1. UNCHANGED <<serve, reader, writer>> /\ (process' = "stopped" \/ UNCHANGED <<registry, process>>)
    BY <1>8 DEF Shutdown
  <2> QED
    BY <2>1, SoleFrame DEF SoleInv, WriterFollowsServe, SoleConnectionIsRegistered
<1>9. CASE Interrupt \/ Exit \/ UNCHANGED vars
  BY <1>9, SoleFrame DEF Interrupt, Exit, vars
<1> QED
  BY <1>1, <1>2, <1>3, <1>4, <1>5, <1>6, <1>7, <1>8, <1>9 DEF Next, Serve, Reader, Writer

(* Rejected duplicates do not disturb the connection that stays: it is in  *)
(* the registry as long as its pumps run.                                  *)
THEOREM SoleStaysRegistered == Spec => []SoleConnectionIsRegistered
<1>1. Spec => []HubInv
  BY TypeCorrect, HubInit, HubStep, PTL DEF Spec
<1>2. Init => SoleInv
  BY DEF Init, SoleInv, WriterFollowsServe, SoleConnectionIsRegistered
<1>3. TypeOK /\ HubInv /\ SoleInv /\ [Next]_vars => SoleInv'
  BY SoleStep
<1>4. SoleInv => SoleConnectionIsRegistered
  BY DEF SoleInv
<1> QED
  BY TypeCorrect, <1>1, <1>2, <1>3, <1>4, PTL DEF Spec

(* No connection is registered or removed while a broadcast is under way.  *)
THEOREM BroadcastStability == Spec => RegistryStableDuringBroadcast
<1>1. [Next]_vars => [lock # Free /\ lock' = lock => UNCHANGED registry]_vars
  BY DEF Next, Serve, Connect, CheckDuplicate, Reject, AddWorker, Config, QueryConfig,
     SendConfig, Reader, Receive, Reply, ReadFails, ReaderRemoves, ReaderCloses,
     Writer, Write, WriterSeesEnd, WriterRemoves, RemoveWorker, Unregister, LinkLost,
     Notify, NotifyBegin, NotifySend, NotifyEnd, Interrupt, Shutdown, Exit, vars
<1> QED
  BY <1>1, PTL DEF Spec, RegistryStableDuringBroadcast

-----------------------------------------------------------------------------
(* The hub implements WorkerRegistry.  What the abstract registry sees of  *)
(* a state, and the steps that change none of it.                          *)
LEMMA ListedMeaning ==
    ASSUME TypeOK, RegisteredIsLive
    PROVE  /\ \A c \in Conns : Place[c] = "listed" <=> registry[WorkerOf[c]] = c
           /\ Registry!Listed = Registered
<1>0. WorkerOf \in [Conns -> WorkerIds] /\ registry \in [WorkerIds -> Conns \cup {NoConn}]
      /\ NoConn \notin Conns
  BY HubAssumption DEF TypeOK
<1>1. \A c \in Conns : registry[WorkerOf[c]] = c => serve[c] = "done"
  BY <1>0 DEF RegisteredIsLive
<1>2. \A c \in Conns : Place[c] = "listed" <=> registry[WorkerOf[c]] = c
  BY <1>1 DEF Place, PlaceOf
<1>3. \A c \in Conns : registry[WorkerOf[c]] = c <=> c \in Registered
  BY <1>0 DEF Registered, RegisteredIsLive
<1>4. Registered \subseteq Conns
  BY <1>0 DEF Registered
<1>5. Registry!Listed = Registered
  BY <1>2, <1>3, <1>4 DEF Registry!Listed
<1> QED
  BY <1>2, <1>5

LEMMA PlaceFrame == ASSUME UNCHANGED <<registry, serve>> PROVE Place' = Place
  BY DEF Place, PlaceOf

LEMMA StagesFrame == ASSUME UNCHANGED <<reader, writer>> PROVE Stages' = Stages
  BY DEF Stages, StageOf

LEMMA StagesSame ==
    ASSUME \A c \in Conns : /\ StageOf(reader'[c]) = StageOf(reader[c])
                             /\ StageOf(writer'[c]) = StageOf(writer[c])
    PROVE  Stages' = Stages
<1>1. \A c \in Conns, p \in {"read", "write"} :
         StageOf(IF p = "read" THEN reader'[c] ELSE writer'[c])
           = StageOf(IF p = "read" THEN reader[c] ELSE writer[c])
  OBVIOUS
<1> QED
  BY <1>1 DEF Stages, StageOf

LEMMA UntoldFrame == ASSUME UNCHANGED <<lock, todo>> PROVE Untold' = Untold
  BY DEF Untold

(* What RemoveWorker does to the list.                                     *)
LEMMA UnregisterDelists ==
    ASSUME TypeOK, RegisteredIsLive, NEW c \in Conns, Unregister(c), UNCHANGED serve
    PROVE  Place' = Registry!Delisted(Registry!OfSameWorker(c))
<1>0. WorkerOf \in [Conns -> WorkerIds] /\ registry \in [WorkerIds -> Conns \cup {NoConn}]
      /\ NoConn \notin Conns
  BY HubAssumption DEF TypeOK
<1>1. registry' = [registry EXCEPT ![WorkerOf[c]] = NoConn]
  BY DEF Unregister
<1>2. ASSUME NEW d \in Conns
      PROVE  PlaceOf(d)' = IF d \in Registry!Listed \cap Registry!OfSameWorker(c)
                           THEN "gone" ELSE Place[d]
  <2>1. d \in Registry!Listed <=> registry[WorkerOf[d]] = d
    BY ListedMeaning DEF Registry!Listed
  <2>2. d \in Registry!OfSameWorker(c) <=> WorkerOf[d] = WorkerOf[c]
    BY DEF Registry!OfSameWorker
  <2>3. Place[d] = PlaceOf(d)
    BY DEF Place
  <2>4. registry[WorkerOf[d]] = d => serve[d] = "done"
    BY <1>0 DEF RegisteredIsLive
  <2>5. registry'[WorkerOf[d]] = IF WorkerOf[d] = WorkerOf[c] THEN NoConn ELSE registry[WorkerOf[d]]
    BY <1>0, <1>1
  <2> QED
    BY <1>0, <2>1, <2>2, <2>3, <2>4, <2>5 DEF PlaceOf
<1> QED
  BY <1>2 DEF Place, Registry!Delisted

(* A pump's step, seen by the abstract registry.                           *)
LEMMA ReaderStage ==
    ASSUME TypeOK, NEW c \in Conns, NEW r, reader' = [reader EXCEPT ![c] = r], UNCHANGED writer
    PROVE  Stages' = [Stages EXCEPT ![c]["read"] = StageOf(r)]
<1>1. reader \in [Conns -> {"off", "reading", "replying", "removing", "closing", "done"}]
  BY DEF TypeOK
<1> QED
  BY <1>1 DEF Stages

LEMMA WriterStage ==
    ASSUME TypeOK, NEW c \in Conns, NEW r, writer' = [writer EXCEPT ![c] = r], UNCHANGED reader
    PROVE  Stages' = [Stages EXCEPT ![c]["write"] = StageOf(r)]
<1>1. writer \in [Conns -> {"off", "writing", "removing", "done"}]
  BY DEF TypeOK
<1> QED
  BY <1>1 DEF Stages

(* Every step of the hub is a step of the abstract registry or changes     *)
(* nothing it sees: the duplicate check admits or refuses, AddWorker lists,*)
(* RemoveWorker takes a worker off the list, a broadcast announces, tells  *)
(* and finishes, and a panic of Shutdown or of a broadcast does not occur. *)
LEMMA ServeKeepsPromise ==
    ASSUME TypeOK, HubInv, NEW c \in Conns, Serve(c)
    PROVE  [Registry!RegistryNext]_(Registry!registryVars)
<1> USE DEF HubInv
<1>0. /\ WorkerOf \in [Conns -> WorkerIds]
      /\ NoConn \notin Conns
      /\ registry \in [WorkerIds -> Conns \cup {NoConn}]
      /\ serve \in [Conns -> {"idle", "check", "add", "done", "rejected"}]
      /\ reader \in [Conns -> {"off", "reading", "replying", "removing", "closing", "done"}]
      /\ writer \in [Conns -> {"off", "writing", "removing", "done"}]
  BY HubAssumption DEF TypeOK
<1>1. ASSUME Connect(c) PROVE UNCHANGED Registry!registryVars
  <2>1. /\ serve[c] = "idle" /\ serve' = [serve EXCEPT ![c] = "check"]
        /\ UNCHANGED <<registry, lock, reader, writer, todo>>
    BY <1>1 DEF Connect
  <2>2. Place' = Place
    BY <1>0, <2>1 DEF Place, PlaceOf
  <2> QED
    BY <2>1, <2>2, StagesFrame, UntoldFrame DEF Registry!registryVars
<1>2. ASSUME CheckDuplicate(c) PROVE Registry!Admit(c) \/ Registry!Refuse(c)
  <2>1. /\ serve[c] = "check" /\ lock = Free
        /\ UNCHANGED <<registry, lock, reader, writer, todo>>
    BY <1>2 DEF CheckDuplicate, Reject
  <2>2. Place[c] = "new" /\ UNCHANGED <<Stages, Untold, lock # Free>>
    BY <2>1, StagesFrame, UntoldFrame DEF Place, PlaceOf
  <2>3. Registry!Listed \cap Registry!OfSameWorker(c) = {} <=> registry[WorkerOf[c]] = NoConn
    BY <1>0, ListedMeaning DEF Registry!OfSameWorker, Registered, RegisteredIsLive
  <2>4. \A d \in Conns : registry[WorkerOf[d]] = d => serve[d] = "done"
    BY <1>0 DEF RegisteredIsLive
  <2>5. CASE registry[WorkerOf[c]] = NoConn
    <3>1. serve' = [serve EXCEPT ![c] = "add"]
      BY <1>2, <2>5 DEF CheckDuplicate
    <3>2. Place' = [Place EXCEPT ![c] = "admitted"]
      BY <1>0, <2>1, <3>1 DEF Place, PlaceOf
    <3> QED
      BY <2>1, <2>2, <2>3, <2>5, <3>2 DEF Registry!Admit
  <2>6. CASE registry[WorkerOf[c]] # NoConn
    <3>1. serve' = [serve EXCEPT ![c] = "rejected"]
      BY <1>2, <2>6 DEF CheckDuplicate
    <3>2. registry[WorkerOf[c]] # c
      BY <2>1, <2>4
    <3>3. Place' = [Place EXCEPT ![c] = "gone"]
      BY <1>0, <2>1, <3>1, <3>2 DEF Place, PlaceOf
    <3> QED
      BY <2>1, <2>2, <2>3, <2>6, <3>3 DEF Registry!Refuse
  <2> QED
    BY <2>5, <2>6
<1>3. ASSUME AddWorker(c) PROVE Registry!List(c)
  <2>1. /\ serve[c] = "add" /\ lock = Free
        /\ serve' = [serve EXCEPT ![c] = "done"]
        /\ registry' = [registry EXCEPT ![WorkerOf[c]] = c]
        /\ reader' = [reader EXCEPT ![c] = "reading"]
        /\ writer' = [writer EXCEPT ![c] = "writing"]
        /\ UNCHANGED <<lock, todo>>
    BY <1>3 DEF AddWorker
  <2>2. Place[c] = "admitted" /\ UNCHANGED <<Untold, lock # Free>>
    BY <2>1, UntoldFrame DEF Place, PlaceOf
  <2>3. Stages' = [Stages EXCEPT ![c] = [p \in Registry!Pumps |-> "on"]]
    BY <1>0, <2>1 DEF Stages, StageOf, Registry!Pumps
  <2>4. ASSUME NEW d \in Conns
        PROVE  PlaceOf(d)' = [Registry!Delisted(Registry!OfSameWorker(c)) EXCEPT ![c] = "listed"][d]
    <3>1. d \in Registry!Listed <=> registry[WorkerOf[d]] = d
      BY ListedMeaning DEF Registry!Listed
    <3>2. d \in Registry!OfSameWorker(c) <=> WorkerOf[d] = WorkerOf[c]
      BY DEF Registry!OfSameWorker
    <3>3. registry[WorkerOf[d]] = d => serve[d] = "done"
      BY <1>0 DEF RegisteredIsLive
    <3>4. Registry!Delisted(Registry!OfSameWorker(c))[d] =
            IF registry[WorkerOf[d]] = d /\ WorkerOf[d] = WorkerOf[c] THEN "gone" ELSE PlaceOf(d)
      BY <3>1, <3>2 DEF Registry!Delisted, Place
    <3>5. registry'[WorkerOf[d]] = IF WorkerOf[d] = WorkerOf[c] THEN c ELSE registry[WorkerOf[d]]
      BY <1>0, <2>1
    <3>6. serve'[d] = IF d = c THEN "done" ELSE serve[d]
      BY <1>0, <2>1
    <3>7. CASE d = c
      BY <3>5, <3>6, <3>7 DEF PlaceOf, Registry!Delisted
    <3>8. CASE d # c
      BY <3>3, <3>4, <3>5, <3>6, <3>8 DEF PlaceOf, Registry!Delisted
    <3> QED
      BY <3>7, <3>8
  <2>5. Place' = [Registry!Delisted(Registry!OfSameWorker(c)) EXCEPT ![c] = "listed"]
    BY <2>4 DEF Place, Registry!Delisted
  <2> QED
    BY <2>1, <2>2, <2>3, <2>5 DEF Registry!List
<1> QED
  BY <1>1, <1>2, <1>3 DEF Serve, Registry!RegistryNext

LEMMA PumpsKeepPromise ==
    ASSUME TypeOK, HubInv, NEW c \in Conns, Reader(c) \/ Writer(c)
    PROVE  [Registry!RegistryNext]_(Registry!registryVars)
<1> USE DEF HubInv
<1>0. /\ reader \in [Conns -> {"off", "reading", "replying", "removing", "closing", "done"}]
      /\ writer \in [Conns -> {"off", "writing", "removing", "done"}]
  BY DEF TypeOK
<1>1. ASSUME NEW p \in {"read", "write"},
             Stages[c][p] = "on", Stages' = [Stages EXCEPT ![c][p] = "leaving"],
             UNCHANGED <<registry, lock, serve, todo>>
      PROVE  Registry!EndPump(c, p)
  BY <1>1, PlaceFrame, UntoldFrame DEF Registry!EndPump
<1>2. ASSUME NEW p \in {"read", "write"},
             Stages[c][p] = "leaving", Stages' = [Stages EXCEPT ![c][p] = "done"],
             RemoveWorker(c), UNCHANGED <<lock, serve, todo>>
      PROVE  Registry!Leave(c, p)
  <2>1. lock = Free /\ Place' = Registry!Delisted(Registry!OfSameWorker(c))
    BY <1>2, UnregisterDelists DEF RemoveWorker
  <2> QED
    BY <1>2, <2>1, UntoldFrame DEF Registry!Leave
<1>3. ASSUME UNCHANGED <<registry, lock, serve, todo>>, UNCHANGED Stages
      PROVE  UNCHANGED Registry!registryVars
  BY <1>3, PlaceFrame, UntoldFrame DEF Registry!registryVars
<1>4. CASE Receive(c) \/ Reply(c) \/ ReaderCloses(c) \/ ReadFails(c)
  <2>1. UNCHANGED <<registry, lock, serve, todo, writer>>
    BY <1>4 DEF Receive, Reply, ReaderCloses, ReadFails
  <2>2. PICK r : reader' = [reader EXCEPT ![c] = r] /\ StageOf(r) \in {StageOf(reader[c]), "leaving"}
                 /\ (StageOf(r) # StageOf(reader[c]) => StageOf(reader[c]) = "on")
    BY <1>4 DEF Receive, Reply, ReaderCloses, ReadFails, StageOf
  <2>3. Stages' = [Stages EXCEPT ![c]["read"] = StageOf(r)]
    BY <2>1, <2>2, ReaderStage
  <2>4. Stages[c]["read"] = StageOf(reader[c])
    BY DEF Stages
  <2>5. CASE StageOf(r) = StageOf(reader[c])
    <3>1. \A d \in Conns : StageOf(reader'[d]) = StageOf(reader[d])
      BY <1>0, <2>2, <2>5
    <3>2. UNCHANGED Stages
      BY <2>1, <3>1, StagesSame
    <3> QED
      BY <1>3, <2>1, <3>2
  <2>6. CASE StageOf(r) # StageOf(reader[c])
    BY <1>1, <2>1, <2>2, <2>3, <2>4, <2>6 DEF Registry!RegistryNext, Registry!Pumps
  <2> QED
    BY <2>5, <2>6
<1>5. CASE Write(c) \/ WriterSeesEnd(c)
  <2>1. UNCHANGED <<registry, lock, serve, todo, reader>> /\ writer[c] = "writing"
    BY <1>5 DEF Write, WriterSeesEnd
  <2>2. PICK r \in {"writing", "removing"} : writer' = [writer EXCEPT ![c] = r]
    BY <1>5 DEF Write, WriterSeesEnd
  <2>3. Stages' = [Stages EXCEPT ![c]["write"] = StageOf(r)]
    BY <2>1, <2>2, WriterStage
  <2>4. Stages[c]["write"] = "on"
    BY <2>1 DEF Stages, StageOf
  <2>5. CASE r = "writing"
    <3>1. \A d \in Conns : StageOf(writer'[d]) = StageOf(writer[d])
      BY <1>0, <2>1, <2>2, <2>5
    <3>2. UNCHANGED Stages
      BY <2>1, <3>1, StagesSame
    <3> QED
      BY <1>3, <2>1, <3>2
  <2>6. CASE r = "removing"
    <3>1. Stages' = [Stages EXCEPT ![c]["write"] = "leaving"]
      BY <2>3, <2>6 DEF StageOf
    <3> QED
      BY <1>1, <2>1, <2>4, <3>1 DEF Registry!RegistryNext, Registry!Pumps
  <2> QED
    BY <2>2, <2>5, <2>6
<1>6. CASE ReaderRemoves(c)
  <2>1. /\ reader[c] = "removing" /\ reader' = [reader EXCEPT ![c] = "closing"]
        /\ RemoveWorker(c) /\ UNCHANGED <<lock, serve, todo, writer>>
    BY <1>6 DEF ReaderRemoves
  <2>2. Stages[c]["read"] = "leaving"
    BY <2>1 DEF Stages, StageOf
  <2>3. Stages' = [Stages EXCEPT ![c]["read"] = StageOf("closing")] /\ StageOf("closing") = "done"
    BY <2>1, ReaderStage DEF StageOf
  <2> QED
    BY <1>2, <2>1, <2>2, <2>3 DEF Registry!RegistryNext, Registry!Pumps
<1>7. CASE WriterRemoves(c)
  <2>1. /\ writer[c] = "removing" /\ writer' = [writer EXCEPT ![c] = "done"]
        /\ RemoveWorker(c) /\ UNCHANGED <<lock, serve, todo, reader>>
    BY <1>7 DEF WriterRemoves
  <2>2. Stages[c]["write"] = "leaving"
    BY <2>1 DEF Stages, StageOf
  <2>3. Stages' = [Stages EXCEPT ![c]["write"] = StageOf("done")] /\ StageOf("done") = "done"
    BY <2>1, WriterStage DEF StageOf
  <2> QED
    BY <1>2, <2>1, <2>2, <2>3 DEF Registry!RegistryNext, Registry!Pumps
<1> QED
  BY <1>4, <1>5, <1>6, <1>7 DEF Reader, Writer

LEMMA BroadcastKeepsPromise ==
    ASSUME TypeOK, HubInv, NEW a \in Admins, Notify(a)
    PROVE  [Registry!RegistryNext]_(Registry!registryVars)
<1> USE DEF HubInv
<1>0. /\ Free \notin Admins
      /\ todo \in [Admins -> SUBSET Conns]
      /\ WorkerOf \in [Conns -> WorkerIds]
      /\ NoConn \notin Conns
      /\ registry \in [WorkerIds -> Conns \cup {NoConn}]
  BY HubAssumption DEF TypeOK
<1>1. UNCHANGED <<registry, serve, reader, writer>>
  BY DEF Notify, NotifyBegin, NotifySend, NotifyEnd
<1>2. UNCHANGED <<Place, Stages>>
  BY <1>1, PlaceFrame, StagesFrame
<1>3. ASSUME NotifyBegin(a) PROVE Registry!Announce
  <2>1. lock = Free /\ lock' = a /\ Untold' = todo'[a]
    BY <1>0, <1>3 DEF NotifyBegin, Untold
  <2>2. PICK told \in {Registered} \cup {InPool(p) : p \in Pools} : todo' = [todo EXCEPT ![a] = told]
    BY <1>3 DEF NotifyBegin
  <2>3. Untold' = told
    BY <1>0, <2>1, <2>2
  <2>4. told = Registered \/ \E p \in Pools : told = {c \in Registered : PoolOf[WorkerOf[c]] = p}
    BY <2>2 DEF InPool
  <2>5. \/ Untold' = Registry!Listed
        \/ \E p \in Pools : Untold' = {c \in Registry!Listed : PoolOf[WorkerOf[c]] = p}
    BY <2>3, <2>4, ListedMeaning
  <2> QED
    BY <1>0, <1>2, <2>1, <2>5 DEF Registry!Announce
<1>4. ASSUME NEW c \in Conns, NotifySend(a, c) PROVE Registry!Tell(c)
  <2>1. lock = a /\ c \in todo[a]
    BY <1>4 DEF NotifySend
  <2>2. ~sealed[c]
    BY <1>0, <2>1, RegisteredMeaning DEF BroadcastTargets
  <2>3. todo' = [todo EXCEPT ![a] = @ \ {c}] /\ lock' = lock
    BY <1>4, <2>2 DEF NotifySend
  <2>4. c \in Untold /\ Untold' = Untold \ {c}
    BY <1>0, <2>1, <2>3 DEF Untold
  <2> QED
    BY <1>0, <1>2, <2>1, <2>3, <2>4 DEF Registry!Tell
<1>5. ASSUME NotifyEnd(a) PROVE Registry!Finish
  <2>1. lock = a /\ todo[a] = {} /\ lock' = Free
    BY <1>5 DEF NotifyEnd
  <2>2. Untold = {} /\ Untold' = {}
    BY <1>0, <2>1 DEF Untold
  <2> QED
    BY <1>0, <1>2, <2>1, <2>2 DEF Registry!Finish
<1> QED
  BY <1>3, <1>4, <1>5 DEF Notify, Registry!RegistryNext

LEMMA ShutdownKeepsPromise ==
    ASSUME TypeOK, HubInv, Shutdown PROVE Registry!Close
<1> USE DEF HubInv
<1>0. WorkerOf \in [Conns -> WorkerIds] /\ NoConn \notin Conns
  BY HubAssumption
<1>1. /\ lock = Free /\ UNCHANGED <<lock, serve, reader, writer, todo>>
      /\ registry' = [w \in WorkerIds |-> NoConn]
  BY RegisteredMeaning DEF Shutdown
<1>2. ASSUME NEW c \in Conns
      PROVE  PlaceOf(c)' = IF c \in Registry!Listed \cap Conns THEN "gone" ELSE Place[c]
  <2>1. c \in Registry!Listed <=> registry[WorkerOf[c]] = c
    BY ListedMeaning DEF Registry!Listed
  <2>2. registry[WorkerOf[c]] = c => serve[c] = "done"
    BY <1>0 DEF RegisteredIsLive
  <2>3. registry'[WorkerOf[c]] # c
    BY <1>0, <1>1
  <2> QED
    BY <1>1, <2>1, <2>2, <2>3 DEF PlaceOf, Place
<1>3. Place' = Registry!Delisted(Conns)
  BY <1>2 DEF Place, Registry!Delisted
<1> QED
  BY <1>1, <1>3, StagesFrame, UntoldFrame DEF Registry!Close

(* The hub keeps the promise of the abstract registry, whatever the number *)
(* of connections, workers, pools and administrators.                      *)
THEOREM HubImplementsRegistry == Spec => KeepsRegistryPromise
<1>1. Spec => []HubInv
  BY TypeCorrect, HubInit, HubStep, PTL DEF Spec
<1>2. Init => Registry!RegistryInit
  BY DEF Init, Registry!RegistryInit, Registry!Pumps, Place, PlaceOf, Stages, StageOf, Untold
<1>3. TypeOK /\ HubInv /\ [Next]_vars => [Registry!RegistryNext]_(Registry!registryVars)
  <2> SUFFICES ASSUME TypeOK, HubInv, [Next]_vars
               PROVE  [Registry!RegistryNext]_(Registry!registryVars)
    OBVIOUS
  <2>1. ASSUME NEW c \in Conns, Serve(c) \/ Reader(c) \/ Writer(c)
        PROVE  [Registry!RegistryNext]_(Registry!registryVars)
    BY <2>1, ServeKeepsPromise, PumpsKeepPromise
  <2>2. ASSUME NEW a \in Admins, Notify(a)
        PROVE  [Registry!RegistryNext]_(Registry!registryVars)
    BY <2>2, BroadcastKeepsPromise
  <2>3. CASE \/ \E c \in Conns : Config(c) \/ LinkLost(c)
             \/ Interrupt \/ Exit \/ UNCHANGED vars
    <3>1. UNCHANGED <<registry, lock, serve, reader, writer, todo>>
      BY <2>3 DEF Config, QueryConfig, SendConfig, LinkLost, Interrupt, Exit, vars
    <3> QED
      BY <3>1, PlaceFrame, StagesFrame, UntoldFrame DEF Registry!registryVars
  <2>4. CASE Shutdown
    BY <2>4, ShutdownKeepsPromise DEF Registry!RegistryNext
  <2> QED
    BY <2>1, <2>2, <2>3, <2>4 DEF Next
<1> QED
  BY TypeCorrect, <1>1, <1>2, <1>3, PTL DEF Spec, KeepsRegistryPromise, Registry!RegistrySpec

-----------------------------------------------------------------------------
(* The wedges are final.  A full channel that is open takes no event and   *)
(* loses none unless its write pump runs.                                  *)
LEMMA FullStays ==
    ASSUME TypeOK, NEW c \in Conns, Full(c), ~sealed[c], writer[c] # "writing", [Next]_vars
    PROVE  egress'[c] = egress[c]
<1>1. ~CanSend(c)
  <2>1. Len(egress[c]) = EgressCap
    BY DEF Full
  <2> QED
    BY <2>1, HubAssumption DEF CanSend
<1>2. egress \in [Conns -> Seq(Events)]
  BY DEF TypeOK, ChannelsOK
<1>3. ASSUME NEW d \in Conns, NEW e, NEW who, Send(d, e, who) PROVE egress'[c] = egress[c]
  BY <1>1, <1>2, <1>3 DEF Send
<1>4. ASSUME NEW d \in Conns, SendConfig(d) \/ Reply(d) PROVE egress'[c] = egress[c]
  BY <1>3, <1>4 DEF SendConfig, Reply
<1>5. ASSUME NEW a \in Admins, Notify(a) PROVE egress'[c] = egress[c]
  BY <1>3, <1>5 DEF Notify, NotifyBegin, NotifyEnd, NotifySend
<1>6. ASSUME NEW d \in Conns, Write(d) PROVE egress'[c] = egress[c]
  BY <1>2, <1>6 DEF Write
<1>7. ASSUME NEW d \in Conns,
             \/ Serve(d) \/ QueryConfig(d) \/ Receive(d) \/ ReadFails(d) \/ ReaderRemoves(d)
             \/ ReaderCloses(d) \/ WriterSeesEnd(d) \/ WriterRemoves(d) \/ LinkLost(d)
      PROVE  egress' = egress
  BY <1>7 DEF Serve, Connect, CheckDuplicate, AddWorker, QueryConfig, Receive, ReadFails,
              ReaderRemoves, ReaderCloses, WriterSeesEnd, WriterRemoves, LinkLost
<1>8. CASE Interrupt \/ Shutdown \/ Exit \/ UNCHANGED vars
  BY <1>8 DEF Interrupt, Shutdown, Exit, vars
<1> QED
  BY <1>4, <1>5, <1>6, <1>7, <1>8 DEF Next, Config, Reader, Writer

(* Only AddWorker starts a write pump, with the mutex free.                *)
LEMMA WriterStartsWithAdd ==
    ASSUME TypeOK, NEW c \in Conns, [Next]_vars, writer[c] # "writing", writer'[c] = "writing"
    PROVE  lock = Free /\ serve[c] = "add"
<1>1. writer \in [Conns -> {"off", "writing", "removing", "done"}]
  BY DEF TypeOK
<1>2. ASSUME NEW d \in Conns, Serve(d) PROVE lock = Free /\ serve[c] = "add"
  BY <1>1, <1>2 DEF Serve, Connect, CheckDuplicate, AddWorker
<1>3. ASSUME NEW d \in Conns, Writer(d) PROVE FALSE
  BY <1>1, <1>3 DEF Writer, Write, WriterSeesEnd, WriterRemoves
<1>4. ASSUME NEW d \in Conns, Config(d) \/ Reader(d) \/ LinkLost(d) PROVE FALSE
  BY <1>4 DEF Config, QueryConfig, SendConfig, Reader, Receive, Reply, ReadFails, ReaderRemoves,
              ReaderCloses, LinkLost
<1>5. ASSUME NEW a \in Admins, Notify(a) PROVE FALSE
  BY <1>5 DEF Notify, NotifyBegin, NotifyEnd, NotifySend
<1>6. CASE Interrupt \/ Shutdown \/ Exit \/ UNCHANGED vars
  BY <1>6 DEF Interrupt, Shutdown, Exit, vars
<1> QED
  BY <1>2, <1>3, <1>4, <1>5, <1>6 DEF Next

(* Whoever holds the mutex in front of a full channel keeps it.            *)
LEMMA BroadcastWedgeStays ==
    ASSUME TypeOK, HubInv, NEW a \in Admins, NEW c \in Conns, [Next]_vars,
           lock = a, c \in todo[a], Full(c), writer[c] # "writing"
    PROVE  /\ lock' = a /\ c \in todo'[a] /\ Full(c)' /\ writer'[c] # "writing"
           /\ UNCHANGED registry
<1> USE DEF HubInv
<1>0. Free \notin Admins /\ todo \in [Admins -> SUBSET Conns]
  BY HubAssumption DEF TypeOK
<1>1. lock # Free /\ \A d \in todo[a] : ~sealed[d]
  BY <1>0, RegisteredMeaning DEF BroadcastTargets
<1>2. egress'[c] = egress[c]
  BY <1>1, FullStays
<1>3. writer'[c] # "writing"
  BY <1>1, WriterStartsWithAdd
<1>4. ~CanSend(c)
  <2>1. Len(egress[c]) = EgressCap
    BY DEF Full
  <2> QED
    BY <1>1, <2>1, HubAssumption DEF CanSend
<1>5. ASSUME NEW b \in Admins, Notify(b)
      PROVE  lock' = a /\ c \in todo'[a] /\ UNCHANGED registry
  <2>1. CASE NotifyBegin(b) \/ NotifyEnd(b)
    BY <1>1, <2>1 DEF NotifyBegin, NotifyEnd
  <2>2. ASSUME NEW d \in Conns, NotifySend(b, d) PROVE lock' = a /\ c \in todo'[a] /\ UNCHANGED registry
    <3>1. b = a /\ d \in todo[a] /\ d # c
      BY <1>4, <2>2 DEF NotifySend, Send
    <3> QED
      BY <1>0, <1>1, <2>2, <3>1 DEF NotifySend
  <2> QED
    BY <1>5, <2>1, <2>2 DEF Notify
<1>6. ASSUME NEW d \in Conns, Serve(d) \/ Config(d) \/ Reader(d) \/ Writer(d) \/ LinkLost(d)
      PROVE  UNCHANGED <<lock, todo, registry>>
  <2>1. CASE Serve(d)
    BY <1>1, <2>1 DEF Serve, Connect, CheckDuplicate, AddWorker
  <2>2. CASE Config(d) \/ LinkLost(d)
    BY <2>2 DEF Config, QueryConfig, SendConfig, LinkLost
  <2>3. CASE Reader(d)
    BY <1>1, <2>3 DEF Reader, Receive, Reply, ReadFails, ReaderRemoves, RemoveWorker, ReaderCloses
  <2>4. CASE Writer(d)
    BY <1>1, <2>4 DEF Writer, Write, WriterSeesEnd, WriterRemoves, RemoveWorker
  <2> QED
    BY <1>6, <2>1, <2>2, <2>3, <2>4
<1>7. ASSUME Interrupt \/ Shutdown \/ Exit \/ UNCHANGED vars
      PROVE  UNCHANGED <<lock, todo, registry>>
  BY <1>1, <1>7 DEF Interrupt, Shutdown, Exit, vars
<1>8. lock' = a /\ c \in todo'[a] /\ UNCHANGED registry
  BY <1>5, <1>6, <1>7 DEF Next
<1>9. Len(egress'[c]) = EgressCap
  BY <1>2 DEF Full
<1> QED
  BY <1>3, <1>8, <1>9 DEF Full

(* A read pump in front of its own full channel stays there.               *)
LEMMA ReaderWedgeStays ==
    ASSUME TypeOK, HubInv, NEW c \in Conns, [Next]_vars, ReaderWedged(c), ~sealed[c]
    PROVE  ReaderWedged(c)'
<1> USE DEF HubInv
<1>0. reader \in [Conns -> {"off", "reading", "replying", "removing", "closing", "done"}]
      /\ serve[c] = "done"
  BY DEF TypeOK, PumpsFollowServe, ReaderWedged
<1>1. egress'[c] = egress[c]
  BY FullStays DEF ReaderWedged
<1>2. writer'[c] # "writing"
  BY <1>0, WriterStartsWithAdd DEF ReaderWedged
<1>3. ~CanSend(c)
  <2>1. Len(egress[c]) = EgressCap
    BY DEF ReaderWedged, Full
  <2> QED
    BY <2>1, HubAssumption DEF CanSend
<1>4. ASSUME NEW d \in Conns, Reader(d) PROVE reader'[c] = "replying"
  <2>1. CASE d = c
    BY <1>3, <1>4, <2>1
       DEF Reader, Receive, Reply, Send, ReadFails, ReaderRemoves, ReaderCloses, ReaderWedged
  <2>2. CASE d # c
    BY <1>0, <1>4, <2>2
       DEF Reader, Receive, Reply, ReadFails, ReaderRemoves, ReaderCloses, ReaderWedged
  <2> QED
    BY <2>1, <2>2
<1>5. ASSUME NEW d \in Conns, Serve(d) PROVE reader'[c] = "replying"
  BY <1>0, <1>5 DEF Serve, Connect, CheckDuplicate, AddWorker, ReaderWedged
<1>6. ASSUME NEW d \in Conns, Config(d) \/ Writer(d) \/ LinkLost(d) PROVE reader' = reader
  BY <1>6 DEF Config, QueryConfig, SendConfig, Writer, Write, WriterSeesEnd, WriterRemoves, LinkLost
<1>7. ASSUME NEW a \in Admins, Notify(a) PROVE reader' = reader
  BY <1>7 DEF Notify, NotifyBegin, NotifyEnd, NotifySend
<1>8. ASSUME Interrupt \/ Shutdown \/ Exit \/ UNCHANGED vars PROVE reader' = reader
  BY <1>8 DEF Interrupt, Shutdown, Exit, vars
<1>9. reader'[c] = "replying"
  BY <1>4, <1>5, <1>6, <1>7, <1>8 DEF Next, ReaderWedged
<1>10. Len(egress'[c]) = EgressCap
  BY <1>1 DEF ReaderWedged, Full
<1> QED
  BY <1>2, <1>9, <1>10 DEF ReaderWedged, Full

(* Both wedges, once reached, are never left.                              *)
THEOREM WedgesStay == Spec => WedgesAreFinal
<1>1. Spec => []HubInv
  BY TypeCorrect, HubInit, HubStep, PTL DEF Spec
<1>2. TypeOK /\ HubInv /\ [Next]_vars =>
        [/\ BroadcastWedged => BroadcastWedged' /\ UNCHANGED registry
         /\ \A c \in Conns :
               ReaderWedged(c) /\ ~sealed[c] => ReaderWedged(c)']_vars
  <2> SUFFICES ASSUME TypeOK, HubInv, [Next]_vars
               PROVE  /\ BroadcastWedged => BroadcastWedged' /\ UNCHANGED registry
                      /\ \A c \in Conns : ReaderWedged(c) /\ ~sealed[c] => ReaderWedged(c)'
    OBVIOUS
  <2>1. ASSUME BroadcastWedged PROVE BroadcastWedged' /\ UNCHANGED registry
    <3>1. PICK a \in Admins, c \in Conns :
            lock = a /\ c \in todo[a] /\ Full(c) /\ writer[c] # "writing"
      BY <2>1 DEF BroadcastWedged
    <3>2. /\ lock' = a /\ c \in todo'[a] /\ Full(c)' /\ writer'[c] # "writing"
          /\ UNCHANGED registry
      BY <3>1, BroadcastWedgeStays
    <3> QED
      BY <3>2 DEF BroadcastWedged
  <2> QED
    BY <2>1, ReaderWedgeStays
<1> QED
  BY TypeCorrect, <1>1, <1>2, PTL DEF Spec, WedgesAreFinal

-----------------------------------------------------------------------------
(* What the abstract registry promises, and with it every implementation.  *)
RegistryInv ==
    /\ DOMAIN Place = Conns
    /\ Registry!OneListedPerWorker
    /\ Registry!UntoldAreListed
    /\ lock = Free => Untold = {}

LEMMA RegistryInvStep ==
    ASSUME RegistryInv, [Registry!RegistryNext]_(Registry!registryVars)
    PROVE  RegistryInv' /\ \A c \in Conns : Place[c] = "gone" => Place'[c] = "gone"
<1> USE DEF RegistryInv, Registry!OneListedPerWorker, Registry!UntoldAreListed, Registry!Listed,
           Registry!OfSameWorker
<1>0. DOMAIN Place' = Conns
  BY DEF Place
<1>1. ASSUME NEW c \in Conns, Registry!Admit(c) \/ Registry!Refuse(c)
      PROVE  RegistryInv' /\ \A d \in Conns : Place[d] = "gone" => Place'[d] = "gone"
  <2>1. \A d \in Conns : d # c => Place'[d] = Place[d]
    BY <1>1 DEF Registry!Admit, Registry!Refuse
  <2>2. /\ Place[c] = "new" /\ Place'[c] \in {"admitted", "gone"}
        /\ lock = Free /\ lock' = Free /\ Untold = {} /\ Untold' = {}
    BY <1>1 DEF Registry!Admit, Registry!Refuse
  <2> QED
    BY <1>0, <2>1, <2>2
<1>2. ASSUME NEW c \in Conns, Registry!List(c)
      PROVE  RegistryInv' /\ \A d \in Conns : Place[d] = "gone" => Place'[d] = "gone"
  <2>1. /\ Place[c] = "admitted" /\ Place'[c] = "listed"
        /\ lock = Free /\ lock' = Free /\ Untold = {} /\ Untold' = {}
    BY <1>2 DEF Registry!List, Registry!Delisted
  <2>2. \A d \in Conns : d # c => Place'[d] = Registry!Delisted(Registry!OfSameWorker(c))[d]
    BY <1>2 DEF Registry!List, Registry!Delisted
  <2>3. \A d \in Conns : d # c => Place'[d] = IF Place[d] = "listed" /\ WorkerOf[d] = WorkerOf[c]
                                             THEN "gone" ELSE Place[d]
    BY <2>2 DEF Registry!Delisted
  <2> QED
    BY <1>0, <2>1, <2>3
<1>3. ASSUME NEW S \in SUBSET Conns, Place' = Registry!Delisted(S), lock = Free, lock' = Free,
             Untold' = Untold
      PROVE  RegistryInv' /\ \A d \in Conns : Place[d] = "gone" => Place'[d] = "gone"
  <2>1. \A d \in Conns : Place'[d] = IF Place[d] = "listed" /\ d \in S THEN "gone" ELSE Place[d]
    BY <1>3 DEF Registry!Delisted
  <2> QED
    BY <1>0, <1>3, <2>1
<1>4. ASSUME NEW c \in Conns, NEW p \in Registry!Pumps, Registry!EndPump(c, p)
      PROVE  RegistryInv' /\ \A d \in Conns : Place[d] = "gone" => Place'[d] = "gone"
  BY <1>4 DEF Registry!EndPump
<1>5. ASSUME NEW c \in Conns, NEW p \in Registry!Pumps, Registry!Leave(c, p)
      PROVE  RegistryInv' /\ \A d \in Conns : Place[d] = "gone" => Place'[d] = "gone"
  BY <1>3, <1>5 DEF Registry!Leave
<1>6. ASSUME Registry!Close
      PROVE  RegistryInv' /\ \A d \in Conns : Place[d] = "gone" => Place'[d] = "gone"
  BY <1>3, <1>6 DEF Registry!Close
<1>7. ASSUME NEW c \in Conns, Registry!Tell(c)
      PROVE  RegistryInv' /\ \A d \in Conns : Place[d] = "gone" => Place'[d] = "gone"
  BY <1>7 DEF Registry!Tell
<1>8. ASSUME Registry!Announce \/ Registry!Finish
      PROVE  RegistryInv' /\ \A d \in Conns : Place[d] = "gone" => Place'[d] = "gone"
  BY <1>8 DEF Registry!Announce, Registry!Finish
<1>9. ASSUME UNCHANGED Registry!registryVars
      PROVE  RegistryInv' /\ \A d \in Conns : Place[d] = "gone" => Place'[d] = "gone"
  BY <1>9 DEF Registry!registryVars
<1> QED
  BY <1>1, <1>2, <1>4, <1>5, <1>6, <1>7, <1>8, <1>9 DEF Registry!RegistryNext

(* Whatever keeps the promise of the registry has one connection for each  *)
(* worker, tells only those that are still listed, and lists none again.   *)
THEOREM RegistryPromises ==
    KeepsRegistryPromise =>
        [](Registry!OneListedPerWorker /\ Registry!UntoldAreListed) /\ Registry!GoneForGood
<1>1. Registry!RegistryInit => RegistryInv
  BY DEF Registry!RegistryInit, RegistryInv, Registry!OneListedPerWorker, Registry!UntoldAreListed,
         Registry!Listed, Place
<1>2. RegistryInv /\ [Registry!RegistryNext]_(Registry!registryVars) =>
        RegistryInv' /\ [\A c \in Conns : Place[c] = "gone" => Place'[c] = "gone"]_(Registry!registryVars)
  BY RegistryInvStep
<1>3. RegistryInv => Registry!OneListedPerWorker /\ Registry!UntoldAreListed
  BY DEF RegistryInv
<1> QED
  BY <1>1, <1>2, <1>3, PTL DEF KeepsRegistryPromise, Registry!RegistrySpec, Registry!GoneForGood
=============================================================================

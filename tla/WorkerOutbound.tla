---------------------------- MODULE WorkerOutbound ----------------------------
(***************************************************************************)
(* The way of a connection out of the worker: whether it needs an          *)
(* upstream, which one it is given, and where it then leads.  Composes     *)
(* UpstreamSelection, ConnectionPools and ReachabilityChecker with the     *)
(* start of a proxy and the handlers of its clients.                       *)
(* Source: worker/services/{http,socks}.go (InitService, callback,         *)
(* OutToTCP) and NextUpstream in worker/manager/worker.go.                 *)
(*                                                                         *)
(* Abstractions.  A client has got past authentication and the user's      *)
(* limit (UserManager, ProxyConnections); the handshake with an upstream   *)
(* is part of the connection it ends.                                      *)
(***************************************************************************)
EXTENDS UpstreamSelection, ConnectionPools, ReachabilityChecker

CONSTANT Conns   \* bound: client connections at a time

ASSUME OutboundAssumption == Addresses = Upstreams /\ NoAddress = NoUpstream

VARIABLES
    proxy,       \* the command the worker was started with: "http" or "socks"
    always,      \* its flag --always
    ready,       \* whether the proxy listens: five seconds after the start
    stage,       \* where the handler of a connection is
    session,     \* the sticky session it names
    malformed,   \* connections whose address url.Parse rejects
    holder,      \* the User object whose Sessions map the handler has
    chosen,      \* the upstream chosen for it
    leads,       \* where its outgoing connection leads
    moved        \* history: sessions that may have moved to another upstream

connVars == <<stage, session, malformed, holder, chosen, leads>>
vars == <<selectionVars, poolVars, checkerVars, proxy, always, ready, connVars, moved>>

Stages == {"closed", "choose", "stick", "get", "relay", "panicked"}

TypeOK ==
    /\ SelectionTypeOK /\ PoolTypeOK /\ CheckerTypeOK
    /\ proxy \in {"http", "socks"} /\ always \in BOOLEAN /\ ready \in BOOLEAN
    /\ stage \in [Conns -> Stages]
    /\ session \in [Conns -> Sessions \cup {NoSession}] /\ malformed \subseteq Conns
    /\ holder \in [Conns -> Users \cup {NoUser}]
    /\ chosen \in [Conns -> Upstreams \cup {NoUpstream}]
    /\ leads \in [Conns -> Upstreams \cup {NoUpstream}]
    /\ moved \subseteq Sessions

NoConns ==
    /\ stage = [c \in Conns |-> "closed"]
    /\ session = [c \in Conns |-> NoSession] /\ malformed = {}
    /\ holder = [c \in Conns |-> NoUser]
    /\ chosen = [c \in Conns |-> NoUpstream]
    /\ leads = [c \in Conns |-> NoUpstream]

ForgetConns ==
    /\ stage' = [c \in Conns |-> "closed"]
    /\ session' = [c \in Conns |-> NoSession] /\ malformed' = {}
    /\ holder' = [c \in Conns |-> NoUser]
    /\ chosen' = [c \in Conns |-> NoUpstream]
    /\ leads' = [c \in Conns |-> NoUpstream]

Init ==
    /\ Unconfigured /\ NoPools /\ NoChecker /\ NoConns
    /\ proxy \in {"http", "socks"} /\ always \in BOOLEAN /\ ready = FALSE
    /\ moved = {}

Goes(c, to) == stage' = [stage EXCEPT ![c] = to]

-----------------------------------------------------------------------------
(* InitService sleeps for five seconds and looks at the list once: pools   *)
(* and checker are made then or never.                                     *)
InitService ==
    /\ ~ready /\ ready' = TRUE
    /\ IF HasUpstreams
       THEN NewOutPool(upstreams) /\ checker' = "running"
       ELSE UNCHANGED <<poolVars, checker>>
    /\ UNCHANGED <<selectionVars, item, check, proxy, always, connVars, moved>>

Configure(list) ==
    /\ SetUpstreams(list)
    /\ UNCHANGED <<poolVars, checkerVars, proxy, always, ready, connVars, moved>>

(* Sessions that some connection uses or that the entry remembers.         *)
InUse == {s \in Sessions : \/ \E c \in Conns : session[c] = s
                           \/ entry # NoUser /\ Sticks(entry, s)}

ChangeUser ==
    /\ Forget \/ \E u \in Users : Login(u) \/ Refile(u)
    /\ moved' = moved \cup InUse
    /\ UNCHANGED <<poolVars, checkerVars, proxy, always, ready, connVars>>

Background ==
    /\ \/ \E a \in Addresses : Fill(a)
       \/ Probe
    /\ UNCHANGED <<selectionVars, checkerVars, proxy, always, ready, connVars, moved>>

CheckHosts ==
    /\ \/ \E k \in Checks, h \in Hosts : StartCheck(k, h)
       \/ \E k \in Checks, reached \in BOOLEAN : FinishCheck(k, reached)
    /\ UNCHANGED <<selectionVars, poolVars, proxy, always, ready, connVars, moved>>

(* The process ends, by an interrupt, which empties the pools on the way,  *)
(* or because two handlers wrote a Sessions map at once; Docker starts it  *)
(* again with the same command.                                            *)
Restart ==
    /\ ForgetSelection /\ ForgetPools /\ ForgetChecker /\ ForgetConns
    /\ ready' = FALSE
    /\ moved' = {}
    /\ UNCHANGED <<proxy, always>>

-----------------------------------------------------------------------------
(* callback: which way the connection goes.  What is read here is read     *)
(* without a lock in between, but nothing it reads changes back.           *)

Arrives(c, to) ==
    /\ ready /\ stage[c] = "closed" /\ entry # NoUser
    /\ \E s \in Sessions \cup {NoSession} : session' = [session EXCEPT ![c] = s]
    /\ Goes(c, to)
    /\ UNCHANGED <<selectionVars, poolVars, checker, check, proxy, always, ready,
                   holder, chosen, leads, moved>>

ArriveDirect(c) ==
    /\ ~HasUpstreams
    /\ Arrives(c, "relay") /\ UNCHANGED <<item, malformed>>

ArriveAlways(c) ==
    /\ HasUpstreams /\ always
    /\ Arrives(c, "choose") /\ UNCHANGED <<item, malformed>>

(* A plain HTTP request is only added if its method is GET.                *)
ArriveChecked(c) ==
    /\ HasUpstreams /\ ~always /\ checker = "running"
    /\ \E h \in Hosts :
          /\ item' = Added(h) \/ (proxy = "http" /\ UNCHANGED item)
          /\ Arrives(c, IF IsBlocked(item', h) THEN "choose" ELSE "relay")
    /\ UNCHANGED malformed

(* An address that cannot be parsed is found in every file, before a map   *)
(* is touched: it is not added, and takes an upstream.                     *)
ArriveMalformed(c) ==
    /\ HasUpstreams /\ ~always
    /\ malformed' = malformed \cup {c}
    /\ Arrives(c, "choose") /\ UNCHANGED item

(* Faulty variant: without a checker every host takes an upstream.         *)
ArriveUnchecked(c) ==
    /\ HasUpstreams /\ ~always /\ checker = "none"
    /\ Arrives(c, "choose") /\ UNCHANGED <<item, malformed>>

(* The maps of a Checker that was never made are nil: with an address it   *)
(* can parse the handler panics, and its recovery leaves the client's      *)
(* socket open.                                                            *)
ArriveLate(c) ==
    /\ HasUpstreams /\ ~always /\ checker = "none"
    /\ Arrives(c, "panicked") /\ UNCHANGED <<item, malformed>>

-----------------------------------------------------------------------------
(* NextUpstream.                                                           *)

(* The next one of the list, which no configuration has made empty.        *)
Choose(c, next) ==
    /\ Advance
    /\ chosen' = [chosen EXCEPT ![c] = Selected]
    /\ Goes(c, next)
    /\ UNCHANGED <<upstreams, entry, sessions, poolVars, checkerVars, proxy, always, ready,
                   session, malformed, leads, moved>>

ChooseFreely(c) ==
    /\ stage[c] = "choose"
    /\ session[c] = NoSession \/ entry = NoUser
    /\ Choose(c, "get")
    /\ UNCHANGED holder

ChooseStuck(c) ==
    /\ stage[c] = "choose"
    /\ session[c] # NoSession /\ entry # NoUser /\ Sticks(entry, session[c])
    /\ chosen' = [chosen EXCEPT ![c] = sessions[entry][session[c]]]
    /\ Goes(c, "get")
    /\ UNCHANGED <<selectionVars, poolVars, checkerVars, proxy, always, ready,
                   session, malformed, holder, leads, moved>>

(* The first connection of a session: nothing is found for it, so it takes *)
(* the next upstream.                                                      *)
ChooseFirst(c) ==
    /\ stage[c] = "choose"
    /\ session[c] # NoSession /\ entry # NoUser /\ ~Sticks(entry, session[c])
    /\ Choose(c, "stick")
    /\ holder' = [holder EXCEPT ![c] = entry]

(* The map is written without a lock; another first connection of the      *)
(* session may have written it since.                                      *)
StickTo(c) ==
    /\ stage[c] = "stick"
    /\ Stick(holder[c], session[c], chosen[c])
    /\ moved' = IF Sticks(holder[c], session[c])
                THEN moved \cup {session[c]} ELSE moved
    /\ holder' = [holder EXCEPT ![c] = NoUser]
    /\ Goes(c, "get")
    /\ UNCHANGED <<upstreams, index, entry, poolVars, checkerVars, proxy, always, ready,
                   session, malformed, chosen, leads>>

-----------------------------------------------------------------------------
(* OutToTCP.                                                               *)

LeadsTo(c, upstream) ==
    /\ leads' = [leads EXCEPT ![c] = upstream]
    /\ Goes(c, "relay")
    /\ UNCHANGED <<selectionVars, checkerVars, proxy, always, ready,
                   session, malformed, holder, chosen, moved>>

TakePooled(c) ==
    /\ stage[c] = "get" /\ Pooled(chosen[c])
    /\ Take(chosen[c])
    /\ LeadsTo(c, Head(pools[chosen[c]]))

PoolDials(c) ==
    /\ stage[c] = "get" /\ Empty(chosen[c])
    /\ LeadsTo(c, last)
    /\ UNCHANGED poolVars

(* Faulty variant: the handler dials what Next would give it now.          *)
DialTargetNow(c) == Selected

DialTarget(c) == chosen[c]

(* No pool, or its dial fails: the handler dials.                          *)
DialUpstream(c) ==
    /\ stage[c] = "get" /\ ~Pooled(chosen[c])
    /\ LeadsTo(c, DialTarget(c))
    /\ UNCHANGED poolVars

(* HTTP has lost the error and goes on with a nil connection.              *)
DialFails(c) ==
    /\ stage[c] = "get" /\ ~Pooled(chosen[c])
    /\ IF proxy = "http"
       THEN Goes(c, "panicked") /\ UNCHANGED <<session, malformed, chosen>>
       ELSE /\ Goes(c, "closed")
            /\ session' = [session EXCEPT ![c] = NoSession] /\ malformed' = malformed \ {c}
            /\ chosen' = [chosen EXCEPT ![c] = NoUpstream]
    /\ UNCHANGED <<selectionVars, poolVars, checkerVars, proxy, always, ready,
                   holder, leads, moved>>

(* The host cannot be dialled, or a connection ends.                       *)
Close(c) ==
    /\ stage[c] = "relay"
    /\ Goes(c, "closed")
    /\ session' = [session EXCEPT ![c] = NoSession] /\ malformed' = malformed \ {c}
    /\ chosen' = [chosen EXCEPT ![c] = NoUpstream]
    /\ leads' = [leads EXCEPT ![c] = NoUpstream]
    /\ UNCHANGED <<selectionVars, poolVars, checkerVars, proxy, always, ready,
                   holder, moved>>

Handle(c) ==
    \/ ArriveDirect(c) \/ ArriveAlways(c) \/ ArriveChecked(c)
    \/ ArriveMalformed(c) \/ ArriveLate(c)
    \/ ChooseFreely(c) \/ ChooseStuck(c) \/ ChooseFirst(c) \/ StickTo(c)
    \/ TakePooled(c) \/ PoolDials(c) \/ DialUpstream(c) \/ DialFails(c) \/ Close(c)

Next ==
    \/ InitService \/ Restart
    \/ \E list \in Lists : Configure(list)
    \/ ChangeUser \/ Background \/ CheckHosts
    \/ \E c \in Conns : Handle(c)

Spec == Init /\ [][Next]_vars

-----------------------------------------------------------------------------
HasChosen(c) == stage[c] \in {"get", "relay"} /\ chosen[c] # NoUpstream

(* A connection leads to the upstream that was chosen for it, and whose    *)
(* credentials it will be sent, unless its pool has dialled: every pool    *)
(* but that of the last address refills itself with connections to that    *)
(* one.                                                                    *)
MisroutedOnlyByPool ==
    \A c \in Conns : stage[c] = "relay" /\ leads[c] # chosen[c] =>
        leads[c] = last /\ chosen[c] \in pooled

(* What OutToTCP logs: "Connecting to" the chosen upstream.                *)
ConnectsToChosen == \A c \in Conns : stage[c] = "relay" => leads[c] = chosen[c]

(* The connections of a sticky session take the same upstream, and it is   *)
(* the one the session is remembered with, unless two first connections    *)
(* overlapped or the user's object went or changed.                        *)
SessionMovesOnlyByCause ==
    \A c \in Conns, s \in Sessions : session[c] = s /\ HasChosen(c) /\ s \notin moved =>
        /\ entry # NoUser /\ sessions[entry][s] = chosen[c]
        /\ \A d \in Conns : session[d] = s /\ HasChosen(d) => chosen[d] = chosen[c]

(* Round robin, whatever handlers choose at the same time: a step that     *)
(* moves the position gives the upstream there to one connection, sends it *)
(* to the back of the queue and brings every other one a turn nearer, so   *)
(* none is chosen twice before each has been chosen once.  Only a restart, *)
(* a new list or the position's wrapping round breaks the order.           *)
Turns(k) == IF k >= Position THEN k - Position ELSE k - Position + Len(upstreams)

EveryUpstreamHasItsTurn ==
    [][index' \notin {index, 0} =>
          /\ \E c \in Conns : chosen' = [chosen EXCEPT ![c] = Selected]
          /\ \A k \in DOMAIN upstreams :
                Turns(k)' = IF k = Position THEN Len(upstreams) - 1 ELSE Turns(k) - 1]_vars

(* A proxy without --always that begins to listen before the worker is     *)
(* configured serves only addresses it cannot parse from the configuration *)
(* that comes later: those go to the upstream chosen for them, by a dial   *)
(* of their own; every other handler panics.                               *)
LateProxyServesOnlyMalformed ==
    ready /\ checker = "none" /\ ~always =>
        \A c \in Conns : chosen[c] # NoUpstream =>
            c \in malformed /\ leads[c] \in {NoUpstream, chosen[c]}

(* A host found reachable often enough is not blocked again, unless a      *)
(* check that began before another one ended overwrites what that one      *)
(* counted.                                                                *)
SettledUnlessOverwritten ==
    [][\A h \in Hosts : Settled(item[h]) /\ ~Settled(item'[h]) =>
          \/ Restart
          \/ \E k \in Checks : check[k].busy /\ check[k].host = h /\ check[k].seen # item[h]]_vars
=============================================================================

--------------------------- MODULE WorkerSession ---------------------------
(***************************************************************************)
(* A worker's session with the captain: the login for a one-time password, *)
(* the websocket and its pumps on both sides, the loop that connects       *)
(* again, and the way the configuration of the worker's pool follows the   *)
(* changes made at the captain.                                            *)
(* Source: worker/manager/{worker,functions,websocket_manager,             *)
(* websocket_client}.go and captain/internal/server/websocket/*.go.        *)
(*                                                                         *)
(* Abstractions.  A configuration is the number of the change it shows.    *)
(* An egress channel and the socket behind it are one queue, emptied while *)
(* its write pump runs.  Of the worker's former connections only what they *)
(* still do to the registry remains.  CaptainHub has the hub's crashes,    *)
(* other workers and the channels of former connections; UserManager has   *)
(* the callers a login's answer is for, of whom only what they make of the *)
(* read pump remains: it goes on, or it waits for one that never receives. *)
(***************************************************************************)
EXTENDS Naturals, Sequences

CONSTANTS
    MaxChanges,  \* bound: changes of the pool
    MaxFaults,   \* bound: lost links, refused logins, failed dials and
                 \* queries, answers whose caller does not receive them
    CaptainCap,  \* capacity of the captain's egress channel (100)
    WorkerCap    \* capacity of the worker's egress channel (100)

ASSUME SessionAssumption ==
    /\ MaxChanges \in Nat /\ MaxFaults \in Nat
    /\ CaptainCap \in Nat \ {0} /\ WorkerCap \in Nat \ {0}

VARIABLES
    loop,       \* Start's goroutine: "login" "dial" "session"
    otp,        \* the password it holds: "none", or "live" in the captain's map
    wsock,      \* the worker's end of the websocket
    wreader,    \* its read pump: "reading" "requesting" "abandoned" "done"
    wwriter,    \* the worker's write pump: "writing" "done"
    up,         \* from the worker to the captain: "request", "traffic"
    cfg,        \* the configuration the worker applies; 0 for none
    csock,      \* the captain's end
    serve,      \* ServeWS: "check" "add" "done" "rejected"
    initial,    \* initial config goroutine: "off" "query" "send" "done"
    initialCfg, \* what it has read
    creader,    \* the captain's read pump: "off" "reading" "query" "answer" "reply" "removing" "done"
    answer,     \* what it has read for a request; 0 for an error event
    cwriter,    \* the captain's write pump: "off" "writing" "removing" "done"
    down,       \* from the captain to the worker: pool changes, configurations and errors
    entry,      \* the worker's entry in the registry: "none" "current" "former"
    former,     \* a pump of a former connection has not ended
    db,         \* the pool's configuration in the database
    admin,      \* the request that changes it: "idle" "committed" "notifying" "wedged"
    faults,     \* faults so far
    told,       \* history: the last change whose broadcast is over
    missed      \* history: this connection may have missed a change

worker == <<loop, otp, wsock, wreader, wwriter, cfg>>
captain == <<csock, serve, initial, initialCfg, creader, answer, cwriter, entry, former>>
queues == <<up, down>>
world == <<db, admin, faults, told, missed>>
vars == <<worker, captain, queues, world>>

Versions == 0..(MaxChanges + 1)

(* "traffic" is a login or a report of usage: told apart when it is read.  *)
Requests == {"request", "traffic"}

PoolChange == [type |-> "pool_change", cfg |-> 0]
Config(v) == [type |-> "config", cfg |-> v]
Error == [type |-> "error", cfg |-> 0]
LoginSuccess == [type |-> "login_success", cfg |-> 0]
Events == {PoolChange, Error, LoginSuccess} \cup {Config(v) : v \in Versions}

TypeOK ==
    /\ loop \in {"login", "dial", "session"} /\ otp \in {"none", "live"}
    /\ wsock \in {"open", "closed"} /\ csock \in {"open", "closed"}
    /\ wreader \in {"reading", "requesting", "abandoned", "done"}
    /\ wwriter \in {"writing", "done"}
    /\ up \in Seq(Requests) /\ Len(up) <= WorkerCap
    /\ down \in Seq(Events) /\ Len(down) <= CaptainCap
    /\ cfg \in Versions /\ initialCfg \in Versions /\ answer \in Versions
    /\ serve \in {"check", "add", "done", "rejected"}
    /\ initial \in {"off", "query", "send", "done"}
    /\ creader \in {"off", "reading", "query", "answer", "reply", "removing", "done"}
    /\ cwriter \in {"off", "writing", "removing", "done"}
    /\ entry \in {"none", "current", "former"} /\ former \in BOOLEAN
    /\ db \in Versions /\ told \in Versions /\ missed \in BOOLEAN
    /\ admin \in {"idle", "committed", "notifying", "wedged"}
    /\ faults \in 0..MaxFaults

(* The worker starts without a connection.                                 *)
Init ==
    /\ loop = "login" /\ otp = "none"
    /\ wsock = "closed" /\ csock = "closed"
    /\ wreader = "done" /\ wwriter = "done"
    /\ up = << >> /\ down = << >>
    /\ cfg = 0 /\ initialCfg = 0 /\ answer = 0
    /\ serve = "rejected" /\ initial = "off" /\ creader = "off" /\ cwriter = "off"
    /\ entry = "none" /\ former = FALSE
    /\ db = 1 /\ told = 1 /\ admin = "idle"
    /\ faults = 0 /\ missed = FALSE

Fault == faults < MaxFaults /\ faults' = faults + 1

(* A broadcast holds the hub's mutex, for ever when it waits for a write   *)
(* pump that has ended.                                                    *)
MutexFree == admin \notin {"notifying", "wedged"}

CaptainRoomForOneMore == Len(down) <= CaptainCap    \* faulty variant

CaptainRoom == Len(down) < CaptainCap
WorkerRoom == Len(up) < WorkerCap

(* What a write pump may leave behind when it ends: the event in hand is   *)
(* lost with a failed write.                                               *)
LeftOf(queue) == {queue} \cup (IF queue = << >> THEN {} ELSE {Tail(queue)})

(* The three waits that never end: the worker's read pump for its own      *)
(* write pump, or for the caller of a login that has timed out or is       *)
(* itself stuck; and a broadcast for a write pump that has ended.          *)
ReaderAbandoned == wreader = "abandoned"
WorkerWedged == wreader = "requesting" /\ ~WorkerRoom /\ wwriter = "done"
NotifyWedged ==
    \/ admin = "wedged"
    \/ admin = "notifying" /\ entry = "current" /\ ~CaptainRoom /\ cwriter \in {"removing", "done"}

-----------------------------------------------------------------------------
(* The connection loop.  The pauses between its attempts are left out.     *)

Login ==
    /\ loop = "login"
    /\ loop' = "dial" /\ otp' = "live"
    /\ UNCHANGED <<wsock, wreader, wwriter, cfg, captain, queues, world>>

(* Any answer but 200 is taken for a login with an empty password.         *)
LoginRefused ==
    /\ loop = "login"
    /\ Fault
    /\ loop' = "dial" /\ otp' = "none"
    /\ UNCHANGED <<wsock, wreader, wwriter, cfg, captain, queues, db, admin, told, missed>>

(* Retention removes a password that is not used within ten seconds.       *)
OtpExpires ==
    /\ loop = "dial" /\ otp = "live"
    /\ Fault
    /\ otp' = "none"
    /\ UNCHANGED <<loop, wsock, wreader, wwriter, cfg, captain, queues, db, admin, told, missed>>

DialFails ==
    /\ loop = "dial"
    /\ IF otp = "live" THEN Fault ELSE UNCHANGED faults
    /\ loop' = "login" /\ otp' = "none"
    /\ UNCHANGED <<wsock, wreader, wwriter, cfg, captain, queues, db, admin, told, missed>>

(* VerifyOTP consumes the password; the previous connection, whatever of   *)
(* it the captain still has, becomes a former one, and a broadcast that    *)
(* waits for it goes on waiting.  ServeWS of the previous attempt, seconds *)
(* ago, has returned.                                                      *)
Dial ==
    /\ loop = "dial" /\ otp = "live"
    /\ serve \in {"done", "rejected"}
    /\ loop' = "session" /\ otp' = "none"
    /\ wsock' = "open" /\ csock' = "open"
    /\ wreader' = "reading" /\ wwriter' = "writing"
    /\ up' = << >> /\ down' = << >>
    /\ serve' = "check" /\ initial' = "off"
    /\ former' = (former \/ creader \notin {"off", "done"} \/ cwriter \notin {"off", "done"})
    /\ creader' = "off" /\ cwriter' = "off"
    /\ entry' = IF entry = "current" THEN "former" ELSE entry
    /\ admin' = IF NotifyWedged THEN "wedged" ELSE admin
    /\ missed' = FALSE
    /\ UNCHANGED <<cfg, initialCfg, answer, db, faults, told>>

(* Connect returns when both pumps have ended.                             *)
SessionEnds ==
    /\ loop = "session"
    /\ wreader = "done" /\ wwriter = "done"
    /\ loop' = "login"
    /\ UNCHANGED <<otp, wsock, wreader, wwriter, cfg, captain, queues, world>>

-----------------------------------------------------------------------------
(* The worker's pumps.                                                     *)

(* processVerifyUserResponse sends on the caller's channel from the read   *)
(* pump; whether the caller still receives, UserManager tells.             *)
Handle(event) ==
    /\ cfg' = IF event.type = "config" THEN event.cfg ELSE cfg
    /\ \/ /\ wreader' = IF event = PoolChange THEN "requesting" ELSE "reading"
          /\ UNCHANGED faults
       \/ /\ event = LoginSuccess
          /\ Fault
          /\ wreader' = "abandoned"

CanRead == wreader = "reading" /\ wsock = "open" /\ down # << >> /\ cwriter = "writing"

(* Faulty variant: a pool change is ignored.                               *)
WorkerReadsNoChange ==
    /\ CanRead
    /\ down' = Tail(down)
    /\ IF Head(down) = PoolChange THEN UNCHANGED <<wreader, cfg, faults>> ELSE Handle(Head(down))
    /\ UNCHANGED <<loop, otp, wsock, wwriter, captain, up, db, admin, told, missed>>

WorkerReads ==
    /\ CanRead
    /\ down' = Tail(down)
    /\ Handle(Head(down))
    /\ UNCHANGED <<loop, otp, wsock, wwriter, captain, up, db, admin, told, missed>>

(* processPoolChange runs in the read pump and blocks while the channel is *)
(* full, even when the connection is gone.                                 *)
WorkerRequests ==
    /\ wreader = "requesting"
    /\ WorkerRoom
    /\ up' = Append(up, "request")
    /\ wreader' = "reading"
    /\ UNCHANGED <<loop, otp, wsock, wwriter, cfg, captain, down, world>>

(* A proxied connection logs in, or has ended and reports its traffic.     *)
LoginOrReport ==
    /\ loop = "session"
    /\ WorkerRoom
    /\ up' = Append(up, "traffic")
    /\ UNCHANGED <<worker, captain, down, world>>

WorkerReaderEnds ==
    /\ wreader = "reading" /\ wsock = "closed"
    /\ wreader' = "done"
    /\ UNCHANGED <<loop, otp, wsock, wwriter, cfg, captain, queues, world>>

WorkerWriterEnds ==
    /\ wwriter = "writing" /\ wsock = "closed"
    /\ wwriter' = "done" /\ up' \in LeftOf(up)
    /\ UNCHANGED <<loop, otp, wsock, wreader, cfg, captain, down, world>>

-----------------------------------------------------------------------------
(* Losing the link: one end sees an error; the other one sees that the     *)
(* first is closed, or its own keep-alive runs out.                        *)

LinkLost ==
    /\ wsock = "open" /\ csock = "open"
    /\ Fault
    /\ \/ wsock' = "closed" /\ UNCHANGED csock
       \/ csock' = "closed" /\ UNCHANGED wsock
    /\ UNCHANGED <<loop, otp, wreader, wwriter, cfg, serve, initial, initialCfg, creader, answer,
                   cwriter, entry, former, queues, db, admin, told, missed>>

(* Each end waits for the other one with a full channel behind it: a write *)
(* deadline ends one of them.                                              *)
WriteDeadline ==
    /\ wreader = "requesting" /\ ~WorkerRoom /\ wwriter = "writing"
    /\ creader \in {"answer", "reply"} /\ ~CaptainRoom /\ cwriter = "writing"
    /\ \/ wsock = "open" /\ wsock' = "closed" /\ UNCHANGED csock
       \/ csock = "open" /\ csock' = "closed" /\ UNCHANGED wsock
    /\ UNCHANGED <<loop, otp, wreader, wwriter, cfg, serve, initial, initialCfg, creader, answer,
                   cwriter, entry, former, queues, world>>

(* The worker answers pings from its read pump, so the captain's read      *)
(* deadline ends a connection whose read pump waits for ever.              *)
PongMissed ==
    /\ ReaderAbandoned /\ csock = "open"
    /\ csock' = "closed"
    /\ UNCHANGED <<worker, serve, initial, initialCfg, creader, answer, cwriter, entry, former,
                   queues, world>>

(* A read pump that waits for ever notices nothing; a failed write does.   *)
WorkerNotices ==
    /\ wsock = "open" /\ csock = "closed"
    /\ ReaderAbandoned => up # << >>
    /\ wsock' = "closed"
    /\ UNCHANGED <<loop, otp, wreader, wwriter, cfg, captain, queues, world>>

CaptainNotices ==
    /\ csock = "open" /\ wsock = "closed"
    /\ csock' = "closed"
    /\ UNCHANGED <<worker, serve, initial, initialCfg, creader, answer, cwriter, entry, former,
                   queues, world>>

-----------------------------------------------------------------------------
(* The captain's side of the connection.                                   *)

CheckDuplicate ==
    /\ serve = "check"
    /\ MutexFree
    /\ IF entry = "none"
       THEN serve' = "add" /\ initial' = "query" /\ UNCHANGED csock
       ELSE serve' = "rejected" /\ csock' = "closed" /\ UNCHANGED initial
    /\ UNCHANGED <<worker, initialCfg, creader, answer, cwriter, entry, former, queues, world>>

AddWorker ==
    /\ serve = "add"
    /\ MutexFree
    /\ serve' = "done" /\ entry' = "current"
    /\ creader' = "reading" /\ cwriter' = "writing"
    /\ UNCHANGED <<worker, csock, initial, initialCfg, answer, former, queues, world>>

QueryInitial ==
    /\ initial = "query"
    /\ initial' = "send" /\ initialCfg' = db
    /\ UNCHANGED <<worker, csock, serve, creader, answer, cwriter, entry, former, queues, world>>

(* A failed query is only logged: the worker gets no configuration.        *)
QueryInitialFails ==
    /\ initial = "query"
    /\ Fault
    /\ initial' = "done"
    /\ missed' = TRUE
    /\ UNCHANGED <<worker, csock, serve, initialCfg, creader, answer, cwriter, entry, former,
                   queues, db, admin, told>>

SendInitial ==
    /\ initial = "send"
    /\ CaptainRoom
    /\ down' = Append(down, Config(initialCfg))
    /\ initial' = "done"
    /\ missed' = (missed \/ initialCfg < told)
    /\ UNCHANGED <<worker, csock, serve, initialCfg, creader, answer, cwriter, entry, former, up,
                   db, admin, faults, told>>

(* A message is delivered while the worker's write pump runs.  A login is  *)
(* answered, and so is a report that fails.                                *)
CaptainReads ==
    /\ creader = "reading" /\ csock = "open"
    /\ up # << >> /\ wwriter = "writing"
    /\ up' = Tail(up)
    /\ creader' \in IF Head(up) = "request" THEN {"query"} ELSE {"reading", "reply"}
    /\ UNCHANGED <<worker, csock, serve, initial, initialCfg, answer, cwriter, entry, former, down,
                   world>>

(* Faulty variant: the query may go to a replica that lags behind.         *)
CaptainQueriesReplica ==
    /\ creader = "query"
    /\ creader' = "answer" /\ answer' \in {db, db - 1}
    /\ UNCHANGED <<worker, csock, serve, initial, initialCfg, cwriter, entry, former, queues, world>>

CaptainQueries ==
    /\ creader = "query"
    /\ creader' = "answer" /\ answer' = db
    /\ UNCHANGED <<worker, csock, serve, initial, initialCfg, cwriter, entry, former, queues, world>>

(* A failed query, or one without rows, is answered with an error event.   *)
CaptainQueryFails ==
    /\ creader = "query"
    /\ Fault
    /\ creader' = "answer" /\ answer' = 0
    /\ missed' = TRUE
    /\ UNCHANGED <<worker, csock, serve, initial, initialCfg, cwriter, entry, former, queues, db,
                   admin, told>>

CaptainAnswers ==
    /\ creader = "answer"
    /\ CaptainRoom
    /\ down' = Append(down, IF answer = 0 THEN Error ELSE Config(answer))
    /\ creader' = "reading" /\ answer' = 0
    /\ UNCHANGED <<worker, csock, serve, initial, initialCfg, cwriter, entry, former, up, world>>

(* The error event of a failure does to the worker what an answer does     *)
(* that finds its caller, and is not told apart from it.                   *)
CaptainReplies ==
    /\ creader = "reply"
    /\ CaptainRoom
    /\ down' = Append(down, LoginSuccess)
    /\ creader' = "reading"
    /\ UNCHANGED <<worker, csock, serve, initial, initialCfg, answer, cwriter, entry, former, up, world>>

CaptainPumpEnds ==
    /\ csock = "closed"
    /\ \/ creader = "reading" /\ creader' = "removing" /\ UNCHANGED <<cwriter, down>>
       \/ cwriter = "writing" /\ cwriter' = "removing" /\ down' \in LeftOf(down) /\ UNCHANGED creader
    /\ UNCHANGED <<worker, csock, serve, initial, initialCfg, answer, entry, former, up, world>>

(* Faulty variant: the pump ends and leaves the registry as it is.         *)
CaptainPumpLeaves ==
    /\ MutexFree
    /\ \/ creader = "removing" /\ creader' = "done" /\ UNCHANGED cwriter
       \/ cwriter = "removing" /\ cwriter' = "done" /\ UNCHANGED creader
    /\ UNCHANGED <<worker, csock, serve, initial, initialCfg, answer, entry, former, queues, world>>

(* RemoveWorker deletes whatever is filed under the worker's id.           *)
CaptainPumpRemoves ==
    /\ MutexFree
    /\ \/ creader = "removing" /\ creader' = "done" /\ UNCHANGED cwriter
       \/ cwriter = "removing" /\ cwriter' = "done" /\ UNCHANGED creader
    /\ entry' = "none"
    /\ UNCHANGED <<worker, csock, serve, initial, initialCfg, answer, former, queues, world>>

(* A pump of a former connection does the same; there may be more of them. *)
FormerRemoves ==
    /\ former
    /\ MutexFree
    /\ entry' = "none"
    /\ former' \in BOOLEAN
    /\ UNCHANGED <<worker, csock, serve, initial, initialCfg, creader, answer, cwriter, queues,
                   world>>

-----------------------------------------------------------------------------
(* An administrator changes the pool; the broadcast follows the commit.    *)

Change ==
    /\ admin = "idle"
    /\ db <= MaxChanges
    /\ db' = db + 1 /\ admin' = "committed"
    /\ UNCHANGED <<worker, captain, queues, faults, told, missed>>

NotifyBegins ==
    /\ admin = "committed"
    /\ admin' = "notifying"
    /\ UNCHANGED <<worker, captain, queues, db, faults, told, missed>>

(* Faulty variant: a full channel is skipped.                              *)
NotifyEndsSkipping ==
    /\ admin = "notifying"
    /\ admin' = "idle" /\ told' = db
    /\ IF entry = "current"
       THEN UNCHANGED missed /\ down' = IF CaptainRoom THEN Append(down, PoolChange) ELSE down
       ELSE missed' = (missed \/ initial \in {"send", "done"} \/ creader = "answer") /\ UNCHANGED down
    /\ UNCHANGED <<worker, captain, up, db, faults>>

(* With no entry, or a former connection's, this connection is not told;   *)
(* what has been read for it by then is never corrected.                   *)
NotifyEnds ==
    /\ admin = "notifying"
    /\ admin' = "idle" /\ told' = db
    /\ IF entry = "current"
       THEN CaptainRoom /\ down' = Append(down, PoolChange) /\ UNCHANGED missed
       ELSE missed' = (missed \/ initial \in {"send", "done"} \/ creader = "answer") /\ UNCHANGED down
    /\ UNCHANGED <<worker, captain, up, db, faults>>

(* A former connection whose write pump has ended may have a full channel. *)
NotifyBlocks ==
    /\ admin = "notifying" /\ entry = "former"
    /\ admin' = "wedged"
    /\ UNCHANGED <<worker, captain, queues, db, faults, told, missed>>

-----------------------------------------------------------------------------
ConnectionLoop == Login \/ DialFails \/ Dial \/ SessionEnds
WorkerReader == WorkerReads \/ WorkerReaderEnds
Link == WorkerNotices \/ CaptainNotices \/ WriteDeadline \/ PongMissed
ServeWS == CheckDuplicate \/ AddWorker
InitialConfig == QueryInitial \/ SendInitial
CaptainReader == CaptainReads \/ CaptainQueries \/ CaptainAnswers \/ CaptainReplies
CaptainPumpsEnd == CaptainPumpEnds \/ CaptainPumpRemoves
Notify == NotifyBegins \/ NotifyEnds \/ NotifyBlocks
Faults == LoginRefused \/ OtpExpires \/ LinkLost \/ QueryInitialFails \/ CaptainQueryFails

Next ==
    \/ ConnectionLoop \/ WorkerReader \/ WorkerRequests \/ WorkerWriterEnds \/ LoginOrReport
    \/ Link \/ ServeWS \/ InitialConfig \/ CaptainReader \/ CaptainPumpsEnd \/ FormerRemoves
    \/ Change \/ Notify \/ Faults

(* Every goroutine that can take a step eventually takes one; a sender     *)
(* waiting on a channel is served in its turn, so the read pump's request  *)
(* is not overtaken for ever by logins and reports, nor the initial        *)
(* configuration and a broadcast by their answers.  A former connection's  *)
(* pumps see its end and unregister it.  Nothing obliges anyone to change  *)
(* a pool, to log in or to report, and no fault has to happen.             *)
Fairness ==
    /\ WF_vars(ConnectionLoop)
    /\ WF_vars(WorkerReader) /\ SF_vars(WorkerRequests) /\ WF_vars(WorkerWriterEnds)
    /\ WF_vars(Link)
    /\ WF_vars(ServeWS) /\ SF_vars(InitialConfig)
    /\ WF_vars(CaptainReader) /\ WF_vars(CaptainPumpsEnd)
    /\ WF_vars(entry = "former" /\ FormerRemoves)
    /\ SF_vars(Notify)

Spec == Init /\ [][Next]_vars
FairSpec == Spec /\ Fairness

-----------------------------------------------------------------------------
(* The worker goes back to an earlier configuration only where the one     *)
(* sent by the initial goroutine and one sent by the read pump meet: the   *)
(* answers to requests follow the order of the changes, and no connection  *)
(* begins with less than an earlier one ended with.                        *)
OnlyInitialRegresses == [][cfg' < cfg => initialCfg \in {cfg, cfg'}]_vars

(* When nothing is under way on a connection in use, the worker has the    *)
(* pool's current configuration, unless the initial one was overtaken by a *)
(* broadcast, a query failed, or the worker was not in the registry when   *)
(* the change was broadcast.                                               *)
Quiet ==
    /\ serve = "done" /\ initial = "done" /\ admin = "idle"
    /\ down = << >> /\ "request" \notin {up[i] : i \in DOMAIN up}
    /\ wreader = "reading" /\ creader = "reading"
    /\ wwriter = "writing" /\ cwriter = "writing"

QuietMeansCurrent == Quiet => cfg = db \/ missed

(* The three waits are for ever: nothing that happens to the worker, the   *)
(* captain or the link lets the read pump or the broadcast go on.          *)
SessionWedgesAreFinal ==
    [][/\ WorkerWedged => WorkerWedged'
       /\ ReaderAbandoned => ReaderAbandoned'
       /\ NotifyWedged => NotifyWedged']_vars

Connected ==
    /\ loop = "session" /\ wsock = "open" /\ wwriter = "writing"
    /\ csock = "open" /\ cwriter = "writing"

(* After the last fault the worker gets a connection that stays, unless    *)
(* somebody waits for ever: one answer to a caller that has timed out is   *)
(* enough to keep the worker from ever connecting again.                   *)
Waiting == WorkerWedged \/ ReaderAbandoned \/ NotifyWedged

SessionReturns == <>[](Connected \/ Waiting)

(* After the last fault and the last change the worker ends with the       *)
(* current configuration, with the exceptions above.                       *)
ConfigConverges == <>[](cfg = db \/ missed \/ Waiting)
=============================================================================

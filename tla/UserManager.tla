---------------------------- MODULE UserManager ----------------------------
(***************************************************************************)
(* A worker's user manager and the captain it asks: the cache of users,    *)
(* the proxy connections that verify a login (VerifyUser), the map of      *)
(* pending validations, the websocket read pump that answers them, the     *)
(* minute timer that rewrites the cache, and on the captain's side the     *)
(* login handler and the broadcast that follows a change of an account;    *)
(* and what becomes of all of it when the session is lost and the worker   *)
(* connects again, which the cache survives.                               *)
(* Source: worker/manager/{user_manager,websocket_manager,worker}.go,      *)
(* captain/internal/server/websocket/ws_manager.go (handleLogin,           *)
(* NotifyUserChange, RemoveWorker) and                                     *)
(* captain/internal/server/service/user_service.go.                        *)
(*                                                                         *)
(* Abstractions.  What VerifyUser tells apart in a user record is whether  *)
(* it may be served: "active", or "barred" (status not active, no entry    *)
(* for the worker's pool, or no data left).  A password is right or wrong; *)
(* it never changes.  Error events are ignored by the worker and left out. *)
(* A channel is one queue with the socket behind it, FIFO while the        *)
(* session lasts.  The worker's login, dial and entry in the registry are  *)
(* one step (WorkerSession has them all), and the worker has connected     *)
(* once before its first client.                                           *)
(***************************************************************************)
EXTENDS Naturals, Sequences

CONSTANTS
    Callers,     \* proxy connections verifying a login at the same time
    Users,       \* usernames
    ChanCap,     \* events under way in each direction
    MaxChanges,  \* bound: account changes not yet broadcast, for each user
    MaxFaults,   \* bound: sessions lost or unregistered, failed queries
    None,        \* no cache entry, no pending validation, no event
    Gone         \* the channel of a VerifyUser that has returned

ASSUME UserManagerAssumption ==
    /\ ChanCap \in Nat \ {0}
    /\ MaxChanges \in Nat /\ MaxFaults \in Nat
    /\ None \notin Callers \cup {Gone, "active", "barred"} /\ Gone \notin Callers

VARIABLES
    account,   \* the user table: "active", "barred" or "deleted"
    unsent,    \* committed changes of each user whose broadcast has not begun
    lookup,    \* captain's read pump: the reply it has built and not yet queued
    outbox,    \* worker to captain: verify_user requests
    inbox,     \* captain to worker: login_success and user_change events
    cache,     \* cachedUsers
    pending,   \* pendingValidations
    pc,        \* VerifyUser of each caller
    cred,      \* the user and whether the password is right, while it matters
    reader,    \* worker's read pump: idle, about to cache, or at respChan <- true
    snap,      \* entries resetConnectionCount has read and not yet written back
    conn,      \* the session: "registered", "removed", "cut" or "over"
    faults,    \* faults so far
    proven,    \* history: users whose password has been presented
    raced,     \* history: users for whom one of the two cache races happened
    missed     \* history: users of whom a change did not reach the worker

sessionVars == <<conn, faults, missed>>
vars == <<account, unsent, lookup, outbox, inbox, cache, pending, pc, cred,
          reader, snap, proven, raced, sessionVars>>

Served == {"active", "barred"}
Idle == [at |-> "idle", to |-> None, user |-> None, rec |-> None]

Stages == {"idle", "evict", "register", "post", "stranded", "waiting",
           "granted", "failed", "accepted", "rejected"}

(* No VerifyUser runs for the caller; the last one's verdict is kept.      *)
Returned == {"idle", "accepted", "rejected"}

(* The stages between pendingValidations.Store and its deferred Delete.    *)
Verifying == {"post", "stranded", "waiting", "granted", "failed"}

(* The pumps of both ends run; in "removed" the connection is no longer in *)
(* the captain's registry.  A session is "cut" until its read pump has     *)
(* ended too, and "over" from then on.                                     *)
Live == {"registered", "removed"}

Login(u, r) == [type |-> "login_success", user |-> u, rec |-> r]
Change(u)   == [type |-> "user_change", user |-> u, rec |-> None]
Requests    == [user : Users, right : BOOLEAN]
Logins      == [type : {"login_success"}, user : Users, rec : Served]
Changes     == [type : {"user_change"}, user : Users, rec : {None}]

ChannelsOK ==
    /\ outbox \in Seq(Requests) /\ Len(outbox) <= ChanCap
    /\ inbox \in Seq(Logins \cup Changes) /\ Len(inbox) <= ChanCap

TypeOK ==
    /\ account \in [Users -> Served \cup {"deleted"}]
    /\ unsent \in [Users -> 0..MaxChanges]
    /\ lookup \in {None} \cup Logins
    /\ ChannelsOK
    /\ cache \in [Users -> Served \cup {None}]
    /\ pending \in [Users -> Callers \cup {None}]
    /\ pc \in [Callers -> Stages]
    /\ cred \in [Callers -> Requests \cup {None}]
    /\ \A c \in Callers : pc[c] \in {"idle", "rejected"} \/ cred[c] \in Requests
    /\ reader \in {Idle} \cup [at : {"cache", "send"}, to : Callers \cup {Gone},
                            user : Users, rec : Served]
    /\ snap \in [Users -> Served \cup {None}]
    /\ conn \in Live \cup {"cut", "over"} /\ faults \in 0..MaxFaults
    /\ proven \subseteq Users /\ raced \subseteq Users /\ missed \subseteq Users

Init ==
    /\ account \in [Users -> Served]
    /\ unsent = [u \in Users |-> 0]
    /\ lookup = None
    /\ outbox = << >> /\ inbox = << >>
    /\ cache = [u \in Users |-> None]
    /\ pending = [u \in Users |-> None]
    /\ pc = [c \in Callers |-> "idle"]
    /\ cred = [c \in Callers |-> None]
    /\ reader = Idle
    /\ snap = [u \in Users |-> None]
    /\ conn = "registered" /\ faults = 0
    /\ proven = {} /\ raced = {} /\ missed = {}

captainVars == <<account, unsent, lookup>>
-----------------------------------------------------------------------------
(* VerifyUser, cache hit: GetUser, then the verdict; a user that may not   *)
(* be served, or a wrong password, evicts the entry.                       *)
Lookup(c) ==
    /\ pc[c] \in Returned
    /\ \E r \in Requests :
          /\ cred' = [cred EXCEPT ![c] = r]
          /\ pc' = [pc EXCEPT ![c] =
                      CASE cache[r.user] = None -> "register"
                        [] cache[r.user] = "active" /\ r.right -> "accepted"
                        [] OTHER -> "evict"]
    /\ UNCHANGED <<captainVars, outbox, inbox, cache, pending, reader, snap,
                   proven, raced, sessionVars>>

Evict(c) ==
    /\ pc[c] = "evict"
    /\ cache' = [cache EXCEPT ![cred[c].user] = None]
    /\ pc' = [pc EXCEPT ![c] = "rejected"]
    /\ cred' = [cred EXCEPT ![c] = None]
    /\ UNCHANGED <<captainVars, outbox, inbox, pending, reader, snap, proven, raced, sessionVars>>

(* Cache miss: a fresh channel is stored under the username, over whatever *)
(* channel another caller has stored there.                                *)
Register(c) ==
    /\ pc[c] = "register"
    /\ pending' = [pending EXCEPT ![cred[c].user] = c]
    /\ pc' = [pc EXCEPT ![c] = "post"]
    /\ UNCHANGED <<captainVars, outbox, inbox, cache, cred, reader, snap,
                   proven, raced, sessionVars>>

(* Faulty variant: the captain's answer is awaited without a time limit.   *)
TimeoutNever(c) == FALSE

(* Faulty variant: one event more than the channel has room for.           *)
HasRoomForOneMore == Len(outbox) <= ChanCap

HasRoom == Len(outbox) < ChanCap

(* The request is queued before the five seconds start to run, and also    *)
(* on the egress of a session that has ended.                              *)
Post(c) ==
    /\ pc[c] = "post"
    /\ HasRoom
    /\ outbox' = Append(outbox, cred[c])
    /\ pc' = [pc EXCEPT ![c] = "waiting"]
    /\ proven' = IF cred[c].right THEN proven \cup {cred[c].user} ELSE proven
    /\ UNCHANGED <<captainVars, inbox, cache, pending, cred, reader, snap, raced, sessionVars>>

(* Nobody empties that egress: once it is full WriteEvent never returns,   *)
(* for the next session has an egress of its own.                          *)
Strand(c) ==
    /\ pc[c] = "post"
    /\ conn \notin Live /\ ~HasRoom
    /\ pc' = [pc EXCEPT ![c] = "stranded"]
    /\ UNCHANGED <<captainVars, outbox, inbox, cache, pending, cred, reader,
                   snap, proven, raced, sessionVars>>

Timeout(c) ==
    /\ pc[c] = "waiting"
    /\ pc' = [pc EXCEPT ![c] = "failed"]
    /\ UNCHANGED <<captainVars, outbox, inbox, cache, pending, cred, reader,
                   snap, proven, raced, sessionVars>>

(* Faulty variant: the deferred Delete is missing.                         *)
ForgetNothing(c) == UNCHANGED pending

(* The deferred Delete removes the username, whoever's channel is there.   *)
Forget(c) == pending' = [pending EXCEPT ![cred[c].user] = None]

Return(c) ==
    /\ pc[c] \in {"granted", "failed"}
    /\ Forget(c)
    /\ IF pc[c] = "granted"
       THEN pc' = [pc EXCEPT ![c] = "accepted"] /\ UNCHANGED cred
       ELSE pc' = [pc EXCEPT ![c] = "rejected"] /\ cred' = [cred EXCEPT ![c] = None]
    /\ reader' = IF reader.to = c THEN [reader EXCEPT !.to = Gone] ELSE reader
    /\ UNCHANGED <<captainVars, outbox, inbox, cache, snap, proven, raced, sessionVars>>

-----------------------------------------------------------------------------
(* The worker's read pump.                                                 *)

(* Faulty variant: the entry is left in the cache.                         *)
ReadChangeIgnored ==
    /\ reader = Idle
    /\ inbox # << >> /\ Head(inbox).type = "user_change"
    /\ inbox' = Tail(inbox)
    /\ UNCHANGED <<captainVars, outbox, cache, pending, pc, cred, reader, snap,
                   proven, raced, sessionVars>>

ReadChange ==
    /\ reader = Idle
    /\ inbox # << >> /\ Head(inbox).type = "user_change"
    /\ inbox' = Tail(inbox)
    /\ LET u == Head(inbox).user IN
          /\ cache' = [cache EXCEPT ![u] = None]
          /\ raced' = IF snap[u] = "active" THEN raced \cup {u} ELSE raced
    /\ UNCHANGED <<captainVars, outbox, pending, pc, cred, reader, snap, proven, sessionVars>>

(* Faulty variant: each answer is handled in a goroutine of its own.       *)
ReadLoginBeside ==
    /\ inbox # << >> /\ Head(inbox).type = "login_success"
    /\ inbox' = Tail(inbox)
    /\ LET e == Head(inbox) IN
          reader' = IF pending[e.user] = None THEN Idle
                    ELSE [at |-> "cache", to |-> pending[e.user], user |-> e.user, rec |-> e.rec]
    /\ UNCHANGED <<captainVars, outbox, cache, pending, pc, cred, snap, proven, raced, sessionVars>>

(* processVerifyUserResponse: nothing without a pending validation; else   *)
(* the record is cached and the pump sends true on the channel it loaded.  *)
ReadLogin ==
    /\ reader = Idle
    /\ inbox # << >> /\ Head(inbox).type = "login_success"
    /\ inbox' = Tail(inbox)
    /\ LET e == Head(inbox) IN
          reader' = IF pending[e.user] = None THEN Idle
                    ELSE [at |-> "cache", to |-> pending[e.user], user |-> e.user, rec |-> e.rec]
    /\ UNCHANGED <<captainVars, outbox, cache, pending, pc, cred, snap, proven, raced, sessionVars>>

SetUser ==
    /\ reader.at = "cache"
    /\ cache' = [cache EXCEPT ![reader.user] = reader.rec]
    /\ reader' = [reader EXCEPT !.at = "send"]
    /\ UNCHANGED <<captainVars, outbox, inbox, pending, pc, cred, snap, proven, raced, sessionVars>>

(* respChan is unbuffered: sender and receiver meet.                       *)
Deliver(c) ==
    /\ reader.at = "send" /\ reader.to = c
    /\ pc[c] = "waiting"
    /\ pc' = [pc EXCEPT ![c] = "granted"]
    /\ reader' = Idle
    /\ UNCHANGED <<captainVars, outbox, inbox, cache, pending, cred, snap,
                   proven, raced, sessionVars>>

-----------------------------------------------------------------------------
(* Timers.  An entry past its time to live counts as absent: GetUser drops *)
(* it and so does cleanupLoop.  The copy the minute timer holds is as old  *)
(* as the entry in the cache or older, so it expires no later.             *)
Expire(u) ==
    /\ cache[u] # None \/ snap[u] # None
    /\ \E dropped \in {cache, [cache EXCEPT ![u] = None]} : cache' = dropped
    /\ snap' = [snap EXCEPT ![u] = None]
    /\ UNCHANGED <<captainVars, outbox, inbox, pending, pc, cred, reader,
                   proven, raced, sessionVars>>

(* resetConnectionCount copies the map, shard by shard, and only then      *)
(* writes the entries back.                                                *)
ResetRead(u) ==
    /\ snap[u] = None /\ cache[u] # None
    /\ snap' = [snap EXCEPT ![u] = cache[u]]
    /\ UNCHANGED <<captainVars, outbox, inbox, cache, pending, pc, cred, reader,
                   proven, raced, sessionVars>>

ResetWrite(u) ==
    /\ snap[u] # None
    /\ cache' = [cache EXCEPT ![u] = snap[u]]
    /\ snap' = [snap EXCEPT ![u] = None]
    /\ UNCHANGED <<captainVars, outbox, inbox, pending, pc, cred, reader,
                   proven, raced, sessionVars>>

-----------------------------------------------------------------------------
(* The captain.                                                            *)

(* Faulty variant: the password is not compared.                           *)
GrantsAnyPassword(r) == account[r.user] \in Served

(* handleLogin compares the password and looks at nothing else.            *)
Grants(r) == account[r.user] \in Served /\ r.right

CaptainReads ==
    /\ conn \in Live /\ lookup = None
    /\ outbox # << >>
    /\ outbox' = Tail(outbox)
    /\ lookup' = IF Grants(Head(outbox))
                 THEN Login(Head(outbox).user, account[Head(outbox).user])
                 ELSE None
    /\ UNCHANGED <<account, unsent, inbox, cache, pending, pc, cred, reader,
                   snap, proven, raced, sessionVars>>

CaptainReplies ==
    /\ conn \in Live /\ lookup # None
    /\ Len(inbox) < ChanCap
    /\ inbox' = Append(inbox, lookup)
    /\ lookup' = None
    /\ UNCHANGED <<account, unsent, outbox, cache, pending, pc, cred, reader,
                   snap, proven, raced, sessionVars>>

(* UpdateUserStatus, DeleteUser, the pool and whitelist requests: the      *)
(* change is committed first and broadcast afterwards.                     *)
ChangeAccount(u) ==
    /\ account[u] # "deleted"
    /\ unsent[u] < MaxChanges
    /\ \E s \in (Served \cup {"deleted"}) \ {account[u]} :
          account' = [account EXCEPT ![u] = s]
    /\ unsent' = [unsent EXCEPT ![u] = @ + 1]
    /\ UNCHANGED <<lookup, outbox, inbox, cache, pending, pc, cred, reader,
                   snap, proven, raced, sessionVars>>

(* The broadcast goes to the connections in the registry: a worker that is *)
(* away, or whose former connection took it out, is not told.              *)
NotifyUserChange(u) ==
    /\ unsent[u] > 0
    /\ unsent' = [unsent EXCEPT ![u] = @ - 1]
    /\ IF conn = "registered"
       THEN /\ Len(inbox) < ChanCap
            /\ inbox' = Append(inbox, Change(u))
            /\ raced' = IF lookup = Login(u, "active") THEN raced \cup {u} ELSE raced
            /\ UNCHANGED missed
       ELSE missed' = missed \cup {u} /\ UNCHANGED <<inbox, raced>>
    /\ UNCHANGED <<account, lookup, outbox, cache, pending, pc, cred, reader,
                   snap, proven, conn, faults>>

Fault == faults < MaxFaults /\ faults' = faults + 1

(* The query for the user's name fails, as when a deletion overlaps the    *)
(* change, and its error is dropped: the broadcast names nobody.  (That    *)
(* event evicts nothing and is left out.)                                  *)
NotifyNobody(u) ==
    /\ unsent[u] > 0
    /\ Fault
    /\ unsent' = [unsent EXCEPT ![u] = @ - 1]
    /\ missed' = missed \cup {u}
    /\ UNCHANGED <<account, lookup, outbox, inbox, cache, pending, pc, cred,
                   reader, snap, proven, raced, conn>>

-----------------------------------------------------------------------------
(* The session.                                                            *)

(* Both write pumps end: an answer the captain has not queued is lost, and *)
(* so are the requests that have left the worker's egress.                 *)
LinkLost ==
    /\ conn \in Live
    /\ Fault
    /\ conn' = "cut"
    /\ lookup' = None
    /\ \E k \in 1..(Len(outbox) + 1) : outbox' = SubSeq(outbox, k, Len(outbox))
    /\ UNCHANGED <<account, unsent, inbox, cache, pending, pc, cred, reader,
                   snap, proven, raced, missed>>

(* The worker's read pump sees the end after whatever still reached it.    *)
ReaderEnds ==
    /\ conn = "cut" /\ reader = Idle
    /\ conn' = "over"
    /\ inbox' = << >>
    /\ missed' = missed \cup {u \in Users : \E i \in DOMAIN inbox : inbox[i] = Change(u)}
    /\ UNCHANGED <<account, unsent, lookup, outbox, cache, pending, pc, cred,
                   reader, snap, proven, raced, faults>>

(* Connect has returned and is called again; the new websocketManager has  *)
(* an empty egress.                                                        *)
Reconnect ==
    /\ conn = "over"
    /\ conn' = "registered"
    /\ outbox' = << >>
    /\ UNCHANGED <<account, unsent, lookup, inbox, cache, pending, pc, cred,
                   reader, snap, proven, raced, missed, faults>>

(* RemoveWorker, by worker id, from a pump of an earlier connection of     *)
(* this worker, which may be from before the first state.                  *)
FormerRemoves ==
    /\ conn = "registered"
    /\ Fault
    /\ conn' = "removed"
    /\ UNCHANGED <<account, unsent, lookup, outbox, inbox, cache, pending, pc,
                   cred, reader, snap, proven, raced, missed>>

-----------------------------------------------------------------------------
Caller(c) == \/ Lookup(c) \/ Evict(c) \/ Register(c) \/ Post(c) \/ Strand(c)
             \/ Timeout(c) \/ Deliver(c) \/ Return(c)

Session == LinkLost \/ ReaderEnds \/ Reconnect \/ FormerRemoves

Next ==
    \/ \E c \in Callers : Caller(c)
    \/ ReadChange \/ ReadLogin \/ SetUser
    \/ \E u \in Users : \/ Expire(u) \/ ResetRead(u) \/ ResetWrite(u)
                      \/ ChangeAccount(u) \/ NotifyUserChange(u) \/ NotifyNobody(u)
    \/ CaptainReads \/ CaptainReplies
    \/ Session

(* Goroutines that can run do run and the five seconds pass; nothing       *)
(* obliges a client to log in, an account to change or expire, or the      *)
(* captain to take the worker back.  A send on a full channel is served in *)
(* the order of arrival, hence the strong fairness; a VerifyUser is at one *)
(* of the listed steps at a time.                                          *)
Fairness ==
    /\ \A c \in Callers :
          SF_vars(Evict(c) \/ Register(c) \/ Post(c) \/ Strand(c) \/ Timeout(c)
                  \/ Deliver(c) \/ Return(c))
    /\ WF_vars(ReadChange \/ ReadLogin \/ SetUser \/ ReaderEnds)
    /\ SF_vars(CaptainReads \/ CaptainReplies)

Spec == Init /\ [][Next]_vars
FairSpec == Spec /\ Fairness

-----------------------------------------------------------------------------
(* A pending validation belongs to a VerifyUser that has not returned, so  *)
(* an answer can find no channel of an earlier login: true although every  *)
(* caller overwrites and deletes the entry of any other for the same user. *)
PendingOnlyWhileVerifying ==
    \A u \in Users : pending[u] # None =>
        pc[pending[u]] \in Verifying /\ cred[pending[u]].user = u

(* Nobody is let in as a user whose password no client has ever presented  *)
(* to this worker, whatever channels are shared, overwritten or reset.     *)
OnlyProvenUsersEnter ==
    \A c \in Callers : pc[c] \in {"granted", "accepted"} => cred[c].user \in proven

(* The worker serves from its cache a user the captain has barred only     *)
(* while the change is on its way or sits in the channel, or for one of    *)
(* three causes: a login answered from before the change and queued behind *)
(* it; the minute timer writing back an entry the change had removed; or a *)
(* change that never came, because the worker was not in the registry, the *)
(* session ended with the change in it, or the broadcast named nobody.     *)
(* Connecting again clears nothing: the cache survives the session.        *)
ChangeOnItsWay(u) ==
    unsent[u] > 0 \/ \E i \in 1..Len(inbox) : inbox[i] = Change(u)

StaleOnlyByCause ==
    \A u \in Users : cache[u] = "active" /\ account[u] # "active"
                        => ChangeOnItsWay(u) \/ u \in raced \/ u \in missed

(* Every login is answered, unless its own request is stranded on the full *)
(* egress of a session that has ended, or the read pump ends up stuck for  *)
(* good: on the channel of a caller that has timed out, or on that of one  *)
(* whose request is stranded, or waits for room while everything behind    *)
(* the pump is full.                                                       *)
Answered(c) == pc[c] \in {"accepted", "rejected"}

Stuck ==
    /\ reader.at = "send"
    /\ reader.to # Gone => pc[reader.to] \in {"post", "stranded"}

LoginsEndUnlessStuck ==
    \A c \in Callers : <>[]Stuck \/ (pc[c] = "register" ~> Answered(c) \/ pc[c] = "stranded")

(* A read pump whose caller timed out while it was caching the answer, or  *)
(* is stranded, is lost for good: what the captain sends, changes of       *)
(* accounts included, piles up unread, no VerifyUser succeeds that is not  *)
(* answered from the cache, and the session, lost or not, is never over,   *)
(* so that the worker does not connect again.                              *)
Abandoned == reader.at = "send" /\ (reader.to # Gone => pc[reader.to] = "stranded")

AbandonedForGood ==
    [][Abandoned =>
          /\ UNCHANGED reader
          /\ \A i \in DOMAIN inbox : i \in DOMAIN inbox' /\ inbox'[i] = inbox[i]
          /\ \A c \in Callers : pc'[c] = "granted" => pc[c] = "granted"
          /\ conn' # "over"]_vars

-----------------------------------------------------------------------------
(* Claims of the repository that the code does not meet.                   *)

(* user_manager_test.go: "Invalid password should return false".           *)
InvalidPasswordRejected ==
    \A c \in Callers : pc[c] = "accepted" => cred[c].right
=============================================================================

---------------------------- MODULE CaptainStore ----------------------------
(***************************************************************************)
(* The captain's database behind its admin API: what each request of the   *)
(* pool, user and worker services changes, what the schema then deletes    *)
(* along with it, and how the connected workers get to hear of it.         *)
(* Source: captain/internal/server/service/{pool,user,worker}_service.go,  *)
(* captain/internal/db/repository/*.sql.go and captain/sql/migrations.     *)
(*                                                                         *)
(* Abstractions.  A SQL statement is a step, and so is a transaction: it   *)
(* takes the row locks that make it one.  A request whose statement fails  *)
(* or changes nothing ends there and is left out.  Rows keep what a worker *)
(* is sent: not the data limits, domains and countries.  Ids are random,   *)
(* so that none comes back; a pool's tag never changes and is given with   *)
(* its id.  A notification is a step: CaptainHub has what happens in it,   *)
(* and WorkerSession and UserManager what a worker makes of it.            *)
(***************************************************************************)
EXTENDS Naturals, FiniteSets

CONSTANTS
    Admins,     \* bound: requests at a time that end with a notification
    Regions,
    Upstreams,
    PoolIds, Tags, TagOf,     \* the tag each pool is created with
    WorkerRegion, \* the region each worker is created in
    Settings,   \* subdomain and port of a pool
    WorkerIds,
    UserIds,
    IPs,
    None

ASSUME StoreAssumption ==
    /\ TagOf \in [PoolIds -> Tags]
    /\ WorkerRegion \in [WorkerIds -> Regions]
    /\ None \notin PoolIds \cup UserIds \cup Settings
    /\ PoolIds \cap UserIds = {} /\ PoolIds \cap WorkerIds = {} /\ UserIds \cap WorkerIds = {}

VARIABLES
    regions, upstreams, pools, users, workers,  \* the ids of the rows there are
    spent,      \* the ids of pools, users and workers whose rows are gone
    settings,   \* of each pool
    located,    \* region_id of each pool
    weights,    \* pool_upstream_weight: <<pool, upstream>>
    status,     \* of each user
    allowed,    \* user_pools: <<user, pool>>
    whitelist,  \* user_ip_whitelist: <<user, ip>>
    home,       \* pool_id of each worker
    online,     \* the hub's registry: the PoolId of each connected worker
    req,        \* where each request is
    untold,     \* history: connected workers and users with a change since the
                \* last notification that names them
    excused     \* history: those of them that were changed without one

rows == <<regions, upstreams, pools, users, workers, spent, settings, located, weights,
          status, allowed, whitelist, home>>
vars == <<regions, upstreams, pools, users, workers, spent, settings, located, weights,
          status, allowed, whitelist, home, online, req, untold, excused>>

Statuses == {"active", "suspended", "deleted"}

Idle == [at |-> "idle", key |-> None, found |-> None]

Requests ==
    {Idle} \cup [at : {"findUser", "deleteUser", "tellUser"}, key : UserIds,
                found : UserIds \cup {None}]
           \cup [at : {"findPool", "tellPool"}, key : PoolIds, found : PoolIds \cup {None}]
           \cup [at : {"deletePool"}, key : Tags, found : PoolIds \cup {None}]

TypeOK ==
    /\ regions \subseteq Regions /\ upstreams \subseteq Upstreams
    /\ pools \subseteq PoolIds /\ users \subseteq UserIds /\ workers \subseteq WorkerIds
    /\ spent \subseteq PoolIds \cup UserIds \cup WorkerIds
    /\ spent \cap (pools \cup users \cup workers) = {}
    /\ settings \in [PoolIds -> Settings \cup {None}]
    /\ located \in [PoolIds -> Regions \cup {None}]
    /\ weights \subseteq PoolIds \X Upstreams
    /\ status \in [UserIds -> Statuses]
    /\ allowed \subseteq UserIds \X PoolIds
    /\ whitelist \subseteq UserIds \X IPs
    /\ home \in [WorkerIds -> PoolIds \cup {None}]
    /\ online \in [WorkerIds -> PoolIds \cup {None}]
    /\ req \in [Admins -> Requests]
    /\ untold \subseteq WorkerIds \cup UserIds /\ excused \subseteq untold

Init ==
    /\ regions = Regions /\ upstreams = {} /\ pools = {} /\ users = {} /\ workers = {}
    /\ spent = {}
    /\ settings = [p \in PoolIds |-> None] /\ located = [p \in PoolIds |-> None]
    /\ weights = {}
    /\ status = [u \in UserIds |-> "active"]
    /\ allowed = {} /\ whitelist = {}
    /\ home = [w \in WorkerIds |-> None]
    /\ online = [w \in WorkerIds |-> None]
    /\ req = [a \in Admins |-> Idle]
    /\ untold = {} /\ excused = {}

-----------------------------------------------------------------------------
(* What the queries return.                                                *)

PoolsTagged(tags) == {p \in pools : TagOf[p] \in tags}

(* The rows that statements insert or delete.                              *)
Granted(u, tags) == {u} \X PoolsTagged(tags)

Listed(u, ips) == {u} \X ips

Weighted(p, used) == {p} \X used

(* GetWorkerPoolConfig: a row for each upstream of the worker's pool.      *)
Config(w) ==
    {<<settings[row[1]], row[2]>> : row \in {r \in weights : w \in workers /\ r[1] = home[w]}}

(* GetUserbyId.                                                            *)
Username(u) == IF u \in users THEN u ELSE None

(* GetUserByUsername, which answers a worker's verify_user.                *)
Record(u) ==
    [there |-> u \in users, status |-> status[u],
     pools |-> {r \in allowed : r[1] = u}, ips |-> {r \in whitelist : r[1] = u}]

Affected ==
    {w \in WorkerIds : online[w] # None /\ Config(w)' # Config(w)}
        \cup {u \in users : Record(u)' # Record(u)}

(* History: who is affected, which of these the request does not tell, and *)
(* who can no longer be told of what was under way.                        *)
Note(silent, lost) ==
    /\ untold' = untold \cup Affected
    /\ excused' = excused \cup (Affected \cap silent) \cup (untold' \cap lost)

(* The workers a pool_change for that id is sent to.                       *)
Hears(p) == {w \in WorkerIds : online[w] = p}

Nobody == {}
Everybody == WorkerIds \cup UserIds

Begin(a, step, key, found) ==
    req' = [req EXCEPT ![a] = [at |-> step, key |-> key, found |-> found]]

End(a) == req' = [req EXCEPT ![a] = Idle]

-----------------------------------------------------------------------------
(* Regions, upstreams and workers: requests of one statement that notify   *)
(* nobody.  The schema deletes a region's and a pool's workers with it; a  *)
(* region with pools cannot be deleted, as their region_id is NOT NULL.    *)

CreateRegion(r) ==
    /\ r \notin regions
    /\ regions' = regions \cup {r}
    /\ UNCHANGED <<upstreams, pools, users, workers, spent, settings, located, weights, status, allowed,
                   whitelist, home, online, req>>
    /\ Note(Nobody, Nobody)

DeleteRegion(r) ==
    LET gone == {w \in workers : WorkerRegion[w] = r} IN
    /\ r \in regions /\ \A p \in pools : located[p] # r
    /\ regions' = regions \ {r}
    /\ workers' = workers \ gone /\ spent' = spent \cup gone
    /\ home' = [w \in WorkerIds |-> IF w \in gone THEN None ELSE home[w]]
    /\ UNCHANGED <<upstreams, pools, users, settings, located, weights, status, allowed, whitelist, online, req>>
    /\ Note(Everybody, Nobody)

CreateUpstream(s) ==
    /\ s \notin upstreams
    /\ upstreams' = upstreams \cup {s}
    /\ UNCHANGED <<regions, pools, users, workers, spent, settings, located, weights, status, allowed,
                   whitelist, home, online, req>>
    /\ Note(Nobody, Nobody)

DeleteUpstream(s) ==
    /\ s \in upstreams
    /\ upstreams' = upstreams \ {s}
    /\ weights' = {row \in weights : row[2] # s}
    /\ UNCHANGED <<regions, pools, users, workers, spent, settings, located, status, allowed, whitelist,
                   home, online, req>>
    /\ Note(Everybody, Nobody)

CreateWorker(w, p) ==
    /\ w \notin workers \cup spent
    /\ p \in pools /\ WorkerRegion[w] \in regions
    /\ workers' = workers \cup {w}
    /\ home' = [home EXCEPT ![w] = p]
    /\ UNCHANGED <<regions, upstreams, pools, users, spent, settings, located, weights, status, allowed,
                   whitelist, online, req>>
    /\ Note(Nobody, Nobody)

DeleteWorker(w) ==
    /\ w \in workers
    /\ workers' = workers \ {w} /\ spent' = spent \cup {w}
    /\ home' = [home EXCEPT ![w] = None]
    /\ UNCHANGED <<regions, upstreams, pools, users, settings, located, weights, status, allowed, whitelist,
                   online, req>>
    /\ Note(Everybody, Nobody)

(* ServeWS: the worker is registered with the pool its row has, and asks   *)
(* for its configuration.                                                  *)
Connect(w) ==
    /\ w \in workers /\ online[w] = None
    /\ online' = [online EXCEPT ![w] = home[w]]
    /\ UNCHANGED <<rows, req, untold, excused>>

Disconnect(w) ==
    /\ online[w] # None
    /\ online' = [online EXCEPT ![w] = None]
    /\ untold' = untold \ {w} /\ excused' = excused \ {w}
    /\ UNCHANGED <<rows, req>>

-----------------------------------------------------------------------------
(* Pools.  The tag of a pool is unique.                                    *)

Place(p) ==
    /\ \E value \in Settings : settings' = [settings EXCEPT ![p] = value]
    /\ \E r \in regions : located' = [located EXCEPT ![p] = r]

CreatePool(p, used) ==
    /\ p \notin pools \cup spent /\ PoolsTagged({TagOf[p]}) = {}
    /\ used \subseteq upstreams
    /\ pools' = pools \cup {p}
    /\ Place(p)
    /\ weights' = weights \cup Weighted(p, used)
    /\ UNCHANGED <<regions, upstreams, users, workers, spent, status, allowed, whitelist, home,
                   online, req>>
    /\ Note(Nobody, Nobody)

(* The region, subdomain and port that are not given stay; the statement   *)
(* returns the row it has changed.                                         *)
UpdatePool(a, p) ==
    /\ req[a] = Idle /\ p \in pools
    /\ Place(p)
    /\ Begin(a, "tellPool", p, p)
    /\ UNCHANGED <<regions, upstreams, pools, users, workers, spent, weights, status, allowed,
                   whitelist, home, online>>
    /\ Note(Nobody, Nobody)

AddPoolUpstreamWeight(a, p, s) ==
    /\ req[a] = Idle /\ p \in pools /\ s \in upstreams /\ <<p, s>> \notin weights
    /\ weights' = weights \cup {<<p, s>>}
    /\ Begin(a, "findPool", p, None)
    /\ UNCHANGED <<regions, upstreams, pools, users, workers, spent, settings, located, status, allowed,
                   whitelist, home, online>>
    /\ Note(Nobody, Nobody)

DeletePoolUpstreamWeight(a, p, s) ==
    /\ req[a] = Idle /\ <<p, s>> \in weights
    /\ weights' = weights \ {<<p, s>>}
    /\ Begin(a, "findPool", p, None)
    /\ UNCHANGED <<regions, upstreams, pools, users, workers, spent, settings, located, status, allowed,
                   whitelist, home, online>>
    /\ Note(Nobody, Nobody)

(* Both then look the id up by the tag, and panic where there is no row.   *)
FindPool(a) ==
    /\ req[a].at = "findPool"
    /\ LET there == PoolsTagged({TagOf[req[a].key]}) IN
       \/ there = {} /\ End(a)
       \/ \E p \in there : Begin(a, "tellPool", req[a].key, p)
    /\ UNCHANGED <<rows, online, untold, excused>>

(* The lookup fails, for instance because the client has gone.             *)
FindPoolFails(a) ==
    /\ req[a].at = "findPool"
    /\ End(a)
    /\ excused' = excused \cup {w \in untold \cap WorkerIds : online[w] = req[a].key}
    /\ UNCHANGED <<rows, online, untold>>

(* DeletePool looks the id up before it deletes by the tag.                *)
FindPoolToDelete(a, t) ==
    /\ req[a] = Idle
    /\ LET there == PoolsTagged({t}) IN
       \/ there = {} /\ Begin(a, "deletePool", t, None)
       \/ \E p \in there : Begin(a, "deletePool", t, p)
    /\ UNCHANGED <<rows, online, untold, excused>>

(* Faulty variant: user_pools lacks its ON DELETE CASCADE.                 *)
DropPoolOnly(p) ==
    LET gone == {w \in workers : home[w] = p} IN
    /\ pools' = pools \ {p}
    /\ settings' = [settings EXCEPT ![p] = None] /\ located' = [located EXCEPT ![p] = None]
    /\ weights' = {row \in weights : row[1] # p}
    /\ allowed' = allowed
    /\ workers' = workers \ gone /\ spent' = spent \cup {p} \cup gone
    /\ home' = [w \in WorkerIds |-> IF w \in gone THEN None ELSE home[w]]

DropPool(p) ==
    LET gone == {w \in workers : home[w] = p} IN
    /\ pools' = pools \ {p}
    /\ settings' = [settings EXCEPT ![p] = None] /\ located' = [located EXCEPT ![p] = None]
    /\ weights' = {row \in weights : row[1] # p}
    /\ allowed' = {row \in allowed : row[2] # p}
    /\ workers' = workers \ gone /\ spent' = spent \cup {p} \cup gone
    /\ home' = [w \in WorkerIds |-> IF w \in gone THEN None ELSE home[w]]

(* Faulty variant: the id is looked up after the deletion, as elsewhere.   *)
DeletePoolThenFind(a) ==
    /\ req[a].at = "deletePool"
    /\ \E p \in PoolsTagged({req[a].key}) :
        /\ DropPool(p)
        /\ Begin(a, "findPool", p, None)
        /\ UNCHANGED <<regions, upstreams, users, status, whitelist, online>>
        /\ Note(UserIds, Nobody)

(* Nobody tells the users whose row of user_pools goes with the pool; and  *)
(* the workers only if it is the pool that was looked up.                  *)
DeletePool(a) ==
    /\ req[a].at = "deletePool"
    /\ \E p \in PoolsTagged({req[a].key}) :
        /\ DropPool(p)
        /\ IF req[a].found = None THEN End(a)
           ELSE Begin(a, "tellPool", req[a].found, req[a].found)
        /\ UNCHANGED <<regions, upstreams, users, status, whitelist, online>>
        /\ Note(UserIds, IF req[a].found = p THEN Nobody ELSE Hears(p))

NothingDeleted(a) ==
    /\ req[a].at = "deletePool" /\ PoolsTagged({req[a].key}) = {}
    /\ End(a)
    /\ UNCHANGED <<rows, online, untold, excused>>

(* NotifyPoolChange                                                        *)
TellPool(a) ==
    /\ req[a].at = "tellPool"
    /\ End(a)
    /\ untold' = untold \ Hears(req[a].found)
    /\ excused' = excused \ Hears(req[a].found)
    /\ UNCHANGED <<rows, online>>

-----------------------------------------------------------------------------
(* Users.                                                                  *)

(* Faulty variant: the tags themselves are stored, and not the pools' ids. *)
CreateUserWithTags(u, tags, ips) ==
    /\ u \notin users \cup spent
    /\ users' = users \cup {u}
    /\ allowed' = allowed \cup ({u} \X tags)
    /\ whitelist' = whitelist \cup Listed(u, ips)
    /\ UNCHANGED <<regions, upstreams, pools, workers, spent, settings, located, weights, status, home,
                   online, req>>
    /\ Note(Nobody, Nobody)

CreateUser(u, tags, ips) ==
    /\ u \notin users \cup spent
    /\ tags = {} \/ PoolsTagged(tags) # {}
    /\ users' = users \cup {u}
    /\ allowed' = allowed \cup Granted(u, tags)
    /\ whitelist' = whitelist \cup Listed(u, ips)
    /\ UNCHANGED <<regions, upstreams, pools, workers, spent, settings, located, weights, status, home,
                   online, req>>
    /\ Note(Nobody, Nobody)

(* The statement returns the row, with the username.                       *)
UpdateUserStatus(a, u, new) ==
    /\ req[a] = Idle /\ u \in users
    /\ status' = [status EXCEPT ![u] = new]
    /\ Begin(a, "tellUser", u, u)
    /\ UNCHANGED <<regions, upstreams, pools, users, workers, spent, settings, located, weights, allowed,
                   whitelist, home, online>>
    /\ Note(Nobody, Nobody)

(* Pools and addresses are given to a user and taken away with a statement *)
(* that must change a row; then the username is looked up by the id.       *)
ChangeUserPools(a, u) ==
    /\ req[a] = Idle /\ u \in users
    /\ \E tags \in SUBSET Tags :
        allowed' \in {allowed \cup Granted(u, tags), allowed \ Granted(u, tags)}
    /\ allowed' # allowed
    /\ Begin(a, "findUser", u, None)
    /\ UNCHANGED <<regions, upstreams, pools, users, workers, spent, settings, located, weights, status,
                   whitelist, home, online>>
    /\ Note(Nobody, Nobody)

ChangeUserIpWhitelist(a, u) ==
    /\ req[a] = Idle /\ u \in users
    /\ \E ips \in SUBSET IPs :
        whitelist' \in {whitelist \cup Listed(u, ips), whitelist \ Listed(u, ips)}
    /\ whitelist' # whitelist
    /\ Begin(a, "findUser", u, None)
    /\ UNCHANGED <<regions, upstreams, pools, users, workers, spent, settings, located, weights, status,
                   allowed, home, online>>
    /\ Note(Nobody, Nobody)

(* The error is ignored: without a row the username is empty.              *)
FindUser(a) ==
    /\ req[a].at = "findUser"
    /\ Begin(a, "tellUser", req[a].key, Username(req[a].key))
    /\ UNCHANGED <<rows, online, untold, excused>>

FindUserFails(a) ==
    /\ req[a].at = "findUser"
    /\ Begin(a, "tellUser", req[a].key, None)
    /\ excused' = excused \cup ({req[a].key} \cap untold)
    /\ UNCHANGED <<rows, online, untold>>

(* DeleteUser looks the username up first.                                 *)
FindUserToDelete(a, u) ==
    /\ req[a] = Idle /\ u \in users \cup spent
    /\ \E found \in {u, None} :
        /\ found = u => u \in users
        /\ Begin(a, "deleteUser", u, found)
    /\ UNCHANGED <<rows, online, untold, excused>>

DropUser(u) ==
    /\ users' = users \ {u} /\ spent' = spent \cup {u}
    /\ allowed' = {row \in allowed : row[1] # u}
    /\ whitelist' = {row \in whitelist : row[1] # u}

(* Faulty variant: the username is looked up after the deletion.           *)
DeleteUserThenFind(a) ==
    LET u == req[a].key IN
    /\ req[a].at = "deleteUser"
    /\ DropUser(u)
    /\ Begin(a, "findUser", u, None)
    /\ UNCHANGED <<regions, upstreams, pools, workers, settings, located, weights, status, home,
                   online>>
    /\ Note(Nobody, Nobody)

DeleteUser(a) ==
    LET u == req[a].key IN
    /\ req[a].at = "deleteUser"
    /\ DropUser(u)
    /\ Begin(a, "tellUser", u, req[a].found)
    /\ UNCHANGED <<regions, upstreams, pools, workers, settings, located, weights, status, home,
                   online>>
    /\ Note(Nobody, IF req[a].found = u THEN Nobody ELSE {u})

(* NotifyUserChange: every worker forgets the user of that name.           *)
TellUser(a) ==
    /\ req[a].at = "tellUser"
    /\ End(a)
    /\ untold' = untold \ {req[a].found}
    /\ excused' = excused \ {req[a].found}
    /\ UNCHANGED <<rows, online>>

-----------------------------------------------------------------------------
RegionsAndUpstreams ==
    \/ \E r \in Regions : CreateRegion(r) \/ DeleteRegion(r)
    \/ \E s \in Upstreams : CreateUpstream(s) \/ DeleteUpstream(s)

Workers ==
    \E w \in WorkerIds :
        DeleteWorker(w) \/ Connect(w) \/ Disconnect(w) \/ \E p \in PoolIds : CreateWorker(w, p)

NewPool == \E p \in PoolIds, used \in SUBSET Upstreams : CreatePool(p, used)

NewUser ==
    \E u \in UserIds, tags \in SUBSET Tags, ips \in SUBSET IPs : CreateUser(u, tags, ips)

Resources == RegionsAndUpstreams \/ Workers \/ NewPool \/ NewUser

PoolRequest(a) ==
    \/ \E p \in PoolIds : UpdatePool(a, p)
    \/ \E p \in PoolIds, s \in Upstreams :
        AddPoolUpstreamWeight(a, p, s) \/ DeletePoolUpstreamWeight(a, p, s)
    \/ \E t \in Tags : FindPoolToDelete(a, t)
    \/ FindPool(a) \/ FindPoolFails(a) \/ DeletePool(a) \/ NothingDeleted(a) \/ TellPool(a)

UserRequest(a) ==
    \/ \E u \in UserIds :
        \/ ChangeUserPools(a, u) \/ ChangeUserIpWhitelist(a, u) \/ FindUserToDelete(a, u)
        \/ \E new \in Statuses : UpdateUserStatus(a, u, new)
    \/ FindUser(a) \/ FindUserFails(a) \/ DeleteUser(a) \/ TellUser(a)

Next == Resources \/ \E a \in Admins : PoolRequest(a) \/ UserRequest(a)

Spec == Init /\ [][Next]_vars

-----------------------------------------------------------------------------
Quiet == \A a \in Admins : req[a] = Idle

(* Once the requests have ended, every connected worker whose              *)
(* configuration has changed has been sent a pool_change since, unless the *)
(* change was one that notifies nobody (an upstream, region or worker was  *)
(* deleted), the lookup of the id failed, or a pool was deleted other than *)
(* the one looked up.  A lookup that finds the pool gone loses nothing:    *)
(* who deleted it tells its workers.  "Sent" is the step of the broadcast: *)
(* a captain that ends between commit and broadcast is not considered.     *)
WorkersAreTold == Quiet => untold \cap WorkerIds \subseteq excused

(* The same for the users, whose records workers keep for an hour: a       *)
(* lookup that comes after the user's deletion broadcasts an empty name,   *)
(* and the deletion the right one.  The users of a deleted pool are not    *)
(* told.                                                                   *)
UsersAreTold == Quiet => untold \cap UserIds \subseteq excused

(* No row refers to one that is gone, and no two pools share a tag: the    *)
(* schema's keys, whatever requests overlap.                               *)
NoOrphans ==
    /\ weights \subseteq pools \X upstreams
    /\ allowed \subseteq users \X pools
    /\ whitelist \subseteq users \X IPs
    /\ \A w \in workers : home[w] \in pools /\ WorkerRegion[w] \in regions
    /\ \A p \in pools : located[p] \in regions
    /\ \A p, q \in pools : TagOf[p] = TagOf[q] => p = q
=============================================================================

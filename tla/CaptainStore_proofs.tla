------------------------ MODULE CaptainStore_proofs ------------------------
(* The database and its notifications, for every number of requests, pools, *)
(* users, workers and upstreams.                                           *)
EXTENDS CaptainStore, TLAPS

(* The history stays typed whatever a step changes.                        *)
LEMMA NoteTyped ==
    ASSUME TypeOK, NEW silent, NEW lost, Note(silent, lost)
    PROVE  untold' \subseteq WorkerIds \cup UserIds /\ excused' \subseteq untold'
<1>1. Affected \subseteq WorkerIds \cup UserIds
  BY DEF Affected, TypeOK
<1> QED BY <1>1 DEF Note, TypeOK

LEMMA ResourcesTyped == ASSUME TypeOK, Resources PROVE TypeOK'
<1>1. ASSUME NEW r \in Regions, CreateRegion(r) PROVE TypeOK'
  BY <1>1, NoteTyped DEF CreateRegion, TypeOK
<1>2. ASSUME NEW r \in Regions, DeleteRegion(r) PROVE TypeOK'
  <2>1. untold' \subseteq WorkerIds \cup UserIds /\ excused' \subseteq untold'
    BY <1>2, NoteTyped DEF DeleteRegion
  <2>2. home' \in [WorkerIds -> PoolIds \cup {None}]
    BY <1>2 DEF DeleteRegion, TypeOK
  <2>3. spent' \cap (pools' \cup users' \cup workers') = {}
    BY <1>2, StoreAssumption DEF DeleteRegion, TypeOK
  <2> QED BY <1>2, <2>1, <2>2, <2>3 DEF DeleteRegion, TypeOK
<1>3. ASSUME NEW s \in Upstreams, CreateUpstream(s) PROVE TypeOK'
  BY <1>3, NoteTyped DEF CreateUpstream, TypeOK
<1>4. ASSUME NEW s \in Upstreams, DeleteUpstream(s) PROVE TypeOK'
  BY <1>4, NoteTyped DEF DeleteUpstream, TypeOK
<1>5. ASSUME NEW w \in WorkerIds, DeleteWorker(w) PROVE TypeOK'
  <2>1. untold' \subseteq WorkerIds \cup UserIds /\ excused' \subseteq untold'
    BY <1>5, NoteTyped DEF DeleteWorker
  <2>2. spent' \cap (pools' \cup users' \cup workers') = {}
    BY <1>5, StoreAssumption DEF DeleteWorker, TypeOK
  <2> QED BY <1>5, <2>1, <2>2 DEF DeleteWorker, TypeOK
<1>6. ASSUME NEW w \in WorkerIds, Connect(w) PROVE TypeOK'
  BY <1>6 DEF Connect, TypeOK, rows
<1>7. ASSUME NEW w \in WorkerIds, Disconnect(w) PROVE TypeOK'
  BY <1>7 DEF Disconnect, TypeOK, rows
<1>8. ASSUME NEW w \in WorkerIds, NEW p \in PoolIds, CreateWorker(w, p) PROVE TypeOK'
  BY <1>8, NoteTyped DEF CreateWorker, TypeOK
<1>9. ASSUME NEW p \in PoolIds, NEW used \in SUBSET Upstreams, CreatePool(p, used) PROVE TypeOK'
  <2>1. untold' \subseteq WorkerIds \cup UserIds /\ excused' \subseteq untold'
    BY <1>9, NoteTyped DEF CreatePool
  <2>2. settings' \in [PoolIds -> Settings \cup {None}] /\ located' \in [PoolIds -> Regions \cup {None}]
    BY <1>9 DEF CreatePool, Place, TypeOK
  <2>3. weights' \subseteq PoolIds \X Upstreams
    BY <1>9 DEF CreatePool, Weighted, TypeOK
  <2> QED BY <1>9, <2>1, <2>2, <2>3 DEF CreatePool, TypeOK
<1>10. ASSUME NEW u \in UserIds, NEW tags \in SUBSET Tags, NEW ips \in SUBSET IPs,
              CreateUser(u, tags, ips)
       PROVE  TypeOK'
  <2>1. untold' \subseteq WorkerIds \cup UserIds /\ excused' \subseteq untold'
    BY <1>10, NoteTyped DEF CreateUser
  <2>2. allowed' \subseteq UserIds \X PoolIds /\ whitelist' \subseteq UserIds \X IPs
    BY <1>10 DEF CreateUser, Listed, Granted, PoolsTagged, TypeOK
  <2> QED BY <1>10, <2>1, <2>2 DEF CreateUser, TypeOK
<1> QED
  BY <1>1, <1>2, <1>3, <1>4, <1>5, <1>6, <1>7, <1>8, <1>9, <1>10
    DEF Resources, RegionsAndUpstreams, Workers, NewPool, NewUser

LEMMA DropTyped ==
    ASSUME TypeOK, NEW p \in PoolIds, DropPool(p)
    PROVE  /\ pools' \subseteq PoolIds /\ workers' \subseteq WorkerIds
           /\ spent' \subseteq PoolIds \cup UserIds \cup WorkerIds
           /\ spent' \cap (pools' \cup users \cup workers') = {}
           /\ settings' \in [PoolIds -> Settings \cup {None}]
           /\ located' \in [PoolIds -> Regions \cup {None}]
           /\ weights' \subseteq PoolIds \X Upstreams
           /\ allowed' \subseteq UserIds \X PoolIds
           /\ home' \in [WorkerIds -> PoolIds \cup {None}]
<1>1. spent' \cap (pools' \cup users \cup workers') = {}
  BY StoreAssumption DEF DropPool, TypeOK
<1> QED BY <1>1 DEF DropPool, TypeOK

LEMMA PoolRequestsTyped ==
    ASSUME TypeOK, NEW a \in Admins, PoolRequest(a) PROVE TypeOK'
<1>1. ASSUME NEW p \in PoolIds, UpdatePool(a, p) PROVE TypeOK'
  <2>1. untold' \subseteq WorkerIds \cup UserIds /\ excused' \subseteq untold'
    BY <1>1, NoteTyped DEF UpdatePool
  <2>2. settings' \in [PoolIds -> Settings \cup {None}] /\ located' \in [PoolIds -> Regions \cup {None}]
    BY <1>1 DEF UpdatePool, Place, TypeOK
  <2>3. req' \in [Admins -> Requests]
    BY <1>1 DEF UpdatePool, Begin, Requests, TypeOK
  <2> QED BY <1>1, <2>1, <2>2, <2>3 DEF UpdatePool, TypeOK
<1>2. ASSUME NEW p \in PoolIds, NEW s \in Upstreams,
             AddPoolUpstreamWeight(a, p, s) \/ DeletePoolUpstreamWeight(a, p, s)
      PROVE  TypeOK'
  <2>1. untold' \subseteq WorkerIds \cup UserIds /\ excused' \subseteq untold'
    BY <1>2, NoteTyped DEF AddPoolUpstreamWeight, DeletePoolUpstreamWeight
  <2>2. req' \in [Admins -> Requests]
    BY <1>2 DEF AddPoolUpstreamWeight, DeletePoolUpstreamWeight, Begin, Requests, TypeOK
  <2> QED BY <1>2, <2>1, <2>2 DEF AddPoolUpstreamWeight, DeletePoolUpstreamWeight, TypeOK
<1>3. ASSUME NEW t \in Tags, FindPoolToDelete(a, t) PROVE TypeOK'
  <2>1. req' \in [Admins -> Requests]
    BY <1>3 DEF FindPoolToDelete, PoolsTagged, Begin, Requests, TypeOK
  <2> QED BY <1>3, <2>1 DEF FindPoolToDelete, TypeOK, rows
<1>4. CASE FindPool(a)
  <2>1. req[a].key \in PoolIds
    BY <1>4 DEF FindPool, Requests, Idle, TypeOK
  <2>2. req' \in [Admins -> Requests]
    BY <1>4, <2>1 DEF FindPool, PoolsTagged, Begin, End, Requests, TypeOK
  <2> QED BY <1>4, <2>2 DEF FindPool, TypeOK, rows
<1>5. CASE FindPoolFails(a)
  <2>1. req' \in [Admins -> Requests]
    BY <1>5 DEF FindPoolFails, End, Requests, TypeOK
  <2> QED BY <1>5, <2>1 DEF FindPoolFails, TypeOK, rows
<1>6. CASE DeletePool(a)
  <2>1. PICK p \in PoolsTagged({req[a].key}) :
            /\ DropPool(p)
            /\ IF req[a].found = None THEN End(a)
               ELSE Begin(a, "tellPool", req[a].found, req[a].found)
            /\ UNCHANGED <<regions, upstreams, users, status, whitelist, online>>
            /\ Note(UserIds, IF req[a].found = p THEN Nobody ELSE Hears(p))
    BY <1>6 DEF DeletePool
  <2>2. p \in PoolIds
    BY DEF PoolsTagged, TypeOK
  <2>3. untold' \subseteq WorkerIds \cup UserIds /\ excused' \subseteq untold'
    BY <2>1, NoteTyped
  <2>4. req[a].found \in PoolIds \cup {None}
    BY <1>6 DEF DeletePool, Requests, Idle, TypeOK
  <2>5. req' \in [Admins -> Requests]
    BY <2>1, <2>4 DEF Begin, End, Requests, TypeOK
  <2> QED BY <2>1, <2>2, <2>3, <2>5, DropTyped DEF TypeOK
<1>7. CASE NothingDeleted(a)
  <2>1. req' \in [Admins -> Requests]
    BY <1>7 DEF NothingDeleted, End, Requests, TypeOK
  <2> QED BY <1>7, <2>1 DEF NothingDeleted, TypeOK, rows
<1>8. CASE TellPool(a)
  <2>1. req' \in [Admins -> Requests]
    BY <1>8 DEF TellPool, End, Requests, TypeOK
  <2> QED BY <1>8, <2>1 DEF TellPool, TypeOK, rows
<1> QED BY <1>1, <1>2, <1>3, <1>4, <1>5, <1>6, <1>7, <1>8 DEF PoolRequest

LEMMA UserRequestsTyped ==
    ASSUME TypeOK, NEW a \in Admins, UserRequest(a) PROVE TypeOK'
<1>1. ASSUME NEW u \in UserIds, ChangeUserPools(a, u) PROVE TypeOK'
  <2>1. untold' \subseteq WorkerIds \cup UserIds /\ excused' \subseteq untold'
    BY <1>1, NoteTyped DEF ChangeUserPools
  <2>2. allowed' \subseteq UserIds \X PoolIds
    BY <1>1 DEF ChangeUserPools, Granted, PoolsTagged, TypeOK
  <2>3. req' \in [Admins -> Requests]
    BY <1>1 DEF ChangeUserPools, Begin, Requests, TypeOK
  <2> QED BY <1>1, <2>1, <2>2, <2>3 DEF ChangeUserPools, TypeOK
<1>2. ASSUME NEW u \in UserIds, ChangeUserIpWhitelist(a, u) PROVE TypeOK'
  <2>1. untold' \subseteq WorkerIds \cup UserIds /\ excused' \subseteq untold'
    BY <1>2, NoteTyped DEF ChangeUserIpWhitelist
  <2>2. whitelist' \subseteq UserIds \X IPs
    BY <1>2 DEF ChangeUserIpWhitelist, Listed, TypeOK
  <2>3. req' \in [Admins -> Requests]
    BY <1>2 DEF ChangeUserIpWhitelist, Begin, Requests, TypeOK
  <2> QED BY <1>2, <2>1, <2>2, <2>3 DEF ChangeUserIpWhitelist, TypeOK
<1>3. ASSUME NEW u \in UserIds, FindUserToDelete(a, u) PROVE TypeOK'
  <2>1. req' \in [Admins -> Requests]
    BY <1>3 DEF FindUserToDelete, Begin, Requests, TypeOK
  <2> QED BY <1>3, <2>1 DEF FindUserToDelete, TypeOK, rows
<1>4. ASSUME NEW u \in UserIds, NEW new \in Statuses, UpdateUserStatus(a, u, new) PROVE TypeOK'
  <2>1. untold' \subseteq WorkerIds \cup UserIds /\ excused' \subseteq untold'
    BY <1>4, NoteTyped DEF UpdateUserStatus
  <2>2. req' \in [Admins -> Requests]
    BY <1>4 DEF UpdateUserStatus, Begin, Requests, TypeOK
  <2> QED BY <1>4, <2>1, <2>2 DEF UpdateUserStatus, TypeOK
<1>5. CASE FindUser(a) \/ FindUserFails(a)
  <2>1. req[a].key \in UserIds
    BY <1>5 DEF FindUser, FindUserFails, Requests, Idle, TypeOK
  <2>2. req' \in [Admins -> Requests]
    BY <1>5, <2>1 DEF FindUser, Username, FindUserFails, Begin, Requests, TypeOK
  <2> QED BY <1>5, <2>2 DEF FindUser, FindUserFails, TypeOK, rows
<1>6. CASE DeleteUser(a)
  <2>1. untold' \subseteq WorkerIds \cup UserIds /\ excused' \subseteq untold'
    BY <1>6, NoteTyped DEF DeleteUser
  <2>2. req[a].key \in UserIds /\ req[a].found \in UserIds \cup {None}
    BY <1>6 DEF DeleteUser, Requests, Idle, TypeOK
  <2>3. req' \in [Admins -> Requests]
    BY <1>6, <2>2 DEF DeleteUser, Begin, Requests, TypeOK
  <2>4. spent' \cap (pools' \cup users' \cup workers') = {}
    BY <1>6, <2>2, StoreAssumption DEF DeleteUser, DropUser, TypeOK
  <2> QED BY <1>6, <2>1, <2>2, <2>3, <2>4 DEF DeleteUser, DropUser, TypeOK
<1>7. CASE TellUser(a)
  <2>1. req' \in [Admins -> Requests]
    BY <1>7 DEF TellUser, End, Requests, TypeOK
  <2> QED BY <1>7, <2>1 DEF TellUser, TypeOK, rows
<1> QED BY <1>1, <1>2, <1>3, <1>4, <1>5, <1>6, <1>7 DEF UserRequest

(* No step of any request leaves the types.                                *)
LEMMA TypeStep == ASSUME TypeOK, [Next]_vars PROVE TypeOK'
<1>1. CASE UNCHANGED vars
  BY <1>1 DEF vars, TypeOK
<1> QED BY <1>1, ResourcesTyped, PoolRequestsTyped, UserRequestsTyped DEF Next

LEMMA InitTyped == ASSUME Init PROVE TypeOK
  BY DEF Init, TypeOK, Requests, Statuses

(* The rows, the requests and the history stay typed, and no row has an id *)
(* that is spent.                                                          *)
THEOREM TypeCorrect == Spec => []TypeOK
  BY InitTyped, TypeStep, PTL DEF Spec
-----------------------------------------------------------------------------
(* A pool goes with everything that refers to it.                          *)
LEMMA DropOrphans ==
    ASSUME TypeOK, NoOrphans, NEW p \in PoolIds, DropPool(p),
           UNCHANGED <<regions, upstreams, users, whitelist>>
    PROVE  NoOrphans'
<1>1. weights' \subseteq pools' \X upstreams' /\ allowed' \subseteq users' \X pools'
  BY DEF DropPool, NoOrphans
<1>2. \A w \in workers' : home'[w] \in pools' /\ WorkerRegion[w] \in regions'
  BY DEF DropPool, NoOrphans, TypeOK
<1>3. \A q \in pools' : located'[q] \in regions'
  BY DEF DropPool, NoOrphans, TypeOK
<1> QED BY <1>1, <1>2, <1>3 DEF DropPool, NoOrphans

LEMMA OrphansStep == ASSUME TypeOK, NoOrphans, [Next]_vars PROVE NoOrphans'
<1>1. ASSUME NEW r \in Regions, CreateRegion(r) \/ DeleteRegion(r) PROVE NoOrphans'
  BY <1>1 DEF CreateRegion, DeleteRegion, NoOrphans, TypeOK
<1>2. ASSUME NEW s \in Upstreams, CreateUpstream(s) \/ DeleteUpstream(s) PROVE NoOrphans'
  <2>1. weights' \subseteq pools' \X upstreams'
    BY <1>2 DEF CreateUpstream, DeleteUpstream, NoOrphans
  <2> QED BY <1>2, <2>1 DEF CreateUpstream, DeleteUpstream, NoOrphans
<1>3. ASSUME NEW w \in WorkerIds, DeleteWorker(w) \/ Connect(w) \/ Disconnect(w) PROVE NoOrphans'
  BY <1>3 DEF DeleteWorker, Connect, Disconnect, rows, NoOrphans, TypeOK
<1>4. ASSUME NEW w \in WorkerIds, NEW p \in PoolIds, CreateWorker(w, p) PROVE NoOrphans'
  BY <1>4 DEF CreateWorker, NoOrphans, TypeOK
<1>5. ASSUME NEW p \in PoolIds, NEW used \in SUBSET Upstreams, CreatePool(p, used) PROVE NoOrphans'
  <2>1. weights' \subseteq pools' \X upstreams' /\ allowed' \subseteq users' \X pools'
    BY <1>5 DEF CreatePool, Weighted, NoOrphans
  <2>2. \A q \in pools' : located'[q] \in regions'
    BY <1>5 DEF CreatePool, Place, NoOrphans, TypeOK
  <2>3. \A q, q2 \in pools' : TagOf[q] = TagOf[q2] => q = q2
    BY <1>5 DEF CreatePool, PoolsTagged, NoOrphans
  <2> QED BY <1>5, <2>1, <2>2, <2>3 DEF CreatePool, NoOrphans
<1>6. ASSUME NEW u \in UserIds, NEW tags \in SUBSET Tags, NEW ips \in SUBSET IPs,
             CreateUser(u, tags, ips)
      PROVE  NoOrphans'
  <2>1. allowed' \subseteq users' \X pools' /\ whitelist' \subseteq users' \X IPs
    BY <1>6 DEF CreateUser, Listed, Granted, PoolsTagged, NoOrphans
  <2> QED BY <1>6, <2>1 DEF CreateUser, NoOrphans
<1>7. ASSUME NEW a \in Admins, NEW p \in PoolIds, UpdatePool(a, p) PROVE NoOrphans'
  <2>1. \A q \in pools' : located'[q] \in regions'
    BY <1>7 DEF UpdatePool, Place, NoOrphans, TypeOK
  <2> QED BY <1>7, <2>1 DEF UpdatePool, NoOrphans
<1>8. ASSUME NEW a \in Admins, NEW p \in PoolIds, NEW s \in Upstreams,
             AddPoolUpstreamWeight(a, p, s) \/ DeletePoolUpstreamWeight(a, p, s)
      PROVE  NoOrphans'
  <2>1. weights' \subseteq pools' \X upstreams'
    BY <1>8 DEF AddPoolUpstreamWeight, DeletePoolUpstreamWeight, NoOrphans
  <2> QED BY <1>8, <2>1 DEF AddPoolUpstreamWeight, DeletePoolUpstreamWeight, NoOrphans
<1>9. ASSUME NEW a \in Admins, DeletePool(a) PROVE NoOrphans'
  <2>1. PICK p \in PoolIds :
            DropPool(p) /\ UNCHANGED <<regions, upstreams, users, whitelist>>
    BY <1>9 DEF DeletePool, PoolsTagged, TypeOK
  <2> QED BY <2>1, DropOrphans
<1>10. ASSUME NEW a \in Admins, NEW u \in UserIds, ChangeUserPools(a, u) PROVE NoOrphans'
  <2>1. allowed' \subseteq users' \X pools'
    BY <1>10 DEF ChangeUserPools, Granted, PoolsTagged, NoOrphans
  <2> QED BY <1>10, <2>1 DEF ChangeUserPools, NoOrphans
<1>11. ASSUME NEW a \in Admins, NEW u \in UserIds, ChangeUserIpWhitelist(a, u) PROVE NoOrphans'
  <2>1. whitelist' \subseteq users' \X IPs
    BY <1>11 DEF ChangeUserIpWhitelist, Listed, NoOrphans
  <2> QED BY <1>11, <2>1 DEF ChangeUserIpWhitelist, NoOrphans
<1>12. ASSUME NEW a \in Admins, DeleteUser(a) PROVE NoOrphans'
  <2>1. allowed' \subseteq users' \X pools' /\ whitelist' \subseteq users' \X IPs
    BY <1>12 DEF DeleteUser, DropUser, NoOrphans
  <2> QED BY <1>12, <2>1 DEF DeleteUser, NoOrphans
<1>13. ASSUME NEW a \in Admins, NEW u \in UserIds, NEW new \in Statuses, UpdateUserStatus(a, u, new)
       PROVE  NoOrphans'
  BY <1>13 DEF UpdateUserStatus, NoOrphans
<1>14. CASE UNCHANGED rows
  BY <1>14 DEF rows, NoOrphans
<1>15. ASSUME NEW a \in Admins, PoolRequest(a) PROVE NoOrphans'
  BY <1>7, <1>8, <1>9, <1>14, <1>15
  DEF PoolRequest, FindPoolToDelete, FindPool, FindPoolFails, NothingDeleted, TellPool
<1>16. ASSUME NEW a \in Admins, UserRequest(a) PROVE NoOrphans'
  BY <1>10, <1>11, <1>12, <1>13, <1>14, <1>16
  DEF UserRequest, FindUserToDelete, FindUser, FindUserFails, TellUser
<1>17. CASE UNCHANGED vars
  BY <1>14, <1>17 DEF vars, rows
<1> QED
  BY <1>1, <1>2, <1>3, <1>4, <1>5, <1>6, <1>15, <1>16, <1>17 DEF Next, Resources,
      RegionsAndUpstreams, Workers, NewPool, NewUser

(* No row ever refers to one that is gone, however many requests overlap   *)
(* with deletions that take rows of other tables with them.                *)
THEOREM NoOrphansHolds == Spec => []NoOrphans
<1>1. Init => NoOrphans
  BY DEF Init, NoOrphans
<1> QED BY <1>1, InitTyped, TypeStep, OrphansStep, PTL DEF Spec
-----------------------------------------------------------------------------
(* The users.  Whoever changed a user's row and did not excuse it is on    *)
(* the way to tell the workers, and has the right name or will find it.    *)

UserHeard(u) ==
    \E a \in Admins :
        \/ req[a].at = "findUser" /\ req[a].key = u /\ u \in users
        \/ req[a].at = "tellUser" /\ req[a].found = u

UsersCovered == \A u \in UserIds : u \in untold /\ u \notin excused => UserHeard(u)

(* What a step makes of the history of one worker or user.                 *)
LEMMA NoteOne ==
    ASSUME NEW v, NEW silent, NEW lost, Note(silent, lost), v \in untold', v \notin excused'
    PROVE  /\ v \notin excused /\ v \notin lost
           /\ v \in untold \/ (v \in Affected /\ v \notin silent)
  BY DEF Note

LEMMA RecordsFrame ==
    ASSUME UNCHANGED <<users, status, allowed, whitelist>>
    PROVE  Affected \cap UserIds = {}
<1>1. \A u \in users : Record(u)' = Record(u)
  BY DEF Record
<1> QED BY <1>1, StoreAssumption DEF Affected

(* A step that leaves the users and the requests alone.                    *)
LEMMA UsersFrame ==
    ASSUME UsersCovered, UNCHANGED <<users, status, allowed, whitelist, req>>,
           \/ \E silent, lost : Note(silent, lost)
           \/ untold' \subseteq untold /\ UserIds \cap excused \subseteq excused' \cup (UserIds \ untold')
    PROVE  UsersCovered'
<1> SUFFICES ASSUME NEW u \in UserIds, u \in untold', u \notin excused'
             PROVE  UserHeard(u)'
  BY DEF UsersCovered
<1>1. u \in untold /\ u \notin excused
  BY NoteOne, RecordsFrame
<1> QED BY <1>1 DEF UsersCovered, UserHeard

LEMMA ResourcesTellUsers == ASSUME TypeOK, UsersCovered, Resources PROVE UsersCovered'
<1>1. CASE UNCHANGED <<users, status, allowed, whitelist, req>> /\ \E silent, lost : Note(silent, lost)
  BY <1>1, UsersFrame
<1>2. ASSUME NEW r \in Regions, CreateRegion(r) \/ DeleteRegion(r) PROVE UsersCovered'
  BY <1>1, <1>2 DEF CreateRegion, DeleteRegion
<1>3. ASSUME NEW s \in Upstreams, CreateUpstream(s) \/ DeleteUpstream(s) PROVE UsersCovered'
  BY <1>1, <1>3 DEF CreateUpstream, DeleteUpstream
<1>4. ASSUME NEW w \in WorkerIds, DeleteWorker(w) PROVE UsersCovered'
  BY <1>1, <1>4 DEF DeleteWorker
<1>5. ASSUME NEW w \in WorkerIds, Connect(w) \/ Disconnect(w) PROVE UsersCovered'
  BY <1>5, UsersFrame, StoreAssumption DEF Connect, Disconnect, rows
<1>6. ASSUME NEW w \in WorkerIds, NEW p \in PoolIds, CreateWorker(w, p) PROVE UsersCovered'
  BY <1>1, <1>6 DEF CreateWorker
<1>7. ASSUME NEW p \in PoolIds, NEW used \in SUBSET Upstreams, CreatePool(p, used) PROVE UsersCovered'
  BY <1>1, <1>7 DEF CreatePool
<1>8. ASSUME NEW u \in UserIds, NEW tags \in SUBSET Tags, NEW ips \in SUBSET IPs,
             CreateUser(u, tags, ips)
      PROVE  UsersCovered'
  <2> SUFFICES ASSUME NEW v \in UserIds, v \in untold', v \notin excused'
               PROVE  UserHeard(v)'
    BY DEF UsersCovered
  <2>1. ASSUME v \in users PROVE Record(v)' = Record(v)
    <3>1. v # u /\ v \in users'
      BY <1>8, <2>1 DEF CreateUser
    <3>2. {row \in allowed : row[1] = v}' = {row \in allowed : row[1] = v}
      BY <1>8, <3>1 DEF CreateUser, Listed, Granted
    <3>3. {row \in whitelist : row[1] = v}' = {row \in whitelist : row[1] = v}
      BY <1>8, <3>1 DEF CreateUser, Listed, Granted
    <3> QED BY <1>8, <2>1, <3>1, <3>2, <3>3 DEF CreateUser, Record
  <2>2. v \in untold /\ v \notin excused
    BY <1>8, <2>1, NoteOne, StoreAssumption DEF CreateUser, Affected
  <2> QED BY <1>8, <2>2 DEF CreateUser, UsersCovered, UserHeard
<1> QED BY <1>2, <1>3, <1>4, <1>5, <1>6, <1>7, <1>8
    DEF Resources, RegionsAndUpstreams, Workers, NewPool, NewUser

(* A request on its way to a pool's workers tells no user.                 *)
LEMMA PoolRequestsTellUsers ==
    ASSUME TypeOK, UsersCovered, NEW a \in Admins, PoolRequest(a) PROVE UsersCovered'
<1> SUFFICES ASSUME NEW u \in UserIds, u \in untold', u \notin excused'
             PROVE  UserHeard(u)'
  BY DEF UsersCovered
<1>1. u \in untold /\ u \notin excused
  <2>1. CASE UNCHANGED <<users, status, allowed, whitelist>> /\ \E silent, lost : Note(silent, lost)
    BY <2>1, NoteOne, RecordsFrame
  <2>2. CASE untold' \subseteq untold /\ UserIds \cap excused \subseteq excused' \cup (UserIds \ untold')
    BY <2>2
  <2>3. CASE \E lost : Note(UserIds, lost)
    BY <2>3, NoteOne
  <2> QED BY <2>1, <2>2, <2>3, StoreAssumption
      DEF PoolRequest, UpdatePool, AddPoolUpstreamWeight, DeletePoolUpstreamWeight, FindPoolToDelete,
          FindPool, FindPoolFails, DeletePool, NothingDeleted, TellPool, Hears
<1>2. PICK b \in Admins :
          \/ req[b].at = "findUser" /\ req[b].key = u /\ u \in users
          \/ req[b].at = "tellUser" /\ req[b].found = u
  BY <1>1 DEF UsersCovered, UserHeard
<1>3. users' = users
  BY DEF PoolRequest, UpdatePool, AddPoolUpstreamWeight, DeletePoolUpstreamWeight, FindPoolToDelete,
         FindPool, FindPoolFails, DeletePool, NothingDeleted, TellPool, rows
<1>4. req[a].at \notin {"findUser", "tellUser"}
  <2>1. \/ req[a] = Idle \/ req[a].at = "findPool"
        \/ req[a].at = "deletePool" \/ req[a].at = "tellPool"
    BY DEF PoolRequest, UpdatePool, AddPoolUpstreamWeight, DeletePoolUpstreamWeight, FindPoolToDelete,
           FindPool, FindPoolFails, DeletePool, NothingDeleted, TellPool
  <2> QED BY <2>1 DEF Idle
<1>5. b # a
  BY <1>2, <1>4
<1>6. req'[b] = req[b]
  BY <1>5 DEF PoolRequest, UpdatePool, AddPoolUpstreamWeight, DeletePoolUpstreamWeight,
              FindPoolToDelete, FindPool, FindPoolFails, DeletePool, NothingDeleted, TellPool,
              Begin, End, TypeOK
<1> QED BY <1>2, <1>3, <1>6 DEF UserHeard

(* A request on its way to a user: it begins with a change that affects    *)
(* that user alone, and passes the name on from step to step.              *)
LEMMA UserChangeTells ==
    ASSUME TypeOK, UsersCovered, NEW a \in Admins, NEW u \in UserIds, req[a] = Idle,
           \A v \in users \ {u} : Record(v)' = Record(v), users' = users, Note(Nobody, Nobody),
           \/ u \in users /\ Begin(a, "findUser", u, None)
           \/ Begin(a, "tellUser", u, u)
    PROVE  UsersCovered'
<1> SUFFICES ASSUME NEW v \in UserIds, v \in untold', v \notin excused'
             PROVE  UserHeard(v)'
  BY DEF UsersCovered
<1>1. CASE v = u
  BY <1>1 DEF Begin, UserHeard, TypeOK
<1>2. CASE v # u
  <2>1. v \in untold /\ v \notin excused
    BY <1>2, NoteOne, StoreAssumption DEF Affected
  <2>2. PICK b \in Admins :
            \/ req[b].at = "findUser" /\ req[b].key = v /\ v \in users
            \/ req[b].at = "tellUser" /\ req[b].found = v
    BY <2>1 DEF UsersCovered, UserHeard
  <2>3. req'[b] = req[b]
    BY <2>2 DEF Idle, Begin, TypeOK
  <2> QED BY <2>2, <2>3 DEF UserHeard
<1> QED BY <1>1, <1>2

(* The records of the users that a step gives and takes no row.            *)
LEMMA OtherRecords ==
    ASSUME NEW u, NEW v \in users, v # u, v \in users', status'[v] = status[v],
           \A row \in allowed \cup allowed' : row[1] # u => (row \in allowed <=> row \in allowed'),
           \A row \in whitelist \cup whitelist' :
               row[1] # u => (row \in whitelist <=> row \in whitelist')
    PROVE  Record(v)' = Record(v)
<1>1. {row \in allowed : row[1] = v}' = {row \in allowed : row[1] = v}
  OBVIOUS
<1>2. {row \in whitelist : row[1] = v}' = {row \in whitelist : row[1] = v}
  OBVIOUS
<1> QED BY <1>1, <1>2 DEF Record

LEMMA UserRequestsTellUsers ==
    ASSUME TypeOK, UsersCovered, NEW a \in Admins, UserRequest(a) PROVE UsersCovered'
<1>1. ASSUME NEW u \in UserIds, ChangeUserPools(a, u) PROVE UsersCovered'
  <2>1. \A row \in allowed \cup allowed' : row[1] # u => (row \in allowed <=> row \in allowed')
    BY <1>1 DEF ChangeUserPools, Granted
  <2>2. \A v \in users \ {u} : Record(v)' = Record(v)
    BY <1>1, <2>1, OtherRecords DEF ChangeUserPools
  <2> QED BY <1>1, <2>2, UserChangeTells DEF ChangeUserPools
<1>2. ASSUME NEW u \in UserIds, ChangeUserIpWhitelist(a, u) PROVE UsersCovered'
  <2>1. \A row \in whitelist \cup whitelist' : row[1] # u => (row \in whitelist <=> row \in whitelist')
    BY <1>2 DEF ChangeUserIpWhitelist, Listed
  <2>2. \A v \in users \ {u} : Record(v)' = Record(v)
    BY <1>2, <2>1, OtherRecords DEF ChangeUserIpWhitelist
  <2> QED BY <1>2, <2>2, UserChangeTells DEF ChangeUserIpWhitelist
<1>3. ASSUME NEW u \in UserIds, NEW new \in Statuses, UpdateUserStatus(a, u, new) PROVE UsersCovered'
  <2>1. \A v \in users \ {u} : Record(v)' = Record(v)
    <3>1. \A v \in users \ {u} : status'[v] = status[v]
      BY <1>3 DEF UpdateUserStatus, TypeOK
    <3> QED BY <1>3, <3>1, OtherRecords DEF UpdateUserStatus
  <2> QED BY <1>3, <2>1, UserChangeTells DEF UpdateUserStatus
<1>4. CASE FindUser(a)
  <2> SUFFICES ASSUME NEW v \in UserIds, v \in untold, v \notin excused PROVE UserHeard(v)'
    BY <1>4 DEF FindUser, UsersCovered
  <2>1. PICK b \in Admins :
            \/ req[b].at = "findUser" /\ req[b].key = v /\ v \in users
            \/ req[b].at = "tellUser" /\ req[b].found = v
    BY DEF UsersCovered, UserHeard
  <2>2. CASE b = a
    BY <1>4, <2>1, <2>2 DEF FindUser, Username, Begin, UserHeard, TypeOK
  <2>3. CASE b # a
    BY <1>4, <2>1, <2>3 DEF FindUser, Begin, UserHeard, TypeOK, rows
  <2> QED BY <2>2, <2>3
<1>5. CASE FindUserFails(a)
  <2> SUFFICES ASSUME NEW v \in UserIds, v \in untold, v \notin excused'  PROVE UserHeard(v)'
    BY <1>5 DEF FindUserFails, UsersCovered
  <2>1. v \notin excused /\ v # req[a].key
    BY <1>5 DEF FindUserFails
  <2>2. PICK b \in Admins :
            \/ req[b].at = "findUser" /\ req[b].key = v /\ v \in users
            \/ req[b].at = "tellUser" /\ req[b].found = v
    BY <2>1 DEF UsersCovered, UserHeard
  <2>3. b # a
    BY <1>5, <2>1, <2>2 DEF FindUserFails
  <2> QED BY <1>5, <2>2, <2>3 DEF FindUserFails, Begin, UserHeard, TypeOK, rows
<1>6. ASSUME NEW u \in UserIds, FindUserToDelete(a, u) PROVE UsersCovered'
  <2> SUFFICES ASSUME NEW v \in UserIds, v \in untold, v \notin excused PROVE UserHeard(v)'
    BY <1>6 DEF FindUserToDelete, UsersCovered
  <2>1. PICK b \in Admins :
            \/ req[b].at = "findUser" /\ req[b].key = v /\ v \in users
            \/ req[b].at = "tellUser" /\ req[b].found = v
    BY DEF UsersCovered, UserHeard
  <2>2. b # a
    BY <1>6, <2>1 DEF FindUserToDelete, Idle
  <2> QED BY <1>6, <2>1, <2>2 DEF FindUserToDelete, Begin, UserHeard, TypeOK, rows
<1>7. CASE DeleteUser(a)
  <2> DEFINE u == req[a].key
  <2> SUFFICES ASSUME NEW v \in UserIds, v \in untold', v \notin excused' PROVE UserHeard(v)'
    BY DEF UsersCovered
  <2>1. CASE req[a].found = v
    BY <1>7, <2>1 DEF DeleteUser, Begin, UserHeard, TypeOK
  <2>2. CASE req[a].found # v
    <3>1. v # u
      BY <1>7, <2>2, NoteOne DEF DeleteUser
    <3>2. /\ \A row \in allowed \cup allowed' : row[1] # u => (row \in allowed <=> row \in allowed')
          /\ \A row \in whitelist \cup whitelist' : row[1] # u => (row \in whitelist <=> row \in whitelist')
      BY <1>7 DEF DeleteUser, DropUser
    <3>3. v \in users => Record(v)' = Record(v)
      BY <1>7, <3>1, <3>2, OtherRecords DEF DeleteUser, DropUser
    <3>4. v \in untold /\ v \notin excused
      BY <1>7, <3>3, NoteOne, StoreAssumption DEF DeleteUser, Affected
    <3>5. PICK b \in Admins :
              \/ req[b].at = "findUser" /\ req[b].key = v /\ v \in users
              \/ req[b].at = "tellUser" /\ req[b].found = v
      BY <3>4 DEF UsersCovered, UserHeard
    <3>6. b # a
      BY <1>7, <3>5 DEF DeleteUser
    <3> QED BY <1>7, <3>1, <3>5, <3>6 DEF DeleteUser, DropUser, Begin, UserHeard, TypeOK
  <2> QED BY <2>1, <2>2
<1>8. CASE TellUser(a)
  <2> SUFFICES ASSUME NEW v \in UserIds, v \in untold, v # req[a].found, v \notin excused
               PROVE  UserHeard(v)'
    BY <1>8 DEF TellUser, UsersCovered
  <2>1. PICK b \in Admins :
            \/ req[b].at = "findUser" /\ req[b].key = v /\ v \in users
            \/ req[b].at = "tellUser" /\ req[b].found = v
    BY DEF UsersCovered, UserHeard
  <2>2. b # a
    BY <1>8, <2>1 DEF TellUser
  <2> QED BY <1>8, <2>1, <2>2 DEF TellUser, End, UserHeard, TypeOK, rows
<1> QED BY <1>1, <1>2, <1>3, <1>4, <1>5, <1>6, <1>7, <1>8 DEF UserRequest

LEMMA UsersStep == ASSUME TypeOK, UsersCovered, [Next]_vars PROVE UsersCovered'
<1>1. CASE UNCHANGED vars
  BY <1>1 DEF vars, UsersCovered, UserHeard
<1> QED
  BY <1>1, ResourcesTellUsers, PoolRequestsTellUsers, UserRequestsTellUsers DEF Next

(* When no request is under way, every user whose row, pools or addresses  *)
(* changed was named in a user_change since, unless it was a deleted       *)
(* pool's, or the lookup of the name failed.                               *)
THEOREM UsersAreToldHolds == Spec => []UsersAreTold
<1>1. Init => UsersCovered
  BY DEF Init, UsersCovered
<1>2. UsersCovered => UsersAreTold
  BY DEF UsersCovered, UserHeard, UsersAreTold, Quiet, Idle
<1> QED BY <1>1, <1>2, InitTyped, TypeStep, UsersStep, PTL DEF Spec
-----------------------------------------------------------------------------
(* The workers.  A connected worker is registered with the pool its row    *)
(* has, and a change of that pool is on the way to it: the lookup by tag   *)
(* finds the pool as long as it is there, and who deletes it tells.        *)

Registered ==
    \A w \in WorkerIds :
        /\ online[w] # None => w \in workers \cup spent
        /\ online[w] # None /\ w \in workers => online[w] = home[w]
        /\ w \in untold => online[w] # None

PoolHeard(p) ==
    \E a \in Admins :
        \/ req[a].at = "findPool" /\ req[a].key = p /\ p \in pools
        \/ req[a].at = "tellPool" /\ req[a].found = p

WorkersCovered ==
    \A w \in WorkerIds : w \in untold /\ w \notin excused => PoolHeard(online[w])

LEMMA AffectedWorkers ==
    ASSUME TypeOK, NEW w \in WorkerIds, w \in Affected
    PROVE  online[w] # None /\ Config(w)' # Config(w)
  BY StoreAssumption DEF Affected, TypeOK

LEMMA RegisteredStep ==
    ASSUME TypeOK, TypeOK', Registered, [Next]_vars PROVE Registered'
<1>1. \A w \in WorkerIds : w \in Affected => online[w] # None
  BY AffectedWorkers
<1>2. CASE UNCHANGED <<workers, spent, home, online>> /\ \E silent, lost : Note(silent, lost)
  BY <1>1, <1>2 DEF Registered, Note
<1>3. CASE UNCHANGED <<workers, spent, home, online>> /\ untold' \subseteq untold
  BY <1>3 DEF Registered
<1>4. ASSUME NEW r \in Regions, CreateRegion(r) \/ DeleteRegion(r) PROVE Registered'
  BY <1>1, <1>4 DEF CreateRegion, DeleteRegion, Note, Registered, TypeOK
<1>5. ASSUME NEW s \in Upstreams, CreateUpstream(s) \/ DeleteUpstream(s) PROVE Registered'
  BY <1>2, <1>5 DEF CreateUpstream, DeleteUpstream
<1>6. ASSUME NEW w \in WorkerIds, DeleteWorker(w) PROVE Registered'
  BY <1>1, <1>6 DEF DeleteWorker, Note, Registered, TypeOK
<1>7. ASSUME NEW w \in WorkerIds, Connect(w) \/ Disconnect(w) PROVE Registered'
  BY <1>7 DEF Connect, Disconnect, rows, Registered, TypeOK
<1>8. ASSUME NEW w \in WorkerIds, NEW p \in PoolIds, CreateWorker(w, p) PROVE Registered'
  BY <1>1, <1>8 DEF CreateWorker, Note, Registered, TypeOK
<1>9. ASSUME NEW p \in PoolIds, NEW used \in SUBSET Upstreams, CreatePool(p, used) PROVE Registered'
  BY <1>2, <1>9 DEF CreatePool
<1>10. ASSUME NEW u \in UserIds, NEW tags \in SUBSET Tags, NEW ips \in SUBSET IPs,
             CreateUser(u, tags, ips)
      PROVE  Registered'
  BY <1>2, <1>10 DEF CreateUser
<1>11. ASSUME NEW a \in Admins, DeletePool(a) PROVE Registered'
  <2>1. PICK p \in PoolIds :
            DropPool(p) /\ online' = online /\ \E lost : Note(UserIds, lost)
    BY <1>11 DEF DeletePool, PoolsTagged, TypeOK
  <2>2. untold' = untold \cup Affected
    BY <2>1 DEF Note
  <2> QED BY <1>1, <2>1, <2>2 DEF DropPool, Note, Registered, TypeOK
<1>12. ASSUME NEW a \in Admins, PoolRequest(a) PROVE Registered'
  BY <1>2, <1>3, <1>11, <1>12
  DEF PoolRequest, UpdatePool, AddPoolUpstreamWeight, DeletePoolUpstreamWeight, FindPoolToDelete,
      FindPool, FindPoolFails, NothingDeleted, TellPool, rows
<1>13. ASSUME NEW a \in Admins, DeleteUser(a) PROVE Registered'
  <2>1. req[a].key \in UserIds
    BY <1>13 DEF DeleteUser, Requests, Idle, TypeOK
  <2> QED BY <1>1, <1>13, <2>1, StoreAssumption DEF DeleteUser, DropUser, Note, Registered
<1>14. ASSUME NEW a \in Admins, UserRequest(a) PROVE Registered'
  BY <1>2, <1>3, <1>13, <1>14
  DEF UserRequest, ChangeUserPools, ChangeUserIpWhitelist, UpdateUserStatus, FindUserToDelete,
      FindUser, FindUserFails, TellUser, rows
<1>15. CASE UNCHANGED vars
  BY <1>3, <1>15 DEF vars
<1> QED
  BY <1>4, <1>5, <1>6, <1>7, <1>8, <1>9, <1>10, <1>12, <1>14, <1>15 DEF Next, Resources,
      RegionsAndUpstreams, Workers, NewPool, NewUser

(* The configuration of a worker whose pool a step leaves alone.           *)
LEMMA SameConfig ==
    ASSUME NEW w, w \in workers <=> w \in workers', home'[w] = home[w],
           w \in workers => settings'[home[w]] = settings[home[w]],
           w \in workers => \A row \in weights \cup weights' :
                              row[1] = home[w] => (row \in weights <=> row \in weights')
    PROVE  Config(w)' = Config(w)
<1>1. {r \in weights : w \in workers /\ r[1] = home[w]}'
        = {r \in weights : w \in workers /\ r[1] = home[w]}
  OBVIOUS
<1>2. \A r \in {r \in weights : w \in workers /\ r[1] = home[w]} : settings'[r[1]] = settings[r[1]]
  OBVIOUS
<1> QED BY <1>1, <1>2 DEF Config

LEMMA ConfigsFrame ==
    ASSUME TypeOK, UNCHANGED <<workers, home, settings, weights>>
    PROVE  Affected \cap WorkerIds = {}
<1>1. \A w \in WorkerIds : Config(w)' = Config(w)
  BY SameConfig
<1> QED BY <1>1, AffectedWorkers

(* A step that deletes no pool and leaves the requests alone.              *)
LEMMA WorkersFrame ==
    ASSUME WorkersCovered, pools \subseteq pools', UNCHANGED req,
           \A w \in WorkerIds : w \in untold' /\ w \notin excused' =>
               w \in untold /\ w \notin excused /\ online'[w] = online[w]
    PROVE  WorkersCovered'
  BY DEF WorkersCovered, PoolHeard

LEMMA ResourcesTellWorkers ==
    ASSUME TypeOK, NoOrphans, Registered, WorkersCovered, Resources
    PROVE  WorkersCovered'
<1>1. CASE /\ pools \subseteq pools' /\ UNCHANGED <<req, online>>
           /\ \E lost : Note(Everybody, lost) \/ (Note(Nobody, lost) /\ Affected \cap WorkerIds = {})
  BY <1>1, NoteOne, WorkersFrame DEF Everybody
<1>2. CASE UNCHANGED <<workers, home, settings, weights>> /\ pools \subseteq pools'
           /\ UNCHANGED <<req, online>> /\ Note(Nobody, Nobody)
  BY <1>1, <1>2, ConfigsFrame
<1>3. ASSUME NEW r \in Regions, CreateRegion(r) \/ DeleteRegion(r) PROVE WorkersCovered'
  BY <1>1, <1>2, <1>3 DEF CreateRegion, DeleteRegion
<1>4. ASSUME NEW s \in Upstreams, CreateUpstream(s) \/ DeleteUpstream(s) PROVE WorkersCovered'
  BY <1>1, <1>2, <1>4 DEF CreateUpstream, DeleteUpstream
<1>5. ASSUME NEW w \in WorkerIds, DeleteWorker(w) PROVE WorkersCovered'
  BY <1>1, <1>5 DEF DeleteWorker
<1>6. ASSUME NEW w \in WorkerIds, Connect(w) \/ Disconnect(w) PROVE WorkersCovered'
  BY <1>6, WorkersFrame DEF Connect, Disconnect, rows, Registered, TypeOK
<1>7. ASSUME NEW w \in WorkerIds, NEW p \in PoolIds, CreateWorker(w, p) PROVE WorkersCovered'
  <2>1. \A v \in WorkerIds \ {w} : Config(v)' = Config(v)
    <3> SUFFICES ASSUME NEW v \in WorkerIds \ {w} PROVE Config(v)' = Config(v)
      OBVIOUS
    <3>1. (v \in workers <=> v \in workers') /\ home'[v] = home[v]
      BY <1>7 DEF CreateWorker, TypeOK
    <3> QED BY <1>7, <3>1, SameConfig DEF CreateWorker
  <2>2. online[w] = None
    BY <1>7 DEF CreateWorker, Registered
  <2>3. Affected \cap WorkerIds = {}
    BY <2>1, <2>2, AffectedWorkers
  <2> QED BY <1>1, <1>7, <2>3 DEF CreateWorker
<1>8. ASSUME NEW p \in PoolIds, NEW used \in SUBSET Upstreams, CreatePool(p, used) PROVE WorkersCovered'
  <2>1. \A w \in workers : home[w] # p /\ home[w] \in PoolIds
    BY <1>8 DEF CreatePool, NoOrphans, TypeOK
  <2>2. \A q \in PoolIds : q # p => settings'[q] = settings[q]
    BY <1>8 DEF CreatePool, Place, TypeOK
  <2>3. \A row \in weights \cup weights' : row[1] # p => (row \in weights <=> row \in weights')
    BY <1>8 DEF CreatePool, Weighted
  <2>4. \A w \in WorkerIds : Config(w)' = Config(w)
    <3> SUFFICES ASSUME NEW w \in WorkerIds PROVE Config(w)' = Config(w)
      OBVIOUS
    <3> QED BY <1>8, <2>1, <2>2, <2>3, SameConfig DEF CreatePool
  <2>5. Affected \cap WorkerIds = {}
    BY <2>4, AffectedWorkers
  <2> QED BY <1>1, <1>8, <2>5 DEF CreatePool
<1>9. ASSUME NEW u \in UserIds, NEW tags \in SUBSET Tags, NEW ips \in SUBSET IPs,
             CreateUser(u, tags, ips)
      PROVE  WorkersCovered'
  BY <1>2, <1>9 DEF CreateUser
<1> QED BY <1>3, <1>4, <1>5, <1>6, <1>7, <1>8, <1>9
    DEF Resources, RegionsAndUpstreams, Workers, NewPool, NewUser

(* A request on its way to a user tells no worker.                         *)
LEMMA UserRequestsTellWorkers ==
    ASSUME TypeOK, WorkersCovered, NEW a \in Admins, UserRequest(a) PROVE WorkersCovered'
<1> SUFFICES ASSUME NEW w \in WorkerIds, w \in untold', w \notin excused'
             PROVE  PoolHeard(online[w])'
  BY DEF WorkersCovered
<1>1. w \in untold /\ w \notin excused
  <2>1. CASE UNCHANGED <<workers, home, settings, weights>> /\ \E lost : Note(Nobody, lost)
    BY <2>1, NoteOne, ConfigsFrame
  <2>2. CASE untold' \subseteq untold /\ WorkerIds \cap excused \subseteq excused'
    BY <2>2
  <2>3. CASE TellUser(a)
    <3>1. w # req[a].found
      BY <2>3 DEF TellUser
    <3> QED BY <2>3, <3>1 DEF TellUser
  <2> QED BY <2>1, <2>2, <2>3
      DEF UserRequest, ChangeUserPools, ChangeUserIpWhitelist, UpdateUserStatus, FindUserToDelete,
          FindUser, FindUserFails, DeleteUser
<1>2. PICK b \in Admins :
          \/ req[b].at = "findPool" /\ req[b].key = online[w] /\ online[w] \in pools
          \/ req[b].at = "tellPool" /\ req[b].found = online[w]
  BY <1>1 DEF WorkersCovered, PoolHeard
<1>3. UNCHANGED <<pools, online>>
  BY DEF UserRequest, ChangeUserPools, ChangeUserIpWhitelist, UpdateUserStatus, FindUserToDelete,
         FindUser, FindUserFails, DeleteUser, TellUser, rows
<1>4. req[a].at \notin {"findPool", "tellPool"}
  <2>1. \/ req[a] = Idle \/ req[a].at = "findUser"
        \/ req[a].at = "deleteUser" \/ req[a].at = "tellUser"
    BY DEF UserRequest, ChangeUserPools, ChangeUserIpWhitelist, UpdateUserStatus, FindUserToDelete,
           FindUser, FindUserFails, DeleteUser, TellUser
  <2> QED BY <2>1 DEF Idle
<1>5. b # a
  BY <1>2, <1>4
<1>6. req'[b] = req[b]
  BY <1>5 DEF UserRequest, ChangeUserPools, ChangeUserIpWhitelist, UpdateUserStatus,
              FindUserToDelete, FindUser, FindUserFails, DeleteUser, TellUser, Begin, End, TypeOK
<1> QED BY <1>2, <1>3, <1>6 DEF PoolHeard

(* A change of a pool begins a request that will tell its workers.         *)
LEMMA PoolChangeTells ==
    ASSUME TypeOK, Registered, WorkersCovered, NEW a \in Admins, NEW p \in PoolIds, req[a] = Idle,
           \A w \in WorkerIds : w \notin workers \/ home[w] # p => Config(w)' = Config(w),
           UNCHANGED <<pools, online>>, Note(Nobody, Nobody),
           \/ p \in pools /\ Begin(a, "findPool", p, None)
           \/ Begin(a, "tellPool", p, p)
    PROVE  WorkersCovered'
<1> SUFFICES ASSUME NEW w \in WorkerIds, w \in untold', w \notin excused'
             PROVE  PoolHeard(online[w])'
  BY DEF WorkersCovered
<1>1. CASE online[w] = p
  BY <1>1 DEF Begin, PoolHeard, TypeOK
<1>2. CASE online[w] # p
  <2>1. w \notin Affected
    BY <1>2, AffectedWorkers DEF Registered
  <2>2. w \in untold /\ w \notin excused
    BY <2>1, NoteOne
  <2>3. PICK b \in Admins :
            \/ req[b].at = "findPool" /\ req[b].key = online[w] /\ online[w] \in pools
            \/ req[b].at = "tellPool" /\ req[b].found = online[w]
    BY <2>2 DEF WorkersCovered, PoolHeard
  <2>4. req'[b] = req[b]
    BY <2>3 DEF Idle, Begin, TypeOK
  <2> QED BY <2>3, <2>4 DEF PoolHeard
<1> QED BY <1>1, <1>2

(* DeletePool: the request tells the deleted pool's workers, if that is    *)
(* the pool it looked up, and excuses them otherwise.                      *)
LEMMA DropTells ==
    ASSUME TypeOK, NoOrphans, Registered, WorkersCovered, NEW a \in Admins,
           req[a].at = "deletePool", NEW p \in PoolIds, DropPool(p), online' = online,
           IF req[a].found = None THEN End(a) ELSE Begin(a, "tellPool", req[a].found, req[a].found),
           Note(UserIds, IF req[a].found = p THEN Nobody ELSE Hears(p))
    PROVE  WorkersCovered'
<1> SUFFICES ASSUME NEW w \in WorkerIds, w \in untold', w \notin excused'
             PROVE  PoolHeard(online[w])'
  BY DEF WorkersCovered
<1>1. CASE online[w] = p
  <2>1. req[a].found = p
    BY <1>1, NoteOne DEF Hears
  <2> QED BY <1>1, <2>1, StoreAssumption DEF Begin, PoolHeard, TypeOK
<1>2. CASE online[w] # p
  <2>1. w \notin Affected
    <3>1. ASSUME online[w] # None PROVE Config(w)' = Config(w)
      <4>1. ASSUME w \in workers PROVE home[w] # p
        BY <1>2, <3>1, <4>1 DEF Registered
      <4>2. (w \in workers <=> w \in workers') /\ home'[w] = home[w]
        BY <4>1 DEF DropPool, TypeOK
      <4>3. w \in workers => settings'[home[w]] = settings[home[w]]
        BY <4>1 DEF DropPool, NoOrphans, TypeOK
      <4>4. w \in workers => \A row \in weights \cup weights' :
                               row[1] = home[w] => (row \in weights <=> row \in weights')
        BY <4>1 DEF DropPool
      <4> QED BY <4>2, <4>3, <4>4, SameConfig
    <3> QED BY <3>1, AffectedWorkers
  <2>2. w \in untold /\ w \notin excused
    BY <2>1, NoteOne
  <2>3. PICK b \in Admins :
            \/ req[b].at = "findPool" /\ req[b].key = online[w] /\ online[w] \in pools
            \/ req[b].at = "tellPool" /\ req[b].found = online[w]
    BY <2>2 DEF WorkersCovered, PoolHeard
  <2>4. online[w] \in pools => online[w] \in pools'
    BY <1>2 DEF DropPool
  <2>5. req'[b] = req[b]
    BY <2>3 DEF Begin, End, TypeOK
  <2> QED BY <2>3, <2>4, <2>5 DEF PoolHeard
<1> QED BY <1>1, <1>2

LEMMA PoolRequestsTellWorkers ==
    ASSUME TypeOK, NoOrphans, Registered, WorkersCovered, NEW a \in Admins, PoolRequest(a)
    PROVE  WorkersCovered'
<1>1. ASSUME NEW p \in PoolIds, UpdatePool(a, p) PROVE WorkersCovered'
  <2>1. \A q \in PoolIds : q # p => settings'[q] = settings[q]
    BY <1>1 DEF UpdatePool, Place, TypeOK
  <2>2. \A w \in WorkerIds : w \notin workers \/ home[w] # p => Config(w)' = Config(w)
    <3> SUFFICES ASSUME NEW w \in WorkerIds, w \notin workers \/ home[w] # p
                 PROVE  Config(w)' = Config(w)
      OBVIOUS
    <3>1. w \in workers => settings'[home[w]] = settings[home[w]]
      BY <2>1 DEF NoOrphans, TypeOK
    <3> QED BY <1>1, <3>1, SameConfig DEF UpdatePool
  <2> QED BY <1>1, <2>2, PoolChangeTells DEF UpdatePool
<1>2. ASSUME NEW p \in PoolIds, NEW s \in Upstreams,
             AddPoolUpstreamWeight(a, p, s) \/ DeletePoolUpstreamWeight(a, p, s)
      PROVE  WorkersCovered'
  <2>1. \A row \in weights \cup weights' : row[1] # p => (row \in weights <=> row \in weights')
    BY <1>2 DEF AddPoolUpstreamWeight, DeletePoolUpstreamWeight
  <2>2. UNCHANGED <<workers, home, settings, pools, online>> /\ p \in pools
    BY <1>2 DEF AddPoolUpstreamWeight, DeletePoolUpstreamWeight, NoOrphans
  <2>3. \A w \in WorkerIds : w \notin workers \/ home[w] # p => Config(w)' = Config(w)
    BY <2>1, <2>2, SameConfig
  <2> QED BY <1>2, <2>2, <2>3, PoolChangeTells DEF AddPoolUpstreamWeight, DeletePoolUpstreamWeight
<1>3. ASSUME NEW t \in Tags, FindPoolToDelete(a, t) PROVE WorkersCovered'
  <2> SUFFICES ASSUME NEW w \in WorkerIds, w \in untold, w \notin excused
               PROVE  PoolHeard(online[w])'
    BY <1>3 DEF FindPoolToDelete, WorkersCovered
  <2>1. PICK b \in Admins :
            \/ req[b].at = "findPool" /\ req[b].key = online[w] /\ online[w] \in pools
            \/ req[b].at = "tellPool" /\ req[b].found = online[w]
    BY DEF WorkersCovered, PoolHeard
  <2>2. b # a
    BY <1>3, <2>1 DEF FindPoolToDelete, Idle
  <2> QED BY <1>3, <2>1, <2>2 DEF FindPoolToDelete, Begin, PoolHeard, TypeOK, rows
<1>4. CASE FindPool(a)
  <2> SUFFICES ASSUME NEW w \in WorkerIds, w \in untold, w \notin excused
               PROVE  PoolHeard(online[w])'
    BY <1>4 DEF FindPool, WorkersCovered
  <2>1. PICK b \in Admins :
            \/ req[b].at = "findPool" /\ req[b].key = online[w] /\ online[w] \in pools
            \/ req[b].at = "tellPool" /\ req[b].found = online[w]
    BY DEF WorkersCovered, PoolHeard
  <2>2. CASE b = a
    <3>1. PoolsTagged({TagOf[req[a].key]}) = {online[w]}
      BY <1>4, <2>1, <2>2 DEF FindPool, PoolsTagged, NoOrphans
    <3>2. Begin(a, "tellPool", req[a].key, online[w]) /\ online' = online
      BY <1>4, <3>1 DEF FindPool
    <3> QED BY <3>2 DEF Begin, PoolHeard, TypeOK
  <2>3. CASE b # a
    BY <1>4, <2>1, <2>3 DEF FindPool, Begin, End, PoolHeard, TypeOK, rows
  <2> QED BY <2>2, <2>3
<1>5. CASE FindPoolFails(a)
  <2> SUFFICES ASSUME NEW w \in WorkerIds, w \in untold, w \notin excused'
               PROVE  PoolHeard(online[w])'
    BY <1>5 DEF FindPoolFails, WorkersCovered
  <2>1. w \notin excused /\ online[w] # req[a].key
    BY <1>5 DEF FindPoolFails
  <2>2. PICK b \in Admins :
            \/ req[b].at = "findPool" /\ req[b].key = online[w] /\ online[w] \in pools
            \/ req[b].at = "tellPool" /\ req[b].found = online[w]
    BY <2>1 DEF WorkersCovered, PoolHeard
  <2>3. b # a
    BY <1>5, <2>1, <2>2 DEF FindPoolFails
  <2> QED BY <1>5, <2>2, <2>3 DEF FindPoolFails, End, PoolHeard, TypeOK, rows
<1>6. CASE DeletePool(a)
  <2>1. PICK p \in PoolsTagged({req[a].key}) :
            /\ DropPool(p)
            /\ IF req[a].found = None THEN End(a)
               ELSE Begin(a, "tellPool", req[a].found, req[a].found)
            /\ online' = online
            /\ Note(UserIds, IF req[a].found = p THEN Nobody ELSE Hears(p))
    BY <1>6 DEF DeletePool
  <2>2. p \in PoolIds /\ req[a].at = "deletePool"
    BY <1>6 DEF DeletePool, PoolsTagged, TypeOK
  <2> QED BY <2>1, <2>2, DropTells
<1>7. CASE NothingDeleted(a)
  <2> SUFFICES ASSUME NEW w \in WorkerIds, w \in untold, w \notin excused
               PROVE  PoolHeard(online[w])'
    BY <1>7 DEF NothingDeleted, WorkersCovered
  <2>1. PICK b \in Admins :
            \/ req[b].at = "findPool" /\ req[b].key = online[w] /\ online[w] \in pools
            \/ req[b].at = "tellPool" /\ req[b].found = online[w]
    BY DEF WorkersCovered, PoolHeard
  <2>2. b # a
    BY <1>7, <2>1 DEF NothingDeleted
  <2> QED BY <1>7, <2>1, <2>2 DEF NothingDeleted, End, PoolHeard, TypeOK, rows
<1>8. CASE TellPool(a)
  <2> SUFFICES ASSUME NEW w \in WorkerIds, w \in untold, online[w] # req[a].found, w \notin excused
               PROVE  PoolHeard(online[w])'
    BY <1>8 DEF TellPool, Hears, WorkersCovered
  <2>1. PICK b \in Admins :
            \/ req[b].at = "findPool" /\ req[b].key = online[w] /\ online[w] \in pools
            \/ req[b].at = "tellPool" /\ req[b].found = online[w]
    BY DEF WorkersCovered, PoolHeard
  <2>2. b # a
    BY <1>8, <2>1 DEF TellPool
  <2> QED BY <1>8, <2>1, <2>2 DEF TellPool, End, PoolHeard, TypeOK, rows
<1> QED BY <1>1, <1>2, <1>3, <1>4, <1>5, <1>6, <1>7, <1>8 DEF PoolRequest

LEMMA WorkersStep ==
    ASSUME TypeOK, NoOrphans, Registered, WorkersCovered, [Next]_vars PROVE WorkersCovered'
<1>1. CASE UNCHANGED vars
  BY <1>1 DEF vars, WorkersCovered, PoolHeard
<1> QED
  BY <1>1, ResourcesTellWorkers, PoolRequestsTellWorkers, UserRequestsTellWorkers DEF Next

(* When no request is under way, every connected worker whose              *)
(* configuration changed was sent a pool_change since, apart from the      *)
(* changes that notify nobody, failed lookups and a deletion that hit      *)
(* another pool than the one looked up.                                    *)
THEOREM WorkersAreToldHolds == Spec => []WorkersAreTold
<1> DEFINE Inv == TypeOK /\ NoOrphans /\ Registered /\ WorkersCovered
<1>1. Init => Inv
  <2>1. Init => NoOrphans /\ Registered /\ WorkersCovered
    BY DEF Init, NoOrphans, Registered, WorkersCovered
  <2> QED BY <2>1, InitTyped
<1>2. Inv /\ [Next]_vars => Inv'
  BY TypeStep, OrphansStep, RegisteredStep, WorkersStep
<1>3. Inv => WorkersAreTold
  BY DEF WorkersCovered, PoolHeard, WorkersAreTold, Quiet, Idle
<1> QED BY <1>1, <1>2, <1>3, PTL DEF Spec
=============================================================================

---------------------- MODULE ProxyConnections_proofs ----------------------
(* The connection counts of the user and of the health collector, for every *)
(* number of connections, User objects and places.                          *)
EXTENDS ProxyConnections, FiniteSetTheorems, TLAPS

LEMMA InitTyped == ASSUME Init PROVE TypeOK
  BY ProxyAssumption DEF Init, TypeOK, Stages, Directions

LEMMA TypeStep == ASSUME TypeOK, [Next]_vars PROVE TypeOK'
<1> USE ProxyAssumption DEF TypeOK, Stages, Directions, Causes
<1>0. CASE UNCHANGED vars
  BY <1>0 DEF vars
<1> SUFFICES ASSUME Next PROVE TypeOK'
  BY <1>0
<1>1. UNCHANGED service
  BY DEF Next
<1>2. ASSUME NEW c \in Conns, OpenHTTP(c) \/ OpenSocks(c) PROVE TypeOK'
  BY <1>1, <1>2 DEF OpenHTTP, OpenSocks, Open
<1>3. ASSUME NEW c \in Conns, AddConnection(c) PROVE TypeOK'
  BY <1>1, <1>3 DEF AddConnection
<1>4. ASSUME NEW c \in Conns, Refuse(c) \/ SocksFails(c) \/ Associate(c) \/ DisAssociate(c) PROVE TypeOK'
  BY <1>1, <1>4 DEF Refuse, SocksFails, Associate, DisAssociate
<1>5. ASSUME NEW c \in Conns, Reload(c) PROVE TypeOK'
  BY <1>1, <1>5 DEF Reload, Blurs, Updating
<1>6. ASSUME NEW c \in Conns, Increment(c) PROVE TypeOK'
  BY <1>1, <1>6 DEF Increment, Store, Blurs
<1>7. ASSUME NEW c \in Conns, Connect(c) PROVE TypeOK'
  BY <1>1, <1>7 DEF Connect, CountActive
<1>8. ASSUME NEW c \in Conns, HTTPFails(c) \/ Panic(c) \/ ReportBlocks(c) PROVE TypeOK'
  BY <1>1, <1>8 DEF HTTPFails, Panic, ReportBlocks, Blurs
<1>9. ASSUME NEW c \in Conns, Report(c) \/ NothingToRemove(c) PROVE TypeOK'
  BY <1>1, <1>9 DEF Report, NothingToRemove
<1>10. ASSUME NEW c \in Conns, RemoveConnection(c) PROVE TypeOK'
  BY <1>1, <1>10 DEF RemoveConnection
<1>11. ASSUME NEW c \in Conns, Decrement(c) PROVE TypeOK'
  BY <1>1, <1>11 DEF Decrement, Store, Blurs
<1>12. ASSUME NEW c \in Conns, Close(c) PROVE TypeOK'
  BY <1>1, <1>12 DEF Close
<1>13. ASSUME NEW c \in Conns, NEW d \in Directions, CopyEnds(c, d) PROVE TypeOK'
  BY <1>1, <1>13 DEF CopyEnds, CountActive
<1>14. CASE ResetRead
  BY <1>1, <1>14 DEF ResetRead
<1>15. CASE ResetWrite
  BY <1>1, <1>15 DEF ResetWrite, Blurs
<1>16. ASSUME NEW u \in Users \cup {NoUser}, Replace(u) PROVE TypeOK'
  BY <1>1, <1>16 DEF Replace, Blurs
<1> QED
  BY <1>2, <1>3, <1>4, <1>5, <1>6, <1>7, <1>8, <1>9, <1>10, <1>11, <1>12, <1>13, <1>14, <1>15, <1>16
     DEF Next, Handle

(* The connections, their User objects and the counters stay well typed,   *)
(* and whoever updates a count holds the object it is in.                  *)
THEOREM TypeCorrect == Spec => []TypeOK
  BY InitTyped, TypeStep, PTL DEF Spec

-----------------------------------------------------------------------------
(* A connection being relayed has both its directions; one that reports    *)
(* has lost one.                                                           *)
Relayed == {c \in Conns : stage[c] = "relay"}

EndedFollowsStage ==
    \A c \in Conns : /\ stage[c] = "relay" => ended[c] = {}
                     /\ stage[c] = "report" => ended[c] # {}

ActiveInv == ActiveIsExact /\ EndedFollowsStage

LEMMA ConnsFinite ==
    ASSUME NEW S \in SUBSET Conns
    PROVE  IsFiniteSet(S) /\ Cardinality(S) \in Nat
  BY ProxyAssumption, FS_Subset, FS_CardinalityType

LEMMA RelayedFrame ==
    ASSUME ActiveInv, UNCHANGED <<active, ended>>,
           \A c \in Conns : /\ stage'[c] = "relay" <=> stage[c] = "relay"
                            /\ stage'[c] = "report" => stage[c] = "report"
    PROVE  ActiveInv'
<1>1. Relayed' = Relayed
  BY DEF Relayed
<1> QED
  BY <1>1 DEF ActiveInv, ActiveIsExact, EndedFollowsStage, Relayed

LEMMA ActiveStep == ASSUME TypeOK, ActiveInv, [Next]_vars PROVE ActiveInv'
<1>0. stage \in [Conns -> Stages] /\ ended \in [Conns -> SUBSET Directions]
  BY DEF TypeOK
<1>1. ASSUME NEW c \in Conns, Connect(c) PROVE ActiveInv'
  <2>1. /\ stage[c] = "connect" /\ stage' = [stage EXCEPT ![c] = "relay"]
        /\ ended' = [ended EXCEPT ![c] = {}] /\ active' = active + 1
    BY <1>1 DEF Connect, CountActive
  <2>2. Relayed' = Relayed \cup {c} /\ c \notin Relayed
    BY <1>0, <2>1 DEF Relayed
  <2>3. Cardinality(Relayed') = Cardinality(Relayed) + 1
    BY <2>2, ConnsFinite, FS_AddElement DEF Relayed
  <2>4. EndedFollowsStage'
    BY <1>0, <2>1 DEF ActiveInv, EndedFollowsStage
  <2> QED
    BY <2>1, <2>3, <2>4 DEF ActiveInv, ActiveIsExact, Relayed
<1>2. ASSUME NEW c \in Conns, NEW d \in Directions, CopyEnds(c, d) PROVE ActiveInv'
  <2>1. ended' = [ended EXCEPT ![c] = @ \cup {d}] /\ stage[c] \in {"relay", "report"}
    BY <1>2 DEF CopyEnds
  <2>2. CASE stage[c] = "relay"
    <3>1. stage' = [stage EXCEPT ![c] = "report"] /\ active' = active + -1
      BY <1>2, <2>2 DEF CopyEnds, FirstEnd, CountActive, ActiveInv, EndedFollowsStage
    <3>2. Relayed' = Relayed \ {c} /\ c \in Relayed
      BY <1>0, <2>2, <3>1 DEF Relayed
    <3>3. Cardinality(Relayed') = Cardinality(Relayed) - 1
      BY <3>2, ConnsFinite, FS_RemoveElement DEF Relayed
    <3>4. EndedFollowsStage'
      BY <1>0, <2>1, <3>1 DEF ActiveInv, EndedFollowsStage
    <3>5. active = Cardinality(Relayed) /\ Cardinality(Relayed) \in Nat
      BY ConnsFinite DEF ActiveInv, ActiveIsExact, Relayed
    <3> QED
      BY <3>1, <3>3, <3>4, <3>5 DEF ActiveInv, ActiveIsExact, Relayed
  <2>3. CASE stage[c] = "report"
    <3>1. UNCHANGED <<stage, active>>
      BY <1>2, <2>3 DEF CopyEnds, FirstEnd, ActiveInv, EndedFollowsStage
    <3>2. EndedFollowsStage'
      BY <1>0, <2>1, <2>3, <3>1 DEF ActiveInv, EndedFollowsStage
    <3> QED
      BY <3>1, <3>2 DEF ActiveInv, ActiveIsExact
  <2> QED
    BY <2>1, <2>2, <2>3
<1>3. ASSUME NEW c \in Conns, Close(c) PROVE ActiveInv'
  <2>1. /\ stage[c] = "close" /\ stage' = [stage EXCEPT ![c] = "closed"]
        /\ ended' = [ended EXCEPT ![c] = {}] /\ UNCHANGED active
    BY <1>3 DEF Close
  <2>2. Relayed' = Relayed
    BY <1>0, <2>1 DEF Relayed
  <2>3. EndedFollowsStage'
    BY <1>0, <2>1 DEF ActiveInv, EndedFollowsStage
  <2> QED
    BY <2>1, <2>2, <2>3 DEF ActiveInv, ActiveIsExact, Relayed
<1>4. ASSUME NEW c \in Conns,
             \/ OpenHTTP(c) \/ OpenSocks(c) \/ AddConnection(c) \/ Refuse(c)
             \/ SocksFails(c) \/ HTTPFails(c) \/ Panic(c) \/ Associate(c) \/ DisAssociate(c)
      PROVE  ActiveInv'
  <2>1. /\ UNCHANGED <<active, ended>>
        /\ stage[c] # "relay"
        /\ \E s \in Stages \ {"relay", "report"} : stage' = [stage EXCEPT ![c] = s]
    BY <1>4 DEF OpenHTTP, OpenSocks, Open, AddConnection, Refuse, SocksFails, HTTPFails, Panic,
                Associate, DisAssociate, Stages
  <2> QED
    BY <1>0, <2>1, RelayedFrame
<1>5. ASSUME NEW c \in Conns,
             \/ Increment(c) \/ Reload(c) \/ Report(c) \/ ReportBlocks(c)
             \/ RemoveConnection(c) \/ NothingToRemove(c) \/ Decrement(c)
      PROVE  ActiveInv'
  <2>1. /\ UNCHANGED <<active, ended>>
        /\ \/ UNCHANGED stage
           \/ /\ stage[c] # "relay"
              /\ \E s \in Stages \ {"relay", "report"} : stage' = [stage EXCEPT ![c] = s]
    BY <1>5 DEF Increment, Reload, Report, ReportBlocks, RemoveConnection, NothingToRemove, Decrement, Stages
  <2> QED
    BY <1>0, <2>1, RelayedFrame
<1>6. CASE ResetRead \/ ResetWrite \/ UNCHANGED vars
  BY <1>6, RelayedFrame DEF ResetRead, ResetWrite, vars
<1>7. ASSUME NEW u \in Users \cup {NoUser}, Replace(u) PROVE ActiveInv'
  BY <1>7, RelayedFrame DEF Replace
<1> QED
  BY <1>1, <1>2, <1>3, <1>4, <1>5, <1>6, <1>7 DEF Next, Handle

(* The health collector's gauge is the number of connections relayed: each *)
(* is counted off once, by whichever direction ends first.                 *)
THEOREM GaugeIsExact == Spec => []ActiveIsExact
<1>1. Init => ActiveInv
  <2> SUFFICES ASSUME Init PROVE ActiveInv
    OBVIOUS
  <2>1. Relayed = {}
    BY DEF Init, Relayed
  <2>2. Cardinality(Relayed) = 0
    BY <2>1, FS_EmptySet
  <2> QED
    BY <2>2 DEF Init, ActiveInv, ActiveIsExact, EndedFollowsStage, Relayed
<1>2. TypeOK /\ ActiveInv /\ [Next]_vars => ActiveInv'
  BY ActiveStep
<1>3. ActiveInv => ActiveIsExact
  BY DEF ActiveInv
<1> QED
  BY <1>1, <1>2, <1>3, TypeCorrect, PTL DEF Spec

-----------------------------------------------------------------------------
(* Without a race an update stores what it makes of the count that let it  *)
(* pass, which was not below zero where it goes down.                      *)
SeenFloor ==
    \A c \in Conns : /\ stage[c] = "increment" => seen[c] >= -1
                     /\ stage[c] = "decrement" => seen[c] >= 0

FloorInv == "race" \notin blur => SeenFloor /\ \A u \in Users : count[u] >= -1

LEMMA FloorStep == ASSUME TypeOK, FloorInv, [Next]_vars PROVE FloorInv'
<1> SUFFICES ASSUME "race" \notin blur' PROVE SeenFloor' /\ \A u \in Users : count'[u] >= -1
  BY DEF FloorInv
<1>0. /\ stage \in [Conns -> Stages] /\ seen \in [Conns -> Int] /\ count \in [Users -> Int]
      /\ entry \in Users \cup {NoUser} /\ timer \in Users \cup {NoUser} /\ NoUser \notin Users
      /\ \A c \in Conns : stage[c] \in {"increment", "decrement"} => user[c] \in Users
  BY ProxyAssumption DEF TypeOK
<1>1. ASSUME NEW c \in Conns, Increment(c) \/ Decrement(c)
      PROVE  SeenFloor' /\ \A u \in Users : count'[u] >= -1
  <2>1. /\ \E s \in {"connect", "close"} : stage' = [stage EXCEPT ![c] = s]
        /\ seen' = [seen EXCEPT ![c] = 0]
        /\ "race" \notin blur
    BY <1>1 DEF Increment, Decrement, Store, Blurs
  <2>2. user[c] \in Users
    BY <1>0, <1>1 DEF Increment, Decrement
  <2>3. \E n \in Int : n >= -1 /\ count' = [count EXCEPT ![user[c]] = n]
    <3>1. CASE Increment(c)
      <4>1. seen[c] >= -1 /\ count' = [count EXCEPT ![user[c]] = seen[c] + 1]
        BY <2>1, <3>1 DEF Increment, Store, FloorInv, SeenFloor
      <4>2. seen[c] + 1 \in Int /\ seen[c] + 1 >= -1
        BY <1>0, <4>1
      <4> QED BY <4>1, <4>2, Zenon
    <3>2. CASE Decrement(c)
      <4>1. seen[c] >= 0 /\ count' = [count EXCEPT ![user[c]] = seen[c] + -1]
        BY <2>1, <3>2 DEF Decrement, Store, FloorInv, SeenFloor
      <4>2. seen[c] + -1 \in Int /\ seen[c] + -1 >= -1
        BY <1>0, <4>1
      <4> QED BY <4>1, <4>2, Zenon
    <3> QED
      BY <1>1, <3>1, <3>2
  <2>4. SeenFloor'
    BY <1>0, <2>1 DEF FloorInv, SeenFloor
  <2> QED
    BY <1>0, <2>1, <2>2, <2>3, <2>4 DEF FloorInv
<1>2. ASSUME NEW c \in Conns, AddConnection(c)
      PROVE  SeenFloor' /\ \A u \in Users : count'[u] >= -1
  <2>1. /\ stage' = [stage EXCEPT ![c] = "increment"]
        /\ seen' = [seen EXCEPT ![c] = count[entry]]
        /\ entry \in Users /\ UNCHANGED <<count, blur>>
    BY <1>0, <1>2 DEF AddConnection
  <2>2. SeenFloor'
    BY <1>0, <2>1 DEF FloorInv, SeenFloor
  <2> QED
    BY <2>1, <2>2 DEF FloorInv
<1>3. ASSUME NEW c \in Conns, RemoveConnection(c)
      PROVE  SeenFloor' /\ \A u \in Users : count'[u] >= -1
  <2>1. /\ stage' = [stage EXCEPT ![c] = "decrement"]
        /\ seen' = [seen EXCEPT ![c] = count[entry]]
        /\ count[entry] >= 0 /\ entry \in Users /\ UNCHANGED <<count, blur>>
    BY <1>0, <1>3 DEF RemoveConnection, HoldsPlace
  <2>2. SeenFloor'
    BY <1>0, <2>1 DEF FloorInv, SeenFloor
  <2> QED
    BY <2>1, <2>2 DEF FloorInv
<1>4. ASSUME NEW c \in Conns, Reload(c) PROVE FALSE
  BY <1>4 DEF Reload, Blurs
<1>5. ASSUME NEW c \in Conns,
             \/ OpenHTTP(c) \/ OpenSocks(c) \/ Refuse(c) \/ Connect(c)
             \/ SocksFails(c) \/ HTTPFails(c) \/ Panic(c) \/ Associate(c) \/ DisAssociate(c)
             \/ Report(c) \/ ReportBlocks(c) \/ NothingToRemove(c) \/ Close(c)
             \/ \E d \in Directions : CopyEnds(c, d)
      PROVE  SeenFloor' /\ \A u \in Users : count'[u] >= -1
  <2>1. /\ UNCHANGED <<count, seen>> /\ "race" \notin blur
        /\ UNCHANGED stage \/ \E s \in Stages \ {"increment", "decrement"} : stage' = [stage EXCEPT ![c] = s]
    BY <1>5 DEF OpenHTTP, OpenSocks, Open, Refuse, Connect, SocksFails, HTTPFails, Panic, Associate,
                DisAssociate, Report, ReportBlocks, NothingToRemove, Close, CopyEnds, Stages, Blurs
  <2> QED
    BY <1>0, <2>1 DEF FloorInv, SeenFloor
<1>6. ASSUME ResetRead \/ ResetWrite \/ UNCHANGED vars \/ \E u \in Users \cup {NoUser} : Replace(u)
      PROVE  SeenFloor' /\ \A u \in Users : count'[u] >= -1
  <2>1. UNCHANGED <<stage, seen>> /\ "race" \notin blur
    BY <1>6 DEF ResetRead, ResetWrite, Replace, vars, Blurs
  <2>2. UNCHANGED count \/ \E u \in Users : count' = [count EXCEPT ![u] = 0]
    BY <1>0, <1>6 DEF ResetRead, ResetWrite, Replace, vars
  <2> QED
    BY <1>0, <2>1, <2>2 DEF FloorInv, SeenFloor
<1> QED
  BY <1>1, <1>2, <1>3, <1>4, <1>5, <1>6 DEF Next, Handle

(* Without a race no count ever goes below minus one.                      *)
THEOREM FloorHolds == Spec => []CountFloor
<1>1. Init => FloorInv
  BY DEF Init, FloorInv, SeenFloor
<1>2. TypeOK /\ FloorInv /\ [Next]_vars => FloorInv'
  BY FloorStep
<1>3. FloorInv => CountFloor
  BY DEF FloorInv, CountFloor
<1> QED
  BY <1>1, <1>2, <1>3, TypeCorrect, PTL DEF Spec

-----------------------------------------------------------------------------
(* Until the count is begun again or two updates overlap, every connection *)
(* that has taken a place took it in the object the cache still holds, and *)
(* its count covers them all; what is lost stays counted.                  *)
InEntry == \A c \in Conns : stage[c] \in {"increment", "decrement"} =>
                                /\ entry # NoUser /\ user[c] = entry
                                /\ stage[c] = "increment" => seen[c] < Limit
Covered == /\ entry = NoUser => Taken = {}
           /\ entry # NoUser => /\ Cardinality(Taken) <= count[entry]
                                /\ count[entry] <= Limit
                                /\ blur = {} => count[entry] = Cardinality(Taken)

PlacesInv == Undisturbed => InEntry /\ Covered

LEMMA TakenFinite == IsFiniteSet(Taken) /\ Cardinality(Taken) \in Nat
  BY ConnsFinite DEF Taken

LEMMA Monotone == ASSUME [Next]_vars, Undisturbed' PROVE Undisturbed /\ (blur' = {} => blur = {})
<1> SUFFICES blur \subseteq blur'
  BY DEF Undisturbed
<1>1. ASSUME NEW c \in Conns, Handle(c) PROVE blur \subseteq blur'
  BY <1>1 DEF Handle, OpenHTTP, OpenSocks, Open, AddConnection, Refuse, Increment, Reload, Connect,
      SocksFails, HTTPFails, Panic, Associate, DisAssociate, Report, ReportBlocks,
      RemoveConnection, NothingToRemove, Decrement, Close, Store, Blurs
<1>2. ASSUME NEW c \in Conns, NEW d \in Directions, CopyEnds(c, d) PROVE blur \subseteq blur'
  BY <1>2 DEF CopyEnds
<1>3. ASSUME ResetRead \/ ResetWrite \/ UNCHANGED vars \/ \E u \in Users \cup {NoUser} : Replace(u)
      PROVE  blur \subseteq blur'
  BY <1>3 DEF ResetRead, ResetWrite, Replace, vars, Blurs
<1> QED
  BY <1>1, <1>2, <1>3 DEF Next

(* A step that takes and gives back nothing, but may lose a place.         *)
LEMMA PlacesFrame ==
    ASSUME TypeOK, PlacesInv, UNCHANGED <<entry, count, user, seen>>,
           Undisturbed, blur' = {} => blur = {},
           \A c \in Conns : stage'[c] \in {"increment", "decrement"} => stage[c] = stage'[c],
           Taken' \subseteq Taken, Taken' = Taken \/ blur' # {}
    PROVE  PlacesInv'
<1>1. InEntry' 
  BY DEF PlacesInv, InEntry
<1>2. Cardinality(Taken') <= Cardinality(Taken) /\ Cardinality(Taken') \in Nat
  BY TakenFinite, FS_Subset, FS_CardinalityType
<1>3. CASE entry = NoUser
  BY <1>1, <1>3 DEF PlacesInv, Covered
<1>4. CASE entry # NoUser
  <2>1. /\ Cardinality(Taken) <= count[entry] /\ count[entry] <= Limit
        /\ blur = {} => count[entry] = Cardinality(Taken)
    BY <1>4 DEF PlacesInv, Covered
  <2>2. count[entry] \in Int /\ Cardinality(Taken) \in Nat
    BY <1>4, TakenFinite DEF TypeOK
  <2>3. Cardinality(Taken') <= count[entry] /\ (blur' = {} => count[entry] = Cardinality(Taken'))
    BY <1>2, <2>1, <2>2
  <2> QED
    BY <1>1, <1>4, <2>1, <2>3 DEF PlacesInv, Covered
<1> QED
  BY <1>3, <1>4

LEMMA PlacesStep == ASSUME TypeOK, PlacesInv, [Next]_vars PROVE PlacesInv'
<1> SUFFICES ASSUME Undisturbed' PROVE PlacesInv'
  BY DEF PlacesInv
<1>0. /\ stage \in [Conns -> Stages] /\ seen \in [Conns -> Int] /\ count \in [Users -> Int]
      /\ user \in [Conns -> Users \cup {NoUser}]
      /\ entry \in Users \cup {NoUser} /\ timer \in Users \cup {NoUser} /\ NoUser \notin Users
      /\ Limit \in Nat \ {0}
  BY ProxyAssumption DEF TypeOK
<1>01. Undisturbed /\ (blur' = {} => blur = {}) /\ InEntry /\ Covered
  BY Monotone DEF PlacesInv
<1>02. "restarted" \notin blur' /\ "race" \notin blur'
  BY DEF Undisturbed
<1>1. ASSUME NEW c \in Conns, AddConnection(c) PROVE PlacesInv'
  <2>1. /\ entry # NoUser /\ count[entry] < Limit /\ stage[c] = "add"
        /\ stage' = [stage EXCEPT ![c] = "increment"]
        /\ user' = [user EXCEPT ![c] = entry] /\ seen' = [seen EXCEPT ![c] = count[entry]]
        /\ UNCHANGED <<entry, count, blur>>
    BY <1>1 DEF AddConnection, HasPlace
  <2>2. Taken' = Taken
    BY <1>0, <2>1 DEF Taken, HoldingStages
  <2>3. InEntry'
    BY <1>0, <1>01, <2>1 DEF InEntry
  <2> QED
    BY <1>01, <2>1, <2>2, <2>3 DEF PlacesInv, Covered
<1>2. ASSUME NEW c \in Conns, RemoveConnection(c) PROVE PlacesInv'
  <2>1. /\ entry # NoUser /\ stage[c] = "remove"
        /\ stage' = [stage EXCEPT ![c] = "decrement"]
        /\ user' = [user EXCEPT ![c] = entry] /\ seen' = [seen EXCEPT ![c] = count[entry]]
        /\ UNCHANGED <<entry, count, blur>>
    BY <1>2 DEF RemoveConnection
  <2>2. Taken' = Taken
    BY <1>0, <2>1 DEF Taken, HoldingStages
  <2>3. InEntry'
    BY <1>0, <1>01, <2>1 DEF InEntry
  <2> QED
    BY <1>01, <2>1, <2>2, <2>3 DEF PlacesInv, Covered
<1>3. ASSUME NEW c \in Conns, NothingToRemove(c) PROVE PlacesInv'
  <2>1. c \in Taken /\ (entry # NoUser => ~(count[entry] >= 0))
    BY <1>3 DEF NothingToRemove, HoldsPlace, Taken, HoldingStages
  <2>2. entry # NoUser => count[entry] \in Int /\ Cardinality(Taken) <= count[entry]
    BY <1>0, <1>01 DEF Covered
  <2>3. entry # NoUser
    BY <1>01, <2>1 DEF Covered
  <2> QED
    BY <2>1, <2>2, <2>3, TakenFinite
<1>4. ASSUME NEW c \in Conns, Increment(c) PROVE PlacesInv'
  <2>1. /\ stage[c] = "increment" /\ stage' = [stage EXCEPT ![c] = "connect"]
        /\ seen[c] = count[user[c]] /\ count' = [count EXCEPT ![user[c]] = seen[c] + 1]
        /\ user' = [user EXCEPT ![c] = NoUser] /\ seen' = [seen EXCEPT ![c] = 0]
        /\ UNCHANGED <<entry, blur>>
    BY <1>4, <1>02 DEF Increment, Store, Blurs
  <2>2. entry # NoUser /\ user[c] = entry /\ count[entry] < Limit /\ count'[entry] = count[entry] + 1
    BY <1>0, <1>01, <2>1 DEF InEntry
  <2>3. Taken' = Taken \cup {c} /\ c \notin Taken
    BY <1>0, <2>1 DEF Taken, HoldingStages
  <2>4. Cardinality(Taken') = Cardinality(Taken) + 1
    BY <2>3, TakenFinite, FS_AddElement
  <2>5. InEntry'
    BY <1>0, <1>01, <2>1 DEF InEntry
  <2>6. count[entry] \in Int /\ Cardinality(Taken) \in Nat
    BY <1>0, <2>2, TakenFinite
  <2>7. Cardinality(Taken) <= count[entry] /\ (blur = {} => count[entry] = Cardinality(Taken))
    BY <1>01, <2>2 DEF Covered
  <2>8. /\ Cardinality(Taken') <= count'[entry] /\ count'[entry] <= Limit
        /\ blur = {} => count'[entry] = Cardinality(Taken')
    BY <1>0, <2>2, <2>4, <2>6, <2>7
  <2> QED
    BY <2>1, <2>2, <2>5, <2>8 DEF PlacesInv, Covered
<1>5. ASSUME NEW c \in Conns, Decrement(c) PROVE PlacesInv'
  <2>1. /\ stage[c] = "decrement" /\ stage' = [stage EXCEPT ![c] = "close"]
        /\ seen[c] = count[user[c]] /\ count' = [count EXCEPT ![user[c]] = seen[c] + -1]
        /\ user' = [user EXCEPT ![c] = NoUser] /\ seen' = [seen EXCEPT ![c] = 0]
        /\ UNCHANGED <<entry, blur>>
    BY <1>5, <1>02 DEF Decrement, Store, Blurs
  <2>2. entry # NoUser /\ user[c] = entry /\ count'[entry] = count[entry] - 1
    BY <1>0, <1>01, <2>1 DEF InEntry
  <2>3. Taken' = Taken \ {c} /\ c \in Taken
    BY <1>0, <2>1 DEF Taken, HoldingStages
  <2>4. Cardinality(Taken') = Cardinality(Taken) - 1
    BY <2>3, TakenFinite, FS_RemoveElement
  <2>5. InEntry'
    BY <1>0, <1>01, <2>1 DEF InEntry
  <2>6. count[entry] \in Int /\ Cardinality(Taken) \in Nat
    BY <1>0, <2>2, TakenFinite
  <2>7. /\ Cardinality(Taken) <= count[entry] /\ count[entry] <= Limit
        /\ blur = {} => count[entry] = Cardinality(Taken)
    BY <1>01, <2>2 DEF Covered
  <2>8. /\ Cardinality(Taken') <= count'[entry] /\ count'[entry] <= Limit
        /\ blur = {} => count'[entry] = Cardinality(Taken')
    BY <1>0, <2>2, <2>4, <2>6, <2>7
  <2> QED
    BY <2>1, <2>2, <2>5, <2>8 DEF PlacesInv, Covered
<1>6. ASSUME NEW c \in Conns, Reload(c) PROVE FALSE
  BY <1>02, <1>6 DEF Reload, Blurs
<1>7. ASSUME NEW c \in Conns, HTTPFails(c) \/ Panic(c) \/ ReportBlocks(c) PROVE PlacesInv'
  <2>1. /\ \E s \in {"close", "panicked", "stuck"} : stage' = [stage EXCEPT ![c] = s]
        /\ stage[c] \in HoldingStages /\ blur' # {} /\ UNCHANGED <<entry, count, user, seen>>
    BY <1>7 DEF HTTPFails, Panic, ReportBlocks, HoldingStages, Blurs
  <2>2. Taken' \subseteq Taken
    BY <1>0, <2>1 DEF Taken, HoldingStages
  <2>3. \A k \in Conns : stage'[k] \in {"increment", "decrement"} => stage[k] = stage'[k]
    BY <1>0, <2>1
  <2> QED
    BY <1>01, <2>1, <2>2, <2>3, PlacesFrame
<1>8. ASSUME NEW c \in Conns,
             \/ Connect(c) \/ SocksFails(c) \/ Associate(c) \/ DisAssociate(c) \/ Report(c)
             \/ \E d \in Directions : CopyEnds(c, d)
      PROVE  PlacesInv'
  <2>1. /\ stage[c] \in HoldingStages /\ UNCHANGED <<entry, count, user, seen>>
        /\ UNCHANGED stage \/ \E s \in HoldingStages : stage' = [stage EXCEPT ![c] = s]
    BY <1>8 DEF Connect, SocksFails, Associate, DisAssociate, Report, CopyEnds, HoldingStages
  <2>2. Taken' = Taken
    BY <1>0, <2>1 DEF Taken, HoldingStages
  <2>3. \A k \in Conns : stage'[k] \in {"increment", "decrement"} => stage[k] = stage'[k]
    BY <1>0, <2>1 DEF HoldingStages
  <2> QED
    BY <1>01, <2>1, <2>2, <2>3, PlacesFrame
<1>9. ASSUME NEW c \in Conns, OpenHTTP(c) \/ OpenSocks(c) \/ Refuse(c) \/ Close(c) PROVE PlacesInv'
  <2>1. /\ stage[c] \in {"closed", "add", "close"} /\ UNCHANGED <<entry, count, user, seen>>
        /\ \E s \in {"closed", "add", "close"} : stage' = [stage EXCEPT ![c] = s]
    BY <1>9 DEF OpenHTTP, OpenSocks, Open, Refuse, Close
  <2>2. Taken' = Taken
    BY <1>0, <2>1 DEF Taken, HoldingStages
  <2>3. \A k \in Conns : stage'[k] \in {"increment", "decrement"} => stage[k] = stage'[k]
    BY <1>0, <2>1
  <2> QED
    BY <1>01, <2>1, <2>2, <2>3, PlacesFrame
<1>10. ASSUME ResetRead \/ UNCHANGED vars PROVE PlacesInv'
  <2>1. UNCHANGED <<entry, count, user, seen, stage>>
    BY <1>10 DEF ResetRead, vars
  <2>2. Taken' = Taken
    BY <2>1 DEF Taken
  <2> QED
    BY <1>01, <2>1, <2>2, PlacesFrame
<1>11. ASSUME ResetWrite \/ \E u \in Users \cup {NoUser} : Replace(u) PROVE PlacesInv'
  <2>1. NoneOpen /\ UNCHANGED stage
    BY <1>02, <1>11 DEF ResetWrite, Replace, Blurs
  <2>2. Taken' = {} /\ \A c \in Conns : stage[c] \notin {"increment", "decrement"}
    BY <2>1 DEF NoneOpen, Holding, Updating, Taken, HoldingStages
  <2>3. entry' # NoUser => entry' \in Users /\ count'[entry'] = 0
    BY <1>0, <1>11 DEF ResetWrite, Replace
  <2>4. Cardinality(Taken') = 0
    BY <2>2, FS_EmptySet
  <2> QED
    BY <1>0, <2>1, <2>2, <2>3, <2>4 DEF PlacesInv, Covered, InEntry
<1> QED
  BY <1>1, <1>2, <1>3, <1>4, <1>5, <1>6, <1>7, <1>8, <1>9, <1>10, <1>11 DEF Next, Handle

LEMMA PlacesCorrect == Spec => []PlacesInv
<1>1. Init => PlacesInv
  <2> SUFFICES ASSUME Init PROVE PlacesInv
    OBVIOUS
  <2>1. Taken = {} /\ entry \in Users /\ count[entry] = 0
    BY DEF Init, Taken, HoldingStages
  <2>2. Cardinality(Taken) = 0
    BY <2>1, FS_EmptySet
  <2> QED
    BY <2>1, <2>2, ProxyAssumption DEF Init, PlacesInv, InEntry, Covered
<1>2. TypeOK /\ PlacesInv /\ [Next]_vars => PlacesInv'
  BY PlacesStep
<1> QED
  BY <1>1, <1>2, TypeCorrect, PTL DEF Spec

(* Without any of the causes the count is that of the places taken.        *)
THEOREM ExactHolds == Spec => []CountIsExact
<1>1. PlacesInv => CountIsExact
  BY DEF PlacesInv, Undisturbed, Covered, CountIsExact
<1> QED
  BY <1>1, PlacesCorrect, PTL

-----------------------------------------------------------------------------
(* The count as a semaphore.                                               *)

(* While the count is undisturbed, the mapping only looks at who has a     *)
(* place and at the count of the entry.                                    *)
LEMMA QuotaFrame ==
    ASSUME Undisturbed, Undisturbed', Taken' = Taken, UNCHANGED <<entry, count>>
    PROVE  UNCHANGED Quota!quotaVars
  BY DEF PlacesTaken, PlacesFree, Quota!quotaVars

(* A connection that has a place has it in an object the cache holds.      *)
LEMMA TakenInEntry ==
    ASSUME TypeOK, PlacesInv, Undisturbed, NEW c \in Taken
    PROVE  entry # NoUser /\ count[entry] \in Int
  BY DEF TypeOK, PlacesInv, Covered

LEMMA TakeStep ==
    ASSUME TypeOK, PlacesInv, Undisturbed, Undisturbed', NEW c \in Conns, Increment(c)
    PROVE  Quota!Take(c)
<1>0. /\ stage \in [Conns -> Stages] /\ count \in [Users -> Int]
      /\ entry \in Users \cup {NoUser} /\ NoUser \notin Users
  BY ProxyAssumption DEF TypeOK
<1>1. /\ stage[c] = "increment" /\ stage' = [stage EXCEPT ![c] = "connect"]
      /\ seen[c] = count[user[c]] /\ count' = [count EXCEPT ![user[c]] = seen[c] + 1]
      /\ UNCHANGED entry
  BY DEF Increment, Store, Blurs, Undisturbed
<1>2. entry # NoUser /\ user[c] = entry /\ seen[c] < Limit
  BY <1>1 DEF PlacesInv, InEntry
<1>3. count[entry] < Limit /\ count'[entry] = count[entry] + 1 /\ count[entry] \in Int
  BY <1>0, <1>1, <1>2
<1>4. Taken' = Taken \cup {c} /\ c \notin Taken
  BY <1>0, <1>1 DEF Taken, HoldingStages
<1>5. PlacesTaken = Taken /\ PlacesTaken' = Taken'
  BY DEF PlacesTaken
<1>6. PlacesFree = Limit - count[entry] /\ PlacesFree' = Limit - count'[entry]
  BY <1>1, <1>2 DEF PlacesFree
<1>7. PlacesFree > 0 /\ PlacesFree' = PlacesFree - 1
  BY <1>3, <1>6, ProxyAssumption
<1> QED
  BY <1>4, <1>5, <1>7 DEF Quota!Take

LEMMA GiveBackStep ==
    ASSUME TypeOK, PlacesInv, Undisturbed, Undisturbed', NEW c \in Conns, Decrement(c)
    PROVE  Quota!GiveBack(c)
<1>0. /\ stage \in [Conns -> Stages] /\ count \in [Users -> Int]
      /\ entry \in Users \cup {NoUser} /\ NoUser \notin Users
  BY ProxyAssumption DEF TypeOK
<1>1. /\ stage[c] = "decrement" /\ stage' = [stage EXCEPT ![c] = "close"]
      /\ seen[c] = count[user[c]] /\ count' = [count EXCEPT ![user[c]] = seen[c] + -1]
      /\ UNCHANGED entry
  BY DEF Decrement, Store, Blurs, Undisturbed
<1>2. entry # NoUser /\ user[c] = entry
  BY <1>1 DEF PlacesInv, InEntry
<1>3. count'[entry] = count[entry] - 1 /\ count[entry] \in Int
  BY <1>0, <1>1, <1>2
<1>4. Taken' = Taken \ {c} /\ c \in Taken
  BY <1>0, <1>1 DEF Taken, HoldingStages
<1>5. PlacesTaken = Taken /\ PlacesTaken' = Taken'
  BY DEF PlacesTaken
<1>6. PlacesFree = Limit - count[entry] /\ PlacesFree' = Limit - count'[entry]
  BY <1>1, <1>2 DEF PlacesFree
<1>7. PlacesFree' = PlacesFree + 1
  BY <1>3, <1>6, ProxyAssumption
<1> QED
  BY <1>4, <1>5, <1>7 DEF Quota!GiveBack

(* The connections that leave without giving back what they took.          *)
LEMMA LoseStep ==
    ASSUME TypeOK, PlacesInv, Undisturbed, Undisturbed', NEW c \in Conns, HTTPFails(c) \/ Panic(c)
    PROVE  Quota!Lose(c)
<1>0. stage \in [Conns -> Stages]
  BY DEF TypeOK
<1>1. /\ stage[c] \in HoldingStages
      /\ \E s \in {"close", "panicked"} : stage' = [stage EXCEPT ![c] = s]
      /\ UNCHANGED <<entry, count>>
  BY DEF HTTPFails, Panic, HoldingStages
<1>2. Taken' = Taken \ {c} /\ c \in Taken
  BY <1>0, <1>1 DEF Taken, HoldingStages
<1>3. PlacesTaken = Taken /\ PlacesTaken' = Taken'
  BY DEF PlacesTaken
<1>4. PlacesFree' = PlacesFree
  BY <1>1 DEF PlacesFree
<1> QED
  BY <1>2, <1>3, <1>4 DEF Quota!Lose

(* A new or zeroed object, with nobody there to notice.                    *)
LEMMA BeginAgainStep ==
    ASSUME TypeOK, Undisturbed, Undisturbed', ResetWrite \/ \E u \in Users \cup {NoUser} : Replace(u)
    PROVE  Quota!BeginAgain
<1>1. NoneOpen /\ UNCHANGED stage
  BY DEF ResetWrite, Replace, Blurs, Undisturbed
<1>2. Taken = {} /\ Taken' = {}
  BY <1>1 DEF NoneOpen, Holding, Updating, Taken
<1>3. entry' # NoUser => entry' \in Users /\ count'[entry'] = 0
  BY ProxyAssumption DEF TypeOK, ResetWrite, Replace
<1>4. PlacesTaken = {} /\ PlacesTaken' = {} /\ PlacesFree' = Limit
  BY <1>2, <1>3, ProxyAssumption DEF PlacesTaken, PlacesFree
<1> QED
  BY <1>4 DEF Quota!BeginAgain

(* Every other step of a connection leaves the places as they are.         *)
LEMMA SamePlacesStep ==
    ASSUME TypeOK, NEW c \in Conns,
           \/ OpenHTTP(c) \/ OpenSocks(c) \/ AddConnection(c) \/ Refuse(c) \/ Connect(c)
           \/ SocksFails(c) \/ Associate(c) \/ DisAssociate(c) \/ Report(c) \/ ReportBlocks(c)
           \/ RemoveConnection(c) \/ Close(c) \/ \E d \in Directions : CopyEnds(c, d)
    PROVE  Taken' = Taken /\ UNCHANGED <<entry, count>>
<1>0. stage \in [Conns -> Stages]
  BY DEF TypeOK
<1>1. CASE OpenHTTP(c) \/ OpenSocks(c) \/ AddConnection(c) \/ Refuse(c) \/ Close(c)
  <2>1. /\ stage[c] \in {"closed", "add", "close"} /\ UNCHANGED <<entry, count>>
        /\ \E s \in {"closed", "add", "increment", "close"} : stage' = [stage EXCEPT ![c] = s]
    BY <1>1 DEF OpenHTTP, OpenSocks, Open, AddConnection, Refuse, Close
  <2> QED
    BY <1>0, <2>1 DEF Taken, HoldingStages
<1>2. CASE \/ Connect(c) \/ SocksFails(c) \/ Associate(c) \/ DisAssociate(c) \/ Report(c) \/ ReportBlocks(c)
           \/ RemoveConnection(c) \/ \E d \in Directions : CopyEnds(c, d)
  <2>1. /\ stage[c] \in HoldingStages /\ UNCHANGED <<entry, count>>
        /\ \/ UNCHANGED stage
           \/ \E s \in HoldingStages \cup {"decrement"} : stage' = [stage EXCEPT ![c] = s]
    BY <1>2 DEF Connect, SocksFails, Associate, DisAssociate, Report, ReportBlocks, RemoveConnection,
                CopyEnds, HoldingStages
  <2> QED
    BY <1>0, <2>1 DEF Taken, HoldingStages
<1> QED
  BY <1>1, <1>2

LEMMA QuotaStep ==
    ASSUME TypeOK, PlacesInv, [Next]_vars
    PROVE  [Quota!QuotaNext]_(Quota!quotaVars)
<1>1. ASSUME ~Undisturbed, ~Undisturbed' PROVE UNCHANGED Quota!quotaVars
  BY <1>1 DEF PlacesTaken, PlacesFree, Quota!quotaVars
<1>2. ASSUME Undisturbed, ~Undisturbed' PROVE Quota!QuotaNext
  BY <1>2 DEF PlacesTaken, PlacesFree, Quota!QuotaNext, Quota!Disturb
<1>3. ASSUME Undisturbed' PROVE [Quota!QuotaNext]_(Quota!quotaVars)
  <2>1. Undisturbed
    BY <1>3, Monotone
  <2>2. ASSUME NEW c \in Conns, Increment(c) PROVE Quota!QuotaNext
    BY <1>3, <2>1, <2>2, TakeStep DEF Quota!QuotaNext
  <2>3. ASSUME NEW c \in Conns, Decrement(c) PROVE Quota!QuotaNext
    BY <1>3, <2>1, <2>3, GiveBackStep DEF Quota!QuotaNext
  <2>4. ASSUME NEW c \in Conns, HTTPFails(c) \/ Panic(c) PROVE Quota!QuotaNext
    BY <1>3, <2>1, <2>4, LoseStep DEF Quota!QuotaNext
  <2>5. ASSUME ResetWrite \/ \E u \in Users \cup {NoUser} : Replace(u) PROVE Quota!QuotaNext
    BY <1>3, <2>1, <2>5, BeginAgainStep DEF Quota!QuotaNext
  <2>6. ASSUME NEW c \in Conns,
               \/ OpenHTTP(c) \/ OpenSocks(c) \/ AddConnection(c) \/ Refuse(c) \/ Connect(c)
               \/ SocksFails(c) \/ Associate(c) \/ DisAssociate(c) \/ Report(c) \/ ReportBlocks(c)
               \/ RemoveConnection(c) \/ Close(c) \/ \E d \in Directions : CopyEnds(c, d)
        PROVE  UNCHANGED Quota!quotaVars
    BY <1>3, <2>1, <2>6, SamePlacesStep, QuotaFrame
  <2>7. ASSUME NEW c \in Conns, NothingToRemove(c) PROVE FALSE
    <3>1. c \in Taken /\ (entry # NoUser => ~(count[entry] >= 0))
      BY <2>7 DEF NothingToRemove, HoldsPlace, Taken, HoldingStages
    <3>2. entry # NoUser /\ count[entry] \in Int
      BY <2>1, <3>1, TakenInEntry
    <3>3. Cardinality(Taken) <= count[entry]
      BY <2>1, <3>2 DEF PlacesInv, Covered
    <3> QED
      BY <3>1, <3>2, <3>3, TakenFinite
  <2>8. ASSUME NEW c \in Conns, Reload(c) PROVE FALSE
    BY <1>3, <2>8 DEF Reload, Blurs, Undisturbed
  <2>9. ASSUME ResetRead \/ UNCHANGED vars PROVE UNCHANGED Quota!quotaVars
    <3>1. Taken' = Taken /\ UNCHANGED <<entry, count>>
      BY <2>9 DEF ResetRead, vars, Taken
    <3> QED
      BY <1>3, <2>1, <3>1, QuotaFrame
  <2> QED
    BY <2>2, <2>3, <2>4, <2>5, <2>6, <2>7, <2>8, <2>9 DEF Next, Handle
<1> QED
  BY <1>1, <1>2, <1>3

(* The count of a user's places is a semaphore until it is disturbed: each *)
(* step of the connections, the timer and the cache takes, gives back or   *)
(* loses one place, begins again with all of them, or leaves them alone.   *)
THEOREM ProxyKeepsQuota == Spec => KeepsQuota
<1>1. Init => Quota!QuotaInit
  <2> SUFFICES ASSUME Init PROVE Quota!QuotaInit
    OBVIOUS
  <2>1. Taken = {} /\ Undisturbed /\ entry \in Users /\ count[entry] = 0
    BY DEF Init, Taken, HoldingStages, Undisturbed
  <2>2. PlacesTaken = {} /\ PlacesFree = Limit
    BY <2>1, ProxyAssumption DEF PlacesTaken, PlacesFree
  <2> QED
    BY <2>1, <2>2 DEF Quota!QuotaInit
<1>2. TypeOK /\ PlacesInv /\ [Next]_vars => [Quota!QuotaNext]_(Quota!quotaVars)
  BY QuotaStep
<1> QED
  BY <1>1, <1>2, TypeCorrect, PlacesCorrect, PTL DEF Spec, KeepsQuota, Quota!QuotaSpec

-----------------------------------------------------------------------------
(* What the semaphore promises, whoever implements it.                     *)
WithinQuota ==
    /\ PlacesFree \in Nat
    /\ Cardinality(PlacesTaken) + PlacesFree <= Limit

LEMMA PlacesFinite ==
    /\ PlacesTaken \subseteq Conns /\ IsFiniteSet(PlacesTaken) /\ Cardinality(PlacesTaken) \in Nat
  BY ConnsFinite DEF PlacesTaken, Taken

LEMMA QuotaStaysWithin ==
    ASSUME WithinQuota, [Quota!QuotaNext]_(Quota!quotaVars)
    PROVE  WithinQuota'
<1>0. /\ Limit \in Nat /\ PlacesFree \in Nat /\ Cardinality(PlacesTaken) \in Nat
      /\ Cardinality(PlacesTaken) + PlacesFree <= Limit
  BY ProxyAssumption, PlacesFinite DEF WithinQuota
<1>1. ASSUME NEW c \in Conns, Quota!Take(c) PROVE WithinQuota'
  <2>1. /\ c \notin PlacesTaken /\ PlacesTaken' = PlacesTaken \cup {c}
        /\ PlacesFree > 0 /\ PlacesFree' = PlacesFree - 1
    BY <1>1 DEF Quota!Take
  <2>2. Cardinality(PlacesTaken') = Cardinality(PlacesTaken) + 1
    BY <2>1, PlacesFinite, FS_AddElement
  <2> QED
    BY <1>0, <2>1, <2>2 DEF WithinQuota
<1>2. ASSUME NEW c \in Conns, Quota!GiveBack(c) \/ Quota!Lose(c) PROVE WithinQuota'
  <2>1. /\ c \in PlacesTaken /\ PlacesTaken' = PlacesTaken \ {c}
        /\ PlacesFree' \in {PlacesFree, PlacesFree + 1}
    BY <1>2 DEF Quota!GiveBack, Quota!Lose
  <2>2. Cardinality(PlacesTaken') = Cardinality(PlacesTaken) - 1
    BY <2>1, PlacesFinite, FS_RemoveElement
  <2> QED
    BY <1>0, <2>1, <2>2 DEF WithinQuota
<1>3. CASE Quota!BeginAgain \/ Quota!Disturb
  <2>1. PlacesTaken' = {} /\ PlacesFree' = Limit
    BY <1>3 DEF Quota!BeginAgain, Quota!Disturb
  <2>2. Cardinality(PlacesTaken') = 0
    BY <2>1, FS_EmptySet
  <2> QED
    BY <1>0, <2>1, <2>2 DEF WithinQuota
<1>4. CASE UNCHANGED Quota!quotaVars
  BY <1>4 DEF Quota!quotaVars, WithinQuota
<1> QED
  BY <1>1, <1>2, <1>3, <1>4 DEF Quota!QuotaNext

(* A semaphore never has more places taken and free together than it was   *)
(* made with.                                                              *)
THEOREM QuotaIsKept == KeepsQuota => []WithinQuota
<1>1. Quota!QuotaInit => WithinQuota
  <2> SUFFICES ASSUME Quota!QuotaInit PROVE WithinQuota
    OBVIOUS
  <2>1. PlacesTaken = {} /\ PlacesFree = Limit
    BY DEF Quota!QuotaInit
  <2>2. Cardinality(PlacesTaken) = 0
    BY <2>1, FS_EmptySet
  <2> QED
    BY <2>1, <2>2, ProxyAssumption DEF WithinQuota
<1> QED
  BY <1>1, QuotaStaysWithin, PTL DEF KeepsQuota, Quota!QuotaSpec

(* The limit on a user's connections holds until the count is begun again  *)
(* under open connections or two updates overlap, because the count is a   *)
(* semaphore till then.                                                    *)
THEOREM LimitHolds == Spec => []OverLimitOnlyByCause
<1>1. WithinQuota => OverLimitOnlyByCause
  <2> SUFFICES ASSUME WithinQuota, Undisturbed PROVE ~(Cardinality(Relaying) > Limit)
    BY DEF OverLimitOnlyByCause
  <2>1. Relaying \subseteq PlacesTaken /\ Cardinality(Relaying) \in Nat
    BY ConnsFinite DEF Relaying, PlacesTaken, Taken, HoldingStages
  <2>2. Cardinality(Relaying) <= Cardinality(PlacesTaken)
    BY <2>1, PlacesFinite, FS_Subset
  <2> QED
    BY <2>1, <2>2, PlacesFinite, ProxyAssumption DEF WithinQuota
<1> QED
  BY <1>1, ProxyKeepsQuota, QuotaIsKept, PTL
=============================================================================

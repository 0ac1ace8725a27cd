------------------------- MODULE UserManager_proofs -------------------------
(* Safety of the login protocol for every number of callers, users and     *)
(* account changes and every channel capacity.                             *)
EXTENDS UserManager, TLAPS, SequenceTheorems

(* The channels stay well formed when they are left alone, sent to or read. *)
LEMMA ChannelsFrame == ASSUME ChannelsOK, UNCHANGED <<outbox, inbox>> PROVE ChannelsOK'
  BY DEF ChannelsOK

LEMMA QueueGrows ==
    ASSUME NEW T, NEW q \in Seq(T), NEW e \in T, Len(q) < ChanCap
    PROVE  Append(q, e) \in Seq(T) /\ Len(Append(q, e)) <= ChanCap
<1>1. Append(q, e) \in Seq(T) /\ Len(Append(q, e)) = Len(q) + 1
  BY AppendProperties
<1>2. Len(q) \in Nat
  BY LenProperties
<1> QED BY <1>1, <1>2, UserManagerAssumption

LEMMA QueueShrinks ==
    ASSUME NEW T, NEW q \in Seq(T), q # << >>, Len(q) <= ChanCap
    PROVE  /\ Head(q) \in T
           /\ Tail(q) \in Seq(T)
           /\ Len(Tail(q)) <= ChanCap
<1>1. Head(q) \in T /\ Tail(q) \in Seq(T) /\ Len(Tail(q)) = Len(q) - 1
  BY HeadTailProperties
<1>2. Len(q) \in Nat
  BY LenProperties
<1> QED BY <1>1, <1>2, UserManagerAssumption

LEMMA QueueLosesFront ==
    ASSUME NEW T, NEW q \in Seq(T), NEW k \in 1..(Len(q) + 1)
    PROVE  /\ SubSeq(q, k, Len(q)) \in Seq(T)
           /\ Len(SubSeq(q, k, Len(q))) <= Len(q)
           /\ \A i \in 1..Len(SubSeq(q, k, Len(q))) :
                 \E j \in 1..Len(q) : SubSeq(q, k, Len(q))[i] = q[j]
<1>1. Len(q) \in Nat
  BY LenProperties
<1>2. k \in Int /\ Len(q) \in Int /\ \A i \in k..Len(q) : q[i] \in T
  BY <1>1
<1>3. /\ SubSeq(q, k, Len(q)) \in Seq(T)
      /\ Len(SubSeq(q, k, Len(q))) = IF k <= Len(q) THEN Len(q) - k + 1 ELSE 0
      /\ \A i \in 1..(Len(q) - k + 1) : SubSeq(q, k, Len(q))[i] = q[k + i - 1]
  BY <1>2, SubSeqProperties
<1>4. Len(SubSeq(q, k, Len(q))) = Len(q) - k + 1
  BY <1>1, <1>3
<1>5. \A i \in 1..(Len(q) - k + 1) : k + i - 1 \in 1..Len(q)
  BY <1>1
<1> QED BY <1>1, <1>3, <1>4, <1>5

LEMMA FaultTyped == ASSUME TypeOK, Fault PROVE faults' \in 0..MaxFaults
  BY UserManagerAssumption DEF TypeOK, Fault

(* No step of any goroutine leaves the types.                              *)
LEMMA TypeStep == ASSUME TypeOK, [Next]_vars PROVE TypeOK'
<1>0. ChannelsOK
  BY DEF TypeOK
<1>1. ASSUME NEW c \in Callers, Lookup(c) PROVE TypeOK'
  <2>1. ChannelsOK'
    BY <1>0, <1>1, ChannelsFrame DEF Lookup
  <2> QED BY <1>1, <2>1 DEF Lookup, TypeOK, Stages, captainVars, sessionVars
<1>2. ASSUME NEW c \in Callers, Evict(c) PROVE TypeOK'
  <2>1. ChannelsOK'
    BY <1>0, <1>2, ChannelsFrame DEF Evict
  <2> QED BY <1>2, <2>1 DEF Evict, TypeOK, Stages, captainVars, sessionVars
<1>3. ASSUME NEW c \in Callers, Register(c) PROVE TypeOK'
  <2>1. ChannelsOK'
    BY <1>0, <1>3, ChannelsFrame DEF Register
  <2> QED BY <1>3, <2>1 DEF Register, TypeOK, Stages, captainVars, sessionVars
<1>4. ASSUME NEW c \in Callers, Post(c) PROVE TypeOK'
  <2>1. cred[c] \in Requests
    BY <1>4 DEF Post, TypeOK
  <2>2. ChannelsOK'
    BY <1>0, <1>4, <2>1, QueueGrows DEF Post, HasRoom, ChannelsOK
  <2>3. proven' \subseteq Users
    BY <1>4, <2>1 DEF Post, Requests, TypeOK
  <2> QED BY <1>4, <2>2, <2>3 DEF Post, TypeOK, Stages, captainVars, sessionVars
<1>5. ASSUME NEW c \in Callers, Timeout(c) \/ Strand(c) PROVE TypeOK'
  <2>1. ChannelsOK'
    BY <1>0, <1>5, ChannelsFrame DEF Timeout, Strand
  <2> QED BY <1>5, <2>1 DEF Timeout, Strand, TypeOK, Stages, captainVars, sessionVars
<1>6. ASSUME NEW c \in Callers, Deliver(c) PROVE TypeOK'
  <2>1. ChannelsOK'
    BY <1>0, <1>6, ChannelsFrame DEF Deliver
  <2> QED BY <1>6, <2>1 DEF Deliver, TypeOK, Stages, captainVars, sessionVars
<1>7. ASSUME NEW c \in Callers, Return(c) PROVE TypeOK'
  <2>1. ChannelsOK'
    BY <1>0, <1>7, ChannelsFrame DEF Return
  <2>2. reader' \in {Idle} \cup [at : {"cache", "send"}, to : Callers \cup {Gone},
                                 user : Users, rec : Served]
    BY <1>7, UserManagerAssumption DEF Return, TypeOK, Idle
  <2> QED BY <1>7, <2>1, <2>2 DEF Return, Forget, TypeOK, Stages, captainVars, sessionVars
<1>8. CASE ReadChange
  <2>1. Head(inbox) \in Logins \cup Changes /\ ChannelsOK'
    BY <1>0, <1>8, QueueShrinks DEF ReadChange, ChannelsOK
  <2> QED BY <1>8, <2>1 DEF ReadChange, TypeOK, Logins, Changes, captainVars, sessionVars
<1>9. CASE ReadLogin
  <2>1. Head(inbox) \in Logins \cup Changes /\ ChannelsOK'
    BY <1>0, <1>9, QueueShrinks DEF ReadLogin, ChannelsOK
  <2>2. Head(inbox) \in Logins
    BY <1>9, <2>1 DEF ReadLogin, Changes
  <2> QED BY <1>9, <2>1, <2>2 DEF ReadLogin, TypeOK, Logins, captainVars, sessionVars
<1>10. CASE SetUser
  <2>1. ChannelsOK'
    BY <1>0, <1>10, ChannelsFrame DEF SetUser
  <2> QED BY <1>10, <2>1 DEF SetUser, TypeOK, Idle, captainVars, sessionVars
<1>11. ASSUME NEW u \in Users, Expire(u) \/ ResetRead(u) \/ ResetWrite(u) PROVE TypeOK'
  <2>1. ChannelsOK'
    BY <1>0, <1>11, ChannelsFrame DEF Expire, ResetRead, ResetWrite
  <2> QED BY <1>11, <2>1 DEF Expire, ResetRead, ResetWrite, TypeOK, captainVars, sessionVars
<1>12. ASSUME NEW u \in Users, ChangeAccount(u) PROVE TypeOK'
  <2>1. ChannelsOK'
    BY <1>0, <1>12, ChannelsFrame DEF ChangeAccount
  <2>2. unsent' \in [Users -> 0..MaxChanges]
    BY <1>12, UserManagerAssumption DEF ChangeAccount, TypeOK
  <2> QED BY <1>12, <2>1, <2>2 DEF ChangeAccount, TypeOK, sessionVars
<1>13. ASSUME NEW u \in Users, NotifyUserChange(u) PROVE TypeOK'
  <2>1. unsent' \in [Users -> 0..MaxChanges]
    BY <1>13, UserManagerAssumption DEF NotifyUserChange, TypeOK
  <2>2. CASE conn = "registered"
    <3>1. Change(u) \in Logins \cup Changes
      BY DEF Change, Changes
    <3>2. ChannelsOK'
      BY <1>0, <1>13, <2>2, <3>1, QueueGrows DEF NotifyUserChange, ChannelsOK
    <3> QED BY <1>13, <2>1, <2>2, <3>2 DEF NotifyUserChange, TypeOK
  <2>3. CASE conn # "registered"
    <3>1. ChannelsOK'
      BY <1>0, <1>13, <2>3, ChannelsFrame DEF NotifyUserChange
    <3> QED BY <1>13, <2>1, <2>3, <3>1 DEF NotifyUserChange, TypeOK
  <2> QED BY <2>2, <2>3
<1>14. CASE CaptainReads
  <2>1. Head(outbox) \in Requests /\ ChannelsOK'
    BY <1>0, <1>14, QueueShrinks DEF CaptainReads, ChannelsOK
  <2>2. lookup' \in {None} \cup Logins
    BY <1>14, <2>1 DEF CaptainReads, Grants, Login, Logins, Requests
  <2> QED BY <1>14, <2>1, <2>2 DEF CaptainReads, TypeOK, sessionVars
<1>15. CASE CaptainReplies
  <2>1. lookup \in Logins \cup Changes
    BY <1>15 DEF CaptainReplies, TypeOK
  <2>2. ChannelsOK'
    BY <1>0, <1>15, <2>1, QueueGrows DEF CaptainReplies, ChannelsOK
  <2> QED BY <1>15, <2>2 DEF CaptainReplies, TypeOK, sessionVars
<1>16. ASSUME NEW u \in Users, NotifyNobody(u) PROVE TypeOK'
  <2>1. ChannelsOK'
    BY <1>0, <1>16, ChannelsFrame DEF NotifyNobody
  <2>2. unsent' \in [Users -> 0..MaxChanges]
    BY <1>16, UserManagerAssumption DEF NotifyNobody, TypeOK
  <2>3. faults' \in 0..MaxFaults
    BY <1>16, FaultTyped DEF NotifyNobody
  <2> QED BY <1>16, <2>1, <2>2, <2>3 DEF NotifyNobody, TypeOK
<1>17. CASE LinkLost
  <2>1. ChannelsOK'
    <3>1. PICK k \in 1..(Len(outbox) + 1) : outbox' = SubSeq(outbox, k, Len(outbox))
      BY <1>17 DEF LinkLost
    <3>2. outbox \in Seq(Requests) /\ Len(outbox) <= ChanCap /\ inbox' = inbox
      BY <1>0, <1>17 DEF LinkLost, ChannelsOK
    <3>3. outbox' \in Seq(Requests) /\ Len(outbox') <= Len(outbox)
      BY <3>1, <3>2, QueueLosesFront
    <3>4. Len(outbox) \in Nat /\ Len(outbox') \in Nat
      BY <3>2, <3>3, LenProperties
    <3>5. Len(outbox') <= ChanCap
      BY <3>2, <3>3, <3>4, UserManagerAssumption
    <3> QED BY <1>0, <3>2, <3>3, <3>5 DEF ChannelsOK
  <2>2. faults' \in 0..MaxFaults
    BY <1>17, FaultTyped DEF LinkLost
  <2> QED BY <1>17, <2>1, <2>2 DEF LinkLost, TypeOK
<1>18. CASE ReaderEnds \/ Reconnect
  <2>1. ChannelsOK'
    <3>1. \A T : << >> \in Seq(T) /\ Len(<< >>) <= ChanCap
      BY UserManagerAssumption
    <3>2. CASE ReaderEnds
      BY <1>0, <3>1, <3>2 DEF ReaderEnds, ChannelsOK
    <3>3. CASE Reconnect
      BY <1>0, <3>1, <3>3 DEF Reconnect, ChannelsOK
    <3> QED BY <1>18, <3>2, <3>3
  <2> QED BY <1>18, <2>1 DEF ReaderEnds, Reconnect, Live, TypeOK
<1>19. CASE FormerRemoves
  <2>1. ChannelsOK'
    BY <1>0, <1>19, ChannelsFrame DEF FormerRemoves
  <2>2. faults' \in 0..MaxFaults
    BY <1>19, FaultTyped DEF FormerRemoves
  <2> QED BY <1>19, <2>1, <2>2 DEF FormerRemoves, Live, TypeOK
<1>20. CASE UNCHANGED vars
  <2>1. ChannelsOK'
    BY <1>0, <1>20, ChannelsFrame DEF vars
  <2> QED BY <1>20, <2>1 DEF vars, sessionVars, TypeOK
<1> QED
  BY <1>1, <1>2, <1>3, <1>4, <1>5, <1>6, <1>7, <1>8, <1>9, <1>10, <1>11,
     <1>12, <1>13, <1>14, <1>15, <1>16, <1>17, <1>18, <1>19, <1>20
  DEF Next, Caller, Session

LEMMA InitTyped == Init => TypeOK
<1> SUFFICES ASSUME Init PROVE TypeOK
  OBVIOUS
<1>1. ChannelsOK
  BY UserManagerAssumption DEF Init, ChannelsOK
<1> QED BY <1>1, UserManagerAssumption DEF Init, TypeOK, Served, Stages, Idle, Live

(* Every reachable state is well typed: in particular neither channel ever *)
(* holds more events than its capacity.                                    *)
THEOREM TypeCorrect == Spec => []TypeOK
<1>1. Init => TypeOK
  BY InitTyped
<1>2. TypeOK /\ [Next]_vars => TypeOK'
  BY TypeStep
<1> QED
  BY <1>1, <1>2, PTL DEF Spec

-----------------------------------------------------------------------------
(* The strengthening: whatever names a user on its way to the cache or to  *)
(* a caller, from the request in the channel to the read pump's send,      *)
(* names one whose password has been presented, and the pump answers a     *)
(* caller only about the user that caller asked for.                       *)
AsksForProven(q) == \A i \in 1..Len(q) : q[i].right => q[i].user \in proven

AnswersForProven(q) ==
    \A i \in 1..Len(q) : q[i].type = "login_success" => q[i].user \in proven

ReaderAnswersItsUser ==
    reader.at # "idle" =>
        /\ reader.user \in proven
        /\ reader.to \in Callers =>
              pc[reader.to] \in Verifying /\ cred[reader.to].user = reader.user

CachedAreProven ==
    \A u \in Users : cache[u] # None \/ snap[u] # None => u \in proven

ProofsOnTheWay ==
    /\ AsksForProven(outbox)
    /\ lookup # None => lookup.user \in proven
    /\ AnswersForProven(inbox)

LoginInv ==
    /\ TypeOK
    /\ PendingOnlyWhileVerifying
    /\ OnlyProvenUsersEnter
    /\ ReaderAnswersItsUser
    /\ CachedAreProven
    /\ ProofsOnTheWay

(* What a queue holds after a send or a receive.                           *)
LEMMA GrownElements ==
    ASSUME NEW T, NEW q \in Seq(T), NEW e \in T
    PROVE  \A i \in 1..Len(Append(q, e)) :
              Append(q, e)[i] = e \/ (i \in 1..Len(q) /\ Append(q, e)[i] = q[i])
<1>1. Len(Append(q, e)) = Len(q) + 1 /\ Len(q) \in Nat
  BY AppendProperties, LenProperties
<1>2. /\ \A i \in 1..Len(q) : Append(q, e)[i] = q[i]
      /\ Append(q, e)[Len(q) + 1] = e
  BY AppendProperties
<1>3. \A i \in 1..(Len(q) + 1) : i \in 1..Len(q) \/ i = Len(q) + 1
  BY <1>1
<1> QED BY <1>1, <1>2, <1>3

LEMMA ShrunkElements ==
    ASSUME NEW T, NEW q \in Seq(T), q # << >>
    PROVE  /\ 1 \in 1..Len(q) /\ Head(q) = q[1]
           /\ \A i \in 1..Len(Tail(q)) : i + 1 \in 1..Len(q) /\ Tail(q)[i] = q[i + 1]
<1>1. /\ Head(q) = q[1]
      /\ Len(Tail(q)) = Len(q) - 1
      /\ \A i \in 1..Len(Tail(q)) : Tail(q)[i] = q[i + 1]
  BY HeadTailProperties
<1>2. Len(q) \in Nat /\ Len(q) # 0
  BY LenProperties, EmptySeq
<1> QED BY <1>1, <1>2

(* The pending map and the verdicts, which only the callers disturb.       *)
LEMMA CallerStep ==
    ASSUME LoginInv, NEW c \in Callers, Caller(c)
    PROVE  PendingOnlyWhileVerifying' /\ OnlyProvenUsersEnter' /\ ReaderAnswersItsUser'
<1> USE DEF LoginInv
<1>0. /\ pc \in [Callers -> Stages]
      /\ cred \in [Callers -> Requests \cup {None}]
      /\ pending \in [Users -> Callers \cup {None}]
      /\ pc[c] \in {"idle", "rejected"} \/ cred[c] \in Requests
      /\ None \notin Callers /\ Gone \notin Callers
  BY UserManagerAssumption DEF TypeOK
<1>1. CASE Lookup(c)
  <2>1. PICK r \in Requests :
          /\ cred' = [cred EXCEPT ![c] = r]
          /\ pc' = [pc EXCEPT ![c] =
                      CASE cache[r.user] = None -> "register"
                        [] cache[r.user] = "active" /\ r.right -> "accepted"
                        [] OTHER -> "evict"]
    BY <1>1 DEF Lookup
  <2>2. /\ pc[c] \notin Verifying
        /\ pc'[c] \in {"register", "accepted", "evict"}
        /\ pc'[c] = "accepted" => cache[r.user] = "active"
    BY <1>0, <1>1, <2>1 DEF Lookup, Returned, Verifying
  <2>3. r.user \in Users /\ (cache[r.user] = "active" => r.user \in proven)
    BY UserManagerAssumption DEF Requests, CachedAreProven
  <2> QED
    BY <1>0, <1>1, <2>1, <2>2, <2>3
    DEF Lookup, PendingOnlyWhileVerifying, OnlyProvenUsersEnter, ReaderAnswersItsUser, Verifying
<1>2. CASE Evict(c)
  BY <1>0, <1>2 DEF Evict, PendingOnlyWhileVerifying, OnlyProvenUsersEnter,
                    ReaderAnswersItsUser, Verifying
<1>3. CASE Register(c)
  BY <1>0, <1>3 DEF Register, PendingOnlyWhileVerifying, OnlyProvenUsersEnter,
                    ReaderAnswersItsUser, Verifying
<1>4. CASE Post(c)
  BY <1>0, <1>4 DEF Post, PendingOnlyWhileVerifying, OnlyProvenUsersEnter,
                    ReaderAnswersItsUser, Verifying
<1>5. CASE Timeout(c) \/ Strand(c)
  BY <1>0, <1>5 DEF Timeout, Strand, PendingOnlyWhileVerifying, OnlyProvenUsersEnter,
                    ReaderAnswersItsUser, Verifying
<1>6. CASE Deliver(c)
  <2>1. cred[c].user \in proven
    BY <1>0, <1>6 DEF Deliver, ReaderAnswersItsUser
  <2> QED
    BY <1>0, <1>6, <2>1 DEF Deliver, PendingOnlyWhileVerifying, OnlyProvenUsersEnter,
                            ReaderAnswersItsUser, Verifying, Idle
<1>7. CASE Return(c)
  <2>1. PendingOnlyWhileVerifying'
    BY <1>0, <1>7 DEF Return, Forget, PendingOnlyWhileVerifying, Verifying, Requests
  <2>2. OnlyProvenUsersEnter'
    BY <1>0, <1>7 DEF Return, OnlyProvenUsersEnter
  <2>3. ReaderAnswersItsUser'
    <3>1. CASE reader.to = c
      <4>1. reader.at # "idle"
        BY <1>0, <3>1 DEF TypeOK, Idle
      <4>2. reader' = [reader EXCEPT !.to = Gone] /\ proven' = proven
        BY <1>7, <3>1 DEF Return
      <4>3. reader'.to = Gone /\ reader'.user = reader.user
        BY <4>1, <4>2 DEF TypeOK, Idle
      <4> QED BY <1>0, <4>1, <4>2, <4>3 DEF ReaderAnswersItsUser
    <3>2. CASE reader.to # c
      BY <1>0, <1>7, <3>2 DEF Return, ReaderAnswersItsUser
    <3> QED BY <3>1, <3>2
  <2> QED BY <2>1, <2>2, <2>3
<1> QED
  BY <1>1, <1>2, <1>3, <1>4, <1>5, <1>6, <1>7 DEF Caller

(* A caller disturbs the cache only to evict, and the queues only to ask.  *)
LEMMA CallerLeavesProofs ==
    ASSUME LoginInv, NEW c \in Callers, Caller(c)
    PROVE  CachedAreProven' /\ ProofsOnTheWay'
<1> USE DEF LoginInv
<1>1. CASE Post(c)
  <2>1. cred[c] \in Requests
    BY <1>1 DEF Post, TypeOK
  <2>2. outbox \in Seq(Requests) /\ outbox' = Append(outbox, cred[c])
    BY <1>1 DEF Post, TypeOK, ChannelsOK
  <2>3. /\ proven \subseteq proven'
        /\ cred[c].right => cred[c].user \in proven'
        /\ UNCHANGED <<cache, snap, lookup, inbox>>
    BY <1>1 DEF Post, captainVars
  <2>4. AsksForProven(outbox)'
    <3>1. \A i \in 1..Len(outbox') :
             outbox'[i] = cred[c] \/ (i \in 1..Len(outbox) /\ outbox'[i] = outbox[i])
      BY <2>1, <2>2, GrownElements
    <3> QED BY <2>3, <3>1 DEF AsksForProven, ProofsOnTheWay
  <2>5. AnswersForProven(inbox)'
    BY <2>3 DEF AnswersForProven, ProofsOnTheWay
  <2> QED BY <2>3, <2>4, <2>5 DEF CachedAreProven, ProofsOnTheWay
<1>2. CASE ~Post(c)
  <2>1. UNCHANGED <<snap, lookup, outbox, inbox, proven>>
    BY <1>2 DEF Caller, Lookup, Evict, Register, Strand, Timeout, Deliver, Return, captainVars
  <2>2. \A u \in Users : cache'[u] = cache[u] \/ cache'[u] = None
    BY <1>2 DEF Caller, Lookup, Evict, Register, Strand, Timeout, Deliver, Return, TypeOK
  <2> QED
    BY <2>1, <2>2 DEF CachedAreProven, ProofsOnTheWay, AsksForProven, AnswersForProven
<1> QED BY <1>1, <1>2

(* The read pump, the timers and the captain never disturb the callers.    *)
LEMMA OthersStep ==
    ASSUME LoginInv, UNCHANGED <<pc, cred, pending, proven>>,
           \/ ReadChange \/ ReadLogin \/ SetUser
           \/ \E u \in Users : \/ Expire(u) \/ ResetRead(u) \/ ResetWrite(u)
                              \/ ChangeAccount(u) \/ NotifyUserChange(u)
                              \/ NotifyNobody(u)
           \/ CaptainReads \/ CaptainReplies \/ Session
    PROVE  /\ PendingOnlyWhileVerifying' /\ OnlyProvenUsersEnter'
           /\ ReaderAnswersItsUser' /\ CachedAreProven' /\ ProofsOnTheWay'
<1> USE DEF LoginInv
<1>1. PendingOnlyWhileVerifying' /\ OnlyProvenUsersEnter'
  BY DEF PendingOnlyWhileVerifying, OnlyProvenUsersEnter
<1>2. /\ inbox \in Seq(Logins \cup Changes) /\ outbox \in Seq(Requests)
      /\ None \notin Callers
  BY UserManagerAssumption DEF TypeOK, ChannelsOK
<1>3. ASSUME UNCHANGED <<outbox, lookup>>, inbox # << >>, inbox' = Tail(inbox)
      PROVE  ProofsOnTheWay'
  <2>1. \A i \in 1..Len(inbox') : i + 1 \in 1..Len(inbox) /\ inbox'[i] = inbox[i + 1]
    BY <1>2, <1>3, ShrunkElements
  <2>2. AnswersForProven(inbox)'
    BY <2>1 DEF AnswersForProven, ProofsOnTheWay
  <2> QED BY <1>3, <2>2 DEF ProofsOnTheWay, AsksForProven
<1>4. ASSUME NEW e \in Logins \cup Changes, inbox' = Append(inbox, e), UNCHANGED outbox,
             lookup' = lookup \/ lookup' = None,
             e.type = "login_success" => e.user \in proven
      PROVE  ProofsOnTheWay'
  <2>1. \A i \in 1..Len(inbox') :
           inbox'[i] = e \/ (i \in 1..Len(inbox) /\ inbox'[i] = inbox[i])
    BY <1>2, <1>4, GrownElements
  <2>2. AnswersForProven(inbox)'
    BY <1>4, <2>1 DEF AnswersForProven, ProofsOnTheWay
  <2> QED BY <1>4, <2>2 DEF ProofsOnTheWay, AsksForProven
<1>5. ASSUME UNCHANGED <<outbox, inbox, lookup>> PROVE ProofsOnTheWay'
  BY <1>5 DEF ProofsOnTheWay, AsksForProven, AnswersForProven
<1>6. ASSUME UNCHANGED reader PROVE ReaderAnswersItsUser'
  BY <1>6 DEF ReaderAnswersItsUser
<1>7. ASSUME UNCHANGED <<cache, snap>> PROVE CachedAreProven'
  BY <1>7 DEF CachedAreProven
<1>8. CASE ReadChange
  <2>1. CachedAreProven'
    BY <1>8 DEF ReadChange, CachedAreProven, TypeOK
  <2> QED BY <1>1, <1>3, <1>6, <1>8, <2>1 DEF ReadChange, captainVars
<1>9. CASE ReadLogin
  <2>1. Head(inbox) = inbox[1] /\ 1 \in 1..Len(inbox) /\ Head(inbox).type = "login_success"
    BY <1>2, <1>9, ShrunkElements DEF ReadLogin
  <2>2. Head(inbox).user \in proven
    BY <2>1 DEF AnswersForProven, ProofsOnTheWay
  <2>3. Head(inbox).user \in Users
    BY <2>2 DEF TypeOK
  <2>4. ReaderAnswersItsUser'
    <3>1. CASE pending[Head(inbox).user] = None
      BY <1>9, <3>1 DEF ReadLogin, Idle, ReaderAnswersItsUser
    <3>2. CASE pending[Head(inbox).user] # None
      BY <1>9, <2>2, <2>3, <3>2 DEF ReadLogin, ReaderAnswersItsUser, PendingOnlyWhileVerifying
    <3> QED BY <3>1, <3>2
  <2> QED BY <1>1, <1>3, <1>7, <1>9, <2>4 DEF ReadLogin, captainVars
<1>10. CASE SetUser
  <2>1. reader.user \in proven /\ reader' = [reader EXCEPT !.at = "send"]
    BY <1>10 DEF SetUser, ReaderAnswersItsUser
  <2>2. CachedAreProven'
    BY <1>10, <2>1 DEF SetUser, CachedAreProven, TypeOK
  <2>3. reader'.to = reader.to /\ reader'.user = reader.user
    BY <2>1 DEF TypeOK, Idle
  <2>4. ReaderAnswersItsUser'
    BY <1>10, <2>1, <2>3 DEF SetUser, ReaderAnswersItsUser
  <2> QED BY <1>1, <1>5, <1>10, <2>2, <2>4 DEF SetUser, captainVars
<1>11. ASSUME NEW u \in Users, Expire(u) \/ ResetRead(u) \/ ResetWrite(u)
       PROVE  CachedAreProven' /\ ReaderAnswersItsUser' /\ ProofsOnTheWay'
  <2>1. CASE Expire(u)
    BY <1>5, <1>6, <2>1 DEF Expire, CachedAreProven, TypeOK, captainVars
  <2>2. CASE ResetRead(u)
    BY <1>5, <1>6, <2>2 DEF ResetRead, CachedAreProven, TypeOK, captainVars
  <2>3. CASE ResetWrite(u)
    BY <1>5, <1>6, <2>3 DEF ResetWrite, CachedAreProven, TypeOK, captainVars
  <2> QED BY <1>11, <2>1, <2>2, <2>3
<1>12. ASSUME NEW u \in Users, ChangeAccount(u) \/ NotifyUserChange(u) \/ NotifyNobody(u)
       PROVE  CachedAreProven' /\ ReaderAnswersItsUser' /\ ProofsOnTheWay'
  <2>1. CASE ChangeAccount(u)
    BY <1>5, <1>6, <1>7, <2>1 DEF ChangeAccount
  <2>2. CASE NotifyUserChange(u)
    <3>1. Change(u) \in Logins \cup Changes /\ Change(u).type # "login_success"
      BY DEF Change, Changes
    <3>2. CASE conn = "registered"
      BY <1>4, <1>6, <1>7, <2>2, <3>1, <3>2 DEF NotifyUserChange
    <3>3. CASE conn # "registered"
      BY <1>5, <1>6, <1>7, <2>2, <3>3 DEF NotifyUserChange
    <3> QED BY <3>2, <3>3
  <2>3. CASE NotifyNobody(u)
    BY <1>5, <1>6, <1>7, <2>3 DEF NotifyNobody
  <2> QED BY <1>12, <2>1, <2>2, <2>3
<1>13. CASE CaptainReads
  <2>1. /\ Head(outbox) = outbox[1] /\ 1 \in 1..Len(outbox)
        /\ \A i \in 1..Len(outbox') : i + 1 \in 1..Len(outbox) /\ outbox'[i] = outbox[i + 1]
    BY <1>2, <1>13, ShrunkElements DEF CaptainReads
  <2>2. AsksForProven(outbox)'
    BY <2>1 DEF AsksForProven, ProofsOnTheWay
  <2>3. lookup' # None => lookup'.user \in proven
    BY <1>13, <2>1 DEF CaptainReads, Grants, Login, AsksForProven, ProofsOnTheWay
  <2>4. AnswersForProven(inbox)'
    BY <1>13 DEF CaptainReads, AnswersForProven, ProofsOnTheWay
  <2> QED BY <1>1, <1>6, <1>7, <1>13, <2>2, <2>3, <2>4 DEF CaptainReads, ProofsOnTheWay
<1>14. CASE CaptainReplies
  <2>1. lookup \in Logins \cup Changes /\ lookup.user \in proven
    BY <1>14 DEF CaptainReplies, TypeOK, ProofsOnTheWay
  <2> QED BY <1>1, <1>4, <1>6, <1>7, <1>14, <2>1 DEF CaptainReplies
<1>15. CASE LinkLost
  <2>1. PICK k \in 1..(Len(outbox) + 1) : outbox' = SubSeq(outbox, k, Len(outbox))
    BY <1>15 DEF LinkLost
  <2>2. \A i \in 1..Len(outbox') : \E j \in 1..Len(outbox) : outbox'[i] = outbox[j]
    BY <1>2, <2>1, QueueLosesFront
  <2>3. AsksForProven(outbox)'
    BY <2>2 DEF AsksForProven, ProofsOnTheWay
  <2> QED
    BY <1>1, <1>6, <1>7, <1>15, <2>3 DEF LinkLost, ProofsOnTheWay, AnswersForProven
<1>16. CASE ReaderEnds
  <2>1. Len(inbox') = 0 /\ UNCHANGED <<outbox, lookup>>
    BY <1>16 DEF ReaderEnds
  <2> QED
    BY <1>1, <1>6, <1>7, <1>16, <2>1
    DEF ReaderEnds, ProofsOnTheWay, AnswersForProven, AsksForProven
<1>17. CASE Reconnect
  <2>1. Len(outbox') = 0 /\ UNCHANGED <<inbox, lookup>>
    BY <1>17 DEF Reconnect
  <2> QED
    BY <1>1, <1>6, <1>7, <1>17, <2>1
    DEF Reconnect, ProofsOnTheWay, AnswersForProven, AsksForProven
<1>18. CASE FormerRemoves
  BY <1>1, <1>5, <1>6, <1>7, <1>18 DEF FormerRemoves
<1> QED
  BY <1>1, <1>8, <1>9, <1>10, <1>11, <1>12, <1>13, <1>14, <1>15, <1>16, <1>17, <1>18
  DEF Session

(* A pending validation belongs to a VerifyUser of that user that has not  *)
(* returned, and nobody is let in as a user whose password no client has   *)
(* presented, whatever channels are shared, overwritten or written back.   *)
THEOREM LoginSafety == Spec => [](PendingOnlyWhileVerifying /\ OnlyProvenUsersEnter)
<1>1. Init => LoginInv
  <2> SUFFICES ASSUME Init PROVE LoginInv
    OBVIOUS
  <2>1. TypeOK
    BY InitTyped
  <2>2. Len(outbox) = 0 /\ Len(inbox) = 0
    BY DEF Init
  <2> QED
    BY <2>1, <2>2 DEF Init, LoginInv, PendingOnlyWhileVerifying, OnlyProvenUsersEnter,
       ReaderAnswersItsUser, CachedAreProven, ProofsOnTheWay, AsksForProven,
       AnswersForProven, Idle
<1>2. LoginInv /\ [Next]_vars => LoginInv'
  <2> SUFFICES ASSUME LoginInv, [Next]_vars PROVE LoginInv'
    OBVIOUS
  <2>1. TypeOK'
    BY TypeStep DEF LoginInv
  <2>2. ASSUME NEW c \in Callers, Caller(c) PROVE LoginInv'
    BY <2>1, <2>2, CallerStep, CallerLeavesProofs DEF LoginInv
  <2>3. CASE ReadChange \/ ReadLogin \/ SetUser
    <3>1. UNCHANGED <<pc, cred, pending, proven>>
      BY <2>3 DEF ReadChange, ReadLogin, SetUser
    <3> QED BY <2>1, <2>3, <3>1, OthersStep DEF LoginInv
  <2>4. ASSUME NEW u \in Users,
               \/ Expire(u) \/ ResetRead(u) \/ ResetWrite(u)
               \/ ChangeAccount(u) \/ NotifyUserChange(u) \/ NotifyNobody(u)
        PROVE  LoginInv'
    <3>1. UNCHANGED <<pc, cred, pending, proven>>
      BY <2>4 DEF Expire, ResetRead, ResetWrite, ChangeAccount, NotifyUserChange, NotifyNobody
    <3> QED BY <2>1, <2>4, <3>1, OthersStep DEF LoginInv
  <2>5. CASE CaptainReads \/ CaptainReplies \/ Session
    <3>1. UNCHANGED <<pc, cred, pending, proven>>
      BY <2>5 DEF CaptainReads, CaptainReplies, Session, LinkLost, ReaderEnds,
                  Reconnect, FormerRemoves
    <3> QED BY <2>1, <2>5, <3>1, OthersStep DEF LoginInv
  <2>6. CASE UNCHANGED vars
    BY <2>1, <2>6 DEF vars, LoginInv, PendingOnlyWhileVerifying, OnlyProvenUsersEnter,
       ReaderAnswersItsUser, CachedAreProven, ProofsOnTheWay, AsksForProven, AnswersForProven
  <2> QED BY <2>2, <2>3, <2>4, <2>5, <2>6 DEF Next
<1>3. LoginInv => PendingOnlyWhileVerifying /\ OnlyProvenUsersEnter
  BY DEF LoginInv
<1> QED
  BY <1>1, <1>2, <1>3, PTL DEF Spec


(* A pending validation belongs to a login of that user that is under way, *)
(* so no entry outlives the logins it was made for.                        *)
THEOREM PendingHolds == Spec => []PendingOnlyWhileVerifying
  BY LoginSafety, PTL

-----------------------------------------------------------------------------
(* Once every change of a user is announced, what the worker still holds   *)
(* of the active account has a change behind it in the channel: so has an  *)
(* answer that is in the channel, and the captain holds none.  A change    *)
(* that did not come excuses its user for good, so that the argument needs *)
(* nothing of how sessions end beyond what they do to the channel.         *)
Announced(u) == \E i \in DOMAIN inbox : inbox[i] = Change(u)

HoldsActive(u) ==
    \/ cache[u] = "active" \/ snap[u] = "active"
    \/ reader.at = "cache" /\ reader.user = u /\ reader.rec = "active"

ChangeFollowsAnswers(u) ==
    \A i \in DOMAIN inbox : inbox[i] = Login(u, "active") =>
        \E j \in DOMAIN inbox : j > i /\ inbox[j] = Change(u)

Due(u) == account[u] # "active" /\ unsent[u] = 0 /\ u \notin raced \cup missed

Followed(u) ==
    /\ HoldsActive(u) => Announced(u)
    /\ ChangeFollowsAnswers(u)
    /\ lookup # None => lookup # Login(u, "active")

StaleInv == \A u \in Users : Due(u) => Followed(u)

LEMMA InboxGrows ==
    ASSUME TypeOK, NEW e, e \in Logins \cup Changes, inbox' = Append(inbox, e)
    PROVE  /\ \A i \in DOMAIN inbox : i \in DOMAIN inbox' /\ inbox'[i] = inbox[i] /\ i < Len(inbox) + 1
           /\ \A i \in DOMAIN inbox' : i \in DOMAIN inbox \/ i = Len(inbox) + 1
           /\ Len(inbox) + 1 \in DOMAIN inbox' /\ inbox'[Len(inbox) + 1] = e
<1>1. inbox \in Seq(Logins \cup Changes)
  BY DEF TypeOK, ChannelsOK
<1> HIDE DEF Logins, Changes
<1> QED
  BY <1>1

LEMMA InboxShrinks ==
    ASSUME TypeOK, inbox # << >>, inbox' = Tail(inbox)
    PROVE  /\ Head(inbox) = inbox[1] /\ 1 \in DOMAIN inbox
           /\ \A i \in DOMAIN inbox' : i + 1 \in DOMAIN inbox /\ inbox'[i] = inbox[i + 1] /\ i \in Nat /\ i >= 1
           /\ \A i \in DOMAIN inbox : i \in Nat /\ (i = 1 \/ (i - 1 \in DOMAIN inbox' /\ inbox'[i - 1] = inbox[i]))
<1>1. inbox \in Seq(Logins \cup Changes)
  BY DEF TypeOK, ChannelsOK
<1> HIDE DEF Logins, Changes
<1> QED
  BY <1>1

LEMMA FollowedFrame ==
    ASSUME NEW u \in Users, Followed(u), UNCHANGED inbox, HoldsActive(u)' => HoldsActive(u),
           lookup' # None => lookup' = lookup \/ lookup' # Login(u, "active")
    PROVE  Followed(u)'
  BY DEF Followed, Announced, ChangeFollowsAnswers, Login, Change

LEMMA FollowedGrows ==
    ASSUME TypeOK, NEW u \in Users, Followed(u), NEW e, e \in Logins \cup Changes,
           inbox' = Append(inbox, e), e # Login(u, "active"),
           HoldsActive(u)' => HoldsActive(u), lookup' = lookup \/ lookup' = None
    PROVE  Followed(u)'
<1>1. Announced(u) => Announced(u)'
  BY InboxGrows DEF Announced, Change
<1>2. ChangeFollowsAnswers(u)'
  BY InboxGrows DEF Followed, ChangeFollowsAnswers, Login, Change
<1> QED
  BY <1>1, <1>2 DEF Followed, Login

LEMMA FollowedShrinks ==
    ASSUME TypeOK, NEW u \in Users, Followed(u), inbox # << >>, inbox' = Tail(inbox),
           UNCHANGED lookup, HoldsActive(u)' => HoldsActive(u) \/ Head(inbox) = Login(u, "active"),
           Head(inbox) = Change(u) => ~HoldsActive(u)'
    PROVE  Followed(u)'
<1>1. ChangeFollowsAnswers(u)'
  <2> SUFFICES ASSUME NEW i \in DOMAIN inbox', inbox'[i] = Login(u, "active")
               PROVE  \E j \in DOMAIN inbox' : j > i /\ inbox'[j] = Change(u)
    BY DEF ChangeFollowsAnswers, Login, Change
  <2>1. i + 1 \in DOMAIN inbox /\ inbox[i + 1] = Login(u, "active") /\ i \in Nat /\ i >= 1
    BY InboxShrinks
  <2>2. PICK j \in DOMAIN inbox : j > i + 1 /\ inbox[j] = Change(u)
    BY <2>1 DEF Followed, ChangeFollowsAnswers
  <2>3. j - 1 \in DOMAIN inbox' /\ inbox'[j - 1] = Change(u) /\ j - 1 > i
    BY <2>1, <2>2, InboxShrinks
  <2> QED
    BY <2>3
<1>2. ASSUME HoldsActive(u)' PROVE Announced(u)'
  <2>1. \E j \in DOMAIN inbox : inbox[j] = Change(u) /\ j # 1
    <3>1. CASE HoldsActive(u)
      BY <1>2, <3>1, InboxShrinks DEF Followed, Announced
    <3>2. CASE Head(inbox) = Login(u, "active")
      BY <3>2, InboxShrinks DEF Followed, ChangeFollowsAnswers
    <3> QED
      BY <1>2, <3>1, <3>2
  <2>2. PICK j \in DOMAIN inbox : inbox[j] = Change(u) /\ j # 1
    BY <2>1
  <2>3. j - 1 \in DOMAIN inbox' /\ inbox'[j - 1] = Change(u)
    BY <2>2, InboxShrinks
  <2> QED
    BY <2>3 DEF Announced, Change
<1> QED
  BY <1>1, <1>2 DEF Followed, Login

LEMMA StaleStep == ASSUME TypeOK, StaleInv, [Next]_vars PROVE StaleInv'
<1> SUFFICES ASSUME NEW u \in Users, Due(u)' PROVE Followed(u)'
  BY DEF StaleInv
<1>0. /\ unsent \in [Users -> 0..MaxChanges] /\ account \in [Users -> Served \cup {"deleted"}]
      /\ cache \in [Users -> Served \cup {None}] /\ snap \in [Users -> Served \cup {None}]
      /\ lookup \in {None} \cup Logins /\ None \notin {"active", "barred"}
  BY UserManagerAssumption DEF TypeOK
<1>1. ASSUME UNCHANGED <<account, unsent>>, raced \subseteq raced', missed \subseteq missed'
      PROVE  Due(u) /\ Followed(u)
  BY <1>1 DEF Due, StaleInv
<1>2. ASSUME NEW c \in Callers, Caller(c) PROVE Followed(u)'
  <2>1. UNCHANGED <<account, unsent, raced, missed, lookup, inbox, snap>>
    BY <1>2 DEF Caller, Lookup, Evict, Register, Post, Strand, Timeout, Deliver, Return, captainVars, sessionVars
  <2>2. UNCHANGED cache \/ \E v \in Users : cache' = [cache EXCEPT ![v] = None]
    BY <1>2 DEF Caller, Lookup, Evict, Register, Post, Strand, Timeout, Deliver, Return, Requests, TypeOK
  <2>3. reader'.at = "cache" => reader.at = "cache" /\ reader'.user = reader.user /\ reader'.rec = reader.rec
    <3>1. reader \in {Idle} \cup [at : {"cache", "send"}, to : Callers \cup {Gone}, user : Users, rec : Served]
      BY DEF TypeOK
    <3> QED
      BY <1>2, <3>1 DEF Caller, Lookup, Evict, Register, Post, Strand, Timeout, Deliver, Return, Idle
  <2>4. HoldsActive(u)' => HoldsActive(u)
    BY <1>0, <2>1, <2>2, <2>3 DEF HoldsActive
  <2> QED
    BY <1>1, <2>1, <2>4, FollowedFrame
<1>3. CASE ReadChange
  <2>1. /\ inbox # << >> /\ inbox' = Tail(inbox) /\ Head(inbox).type = "user_change"
        /\ cache' = [cache EXCEPT ![Head(inbox).user] = None]
        /\ raced' = IF snap[Head(inbox).user] = "active" THEN raced \cup {Head(inbox).user} ELSE raced
        /\ UNCHANGED <<account, unsent, lookup, snap, reader, missed>> /\ reader = Idle
    BY <1>3 DEF ReadChange, captainVars, sessionVars
  <2>2. HoldsActive(u)' => HoldsActive(u)
    BY <1>0, <2>1 DEF HoldsActive
  <2>3. Head(inbox) = Change(u) => ~HoldsActive(u)'
    <3> SUFFICES ASSUME Head(inbox) = Change(u) PROVE ~HoldsActive(u)'
      OBVIOUS
    <3>1. Head(inbox).user = u
      BY DEF Change
    <3> QED
      BY <1>0, <2>1, <3>1 DEF HoldsActive, Due, Idle
  <2> QED
    BY <1>1, <2>1, <2>2, <2>3, FollowedShrinks
<1>4. CASE ReadLogin
  <2>1. /\ inbox # << >> /\ inbox' = Tail(inbox) /\ Head(inbox).type = "login_success"
        /\ UNCHANGED <<account, unsent, lookup, snap, cache, raced, missed>>
        /\ \/ reader' = Idle
           \/ reader'.at = "cache" /\ reader'.user = Head(inbox).user /\ reader'.rec = Head(inbox).rec
    BY <1>4 DEF ReadLogin, captainVars, sessionVars
  <2>2. Head(inbox).user = u /\ Head(inbox).rec = "active" => Head(inbox) = Login(u, "active")
    <3>1. Head(inbox) \in Logins \cup Changes
      BY <2>1, QueueShrinks DEF TypeOK, ChannelsOK
    <3> QED
      BY <2>1, <3>1 DEF Logins, Changes, Login
  <2>3. HoldsActive(u)' => HoldsActive(u) \/ Head(inbox) = Login(u, "active")
    BY <2>1, <2>2 DEF HoldsActive, Idle
  <2>4. Head(inbox) # Change(u)
    BY <2>1 DEF Change
  <2> QED
    BY <1>1, <2>1, <2>3, <2>4, FollowedShrinks
<1>5. CASE SetUser
  <2>1. /\ UNCHANGED <<account, unsent, lookup, snap, inbox, raced, missed>> /\ reader.at = "cache"
        /\ cache' = [cache EXCEPT ![reader.user] = reader.rec] /\ reader' = [reader EXCEPT !.at = "send"]
    BY <1>5 DEF SetUser, captainVars, sessionVars
  <2>2. reader \in [at : {"cache", "send"}, to : Callers \cup {Gone}, user : Users, rec : Served]
    BY <2>1 DEF TypeOK, Idle
  <2>3. HoldsActive(u)' => HoldsActive(u)
    BY <1>0, <2>1, <2>2 DEF HoldsActive
  <2> QED
    BY <1>1, <2>1, <2>3, FollowedFrame
<1>6. ASSUME NEW v \in Users, Expire(v) \/ ResetRead(v) \/ ResetWrite(v) PROVE Followed(u)'
  <2>1. UNCHANGED <<account, unsent, lookup, inbox, raced, missed, reader>>
    BY <1>6 DEF Expire, ResetRead, ResetWrite, captainVars, sessionVars
  <2>2. cache'[u] \in {cache[u], snap[u], None} /\ snap'[u] \in {cache[u], snap[u], None}
    BY <1>0, <1>6 DEF Expire, ResetRead, ResetWrite
  <2>3. HoldsActive(u)' => HoldsActive(u)
    BY <1>0, <2>1, <2>2 DEF HoldsActive
  <2> QED
    BY <1>1, <2>1, <2>3, FollowedFrame
<1>7. ASSUME NEW v \in Users, ChangeAccount(v) PROVE Followed(u)'
  <2>1. /\ unsent' = [unsent EXCEPT ![v] = @ + 1] /\ \E s : account' = [account EXCEPT ![v] = s]
        /\ UNCHANGED <<lookup, inbox, cache, snap, reader, raced, missed>>
    BY <1>7 DEF ChangeAccount, sessionVars
  <2>2. v # u
    BY <1>0, <2>1, UserManagerAssumption DEF Due
  <2>3. Due(u)
    BY <1>0, <2>1, <2>2 DEF Due
  <2> QED
    BY <2>1, <2>3, FollowedFrame DEF StaleInv, HoldsActive
<1>8. ASSUME NEW v \in Users, NotifyUserChange(v), conn = "registered" PROVE Followed(u)'
  <2>1. /\ unsent' = [unsent EXCEPT ![v] = @ - 1] /\ inbox' = Append(inbox, Change(v))
        /\ raced' = IF lookup = Login(v, "active") THEN raced \cup {v} ELSE raced
        /\ UNCHANGED <<account, lookup, cache, snap, reader, missed>>
    BY <1>8 DEF NotifyUserChange
  <2>2. Change(v) \in Changes /\ Change(v) # Login(u, "active")
    BY DEF Change, Changes, Login
  <2>3. CASE v = u
    <3>1. Announced(u)'
      BY <2>1, <2>2, <2>3, InboxGrows DEF Announced, Change
    <3>2. ChangeFollowsAnswers(u)'
      BY <2>1, <2>2, <2>3, InboxGrows DEF ChangeFollowsAnswers, Login, Change
    <3>3. lookup' # Login(u, "active")'
      BY <2>1, <2>3 DEF Due, Login
    <3> QED
      BY <3>1, <3>2, <3>3 DEF Followed, Login
  <2>4. CASE v # u
    <3>1. Due(u)
      BY <1>0, <2>1, <2>4 DEF Due
    <3> QED
      BY <2>1, <2>2, <3>1, FollowedGrows DEF StaleInv, HoldsActive
  <2> QED
    BY <2>3, <2>4
<1>9. CASE CaptainReads
  <2>1. /\ UNCHANGED <<account, unsent, inbox, cache, snap, reader, raced, missed>> /\ outbox # << >>
        /\ lookup' = None \/ lookup' = Login(Head(outbox).user, account[Head(outbox).user])
    BY <1>9 DEF CaptainReads, sessionVars
  <2>2. lookup' # None => lookup' # Login(u, "active")
    BY <2>1 DEF Login, Due
  <2> QED
    BY <1>1, <2>1, <2>2, FollowedFrame DEF HoldsActive
<1>10. CASE CaptainReplies
  <2>1. /\ lookup # None /\ inbox' = Append(inbox, lookup) /\ lookup' = None
        /\ UNCHANGED <<account, unsent, cache, snap, reader, raced, missed>>
    BY <1>10 DEF CaptainReplies, sessionVars
  <2>2. lookup \in Logins \cup Changes /\ Followed(u)
    BY <1>0, <1>1, <2>1
  <2> QED
    BY <2>1, <2>2, FollowedGrows DEF Followed, HoldsActive
<1>11. ASSUME NEW v \in Users,
              \/ NotifyUserChange(v) /\ conn # "registered"
              \/ NotifyNobody(v)
       PROVE  Followed(u)'
  <2>1. /\ unsent' = [unsent EXCEPT ![v] = @ - 1] /\ missed' = missed \cup {v}
        /\ UNCHANGED <<account, lookup, inbox, cache, snap, reader, raced>>
    BY <1>11 DEF NotifyUserChange, NotifyNobody
  <2>2. Due(u)
    BY <1>0, <2>1 DEF Due
  <2> QED
    BY <2>1, <2>2, FollowedFrame DEF StaleInv, HoldsActive
<1>12. CASE LinkLost
  <2>1. lookup' = None /\ UNCHANGED <<account, unsent, inbox, cache, snap, reader, raced, missed>>
    BY <1>12 DEF LinkLost
  <2> QED
    BY <1>1, <2>1, FollowedFrame DEF HoldsActive
<1>13. CASE ReaderEnds
  <2>1. /\ inbox' = << >> /\ UNCHANGED <<account, unsent, lookup, cache, snap, reader, raced>>
        /\ missed' = missed \cup {v \in Users : \E i \in DOMAIN inbox : inbox[i] = Change(v)}
    BY <1>13 DEF ReaderEnds
  <2>2. Due(u) /\ Followed(u) /\ ~Announced(u)
    BY <1>1, <2>1 DEF Due, Announced
  <2>3. ~HoldsActive(u)' /\ DOMAIN inbox' = {}
    BY <2>1, <2>2 DEF Followed, HoldsActive
  <2> QED
    BY <2>1, <2>2, <2>3 DEF Followed, ChangeFollowsAnswers, Login
<1>14. CASE Reconnect \/ FormerRemoves \/ UNCHANGED vars
  <2>1. UNCHANGED <<account, unsent, lookup, inbox, cache, snap, reader, raced, missed>>
    BY <1>14 DEF Reconnect, FormerRemoves, vars, sessionVars
  <2> QED
    BY <1>1, <2>1, FollowedFrame DEF HoldsActive
<1> QED
  BY <1>2, <1>3, <1>4, <1>5, <1>6, <1>7, <1>8, <1>9, <1>10, <1>11, <1>12, <1>13, <1>14
  DEF Next, Session

(* A user whom the captain has barred is served from the cache only while  *)
(* the change is on its way, after one of the two races, or after a change *)
(* that did not reach the worker at all.                                   *)
THEOREM StaleHolds == Spec => []StaleOnlyByCause
<1>1. Init => StaleInv
  BY UserManagerAssumption DEF Init, StaleInv, Due, Followed, HoldsActive, Announced, ChangeFollowsAnswers, Idle
<1>2. TypeOK /\ StaleInv /\ [Next]_vars => StaleInv'
  BY StaleStep
<1>3. TypeOK /\ StaleInv => StaleOnlyByCause
  <2> SUFFICES ASSUME TypeOK, StaleInv, NEW u \in Users, cache[u] = "active", account[u] # "active",
                      u \notin raced, u \notin missed, unsent[u] = 0
               PROVE  \E i \in 1..Len(inbox) : inbox[i] = Change(u)
    BY DEF StaleOnlyByCause, ChangeOnItsWay, TypeOK
  <2>1. Announced(u)
    BY DEF StaleInv, Due, Followed, HoldsActive
  <2>2. DOMAIN inbox = 1..Len(inbox)
    BY DEF TypeOK, ChannelsOK
  <2> QED
    BY <2>1, <2>2 DEF Announced
<1> QED
  BY <1>1, <1>2, <1>3, TypeCorrect, PTL DEF Spec

-----------------------------------------------------------------------------
(* The read pump whose caller has returned or is stranded.  A session is   *)
(* over only when its pump has read what it could, so it has none to wait. *)
OverIsIdle == conn = "over" => reader = Idle /\ inbox = << >>

LEMMA OverIsIdleStep == ASSUME TypeOK, OverIsIdle, [Next]_vars PROVE OverIsIdle'
<1>1. ASSUME NEW c \in Callers, Caller(c) PROVE OverIsIdle'
  <2>1. UNCHANGED <<conn, inbox>>
    BY <1>1 DEF Caller, Lookup, Evict, Register, Post, Strand, Timeout, Deliver, Return,
                sessionVars
  <2>2. reader = Idle => reader' = Idle
    BY <1>1, UserManagerAssumption
    DEF Caller, Lookup, Evict, Register, Post, Strand, Timeout, Deliver, Return, Idle
  <2> QED BY <2>1, <2>2 DEF OverIsIdle
<1>2. CASE ReadChange \/ ReadLogin \/ SetUser
  BY <1>2 DEF ReadChange, ReadLogin, SetUser, OverIsIdle, Idle, sessionVars
<1>3. ASSUME NEW u \in Users, \/ Expire(u) \/ ResetRead(u) \/ ResetWrite(u)
                              \/ ChangeAccount(u) \/ NotifyUserChange(u) \/ NotifyNobody(u)
      PROVE  OverIsIdle'
  BY <1>3 DEF Expire, ResetRead, ResetWrite, ChangeAccount, NotifyUserChange,
              NotifyNobody, OverIsIdle, sessionVars
<1>4. CASE CaptainReads \/ CaptainReplies
  BY <1>4 DEF CaptainReads, CaptainReplies, Live, OverIsIdle, sessionVars
<1>5. CASE Session
  BY <1>5 DEF Session, LinkLost, ReaderEnds, Reconnect, FormerRemoves, OverIsIdle
<1>6. CASE UNCHANGED vars
  BY <1>6 DEF vars, sessionVars, OverIsIdle
<1> QED
  BY <1>1, <1>2, <1>3, <1>4, <1>5, <1>6 DEF Next

LEMMA AbandonedStep ==
    ASSUME TypeOK, OverIsIdle, Abandoned, [Next]_vars
    PROVE  /\ UNCHANGED reader
           /\ \A i \in DOMAIN inbox : i \in DOMAIN inbox' /\ inbox'[i] = inbox[i]
           /\ \A c \in Callers : pc'[c] = "granted" => pc[c] = "granted"
           /\ conn' # "over"
<1> DEFINE Goal == /\ UNCHANGED reader
                   /\ \A i \in DOMAIN inbox : i \in DOMAIN inbox' /\ inbox'[i] = inbox[i]
                   /\ \A c \in Callers : pc'[c] = "granted" => pc[c] = "granted"
                   /\ conn' # "over"
<1>1. /\ reader.at = "send" /\ reader # Idle /\ conn # "over"
      /\ reader.to = Gone \/ pc[reader.to] = "stranded"
      /\ Gone \notin Callers /\ pc \in [Callers -> Stages]
  BY UserManagerAssumption DEF Abandoned, TypeOK, OverIsIdle, Idle
<1>2. ASSUME NEW c \in Callers, Caller(c) PROVE Goal
  <2>1. ~Deliver(c) /\ (Return(c) => reader.to # c)
    BY <1>1 DEF Deliver, Return
  <2>2. UNCHANGED <<reader, inbox, conn>>
    BY <1>2, <2>1 DEF Caller, Lookup, Evict, Register, Post, Strand, Timeout, Return, sessionVars
  <2>3. \A d \in Callers : pc'[d] = "granted" => pc[d] = "granted"
    <3>1. CASE Lookup(c)
      <4>1. \E to \in {"register", "accepted", "evict"} : pc' = [pc EXCEPT ![c] = to]
        BY <3>1 DEF Lookup
      <4> QED
        BY <1>1, <4>1
    <3>2. CASE Evict(c) \/ Register(c) \/ Post(c) \/ Strand(c) \/ Timeout(c) \/ Return(c)
      BY <1>1, <3>2 DEF Evict, Register, Post, Strand, Timeout, Return
    <3> QED
      BY <1>2, <2>1, <3>1, <3>2 DEF Caller
  <2> QED
    BY <1>1, <2>2, <2>3
<1>3. ~ReadChange /\ ~ReadLogin /\ ~SetUser /\ ~ReaderEnds /\ ~Reconnect
  BY <1>1 DEF ReadChange, ReadLogin, SetUser, ReaderEnds, Reconnect
<1>4. ASSUME NEW u \in Users, \/ Expire(u) \/ ResetRead(u) \/ ResetWrite(u)
                              \/ ChangeAccount(u) \/ NotifyNobody(u)
      PROVE  Goal
  BY <1>1, <1>4 DEF Expire, ResetRead, ResetWrite, ChangeAccount, NotifyNobody, sessionVars
<1>5. ASSUME NEW u \in Users, NotifyUserChange(u) PROVE Goal
  <2>1. UNCHANGED <<reader, pc, conn>>
    BY <1>5 DEF NotifyUserChange
  <2>2. CASE conn = "registered"
    <3>1. inbox' = Append(inbox, Change(u)) /\ Change(u) \in Logins \cup Changes
      BY <1>5, <2>2 DEF NotifyUserChange, Change, Changes
    <3> QED
      BY <1>1, <2>1, <3>1, InboxGrows
  <2>3. CASE conn # "registered"
    BY <1>1, <1>5, <2>1, <2>3 DEF NotifyUserChange
  <2> QED
    BY <2>2, <2>3
<1>6. CASE CaptainReplies
  <2>1. /\ UNCHANGED <<reader, pc, conn>> /\ inbox' = Append(inbox, lookup)
        /\ lookup \in Logins \cup Changes
    BY <1>6 DEF CaptainReplies, TypeOK, sessionVars
  <2> QED
    BY <1>1, <2>1, InboxGrows
<1>7. CASE CaptainReads \/ LinkLost \/ FormerRemoves \/ UNCHANGED vars
  BY <1>1, <1>7 DEF CaptainReads, LinkLost, FormerRemoves, vars, sessionVars
<1> QED
  BY <1>2, <1>3, <1>4, <1>5, <1>6, <1>7 DEF Next, Session

(* A read pump whose caller has timed out or is stranded never reads or    *)
(* sends again: what the captain sends stays in the channel, in order, no  *)
(* login succeeds that needs an answer, and the session, lost or not,      *)
(* keeps Connect from returning.                                           *)
THEOREM AbandonedStays == Spec => AbandonedForGood
<1>1. Init => OverIsIdle
  BY DEF Init, OverIsIdle
<1>2. TypeOK /\ OverIsIdle /\ [Next]_vars => OverIsIdle'
  BY OverIsIdleStep
<1>3. TypeOK /\ OverIsIdle /\ [Next]_vars =>
        (Abandoned =>
          /\ UNCHANGED reader
          /\ \A i \in DOMAIN inbox : i \in DOMAIN inbox' /\ inbox'[i] = inbox[i]
          /\ \A c \in Callers : pc'[c] = "granted" => pc[c] = "granted"
          /\ conn' # "over")
  BY AbandonedStep
<1> QED
  BY <1>1, <1>2, <1>3, TypeCorrect, PTL DEF Spec, AbandonedForGood
=============================================================================

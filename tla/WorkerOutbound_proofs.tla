------------------------ MODULE WorkerOutbound_proofs ------------------------
(* Types, misrouting, sessions, late configuration and settled hosts of    *)
(* the worker's outgoing connections, for every list, pool size, number of *)
(* clients and hosts.                                                      *)
EXTENDS WorkerOutbound, TLAPS

(* What the steps rely on: a pool exists only with an address its dials go *)
(* to, and holds connections to its own address or that one.               *)
DialsSomewhere == pooled # {} => last \in Addresses

PoolContents ==
    \A a \in Addresses : \A i \in 1..Len(pools[a]) : pools[a][i] \in {a, last}

(* No handler runs before the proxy listens.                               *)
NoneBeforeReady == ~ready => checker = "none" /\ \A c \in Conns : stage[c] = "closed"

(* The pools and the checker are made together.                            *)
NoPoolsWithoutChecker == checker = "none" => pooled = {}

(* A handler chooses only where there is a list, has chosen once it waits  *)
(* for a connection, leads somewhere only when it relays, and never gets   *)
(* that far without the checker, unless the address is malformed.          *)
ConnOK(c) ==
    /\ stage[c] = "choose" => HasUpstreams
    /\ stage[c] \in {"closed", "choose"} => chosen[c] = NoUpstream
    /\ stage[c] \in {"get", "stick"} => chosen[c] # NoUpstream
    /\ stage[c] = "stick" => holder[c] \in Users /\ session[c] \in Sessions
    /\ stage[c] # "relay" => leads[c] = NoUpstream
    /\ stage[c] = "relay" /\ leads[c] # chosen[c] => leads[c] = last /\ chosen[c] \in pooled
    /\ ready /\ checker = "none" /\ ~always =>
          c \in malformed \/ (stage[c] \in {"closed", "relay", "panicked"} /\ chosen[c] = NoUpstream)

PoolInv == DialsSomewhere /\ PoolContents

HandlerInv == NoneBeforeReady /\ NoPoolsWithoutChecker /\ \A c \in Conns : ConnOK(c)

(* The types of the connections' own variables.                            *)
ConnTypeOK ==
    /\ stage \in [Conns -> Stages]
    /\ session \in [Conns -> Sessions \cup {NoSession}] /\ malformed \subseteq Conns
    /\ holder \in [Conns -> Users \cup {NoUser}]
    /\ chosen \in [Conns -> Upstreams \cup {NoUpstream}]
    /\ leads \in [Conns -> Upstreams \cup {NoUpstream}]

OutboundInv == TypeOK /\ PoolInv /\ HandlerInv

-----------------------------------------------------------------------------
LEMMA SelectedInList ==
  ASSUME SelectionTypeOK, HasUpstreams
  PROVE  Selected \in Upstreams
<1>1. upstreams \in Seq(Upstreams) /\ Len(upstreams) > 0
  BY SelectionAssumption DEF SelectionTypeOK, HasUpstreams
<1>2. Position \in 1..Len(upstreams)
  BY <1>1 DEF Position, SelectionTypeOK
<1> QED
  BY <1>1, <1>2 DEF Selected

LEMMA DialledSeq ==
  ASSUME NEW S, NEW x \in S, NEW n \in Nat
  PROVE  /\ Dialled(x, n) \in Seq(S) /\ Len(Dialled(x, n)) = n
         /\ \A i \in 1..n : Dialled(x, n)[i] = x
  BY DEF Dialled

LEMMA InitOutbound == ASSUME Init PROVE OutboundInv
<1> USE SelectionAssumption, PoolAssumption, CheckerAssumption, OutboundAssumption
<1> USE DEF Init
<1>1. SelectionTypeOK
  BY DEF Unconfigured, SelectionTypeOK, NoSessions
<1>2. PoolTypeOK /\ PoolInv
  BY DEF NoPools, PoolTypeOK, PoolInv, DialsSomewhere, PoolContents
<1>3. CheckerTypeOK
  <2>1. (CHOOSE h \in Hosts : TRUE) \in Hosts
    OBVIOUS
  <2> QED
    BY <2>1 DEF NoChecker, CheckerTypeOK, Counts, Unknown, NoCheck
<1>4. stage \in [Conns -> Stages] /\ TypeOK
  BY <1>1, <1>2, <1>3 DEF NoConns, TypeOK, Stages
<1>5. HandlerInv
  BY DEF NoConns, NoChecker, NoPools, HandlerInv, NoneBeforeReady, NoPoolsWithoutChecker, ConnOK
<1> QED
  BY <1>2, <1>4, <1>5 DEF OutboundInv

-----------------------------------------------------------------------------
(* The list and the sessions.                                              *)
LEMMA SelectionStep ==
  ASSUME TypeOK, HandlerInv, [Next]_vars
  PROVE  SelectionTypeOK'
<1> USE SelectionAssumption DEF TypeOK, SelectionTypeOK
<1>1. ASSUME UNCHANGED selectionVars PROVE SelectionTypeOK'
  BY <1>1 DEF selectionVars
<1>2. ASSUME Restart PROVE SelectionTypeOK'
  BY <1>2 DEF Restart, ForgetSelection, NoSessions
<1>3. ASSUME NEW list \in Lists, Configure(list) PROVE SelectionTypeOK'
  BY <1>3 DEF Configure, SetUpstreams
<1>4. ASSUME ChangeUser PROVE SelectionTypeOK'
  <2>1. CASE Forget
    BY <2>1 DEF Forget
  <2>2. ASSUME NEW u \in Users, Login(u) PROVE SelectionTypeOK'
    <3>1. NoSessions \in [Sessions -> Upstreams \cup {NoUpstream}]
      BY DEF NoSessions
    <3> QED
      BY <2>2, <3>1 DEF Login
  <2>3. ASSUME NEW u \in Users, Refile(u) PROVE SelectionTypeOK'
    BY <2>3 DEF Refile
  <2> QED
    BY <1>4, <2>1, <2>2, <2>3 DEF ChangeUser
<1>5. ASSUME NEW c \in Conns, ChooseFreely(c) \/ ChooseFirst(c) PROVE SelectionTypeOK'
  <2>1. index' \in 0..(Wrap - 1)
    BY <1>5 DEF ChooseFreely, ChooseFirst, Choose, Advance
  <2> QED
    BY <1>5, <2>1 DEF ChooseFreely, ChooseFirst, Choose
<1>6. ASSUME NEW c \in Conns, StickTo(c) PROVE SelectionTypeOK'
  <2>1. holder[c] \in Users /\ session[c] \in Sessions /\ chosen[c] \in Upstreams \cup {NoUpstream}
    BY <1>6 DEF StickTo, HandlerInv, ConnOK
  <2>2. sessions' \in [Users -> [Sessions -> Upstreams \cup {NoUpstream}]]
    BY <1>6, <2>1 DEF StickTo, Stick
  <2> QED
    BY <1>6, <2>2 DEF StickTo
<1>7. ASSUME NEW c \in Conns, Handle(c), ~ChooseFreely(c), ~ChooseFirst(c), ~StickTo(c)
      PROVE  UNCHANGED selectionVars
  BY <1>7 DEF Handle, Arrives, ArriveDirect, ArriveAlways, ArriveChecked, ArriveMalformed, ArriveLate, ChooseStuck,
              TakePooled, PoolDials, DialUpstream, DialFails, Close, LeadsTo
<1>8. CASE InitService \/ Background \/ CheckHosts \/ UNCHANGED vars
  BY <1>1, <1>8 DEF InitService, Background, CheckHosts, vars
<1> QED
  BY <1>1, <1>2, <1>3, <1>4, <1>5, <1>6, <1>7, <1>8 DEF Next

-----------------------------------------------------------------------------
(* The pools: whatever is dialled for a pool leads to the pool's address   *)
(* or to the last one.                                                     *)
LEMMA PoolStep ==
  ASSUME TypeOK, PoolInv, HandlerInv, [Next]_vars
  PROVE  PoolTypeOK' /\ PoolInv'
<1> USE PoolAssumption, OutboundAssumption
<1> USE DEF TypeOK, PoolTypeOK, PoolInv, DialsSomewhere, PoolContents
<1>1. ASSUME UNCHANGED poolVars PROVE PoolTypeOK' /\ PoolInv'
  BY <1>1 DEF poolVars
<1>2. ASSUME Restart PROVE PoolTypeOK' /\ PoolInv'
  BY <1>2 DEF Restart, ForgetPools
<1>3. ASSUME InitService, HasUpstreams PROVE PoolTypeOK' /\ PoolInv'
  <2> DEFINE addresses == {upstreams[i] : i \in DOMAIN upstreams}
  <2>1. upstreams \in Seq(Addresses) /\ Len(upstreams) \in 1..Len(upstreams)
    BY <1>3, SelectionAssumption DEF HasUpstreams, SelectionTypeOK
  <2>2. /\ addresses \subseteq Addresses
        /\ upstreams[Len(upstreams)] \in Addresses
    BY <2>1
  <2>3. PICK filled \in [addresses -> 0..InitialCap] :
          /\ pools' = [a \in Addresses |->
                         IF a \in addresses THEN Dialled(a, filled[a]) ELSE <<>>]
          /\ fillers' = {a \in addresses : filled[a] = InitialCap}
    BY <1>3 DEF InitService, NewOutPool
  <2>4. /\ pooled' = addresses /\ probed' \in addresses
        /\ last' = upstreams[Len(upstreams)]
    BY <1>3 DEF InitService, NewOutPool
  <2>5. \A a \in Addresses :
          /\ pools'[a] \in Seq(Addresses) /\ Len(pools'[a]) <= InitialCap
          /\ \A i \in 1..Len(pools'[a]) : pools'[a][i] = a
    <3> SUFFICES ASSUME NEW a \in Addresses
                 PROVE  /\ pools'[a] \in Seq(Addresses) /\ Len(pools'[a]) <= InitialCap
                        /\ \A i \in 1..Len(pools'[a]) : pools'[a][i] = a
      OBVIOUS
    <3>1. CASE a \in addresses
      <4>1. pools'[a] = Dialled(a, filled[a]) /\ filled[a] \in 0..InitialCap
        BY <2>3, <3>1
      <4>2. filled[a] \in Nat /\ filled[a] <= InitialCap
        BY <4>1
      <4>3. /\ Dialled(a, filled[a]) \in Seq(Addresses) /\ Len(Dialled(a, filled[a])) = filled[a]
            /\ \A i \in 1..filled[a] : Dialled(a, filled[a])[i] = a
        BY <4>2, DialledSeq
      <4> QED
        BY <4>1, <4>2, <4>3
    <3>2. CASE a \notin addresses
      BY <2>3, <3>2
    <3> QED
      BY <3>1, <3>2
  <2>6. pools' \in [Addresses -> Seq(Addresses)]
    BY <2>3, <2>5
  <2> QED
    BY <2>2, <2>3, <2>4, <2>5, <2>6
<1>4. ASSUME NEW a \in Addresses, Fill(a) PROVE PoolTypeOK' /\ PoolInv'
  <2>1. PICK n \in 1..Room(a) : pools' = [pools EXCEPT ![a] = @ \o Dialled(last, n)]
    BY <1>4 DEF Fill
  <2>2. last \in Addresses
    BY <1>4 DEF Fill, NeedsFill
  <2>3. n \in Nat /\ Len(pools[a]) + n <= InitialCap
    BY <2>1 DEF Room
  <2>4. /\ Dialled(last, n) \in Seq(Addresses) /\ Len(Dialled(last, n)) = n
        /\ \A i \in 1..n : Dialled(last, n)[i] = last
    BY <2>2, <2>3, DialledSeq
  <2>5. /\ pools'[a] \in Seq(Addresses) /\ Len(pools'[a]) <= InitialCap
        /\ \A i \in 1..Len(pools'[a]) : pools'[a][i] \in {a, last}
    BY <2>1, <2>3, <2>4
  <2>6. UNCHANGED <<pooled, fillers, last, probed>>
    BY <1>4 DEF Fill
  <2>7. \A b \in Addresses \ {a} : pools'[b] = pools[b]
    BY <2>1
  <2>8. pools' \in [Addresses -> Seq(Addresses)]
    BY <2>1, <2>5
  <2> QED
    BY <2>5, <2>6, <2>7, <2>8
<1>5. ASSUME Probe PROVE PoolTypeOK' /\ PoolInv'
  <2>1. probed \in Addresses /\ probed' = NoAddress /\ UNCHANGED <<pooled, fillers, last>>
    BY <1>5 DEF Probe
  <2>2. CASE UNCHANGED pools
    BY <2>1, <2>2
  <2>3. CASE pools' = [pools EXCEPT ![probed] = <<>>]
    <3>1. pools'[probed] = <<>> /\ \A a \in Addresses \ {probed} : pools'[a] = pools[a]
      BY <2>1, <2>3
    <3>2. pools' \in [Addresses -> Seq(Addresses)]
      BY <2>1, <2>3
    <3>3. \A a \in Addresses :
            /\ Len(pools'[a]) <= InitialCap
            /\ \A i \in 1..Len(pools'[a]) : pools'[a][i] \in {a, last}
      <4>1. Len(pools'[probed]) = 0 /\ 1..Len(pools'[probed]) = {}
        BY <3>1
      <4>2. \A a \in Addresses \ {probed} : pools'[a] = pools[a] /\ Len(pools[a]) <= InitialCap
        BY <3>1
      <4> SUFFICES ASSUME NEW a \in Addresses
                   PROVE  /\ Len(pools'[a]) <= InitialCap
                          /\ \A i \in 1..Len(pools'[a]) : pools'[a][i] \in {a, last}
        OBVIOUS
      <4>4. CASE a = probed
        BY <4>1, <4>4
      <4>5. CASE a # probed
        <5>1. pools'[a] = pools[a]
          BY <4>2, <4>5
        <5> QED
          BY <5>1
      <4> QED
        BY <4>4, <4>5
    <3> QED
      BY <2>1, <3>2, <3>3
  <2> QED
    BY <1>5, <2>2, <2>3 DEF Probe
<1>6. ASSUME NEW c \in Conns, TakePooled(c) PROVE PoolTypeOK' /\ PoolInv'
  <2> DEFINE a == chosen[c]
  <2>1. /\ a \in Addresses /\ pools[a] # <<>> /\ pools[a] \in Seq(Addresses)
        /\ pools' = [pools EXCEPT ![a] = Tail(@)]
        /\ UNCHANGED <<pooled, fillers, last, probed>>
    BY <1>6 DEF TakePooled, Pooled, Take, HandlerInv, ConnOK
  <2>2. /\ Tail(pools[a]) \in Seq(Addresses) /\ Len(Tail(pools[a])) = Len(pools[a]) - 1
        /\ \A i \in 1..Len(Tail(pools[a])) : Tail(pools[a])[i] = pools[a][i + 1]
    BY <2>1
  <2>3. /\ pools'[a] \in Seq(Addresses) /\ Len(pools'[a]) <= InitialCap
        /\ \A i \in 1..Len(pools'[a]) : pools'[a][i] \in {a, last}
    BY <2>1, <2>2
  <2> QED
    BY <2>1, <2>3
<1>7. ASSUME NEW c \in Conns, Handle(c), ~TakePooled(c) PROVE UNCHANGED poolVars
  BY <1>7 DEF Handle, Arrives, ArriveDirect, ArriveAlways, ArriveChecked, ArriveMalformed, ArriveLate, Choose,
              ChooseFreely, ChooseFirst, ChooseStuck, StickTo, PoolDials, DialUpstream, DialFails,
              Close
<1>8. ASSUME Background PROVE PoolTypeOK' /\ PoolInv'
  BY <1>4, <1>5, <1>8 DEF Background
<1>9. CASE (InitService /\ ~HasUpstreams) \/ CheckHosts \/ ChangeUser \/ UNCHANGED vars
  BY <1>1, <1>9 DEF InitService, CheckHosts, ChangeUser, vars
<1>10. ASSUME NEW list \in Lists, Configure(list) PROVE UNCHANGED poolVars
  BY <1>10 DEF Configure
<1> QED
  BY <1>1, <1>2, <1>3, <1>6, <1>7, <1>8, <1>9, <1>10 DEF Next

-----------------------------------------------------------------------------
(* The checker and the connections.                                        *)
LEMMA CheckerStep ==
  ASSUME TypeOK, [Next]_vars
  PROVE  CheckerTypeOK'
<1> USE CheckerAssumption DEF TypeOK, CheckerTypeOK, Counts
<1>1. ASSUME UNCHANGED checkerVars PROVE CheckerTypeOK'
  BY <1>1 DEF checkerVars
<1>2. NoCheck \in [busy : BOOLEAN, host : Hosts, seen : Counts]
  <2>1. (CHOOSE h \in Hosts : TRUE) \in Hosts
    OBVIOUS
  <2> QED
    BY <2>1 DEF NoCheck, Unknown
<1>3. ASSUME Restart PROVE CheckerTypeOK'
  BY <1>2, <1>3 DEF Restart, ForgetChecker, Unknown
<1>4. ASSUME InitService PROVE CheckerTypeOK'
  BY <1>4 DEF InitService
<1>5. ASSUME NEW k \in Checks, NEW h \in Hosts, StartCheck(k, h) PROVE CheckerTypeOK'
  <2>1. [busy |-> TRUE, host |-> h, seen |-> item[h]] \in [busy : BOOLEAN, host : Hosts, seen : Counts]
    OBVIOUS
  <2> QED
    BY <1>5, <2>1 DEF StartCheck
<1>6. ASSUME NEW k \in Checks, NEW reached \in BOOLEAN, FinishCheck(k, reached) PROVE CheckerTypeOK'
  <2>1. Counted(check[k].seen, reached) \in Counts
    BY DEF Counted
  <2> QED
    BY <1>2, <1>6, <2>1 DEF FinishCheck
<1>7. ASSUME NEW c \in Conns, ArriveChecked(c) PROVE CheckerTypeOK'
  <2>1. PICK h \in Hosts : /\ item' = Added(h) \/ item' = item
                           /\ UNCHANGED <<checker, check>>
    BY <1>7 DEF ArriveChecked, Arrives
  <2>2. Added(h) \in [Hosts -> Counts]
    BY DEF Added, New
  <2> QED
    BY <2>1, <2>2
<1>8. ASSUME NEW c \in Conns, Handle(c), ~ArriveChecked(c) PROVE UNCHANGED checkerVars
  BY <1>8 DEF Handle, checkerVars, Arrives, ArriveDirect, ArriveAlways, ArriveMalformed, ArriveLate, Choose,
              ChooseFreely, ChooseFirst, ChooseStuck, StickTo, LeadsTo, TakePooled, PoolDials,
              DialUpstream, DialFails, Close
<1>9. CASE CheckHosts
  BY <1>5, <1>6, <1>9 DEF CheckHosts
<1>10. CASE Background \/ ChangeUser \/ UNCHANGED vars
  BY <1>1, <1>10 DEF Background, ChangeUser, vars
<1>11. ASSUME NEW list \in Lists, Configure(list) PROVE UNCHANGED checkerVars
  BY <1>11 DEF Configure
<1> QED
  BY <1>1, <1>3, <1>4, <1>7, <1>8, <1>9, <1>10, <1>11 DEF Next

(* The steps that are not a connection's leave the connections alone, or   *)
(* find or make them all closed.                                           *)
LEMMA OtherStep ==
  ASSUME OutboundInv, [Next]_vars, ~\E c \in Conns : Handle(c)
  PROVE  /\ HandlerInv' /\ ConnTypeOK'
         /\ UNCHANGED <<proxy, always>> /\ ready' \in BOOLEAN /\ moved' \subseteq Sessions
<1> USE DEF OutboundInv, TypeOK, ConnTypeOK
<1>1. CASE Restart
  <2>1. ConnTypeOK'
    BY <1>1 DEF Restart, ForgetConns, Stages
  <2>2. HandlerInv'
    BY <1>1 DEF Restart, ForgetConns, ForgetChecker, ForgetPools, HandlerInv, NoneBeforeReady,
               NoPoolsWithoutChecker, ConnOK
  <2> QED
    BY <1>1, <2>1, <2>2 DEF Restart
<1>2. CASE InitService
  <2>1. /\ UNCHANGED <<proxy, always, connVars, moved>>
        /\ ready' = TRUE
    BY <1>2 DEF InitService, connVars
  <2>2. \A c \in Conns : stage[c] = "closed" /\ chosen[c] = NoUpstream /\ leads[c] = NoUpstream
    BY <1>2 DEF InitService, HandlerInv, NoneBeforeReady, ConnOK
  <2>3. NoPoolsWithoutChecker'
    BY <1>2 DEF InitService, HandlerInv, NoPoolsWithoutChecker, poolVars
  <2>4. HandlerInv'
    BY <2>1, <2>2, <2>3 DEF HandlerInv, NoneBeforeReady, ConnOK, connVars
  <2> QED
    BY <2>1, <2>4 DEF connVars
<1>3. ASSUME UNCHANGED <<connVars, ready, always, checker, pooled, last>>, HasUpstreams => HasUpstreams'
      PROVE  HandlerInv'
  BY <1>3 DEF connVars, HandlerInv, NoneBeforeReady, NoPoolsWithoutChecker, ConnOK
<1>4. CASE ChangeUser \/ Background \/ CheckHosts \/ UNCHANGED vars
          \/ \E list \in Lists : Configure(list)
  <2>1. UNCHANGED <<connVars, ready, always, proxy, checker, pooled, last>>
    BY <1>4 DEF ChangeUser, Background, CheckHosts, Configure, Fill, Probe, StartCheck, FinishCheck,
                vars, poolVars, checkerVars
  <2>2. moved' \subseteq Sessions
    BY <1>4 DEF ChangeUser, InUse, Background, CheckHosts, Configure, vars
  <2>3. HasUpstreams => HasUpstreams'
    BY <1>4, SelectionAssumption
    DEF ChangeUser, Forget, Login, Refile, Background, CheckHosts, Configure, SetUpstreams,
        HasUpstreams, vars, selectionVars
  <2> QED
    BY <1>3, <2>1, <2>2, <2>3 DEF connVars
<1> QED
  BY <1>1, <1>2, <1>4 DEF Next

-----------------------------------------------------------------------------
(* The steps of a connection: what it leaves alone, the types, and what    *)
(* holds of the connection afterwards.                                     *)
Elsewhere(c) ==
    /\ UNCHANGED <<proxy, always, ready, checker, pooled, last, upstreams>>
    /\ \A d \in Conns \ {c} :
          /\ stage'[d] = stage[d] /\ session'[d] = session[d] /\ holder'[d] = holder[d]
          /\ d \in malformed' <=> d \in malformed
          /\ chosen'[d] = chosen[d] /\ leads'[d] = leads[d]

LEMMA HeadOfPool ==
  ASSUME TypeOK, PoolInv, NEW a \in Addresses, Pooled(a)
  PROVE  Head(pools[a]) \in Addresses /\ Head(pools[a]) \in {a, last}
<1>1. pools[a] \in Seq(Addresses) /\ pools[a] # <<>>
  BY DEF TypeOK, PoolTypeOK, Pooled
<1>2. Head(pools[a]) = pools[a][1] /\ 1 \in 1..Len(pools[a])
  BY <1>1
<1> QED
  BY <1>1, <1>2 DEF PoolInv, PoolContents

LEMMA HandlerFrame ==
  ASSUME OutboundInv, NEW c \in Conns, Handle(c)
  PROVE  Elsewhere(c)
<1> USE DEF OutboundInv, TypeOK, Elsewhere, Goes, selectionVars, poolVars, checkerVars
<1>1. CASE ArriveDirect(c)
  BY <1>1 DEF ArriveDirect, Arrives
<1>2. CASE ArriveAlways(c)
  BY <1>2 DEF ArriveAlways, Arrives
<1>3. CASE ArriveChecked(c)
  BY <1>3 DEF ArriveChecked, Arrives
<1>4. CASE ArriveLate(c)
  BY <1>4 DEF ArriveLate, Arrives
<1>14. CASE ArriveMalformed(c)
  BY <1>14 DEF ArriveMalformed, Arrives
<1>5. CASE ChooseFreely(c)
  BY <1>5 DEF ChooseFreely, Choose
<1>6. CASE ChooseStuck(c)
  BY <1>6 DEF ChooseStuck
<1>7. CASE ChooseFirst(c)
  BY <1>7 DEF ChooseFirst, Choose
<1>8. CASE StickTo(c)
  BY <1>8 DEF StickTo
<1>9. CASE TakePooled(c)
  BY <1>9 DEF TakePooled, LeadsTo, Pooled, Take
<1>10. CASE PoolDials(c)
  BY <1>10 DEF PoolDials, LeadsTo, Empty
<1>11. CASE DialUpstream(c)
  BY <1>11 DEF DialUpstream, LeadsTo, DialTarget, Pooled
<1>12. CASE DialFails(c)
  BY <1>12 DEF DialFails
<1>13. CASE Close(c)
  BY <1>13 DEF Close
<1> QED
  BY <1>1, <1>2, <1>3, <1>4, <1>5, <1>6, <1>7, <1>8, <1>9, <1>10, <1>11, <1>12, <1>13, <1>14 DEF Handle

LEMMA HandlerTyped ==
  ASSUME OutboundInv, NEW c \in Conns, Handle(c)
  PROVE  ConnTypeOK' /\ moved' \subseteq Sessions
<1> USE SelectionAssumption, OutboundAssumption
<1>0. ConnOK(c) /\ SelectionTypeOK
  BY DEF OutboundInv, TypeOK, HandlerInv
<1> USE DEF OutboundInv, TypeOK, ConnTypeOK, Goes, Stages
<1>1. CASE ArriveDirect(c)
  BY <1>1 DEF ArriveDirect, Arrives
<1>2. CASE ArriveAlways(c)
  BY <1>2 DEF ArriveAlways, Arrives
<1>3. CASE ArriveChecked(c)
  BY <1>3 DEF ArriveChecked, Arrives
<1>4. CASE ArriveLate(c)
  BY <1>4 DEF ArriveLate, Arrives
<1>14. CASE ArriveMalformed(c)
  BY <1>14 DEF ArriveMalformed, Arrives
<1>5. CASE ChooseFreely(c)
  BY <1>0, <1>5, SelectedInList DEF ChooseFreely, Choose, ConnOK
<1>6. CASE ChooseStuck(c)
  BY <1>0, <1>6 DEF ChooseStuck, SelectionTypeOK
<1>7. CASE ChooseFirst(c)
  BY <1>0, <1>7, SelectedInList DEF ChooseFirst, Choose, ConnOK, SelectionTypeOK
<1>8. CASE StickTo(c)
  BY <1>0, <1>8 DEF StickTo, ConnOK
<1>9. CASE TakePooled(c)
  <2>1. chosen[c] \in Addresses
    BY <1>9 DEF TakePooled, Pooled, PoolTypeOK
  <2> QED
    BY <1>9, <2>1, HeadOfPool DEF TakePooled, LeadsTo
<1>10. CASE PoolDials(c)
  BY <1>10 DEF PoolDials, LeadsTo, Empty, PoolInv, DialsSomewhere
<1>11. CASE DialUpstream(c)
  BY <1>11 DEF DialUpstream, LeadsTo, DialTarget, Pooled
<1>12. CASE DialFails(c)
  BY <1>12 DEF DialFails
<1>13. CASE Close(c)
  BY <1>13 DEF Close
<1> QED
  BY <1>1, <1>2, <1>3, <1>4, <1>5, <1>6, <1>7, <1>8, <1>9, <1>10, <1>11, <1>12, <1>13, <1>14 DEF Handle

LEMMA HandlerOK ==
  ASSUME OutboundInv, NEW c \in Conns, Handle(c)
  PROVE  ConnOK(c)'
<1> USE SelectionAssumption, OutboundAssumption
<1> USE DEF OutboundInv, TypeOK, Goes, Stages
<1>0. ConnOK(c) /\ SelectionTypeOK
  BY DEF HandlerInv
<1> USE DEF ConnOK
<1>1. CASE ArriveDirect(c)
  BY <1>0, <1>1 DEF ArriveDirect, Arrives, HasUpstreams, selectionVars, poolVars, checkerVars
<1>2. CASE ArriveAlways(c)
  BY <1>0, <1>2 DEF ArriveAlways, Arrives, HasUpstreams, selectionVars, poolVars, checkerVars
<1>3. CASE ArriveChecked(c)
  BY <1>0, <1>3 DEF ArriveChecked, Arrives, HasUpstreams, selectionVars, poolVars, checkerVars
<1>4. CASE ArriveLate(c)
  BY <1>0, <1>4 DEF ArriveLate, Arrives, HasUpstreams, selectionVars, poolVars, checkerVars
<1>14. CASE ArriveMalformed(c)
  BY <1>0, <1>14 DEF ArriveMalformed, Arrives, HasUpstreams, selectionVars, poolVars, checkerVars
<1>5. CASE ChooseFreely(c)
  BY <1>0, <1>5, SelectedInList DEF ChooseFreely, Choose, HasUpstreams, poolVars, checkerVars
<1>6. CASE ChooseStuck(c)
  BY <1>0, <1>6 DEF ChooseStuck, Sticks, HasUpstreams, selectionVars, SelectionTypeOK, poolVars, checkerVars
<1>7. CASE ChooseFirst(c)
  BY <1>0, <1>7, SelectedInList
  DEF ChooseFirst, Choose, HasUpstreams, SelectionTypeOK, poolVars, checkerVars
<1>8. CASE StickTo(c)
  BY <1>0, <1>8 DEF StickTo, poolVars, checkerVars
<1>9. CASE TakePooled(c)
  <2>1. chosen[c] \in Addresses
    BY <1>9 DEF TakePooled, Pooled, PoolTypeOK
  <2> QED
    BY <1>0, <1>9, <2>1, HeadOfPool DEF TakePooled, Pooled, Take, LeadsTo, checkerVars
<1>10. CASE PoolDials(c)
  BY <1>0, <1>10 DEF PoolDials, LeadsTo, Empty, poolVars, checkerVars
<1>11. CASE DialUpstream(c)
  BY <1>0, <1>11 DEF DialUpstream, LeadsTo, DialTarget, Pooled, poolVars, checkerVars
<1>12. CASE DialFails(c)
  BY <1>0, <1>12 DEF DialFails, poolVars, checkerVars
<1>13. CASE Close(c)
  BY <1>0, <1>13 DEF Close, poolVars, checkerVars
<1> QED
  BY <1>1, <1>2, <1>3, <1>4, <1>5, <1>6, <1>7, <1>8, <1>9, <1>10, <1>11, <1>12, <1>13, <1>14 DEF Handle

-----------------------------------------------------------------------------
LEMMA HandlerNext == ASSUME OutboundInv, NEW c \in Conns, Handle(c) PROVE HandlerInv'
<1>1. Elsewhere(c) /\ ConnOK(c)'
  BY HandlerFrame, HandlerOK
<1>2. ready
  BY DEF OutboundInv, HandlerInv, NoneBeforeReady, Handle, Arrives, ArriveDirect, ArriveAlways,
         ArriveChecked, ArriveMalformed, ArriveLate, Choose, ChooseFreely, ChooseFirst, ChooseStuck, StickTo,
         TakePooled, PoolDials, DialUpstream, DialFails, Close
<1>3. \A d \in Conns \ {c} : ConnOK(d)'
  BY <1>1 DEF OutboundInv, HandlerInv, Elsewhere, ConnOK, HasUpstreams
<1> QED
  BY <1>1, <1>2, <1>3 DEF OutboundInv, HandlerInv, NoneBeforeReady, NoPoolsWithoutChecker, Elsewhere

LEMMA OutboundStep == ASSUME OutboundInv, [Next]_vars PROVE OutboundInv'
<1>1. SelectionTypeOK' /\ PoolTypeOK' /\ PoolInv' /\ CheckerTypeOK'
  BY SelectionStep, PoolStep, CheckerStep DEF OutboundInv
<1>2. CASE \E c \in Conns : Handle(c)
  BY <1>1, <1>2, HandlerNext, HandlerTyped, HandlerFrame
  DEF OutboundInv, TypeOK, ConnTypeOK, Elsewhere
<1>3. CASE ~\E c \in Conns : Handle(c)
  BY <1>1, <1>3, OtherStep DEF OutboundInv, TypeOK, ConnTypeOK
<1> QED
  BY <1>2, <1>3

(* Every reachable state of a worker's outgoing side is well typed; no     *)
(* pool ever holds more than it is filled to.                              *)
THEOREM TypeCorrect == Spec => []TypeOK
<1>1. OutboundInv => TypeOK
  BY DEF OutboundInv
<1> QED
  BY <1>1, InitOutbound, OutboundStep, PTL DEF Spec

(* A connection leads to another upstream than the one chosen for it only  *)
(* where a pool dialled, and then to the last address of the first list.   *)
THEOREM Misrouting == Spec => []MisroutedOnlyByPool
<1>1. OutboundInv => MisroutedOnlyByPool
  BY DEF OutboundInv, HandlerInv, ConnOK, MisroutedOnlyByPool
<1> QED
  BY <1>1, InitOutbound, OutboundStep, PTL DEF Spec

(* A proxy without --always that listens before the worker is configured   *)
(* uses upstreams only for addresses it cannot parse, for the rest of its  *)
(* life, and dials the chosen one itself: it has no pools.                 *)
THEOREM LateProxy == Spec => []LateProxyServesOnlyMalformed
<1>1. ASSUME OutboundInv, ready, checker = "none", ~always, NEW c \in Conns, chosen[c] # NoUpstream
      PROVE  c \in malformed /\ leads[c] \in {NoUpstream, chosen[c]}
  <2>1. ConnOK(c) /\ pooled = {}
    BY <1>1 DEF OutboundInv, HandlerInv, NoPoolsWithoutChecker
  <2> QED
    BY <1>1, <2>1 DEF ConnOK
<1>2. OutboundInv => LateProxyServesOnlyMalformed
  BY <1>1 DEF LateProxyServesOnlyMalformed
<1> QED
  BY <1>2, InitOutbound, OutboundStep, PTL DEF Spec

-----------------------------------------------------------------------------
(* Sessions that have not moved: the entry is still the object in which a  *)
(* connection looked its session up, and remembers what was chosen there.  *)
SessionOK(c) ==
    \A s \in Sessions : session[c] = s /\ s \notin moved =>
        /\ entry # NoUser
        /\ stage[c] = "stick" => holder[c] = entry
        /\ HasChosen(c) => sessions[entry][s] = chosen[c]

SessionInv == \A c \in Conns : SessionOK(c)

LEMMA ArrivalSession ==
  ASSUME OutboundInv, SessionInv, NEW c \in Conns, NEW to \in {"relay", "choose", "panicked"},
         Arrives(c, to)
  PROVE  SessionInv'
<1>1. /\ UNCHANGED <<entry, sessions, moved, holder, chosen>> /\ entry # NoUser
      /\ stage' = [stage EXCEPT ![c] = to] /\ stage[c] = "closed"
      /\ \A d \in Conns \ {c} : session'[d] = session[d]
  BY DEF Arrives, Goes, selectionVars, OutboundInv, TypeOK
<1>2. chosen[c] = NoUpstream /\ stage'[c] = to
  BY <1>1 DEF OutboundInv, HandlerInv, ConnOK, TypeOK
<1>3. SessionOK(c)'
  BY <1>1, <1>2 DEF SessionOK, HasChosen
<1>4. \A d \in Conns \ {c} : SessionOK(d)'
  BY <1>1 DEF SessionInv, SessionOK, HasChosen, OutboundInv, TypeOK
<1> QED
  BY <1>3, <1>4 DEF SessionInv

LEMMA SessionHandler ==
  ASSUME OutboundInv, SessionInv, NEW c \in Conns, Handle(c)
  PROVE  SessionInv'
<1> USE SelectionAssumption DEF OutboundInv, TypeOK
<1>0. Elsewhere(c) /\ ConnOK(c) /\ SelectionTypeOK /\ ConnTypeOK'
  BY HandlerFrame, HandlerTyped DEF HandlerInv
<1>1. CASE ArriveDirect(c) \/ ArriveAlways(c) \/ ArriveChecked(c) \/ ArriveMalformed(c)
          \/ ArriveLate(c)
  BY <1>1, ArrivalSession DEF ArriveDirect, ArriveAlways, ArriveChecked, ArriveMalformed, ArriveLate
<1>2. ASSUME UNCHANGED <<entry, sessions, moved>>, SessionOK(c)'
      PROVE  SessionInv'
  BY <1>0, <1>2 DEF SessionInv, SessionOK, HasChosen, Elsewhere
<1>3. CASE ChooseFreely(c)
  <2>1. UNCHANGED <<entry, sessions, moved, session>> /\ (session[c] = NoSession \/ entry = NoUser)
    BY <1>3 DEF ChooseFreely, Choose, Advance
  <2> QED
    BY <1>2, <2>1 DEF SessionInv, SessionOK
<1>4. CASE ChooseStuck(c)
  <2>1. /\ UNCHANGED <<entry, sessions, moved, session>> /\ entry # NoUser
        /\ chosen'[c] = sessions[entry][session[c]] /\ stage'[c] = "get"
    BY <1>4 DEF ChooseStuck, Goes, selectionVars
  <2> QED
    BY <1>2, <2>1 DEF SessionOK
<1>5. CASE ChooseFirst(c)
  <2>1. /\ UNCHANGED <<entry, sessions, moved, session>> /\ entry # NoUser
        /\ holder'[c] = entry /\ stage'[c] = "stick"
    BY <1>5 DEF ChooseFirst, Choose, Goes, Advance
  <2> QED
    BY <1>2, <2>1 DEF SessionOK, HasChosen
<1>6. CASE StickTo(c)
  <2> DEFINE t == session[c]
  <2>1. /\ UNCHANGED <<entry, session, chosen>>
        /\ t \in Sessions /\ holder[c] \in Users /\ stage[c] = "stick" /\ stage'[c] = "get"
        /\ sessions' = [sessions EXCEPT ![holder[c]][t] = chosen[c]]
        /\ moved' = IF Sticks(holder[c], t) THEN moved \cup {t} ELSE moved
    BY <1>0, <1>6 DEF StickTo, Stick, Goes, ConnOK
  <2>2. ASSUME t \notin moved'
        PROVE  /\ holder[c] = entry /\ entry # NoUser /\ sessions[entry][t] = NoUpstream
               /\ sessions'[entry][t] = chosen[c]
    <3>1. t \notin moved /\ ~Sticks(holder[c], t)
      BY <2>1, <2>2
    <3>2. holder[c] = entry /\ entry # NoUser
      BY <2>1, <3>1 DEF SessionInv, SessionOK
    <3> QED
      BY <1>0, <2>1, <3>1, <3>2 DEF Sticks, SelectionTypeOK
  <2>3. SessionOK(c)'
    BY <2>1, <2>2 DEF SessionOK, HasChosen
  <2>4. ASSUME NEW d \in Conns \ {c}, NEW s \in Sessions, session[d] = s, s \notin moved'
        PROVE  /\ entry # NoUser
               /\ stage[d] = "stick" => holder[d] = entry
               /\ HasChosen(d) => sessions'[entry][s] = chosen[d]
    <3>1. /\ entry # NoUser /\ s \notin moved
          /\ stage[d] = "stick" => holder[d] = entry
          /\ HasChosen(d) => sessions[entry][s] = chosen[d]
      BY <2>1, <2>4 DEF SessionInv, SessionOK
    <3>2. CASE s = t
      <4>1. ~HasChosen(d)
        BY <2>2, <2>4, <3>1, <3>2 DEF HasChosen
      <4> QED
        BY <3>1, <4>1
    <3>3. CASE s # t
      <4>1. sessions'[entry][s] = sessions[entry][s]
        BY <1>0, <2>1, <3>1, <3>3 DEF SelectionTypeOK
      <4> QED
        BY <3>1, <4>1
    <3> QED
      BY <3>2, <3>3
  <2>5. \A d \in Conns \ {c} : SessionOK(d)'
    BY <1>0, <2>1, <2>4 DEF SessionOK, HasChosen, Elsewhere
  <2> QED
    BY <2>3, <2>5 DEF SessionInv
<1>7. ASSUME UNCHANGED <<selectionVars, moved, session, chosen>>, stage[c] = "get",
             stage'[c] \in {"relay", "panicked"}
      PROVE  SessionInv'
  <2>1. HasChosen(c)' => HasChosen(c)
    BY <1>7 DEF HasChosen
  <2> QED
    BY <1>2, <1>7, <2>1 DEF SessionInv, SessionOK, selectionVars
<1>8. CASE TakePooled(c) \/ PoolDials(c) \/ DialUpstream(c)
  <2>1. UNCHANGED <<selectionVars, moved, session, chosen>> /\ stage[c] = "get"
    BY <1>8 DEF TakePooled, PoolDials, DialUpstream, LeadsTo
  <2>2. stage'[c] = "relay"
    BY <1>8 DEF TakePooled, PoolDials, DialUpstream, LeadsTo, Goes, ConnTypeOK
  <2> QED
    BY <1>7, <2>1, <2>2
<1>9. ASSUME UNCHANGED <<selectionVars, moved>>, session'[c] = NoSession
      PROVE  SessionInv'
  BY <1>2, <1>9 DEF SessionOK, selectionVars
<1>10. CASE DialFails(c)
  <2>1. CASE proxy = "http"
    BY <1>7, <1>10, <2>1 DEF DialFails, Goes
  <2>2. CASE proxy # "http"
    BY <1>9, <1>10, <2>2 DEF DialFails
  <2> QED
    BY <2>1, <2>2
<1>11. CASE Close(c)
  BY <1>9, <1>11 DEF Close
<1> QED
  BY <1>1, <1>3, <1>4, <1>5, <1>6, <1>8, <1>10, <1>11 DEF Handle

LEMMA SessionStep ==
  ASSUME OutboundInv, SessionInv, [Next]_vars
  PROVE  SessionInv'
<1>1. CASE \E c \in Conns : Handle(c)
  BY <1>1, SessionHandler
<1>2. ASSUME UNCHANGED <<connVars, entry, sessions, moved>> PROVE SessionInv'
  BY <1>2 DEF connVars, SessionInv, SessionOK, HasChosen
<1>3. CASE ChangeUser
  <2>1. moved' = moved \cup InUse /\ UNCHANGED session
    BY <1>3 DEF ChangeUser, connVars
  <2>2. \A c \in Conns, s \in Sessions : session[c] = s => s \in moved'
    BY <2>1 DEF InUse
  <2> QED
    BY <2>1, <2>2 DEF SessionInv, SessionOK
<1>4. CASE Restart
  BY <1>4, SelectionAssumption DEF Restart, ForgetConns, SessionInv, SessionOK
<1>5. CASE InitService \/ Background \/ CheckHosts \/ UNCHANGED vars
          \/ \E list \in Lists : Configure(list)
  BY <1>2, <1>5 DEF InitService, Background, CheckHosts, Configure, SetUpstreams, selectionVars, vars
<1> QED
  BY <1>1, <1>3, <1>4, <1>5 DEF Next

-----------------------------------------------------------------------------
(* A check is of an item in the map that was not settled when it began.    *)
CheckInv ==
    /\ \A h \in Hosts : ~item[h].known => item[h] = Unknown
    /\ \A k \in Checks : check[k].busy => check[k].seen.known /\ ~Settled(check[k].seen)

LEMMA CheckStep ==
  ASSUME OutboundInv, CheckInv, [Next]_vars
  PROVE  /\ CheckInv'
         /\ \A h \in Hosts : Settled(item[h]) /\ ~Settled(item'[h]) =>
               \/ Restart
               \/ \E k \in Checks : /\ check[k].busy /\ check[k].host = h
                                    /\ check[k].seen # item[h]
<1> DEFINE Overwritten(h) == \E k \in Checks : /\ check[k].busy /\ check[k].host = h
                                                /\ check[k].seen # item[h]
           Goal == CheckInv' /\ \A h \in Hosts : Settled(item[h]) /\ ~Settled(item'[h]) =>
                                                  Restart \/ Overwritten(h)
<1> USE CheckerAssumption
<1>0. item \in [Hosts -> Counts] /\ check \in [Checks -> [busy : BOOLEAN, host : Hosts, seen : Counts]]
  BY DEF OutboundInv, TypeOK, CheckerTypeOK
<1>1. ASSUME UNCHANGED <<item, check>> PROVE Goal
  BY <1>1 DEF CheckInv
<1>2. CASE Restart
  <2>1. CheckInv'
    BY <1>2 DEF Restart, ForgetChecker, CheckInv, NoCheck
  <2> QED
    BY <1>2, <2>1
<1>3. ASSUME NEW k \in Checks, NEW h \in Hosts, StartCheck(k, h) PROVE Goal
  BY <1>0, <1>3 DEF StartCheck, CheckInv
<1>4. ASSUME NEW k \in Checks, NEW reached \in BOOLEAN, FinishCheck(k, reached) PROVE Goal
  <2> DEFINE h == check[k].host
             seen == check[k].seen
  <2>1. /\ h \in Hosts /\ seen \in Counts /\ seen.known /\ ~Settled(seen) /\ check[k].busy
        /\ item' = [item EXCEPT ![h] = Counted(seen, reached)]
        /\ check' = [check EXCEPT ![k] = NoCheck]
    BY <1>0, <1>4 DEF FinishCheck, CheckInv
  <2>2. Counted(seen, reached).known
    BY <2>1 DEF Counted, Counts
  <2>3. CheckInv'
    BY <1>0, <2>1, <2>2 DEF CheckInv, NoCheck
  <2>4. ASSUME NEW g \in Hosts, Settled(item[g]), ~Settled(item'[g]) PROVE Overwritten(g)
    <3>1. g = h
      BY <1>0, <2>1, <2>4
    <3>2. seen # item[g]
      BY <2>1, <2>4
    <3> QED
      BY <2>1, <3>1, <3>2
  <2> QED
    BY <2>3, <2>4
<1>5. ASSUME NEW c \in Conns, ArriveChecked(c) PROVE Goal
  <2>1. PICK h \in Hosts : (item' = Added(h) \/ item' = item) /\ UNCHANGED check
    BY <1>5 DEF ArriveChecked, Arrives
  <2>2. CASE item' = Added(h) /\ ~item[h].known
    <3>1. ~Settled(item[h])
      BY <2>2, <1>0 DEF CheckInv, Unknown, Settled
    <3>2. item'[h] = New /\ \A g \in Hosts \ {h} : item'[g] = item[g]
      BY <2>2, <1>0 DEF Added
    <3> QED
      BY <2>1, <3>1, <3>2 DEF CheckInv, New
  <2>3. CASE item' = item \/ item[h].known
    <3>1. item' = item
      BY <1>0, <2>1, <2>3 DEF Added
    <3> QED
      BY <1>1, <2>1, <3>1
  <2> QED
    BY <2>1, <2>2, <2>3
<1>6. ASSUME NEW c \in Conns, Handle(c), ~ArriveChecked(c) PROVE UNCHANGED <<item, check>>
  BY <1>6 DEF Handle, checkerVars, Arrives, ArriveDirect, ArriveAlways, ArriveMalformed, ArriveLate, Choose,
              ChooseFreely, ChooseFirst, ChooseStuck, StickTo, LeadsTo, TakePooled, PoolDials,
              DialUpstream, DialFails, Close
<1>7. CASE CheckHosts
  BY <1>3, <1>4, <1>7 DEF CheckHosts
<1>8. CASE InitService \/ Background \/ ChangeUser \/ UNCHANGED vars
          \/ \E list \in Lists : Configure(list)
  BY <1>1, <1>8 DEF InitService, Background, ChangeUser, Configure, checkerVars, vars
<1> QED
  BY <1>1, <1>2, <1>5, <1>6, <1>7, <1>8 DEF Next

-----------------------------------------------------------------------------
(* A sticky session keeps its upstream, and the user's object remembers    *)
(* it, unless two first connections overlapped or the object changed.      *)
THEOREM SessionsStay == Spec => []SessionMovesOnlyByCause
<1>1. Init => SessionInv
  BY SelectionAssumption DEF Init, NoConns, SessionInv, SessionOK
<1>2. OutboundInv /\ SessionInv => SessionMovesOnlyByCause
  BY DEF SessionInv, SessionOK, SessionMovesOnlyByCause
<1> QED
  BY <1>1, <1>2, InitOutbound, OutboundStep, SessionStep, PTL DEF Spec

(* What settles a host is undone only by a restart or by a check that was  *)
(* overtaken by another one of the same host.                              *)
THEOREM HostsStaySettled == Spec => SettledUnlessOverwritten
<1>1. Init => CheckInv
  BY DEF Init, NoChecker, NoCheck, CheckInv
<1>2. OutboundInv /\ CheckInv /\ [Next]_vars =>
        \A h \in Hosts : Settled(item[h]) /\ ~Settled(item'[h]) =>
          \/ Restart
          \/ \E k \in Checks : check[k].busy /\ check[k].host = h /\ check[k].seen # item[h]
  BY CheckStep
<1> QED
  BY <1>1, <1>2, InitOutbound, OutboundStep, CheckStep, PTL DEF Spec, SettledUnlessOverwritten

-----------------------------------------------------------------------------
(* Round robin: arithmetic of positions.                                   *)
LEMMA Remainder ==
    ASSUME NEW n \in Nat \ {0}, NEW q \in Int, NEW r \in 0..(n - 1)
    PROVE  (n * q + r) % n = r
<1> DEFINE a == n * q + r
           p == a \div n
           s == a % n
<1>1. a \in Int /\ p \in Int /\ s \in 0..(n - 1) /\ a = n * p + s
  OBVIOUS
<1>2. n * p + s = n * q + r
  BY <1>1
<1> HIDE DEF a, p, s
<1>3. p < q + 1
  <2>1. p >= q + 1 => n * p >= n * q + n
    BY <1>1
  <2> QED
    BY <1>1, <1>2, <2>1
<1>4. q < p + 1
  <2>1. q >= p + 1 => n * q >= n * p + n
    BY <1>1
  <2> QED
    BY <1>1, <1>2, <2>1
<1>5. p = q
  BY <1>1, <1>3, <1>4
<1>6. s = r
  BY <1>1, <1>2, <1>5
<1> QED
  BY <1>6 DEF a, s

LEMMA NextRemainder ==
    ASSUME NEW n \in Nat \ {0}, NEW i \in Nat
    PROVE  (i + 1) % n = IF (i % n) = n - 1 THEN 0 ELSE (i % n) + 1
<1> DEFINE q == i \div n
           r == i % n
<1>1. q \in Int /\ r \in 0..(n - 1) /\ i = n * q + r
  OBVIOUS
<1> HIDE DEF q, r
<1>2. CASE r = n - 1
  <2>1. i + 1 = n * (q + 1) + 0
    BY <1>1, <1>2
  <2>2. (n * (q + 1) + 0) % n = 0
    BY <1>1, Remainder
  <2> QED
    BY <1>2, <2>1, <2>2 DEF r
<1>3. CASE r # n - 1
  <2>1. i + 1 = n * q + (r + 1) /\ r + 1 \in 0..(n - 1)
    BY <1>1, <1>3
  <2>2. (n * q + (r + 1)) % n = r + 1
    BY <1>1, <2>1, Remainder
  <2> QED
    BY <1>3, <2>1, <2>2 DEF r
<1> QED
  BY <1>2, <1>3

(* One selection later every upstream but the selected one is a turn       *)
(* nearer, and the selected one is last.                                   *)
LEMMA AdvanceTurns ==
    ASSUME SelectionTypeOK, HasUpstreams, Advance, index' # 0, UNCHANGED upstreams
    PROVE  \A k \in DOMAIN upstreams :
              Turns(k)' = IF k = Position THEN Len(upstreams) - 1 ELSE Turns(k) - 1
<1> DEFINE n == Len(upstreams)
<1>1. n \in Nat \ {0} /\ DOMAIN upstreams = 1..n
  BY SelectionAssumption DEF SelectionTypeOK, HasUpstreams
<1>2. index \in Nat /\ index' = index + 1
  BY SelectionAssumption DEF SelectionTypeOK, Advance
<1>3. index % n \in 0..(n - 1) /\ (index + 1) % n = IF (index % n) = n - 1 THEN 0 ELSE (index % n) + 1
  <2> HIDE DEF n
  <2>1. index % n \in 0..(n - 1)
    BY <1>1, <1>2
  <2> QED
    BY <1>1, <1>2, <2>1, NextRemainder
<1>4. Position = (index % n) + 1 /\ Position' = ((index + 1) % n) + 1 /\ Len(upstreams)' = n
  BY <1>2 DEF Position
<1> HIDE DEF n
<1>5. Position \in 1..n /\ Position' = IF Position = n THEN 1 ELSE Position + 1
  BY <1>1, <1>3, <1>4
<1>6. ASSUME NEW k \in 1..n
      PROVE  Turns(k)' = IF k = Position THEN n - 1 ELSE Turns(k) - 1
  <2>1. /\ Turns(k) = IF k >= Position THEN k - Position ELSE k - Position + n
        /\ Turns(k)' = IF k >= Position' THEN k - Position' ELSE k - Position' + n
    BY <1>4 DEF Turns, n
  <2> QED
    BY <1>1, <1>5, <1>6, <2>1
<1> QED
  BY <1>1, <1>6 DEF n

(* The upstreams of the list are chosen in turn, however the handlers      *)
(* interleave: a choice takes the upstream whose turn it is and brings     *)
(* every other one a turn nearer.                                          *)
THEOREM RoundRobin == Spec => EveryUpstreamHasItsTurn
<1>1. OutboundInv /\ [Next]_vars =>
        (index' \notin {index, 0} =>
          /\ \E c \in Conns : chosen' = [chosen EXCEPT ![c] = Selected]
          /\ \A k \in DOMAIN upstreams :
                Turns(k)' = IF k = Position THEN Len(upstreams) - 1 ELSE Turns(k) - 1)
  <2> SUFFICES ASSUME OutboundInv, [Next]_vars, index' # index, index' # 0
               PROVE  /\ \E c \in Conns : chosen' = [chosen EXCEPT ![c] = Selected]
                      /\ \A k \in DOMAIN upstreams :
                            Turns(k)' = IF k = Position THEN Len(upstreams) - 1 ELSE Turns(k) - 1
    OBVIOUS
  <2>1. ~(InitService \/ Restart \/ ChangeUser \/ Background \/ CheckHosts \/ UNCHANGED vars)
    BY DEF InitService, Restart, ForgetSelection, ChangeUser, Login, Forget, Refile, Background,
           CheckHosts, selectionVars, vars
  <2>2. \A list \in Lists : ~Configure(list)
    BY DEF Configure, SetUpstreams
  <2>3. PICK c \in Conns : Handle(c)
    BY <2>1, <2>2 DEF Next
  <2>4. ChooseFreely(c) \/ ChooseFirst(c)
    BY <2>3 DEF Handle, Arrives, ArriveDirect, ArriveAlways, ArriveChecked, ArriveMalformed, ArriveLate, ChooseStuck,
                StickTo, TakePooled, PoolDials, DialUpstream, DialFails, Close, LeadsTo, selectionVars
  <2>5. stage[c] = "choose"
    BY <2>4 DEF ChooseFreely, ChooseFirst
  <2>6. /\ HasUpstreams /\ Advance /\ UNCHANGED upstreams
        /\ chosen' = [chosen EXCEPT ![c] = Selected]
    BY <2>4, <2>5 DEF ChooseFreely, ChooseFirst, Choose, OutboundInv, HandlerInv, ConnOK
  <2>7. SelectionTypeOK
    BY DEF OutboundInv, TypeOK
  <2> QED
    BY <2>6, <2>7, AdvanceTurns
<1> QED
  BY <1>1, InitOutbound, OutboundStep, PTL DEF Spec, EveryUpstreamHasItsTurn
=============================================================================

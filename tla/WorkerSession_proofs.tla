----------------------- MODULE WorkerSession_proofs -----------------------
(* Which configurations reach a worker and in which order, for channels of *)
(* any size and any number of changes and faults.                          *)
EXTENDS WorkerSession, SequenceTheorems, TLAPS

LEMMA AppendTyped ==
    ASSUME NEW S, NEW s \in Seq(S), NEW e \in S, NEW cap \in Nat, Len(s) < cap
    PROVE  Append(s, e) \in Seq(S) /\ Len(Append(s, e)) <= cap
  OBVIOUS

LEMMA TailTyped ==
    ASSUME NEW S, NEW s \in Seq(S), s # << >>, NEW cap \in Nat, Len(s) <= cap
    PROVE  Tail(s) \in Seq(S) /\ Len(Tail(s)) <= cap /\ Head(s) \in S
  OBVIOUS

LEMMA EmptyTyped ==
    ASSUME NEW S, NEW cap \in Nat
    PROVE  << >> \in Seq(S) /\ Len(<< >>) <= cap
  OBVIOUS

LEMMA LeftIs == \A s, t : t \in LeftOf(s) <=> t = s \/ (s # << >> /\ t = Tail(s))
  BY DEF LeftOf

(* What the two queues may be.                                             *)
UpOK == up \in Seq(Requests) /\ Len(up) <= WorkerCap
DownOK == down \in Seq(Events) /\ Len(down) <= CaptainCap

(* The types of everything but the queues.                                 *)
RestOK ==
    /\ loop \in {"login", "dial", "session"} /\ otp \in {"none", "live"}
    /\ wsock \in {"open", "closed"} /\ csock \in {"open", "closed"}
    /\ wreader \in {"reading", "requesting", "abandoned", "done"}
    /\ wwriter \in {"writing", "done"}
    /\ cfg \in Versions /\ initialCfg \in Versions /\ answer \in Versions
    /\ serve \in {"check", "add", "done", "rejected"}
    /\ initial \in {"off", "query", "send", "done"}
    /\ creader \in {"off", "reading", "query", "answer", "reply", "removing", "done"}
    /\ cwriter \in {"off", "writing", "removing", "done"}
    /\ entry \in {"none", "current", "former"} /\ former \in BOOLEAN
    /\ db \in Versions /\ told \in Versions /\ missed \in BOOLEAN
    /\ admin \in {"idle", "committed", "notifying", "wedged"}
    /\ faults \in 0..MaxFaults

LEMMA TypeParts == TypeOK <=> UpOK /\ DownOK /\ RestOK
  BY DEF TypeOK, UpOK, DownOK, RestOK

LEMMA EventTypes ==
    /\ PoolChange \in Events /\ Error \in Events /\ LoginSuccess \in Events
    /\ \A v \in Versions : Config(v) \in Events
    /\ \A e \in Events : /\ e.type = "config" => e.cfg \in Versions
                         /\ e = PoolChange <=> e.type = "pool_change"
    /\ \A v \in Versions : Config(v).type = "config" /\ Config(v).cfg = v
    /\ PoolChange.type = "pool_change" /\ Error.type = "error"
    /\ LoginSuccess.type = "login_success"
<1>1. /\ PoolChange \in Events /\ Error \in Events /\ LoginSuccess \in Events
      /\ \A v \in Versions : Config(v) \in Events
  BY DEF Events
<1>2. \A v \in Versions : Config(v).type = "config" /\ Config(v).cfg = v
  BY DEF Config
<1>3. /\ PoolChange.type = "pool_change" /\ Error.type = "error"
      /\ LoginSuccess.type = "login_success"
  BY DEF PoolChange, Error, LoginSuccess
<1>4. ASSUME NEW e \in Events
      PROVE  (e.type = "config" => e.cfg \in Versions) /\ (e = PoolChange <=> e.type = "pool_change")
  <2>1. e \in {PoolChange, Error, LoginSuccess} \/ \E v \in Versions : e = Config(v)
    BY DEF Events
  <2> QED
    BY <1>2, <1>3, <2>1
<1> QED
  BY <1>1, <1>2, <1>3, <1>4

LEMMA VersionsTyped ==
    /\ 0 \in Versions /\ 1 \in Versions /\ Versions \subseteq Nat
    /\ \A v \in Versions : v <= MaxChanges => v + 1 \in Versions
  BY SessionAssumption DEF Versions

LEMMA FaultTyped == ASSUME faults \in 0..MaxFaults, Fault PROVE faults' \in 0..MaxFaults
  BY SessionAssumption DEF Fault

LEMMA InitTyped == ASSUME Init PROVE TypeOK
<1>1. UpOK /\ DownOK
  BY SessionAssumption, EmptyTyped DEF Init, UpOK, DownOK
<1>2. RestOK
  <2>1. 0 \in 0..MaxFaults /\ 0 \in Versions /\ 1 \in Versions
    BY VersionsTyped, SessionAssumption
  <2> QED
    BY <2>1 DEF Init, RestOK
<1> QED
  BY <1>1, <1>2, TypeParts

LEMMA UpStep == ASSUME TypeOK, [Next]_vars PROVE UpOK'
<1>0. UpOK
  BY TypeParts
<1>1. CASE WorkerRequests \/ LoginOrReport
  <2>1. \E e \in Requests : up' = Append(up, e)
    BY <1>1 DEF WorkerRequests, LoginOrReport, Requests
  <2>2. Len(up) < WorkerCap
    BY <1>1 DEF WorkerRequests, LoginOrReport, WorkerRoom
  <2> QED
    BY <1>0, <2>1, <2>2, AppendTyped, SessionAssumption DEF UpOK
<1>2. CASE CaptainReads \/ WorkerWriterEnds
  <2>1. UNCHANGED up \/ (up # << >> /\ up' = Tail(up))
    BY <1>2, LeftIs DEF CaptainReads, WorkerWriterEnds
  <2> QED
    BY <1>0, <2>1, TailTyped, SessionAssumption DEF UpOK
<1>3. CASE Dial
  BY <1>3, EmptyTyped, SessionAssumption DEF Dial, UpOK
<1>4. CASE \/ Login \/ DialFails \/ SessionEnds \/ WorkerReader \/ Link \/ ServeWS
           \/ UNCHANGED vars
  BY <1>0, <1>4 DEF Login, DialFails, SessionEnds, WorkerReader, WorkerReads, WorkerReaderEnds,
     Link, WorkerNotices, CaptainNotices, WriteDeadline, PongMissed, ServeWS, CheckDuplicate,
     AddWorker, UpOK, vars, queues
<1>5. CASE \/ InitialConfig \/ CaptainQueries \/ CaptainAnswers \/ CaptainReplies
           \/ CaptainPumpsEnd \/ FormerRemoves
  BY <1>0, <1>5 DEF InitialConfig, QueryInitial, SendInitial, CaptainQueries, CaptainAnswers,
     CaptainReplies, CaptainPumpsEnd, CaptainPumpEnds, CaptainPumpRemoves, FormerRemoves, UpOK, queues
<1>6. CASE Change \/ Notify \/ Faults
  BY <1>0, <1>6 DEF Change, Notify, NotifyBegins, NotifyEnds, NotifyBlocks, Faults, LoginRefused, OtpExpires,
     LinkLost, QueryInitialFails, CaptainQueryFails, UpOK, queues
<1> QED
  BY <1>1, <1>2, <1>3, <1>4, <1>5, <1>6 DEF Next, ConnectionLoop, CaptainReader

(* What a step may do to the events on their way to the worker.            *)
LEMMA DownMoves ==
    ASSUME TypeOK, [Next]_vars
    PROVE  \/ UNCHANGED down
           \/ (WorkerReads \/ CaptainPumpEnds) /\ down # << >> /\ down' = Tail(down)
           \/ Dial /\ down' = << >>
           \/ /\ Len(down) < CaptainCap
              /\ \/ SendInitial /\ down' = Append(down, Config(initialCfg))
                 \/ CaptainAnswers /\ answer = 0 /\ down' = Append(down, Error)
                 \/ CaptainAnswers /\ answer # 0 /\ down' = Append(down, Config(answer))
                 \/ CaptainReplies /\ down' = Append(down, LoginSuccess)
                 \/ NotifyEnds /\ entry = "current" /\ down' = Append(down, PoolChange)
<1>1. CASE WorkerReads \/ Dial
  BY <1>1 DEF WorkerReads, CanRead, Dial
<1>2. CASE SendInitial \/ CaptainAnswers \/ CaptainReplies \/ NotifyEnds
  BY <1>2 DEF SendInitial, CaptainAnswers, CaptainReplies, NotifyEnds, CaptainRoom
<1>3. CASE CaptainPumpEnds
  BY <1>3, LeftIs DEF CaptainPumpEnds
<1>4. CASE \/ Login \/ DialFails \/ SessionEnds \/ WorkerRequests \/ LoginOrReport \/ WorkerReaderEnds
           \/ WorkerWriterEnds \/ Link \/ ServeWS \/ UNCHANGED vars
  BY <1>4 DEF Login, DialFails, SessionEnds, WorkerRequests, LoginOrReport, WorkerReaderEnds,
     WorkerWriterEnds, Link, WorkerNotices, CaptainNotices, WriteDeadline, PongMissed, ServeWS, CheckDuplicate,
     AddWorker, vars, queues
<1>5. CASE QueryInitial \/ CaptainReads \/ CaptainQueries \/ CaptainPumpRemoves \/ FormerRemoves
  BY <1>5 DEF QueryInitial, CaptainReads, CaptainQueries, CaptainPumpRemoves, FormerRemoves, queues
<1>6. CASE Change \/ NotifyBegins \/ NotifyBlocks \/ Faults
  BY <1>6 DEF Change, NotifyBegins, NotifyBlocks, Faults, LoginRefused, OtpExpires, LinkLost,
     QueryInitialFails, CaptainQueryFails, queues
<1> QED
  BY <1>1, <1>2, <1>3, <1>4, <1>5, <1>6
     DEF Next, ConnectionLoop, WorkerReader, InitialConfig, CaptainReader, CaptainPumpsEnd, Notify

LEMMA DownStep == ASSUME TypeOK, [Next]_vars PROVE DownOK'
<1>0. DownOK /\ initialCfg \in Versions /\ answer \in Versions
  BY TypeParts DEF RestOK
<1>1. /\ Config(initialCfg) \in Events /\ Config(answer) \in Events
      /\ Error \in Events /\ PoolChange \in Events /\ LoginSuccess \in Events
  BY <1>0, EventTypes
<1>2. CASE \E e \in Events : Len(down) < CaptainCap /\ down' = Append(down, e)
  BY <1>0, <1>2, AppendTyped, SessionAssumption DEF DownOK
<1>3. CASE down # << >> /\ down' = Tail(down)
  BY <1>0, <1>3, TailTyped, SessionAssumption DEF DownOK
<1>4. CASE down' = << >>
  BY <1>4, EmptyTyped, SessionAssumption DEF DownOK
<1>5. CASE UNCHANGED down
  BY <1>0, <1>5 DEF DownOK
<1> QED
  BY <1>1, <1>2, <1>3, <1>4, <1>5, DownMoves

LEMMA RestStep == ASSUME TypeOK, [Next]_vars PROVE RestOK'
<1>0. RestOK /\ DownOK
  BY TypeParts
<1> USE DEF RestOK
<1>1. CASE Login \/ DialFails \/ SessionEnds \/ Dial
  BY <1>0, <1>1, FaultTyped DEF Login, DialFails, SessionEnds, Dial, captain, queues, world
<1>2. CASE WorkerReads
  <2>1. Head(down) \in Events
    BY <1>0, <1>2, TailTyped, SessionAssumption DEF WorkerReads, CanRead, DownOK
  <2>2. cfg' \in Versions /\ wreader' \in {"reading", "requesting", "abandoned"}
    BY <1>0, <1>2, <2>1, EventTypes DEF WorkerReads, Handle
  <2>3. faults' \in 0..MaxFaults
    BY <1>0, <1>2, FaultTyped DEF WorkerReads, Handle
  <2> QED
    BY <1>0, <1>2, <2>2, <2>3 DEF WorkerReads, captain
<1>3. CASE WorkerRequests \/ LoginOrReport \/ WorkerReaderEnds \/ WorkerWriterEnds \/ UNCHANGED vars
  BY <1>0, <1>3 DEF WorkerRequests, LoginOrReport, WorkerReaderEnds, WorkerWriterEnds, vars, worker, captain, queues, world
<1>4. CASE Link
  BY <1>0, <1>4 DEF Link, WorkerNotices, CaptainNotices, WriteDeadline, PongMissed, worker, captain, world
<1>5. CASE ServeWS \/ InitialConfig
  BY <1>0, <1>5 DEF ServeWS, CheckDuplicate, AddWorker, InitialConfig, QueryInitial, SendInitial, worker, world
<1>6. CASE CaptainReader \/ CaptainPumpsEnd \/ FormerRemoves
  BY <1>0, <1>6, VersionsTyped DEF CaptainReader, CaptainReads, CaptainQueries, CaptainAnswers, CaptainReplies, CaptainPumpsEnd,
     CaptainPumpEnds, CaptainPumpRemoves, FormerRemoves, worker, world
<1>7. CASE Change \/ Notify
  BY <1>0, <1>7, VersionsTyped DEF Change, Notify, NotifyBegins, NotifyEnds, NotifyBlocks, worker, captain
<1>8. CASE Faults
  BY <1>0, <1>8, FaultTyped, VersionsTyped DEF Faults, LoginRefused, OtpExpires, LinkLost, QueryInitialFails, CaptainQueryFails,
     worker, captain
<1> QED
  BY <1>1, <1>2, <1>3, <1>4, <1>5, <1>6, <1>7, <1>8 DEF Next, ConnectionLoop, WorkerReader

(* Connection, pumps, queues and configurations stay well typed, and       *)
(* neither channel is filled beyond its capacity.                          *)
THEOREM TypeCorrect == Spec => []TypeOK
<1>1. TypeOK /\ [Next]_vars => TypeOK'
  <2> SUFFICES ASSUME TypeOK, [Next]_vars PROVE TypeOK'
    OBVIOUS
  <2>1. UpOK' /\ DownOK' /\ RestOK'
    BY UpStep, DownStep, RestStep
  <2> QED
    BY <2>1 DEF TypeOK, UpOK, DownOK, RestOK
<1> QED
  BY <1>1, InitTyped, PTL DEF Spec

-----------------------------------------------------------------------------
(* The configurations on their way are in the order of the changes, behind *)
(* the one the worker has and before the one about to be sent; only the    *)
(* one the initial goroutine has sent may be out of its place.             *)
InOrder(a, b) == a <= b \/ (initial = "done" /\ initialCfg \in {a, b})

IsConfig(i) == i \in DOMAIN down /\ down[i].type = "config"
Answering == creader = "answer" /\ answer # 0

NoneNewer ==
    /\ cfg <= db /\ initialCfg <= db
    /\ \A i \in DOMAIN down : IsConfig(i) => down[i].cfg <= db
    /\ Answering => answer <= db
DownOrdered ==
    /\ \A i \in DOMAIN down : IsConfig(i) => InOrder(cfg, down[i].cfg)
    /\ \A i, j \in DOMAIN down : i < j /\ IsConfig(i) /\ IsConfig(j) => InOrder(down[i].cfg, down[j].cfg)
AnswerOrdered ==
    Answering => /\ InOrder(cfg, answer)
                 /\ \A i \in DOMAIN down : IsConfig(i) => InOrder(down[i].cfg, answer)

OrderInv == (serve = "check" => initial = "off") /\ NoneNewer /\ DownOrdered /\ AnswerOrdered

LEMMA AppendAt ==
    ASSUME NEW S, NEW s \in Seq(S), NEW e \in S
    PROVE  /\ DOMAIN Append(s, e) = DOMAIN s \cup {Len(s) + 1}
           /\ \A i \in DOMAIN s : i < Len(s) + 1 /\ i \in Int /\ Append(s, e)[i] = s[i]
           /\ Append(s, e)[Len(s) + 1] = e /\ Len(s) + 1 \notin DOMAIN s /\ Len(s) + 1 \in Int
  OBVIOUS

LEMMA TailAt ==
    ASSUME NEW S, NEW s \in Seq(S), s # << >>
    PROVE  /\ 1 \in DOMAIN s /\ Head(s) = s[1]
           /\ \A i \in DOMAIN Tail(s) : i \in Nat /\ i >= 1 /\ i + 1 \in DOMAIN s /\ Tail(s)[i] = s[i + 1]
           /\ \A i \in DOMAIN s : i \in Nat /\ (i = 1 \/ (i - 1 \in DOMAIN Tail(s) /\ Tail(s)[i - 1] = s[i]))
  OBVIOUS

LEMMA Numbers ==
    ASSUME TypeOK
    PROVE  /\ cfg \in Nat /\ db \in Nat /\ initialCfg \in Nat /\ answer \in Nat /\ told \in Nat
           /\ \A i \in DOMAIN down : IsConfig(i) => down[i].cfg \in Nat
           /\ down \in Seq(Events)
           /\ \A i \in DOMAIN down : down[i] \in Events
<1>1. down \in Seq(Events) /\ \A i \in DOMAIN down : down[i] \in Events
  BY TypeParts DEF DownOK
<1> QED
  BY <1>1, TypeParts, EventTypes, VersionsTyped DEF RestOK, IsConfig

LEMMA OrderFrame ==
    ASSUME TypeOK, TypeOK', OrderInv, UNCHANGED <<cfg, initialCfg, initial, down>>, db' >= db,
           Answering' => Answering /\ answer' = answer,
           serve' = "check" => serve = "check"
    PROVE  OrderInv'
<1> USE DEF OrderInv
<1>1. NoneNewer'
  <2>1. \A i \in DOMAIN down : IsConfig(i) => down[i].cfg \in Nat
    BY Numbers
  <2>2. cfg \in Nat /\ db \in Nat /\ db' \in Nat /\ initialCfg \in Nat /\ answer \in Nat
    BY Numbers, TypeParts, VersionsTyped DEF TypeOK
  <2> QED
    BY <2>1, <2>2 DEF NoneNewer, IsConfig
<1>2. DownOrdered'
  BY DEF DownOrdered, IsConfig, InOrder
<1>3. AnswerOrdered'
  BY DEF AnswerOrdered, IsConfig, InOrder
<1> QED
  BY <1>1, <1>2, <1>3

(* An event that is no configuration is queued.                            *)
LEMMA OrderAppendOther ==
    ASSUME TypeOK, OrderInv, NEW e \in Events, e.type # "config", down' = Append(down, e),
           UNCHANGED <<cfg, initialCfg, initial, db>>,
           Answering' => Answering /\ answer' = answer, serve' = serve
    PROVE  OrderInv'
<1>1. \A i : IsConfig(i)' <=> IsConfig(i)
  BY Numbers, AppendAt DEF IsConfig
<1>2. \A i : IsConfig(i) => i \in DOMAIN down /\ i \in DOMAIN down' /\ down'[i] = down[i]
  BY Numbers, AppendAt DEF IsConfig
<1>3. NoneNewer'
  BY <1>1, <1>2 DEF OrderInv, NoneNewer
<1>4. DownOrdered'
  BY <1>1, <1>2 DEF OrderInv, DownOrdered, InOrder
<1>5. AnswerOrdered'
  BY <1>1, <1>2 DEF OrderInv, AnswerOrdered, InOrder
<1> QED
  BY <1>3, <1>4, <1>5 DEF OrderInv

(* A configuration is queued that may follow the one the worker has and    *)
(* all that are queued.                                                    *)
LEMMA OrderAppend ==
    ASSUME TypeOK, OrderInv, NEW v \in Versions, down' = Append(down, Config(v)), v <= db,
           UNCHANGED <<cfg, initialCfg, db>>, serve' = serve, ~Answering' \/ (initialCfg = v /\ initial' = "done"),
           Answering' => Answering /\ answer' = answer,
           initial' = "done" \/ initial' = initial,
           serve = "check" => initial' = "off",
           InOrder(cfg, v)', \A i \in DOMAIN down : IsConfig(i) => (initial' = "done" /\ initialCfg = v) \/ InOrder(down[i].cfg, v)
    PROVE  OrderInv'
<1>0. Config(v) \in Events /\ Config(v).type = "config" /\ Config(v).cfg = v
  BY EventTypes
<1>1. \A i : IsConfig(i)' <=> IsConfig(i) \/ i = Len(down) + 1
  BY <1>0, Numbers, AppendAt DEF IsConfig
<1>2. /\ \A i : IsConfig(i) => i \in DOMAIN down /\ i \in DOMAIN down' /\ down'[i] = down[i] /\ i < Len(down) + 1
      /\ down'[Len(down) + 1].cfg = v /\ Len(down) + 1 \notin DOMAIN down
  BY <1>0, Numbers, AppendAt DEF IsConfig
<1>3. NoneNewer'
  BY <1>1, <1>2 DEF OrderInv, NoneNewer, Answering
<1>4. DownOrdered'
  <2>1. ASSUME NEW i \in DOMAIN down', IsConfig(i)' PROVE InOrder(cfg, down[i].cfg)'
    BY <1>1, <1>2, <2>1 DEF OrderInv, DownOrdered, InOrder
  <2>2. ASSUME NEW i \in DOMAIN down', NEW j \in DOMAIN down', i < j, IsConfig(i)', IsConfig(j)'
        PROVE  InOrder(down[i].cfg, down[j].cfg)'
    <3>1. CASE j = Len(down) + 1
      <4>1. IsConfig(i) /\ i \in DOMAIN down /\ down'[i] = down[i]
        BY <1>1, <1>2, <2>2, <3>1, Numbers, AppendAt
      <4> QED
        BY <1>2, <3>1, <4>1 DEF InOrder
    <3>2. CASE j # Len(down) + 1
      <4>1. IsConfig(j) /\ j \in DOMAIN down /\ down'[j] = down[j]
        BY <1>1, <1>2, <2>2, <3>2
      <4>2. i # Len(down) + 1
        BY <1>2, <2>2, <4>1, Numbers, AppendAt
      <4>3. IsConfig(i) /\ i \in DOMAIN down /\ down'[i] = down[i]
        BY <1>1, <1>2, <2>2, <4>2
      <4> QED
        BY <2>2, <4>1, <4>3 DEF OrderInv, DownOrdered, InOrder
    <3> QED
      BY <3>1, <3>2
  <2> QED
    BY <2>1, <2>2 DEF DownOrdered
<1>5. AnswerOrdered'
  <2> SUFFICES ASSUME Answering' PROVE InOrder(cfg, answer)' /\ \A i \in DOMAIN down' : IsConfig(i)' => InOrder(down[i].cfg, answer)'
    BY DEF AnswerOrdered
  <2>1. Answering /\ answer' = answer /\ initialCfg = v /\ initial' = "done"
    OBVIOUS
  <2>2. InOrder(cfg, answer)' /\ \A i \in DOMAIN down : IsConfig(i) => InOrder(down[i].cfg, answer)'
    BY <2>1 DEF OrderInv, AnswerOrdered, InOrder
  <2> QED
    BY <1>1, <1>2, <2>1, <2>2 DEF InOrder
<1> QED
  BY <1>3, <1>4, <1>5 DEF OrderInv

LEMMA OrderRead == ASSUME TypeOK, TypeOK', OrderInv, WorkerReads PROVE OrderInv'
<1>1. /\ down # << >> /\ down' = Tail(down) /\ UNCHANGED <<initial, initialCfg, db, serve, creader, answer>>
      /\ cfg' = IF Head(down).type = "config" THEN Head(down).cfg ELSE cfg
  BY DEF WorkerReads, CanRead, Handle, captain
<1>2. /\ 1 \in DOMAIN down /\ Head(down) = down[1]
      /\ \A i : IsConfig(i)' => /\ i \in Nat /\ i >= 1 /\ i + 1 \in DOMAIN down
                                /\ IsConfig(i + 1) /\ down'[i] = down[i + 1]
  BY <1>1, Numbers, TailAt DEF IsConfig
<1>3. NoneNewer'
  BY <1>1, <1>2, Numbers DEF OrderInv, NoneNewer, IsConfig, Answering
<1>4. DownOrdered'
  <2>1. ASSUME NEW i \in DOMAIN down', IsConfig(i)' PROVE InOrder(cfg, down[i].cfg)'
    <3>1. CASE down[1].type = "config"
      <4>1. IsConfig(1) /\ 1 < i + 1 /\ cfg' = down[1].cfg
        BY <1>1, <1>2, <2>1, <3>1 DEF IsConfig
      <4>2. InOrder(down[1].cfg, down[i + 1].cfg)
        BY <1>2, <2>1, <4>1 DEF OrderInv, DownOrdered
      <4> QED
        BY <1>1, <1>2, <2>1, <4>1, <4>2 DEF InOrder
    <3>2. CASE down[1].type # "config"
      BY <1>1, <1>2, <2>1, <3>2 DEF OrderInv, DownOrdered, InOrder
    <3> QED
      BY <3>1, <3>2
  <2>2. ASSUME NEW i \in DOMAIN down', NEW j \in DOMAIN down', i < j, IsConfig(i)', IsConfig(j)'
        PROVE  InOrder(down[i].cfg, down[j].cfg)'
    <3>1. i + 1 < j + 1 /\ IsConfig(i + 1) /\ IsConfig(j + 1)
      BY <1>2, <2>2
    <3>2. InOrder(down[i + 1].cfg, down[j + 1].cfg)
      BY <1>2, <2>2, <3>1 DEF OrderInv, DownOrdered
    <3> QED
      BY <1>1, <1>2, <2>2, <3>2 DEF InOrder
  <2> QED
    BY <2>1, <2>2 DEF DownOrdered
<1>5. AnswerOrdered'
  <2> SUFFICES ASSUME Answering' PROVE InOrder(cfg, answer)' /\ \A i \in DOMAIN down' : IsConfig(i)' => InOrder(down[i].cfg, answer)'
    BY DEF AnswerOrdered
  <2>1. InOrder(cfg, answer) /\ \A i \in DOMAIN down : IsConfig(i) => InOrder(down[i].cfg, answer)
    BY <1>1 DEF OrderInv, AnswerOrdered, Answering
  <2>2. InOrder(cfg, answer)'
    BY <1>1, <1>2, <2>1 DEF InOrder, IsConfig
  <2>3. ASSUME NEW i \in DOMAIN down', IsConfig(i)' PROVE InOrder(down[i].cfg, answer)'
    BY <1>1, <1>2, <2>1, <2>3 DEF InOrder
  <2> QED
    BY <2>2, <2>3
<1> QED
  BY <1>1, <1>3, <1>4, <1>5 DEF OrderInv

(* A write pump ends and loses the event in hand.                          *)
LEMMA OrderDrop ==
    ASSUME TypeOK, OrderInv, down # << >>, down' = Tail(down),
           UNCHANGED <<cfg, initialCfg, initial, db, serve, answer>>, Answering' => Answering
    PROVE  OrderInv'
<1>1. \A i : IsConfig(i)' => i \in Nat /\ i + 1 \in DOMAIN down /\ IsConfig(i + 1) /\ down'[i] = down[i + 1]
  BY Numbers, TailAt DEF IsConfig
<1>2. NoneNewer'
  BY <1>1 DEF OrderInv, NoneNewer
<1>3. DownOrdered'
  <2>1. ASSUME NEW i \in DOMAIN down', IsConfig(i)' PROVE InOrder(cfg, down[i].cfg)'
    BY <1>1, <2>1 DEF OrderInv, DownOrdered, InOrder
  <2>2. ASSUME NEW i \in DOMAIN down', NEW j \in DOMAIN down', i < j, IsConfig(i)', IsConfig(j)'
        PROVE  InOrder(down[i].cfg, down[j].cfg)'
    <3>1. i + 1 < j + 1 /\ IsConfig(i + 1) /\ IsConfig(j + 1)
      BY <1>1, <2>2
    <3>2. InOrder(down[i + 1].cfg, down[j + 1].cfg)
      BY <1>1, <2>2, <3>1 DEF OrderInv, DownOrdered
    <3> QED
      BY <1>1, <2>2, <3>2 DEF InOrder
  <2> QED
    BY <2>1, <2>2 DEF DownOrdered
<1>4. AnswerOrdered'
  BY <1>1 DEF OrderInv, AnswerOrdered, InOrder
<1> QED
  BY <1>2, <1>3, <1>4 DEF OrderInv

LEMMA OrderStep == ASSUME TypeOK, TypeOK', OrderInv, [Next]_vars PROVE OrderInv'
<1>0. /\ cfg \in Nat /\ db \in Nat /\ initialCfg \in Nat /\ answer \in Nat
      /\ cfg \in Versions /\ db \in Versions /\ initialCfg \in Versions /\ answer \in Versions
      /\ \A i \in DOMAIN down : IsConfig(i) => down[i].cfg \in Nat
  BY Numbers, TypeParts DEF RestOK
<1>1. CASE WorkerReads
  BY <1>1, OrderRead
<1>2. CASE Dial
  <2>1. /\ down' = << >> /\ serve' = "check" /\ initial' = "off" /\ creader' = "off"
        /\ UNCHANGED <<cfg, initialCfg, db>>
    BY <1>2 DEF Dial
  <2>2. \A i : ~IsConfig(i)'
    BY <2>1 DEF IsConfig
  <2> QED
    BY <2>1, <2>2 DEF OrderInv, NoneNewer, DownOrdered, AnswerOrdered, Answering
<1>3. CASE SendInitial
  <2>1. /\ down' = Append(down, Config(initialCfg)) /\ initial = "send" /\ initial' = "done"
        /\ UNCHANGED <<cfg, initialCfg, db, creader, answer, serve>>
    BY <1>3 DEF SendInitial, worker
  <2>2. initialCfg <= db /\ serve # "check"
    BY <2>1 DEF OrderInv, NoneNewer
  <2> QED
    BY <1>0, <2>1, <2>2, OrderAppend DEF Answering, InOrder
<1>4. CASE CaptainAnswers
  <2>1. /\ creader = "answer" /\ creader' = "reading"
        /\ down' = Append(down, IF answer = 0 THEN Error ELSE Config(answer))
        /\ UNCHANGED <<cfg, initial, initialCfg, db, serve>>
    BY <1>4 DEF CaptainAnswers, worker, world
  <2>2. CASE answer = 0
    BY <2>1, <2>2, EventTypes, OrderAppendOther DEF Answering
  <2>3. CASE answer # 0
    <3>1. /\ Answering /\ ~Answering' /\ answer <= db /\ InOrder(cfg, answer)
          /\ \A i \in DOMAIN down : IsConfig(i) => InOrder(down[i].cfg, answer)
      BY <2>1, <2>3 DEF Answering, OrderInv, NoneNewer, AnswerOrdered
    <3> QED
      BY <1>0, <2>1, <2>3, <3>1, OrderAppend DEF InOrder, OrderInv
  <2> QED
    BY <2>2, <2>3
<1>12. CASE CaptainReplies
  <2>1. /\ creader' = "reading" /\ down' = Append(down, LoginSuccess)
        /\ UNCHANGED <<cfg, initial, initialCfg, answer, db, serve>>
    BY <1>12 DEF CaptainReplies, worker, world
  <2> QED
    BY <2>1, EventTypes, OrderAppendOther DEF Answering
<1>5. CASE CaptainQueries
  <2>1. /\ creader' = "answer" /\ answer' = db /\ UNCHANGED <<cfg, initial, initialCfg, db, serve, down>>
    BY <1>5 DEF CaptainQueries, worker, queues, world
  <2>2. NoneNewer' /\ DownOrdered'
    BY <1>0, <2>1 DEF OrderInv, NoneNewer, DownOrdered, IsConfig, InOrder
  <2>3. AnswerOrdered'
    BY <2>1 DEF OrderInv, NoneNewer, AnswerOrdered, IsConfig, InOrder
  <2> QED
    BY <2>1, <2>2, <2>3 DEF OrderInv
<1>6. CASE QueryInitial
  <2>1. /\ initial = "query" /\ initial' = "send" /\ initialCfg' = db
        /\ UNCHANGED <<cfg, creader, answer, db, serve, down>>
    BY <1>6 DEF QueryInitial, worker, queues, world
  <2>2. NoneNewer'
    BY <1>0, <2>1 DEF OrderInv, NoneNewer, IsConfig, Answering
  <2>3. DownOrdered' /\ AnswerOrdered'
    BY <2>1 DEF OrderInv, DownOrdered, AnswerOrdered, IsConfig, InOrder, Answering
  <2> QED
    BY <2>1, <2>2, <2>3 DEF OrderInv
<1>7. CASE QueryInitialFails \/ CheckDuplicate
  <2>1. /\ initial # "done" /\ UNCHANGED <<cfg, initialCfg, creader, answer, db, down>>
        /\ serve' = "check" => serve = "check" /\ initial # "query"
    BY <1>7 DEF QueryInitialFails, CheckDuplicate, worker, queues, world, OrderInv
  <2>2. NoneNewer'
    BY <1>0, <2>1 DEF OrderInv, NoneNewer, IsConfig, Answering
  <2>3. DownOrdered' /\ AnswerOrdered'
    BY <2>1 DEF OrderInv, DownOrdered, AnswerOrdered, IsConfig, InOrder, Answering
  <2>4. serve' = "check" => initial' = "off"
    BY <1>7, <2>1 DEF QueryInitialFails, CheckDuplicate, OrderInv
  <2> QED
    BY <2>2, <2>3, <2>4 DEF OrderInv
<1>8. CASE NotifyEnds
  <2>1. UNCHANGED <<cfg, initial, initialCfg, creader, answer, serve, db>>
    BY <1>8 DEF NotifyEnds, worker, captain
  <2>2. CASE UNCHANGED down
    BY <1>0, <2>1, <2>2, OrderFrame DEF Answering
  <2>3. CASE down' = Append(down, PoolChange)
    BY <2>1, <2>3, EventTypes, OrderAppendOther DEF Answering
  <2> QED
    BY <1>8, <2>2, <2>3 DEF NotifyEnds
<1>9. CASE \/ Login \/ DialFails \/ SessionEnds \/ WorkerRequests \/ LoginOrReport \/ WorkerReaderEnds
           \/ WorkerWriterEnds \/ Link \/ UNCHANGED vars
  <2>1. UNCHANGED <<cfg, initial, initialCfg, creader, answer, serve, db, down>>
    BY <1>9 DEF Login, DialFails, SessionEnds, WorkerRequests, LoginOrReport, WorkerReaderEnds, WorkerWriterEnds,
       Link, WorkerNotices, CaptainNotices, WriteDeadline, PongMissed, vars, worker, captain, queues, world, Fault
  <2> QED
    BY <1>0, <2>1, OrderFrame DEF Answering
<1>10. CASE \/ AddWorker \/ CaptainReads \/ CaptainPumpRemoves \/ FormerRemoves \/ Change
            \/ NotifyBegins \/ NotifyBlocks \/ LoginRefused \/ OtpExpires \/ LinkLost \/ CaptainQueryFails
  <2>1. UNCHANGED <<cfg, initial, initialCfg, down>> /\ (db' = db \/ db' = db + 1)
    BY <1>10 DEF AddWorker, CaptainReads, CaptainPumpRemoves, FormerRemoves, Change,
       NotifyBegins, NotifyBlocks, LoginRefused, OtpExpires, LinkLost, CaptainQueryFails, worker, captain, queues, world
  <2>2. (creader' = "answer" /\ answer' # 0 => creader = "answer" /\ answer' = answer) /\ (serve' = "check" => serve = "check")
    BY <1>10 DEF AddWorker, CaptainReads, CaptainPumpRemoves, FormerRemoves, Change,
       NotifyBegins, NotifyBlocks, LoginRefused, OtpExpires, LinkLost, CaptainQueryFails, worker, captain, queues, world
  <2> QED
    BY <1>0, <2>1, <2>2, OrderFrame DEF Answering
<1>11. CASE CaptainPumpEnds
  <2>1. /\ UNCHANGED <<cfg, initialCfg, initial, db, serve, answer>>
        /\ creader' = "answer" => creader = "answer"
    BY <1>11 DEF CaptainPumpEnds, worker, world
  <2>2. Answering' => Answering
    BY <2>1 DEF Answering
  <2>3. CASE UNCHANGED down
    BY <1>0, <2>1, <2>2, <2>3, OrderFrame
  <2>4. CASE down # << >> /\ down' = Tail(down)
    BY <2>1, <2>2, <2>4, OrderDrop
  <2> QED
    BY <1>11, <2>3, <2>4, LeftIs DEF CaptainPumpEnds
<1> QED
  BY <1>1, <1>2, <1>3, <1>4, <1>5, <1>6, <1>7, <1>8, <1>9, <1>10, <1>11, <1>12
     DEF Next, ConnectionLoop, WorkerReader, ServeWS, InitialConfig, CaptainReader, CaptainPumpsEnd, Notify, Faults

(* A worker goes back to an earlier configuration only where the initial   *)
(* one and an answer meet.                                                 *)
THEOREM OrderHolds == Spec => OnlyInitialRegresses
<1>1. Init => OrderInv
  BY DEF Init, OrderInv, NoneNewer, DownOrdered, AnswerOrdered, IsConfig, Answering
<1>2. TypeOK /\ TypeOK' /\ OrderInv /\ [Next]_vars => OrderInv'
  BY OrderStep
<1>3. TypeOK /\ OrderInv /\ [Next]_vars => (cfg' < cfg => initialCfg \in {cfg, cfg'}) \/ UNCHANGED vars
  <2> SUFFICES ASSUME TypeOK, OrderInv, Next, cfg' < cfg PROVE initialCfg \in {cfg, cfg'}
    OBVIOUS
  <2>1. cfg \in Nat /\ ~(cfg < cfg)
    BY Numbers
  <2>2. WorkerReads
    BY <2>1 DEF Next, ConnectionLoop, WorkerReader, ServeWS, InitialConfig, CaptainReader, Notify, Faults,
       Login, DialFails, Dial, SessionEnds, WorkerRequests, LoginOrReport, WorkerReaderEnds, WorkerWriterEnds,
       Link, WorkerNotices, CaptainNotices, WriteDeadline, PongMissed, CheckDuplicate, AddWorker, QueryInitial, SendInitial,
       CaptainReads, CaptainQueries, CaptainAnswers, CaptainReplies, CaptainPumpsEnd, CaptainPumpEnds,
       CaptainPumpRemoves, FormerRemoves, Change, NotifyBegins, NotifyEnds, NotifyBlocks, LoginRefused, OtpExpires, LinkLost, QueryInitialFails,
       CaptainQueryFails, worker
  <2>3. IsConfig(1) /\ 1 \in DOMAIN down /\ cfg' = down[1].cfg /\ down[1].cfg \in Nat
    <3>1. down # << >> /\ cfg' = IF Head(down).type = "config" THEN Head(down).cfg ELSE cfg
      BY <2>2 DEF WorkerReads, CanRead, Handle
    <3>2. 1 \in DOMAIN down /\ Head(down) = down[1]
      BY <3>1, Numbers, TailAt
    <3> QED
      BY <2>1, <3>1, <3>2, Numbers DEF IsConfig
  <2> QED
    BY <2>1, <2>3 DEF OrderInv, DownOrdered, InOrder
<1> QED
  BY <1>1, <1>2, <1>3, TypeCorrect, PTL DEF Spec, OnlyInitialRegresses

-----------------------------------------------------------------------------
(* With every change announced, the last configuration on its way is the   *)
(* current one, or another one will be asked for: a pool change, the       *)
(* request it leads to, or the query of that request is still to be seen.  *)
Pending ==
    \/ \E i \in DOMAIN down : down[i].type = "pool_change"
    \/ wreader = "requesting"
    \/ \E i \in DOMAIN up : up[i] = "request"
    \/ creader = "query"

LastIsCurrent ==
    \/ cfg = db /\ \A i \in DOMAIN down : ~IsConfig(i)
    \/ \E i \in DOMAIN down : /\ IsConfig(i) /\ down[i].cfg = db
                              /\ \A j \in DOMAIN down : j > i => ~IsConfig(j)

Accepted == serve \in {"add", "done"}

(* Neither write pump has ended, perhaps losing an event.                  *)
InUse == wwriter = "writing" /\ cwriter \notin {"removing", "done"}

ServeOrder ==
    /\ serve \in {"check", "add"} => creader = "off" /\ cwriter = "off"
    /\ Accepted => initial # "off"
    /\ db >= 1
    /\ admin = "idle" => told = db

Covered ==
    ~missed /\ Accepted /\ InUse /\ admin = "idle" =>
        /\ creader = "answer" => answer = db \/ Pending
        /\ creader # "answer" /\ initial = "done" => Pending \/ LastIsCurrent

CurrentInv == ServeOrder /\ Covered

LEMMA CurrentFrame ==
    ASSUME CurrentInv, UNCHANGED <<cfg, db, admin, told, initial, down, serve, answer>>,
           missed => missed', InUse' => InUse, creader' = "answer" <=> creader = "answer", Pending => Pending',
           serve \in {"check", "add"} => UNCHANGED <<creader, cwriter>>
    PROVE  CurrentInv'
<1>1. LastIsCurrent => LastIsCurrent'
  BY DEF LastIsCurrent, IsConfig
<1>2. ServeOrder'
  BY DEF CurrentInv, ServeOrder, Accepted
<1>3. Covered'
  BY <1>1 DEF CurrentInv, Covered, Accepted
<1> QED
  BY <1>2, <1>3 DEF CurrentInv

LEMMA PendingAppended ==
    ASSUME TypeOK, NEW e \in Events, down' = Append(down, e), UNCHANGED <<wreader, up>>, Pending,
           creader # "query"
    PROVE  Pending'
<1>1. \A i \in DOMAIN down : i \in DOMAIN down' /\ down'[i] = down[i]
  BY Numbers, AppendAt
<1> QED
  BY <1>1 DEF Pending

LEMMA CurrentAppended ==
    ASSUME TypeOK, down' = Append(down, Config(db)), UNCHANGED db
    PROVE  LastIsCurrent'
<1>1. db \in Versions
  BY TypeParts DEF RestOK
<1>2. Config(db) \in Events /\ Config(db).type = "config" /\ Config(db).cfg = db
  BY <1>1, EventTypes
<1>3. /\ Len(down) + 1 \in DOMAIN down' /\ down'[Len(down) + 1] = Config(db)
      /\ \A j \in DOMAIN down' : ~(j > Len(down) + 1)
  BY <1>2, Numbers, AppendAt
<1> QED
  BY <1>2, <1>3 DEF LastIsCurrent, IsConfig

(* An event that is no configuration is queued behind the last one.        *)
LEMMA LastKept ==
    ASSUME TypeOK, NEW e \in Events, e.type # "config", down' = Append(down, e),
           UNCHANGED <<cfg, db>>, LastIsCurrent
    PROVE  LastIsCurrent'
<1>1. \A i : IsConfig(i)' <=> IsConfig(i)
  BY Numbers, AppendAt DEF IsConfig
<1>2. \A i \in DOMAIN down : i \in DOMAIN down' /\ down'[i] = down[i]
  BY Numbers, AppendAt
<1>3. \A i : IsConfig(i) => i \in DOMAIN down
  BY DEF IsConfig
<1> QED
  BY <1>1, <1>2, <1>3 DEF LastIsCurrent

LEMMA CurrentRead == ASSUME TypeOK, CurrentInv, WorkerReads PROVE CurrentInv'
<1>1. /\ wreader = "reading" /\ down # << >> /\ down' = Tail(down)
      /\ Head(down) = PoolChange => wreader' = "requesting"
      /\ cfg' = IF Head(down).type = "config" THEN Head(down).cfg ELSE cfg
      /\ UNCHANGED <<initial, db, serve, creader, answer, up, admin, told, missed, wwriter, cwriter>>
  BY DEF WorkerReads, CanRead, Handle, PoolChange, LoginSuccess, captain
<1>2. /\ 1 \in DOMAIN down /\ Head(down) = down[1] /\ down[1] \in Events
      /\ \A i \in DOMAIN down' : i \in Nat /\ i >= 1 /\ i + 1 \in DOMAIN down /\ down'[i] = down[i + 1]
      /\ \A i \in DOMAIN down : i \in Nat /\ (i = 1 \/ (i - 1 \in DOMAIN down' /\ down'[i - 1] = down[i]))
  BY <1>1, Numbers, TailAt
<1>3. down[1] = PoolChange <=> down[1].type = "pool_change"
  BY <1>2, EventTypes
<1>4. ASSUME Pending PROVE Pending'
  <2>1. ASSUME NEW i \in DOMAIN down, down[i].type = "pool_change" PROVE Pending'
    <3>1. CASE i = 1
      BY <1>1, <1>2, <1>3, <2>1, <3>1 DEF Pending
    <3>2. CASE i # 1
      <4>1. i - 1 \in DOMAIN down' /\ down'[i - 1].type = "pool_change"
        BY <1>2, <2>1, <3>2
      <4> QED
        BY <4>1 DEF Pending
    <3> QED
      BY <3>1, <3>2
  <2> QED
    BY <1>1, <1>4, <2>1 DEF Pending
<1>5. ASSUME LastIsCurrent PROVE LastIsCurrent'
  <2>1. CASE cfg = db /\ \A i \in DOMAIN down : ~IsConfig(i)
    BY <1>1, <1>2, <2>1 DEF LastIsCurrent, IsConfig
  <2>2. ASSUME NEW i \in DOMAIN down, IsConfig(i), down[i].cfg = db,
               \A j \in DOMAIN down : j > i => ~IsConfig(j)
        PROVE  LastIsCurrent'
    <3>1. CASE i = 1
      <4>1. cfg' = db' /\ \A j \in DOMAIN down' : ~IsConfig(j)'
        BY <1>1, <1>2, <2>2, <3>1 DEF IsConfig
      <4> QED
        BY <4>1 DEF LastIsCurrent
    <3>2. CASE i # 1
      <4>1. i - 1 \in DOMAIN down' /\ down'[i - 1] = down[i]
        BY <1>2, <3>2
      <4>2. IsConfig(i - 1)' /\ down'[i - 1].cfg = db'
        BY <1>1, <2>2, <4>1 DEF IsConfig
      <4>3. \A j \in DOMAIN down' : j > i - 1 => ~IsConfig(j)'
        BY <1>2, <2>2 DEF IsConfig
      <4> QED
        BY <4>1, <4>2, <4>3 DEF LastIsCurrent
    <3> QED
      BY <3>1, <3>2
  <2> QED
    BY <1>5, <2>1, <2>2 DEF LastIsCurrent
<1>6. ServeOrder'
  BY <1>1 DEF CurrentInv, ServeOrder, Accepted
<1>7. Covered'
  BY <1>1, <1>4, <1>5 DEF CurrentInv, Covered, Accepted, InUse
<1> QED
  BY <1>6, <1>7 DEF CurrentInv

LEMMA CurrentStep == ASSUME TypeOK, OrderInv, CurrentInv, [Next]_vars PROVE CurrentInv'
<1>0. /\ db \in Nat /\ initialCfg \in Nat /\ told \in Nat /\ answer \in Nat /\ initialCfg <= db
      /\ initialCfg \in Versions /\ answer \in Versions /\ up \in Seq(Requests) /\ Requests = {"request", "traffic"}
      /\ admin \in {"idle", "committed", "notifying", "wedged"} /\ missed \in BOOLEAN
  BY Numbers, TypeParts DEF RestOK, UpOK, OrderInv, NoneNewer, Requests
<1>1. CASE WorkerReads
  BY <1>1, CurrentRead
<1>2. CASE Dial
  BY <1>2 DEF Dial, CurrentInv, ServeOrder, Covered, Accepted
<1>3. CASE SendInitial
  <2>1. /\ down' = Append(down, Config(initialCfg)) /\ initial = "send" /\ initial' = "done"
        /\ missed' = (missed \/ initialCfg < told)
        /\ UNCHANGED <<cfg, db, creader, answer, serve, admin, told, wreader, up, wwriter, cwriter>>
    BY <1>3 DEF SendInitial, worker
  <2>2. ServeOrder'
    BY <2>1 DEF CurrentInv, ServeOrder, Accepted
  <2>3. ASSUME ~missed', Accepted', InUse', admin' = "idle"
        PROVE  (creader' = "answer" => answer' = db' \/ Pending') /\ LastIsCurrent'
    <3>0. ~missed /\ ~(initialCfg < told) /\ Accepted /\ InUse /\ admin = "idle"
      BY <2>1, <2>3 DEF Accepted, InUse
    <3>1. ~missed /\ Accepted /\ InUse /\ admin = "idle" /\ initialCfg = db
      BY <1>0, <3>0 DEF CurrentInv, ServeOrder
    <3>2. LastIsCurrent'
      BY <2>1, <3>1, CurrentAppended
    <3>3. creader = "answer" /\ Pending => Pending'
      BY <1>0, <2>1, EventTypes, PendingAppended
    <3> QED
      BY <2>1, <3>1, <3>2, <3>3 DEF CurrentInv, Covered
  <2> QED
    BY <2>1, <2>2, <2>3 DEF CurrentInv, Covered
<1>4. CASE CaptainAnswers
  <2>1. /\ creader = "answer" /\ creader' = "reading"
        /\ down' = Append(down, IF answer = 0 THEN Error ELSE Config(answer))
        /\ UNCHANGED <<cfg, initial, db, serve, admin, told, missed, wreader, up, wwriter, cwriter>>
    BY <1>4 DEF CaptainAnswers, worker, world
  <2>2. ServeOrder'
    BY <2>1 DEF CurrentInv, ServeOrder, Accepted
  <2>3. ASSUME ~missed', Accepted', InUse', admin' = "idle" PROVE Pending' \/ LastIsCurrent'
    <3>1. answer = db \/ Pending
      BY <2>1, <2>3 DEF CurrentInv, Covered, Accepted, InUse
    <3>2. CASE Pending
      <4>1. \E e \in Events : down' = Append(down, e)
        BY <1>0, <2>1, EventTypes
      <4> QED
        BY <2>1, <3>2, <4>1, PendingAppended
    <3>3. CASE answer = db
      <4>1. answer # 0
        BY <1>0, <3>3 DEF CurrentInv, ServeOrder
      <4> QED
        BY <2>1, <3>3, <4>1, CurrentAppended
    <3> QED
      BY <3>1, <3>2, <3>3
  <2> QED
    BY <2>1, <2>2, <2>3 DEF CurrentInv, Covered
<1>17. CASE CaptainReplies
  <2>1. /\ creader = "reply" /\ creader' = "reading" /\ down' = Append(down, LoginSuccess)
        /\ UNCHANGED <<cfg, initial, db, serve, admin, told, missed, wreader, up, wwriter, cwriter>>
    BY <1>17 DEF CaptainReplies, worker, world
  <2>2. LoginSuccess \in Events /\ LoginSuccess.type # "config"
    BY EventTypes
  <2>3. (Pending => Pending') /\ (LastIsCurrent => LastIsCurrent')
    BY <2>1, <2>2, PendingAppended, LastKept
  <2>4. ServeOrder'
    BY <2>1 DEF CurrentInv, ServeOrder, Accepted
  <2>5. Covered'
    BY <2>1, <2>3 DEF CurrentInv, Covered, Accepted, InUse
  <2> QED
    BY <2>4, <2>5 DEF CurrentInv
<1>5. CASE CaptainQueries
  <2>1. /\ creader = "query" /\ creader' = "answer" /\ answer' = db
        /\ UNCHANGED <<initial, db, serve, admin, told, missed>>
    BY <1>5 DEF CaptainQueries, worker, queues, world
  <2> QED
    BY <2>1 DEF CurrentInv, ServeOrder, Covered, Accepted
<1>6. CASE QueryInitial
  <2>1. /\ initial = "query" /\ initial' = "send"
        /\ UNCHANGED <<creader, answer, db, serve, down, admin, told, missed, wreader, up, wwriter, cwriter>>
    BY <1>6 DEF QueryInitial, worker, queues, world
  <2>2. Pending => Pending'
    BY <2>1 DEF Pending
  <2> QED
    BY <2>1, <2>2 DEF CurrentInv, ServeOrder, Covered, Accepted, InUse
<1>7. CASE QueryInitialFails \/ CaptainQueryFails
  <2>1. missed' /\ UNCHANGED <<serve, db, admin, told, cwriter>>
    BY <1>7 DEF QueryInitialFails, CaptainQueryFails, worker, queues
  <2>2. UNCHANGED creader \/ creader = "query"
    BY <1>7 DEF QueryInitialFails, CaptainQueryFails
  <2>3. UNCHANGED initial \/ initial' = "done"
    BY <1>7 DEF QueryInitialFails, CaptainQueryFails
  <2> QED
    BY <2>1, <2>2, <2>3 DEF CurrentInv, ServeOrder, Covered, Accepted
<1>8. CASE CheckDuplicate
  <2>1. /\ serve = "check" /\ UNCHANGED <<creader, cwriter, db, admin, told>>
        /\ \/ serve' = "add" /\ initial' = "query"
           \/ serve' = "rejected"
    BY <1>8 DEF CheckDuplicate, worker, queues, world
  <2> QED
    BY <2>1 DEF CurrentInv, ServeOrder, Covered, Accepted
<1>9. CASE AddWorker
  <2>1. /\ serve = "add" /\ serve' = "done" /\ creader' = "reading"
        /\ UNCHANGED <<cfg, initial, answer, down, up, wreader, wwriter, db, admin, told, missed>>
        /\ cwriter = "off"
    BY <1>9 DEF AddWorker, worker, queues, world, CurrentInv, ServeOrder
  <2>2. creader = "off"
    BY <2>1 DEF CurrentInv, ServeOrder
  <2>3. Pending => Pending'
    BY <2>1, <2>2 DEF Pending
  <2>4. LastIsCurrent => LastIsCurrent'
    BY <2>1 DEF LastIsCurrent, IsConfig
  <2>5. ServeOrder'
    BY <2>1 DEF CurrentInv, ServeOrder, Accepted
  <2>6. Covered'
    BY <2>1, <2>2, <2>3, <2>4 DEF CurrentInv, Covered, Accepted, InUse
  <2> QED
    BY <2>5, <2>6 DEF CurrentInv
<1>10. CASE Change \/ NotifyBegins \/ NotifyBlocks
  <2>1. admin' # "idle" /\ UNCHANGED <<serve, initial, creader, cwriter>> /\ db' >= db /\ db' \in Nat
    BY <1>0, <1>10 DEF Change, NotifyBegins, NotifyBlocks, worker, captain
  <2> QED
    BY <1>0, <2>1 DEF CurrentInv, ServeOrder, Covered, Accepted
<1>11. CASE NotifyEnds
  <2>1. UNCHANGED <<cfg, initial, creader, cwriter, answer, serve, db, wreader, up>> /\ told' = db
    BY <1>11 DEF NotifyEnds, worker, captain
  <2>2. ServeOrder'
    BY <2>1 DEF CurrentInv, ServeOrder, Accepted
  <2>3. CASE entry = "current"
    <3>1. down' = Append(down, PoolChange)
      BY <1>11, <2>3 DEF NotifyEnds
    <3>2. Len(down) + 1 \in DOMAIN down' /\ down'[Len(down) + 1].type = "pool_change"
      BY <3>1, Numbers, AppendAt, EventTypes
    <3>3. Pending'
      BY <3>2 DEF Pending
    <3> QED
      BY <2>2, <3>3 DEF CurrentInv, Covered
  <2>4. CASE entry # "current"
    <3>1. missed' = (missed \/ initial \in {"send", "done"} \/ creader = "answer")
      BY <1>11, <2>4 DEF NotifyEnds
    <3> QED
      BY <2>1, <2>2, <3>1 DEF CurrentInv, Covered
  <2> QED
    BY <2>3, <2>4
<1>12. CASE WorkerRequests \/ LoginOrReport \/ CaptainReads
  <2>1. /\ UNCHANGED <<cfg, db, admin, told, initial, down, serve, answer, missed>>
        /\ creader' = "answer" <=> creader = "answer"
        /\ serve \in {"check", "add"} => UNCHANGED <<creader, cwriter>>
        /\ UNCHANGED <<wwriter, cwriter>>
    BY <1>12 DEF WorkerRequests, LoginOrReport, CaptainReads, worker, captain, world, CurrentInv, ServeOrder
  <2>2. ASSUME Pending PROVE Pending'
    <3>1. CASE WorkerRequests
      <4>1. up' = Append(up, "request")
        BY <3>1 DEF WorkerRequests
      <4>2. Len(up) + 1 \in DOMAIN up' /\ up'[Len(up) + 1] = "request"
        BY <1>0, <4>1, AppendAt
      <4> QED
        BY <4>2 DEF Pending
    <3>2. CASE LoginOrReport
      <4>1. up' = Append(up, "traffic") /\ UNCHANGED <<wreader, creader>>
        BY <3>2 DEF LoginOrReport, worker, captain
      <4>2. \A i \in DOMAIN up : i \in DOMAIN up' /\ up'[i] = up[i]
        BY <1>0, <4>1, AppendAt
      <4> QED
        BY <2>1, <2>2, <4>1, <4>2 DEF Pending
    <3>3. CASE CaptainReads
      <4>1. /\ creader = "reading" /\ up # << >> /\ up' = Tail(up) /\ UNCHANGED wreader
            /\ Head(up) = "request" => creader' = "query"
        BY <3>3 DEF CaptainReads, worker
      <4>2. /\ Head(up) = up[1]
            /\ \A i \in DOMAIN up : i = 1 \/ (i - 1 \in DOMAIN up' /\ up'[i - 1] = up[i])
        BY <1>0, <4>1, TailAt
      <4> QED
        BY <2>1, <2>2, <4>1, <4>2 DEF Pending
    <3> QED
      BY <1>12, <3>1, <3>2, <3>3
  <2> QED
    BY <2>1, <2>2, CurrentFrame DEF InUse
<1>13. CASE \/ Login \/ DialFails \/ SessionEnds \/ WorkerReaderEnds
            \/ Link \/ UNCHANGED vars
  <2>1. UNCHANGED <<cfg, db, admin, told, initial, down, up, serve, answer, missed, creader, wwriter, cwriter>>
    BY <1>13 DEF Login, DialFails, SessionEnds, WorkerReaderEnds,
       Link, WorkerNotices, CaptainNotices, WriteDeadline, PongMissed, vars, worker, captain, queues, world, Fault
  <2>2. wreader = "requesting" => wreader' = "requesting"
    BY <1>13 DEF Login, DialFails, SessionEnds, WorkerReaderEnds,
       Link, WorkerNotices, CaptainNotices, WriteDeadline, PongMissed, vars, worker, captain, queues, world
  <2> QED
    BY <2>1, <2>2, CurrentFrame DEF Pending, InUse
<1>14. CASE CaptainPumpRemoves \/ FormerRemoves \/ LoginRefused \/ OtpExpires \/ LinkLost
  <2>1. UNCHANGED <<cfg, db, admin, told, initial, down, up, serve, answer, missed, wreader>>
    BY <1>14 DEF CaptainPumpRemoves, FormerRemoves,
       LoginRefused, OtpExpires, LinkLost, worker, captain, queues, world
  <2>2. /\ creader' = "answer" <=> creader = "answer"
        /\ creader = "query" => creader' = "query"
        /\ creader = "off" /\ cwriter = "off" => creader' = "off" /\ cwriter' = "off"
        /\ InUse' => InUse
    BY <1>14 DEF CaptainPumpRemoves, FormerRemoves,
       LoginRefused, OtpExpires, LinkLost, worker, captain, queues, world, InUse
  <2>3. serve \in {"check", "add"} => creader = "off" /\ cwriter = "off"
    BY DEF CurrentInv, ServeOrder
  <2> QED
    BY <2>1, <2>2, <2>3, CurrentFrame DEF Pending
<1>15. CASE WorkerWriterEnds
  <2>1. ~InUse' /\ UNCHANGED <<serve, creader, cwriter, initial, db, admin, told>>
    BY <1>15 DEF WorkerWriterEnds, InUse, captain, world
  <2> QED
    BY <2>1 DEF CurrentInv, ServeOrder, Covered, Accepted
<1>16. CASE CaptainPumpEnds
  <2>1. CASE cwriter' = "removing"
    <3>1. ~InUse' /\ UNCHANGED <<serve, initial, db, admin, told>> /\ (UNCHANGED creader \/ creader = "reading")
      BY <1>16, <2>1 DEF CaptainPumpEnds, InUse, world
    <3>2. UNCHANGED cwriter \/ cwriter = "writing"
      BY <1>16 DEF CaptainPumpEnds
    <3> QED
      BY <3>1, <3>2, <2>1 DEF CurrentInv, ServeOrder, Covered, Accepted
  <2>2. CASE cwriter' # "removing"
    <3>1. /\ creader = "reading" /\ creader' = "removing"
          /\ UNCHANGED <<cfg, db, admin, told, initial, down, up, serve, answer, missed, wreader, wwriter, cwriter>>
      BY <1>16, <2>2 DEF CaptainPumpEnds, worker, world
    <3>2. serve \notin {"check", "add"}
      BY <3>1 DEF CurrentInv, ServeOrder
    <3> QED
      BY <3>1, <3>2, CurrentFrame DEF Pending, InUse
  <2> QED
    BY <2>1, <2>2
<1> QED
  BY <1>1, <1>2, <1>3, <1>4, <1>5, <1>6, <1>7, <1>8, <1>9, <1>10, <1>11, <1>12, <1>13, <1>14, <1>15, <1>16, <1>17
     DEF Next, ConnectionLoop, WorkerReader, ServeWS, InitialConfig, CaptainReader, CaptainPumpsEnd, Notify, Faults

(* When nothing is under way on a connection in use the worker has the     *)
(* current configuration, unless it was overtaken, a query failed, or the  *)
(* worker was not in the registry when the change was announced.           *)
THEOREM QuietIsCurrent == Spec => []QuietMeansCurrent
<1>1. Init => OrderInv /\ CurrentInv
  BY DEF Init, OrderInv, NoneNewer, DownOrdered, AnswerOrdered, IsConfig, Answering,
         CurrentInv, ServeOrder, Covered, Accepted
<1>2. TypeOK /\ TypeOK' /\ OrderInv /\ CurrentInv /\ [Next]_vars => OrderInv' /\ CurrentInv'
  BY OrderStep, CurrentStep
<1>3. CurrentInv => QuietMeansCurrent
  <2> SUFFICES ASSUME CurrentInv, Quiet, ~missed PROVE cfg = db
    BY DEF QuietMeansCurrent
  <2>1. ~Pending /\ \A i : ~IsConfig(i)
    BY DEF Quiet, Pending, IsConfig
  <2> QED
    BY <2>1 DEF Quiet, CurrentInv, Covered, Accepted, InUse, LastIsCurrent
<1> QED
  BY <1>1, <1>2, <1>3, TypeCorrect, PTL DEF Spec

-----------------------------------------------------------------------------
(* The three waits.  The loop goes on only when both pumps have ended.       *)
PumpsOver == loop # "session" => wreader = "done" /\ wwriter = "done"

LEMMA PumpsOverStep == ASSUME PumpsOver, [Next]_vars PROVE PumpsOver'
<1> USE DEF PumpsOver
<1>1. CASE ConnectionLoop
  BY <1>1 DEF ConnectionLoop, Login, DialFails, Dial, SessionEnds
<1>2. CASE WorkerReader \/ WorkerRequests \/ WorkerWriterEnds \/ LoginOrReport
  BY <1>2 DEF WorkerReader, WorkerReads, CanRead, WorkerReaderEnds, WorkerRequests, WorkerWriterEnds,
     LoginOrReport, worker
<1>3. CASE UNCHANGED vars
  BY <1>3 DEF vars, worker
<1>4. CASE Link \/ ServeWS \/ InitialConfig \/ CaptainReader \/ CaptainPumpsEnd \/ FormerRemoves
  BY <1>4 DEF Link, WorkerNotices, CaptainNotices, WriteDeadline, PongMissed, ServeWS, CheckDuplicate, AddWorker,
     InitialConfig, QueryInitial, SendInitial, CaptainReader, CaptainReads, CaptainQueries, CaptainAnswers, CaptainReplies,
     CaptainPumpsEnd, CaptainPumpEnds, CaptainPumpRemoves, FormerRemoves, worker
<1>5. CASE Change \/ Notify
  BY <1>5 DEF Change, Notify, NotifyBegins, NotifyEnds, NotifyBlocks, worker
<1>6. CASE Faults
  BY <1>6 DEF Faults, LoginRefused, OtpExpires, LinkLost, QueryInitialFails, CaptainQueryFails, worker
<1> QED
  BY <1>1, <1>2, <1>3, <1>4, <1>5, <1>6 DEF Next

(* The read pump's channel stays full: only its own write pump empties it. *)
LEMMA WorkerWedgeStays ==
    ASSUME PumpsOver, WorkerWedged, [Next]_vars
    PROVE  WorkerWedged'
<1>1. wreader = "requesting" /\ wwriter = "done" /\ ~WorkerRoom /\ loop = "session"
  BY DEF WorkerWedged, PumpsOver
<1>2. UNCHANGED <<wreader, wwriter, up>>
  <2>1. CASE ConnectionLoop
    BY <1>1, <2>1 DEF ConnectionLoop, Login, DialFails, Dial, SessionEnds
  <2>2. CASE WorkerReader \/ WorkerRequests \/ WorkerWriterEnds \/ LoginOrReport
    BY <1>1, <2>2 DEF WorkerReader, WorkerReads, CanRead, WorkerReaderEnds, WorkerRequests,
       WorkerWriterEnds, LoginOrReport
  <2>3. CASE UNCHANGED vars
    BY <2>3 DEF vars, worker, queues
  <2>4. CASE Link \/ ServeWS \/ InitialConfig
    BY <2>4 DEF Link, WorkerNotices, CaptainNotices, WriteDeadline, PongMissed, ServeWS, CheckDuplicate, AddWorker,
       InitialConfig, QueryInitial, SendInitial, worker, queues
  <2>5. CASE CaptainReader \/ CaptainPumpsEnd \/ FormerRemoves
    BY <1>1, <2>5 DEF CaptainReader, CaptainReads, CaptainQueries, CaptainAnswers, CaptainReplies,
       CaptainPumpsEnd, CaptainPumpEnds, CaptainPumpRemoves, FormerRemoves, worker, queues
  <2>6. CASE Change \/ Notify
    BY <2>6 DEF Change, Notify, NotifyBegins, NotifyEnds, NotifyBlocks, worker, queues
  <2>7. CASE Faults
    BY <2>7 DEF Faults, LoginRefused, OtpExpires, LinkLost, QueryInitialFails, CaptainQueryFails,
       worker, queues
  <2> QED
    BY <2>1, <2>2, <2>3, <2>4, <2>5, <2>6, <2>7 DEF Next
<1> QED
  BY <1>1, <1>2 DEF WorkerWedged, WorkerRoom

(* No step of the worker's or the captain's lets an abandoned pump go on.  *)
LEMMA AbandonedStays ==
    ASSUME PumpsOver, ReaderAbandoned, [Next]_vars
    PROVE  ReaderAbandoned'
<1>1. wreader = "abandoned" /\ loop = "session"
  BY DEF ReaderAbandoned, PumpsOver
<1>2. CASE ConnectionLoop
  BY <1>1, <1>2 DEF ConnectionLoop, Login, DialFails, Dial, SessionEnds, ReaderAbandoned
<1>3. CASE WorkerReader \/ WorkerRequests \/ WorkerWriterEnds \/ LoginOrReport
  BY <1>1, <1>3 DEF WorkerReader, WorkerReads, CanRead, WorkerReaderEnds, WorkerRequests,
     WorkerWriterEnds, LoginOrReport, worker, ReaderAbandoned
<1>4. CASE Link \/ ServeWS \/ InitialConfig \/ UNCHANGED vars
  BY <1>1, <1>4 DEF Link, WorkerNotices, CaptainNotices, WriteDeadline, PongMissed, ServeWS,
     CheckDuplicate, AddWorker, InitialConfig, QueryInitial, SendInitial, vars, worker, ReaderAbandoned
<1>5. CASE CaptainReader \/ CaptainPumpsEnd \/ FormerRemoves
  BY <1>1, <1>5 DEF CaptainReader, CaptainReads, CaptainQueries, CaptainAnswers, CaptainReplies,
     CaptainPumpsEnd, CaptainPumpEnds, CaptainPumpRemoves, FormerRemoves, worker, ReaderAbandoned
<1>6. CASE Change \/ Notify
  BY <1>1, <1>6 DEF Change, Notify, NotifyBegins, NotifyEnds, NotifyBlocks, worker, ReaderAbandoned
<1>7. CASE Faults
  BY <1>1, <1>7 DEF Faults, LoginRefused, OtpExpires, LinkLost, QueryInitialFails,
     CaptainQueryFails, worker, ReaderAbandoned
<1> QED
  BY <1>2, <1>3, <1>4, <1>5, <1>6, <1>7 DEF Next

(* The broadcast keeps the registry as it is and its channel full; dialling *)
(* again takes the connection away, not the wait.                          *)
LEMMA NotifyWedgeStays ==
    ASSUME NotifyWedged, [Next]_vars
    PROVE  NotifyWedged'
<1>1. ~MutexFree /\ admin \notin {"idle", "committed"}
  BY DEF NotifyWedged, MutexFree
<1>2. CASE Dial
  BY <1>2 DEF Dial, NotifyWedged
<1>3. CASE admin = "wedged" /\ ~Dial
  <2>1. UNCHANGED admin
    <3>1. CASE Login \/ DialFails \/ SessionEnds \/ WorkerReader \/ WorkerRequests \/ WorkerWriterEnds
      BY <3>1 DEF Login, DialFails, SessionEnds, WorkerReader, WorkerReads, WorkerReaderEnds,
         WorkerRequests, WorkerWriterEnds, world
    <3>2. CASE LoginOrReport \/ Link \/ ServeWS \/ InitialConfig \/ UNCHANGED vars
      BY <3>2 DEF LoginOrReport, Link, WorkerNotices, CaptainNotices, WriteDeadline, PongMissed, ServeWS, CheckDuplicate,
         AddWorker, InitialConfig, QueryInitial, SendInitial, vars, world
    <3>3. CASE CaptainReader \/ CaptainPumpsEnd \/ FormerRemoves
      BY <3>3 DEF CaptainReader, CaptainReads, CaptainQueries, CaptainAnswers, CaptainReplies,
         CaptainPumpsEnd, CaptainPumpEnds, CaptainPumpRemoves, FormerRemoves, world
    <3>4. CASE Change \/ Notify
      BY <1>3, <3>4 DEF Change, Notify, NotifyBegins, NotifyEnds, NotifyBlocks
    <3>5. CASE Faults
      BY <3>5 DEF Faults, LoginRefused, OtpExpires, LinkLost, QueryInitialFails, CaptainQueryFails
    <3> QED
      BY <1>3, <3>1, <3>2, <3>3, <3>4, <3>5 DEF Next, ConnectionLoop
  <2> QED
    BY <1>3, <2>1 DEF NotifyWedged
<1>4. CASE admin # "wedged" /\ ~Dial
  <2>1. admin = "notifying" /\ entry = "current" /\ ~CaptainRoom /\ cwriter \in {"removing", "done"}
    BY <1>4 DEF NotifyWedged
  <2>2. UNCHANGED <<admin, entry, down, cwriter>>
    <3>1. CASE Login \/ DialFails \/ SessionEnds \/ WorkerReader \/ WorkerRequests \/ WorkerWriterEnds
      BY <2>1, <3>1 DEF Login, DialFails, SessionEnds, WorkerReader, WorkerReads, CanRead, WorkerReaderEnds,
         WorkerRequests, WorkerWriterEnds, captain, queues, world
    <3>2. CASE LoginOrReport \/ Link \/ ServeWS \/ InitialConfig \/ UNCHANGED vars
      BY <1>1, <2>1, <3>2 DEF LoginOrReport, Link, WorkerNotices, CaptainNotices, WriteDeadline, PongMissed, ServeWS,
         CheckDuplicate, AddWorker, InitialConfig, QueryInitial, SendInitial, vars, captain, queues, world
    <3>3. CASE CaptainReader
      BY <2>1, <3>3 DEF CaptainReader, CaptainReads, CaptainQueries, CaptainAnswers, CaptainReplies, queues, world
    <3>4. CASE CaptainPumpsEnd \/ FormerRemoves
      BY <1>1, <2>1, <3>4 DEF CaptainPumpsEnd, CaptainPumpEnds, CaptainPumpRemoves, FormerRemoves, queues, world
    <3>5. CASE Change \/ Notify
      BY <2>1, <3>5 DEF Change, Notify, NotifyBegins, NotifyEnds, NotifyBlocks
    <3>6. CASE Faults
      BY <3>6 DEF Faults, LoginRefused, OtpExpires, LinkLost, QueryInitialFails, CaptainQueryFails,
         captain, queues
    <3> QED
      BY <1>4, <3>1, <3>2, <3>3, <3>4, <3>5, <3>6 DEF Next, ConnectionLoop
  <2> QED
    BY <2>1, <2>2 DEF NotifyWedged, CaptainRoom
<1> QED
  BY <1>2, <1>3, <1>4

(* The worker's read pump waiting for its ended write pump, or for a       *)
(* caller that never receives, and a broadcast waiting for an ended write  *)
(* pump at the captain, wait for ever: a lost link, another login or the   *)
(* pumps that end elsewhere do not free them.                              *)
THEOREM WedgesStay == Spec => SessionWedgesAreFinal
<1>1. Init => PumpsOver
  BY DEF Init, PumpsOver
<1>2. PumpsOver /\ [Next]_vars => PumpsOver'
  BY PumpsOverStep
<1>3. PumpsOver /\ [Next]_vars =>
        /\ WorkerWedged => WorkerWedged'
        /\ ReaderAbandoned => ReaderAbandoned'
        /\ NotifyWedged => NotifyWedged'
  BY WorkerWedgeStays, AbandonedStays, NotifyWedgeStays
<1> QED
  BY <1>1, <1>2, <1>3, PTL DEF Spec, SessionWedgesAreFinal
=============================================================================

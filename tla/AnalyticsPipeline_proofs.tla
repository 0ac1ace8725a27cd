---------------------- MODULE AnalyticsPipeline_proofs ----------------------
(* The pipeline's types, its safety and that it is an event sink, for every *)
(* set of streams, number of events, channel capacity and batch size.       *)
EXTENDS AnalyticsPipeline, TLAPS

(* What the flushes rely on: only settled events are in the table, a flush  *)
(* has something to insert, an insert holds events of the batch, and all    *)
(* of them on a faultless stream.                                           *)
OnlySettledStored ==
    \A s \in Streams, e \in Events : settled[s] < e => rows[s][e] = 0

FlushHasEvents == \A s \in Streams : loop[s] # "select" => settled[s] < taken[s]

InsertsFromBatch == \A s \in Streams : loop[s] = "send" => appended[s] \subseteq Batch(s)

InsertsComplete == \A s \in faultless : loop[s] = "send" => appended[s] = Batch(s)

PipelineInv ==
    /\ OnlySettledStored
    /\ FlushHasEvents
    /\ InsertsFromBatch
    /\ InsertsComplete
    /\ LossNeedsFault

-----------------------------------------------------------------------------
(* Every reachable state is well typed, and no channel or batch ever holds *)
(* more than it has room for.                                              *)
LEMMA InitTyped == ASSUME Init PROVE TypeOK
  BY PipelineAssumption DEF Init, TypeOK, WithinBounds

LEMMA TypeStep == ASSUME TypeOK, [Next]_vars PROVE TypeOK'
<1> USE PipelineAssumption
<1>1. ASSUME NEW s \in Streams, Record(s) PROVE TypeOK'
  BY <1>1 DEF Record, HasRoom, TypeOK, WithinBounds
<1>2. ASSUME NEW s \in Streams, Take(s) PROVE TypeOK'
  BY <1>2 DEF Take, FlushDue, TypeOK, WithinBounds
<1>3. ASSUME NEW s \in Streams, Tick(s) PROVE TypeOK'
  BY <1>3 DEF Tick, TypeOK, WithinBounds
<1>4. ASSUME NEW s \in Streams, Prepare(s) PROVE TypeOK'
  <2>1. PICK kept \in SUBSET Batch(s) :
          /\ appended' = [appended EXCEPT ![s] = kept]
          /\ faultless' = IF kept = Batch(s) THEN faultless ELSE faultless \ {s}
    BY <1>4 DEF Prepare
  <2>2. kept \subseteq Events
    BY <2>1 DEF Batch
  <2>3. appended' \in [Streams -> SUBSET Events] /\ faultless' \subseteq Streams
    BY <2>1, <2>2 DEF TypeOK
  <2> QED
    BY <1>4, <2>3 DEF Prepare, TypeOK, WithinBounds
<1>5. ASSUME NEW s \in Streams, PrepareFails(s) PROVE TypeOK'
  BY <1>5 DEF PrepareFails, EmptyBatch, TypeOK, WithinBounds
<1>6. ASSUME NEW s \in Streams, Send(s) PROVE TypeOK'
  <2>1. rows' \in [Streams -> [Events -> Nat]]
    BY <1>6 DEF Send, Insert, TypeOK
  <2>2. /\ UNCHANGED <<accepted, taken, clickhouse, process, faultless>>
        /\ settled' = [settled EXCEPT ![s] = taken[s]]
        /\ loop' = [loop EXCEPT ![s] = "select"]
        /\ appended' = [appended EXCEPT ![s] = {}]
    BY <1>6 DEF Send, EmptyBatch
  <2>3. WithinBounds'
    BY <2>2 DEF TypeOK, WithinBounds
  <2> QED
    BY <2>1, <2>2, <2>3 DEF TypeOK
<1>7. ASSUME NEW s \in Streams, SendFails(s) PROVE TypeOK'
  BY <1>7 DEF SendFails, EmptyBatch, TypeOK, WithinBounds
<1>8. CASE CloseClickHouse \/ End
  BY <1>8 DEF CloseClickHouse, End, TypeOK, WithinBounds
<1>9. CASE Restart
  BY <1>9 DEF Restart, TypeOK, WithinBounds
<1>10. CASE UNCHANGED vars
  BY <1>10 DEF vars, TypeOK, WithinBounds
<1> QED
  BY <1>1, <1>2, <1>3, <1>4, <1>5, <1>6, <1>7, <1>8, <1>9, <1>10 DEF Next, Loop

THEOREM TypeCorrect == Spec => []TypeOK
  BY InitTyped, TypeStep, PTL DEF Spec

-----------------------------------------------------------------------------
LEMMA InitSafe == ASSUME Init PROVE PipelineInv
  BY PipelineAssumption
     DEF Init, PipelineInv, OnlySettledStored, FlushHasEvents, InsertsFromBatch,
         InsertsComplete, LossNeedsFault, Events

(* Accepting an event or moving it to the batch concerns no insert.        *)
LEMMA CollectSafe ==
    ASSUME TypeOK, PipelineInv, NEW s \in Streams, Record(s) \/ Take(s) \/ Tick(s)
    PROVE  PipelineInv'
<1> USE DEF TypeOK, PipelineInv
<1>1. UNCHANGED <<settled, rows, appended, faultless>>
  BY DEF Record, Take, Tick
<1>2. OnlySettledStored' /\ LossNeedsFault'
  BY <1>1 DEF OnlySettledStored, LossNeedsFault
<1>3. ASSUME NEW z \in Streams, loop'[z] = "send"
      PROVE  loop[z] = "send" /\ taken'[z] = taken[z]
  BY <1>3 DEF Record, Take, Tick
<1>4. InsertsFromBatch' /\ InsertsComplete'
  BY <1>1, <1>3 DEF InsertsFromBatch, InsertsComplete, Batch
<1>5. FlushHasEvents'
  BY PipelineAssumption DEF FlushHasEvents, Record, Take, FlushDue, Tick, WithinBounds
<1> QED
  BY <1>2, <1>4, <1>5

LEMMA PrepareSafe ==
    ASSUME TypeOK, PipelineInv, NEW s \in Streams, Prepare(s) PROVE PipelineInv'
<1> USE DEF TypeOK, PipelineInv
<1>1. PICK kept \in SUBSET Batch(s) :
        /\ appended' = [appended EXCEPT ![s] = kept]
        /\ faultless' = IF kept = Batch(s) THEN faultless ELSE faultless \ {s}
  BY DEF Prepare
<1>2. UNCHANGED <<settled, rows, taken>> /\ loop' = [loop EXCEPT ![s] = "send"] /\ loop[s] = "prepare"
  BY DEF Prepare
<1>3. faultless' \subseteq faultless /\ (s \in faultless' => kept = Batch(s))
  BY <1>1
<1>4. OnlySettledStored' /\ LossNeedsFault'
  BY <1>2, <1>3 DEF OnlySettledStored, LossNeedsFault
<1>5. FlushHasEvents'
  BY <1>2 DEF FlushHasEvents
<1>6. InsertsFromBatch'
  BY <1>1, <1>2 DEF InsertsFromBatch, Batch
<1>7. InsertsComplete'
  BY <1>1, <1>2, <1>3 DEF InsertsComplete, Batch
<1> QED
  BY <1>4, <1>5, <1>6, <1>7

(* A flush that fails settles the batch of a stream that is no longer      *)
(* faultless.                                                              *)
LEMMA FailSafe ==
    ASSUME TypeOK, PipelineInv, NEW s \in Streams, PrepareFails(s) \/ SendFails(s)
    PROVE  PipelineInv'
<1> USE DEF TypeOK, PipelineInv
<1>1. /\ UNCHANGED <<rows, taken>> /\ settled' = [settled EXCEPT ![s] = taken[s]]
      /\ loop' = [loop EXCEPT ![s] = "select"] /\ faultless' = faultless \ {s}
  BY DEF PrepareFails, SendFails, EmptyBatch
<1>2. \A z \in Streams : z # s => appended'[z] = appended[z]
  BY DEF PrepareFails, SendFails
<1>3. \A z \in Streams : settled[z] <= settled'[z]
  BY <1>1 DEF WithinBounds
<1>4. OnlySettledStored'
  BY <1>1, <1>3 DEF OnlySettledStored, Events
<1>5. LossNeedsFault'
  BY <1>1 DEF LossNeedsFault
<1>6. FlushHasEvents' /\ InsertsFromBatch' /\ InsertsComplete'
  BY <1>1, <1>2 DEF FlushHasEvents, InsertsFromBatch, InsertsComplete, Batch
<1> QED
  BY <1>4, <1>5, <1>6

LEMMA SendSafe ==
    ASSUME TypeOK, PipelineInv, NEW s \in Streams, Send(s) PROVE PipelineInv'
<1> USE DEF TypeOK, PipelineInv
<1>1. /\ UNCHANGED <<taken, faultless>> /\ settled' = [settled EXCEPT ![s] = taken[s]]
      /\ loop[s] = "send" /\ loop' = [loop EXCEPT ![s] = "select"]
      /\ appended' = [appended EXCEPT ![s] = {}]
  BY DEF Send, EmptyBatch
<1>2. \A z \in Streams : z # s => rows'[z] = rows[z]
  BY DEF Send, Insert
<1>3. \A e \in Events : rows'[s][e] = IF e \in appended[s] THEN rows[s][e] + 1 ELSE rows[s][e]
  BY DEF Send, Insert
<1>4. settled[s] < taken[s]
  BY <1>1 DEF FlushHasEvents
<1>5. \A e \in appended[s] : settled[s] < e /\ e <= taken[s]
  BY <1>1 DEF InsertsFromBatch, Batch
<1>6. \A e \in Events : taken[s] < e => e \notin appended[s] /\ settled[s] < e
  BY <1>4, <1>5 DEF Events
<1>7. OnlySettledStored'
  BY <1>1, <1>2, <1>3, <1>6 DEF OnlySettledStored
<1>8. \A e \in appended[s] : rows[s][e] = 0
  BY <1>5 DEF OnlySettledStored
<1>9. ASSUME s \in faultless, NEW e \in Events
      PROVE  rows'[s][e] = IF e <= taken[s] THEN 1 ELSE 0
  <2>1. appended[s] = Batch(s)
    BY <1>1, <1>9 DEF InsertsComplete
  <2>2. CASE e \in appended[s]
    BY <2>2, <1>3, <1>5, <1>8
  <2>3. CASE e \notin appended[s]
    BY <2>1, <2>3, <1>3, <1>4, <1>9 DEF Batch, LossNeedsFault, Events
  <2> QED
    BY <2>2, <2>3
<1>10. LossNeedsFault'
  BY <1>1, <1>2, <1>9 DEF LossNeedsFault
<1>11. FlushHasEvents' /\ InsertsFromBatch' /\ InsertsComplete'
  BY <1>1 DEF FlushHasEvents, InsertsFromBatch, InsertsComplete, Batch
<1> QED
  BY <1>7, <1>10, <1>11

LEMMA RestartSafe == ASSUME TypeOK, PipelineInv, Restart PROVE PipelineInv'
<1> USE DEF TypeOK, PipelineInv
<1>1. \A z \in Streams : settled[z] <= settled'[z]
  BY DEF Restart, WithinBounds
<1>2. OnlySettledStored'
  BY <1>1 DEF OnlySettledStored, Restart, Events
<1>3. LossNeedsFault'
  BY DEF LossNeedsFault, Restart
<1>4. FlushHasEvents' /\ InsertsFromBatch' /\ InsertsComplete'
  BY DEF FlushHasEvents, InsertsFromBatch, InsertsComplete, Restart
<1> QED
  BY <1>2, <1>3, <1>4

LEMMA PipelineStep == ASSUME TypeOK, PipelineInv, [Next]_vars PROVE PipelineInv'
<1>1. CASE CloseClickHouse \/ End \/ UNCHANGED vars
  BY <1>1 DEF CloseClickHouse, End, vars, PipelineInv, OnlySettledStored, FlushHasEvents,
              InsertsFromBatch, InsertsComplete, LossNeedsFault, Batch
<1> QED
  BY <1>1, CollectSafe, PrepareSafe, FailSafe, SendSafe, RestartSafe DEF Next, Loop

(* On a stream without a failed insert or an event gone with the process   *)
(* all settled events are stored.                                          *)
THEOREM PipelineSafety == Spec => []LossNeedsFault
<1>1. TypeOK /\ PipelineInv /\ [Next]_vars => TypeOK' /\ PipelineInv'
  BY TypeStep, PipelineStep
<1>2. PipelineInv => LossNeedsFault
  BY DEF PipelineInv
<1> QED
  BY InitTyped, InitSafe, <1>1, <1>2, PTL DEF Spec

-----------------------------------------------------------------------------
(* A flush, whatever its outcome, settles the batch; what it stores of it  *)
(* is what the insert held.                                                *)
LEMMA FlushSettles ==
    ASSUME TypeOK, PipelineInv, NEW s \in Streams,
           PrepareFails(s) \/ Send(s) \/ SendFails(s)
    PROVE  Sink!Settle(s)
<1> USE DEF TypeOK, PipelineInv
<1> DEFINE kept == IF UNCHANGED rows THEN {} ELSE appended[s]
<1>1. settled' = [settled EXCEPT ![s] = taken[s]] /\ UNCHANGED accepted /\ loop[s] # "select"
  BY DEF PrepareFails, Send, SendFails, EmptyBatch
<1>2. taken[s] \in (settled[s] + 1)..accepted[s]
  BY <1>1 DEF FlushHasEvents, WithinBounds
<1>3. kept \in SUBSET Sink!Events /\ \A e \in kept : settled[s] < e /\ e <= taken[s]
  <2>1. CASE UNCHANGED rows
    BY <2>1
  <2>2. CASE ~UNCHANGED rows
    <3>1. loop[s] = "send"
      BY <2>2 DEF PrepareFails, Send, SendFails
    <3> QED
      BY <2>2, <3>1 DEF InsertsFromBatch, Batch, Events, Sink!Events
  <2> QED
    BY <2>1, <2>2
<1>4. rows' = [rows EXCEPT ![s] = [e \in Sink!Events |-> IF e \in kept THEN @[e] + 1 ELSE @[e]]]
  <2>1. CASE UNCHANGED rows
    BY <2>1 DEF Events, Sink!Events
  <2>2. CASE ~UNCHANGED rows
    <3>1. Insert(s)
      BY <2>2 DEF PrepareFails, Send, SendFails
    <3> QED
      BY <2>2, <3>1 DEF Insert, Events, Sink!Events
  <2> QED
    BY <2>1, <2>2
<1> HIDE DEF kept
<1> QED
  BY <1>1, <1>2, <1>3, <1>4 DEF Sink!Settle

LEMMA StepRefines ==
    ASSUME TypeOK, PipelineInv, [Next]_vars PROVE [Sink!SinkNext]_(Sink!sinkVars)
<1>1. ASSUME NEW s \in Streams, Record(s) PROVE Sink!Accept(s)
  BY <1>1 DEF Record, Sink!Accept
<1>2. ASSUME NEW s \in Streams, Take(s) \/ Tick(s) \/ Prepare(s) PROVE UNCHANGED Sink!sinkVars
  BY <1>2 DEF Take, Tick, Prepare, Sink!sinkVars
<1>3. ASSUME Restart PROVE Sink!LoseAll
  BY <1>3 DEF Restart, Sink!LoseAll
<1>4. ASSUME CloseClickHouse \/ End \/ UNCHANGED vars PROVE UNCHANGED Sink!sinkVars
  BY <1>4 DEF CloseClickHouse, End, vars, Sink!sinkVars
<1> QED
  BY <1>1, <1>2, <1>3, <1>4, FlushSettles DEF Next, Loop, Sink!SinkNext

(* The pipeline implements the event sink: events are settled in order,    *)
(* once, and each is stored at most once.                                  *)
THEOREM PipelineImplementsSink == Spec => SinkSpec
<1>1. Init => Sink!SinkInit
  BY DEF Init, Sink!SinkInit, Events, Sink!Events
<1>2. TypeOK /\ PipelineInv /\ [Next]_vars => TypeOK' /\ PipelineInv'
  BY TypeStep, PipelineStep
<1>3. TypeOK /\ PipelineInv /\ [Next]_vars => [Sink!SinkNext]_(Sink!sinkVars)
  BY StepRefines
<1> QED
  BY InitTyped, InitSafe, <1>1, <1>2, <1>3, PTL DEF Spec, SinkSpec, Sink!SinkSpec

-----------------------------------------------------------------------------
(* What the sink promises holds of the pipeline.                           *)
SinkInv ==
    /\ accepted \in [Streams -> Nat] /\ settled \in [Streams -> Nat]
    /\ rows \in [Streams -> [Sink!Events -> Nat]]
    /\ \A s \in Streams : settled[s] <= accepted[s]
    /\ \A s \in Streams, e \in Sink!Events :
          /\ rows[s][e] <= 1
          /\ settled[s] < e => rows[s][e] = 0

LEMMA SinkSettles == ASSUME SinkInv, NEW s \in Streams, Sink!Settle(s) PROVE SinkInv'
<1> USE DEF Sink!Events
<1>0. /\ accepted \in [Streams -> Nat] /\ settled \in [Streams -> Nat]
      /\ rows \in [Streams -> [Sink!Events -> Nat]]
      /\ \A z \in Streams : settled[z] <= accepted[z]
      /\ \A z \in Streams, e \in Sink!Events : rows[z][e] <= 1 /\ (settled[z] < e => rows[z][e] = 0)
  BY DEF SinkInv
<1>1. PICK n \in (settled[s] + 1)..accepted[s], kept \in SUBSET Sink!Events :
        /\ \A e \in kept : settled[s] < e /\ e <= n
        /\ settled' = [settled EXCEPT ![s] = n]
        /\ rows' = [rows EXCEPT ![s] = [e \in Sink!Events |-> IF e \in kept THEN @[e] + 1 ELSE @[e]]]
  BY DEF Sink!Settle
<1>2. n \in Nat /\ settled[s] < n /\ n <= accepted[s] /\ UNCHANGED accepted
  BY <1>0 DEF Sink!Settle
<1>3. \A e \in Sink!Events : rows'[s][e] = IF e \in kept THEN rows[s][e] + 1 ELSE rows[s][e]
  BY <1>0, <1>1
<1>4. ASSUME NEW e \in Sink!Events
      PROVE  /\ rows'[s][e] \in Nat /\ rows'[s][e] <= 1
             /\ n < e => rows'[s][e] = 0
  <2>1. rows[s][e] \in Nat /\ rows[s][e] <= 1 /\ (settled[s] < e => rows[s][e] = 0)
    BY <1>0
  <2>2. CASE e \in kept
    BY <1>0, <1>1, <1>2, <1>3, <2>1, <2>2
  <2>3. CASE e \notin kept
    BY <1>0, <1>2, <1>3, <2>1, <2>3
  <2> QED
    BY <2>2, <2>3
<1>5. /\ \A z \in Streams : z # s => rows'[z] = rows[z] /\ settled'[z] = settled[z]
      /\ settled'[s] = n
  BY <1>0, <1>1
<1>6. settled' \in [Streams -> Nat] /\ rows' \in [Streams -> [Sink!Events -> Nat]]
  <2> DEFINE F == [e \in Sink!Events |-> IF e \in kept THEN rows[s][e] + 1 ELSE rows[s][e]]
  <2>1. rows' = [rows EXCEPT ![s] = F]
    BY <1>1
  <2>2. F \in [Sink!Events -> Nat]
    <3>1. ASSUME NEW e \in Sink!Events
          PROVE  (IF e \in kept THEN rows[s][e] + 1 ELSE rows[s][e]) \in Nat
      <4>1. rows[s][e] \in Nat
        BY <1>0
      <4>2. rows[s][e] + 1 \in Nat
        BY <4>1
      <4> QED
        BY <4>1, <4>2, Zenon
    <3> HIDE DEF Sink!Events
    <3> QED
      BY <3>1, Zenon
  <2> HIDE DEF F
  <2>3. rows' \in [Streams -> [Sink!Events -> Nat]]
    BY <1>0, <2>1, <2>2
  <2> QED
    BY <1>0, <1>1, <1>2, <2>3
<1>7. \A z \in Streams : settled'[z] <= accepted'[z]
  BY <1>0, <1>2, <1>5
<1>8. \A z \in Streams, e \in Sink!Events : rows'[z][e] <= 1 /\ (settled'[z] < e => rows'[z][e] = 0)
  BY <1>0, <1>4, <1>5
<1> QED
  BY <1>0, <1>2, <1>6, <1>7, <1>8 DEF SinkInv

LEMMA SinkStep == ASSUME SinkInv, [Sink!SinkNext]_(Sink!sinkVars) PROVE SinkInv'
<1>1. ASSUME NEW s \in Streams, Sink!Accept(s) PROVE SinkInv'
  BY <1>1 DEF SinkInv, Sink!Accept
<1>2. CASE Sink!LoseAll
  BY <1>2 DEF SinkInv, Sink!LoseAll, Sink!Events
<1>3. CASE UNCHANGED Sink!sinkVars
  BY <1>3 DEF SinkInv, Sink!sinkVars
<1> QED
  BY <1>1, <1>2, <1>3, SinkSettles DEF Sink!SinkNext

(* Whatever is an event sink stores no event twice: the events of a        *)
(* settlement had not been settled before.                                 *)
THEOREM SinkStoresOnce == SinkSpec => []StoredAtMostOnce
<1>1. Sink!SinkInit => SinkInv
  BY DEF Sink!SinkInit, SinkInv, Sink!Events
<1>2. SinkInv => StoredAtMostOnce
  BY DEF SinkInv, StoredAtMostOnce, Events, Sink!Events
<1> QED
  BY <1>1, <1>2, SinkStep, PTL DEF SinkSpec, Sink!SinkSpec

(* No event is inserted twice, by two flushes or by one.                   *)
THEOREM StoredOnce == Spec => []StoredAtMostOnce
  BY PipelineImplementsSink, SinkStoresOnce, PTL
=============================================================================

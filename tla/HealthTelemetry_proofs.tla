----------------------- MODULE HealthTelemetry_proofs -----------------------
(* The types of the health reports, that each connection is reported once,  *)
(* and that the reports leave the event streams alone, for every number of  *)
(* connections and reports.                                                 *)
EXTENDS HealthTelemetry, AnalyticsPipeline_proofs, TLAPS

LEMMA TelemetryInitTyped == ASSUME TelemetryInit PROVE TelemetryTypeOK
<1>1. content \in [Reports -> [total : SUBSET Connections, upstreams : BOOLEAN]]
  BY DEF TelemetryInit
<1>2. place \in [Reports -> Places] /\ \A r \in Reports : place[r] = "none"
  BY DEF TelemetryInit, Places
<1>3. \A r \in Reports : reports < r /\ report # r
  BY TelemetryAssumption DEF TelemetryInit, Reports
<1>4. workerRows \in [Reports -> Nat] /\ upstreamRows \in [Reports -> Nat]
  BY DEF TelemetryInit
<1>5. \A r \in Reports : (place[r] = "none" <=> reports < r) /\ (place[r] = "worker" <=> report = r)
  BY <1>2, <1>3
<1>6. /\ opened \in 0..MaxOpened /\ reports \in 0..MaxReports
      /\ total \subseteq Connections /\ gone \subseteq Connections
  BY TelemetryAssumption DEF TelemetryInit
<1>7. /\ measured \in BOOLEAN /\ configured \in BOOLEAN
      /\ session \in {"none", "up", "over"} 
      /\ sender = "wait" /\ report = NoReport
  BY DEF TelemetryInit
<1> QED
  BY <1>1, <1>2, <1>4, <1>5, <1>6, <1>7 DEF TelemetryTypeOK

LEMMA WorkerTyped == ASSUME TelemetryTypeOK, Worker PROVE TelemetryTypeOK'
<1> USE TelemetryAssumption DEF TelemetryTypeOK, Reports, Connections, Places
<1>1. CASE IncrementConnection
  BY <1>1 DEF IncrementConnection
<1>2. CASE RecordUpstreamLatency \/ Connect \/ Configure
  BY <1>2 DEF RecordUpstreamLatency, Connect, Configure
<1>3. CASE Disconnect
  BY <1>3 DEF Disconnect, Drop
<1>4. CASE Hour
  BY <1>4 DEF Hour
<1>5. CASE TakeTotal
  BY <1>5 DEF TakeTotal, SwapTotal
<1>6. CASE TakeUpstreams
  BY <1>6 DEF TakeUpstreams
<1>7. CASE WriteReport
  BY <1>7 DEF WriteReport
<1>8. CASE WriteBlocks
  BY <1>8 DEF WriteBlocks
<1>9. CASE ReportWithoutPool \/ WorkerStops
  BY <1>9 DEF ReportWithoutPool, WorkerStops, WorkerEnds, Drop
<1> QED
  BY <1>1, <1>2, <1>3, <1>4, <1>5, <1>6, <1>7, <1>8, <1>9 DEF Worker

LEMMA HandlerTyped ==
    ASSUME TelemetryTypeOK, NEW r \in Reports, HandleReport(r) PROVE TelemetryTypeOK'
<1> USE TelemetryAssumption DEF TelemetryTypeOK, Places
<1>1. CASE ReadReport(r)
  BY <1>1 DEF ReadReport
<1>2. CASE InsertWorker(r)
  <2>1. workerRows' \in [Reports -> Nat] /\ place' \in [Reports -> Places]
    BY <1>2 DEF InsertWorker
  <2>2. \A q \in Reports : place'[q] = place[q] \/ {place[q], place'[q]} \cap {"none", "worker"} = {}
    BY <1>2 DEF InsertWorker
  <2> QED
    BY <1>2, <2>1, <2>2 DEF InsertWorker
<1>3. CASE InsertWorkerFails(r)
  BY <1>3 DEF InsertWorkerFails, GiveUp
<1>4. CASE InsertUpstreams(r)
  BY <1>4 DEF InsertUpstreams
<1>5. CASE InsertUpstreamsFails(r)
  BY <1>5 DEF InsertUpstreamsFails
<1> QED
  BY <1>1, <1>2, <1>3, <1>4, <1>5 DEF HandleReport

LEMMA TelemetryTypeStep ==
    ASSUME TelemetryTypeOK, [TelemetryNext]_allVars PROVE TelemetryTypeOK'
<1>1. CASE CaptainEnds
  BY <1>1 DEF CaptainEnds, Drop, TelemetryTypeOK, Places
<1>2. CASE CaptainStep \/ UNCHANGED allVars
  BY <1>2 DEF CaptainStep, allVars, telemetryVars, TelemetryTypeOK
<1> QED
  BY <1>1, <1>2, WorkerTyped, HandlerTyped DEF TelemetryNext

(* The reports are well typed, and the one being made is known.            *)
THEOREM TelemetryTypeCorrect == TelemetrySpec => []TelemetryTypeOK
  BY TelemetryInitTyped, TelemetryTypeStep, PTL DEF TelemetrySpec

-----------------------------------------------------------------------------
(* What the step from one place to the next relies on: a report is filled  *)
(* once, and a row is inserted from one place only.                        *)
UnfilledEmpty ==
    \A r \in Reports :
        place[r] = "none" \/ (r = report /\ sender = "total") => content[r].total = {}

RowsFollowPlace ==
    \A r \in Reports :
        /\ place[r] \in {"none", "worker", "queue", "read"} => workerRows[r] = 0
        /\ place[r] \in {"inserted", "stored"} => workerRows[r] = 1
        /\ place[r] \notin {"stored", "lost"} => upstreamRows[r] = 0
        /\ workerRows[r] <= 1 /\ upstreamRows[r] <= workerRows[r]

TelemetryInv == CountedOnce /\ UnfilledEmpty /\ RowsFollowPlace

LEMMA TelemetryInitSafe == ASSUME TelemetryInit PROVE TelemetryInv
<1>1. \A r \in Reports : content[r].total = {}
  BY DEF TelemetryInit
<1>2. UNION {content[r].total : r \in Reports} = {}
  BY <1>1
<1>3. Opened = {}
  BY DEF TelemetryInit, Opened
<1>4. CountedOnce
  BY <1>1, <1>2, <1>3 DEF TelemetryInit, CountedOnce
<1>5. RowsFollowPlace
  BY DEF TelemetryInit, RowsFollowPlace
<1> QED
  BY <1>1, <1>4, <1>5 DEF TelemetryInv, UnfilledEmpty

(* Who holds a connection changes in three steps.                          *)
LEMMA IncrementCounts ==
    ASSUME TelemetryTypeOK, CountedOnce, IncrementConnection PROVE CountedOnce'
<1> USE DEF TelemetryTypeOK, Connections
<1> DEFINE new == opened + 1
<1>1. total' = total \cup {new} /\ opened' = new /\ UNCHANGED <<content, gone>>
  BY DEF IncrementConnection
<1>2. Opened' = Opened \cup {new} /\ new \notin Opened
  BY <1>1 DEF Opened
<1>3. new \notin total \cup gone \cup UNION {content[r].total : r \in Reports}
  BY <1>2 DEF CountedOnce
<1>4. new \notin gone /\ \A r \in Reports : new \notin content[r].total
  BY <1>3
<1> DEFINE reported == UNION {content[r].total : r \in Reports}
<1>5. reported' = reported
  BY <1>1
<1>6. total \cup gone \cup reported = Opened
  BY DEF CountedOnce
<1> HIDE DEF new, reported
<1>7. total' \cup gone' \cup reported' = Opened'
  BY <1>1, <1>2, <1>5, <1>6
<1>8. total' \cap gone' = {}
  BY <1>1, <1>4 DEF CountedOnce
<1>9. ASSUME NEW r \in Reports PROVE content'[r].total \cap (total' \cup gone') = {}
  <2>1. content[r].total \cap (total \cup gone) = {} /\ content' = content
    BY <1>1 DEF CountedOnce
  <2> QED
    BY <2>1, <1>1, <1>4
<1>10. \A r, q \in Reports : r # q => content'[r].total \cap content'[q].total = {}
  BY <1>1 DEF CountedOnce
<1> QED
  BY <1>7, <1>8, <1>9, <1>10 DEF CountedOnce, reported

LEMMA SwapCounts ==
    ASSUME TelemetryTypeOK, CountedOnce, UnfilledEmpty, TakeTotal PROVE CountedOnce'
<1> USE DEF TelemetryTypeOK
<1>1. report \in Reports /\ content[report].total = {}
  BY DEF TakeTotal, UnfilledEmpty
<1>2. total' = {} /\ UNCHANGED <<opened, gone>>
  BY DEF TakeTotal, SwapTotal
<1>3. \A r \in Reports : content'[r].total = IF r = report THEN total ELSE content[r].total
  BY DEF TakeTotal, SwapTotal
<1>4. UNION {content'[r].total : r \in Reports}
        = total \cup UNION {content[r].total : r \in Reports}
  BY <1>1, <1>3
<1>5. total' \cup gone' \cup UNION {content'[r].total : r \in Reports} = Opened'
  BY <1>2, <1>4 DEF CountedOnce, Opened
<1>6. \A r \in Reports : content'[r].total \cap (total' \cup gone') = {}
  BY <1>2, <1>3 DEF CountedOnce
<1>7. \A r, q \in Reports : r # q => content'[r].total \cap content'[q].total = {}
  BY <1>3 DEF CountedOnce
<1> QED
  BY <1>2, <1>5, <1>6, <1>7 DEF CountedOnce

LEMMA EndCounts ==
    ASSUME CountedOnce, WorkerEnds PROVE CountedOnce'
  BY DEF WorkerEnds, CountedOnce, Opened

LEMMA KeepCounts ==
    ASSUME CountedOnce, UNCHANGED <<opened, total, gone>>,
           \A r \in Reports : content'[r].total = content[r].total
    PROVE  CountedOnce'
  BY DEF CountedOnce, Opened

LEMMA CountStep ==
    ASSUME TelemetryTypeOK, TelemetryInv, [TelemetryNext]_allVars PROVE CountedOnce'
<1> USE DEF TelemetryInv
<1>1. CASE TakeUpstreams
  <2>1. \A r \in Reports : content'[r].total = content[r].total
    BY <1>1 DEF TakeUpstreams, TelemetryTypeOK
  <2> QED
    BY <1>1, <2>1, KeepCounts DEF TakeUpstreams
<1>2. CASE \/ RecordUpstreamLatency \/ Connect \/ Disconnect \/ Configure
           \/ Hour \/ WriteReport \/ WriteBlocks
  BY <1>2, KeepCounts
     DEF RecordUpstreamLatency, Connect, Disconnect, Configure, Hour, WriteReport, WriteBlocks
<1>3. CASE IncrementConnection \/ TakeTotal \/ ReportWithoutPool \/ WorkerStops
  BY <1>3, IncrementCounts, SwapCounts, EndCounts DEF ReportWithoutPool, WorkerStops
<1>4. ASSUME NEW r \in Reports, HandleReport(r) PROVE CountedOnce'
  BY <1>4, KeepCounts
     DEF HandleReport, ReadReport, InsertWorker, InsertWorkerFails, InsertUpstreams, InsertUpstreamsFails
<1>5. CASE CaptainEnds \/ CaptainStep \/ UNCHANGED allVars
  BY <1>5, KeepCounts DEF CaptainEnds, CaptainStep, allVars, telemetryVars
<1> QED
  BY <1>1, <1>2, <1>3, <1>4, <1>5 DEF TelemetryNext, Worker

-----------------------------------------------------------------------------
(* The worker moves reports to places without rows, or loses them.         *)
LEMMA WorkerPlaces ==
    ASSUME TelemetryTypeOK, TelemetryInv, Worker PROVE UnfilledEmpty' /\ RowsFollowPlace'
<1> USE DEF TelemetryTypeOK, TelemetryInv
<1>1. UNCHANGED <<workerRows, upstreamRows>>
  BY DEF Worker, IncrementConnection, RecordUpstreamLatency, Connect, Disconnect, Configure, Hour,
         TakeTotal, TakeUpstreams, WriteReport, WriteBlocks, ReportWithoutPool, WorkerStops, WorkerEnds
<1>2. CASE \/ IncrementConnection \/ RecordUpstreamLatency \/ Connect \/ Configure
           \/ TakeTotal \/ TakeUpstreams \/ WriteBlocks
  <2>1. UNCHANGED <<place, report>>
    BY <1>2 DEF IncrementConnection, RecordUpstreamLatency, Connect, Configure, TakeTotal, TakeUpstreams, WriteBlocks
  <2>2. sender' = "total" => sender = "total"
    BY <1>2 DEF IncrementConnection, RecordUpstreamLatency, Connect, Configure, TakeTotal, TakeUpstreams, WriteBlocks
  <2>3. \A r \in Reports : r # report \/ sender' = "total" => content'[r].total = content[r].total
    BY <1>2 DEF IncrementConnection, RecordUpstreamLatency, Connect, Configure, TakeTotal, SwapTotal, TakeUpstreams, WriteBlocks
  <2>4. \A r \in Reports : place[r] = "none" => r # report
    OBVIOUS
  <2> QED
    BY <1>1, <2>1, <2>2, <2>3, <2>4 DEF UnfilledEmpty, RowsFollowPlace
<1>3. CASE Disconnect \/ ReportWithoutPool \/ WorkerStops
  <2>0. Disconnect \/ WorkerEnds
    BY <1>3 DEF ReportWithoutPool, WorkerStops
  <2>4. UNCHANGED content /\ (sender' = "total" => sender = "total" /\ report' = report)
    BY <2>0 DEF Disconnect, WorkerEnds
  <2>1. \A r \in Reports :
          place'[r] = place[r] \/ (place[r] \in {"worker", "queue"} /\ place'[r] = "lost")
    BY <2>0 DEF Disconnect, WorkerEnds, Drop
  <2>2. \A r \in Reports : r = report => place[r] # "none"
    OBVIOUS
  <2>3. UnfilledEmpty'
    BY <2>1, <2>2, <2>4 DEF UnfilledEmpty
  <2> QED
    BY <1>1, <2>1, <2>3 DEF RowsFollowPlace
<1>4. CASE Hour
  <2>1. /\ report' \in Reports /\ place[report'] = "none"
        /\ place' = [place EXCEPT ![report'] = "worker"] /\ UNCHANGED content
    BY <1>4, TelemetryAssumption DEF Hour, Reports
  <2> QED
    BY <1>1, <2>1 DEF UnfilledEmpty, RowsFollowPlace
<1>5. CASE WriteReport
  <2>1. /\ report \in Reports /\ place[report] = "worker" /\ sender' = "wait" /\ UNCHANGED content
        /\ place' = [place EXCEPT ![report] = IF session = "up" THEN "queue" ELSE "lost"]
    BY <1>5 DEF WriteReport
  <2> QED
    BY <1>1, <2>1 DEF UnfilledEmpty, RowsFollowPlace
<1> QED
  BY <1>2, <1>3, <1>4, <1>5 DEF Worker

LEMMA HandlerPlaces ==
    ASSUME TelemetryTypeOK, TelemetryInv, NEW r \in Reports, HandleReport(r)
    PROVE  UnfilledEmpty' /\ RowsFollowPlace'
<1> USE DEF TelemetryTypeOK, TelemetryInv
<1>1. UNCHANGED <<content, report, sender>>
  BY DEF HandleReport, ReadReport, InsertWorker, InsertWorkerFails, InsertUpstreams, InsertUpstreamsFails
<1>2. \A q \in Reports : place'[q] = "none" => place[q] = "none"
  BY DEF HandleReport, ReadReport, InsertWorker, InsertWorkerFails, GiveUp, InsertUpstreams, InsertUpstreamsFails
<1>3. UnfilledEmpty'
  BY <1>1, <1>2 DEF UnfilledEmpty
<1>4. \A q \in Reports \ {r} :
        place'[q] = place[q] /\ workerRows'[q] = workerRows[q] /\ upstreamRows'[q] = upstreamRows[q]
  BY DEF HandleReport, ReadReport, InsertWorker, InsertWorkerFails, GiveUp, InsertUpstreams, InsertUpstreamsFails
<1> SUFFICES RowsFollowPlace'
  BY <1>3
<1>5. CASE ReadReport(r)
  BY <1>4, <1>5 DEF ReadReport, RowsFollowPlace
<1>6. CASE InsertWorker(r)
  BY <1>4, <1>6 DEF InsertWorker, RowsFollowPlace
<1>7. CASE InsertWorkerFails(r)
  BY <1>4, <1>7 DEF InsertWorkerFails, GiveUp, RowsFollowPlace
<1>8. CASE InsertUpstreams(r)
  BY <1>4, <1>8 DEF InsertUpstreams, RowsFollowPlace
<1>9. CASE InsertUpstreamsFails(r)
  BY <1>4, <1>9 DEF InsertUpstreamsFails, RowsFollowPlace
<1> QED
  BY <1>5, <1>6, <1>7, <1>8, <1>9 DEF HandleReport

LEMMA TelemetryStep ==
    ASSUME TelemetryTypeOK, TelemetryInv, [TelemetryNext]_allVars PROVE TelemetryInv'
<1>1. CASE CaptainEnds
  <2>1. /\ \A r \in Reports : place'[r] = place[r] \/ (place[r] # "none" /\ place'[r] = "lost")
        /\ UNCHANGED <<content, report, sender, workerRows, upstreamRows>>
    BY <1>1 DEF CaptainEnds, Drop
  <2> QED
    BY <1>1, <2>1, CountStep DEF TelemetryInv, UnfilledEmpty, RowsFollowPlace, TelemetryTypeOK, TelemetryNext
<1>2. CASE CaptainStep \/ UNCHANGED allVars
  BY <1>2, CountStep
     DEF CaptainStep, allVars, telemetryVars, TelemetryInv, UnfilledEmpty, RowsFollowPlace
<1> QED
  BY <1>1, <1>2, CountStep, WorkerPlaces, HandlerPlaces DEF TelemetryNext, TelemetryInv

(* A connection is in one report at most, a report is stored at most once, *)
(* and its upstreams not without it.                                       *)
THEOREM ReportedOnce == TelemetrySpec => [](EveryConnectionReportedOnce /\ UpstreamRowsFollowWorkerRow)
<1>1. TelemetryTypeOK /\ TelemetryInv /\ [TelemetryNext]_allVars => TelemetryTypeOK' /\ TelemetryInv'
  BY TelemetryTypeStep, TelemetryStep
<1>2. TelemetryInv => EveryConnectionReportedOnce /\ UpstreamRowsFollowWorkerRow
  BY DEF TelemetryInv, RowsFollowPlace, EveryConnectionReportedOnce, UpstreamRowsFollowWorkerRow
<1> QED
  BY TelemetryInitTyped, TelemetryInitSafe, <1>1, <1>2, PTL DEF TelemetrySpec

(* The rows of a report's upstreams never stand without their worker's.    *)
THEOREM UpstreamsFollow == TelemetrySpec => []UpstreamRowsFollowWorkerRow
  BY ReportedOnce, PTL

-----------------------------------------------------------------------------
(* Reports leave the event streams alone: what is proved of the pipeline   *)
(* holds beside them.                                                      *)
THEOREM StreamsUndisturbed == TelemetrySpec => Spec
<1>1. [TelemetryNext]_allVars => [Next]_vars
  <2>1. Worker => UNCHANGED vars
    BY DEF Worker, IncrementConnection, RecordUpstreamLatency, Connect, Disconnect, Configure, Hour,
           TakeTotal, TakeUpstreams, WriteReport, WriteBlocks, ReportWithoutPool, WorkerStops, WorkerEnds
  <2>2. \A r \in Reports : HandleReport(r) => UNCHANGED vars
    BY DEF HandleReport, ReadReport, InsertWorker, InsertWorkerFails, InsertUpstreams, InsertUpstreamsFails
  <2>3. CaptainEnds \/ CaptainStep => Next
    BY DEF CaptainEnds, CaptainStep, Next
  <2> QED
    BY <2>1, <2>2, <2>3 DEF TelemetryNext, allVars
<1>2. TelemetryInit => Init
  BY DEF TelemetryInit
<1> QED
  BY <1>1, <1>2, PTL DEF TelemetrySpec, Spec

(* Streams and reports are well typed together.                            *)
THEOREM TogetherTyped == TelemetrySpec => []AllTypeOK
  BY StreamsUndisturbed, TypeCorrect, TelemetryTypeCorrect, PTL DEF AllTypeOK

(* Beside the reports, too, no event is stored twice, and none is lost on  *)
(* a stream without a fault.                                               *)
THEOREM TogetherSafe == TelemetrySpec => [](StoredAtMostOnce /\ LossNeedsFault)
  BY StreamsUndisturbed, PipelineSafety, StoredOnce, PTL

(* Streams beside reports are still an event sink.                         *)
THEOREM TogetherImplementSink == TelemetrySpec => SinkSpec
  BY StreamsUndisturbed, PipelineImplementsSink, PTL
=============================================================================

--------------------------- MODULE HealthTelemetry ---------------------------
(***************************************************************************)
(* A worker's hourly health report: its connections are counted, the       *)
(* report takes the counters one after the other and resets them, travels  *)
(* over the session and is inserted into ClickHouse by the captain's read  *)
(* pump, next to the event streams of AnalyticsPipeline, with which it     *)
(* shares the process and the ClickHouse connection.                       *)
(* Source: worker/manager/health_collector.go, SendHealthTelemetry in      *)
(* worker/manager/worker.go, handleTelemetryHealth in the captain's        *)
(* ws_manager.go and RecordWorkerHealth in analytics_service.go.           *)
(*                                                                         *)
(* Abstraction.  A counter is the set of what it has counted, so that one  *)
(* can say which report a connection is in; a report holds the             *)
(* connections of totalConnections and whether it lists upstreams.  The    *)
(* counters of bytes, errors and successes are swapped like that of the    *)
(* connections and are left out, as are the averages and the status.       *)
(***************************************************************************)
EXTENDS AnalyticsPipeline

CONSTANTS
    MaxOpened,   \* bound: connections
    MaxReports,  \* bound: reports
    NoReport

ASSUME TelemetryAssumption ==
    /\ MaxOpened \in Nat /\ MaxReports \in Nat
    /\ NoReport \notin 1..MaxReports

VARIABLES
    opened,        \* history: how many connections have been counted
    total,         \* totalConnections
    measured,      \* upstreamStats has an entry
    configured,    \* the worker has a pool
    session,       \* websocketManager: none yet, a session, or one that is over
    sender,        \* where the hourly goroutine is
    report,        \* the report it makes
    reports,       \* how many have been made
    content,       \* of each report: its connections and whether it lists upstreams
    place,         \* where it is
    workerRows,    \* how often it is in worker_health
    upstreamRows,  \* how often its upstreams are in worker_upstream_health
    gone           \* history: connections counted by a process that ended

telemetryVars == <<opened, total, measured, configured, session, sender, report, reports,
                   content, place, workerRows, upstreamRows, gone>>

allVars == <<vars, telemetryVars>>

Connections == 1..MaxOpened
Reports == 1..MaxReports
Opened == 1..opened

Places == {"none", "worker", "queue", "read", "inserted", "stored", "lost"}

TelemetryTypeOK ==
    /\ opened \in 0..MaxOpened /\ reports \in 0..MaxReports
    /\ total \subseteq Connections /\ gone \subseteq Connections
    /\ measured \in BOOLEAN /\ configured \in BOOLEAN
    /\ session \in {"none", "up", "over"}
    /\ sender \in {"wait", "total", "upstreams", "write", "stuck"}
    /\ report \in Reports \cup {NoReport}
    /\ sender = "wait" <=> report = NoReport
    /\ content \in [Reports -> [total : SUBSET Connections, upstreams : BOOLEAN]]
    /\ place \in [Reports -> Places]
    /\ \A r \in Reports : place[r] = "none" <=> reports < r
    /\ \A r \in Reports : place[r] = "worker" <=> report = r
    /\ workerRows \in [Reports -> Nat] /\ upstreamRows \in [Reports -> Nat]

(* Streams and reports together are well typed.                            *)
AllTypeOK == TypeOK /\ TelemetryTypeOK

TelemetryInit ==
    /\ Init
    /\ opened = 0 /\ reports = 0
    /\ total = {} /\ measured = FALSE /\ gone = {}
    /\ configured = FALSE /\ session = "none"
    /\ sender = "wait" /\ report = NoReport
    /\ content = [r \in Reports |-> [total |-> {}, upstreams |-> FALSE]]
    /\ place = [r \in Reports |-> "none"]
    /\ workerRows = [r \in Reports |-> 0]
    /\ upstreamRows = [r \in Reports |-> 0]

(* The reports that are in one of the places are lost.                     *)
Drop(places) ==
    place' = [r \in Reports |-> IF place[r] \in places THEN "lost" ELSE place[r]]

-----------------------------------------------------------------------------
(* The worker's proxied connections and its session.                       *)

IncrementConnection ==
    /\ opened < MaxOpened
    /\ opened' = opened + 1
    /\ total' = total \cup {opened + 1}
    /\ UNCHANGED <<vars, measured, configured, session, sender, report, reports, content,
                   place, workerRows, upstreamRows, gone>>

RecordUpstreamLatency ==
    /\ ~measured
    /\ measured' = TRUE
    /\ UNCHANGED <<vars, opened, total, configured, session, sender, report, reports, content,
                   place, workerRows, upstreamRows, gone>>

(* Each session has a manager of its own, which replaces the last one.     *)
Connect ==
    /\ process = "up" /\ session # "up"
    /\ session' = "up"
    /\ UNCHANGED <<vars, opened, total, measured, configured, sender, report, reports, content,
                   place, workerRows, upstreamRows, gone>>

(* Of a session that ends the manager stays, with what is in its channel.  *)
Disconnect ==
    /\ session = "up"
    /\ session' = "over"
    /\ Drop({"queue"})
    /\ UNCHANGED <<vars, opened, total, measured, configured, sender, report, reports, content,
                   workerRows, upstreamRows, gone>>

Configure ==
    /\ session = "up" /\ ~configured
    /\ configured' = TRUE
    /\ UNCHANGED <<vars, opened, total, measured, session, sender, report, reports, content,
                   place, workerRows, upstreamRows, gone>>

-----------------------------------------------------------------------------
(* SendHealthTelemetry.  Before the first session the counters are kept.   *)

Hour ==
    /\ sender = "wait" /\ reports < MaxReports
    /\ session # "none"
    /\ reports' = reports + 1 /\ report' = reports'
    /\ place' = [place EXCEPT ![report'] = "worker"]
    /\ sender' = "total"
    /\ UNCHANGED <<vars, opened, total, measured, configured, session, content,
                   workerRows, upstreamRows, gone>>

(* Faulty variant: the counter is read, and set to zero a moment later.    *)
ReadThenReset ==
    /\ \E late \in SUBSET total :
          content' = [content EXCEPT ![report].total = total \ late]
    /\ total' = {}

SwapTotal ==
    /\ content' = [content EXCEPT ![report].total = total]
    /\ total' = {}

TakeTotal ==
    /\ sender = "total"
    /\ SwapTotal
    /\ sender' = "upstreams"
    /\ UNCHANGED <<vars, opened, measured, configured, session, report, reports, place,
                   workerRows, upstreamRows, gone>>

(* Under the lock that RecordUpstreamLatency takes.                        *)
TakeUpstreams ==
    /\ sender = "upstreams"
    /\ content' = [content EXCEPT ![report].upstreams = measured]
    /\ measured' = FALSE
    /\ sender' = "write"
    /\ UNCHANGED <<vars, opened, total, configured, session, report, reports, place,
                   workerRows, upstreamRows, gone>>

(* WriteEvent, to the manager of the last session: nobody reads the        *)
(* channel of one that is over.                                            *)
WriteReport ==
    /\ sender = "write" /\ configured
    /\ place' = [place EXCEPT ![report] = IF session = "up" THEN "queue" ELSE "lost"]
    /\ sender' = "wait" /\ report' = NoReport
    /\ UNCHANGED <<vars, opened, total, measured, configured, session, reports, content,
                   workerRows, upstreamRows, gone>>

(* The channel is full when its session ends: the hourly goroutine stays,  *)
(* and there are no more reports.                                          *)
WriteBlocks ==
    /\ sender = "write" /\ configured /\ session = "over"
    /\ sender' = "stuck"
    /\ UNCHANGED <<vars, opened, total, measured, configured, session, report, reports, content,
                   place, workerRows, upstreamRows, gone>>

(* The worker ends and starts again, with counters at zero.                *)
WorkerEnds ==
    /\ total' = {} /\ gone' = gone \cup total
    /\ measured' = FALSE /\ configured' = FALSE /\ session' = "none"
    /\ sender' = "wait" /\ report' = NoReport
    /\ Drop({"worker", "queue"})
    /\ UNCHANGED <<vars, opened, reports, content, workerRows, upstreamRows>>

WorkerStops == session # "none" /\ WorkerEnds

(* A worker that has a session and no configuration has no pool whose tag  *)
(* the report could carry: the nil pointer ends the process.               *)
ReportWithoutPool == sender = "write" /\ ~configured /\ WorkerEnds

-----------------------------------------------------------------------------
(* handleTelemetryHealth, in the read pump of the session.                 *)

ReadReport(r) ==
    /\ place[r] = "queue" /\ process = "up"
    /\ \A q \in Reports : place[q] = "queue" => r <= q
    /\ place' = [place EXCEPT ![r] = "read"]
    /\ UNCHANGED <<vars, opened, total, measured, configured, session, sender, report, reports,
                   content, workerRows, upstreamRows, gone>>

InsertWorker(r) ==
    /\ place[r] = "read" /\ process = "up" /\ clickhouse = "open"
    /\ workerRows' = [workerRows EXCEPT ![r] = @ + 1]
    /\ place' = [place EXCEPT ![r] = IF content[r].upstreams THEN "inserted" ELSE "stored"]
    /\ UNCHANGED <<vars, opened, total, measured, configured, session, sender, report, reports,
                   content, upstreamRows, gone>>

(* Faulty variant: the error is not returned.                              *)
GoOn(r) == place' = [place EXCEPT ![r] = "inserted"]

GiveUp(r) == place' = [place EXCEPT ![r] = "lost"]

(* The error does not tell whether ClickHouse has the row.                 *)
InsertWorkerFails(r) ==
    /\ place[r] = "read" /\ process = "up"
    /\ GiveUp(r)
    /\ workerRows' \in {workerRows, [workerRows EXCEPT ![r] = @ + 1]}
    /\ workerRows' # workerRows => clickhouse = "open"
    /\ UNCHANGED <<vars, opened, total, measured, configured, session, sender, report, reports,
                   content, upstreamRows, gone>>

InsertUpstreams(r) ==
    /\ place[r] = "inserted" /\ process = "up" /\ clickhouse = "open"
    /\ upstreamRows' = [upstreamRows EXCEPT ![r] = @ + 1]
    /\ place' = [place EXCEPT ![r] = "stored"]
    /\ UNCHANGED <<vars, opened, total, measured, configured, session, sender, report, reports,
                   content, workerRows, gone>>

(* The worker's row stays without those of its upstreams.                  *)
InsertUpstreamsFails(r) ==
    /\ place[r] = "inserted" /\ process = "up"
    /\ place' = [place EXCEPT ![r] = "lost"]
    /\ UNCHANGED <<vars, opened, total, measured, configured, session, sender, report, reports,
                   content, workerRows, upstreamRows, gone>>

(* The captain's steps for the event streams; its end also ends the        *)
(* session and the handlers.                                               *)
CaptainEnds ==
    /\ End
    /\ session' = IF session = "up" THEN "over" ELSE session
    /\ Drop({"queue", "read", "inserted"})
    /\ UNCHANGED <<opened, total, measured, configured, sender, report, reports, content,
                   workerRows, upstreamRows, gone>>

CaptainStep ==
    /\ \/ \E s \in Streams : Record(s) \/ Loop(s)
       \/ CloseClickHouse \/ Restart
    /\ UNCHANGED telemetryVars

-----------------------------------------------------------------------------
Worker ==
    \/ IncrementConnection \/ RecordUpstreamLatency
    \/ Connect \/ Disconnect \/ Configure
    \/ Hour \/ TakeTotal \/ TakeUpstreams \/ WriteReport \/ WriteBlocks
    \/ ReportWithoutPool \/ WorkerStops

HandleReport(r) ==
    \/ ReadReport(r) \/ InsertWorker(r) \/ InsertWorkerFails(r)
    \/ InsertUpstreams(r) \/ InsertUpstreamsFails(r)

TelemetryNext ==
    \/ Worker
    \/ \E r \in Reports : HandleReport(r)
    \/ CaptainEnds \/ CaptainStep

TelemetrySpec ==
    TelemetryInit /\ [][TelemetryNext]_allVars /\ Fairness

-----------------------------------------------------------------------------
(* A connection is in one counter or report at a time, or went with its    *)
(* worker.                                                                 *)
CountedOnce ==
    /\ total \cup gone \cup UNION {content[r].total : r \in Reports} = Opened
    /\ total \cap gone = {}
    /\ \A r \in Reports : content[r].total \cap (total \cup gone) = {}
    /\ \A r, q \in Reports : r # q => content[r].total \cap content[q].total = {}

(* However connections, the hourly reset, lost sessions and the end of     *)
(* either process interleave, the totals in ClickHouse count a connection  *)
(* once at most, and one that is missing was in a report that was lost or  *)
(* in a worker that ended.                                                 *)
EveryConnectionReportedOnce ==
    /\ CountedOnce
    /\ \A r \in Reports :
          /\ workerRows[r] <= 1
          /\ place[r] \in {"inserted", "stored"} => workerRows[r] = 1

(* The upstreams of a report are stored at most once, and not without the  *)
(* row of their worker, whichever of the two inserts fails.                *)
UpstreamRowsFollowWorkerRow == \A r \in Reports : upstreamRows[r] <= workerRows[r]
=============================================================================

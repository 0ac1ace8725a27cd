------------------------- MODULE AnalyticsPipeline -------------------------
(***************************************************************************)
(* The captain's analytics service: RecordUserDataUsage and                *)
(* RecordWebsiteAccess put events into two channels, and two goroutines    *)
(* collect them into batches and insert the batches into ClickHouse.       *)
(* Source: captain/internal/server/service/analytics_service.go and the    *)
(* end of captain/cmd/server/main.go.                                      *)
(*                                                                         *)
(* Abstraction.  Channels and batches are FIFO, so with the accepted       *)
(* events of a stream numbered from 1 the channel is the interval from     *)
(* taken + 1 to accepted and the batch the one from settled + 1 to taken.  *)
(* An event that finds the channel full is refused and changes nothing.    *)
(***************************************************************************)
EXTENDS Naturals

CONSTANTS
    Streams,     \* user data and website access: same code, own channel
    MaxEvents,   \* bound: events accepted on a stream
    ChanCap,     \* capacity of a channel (10000)
    BatchSize    \* events that trigger a flush (1000)

ASSUME PipelineAssumption ==
    /\ MaxEvents \in Nat
    /\ ChanCap \in Nat \ {0} /\ BatchSize \in Nat \ {0}

VARIABLES
    accepted,    \* events put into the channel
    taken,       \* events moved to the batch
    settled,     \* events flushed, or gone with the process
    rows,        \* how often each event is in the table
    loop,        \* where the stream's goroutine is
    appended,    \* events appended to the insert being prepared
    clickhouse,  \* the connection: open, or closed by main
    process,     \* the captain: up or down
    faultless    \* history: streams on which no insert failed and no event went with the process

vars == <<accepted, taken, settled, rows, loop, appended, clickhouse, process, faultless>>

Events == 1..MaxEvents

(* The channel and the batch hold at most what they have room for; a full  *)
(* batch is on its way to ClickHouse.                                      *)
WithinBounds ==
    \A s \in Streams :
        /\ settled[s] <= taken[s] /\ taken[s] <= accepted[s]
        /\ accepted[s] - taken[s] <= ChanCap
        /\ taken[s] - settled[s] <= BatchSize
        /\ loop[s] = "select" => taken[s] - settled[s] < BatchSize

TypeOK ==
    /\ accepted \in [Streams -> 0..MaxEvents]
    /\ taken \in [Streams -> 0..MaxEvents]
    /\ settled \in [Streams -> 0..MaxEvents]
    /\ rows \in [Streams -> [Events -> Nat]]
    /\ loop \in [Streams -> {"select", "prepare", "send"}]
    /\ appended \in [Streams -> SUBSET Events]
    /\ clickhouse \in {"open", "closed"}
    /\ process \in {"up", "down"}
    /\ faultless \subseteq Streams
    /\ WithinBounds

Init ==
    /\ accepted = [s \in Streams |-> 0]
    /\ taken = [s \in Streams |-> 0]
    /\ settled = [s \in Streams |-> 0]
    /\ rows = [s \in Streams |-> [e \in Events |-> 0]]
    /\ loop = [s \in Streams |-> "select"]
    /\ appended = [s \in Streams |-> {}]
    /\ clickhouse = "open" /\ process = "up"
    /\ faultless = Streams

Batch(s) == {e \in Events : settled[s] < e /\ e <= taken[s]}

-----------------------------------------------------------------------------
(* Faulty variant: an event is accepted although the channel is full.      *)
HasRoomForOneMore(s) == accepted[s] - taken[s] <= ChanCap

HasRoom(s) == accepted[s] - taken[s] < ChanCap

Record(s) ==
    /\ process = "up"
    /\ accepted[s] < MaxEvents
    /\ HasRoom(s)
    /\ accepted' = [accepted EXCEPT ![s] = @ + 1]
    /\ UNCHANGED <<taken, settled, rows, loop, appended, clickhouse, process, faultless>>

FlushDue(s) == taken'[s] - settled[s] >= BatchSize

Take(s) ==
    /\ process = "up" /\ loop[s] = "select"
    /\ taken[s] < accepted[s]
    /\ taken' = [taken EXCEPT ![s] = @ + 1]
    /\ loop' = [loop EXCEPT ![s] = IF FlushDue(s) THEN "prepare" ELSE "select"]
    /\ UNCHANGED <<accepted, settled, rows, appended, clickhouse, process, faultless>>

(* Faulty variant: the timer is forgotten.                                 *)
TickNever(s) == FALSE

(* The five-second ticker; with an empty batch it does nothing.            *)
Tick(s) ==
    /\ process = "up" /\ loop[s] = "select"
    /\ settled[s] < taken[s]
    /\ loop' = [loop EXCEPT ![s] = "prepare"]
    /\ UNCHANGED <<accepted, taken, settled, rows, appended, clickhouse, process, faultless>>

(* PrepareBatch, and one Append for each event, which may fail.            *)
Prepare(s) ==
    /\ process = "up" /\ loop[s] = "prepare"
    /\ clickhouse = "open"
    /\ \E kept \in SUBSET Batch(s) :
          /\ appended' = [appended EXCEPT ![s] = kept]
          /\ faultless' = IF kept = Batch(s) THEN faultless ELSE faultless \ {s}
    /\ loop' = [loop EXCEPT ![s] = "send"]
    /\ UNCHANGED <<accepted, taken, settled, rows, clickhouse, process>>

(* Faulty variant: the batch is kept for another attempt.                  *)
KeepBatch(s) == UNCHANGED settled

(* Faulty variant: the channel is emptied with the batch.                  *)
EmptyChannel(s) == settled' = [settled EXCEPT ![s] = accepted[s]]

(* The flush returns nothing and its caller empties the batch.             *)
EmptyBatch(s) == settled' = [settled EXCEPT ![s] = taken[s]]

PrepareFails(s) ==
    /\ process = "up" /\ loop[s] = "prepare"
    /\ EmptyBatch(s)
    /\ loop' = [loop EXCEPT ![s] = "select"]
    /\ faultless' = faultless \ {s}
    /\ UNCHANGED <<accepted, taken, rows, appended, clickhouse, process>>

Insert(s) ==
    rows' = [rows EXCEPT ![s] =
               [e \in Events |-> IF e \in appended[s] THEN @[e] + 1 ELSE @[e]]]

(* The insert is one block: it arrives as a whole or not at all, and an    *)
(* error tells nothing about which.                                        *)
Send(s) ==
    /\ process = "up" /\ loop[s] = "send"
    /\ Insert(s)
    /\ EmptyBatch(s)
    /\ appended' = [appended EXCEPT ![s] = {}]
    /\ loop' = [loop EXCEPT ![s] = "select"]
    /\ UNCHANGED <<accepted, taken, clickhouse, process, faultless>>

SendFails(s) ==
    /\ process = "up" /\ loop[s] = "send"
    /\ EmptyBatch(s)
    /\ appended' = [appended EXCEPT ![s] = {}]
    /\ loop' = [loop EXCEPT ![s] = "select"]
    /\ faultless' = faultless \ {s}
    /\ UNCHANGED <<accepted, taken, rows, clickhouse, process>>

(* main closes the connection on an interrupt and then returns; nothing    *)
(* waits for the goroutines.                                               *)
CloseClickHouse ==
    /\ process = "up" /\ clickhouse = "open"
    /\ clickhouse' = "closed"
    /\ UNCHANGED <<accepted, taken, settled, rows, loop, appended, process, faultless>>

(* The process ends, by main's return or by a crash.                       *)
End ==
    /\ process = "up"
    /\ process' = "down"
    /\ UNCHANGED <<accepted, taken, settled, rows, loop, appended, clickhouse, faultless>>

(* A new process starts with empty channels and batches.                   *)
Restart ==
    /\ process = "down"
    /\ process' = "up" /\ clickhouse' = "open"
    /\ taken' = accepted /\ settled' = accepted
    /\ loop' = [s \in Streams |-> "select"]
    /\ appended' = [s \in Streams |-> {}]
    /\ faultless' = {s \in faultless : settled[s] = accepted[s]}
    /\ UNCHANGED <<accepted, rows>>

Loop(s) == Take(s) \/ Tick(s) \/ Prepare(s) \/ PrepareFails(s) \/ Send(s) \/ SendFails(s)

Next ==
    \/ \E s \in Streams : Record(s) \/ Loop(s)
    \/ CloseClickHouse \/ End \/ Restart

(* A goroutine that can take an event, see its ticker or end a flush does  *)
(* one of these; nothing obliges a worker to send events, nor the captain  *)
(* to stop or to start again.                                              *)
Fairness == \A s \in Streams : WF_vars(Loop(s))

Spec == Init /\ [][Next]_vars
FairSpec == Spec /\ Fairness

-----------------------------------------------------------------------------
(* No event is stored twice, whether the ticker or the size of its batch   *)
(* leads to the flush: a consequence of SinkSpec.                          *)
StoredAtMostOnce == \A s \in Streams, e \in Events : rows[s][e] <= 1

(* An event can only be lost by an insert that failed or with the process: *)
(* without either, all that has left the batch is in the table, and only   *)
(* that.                                                                   *)
LossNeedsFault ==
    \A s \in faultless, e \in Events : rows[s][e] = (IF e <= settled[s] THEN 1 ELSE 0)

(* An accepted event is settled without waiting for another one, unless    *)
(* the process ends first.                                                 *)
AcceptedSettle ==
    \A s \in Streams, e \in Events :
        accepted[s] >= e ~> settled[s] >= e \/ process = "down"

(* The service is an event sink: the channel and the batch together are    *)
(* what is accepted and not settled.                                       *)
Sink == INSTANCE EventSink WITH
    Streams <- Streams, MaxEvents <- MaxEvents,
    accepted <- accepted, settled <- settled, rows <- rows

(* Every behaviour of the service is one of the sink's.                    *)
SinkSpec == Sink!SinkSpec
=============================================================================

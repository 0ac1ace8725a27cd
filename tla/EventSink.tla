----------------------------- MODULE EventSink -----------------------------
(***************************************************************************)
(* What the captain's analytics service promises about the events of a     *)
(* stream it has accepted: they are settled in the order of their          *)
(* acceptance, each exactly once, and settling an event stores it in       *)
(* ClickHouse once or loses it.  Nothing is stored of an event that has    *)
(* not been accepted, and nothing is stored twice.                         *)
(***************************************************************************)
EXTENDS Naturals

CONSTANTS
    Streams,    \* the kinds of events, each with a channel and a table
    MaxEvents   \* bound: events accepted on a stream

VARIABLES
    accepted,   \* how many events of each stream have been accepted
    settled,    \* how many of those are stored or lost
    rows        \* how often each event is in its table

sinkVars == <<accepted, settled, rows>>

Events == 1..MaxEvents

SinkInit ==
    /\ accepted = [s \in Streams |-> 0]
    /\ settled = [s \in Streams |-> 0]
    /\ rows = [s \in Streams |-> [e \in Events |-> 0]]

Accept(s) ==
    /\ accepted[s] < MaxEvents
    /\ accepted' = [accepted EXCEPT ![s] = @ + 1]
    /\ UNCHANGED <<settled, rows>>

(* The oldest events, up to some n, are settled; those of kept are stored. *)
Settle(s) ==
    /\ \E n \in (settled[s] + 1)..accepted[s], kept \in SUBSET Events :
          /\ \A e \in kept : settled[s] < e /\ e <= n
          /\ settled' = [settled EXCEPT ![s] = n]
          /\ rows' = [rows EXCEPT ![s] =
                        [e \in Events |-> IF e \in kept THEN @[e] + 1 ELSE @[e]]]
    /\ UNCHANGED accepted

(* The process ends: whatever is not settled is lost.                      *)
LoseAll ==
    /\ settled' = accepted
    /\ UNCHANGED <<accepted, rows>>

SinkNext == LoseAll \/ \E s \in Streams : Accept(s) \/ Settle(s)

SinkSpec == SinkInit /\ [][SinkNext]_sinkVars
=============================================================================

-------------------------- MODULE LiveMonitoring --------------------------
(***************************************************************************)
(* The live view of a job, one websocket: the LiveMonitoring handler, its  *)
(* reader and its writer goroutine, and the producer goroutine and ticker  *)
(* of CreateLiveMonitoringChannel. The three goroutines share two channels *)
(* without a buffer: monitor carries data from producer to writer, and     *)
(* done a signal from reader to producer.                                  *)
(*                                                                         *)
(* What InfluxDB returns, and which metrics a page asks for, does not      *)
(* matter here. LivePage adds it, and the specification of both.           *)
(***************************************************************************)
EXTENDS Naturals, FiniteSets

VARIABLES
    loads,          \* whether the page has asked for older metrics
    connection,     \* "open", "gone" (the peer has left) or "closed" by the backend
    handler,        \* where LiveMonitoring is
    reader, writer, producer,
                    \* where the goroutines are; "none" before they start
    tick,           \* ticks in the ticker's channel, which holds one
    monitor, done,  \* the channels, open or closed
    writing,        \* goroutines inside WriteJSON
    panicked         \* the backend has panicked

goroutineVars == <<reader, writer, producer>>
channelVars == <<tick, monitor, done>>
monitoringVars == <<loads, connection, handler, reader, writer, producer, tick, monitor, done, writing, panicked>>

---------------------------------------------------------------------------
(* The peer and the ticker *)

\* The page is closed, or the network fails.
PeerLeaves ==
    /\ connection = "open"
    /\ connection' = "gone"
    /\ UNCHANGED <<loads, handler, goroutineVars, channelVars, writing, panicked>>

\* The ticker drops a tick that finds its channel full.
Tick ==
    /\ producer \notin {"none", "ended"}
    /\ tick' = 1
    /\ UNCHANGED <<loads, connection, handler, goroutineVars, monitor, done, writing, panicked>>

---------------------------------------------------------------------------
(* The handler *)

\* The connection is upgraded; the job is found, and the goroutines start.
StartMonitoring ==
    /\ handler = "GetJob"
    /\ handler' = "returned"
    /\ reader' = "read" /\ writer' = "receive" /\ producer' = "select"
    /\ UNCHANGED <<loads, connection, channelVars, writing, panicked>>

\* The job is not found. The handler returns and does not close the connection.
JobNotFound ==
    /\ handler = "GetJob"
    /\ handler' = "returned"
    /\ UNCHANGED <<loads, connection, goroutineVars, channelVars, writing, panicked>>

---------------------------------------------------------------------------
(* Writing to the connection *)

\* The library allows one writer at a time: a second one makes it panic, which
\* ends the backend, or garbles the messages.
BeginWrite(g) ==
    /\ writing' = writing \cup {g}
    /\ panicked' \in IF writing = {} THEN {FALSE} ELSE BOOLEAN

\* Errors of WriteJSON are ignored; on a connection that is gone it returns one.
EndWrite(g) == writing' = writing \ {g}

---------------------------------------------------------------------------
(* The reader *)

\* ReadMessage returns an error, or a message that asks for metrics, or another.
ReadFails ==
    /\ reader = "read"
    /\ connection = "gone"
    /\ reader' = "signal"
    /\ UNCHANGED <<loads, connection, handler, writer, producer, channelVars, writing, panicked>>

ReadLoadMetrics ==
    /\ reader = "read"
    /\ connection = "open"
    /\ reader' = "load"
    /\ loads' = TRUE
    /\ UNCHANGED <<connection, handler, writer, producer, channelVars, writing, panicked>>

\* Mutant of ReadOther: the reader answers what it does not understand.
ReadOtherReplies ==
    /\ reader = "read"
    /\ connection = "open"
    /\ reader' = "reply"
    /\ BeginWrite("reader")
    /\ UNCHANGED <<loads, connection, handler, writer, producer, channelVars>>

ReadOther ==
    /\ reader = "read"
    /\ connection = "open"
    /\ UNCHANGED monitoringVars

\* GetJobData returns and the answer is written.
Load ==
    /\ reader = "load"
    /\ reader' = "reply"
    /\ BeginWrite("reader")
    /\ UNCHANGED <<loads, connection, handler, writer, producer, channelVars>>

Replied ==
    /\ reader = "reply"
    /\ reader' = "read"
    /\ EndWrite("reader")
    /\ UNCHANGED <<loads, connection, handler, writer, producer, channelVars, panicked>>

\* done <- true meets the select of the producer, which closes both channels.
SignalDone ==
    /\ reader = "signal" /\ producer = "select"
    /\ reader' = "close"
    /\ producer' = "ended"
    /\ done' = "closed" /\ monitor' = "closed"
    /\ UNCHANGED <<loads, connection, handler, writer, tick, writing, panicked>>

Close ==
    /\ reader = "close"
    /\ connection' = "closed"
    /\ reader' = "ended"
    /\ UNCHANGED <<loads, handler, writer, producer, channelVars, writing, panicked>>

---------------------------------------------------------------------------
(* The producer *)

TakeTick ==
    /\ producer = "select" /\ tick = 1
    /\ tick' = 0
    /\ producer' = "query"
    /\ UNCHANGED <<loads, connection, handler, reader, writer, monitor, done, writing, panicked>>

Query ==
    /\ producer = "query"
    /\ producer' = "send"
    /\ UNCHANGED <<loads, connection, handler, reader, writer, channelVars, writing, panicked>>

\* Mutant of QueryFails: the producer gives up.
QueryFailsForGood ==
    /\ producer = "query"
    /\ producer' = "ended"
    /\ done' = "closed" /\ monitor' = "closed"
    /\ UNCHANGED <<loads, connection, handler, reader, writer, tick, writing, panicked>>

\* The query fails, and the producer waits for the next tick.
QueryFails ==
    /\ producer = "query"
    /\ producer' = "select"
    /\ UNCHANGED <<loads, connection, handler, reader, writer, channelVars, writing, panicked>>

\* monitor <- data meets the receive of the writer, who starts to write.
SendData ==
    /\ producer = "send" /\ writer = "receive"
    /\ producer' = "select"
    /\ writer' = "write"
    /\ BeginWrite("writer")
    /\ UNCHANGED <<loads, connection, handler, reader, channelVars>>

---------------------------------------------------------------------------
(* The writer *)

\* Mutant of Written: the writer returns when the connection is gone.
WrittenOrReturned ==
    /\ writer = "write"
    /\ writer' = IF connection = "open" THEN "receive" ELSE "ended"
    /\ EndWrite("writer")
    /\ UNCHANGED <<loads, connection, handler, reader, producer, channelVars, panicked>>

Written ==
    /\ writer = "write"
    /\ writer' = "receive"
    /\ EndWrite("writer")
    /\ UNCHANGED <<loads, connection, handler, reader, producer, channelVars, panicked>>

\* A receive from the closed channel.
MonitorClosed ==
    /\ writer = "receive" /\ monitor = "closed"
    /\ writer' = "ended"
    /\ UNCHANGED <<loads, connection, handler, reader, producer, channelVars, writing, panicked>>

---------------------------------------------------------------------------

MonitoringInit ==
    /\ loads = FALSE
    /\ connection = "open"
    /\ handler = "GetJob"
    /\ reader = "none" /\ writer = "none" /\ producer = "none"
    /\ tick = 0
    /\ monitor = "open" /\ done = "open"
    /\ writing = {}
    /\ panicked = FALSE

---------------------------------------------------------------------------
(* Properties *)

\* Every goroutine is at a place its code has, and a goroutine is inside WriteJSON
\* exactly where its code writes.
MonitoringTypeOK ==
    /\ loads \in BOOLEAN
    /\ connection \in {"open", "gone", "closed"}
    /\ handler \in {"GetJob", "returned"}
    /\ reader \in {"none", "read", "load", "reply", "signal", "close", "ended"}
    /\ writer \in {"none", "receive", "write", "ended"}
    /\ producer \in {"none", "select", "query", "send", "ended"}
    /\ tick \in 0..1
    /\ monitor \in {"open", "closed"} /\ done \in {"open", "closed"}
    /\ writing \subseteq {"reader", "writer"}
    /\ panicked \in BOOLEAN
    /\ "reader" \in writing <=> reader = "reply"
    /\ "writer" \in writing <=> writer = "write"

\* Nobody is about to send on a channel that is closed, which would panic.
NoSendOnClosedChannel ==
    /\ reader = "signal" => done = "open"
    /\ producer = "send" => monitor = "open"

\* The state is well-formed, and nothing is sent on a closed channel.
MonitoringInv == MonitoringTypeOK /\ NoSendOnClosedChannel

\* As long as a page only watches, no two goroutines write to its connection.
WatchingIsSafe == ~loads => Cardinality(writing) <= 1

\* When the peer has left, all three goroutines end and the connection is closed,
\* wherever in a query, a write or a handshake that found them.
Stopped ==
    \/ panicked
    \/ reader = "none"
    \/ /\ reader = "ended" /\ writer = "ended" /\ producer = "ended"
       /\ connection = "closed"

GoroutinesEnd == (handler = "returned" /\ connection = "gone") ~> Stopped

===========================================================================

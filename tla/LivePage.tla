------------------------------ MODULE LivePage ------------------------------
(***************************************************************************)
(* The page of a running job and its live view: LiveMonitoring together    *)
(* with the effects of useGetJobData that open the websocket, ask for      *)
(* older metrics when the user moves the start of the time range, and put  *)
(* what arrives to the data shown.                                         *)
(*                                                                         *)
(* Time is counted in samples; sample p is taken at time p and can be read *)
(* from p + 1 on. All metrics and nodes are treated alike, so there is one *)
(* series, and it is not told apart that JavaScript puts an undefined      *)
(* between older metrics and a series that had no sample at all. As in     *)
(* JobPage, the effects that are due run in one step, and the page asks    *)
(* for the data twice: when it is opened, and when the first answer shows  *)
(* that the job has metrics. The second answer replaces what was merged    *)
(* with the first one until then.                                          *)
(***************************************************************************)
EXTENDS LiveMonitoring, Integers, Sequences, SequencesExt

CONSTANTS
    Hour,           \* how much of a running job the page shows at first
    MaxNow,         \* bound: the clock
    MaxMessages,    \* bound: messages to the page; a write waits for room
    MaxShown,       \* bound: samples shown or sent; with more, the query for the last fails
    Null            \* what JavaScript calls undefined or null

Time == 1..MaxNow

LiveRequest == [StartTime : Time, StopTime : Time \cup {Null}]
Message == [Type : {"LoadMetricsResponse", "LatestMetrics"}, MetricData : Seq(Time) \cup {Null}]

\* What GetJob answers, and where the page's request for it is.
LiveAnswer == [MetricData : Seq(Time), StopTime : Time]
Fetch == [asked : BOOLEAN, answer : LiveAnswer \cup {Null}]

ASSUME LivePageAssumption ==
    /\ Hour \in Nat \ {0} /\ MaxNow \in Nat \ {0} /\ MaxMessages \in Nat \ {0} /\ MaxShown \in Nat
    /\ Null \notin Nat \cup Seq(Nat) \cup LiveRequest \cup Message \cup LiveAnswer

VARIABLES
    now,            \* the clock of backend and page; the job has started at 1
    livePage,       \* the state of Job and useGetJobData
    fetch,          \* the request for the job, and the answer, on their way
    asked,          \* requests on their way to the reader
    inbox,          \* messages on their way to the page
    carried,        \* what the goroutines have in their hands
    broken,         \* an exception in an effect has taken the page down
    late,           \* time passed between the first answer of GetJob and the effects
    overwritten,    \* a message replaced another before the effects ran
    replaced        \* what the second answer of GetJob did

history == <<late, overwritten, replaced>>
pageVars == <<now, livePage, fetch, asked, inbox, carried, broken, history>>
allVars == <<monitoringVars, pageVars>>

StartTime == 1
Infinity == MaxNow + 1      \* later than every time

\* The state of Job and useGetJobData, as far as a running job needs it.
LivePageState ==
    [data : Seq(Time) \cup {Null}, StopTime : Time \cup {Null}, timeStart : Time \cup {Null},
     curLiveWindowStart : 1..Infinity, ws : {"none", "connecting", "open", "closed"},
     lastMessage : Message \cup {Null}, due : SUBSET {"answer", "window", "message"}]

\* opened: the time of the first answer; lost: samples that were shown and that the
\* second answer did not have; overtook: live points were on their way that are older
\* than the second answer, which arrived before them.
Replaced == [opened : Time \cup {Null}, lost : SUBSET Time, overtook : BOOLEAN]

Carried ==
    [request : LiveRequest \cup {Null}, response : Seq(Time) \cup {Null},
     producer : Seq(Time) \cup {Null}, writer : Seq(Time) \cup {Null}]

\* The samples taken from one time on and before another.
Points(from, to) ==
    LET first == IF from < StartTime THEN StartTime ELSE from IN
    [i \in 1..(IF first < to THEN to - first ELSE 0) |-> first + i - 1]

---------------------------------------------------------------------------
(* The page *)

\* The start of the time range that the page chooses: an hour ago, if the job is older.
DefaultStart == IF now - Hour > StartTime THEN now - Hour ELSE StartTime

\* GetJob of a running job has its last hour.
GetJob ==
    /\ fetch.asked
    /\ fetch' = [asked |-> FALSE,
                 answer |-> [MetricData |-> Points(now - Hour, now), StopTime |-> now]]
    /\ UNCHANGED <<now, livePage, asked, inbox, carried, broken, history>>

Samples(s) == IF s = Null THEN {} ELSE ToSet(s)

LivePoints(m) ==
    IF m = Null THEN {} ELSE IF m.Type = "LatestMetrics" THEN Samples(m.MetricData) ELSE {}

\* Live points on their way to the data.
LiveOnTheWay ==
    LivePoints(livePage.lastMessage) \cup Samples(carried.writer) \cup Samples(carried.producer)
      \cup UNION {LivePoints(inbox[i]) : i \in 1..Len(inbox)}

\* The first answer sets off the effects. The second one replaces the data and
\* whatever was merged with them.
GetJobAnswered ==
    /\ ~broken /\ fetch.answer # Null
    /\ fetch' = [fetch EXCEPT !.answer = Null]
    /\ livePage' = [livePage EXCEPT
            !.data = fetch.answer.MetricData, !.StopTime = fetch.answer.StopTime,
            !.due = IF livePage.data = Null THEN {"answer"} ELSE @]
    /\ replaced' =
          IF livePage.data = Null THEN [replaced EXCEPT !.opened = fetch.answer.StopTime]
          ELSE [replaced EXCEPT
                   !.lost = ToSet(livePage.data) \ ToSet(fetch.answer.MetricData),
                   !.overtook = \E p \in LiveOnTheWay : p < fetch.answer.StopTime - 1]
    /\ UNCHANGED <<now, asked, inbox, carried, broken, late, overwritten>>

\* The page shows less than is selected, and can ask for the rest. readyState is
\* not a dependency of the effect: nothing happens when the websocket opens later.
AsksOlder(p) == p.ws = "open" /\ p.timeStart # Null /\ p.timeStart < p.curLiveWindowStart

\* JSON has no Infinity and makes it null.
WSLoadMetricsMsg(p) ==
    [StartTime |-> p.timeStart,
     StopTime |-> IF p.curLiveWindowStart = Infinity THEN Null ELSE p.curLiveWindowStart]

\* Mutant of MovesWindow: the window moves although nothing was asked for.
MovesWindowUnasked(p) == p.timeStart # Null /\ p.timeStart < p.curLiveWindowStart

\* The window moves when it is first known, and when older metrics are asked for.
MovesWindow(p) ==
    p.timeStart # Null /\ (p.curLiveWindowStart = Infinity \/ AsksOlder(p))

\* The data with a message added: older metrics in front, the latest at the end.
WithMessage(data, m) ==
    IF m.Type = "LoadMetricsResponse" THEN m.MetricData \o data
    ELSE data \o m.MetricData

\* The effect throws when a message has no metrics, or has the first point of all.
Throws(data, m) ==
    \/ m.MetricData = Null
    \/ m.Type = "LatestMetrics" /\ m.MetricData # <<>> /\ data = <<>>

\* Ask for the data again, register websocket, merge messages, move the window, ask
\* for older metrics, with what was rendered. A page that breaks closes its websocket.
RunLiveEffects ==
    /\ ~broken /\ livePage.due # {}
    /\ LET arrived == "message" \in livePage.due
           fails   == arrived /\ Throws(livePage.data, livePage.lastMessage)
           moves   == "window" \in livePage.due /\ MovesWindow(livePage)
           asks    == "window" \in livePage.due /\ AsksOlder(livePage)
       IN /\ broken' = fails
          /\ connection' = IF fails /\ connection = "open" THEN "gone" ELSE connection
          /\ inbox' = IF fails THEN <<>> ELSE inbox
          /\ fetch' = [fetch EXCEPT !.asked = @ \/ "answer" \in livePage.due]
          /\ asked' = IF fails THEN <<>> ELSE IF asks THEN Append(asked, WSLoadMetricsMsg(livePage)) ELSE asked
          /\ livePage' = [livePage EXCEPT
                !.data = IF arrived /\ ~fails THEN WithMessage(@, livePage.lastMessage) ELSE @,
                !.lastMessage = Null,
                !.ws = IF fails THEN "closed" ELSE IF "answer" \in livePage.due THEN "connecting" ELSE @,
                !.timeStart = IF "answer" \in livePage.due THEN DefaultStart ELSE @,
                !.curLiveWindowStart = IF moves THEN livePage.timeStart ELSE @,
                !.due = IF "answer" \in livePage.due \/ moves THEN {"window"} ELSE {}]
          /\ late' = (late \/ ("answer" \in livePage.due /\ now # livePage.StopTime))
    /\ UNCHANGED <<now, carried, overwritten, replaced>>
    /\ UNCHANGED <<loads, handler, goroutineVars, channelVars, writing, panicked>>

\* The websocket opens, which renders nothing.
WebSocketOpens ==
    /\ livePage.ws = "connecting"
    /\ livePage' = [livePage EXCEPT !.ws = "open"]
    /\ UNCHANGED <<now, fetch, asked, inbox, carried, broken, history>>

\* A message replaces the one before it, whether the effects have seen that or not.
OnMessage ==
    /\ livePage.ws = "open" /\ inbox # <<>>
    /\ livePage' = [livePage EXCEPT !.lastMessage = Head(inbox), !.due = @ \cup {"message"}]
    /\ inbox' = Tail(inbox)
    /\ overwritten' = (overwritten \/ "message" \in livePage.due)
    /\ UNCHANGED <<now, fetch, asked, carried, broken, late, replaced>>

\* The user moves the start of the time range, within the times of the answer. When
\* the websocket is closed, that has no effect on the data any more.
SetStartTime(t) ==
    /\ ~broken /\ livePage.data # Null /\ livePage.due = {} /\ livePage.ws # "closed"
    /\ t # livePage.timeStart /\ t <= livePage.StopTime
    /\ livePage' = [livePage EXCEPT !.timeStart = t, !.due = {"window"}]
    /\ UNCHANGED <<now, fetch, asked, inbox, carried, broken, history>>

ResetTimeRange == SetStartTime(StartTime)

Advance ==
    /\ now < MaxNow
    /\ now' = now + 1
    /\ UNCHANGED <<livePage, fetch, asked, inbox, carried, broken, history>>

PageNext ==
    /\ \/ GetJob \/ GetJobAnswered \/ WebSocketOpens \/ OnMessage \/ Advance
       \/ \E t \in StartTime..MaxNow : SetStartTime(t)
       \/ ResetTimeRange
    /\ UNCHANGED monitoringVars

---------------------------------------------------------------------------
(* The live view with the data it carries *)

\* The page is closed or loses the network: whatever was on its way is lost.
Disconnects ==
    /\ livePage.ws # "none" /\ PeerLeaves
    /\ livePage' = [livePage EXCEPT !.ws = "closed"]
    /\ asked' = <<>> /\ inbox' = <<>>
    /\ UNCHANGED <<now, fetch, carried, broken, history>>

\* The page's request for the websocket arrives.
Connects ==
    /\ livePage.ws # "none"
    /\ StartMonitoring \/ JobNotFound
    /\ UNCHANGED pageVars

ReceivesLoadMetrics ==
    /\ asked # <<>> /\ ReadLoadMetrics
    /\ carried' = [carried EXCEPT !.request = Head(asked)]
    /\ asked' = Tail(asked)
    /\ UNCHANGED <<now, livePage, fetch, inbox, broken, history>>

LoadedMetrics(r) == Points(r.StartTime, r.StopTime)

\* GetJobData leaves out a metric whose query fails, which it does without a stop
\* time: that is a range that ends before it starts.
Loads ==
    /\ Load
    /\ \E answer \in {Null}
            \cup IF carried.request.StopTime = Null THEN {} ELSE {LoadedMetrics(carried.request)} :
         carried' = [carried EXCEPT !.request = Null, !.response = answer]
    /\ UNCHANGED <<now, livePage, fetch, asked, inbox, broken, history>>

\* A message is sent if the connection is still there.
Writes(type, data) ==
    IF connection = "open"
    THEN /\ Len(inbox) < MaxMessages
         /\ inbox' = Append(inbox, [Type |-> type, MetricData |-> data])
    ELSE UNCHANGED inbox

WritesResponse ==
    /\ Replied
    /\ Writes("LoadMetricsResponse", carried.response)
    /\ carried' = [carried EXCEPT !.response = Null]
    /\ UNCHANGED <<now, livePage, fetch, asked, broken, history>>

\* Samples shown, and messages on their way to be.
ShownOrSent ==
    Len(livePage.data) + Cardinality({"message"} \cap livePage.due)
      + Len(inbox) + Cardinality(writing \ {"reader"})

\* The last point of the job, if it has one.
QueriesLast ==
    /\ Query /\ ShownOrSent < MaxShown
    /\ carried' = [carried EXCEPT !.producer = Points(now - 1, now)]
    /\ UNCHANGED <<now, livePage, fetch, asked, inbox, broken, history>>

HandsOver ==
    /\ SendData
    /\ carried' = [carried EXCEPT !.writer = carried.producer, !.producer = Null]
    /\ UNCHANGED <<now, livePage, fetch, asked, inbox, broken, history>>

WritesLatest ==
    /\ Written
    /\ Writes("LatestMetrics", carried.writer)
    /\ carried' = [carried EXCEPT !.writer = Null]
    /\ UNCHANGED <<now, livePage, fetch, asked, broken, history>>

\* The steps of the live view that carry no data.
OtherSteps ==
    /\ \/ Tick \/ TakeTick \/ QueryFails
       \/ ReadFails \/ ReadOther \/ SignalDone \/ Close
       \/ MonitorClosed
    /\ UNCHANGED pageVars

LiveNext ==
    \/ Disconnects \/ Connects \/ ReceivesLoadMetrics \/ Loads \/ WritesResponse
    \/ QueriesLast \/ HandsOver \/ WritesLatest \/ OtherSteps

---------------------------------------------------------------------------

LiveInit ==
    /\ MonitoringInit
    /\ now \in 1..MaxNow
    /\ livePage = [data |-> Null, StopTime |-> Null, timeStart |-> Null,
               curLiveWindowStart |-> Infinity, ws |-> "none", lastMessage |-> Null, due |-> {}]
    /\ fetch = [asked |-> TRUE, answer |-> Null] /\ asked = <<>> /\ inbox = <<>>
    /\ carried = [request |-> Null, response |-> Null, producer |-> Null, writer |-> Null]
    /\ broken = FALSE /\ late = FALSE /\ overwritten = FALSE
    /\ replaced = [opened |-> Null, lost |-> {}, overtook |-> FALSE]

\* A panic of the backend ends everything.
LivePageNext == ~panicked /\ (PageNext \/ RunLiveEffects \/ LiveNext)

LivePageSpec == LiveInit /\ [][LivePageNext]_allVars

\* Goroutines are scheduled, and InfluxDB and the connection answer. A select
\* chooses at random among what is ready, so that a reader who waits for it is
\* not passed over for a tick again and again.
FairLivePageSpec ==
    /\ LivePageSpec
    /\ WF_allVars(~panicked /\ ReadFails /\ UNCHANGED pageVars)
    /\ WF_allVars(~panicked /\ (Loads \/ WritesResponse \/ (Close /\ UNCHANGED pageVars)))
    /\ WF_allVars(~panicked /\ (QueriesLast \/ (QueryFails /\ UNCHANGED pageVars)))
    /\ WF_allVars(~panicked /\ (WritesLatest \/ (MonitorClosed /\ UNCHANGED pageVars)))
    /\ WF_allVars(~panicked /\ HandsOver)
    /\ SF_allVars(~panicked /\ SignalDone /\ UNCHANGED pageVars)

---------------------------------------------------------------------------
(* Properties *)

PageTypeOK ==
    /\ now \in Time
    /\ livePage \in LivePageState
    /\ fetch \in Fetch
    /\ replaced \in Replaced
    /\ "message" \in livePage.due <=> livePage.lastMessage # Null
    /\ asked \in Seq(LiveRequest)
    /\ inbox \in Seq(Message) /\ Len(inbox) <= MaxMessages
    /\ carried \in Carried
    /\ reader = "load" <=> carried.request # Null
    /\ {broken, late, overwritten} \subseteq BOOLEAN

\* The live view and the page hold well-formed values, and nothing is sent on a
\* closed channel.
LiveInv == MonitoringInv /\ PageTypeOK

\* The samples shown are in the order of time, each once, but for live points, which
\* the code does not compare with what is there: the same may come again. That is
\* whichever answer came first and however the range was moved, with two exceptions.
\* The page's window starts where the data of GetJob start only if the effects ran in
\* the second of the answer; and live points that the second answer overtook are put
\* behind samples later than they are.
InOrder ==
    ~late /\ ~replaced.overtook /\ livePage.data # Null =>
        \A i, j \in 1..Len(livePage.data) : i < j =>
            \/ livePage.data[i] < livePage.data[j]
            \/ livePage.data[i] = livePage.data[j] /\ livePage.data[i] >= livePage.StopTime - 1

\* Nothing is on its way, and the page, whose websocket is open, has nothing to do.
AtRest ==
    /\ ~broken /\ livePage.ws = "open" /\ livePage.due = {} /\ livePage.data # Null
    /\ asked = <<>> /\ inbox = <<>> /\ reader = "read"

\* At rest, everything from the start of the window to the time the page was opened
\* was merged, unless one message replaced another that the page had not merged: it is
\* shown, or the second answer has taken it away.
Complete ==
    AtRest /\ ~overwritten =>
        \A p \in livePage.curLiveWindowStart .. replaced.opened - 1 :
            p \in ToSet(livePage.data) \cup replaced.lost

\* Older metrics fit to those shown, without disorder and without a gap that neither a
\* lost message nor the second answer explains.
OlderMetricsFit == InOrder /\ Complete

===========================================================================

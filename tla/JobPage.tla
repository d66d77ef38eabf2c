------------------------------ MODULE JobPage ------------------------------
(***************************************************************************)
(* The page of one finished job: the component Job and its hook            *)
(* useGetJobData, which loads the metric data for the chosen interval,     *)
(* node and aggregation function and keeps what it has loaded.             *)
(*                                                                         *)
(* React renders the page after every event and then runs the effects      *)
(* whose dependencies have changed, all with the values that were          *)
(* rendered. That is one step, RunEffects. It follows a click at once and  *)
(* precedes the next one; answers of the backend may come before it where  *)
(* an answer or an effect made it due. Answers come in any order.          *)
(*                                                                         *)
(* All metrics of the job are treated alike, so there is one here.         *)
(***************************************************************************)
EXTENDS Naturals, FiniteSets

CONSTANTS
    Intervals,      \* the sample intervals of the job, in seconds
    Nodes,          \* the nodes of the job
    AggFns,         \* the aggregation functions of the metric
    BestInterval,   \* the interval the backend chooses
    DefaultAggFn,   \* Config.AggFn of the metric
    Undefined,      \* what JavaScript calls undefined
    MaxPending,     \* bound: equal requests under way; more of them wait
    MaxChoices,     \* bound: clicks of the user
    MaxFailures     \* bound: requests that fail

\* What a metric shows: its interval, how nodes are aggregated, or which one is shown.
Metric == [interval : Intervals, aggFn : AggFns, node : Nodes \cup {Undefined}]

JobData == [SampleInterval : Intervals, MetricData : Metric \cup {Undefined}]

ASSUME JobPageAssumption ==
    /\ BestInterval \in Intervals /\ DefaultAggFn \in AggFns
    /\ Undefined \notin Intervals \cup Nodes \cup AggFns \cup Metric \cup JobData
    /\ IsFiniteSet(Nodes) /\ Cardinality(Nodes) > 1
    /\ MaxPending \in Nat \ {0} /\ MaxChoices \in Nat /\ MaxFailures \in Nat

VARIABLES
    monitored,      \* whether the backend has metric data of the job
    page,           \* the state of Job
    hook,           \* the state of useGetJobData
    seen,           \* the dependencies with which the effects ran last
    requests,       \* how often each request is under way
    crashed,        \* an exception has taken the page down
    clicked,        \* the user has clicked and the effects have not run
    hurried,        \* a click was made before everything had been answered
    choices,        \* clicks so far
    failures        \* failed requests so far

vars == <<monitored, page, hook, seen, requests, crashed, clicked, hurried, choices, failures>>

---------------------------------------------------------------------------
(* Data *)

Request == [of : {"job"}, interval : Intervals \cup {Undefined}]
             \cup [of : {"node"}, interval : Intervals, node : Nodes]
             \cup [of : {"metric"}, interval : Intervals, aggFn : AggFns]

\* jobCache and nodeCache say which data are there; the data follow from that.
\* Metadata is the first answer, of which the interval matters.
Hook == [jobData : JobData \cup {Undefined}, isLoading : BOOLEAN,
         Metadata : Intervals \cup {Undefined}, jobCache : SUBSET Intervals,
         nodeCache : SUBSET (Intervals \X Nodes), aggFnCache : SUBSET (Intervals \X AggFns),
         containsMetricData : BOOLEAN]

Page == [sampleInterval : Intervals \cup {Undefined},
         selection : [Nodes -> BOOLEAN],
         aggFnSelection : AggFns \cup {Undefined}]

DefaultMetric(i) == [interval |-> i, aggFn |-> DefaultAggFn, node |-> Undefined]

Selected(p) == {n \in Nodes : p.selection[n]}

\* The node whose details are shown: the only one of several that is selected.
node(p) ==
    IF Cardinality(Selected(p)) = 1 THEN CHOOSE n \in Nodes : n \in Selected(p) ELSE Undefined

---------------------------------------------------------------------------
(* The effects of the hook and of the page *)

IntervalOf(data) == IF data = Undefined THEN Undefined ELSE data.SampleInterval

\* The dependencies of the effects. An object that was replaced differs from the
\* one before, whatever is in it: changed holds the caches that were replaced.
Dependencies(p, h) ==
    [job      |-> <<p.sampleInterval, node(p), h.containsMetricData>>,
     metric   |-> <<p.aggFnSelection, h.containsMetricData>>,
     node     |-> <<p.sampleInterval, node(p)>>,
     interval |-> IntervalOf(h.jobData),
     data     |-> h.jobData # Undefined]

Effects == {"job", "metric", "node", "interval", "data"}

\* Mutant of Due: the effect that aggregates also depends on the data it sets.
DueWithJobData ==
    {e \in Effects : seen.deps[e] # Dependencies(page, hook)[e]} \cup seen.changed
      \cup {e \in {"metric"} : hook.containsMetricData /\ page.aggFnSelection # Undefined}

\* The effects to run: those whose dependencies differ from those they ran with.
Due == {e \in Effects : seen.deps[e] # Dependencies(page, hook)[e]} \cup seen.changed

JobIsCached == page.sampleInterval \in hook.jobCache

\* General data, unless they are in the cache.
JobRequests ==
    IF "job" \in Due /\ ~JobIsCached THEN {[of |-> "job", interval |-> page.sampleInterval]} ELSE {}

\* The selected aggregation function, for the chosen interval.
Aggregates ==
    /\ "metric" \in Due
    /\ hook.jobData # Undefined /\ hook.containsMetricData
    /\ page.aggFnSelection # Undefined /\ page.sampleInterval # Undefined
    /\ hook.jobData.MetricData # Undefined

AggregateIsCached == <<page.sampleInterval, page.aggFnSelection>> \in hook.aggFnCache

MetricRequests ==
    IF Aggregates /\ ~AggregateIsCached
    THEN {[of |-> "metric", interval |-> page.sampleInterval, aggFn |-> page.aggFnSelection]}
    ELSE {}

\* The details of one node, once the interval is known.
ShowsNode == "node" \in Due /\ node(page) # Undefined /\ page.sampleInterval # Undefined

NodeIsCached == <<page.sampleInterval, node(page)>> \in hook.nodeCache

NodeRequests ==
    IF ShowsNode /\ ~NodeIsCached
    THEN {[of |-> "node", interval |-> page.sampleInterval, node |-> node(page)]}
    ELSE {}

\* The last effect that sets the data wins. What comes from the cache is the first
\* answer with the metric data of the chosen interval.
DataAfterEffects ==
    IF ShowsNode /\ NodeIsCached
    THEN [SampleInterval |-> page.sampleInterval,
          MetricData |-> [DefaultMetric(page.sampleInterval) EXCEPT !.node = node(page)]]
    ELSE IF Aggregates
    THEN IF AggregateIsCached
         THEN [hook.jobData EXCEPT !.MetricData = [DefaultMetric(page.sampleInterval) EXCEPT
                                                        !.aggFn = page.aggFnSelection]]
         ELSE hook.jobData
    ELSE IF "job" \in Due /\ JobIsCached
    THEN [SampleInterval |-> hook.Metadata, MetricData |-> DefaultMetric(page.sampleInterval)]
    ELSE hook.jobData

LoadingAfterEffects ==
    IF ShowsNode THEN ~NodeIsCached
    ELSE IF "job" \in Due THEN ~JobIsCached
    ELSE hook.isLoading

\* Mutant of IntervalAfterEffects: the page does not take over the interval of the data.
IntervalOfUser == page.sampleInterval

\* The page takes over the interval of the data when that has changed.
IntervalAfterEffects ==
    IF "interval" \in Due /\ hook.jobData # Undefined THEN hook.jobData.SampleInterval
    ELSE page.sampleInterval

\* The first data bring the default aggregation functions.
AggFnsAfterEffects ==
    IF /\ "data" \in Due
       /\ hook.jobData # Undefined /\ hook.jobData.MetricData # Undefined
       /\ page.aggFnSelection = Undefined
    THEN DefaultAggFn
    ELSE page.aggFnSelection

Sent == JobRequests \cup MetricRequests \cup NodeRequests

\* The page breaks when it finds data in the cache and no first answer.
RunEffects ==
    /\ ~crashed /\ Due # {}
    /\ \A r \in Sent : requests[r] < MaxPending
    /\ crashed' = ("job" \in Due /\ JobIsCached /\ hook.Metadata = Undefined)
    /\ requests' = [r \in Request |-> requests[r] + IF r \in Sent THEN 1 ELSE 0]
    /\ hook' = [hook EXCEPT !.jobData = DataAfterEffects, !.isLoading = LoadingAfterEffects]
    /\ page' = [page EXCEPT !.sampleInterval = IntervalAfterEffects,
                            !.aggFnSelection = AggFnsAfterEffects]
    /\ seen' = [deps |-> Dependencies(page, hook), changed |-> {}]
    /\ clicked' = FALSE
    /\ UNCHANGED <<monitored, hurried, choices, failures>>

---------------------------------------------------------------------------
(* Answers *)

Answered(r) ==
    /\ ~crashed /\ (clicked => Due = {}) /\ requests[r] > 0
    /\ requests' = [requests EXCEPT ![r] = @ - 1]
    /\ clicked' = FALSE

\* The interval of an answer: the one asked for, or the best one.
AnsweredInterval(r) == IF r.interval = Undefined THEN BestInterval ELSE r.interval

\* Mutant of populateJobCache: the metric data are kept without the metadata.
populateJobCacheWithoutMetadata(r) ==
    LET i == AnsweredInterval(r) IN
    hook' = [hook EXCEPT
        !.jobCache = IF monitored THEN @ \cup {i} ELSE @,
        !.aggFnCache = IF monitored THEN @ \cup {<<i, DefaultAggFn>>} ELSE @,
        !.containsMetricData = monitored,
        !.isLoading = FALSE,
        !.jobData = [SampleInterval |-> i,
                     MetricData |-> IF monitored THEN DefaultMetric(i) ELSE Undefined]]

\* The answer is shown, whatever was chosen since it was asked for. Both caches
\* are changed in place, which no effect notices.
populateJobCache(r) ==
    LET i == AnsweredInterval(r) IN
    hook' = [hook EXCEPT
        !.Metadata = IF @ = Undefined THEN i ELSE @,
        !.jobCache = IF monitored THEN @ \cup {i} ELSE @,
        !.aggFnCache = IF monitored THEN @ \cup {<<i, DefaultAggFn>>} ELSE @,
        !.containsMetricData = monitored,
        !.isLoading = FALSE,
        !.jobData = [SampleInterval |-> i,
                     MetricData |-> IF monitored THEN DefaultMetric(i) ELSE Undefined]]

JobAnswered(r) ==
    /\ r.of = "job"
    /\ Answered(r)
    /\ populateJobCache(r)
    /\ UNCHANGED <<monitored, page, seen, crashed, hurried, choices, failures>>

NodeAnswered(r) ==
    /\ r.of = "node"
    /\ Answered(r)
    /\ hook' = [hook EXCEPT
            !.nodeCache = @ \cup {<<r.interval, r.node>>},
            !.isLoading = FALSE,
            !.jobData = [SampleInterval |-> r.interval,
                         MetricData |-> IF monitored
                                        THEN [DefaultMetric(r.interval) EXCEPT !.node = r.node]
                                        ELSE Undefined]]
    /\ seen' = [seen EXCEPT !.changed = @ \cup {"node"}]
    /\ UNCHANGED <<monitored, page, crashed, hurried, choices, failures>>

\* The cache has no place for the answer before the interval itself is there.
MetricAnswered(r) ==
    /\ r.of = "metric"
    /\ Answered(r)
    /\ \/ /\ r.interval \in hook.jobCache
          /\ hook' = [hook EXCEPT !.aggFnCache = @ \cup {<<r.interval, r.aggFn>>}]
          /\ seen' = [seen EXCEPT !.changed = @ \cup {"metric"}]
          /\ UNCHANGED crashed
       \/ /\ r.interval \notin hook.jobCache
          /\ crashed' = TRUE
          /\ UNCHANGED <<hook, seen>>
    /\ UNCHANGED <<monitored, page, hurried, choices, failures>>

\* authFetch rejects, and nobody handles it.
RequestFails(r) ==
    /\ Answered(r)
    /\ failures < MaxFailures
    /\ failures' = failures + 1
    /\ UNCHANGED <<monitored, page, hook, seen, crashed, hurried, choices>>

---------------------------------------------------------------------------
(* The user *)

\* A click on what is rendered: nothing but a spinner before the first data.
Click ==
    /\ ~crashed /\ Due = {} /\ hook.jobData # Undefined
    /\ page' # page
    /\ \A r \in Request : requests[r] < MaxPending
    /\ choices < MaxChoices
    /\ choices' = choices + 1
    /\ clicked' = TRUE
    /\ hurried' = (hurried \/ \E r \in Request : requests[r] > 0)
    /\ UNCHANGED <<monitored, hook, seen, requests, crashed, failures>>

\* The interval, in the panel that is there only with metric data.
setSampleInterval(i) ==
    /\ hook.containsMetricData
    /\ page' = [page EXCEPT !.sampleInterval = i]
    /\ Click

\* The nodes of val are checked or unchecked.
setChecked(val) ==
    /\ page' = [page EXCEPT !.selection = [n \in Nodes |-> IF n \in DOMAIN val THEN val[n] ELSE @[n]]]
    /\ Click

\* A click on the name of a node.
SelectionItem(n) == setChecked([m \in {n} |-> ~page.selection[m]])

\* The button "Select All", or "Select None" when all are.
Selection == setChecked([n \in Nodes |-> Selected(page) # Nodes])

\* The text field: whatever is typed names the nodes to show.
parseSelection(nodes) == setChecked([n \in Nodes |-> n \in nodes])

\* The aggregation function is offered as long as several nodes are shown.
setAggFnSelection(f) ==
    /\ hook.containsMetricData /\ Cardinality(Selected(page)) # 1
    /\ page.aggFnSelection # Undefined
    /\ page' = [page EXCEPT !.aggFnSelection = f]
    /\ Click

---------------------------------------------------------------------------

Init ==
    /\ monitored \in BOOLEAN
    /\ page = [sampleInterval |-> Undefined, selection |-> [n \in Nodes |-> TRUE],
               aggFnSelection |-> Undefined]
    /\ hook = [jobData |-> Undefined, isLoading |-> TRUE, Metadata |-> Undefined, jobCache |-> {},
               nodeCache |-> {}, aggFnCache |-> {}, containsMetricData |-> FALSE]
    /\ seen = [deps |-> Dependencies(page, hook), changed |-> {"job"}]
    /\ requests = [r \in Request |-> 0]
    /\ crashed = FALSE /\ clicked = FALSE /\ hurried = FALSE
    /\ choices = 0 /\ failures = 0

Answer == \E r \in Request : JobAnswered(r) \/ NodeAnswered(r) \/ MetricAnswered(r)

Choose ==
    \/ \E i \in Intervals : setSampleInterval(i)
    \/ \E n \in Nodes : SelectionItem(n)
    \/ Selection
    \/ \E nodes \in SUBSET Nodes : parseSelection(nodes)
    \/ \E f \in AggFns : setAggFnSelection(f)

Next == RunEffects \/ Answer \/ Choose \/ \E r \in Request : RequestFails(r)

Spec == Init /\ [][Next]_vars

\* React renders, and a request is answered or fails in the end.
FairSpec ==
    /\ Spec
    /\ WF_vars(RunEffects)
    /\ \A r \in Request : WF_vars(JobAnswered(r) \/ NodeAnswered(r) \/ MetricAnswered(r) \/ RequestFails(r))

---------------------------------------------------------------------------
(* Properties *)

\* The page and the hook hold well-formed values.
TypeOK ==
    /\ {monitored, crashed, clicked, hurried} \subseteq BOOLEAN
    /\ page \in Page
    /\ hook \in Hook
    /\ seen.changed \subseteq Effects
    /\ requests \in [Request -> 0..MaxPending]
    /\ choices \in 0..MaxChoices /\ failures \in 0..MaxFailures

\* Nothing is under way and no effect is due.
Settled == Due = {} /\ \A r \in Request : requests[r] = 0

\* At rest the page shows no spinner, however answers overtook each other. If in
\* addition each click waited for the answers to the one before, the metric data
\* are those of the interval in the menu. The hook does not compare an answer with
\* what is chosen; the page follows the answer instead.
ShowsItsInterval ==
    Settled /\ ~crashed /\ failures = 0 =>
        /\ ~hook.isLoading
        /\ monitored /\ ~hurried => hook.jobData.MetricData.interval = page.sampleInterval

\* The state is well-formed, and what is shown is of the interval shown.
Inv == TypeOK /\ ShowsItsInterval

\* The page breaks only when data that are aggregated overtake those they belong
\* to; the exception of useGetJobData is never thrown.
CrashIsOvertaking ==
    /\ ("job" \in Due /\ JobIsCached) => hook.Metadata # Undefined
    /\ crashed /\ failures = 0 => \E r \in Request : r.of = "job" /\ requests[r] > 0

\* The effects do not set each other off for ever: as long as all nodes are shown,
\* the page comes to rest after the last click. (With one node it may not: the
\* effect for the node and the cached data of the first interval take turns.)
ComesToRest == <>[](crashed \/ Settled \/ node(page) # Undefined)

---------------------------------------------------------------------------
(* What comments of the code claim *)

\* [id].tsx:335: "If a node is selected: Always return the detailed node data."
AlwaysNodeData ==
    Settled /\ ~crashed /\ failures = 0 /\ monitored /\ node(page) # Undefined =>
        hook.jobData.MetricData.node = node(page)

===========================================================================

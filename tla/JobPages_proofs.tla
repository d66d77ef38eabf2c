-------------------------- MODULE JobPages_proofs --------------------------
(***************************************************************************)
(* Theorems about the two pages of a job: JobPage, of one that is over,    *)
(* for any intervals, nodes and aggregation functions and any number of    *)
(* clicks, requests and failures; and LivePage, of a running one, together *)
(* with the goroutines of LiveMonitoring, for any time, window and number  *)
(* of requests and samples.                                                *)
(***************************************************************************)
EXTENDS JobPage, LivePage, FiniteSetTheorems, SequenceTheorems, TLAPS

---------------------------------------------------------------------------
(***************************************************************************)
(* The page of a job that is over                                          *)
(***************************************************************************)

---------------------------------------------------------------------------
(* Requests under way *)

JobRequest(i) == [of |-> "job", interval |-> i]
NodeRequest(i, n) == [of |-> "node", interval |-> i, node |-> n]
MetricRequest(i, f) == [of |-> "metric", interval |-> i, aggFn |-> f]

\* The intervals for which general data, the details of a node, or an aggregation
\* function are under way.
JobsAsked == {i \in Intervals \cup {Undefined} : requests[JobRequest(i)] > 0}
NodesAsked == {i \in Intervals : \E n \in Nodes : requests[NodeRequest(i, n)] > 0}
MetricsAsked == {i \in Intervals : \E f \in AggFns : requests[MetricRequest(i, f)] > 0}

---------------------------------------------------------------------------
(* What holds of every page *)

SeenDeps ==
    [job : (Intervals \cup {Undefined}) \X (Nodes \cup {Undefined}) \X BOOLEAN,
     metric : (AggFns \cup {Undefined}) \X BOOLEAN,
     node : (Intervals \cup {Undefined}) \X (Nodes \cup {Undefined}),
     interval : Intervals \cup {Undefined}, data : BOOLEAN]

\* Only these effects are due because a cache was replaced.
SeenInv ==
    /\ seen \in [deps : SeenDeps, changed : SUBSET {"job", "node", "metric"}]
    /\ seen.deps.job[3] => hook.containsMetricData
    /\ page.sampleInterval = Undefined => seen.deps.interval = Undefined

\* What is known of the job, and since when. Requests for a node or an aggregation
\* function are for an interval that was chosen.
HookInv ==
    /\ hook.jobCache # {} => hook.Metadata # Undefined
    /\ monitored /\ hook.Metadata # Undefined => hook.Metadata \in hook.jobCache
    /\ hook.jobData = Undefined =>
          page.sampleInterval = Undefined /\ hook.isLoading /\ ~hook.containsMetricData
    /\ monitored /\ hook.jobData # Undefined =>
          hook.containsMetricData /\ hook.jobData.MetricData # Undefined
    /\ hook.containsMetricData => monitored
    /\ MetricsAsked # {} \/ "metric" \in seen.changed =>
          hook.containsMetricData /\ page.sampleInterval # Undefined /\ page.aggFnSelection # Undefined
    /\ NodesAsked # {} => page.sampleInterval # Undefined

\* A spinner is shown for a reason.
LoadingInv ==
    ~crashed /\ failures = 0 /\ hook.isLoading => "job" \in Due \/ JobsAsked # {} \/ NodesAsked # {}

\* The data of the interval chosen are there, or will be; so are those to aggregate.
AvailableInv ==
    /\ ~crashed /\ failures = 0 /\ monitored =>
          /\ page.sampleInterval # Undefined =>
                JobIsCached \/ page.sampleInterval \in JobsAsked \/ "job" \in Due
          /\ MetricsAsked \subseteq hook.jobCache \cup JobsAsked
    /\ crashed /\ failures = 0 => JobsAsked # {}

---------------------------------------------------------------------------
(* What holds as long as every click waits for the answers to the one before *)

Calm == ~crashed /\ failures = 0 /\ monitored /\ ~hurried

\* The page has not chosen an interval, or waits for the best one.
Early == page.sampleInterval = Undefined \/ Undefined \in JobsAsked

\* The data of the interval chosen are not there.
Waiting ==
    \/ JobsAsked \ {Undefined} # {}
    \/ "job" \in Due /\ page.sampleInterval # Undefined /\ ~JobIsCached

\* Another interval is shown than chosen.
Differs == hook.jobData # Undefined /\ hook.jobData.MetricData.interval # page.sampleInterval

\* An effect that is due changes that.
Repairs ==
    \/ "job" \in Due \/ ShowsNode \/ Aggregates
    \/ "interval" \in Due /\ hook.jobData.SampleInterval # page.sampleInterval

CalmInv ==
    Calm =>
        /\ JobsAsked \subseteq {Undefined, page.sampleInterval}
        /\ "job" \in Due => JobsAsked \subseteq {Undefined}
        /\ Waiting => /\ IntervalOf(hook.jobData) \in {seen.deps.interval, page.sampleInterval}
                      /\ NodesAsked \subseteq {page.sampleInterval}
        /\ hook.jobData # Undefined => hook.jobData.SampleInterval \in hook.jobCache \cup JobsAsked
        /\ NodesAsked \subseteq hook.jobCache \cup JobsAsked
        /\ Early => /\ page.sampleInterval \in {Undefined, BestInterval}
                    /\ IntervalOf(hook.jobData) \in {Undefined, BestInterval}
                    /\ hook.Metadata \in {Undefined, BestInterval}
                    /\ NodesAsked \subseteq {BestInterval}
        /\ NodesAsked # {} \/ "node" \in seen.changed =>
              node(page) # Undefined /\ page.sampleInterval # Undefined
        /\ Differs /\ JobsAsked = {} /\ NodesAsked = {} /\ MetricsAsked = {} => Repairs

JobPageIInv ==
    /\ TypeOK /\ SeenInv /\ HookInv /\ LoadingInv /\ AvailableInv /\ CalmInv

---------------------------------------------------------------------------
(* Lemmas about the data *)

\* Undefined is none of the values it is told apart from.
LEMMA UndefinedFresh ==
    /\ Undefined \notin Intervals /\ Undefined \notin Nodes /\ Undefined \notin AggFns
    /\ Undefined \notin Metric /\ Undefined \notin JobData
    /\ BestInterval \in Intervals /\ DefaultAggFn \in AggFns
BY JobPageAssumption

\* Which requests there are.
LEMMA RequestsOfThreeKinds ==
    /\ \A i \in Intervals \cup {Undefined} : JobRequest(i) \in Request
    /\ \A i \in Intervals, n \in Nodes : NodeRequest(i, n) \in Request
    /\ \A i \in Intervals, f \in AggFns : MetricRequest(i, f) \in Request
    /\ \A r \in Request :
        \/ r.of = "job" /\ r.interval \in Intervals \cup {Undefined} /\ r = JobRequest(r.interval)
        \/ r.of = "node" /\ r.interval \in Intervals /\ r.node \in Nodes /\ r = NodeRequest(r.interval, r.node)
        \/ r.of = "metric" /\ r.interval \in Intervals /\ r.aggFn \in AggFns /\ r = MetricRequest(r.interval, r.aggFn)
<1>1. \A i \in Intervals \cup {Undefined} : JobRequest(i) \in [of : {"job"}, interval : Intervals \cup {Undefined}]
    BY DEF JobRequest
<1>2. \A i \in Intervals, n \in Nodes : NodeRequest(i, n) \in [of : {"node"}, interval : Intervals, node : Nodes]
    BY DEF NodeRequest
<1>3. \A i \in Intervals, f \in AggFns : MetricRequest(i, f) \in [of : {"metric"}, interval : Intervals, aggFn : AggFns]
    BY DEF MetricRequest
<1>4. ASSUME NEW r \in [of : {"job"}, interval : Intervals \cup {Undefined}]
      PROVE  r.of = "job" /\ r.interval \in Intervals \cup {Undefined} /\ r = JobRequest(r.interval)
    BY DEF JobRequest
<1>5. ASSUME NEW r \in [of : {"node"}, interval : Intervals, node : Nodes]
      PROVE  r.of = "node" /\ r.interval \in Intervals /\ r.node \in Nodes /\ r = NodeRequest(r.interval, r.node)
    BY DEF NodeRequest
<1>6. ASSUME NEW r \in [of : {"metric"}, interval : Intervals, aggFn : AggFns]
      PROVE  r.of = "metric" /\ r.interval \in Intervals /\ r.aggFn \in AggFns /\ r = MetricRequest(r.interval, r.aggFn)
    BY DEF MetricRequest
<1> QED
    BY <1>1, <1>2, <1>3, <1>4, <1>5, <1>6 DEF Request

\* The fields of the requests.
LEMMA RequestFields ==
    /\ \A i : JobRequest(i).of = "job" /\ JobRequest(i).interval = i
    /\ \A i, n : NodeRequest(i, n).of = "node" /\ NodeRequest(i, n).interval = i /\ NodeRequest(i, n).node = n
    /\ \A i, f : MetricRequest(i, f).of = "metric" /\ MetricRequest(i, f).interval = i /\ MetricRequest(i, f).aggFn = f
BY DEF JobRequest, NodeRequest, MetricRequest

\* The node whose details are shown is one of the job, if there is one.
LEMMA NodeIsNode ==
    ASSUME page.selection \in [Nodes -> BOOLEAN]
    PROVE  node(page) \in Nodes \cup {Undefined}
<1>1. Selected(page) \subseteq Nodes
    BY DEF Selected
<1>2. IsFiniteSet(Selected(page))
    BY <1>1, FS_Subset, JobPageAssumption
<1>3. ASSUME Cardinality(Selected(page)) = 1
      PROVE  (CHOOSE n \in Nodes : n \in Selected(page)) \in Nodes
    <2>1. \E x : Selected(page) = {x}
        BY <1>2, <1>3, FS_Singleton
    <2>2. \E n \in Nodes : n \in Selected(page)
        BY <1>1, <2>1
    <2> QED
        BY <2>2
<1> QED
    BY <1>3 DEF node

\* When which effect is due.
LEMMA DueMeans ==
    /\ "job" \in Due <=> \/ "job" \in seen.changed
                         \/ seen.deps.job # <<page.sampleInterval, node(page), hook.containsMetricData>>
    /\ "metric" \in Due <=> \/ "metric" \in seen.changed
                            \/ seen.deps.metric # <<page.aggFnSelection, hook.containsMetricData>>
    /\ "node" \in Due <=> \/ "node" \in seen.changed
                          \/ seen.deps.node # <<page.sampleInterval, node(page)>>
    /\ "interval" \in Due <=> \/ "interval" \in seen.changed
                              \/ seen.deps.interval # IntervalOf(hook.jobData)
    /\ seen.changed \subseteq Due
BY DEF Due, Effects, Dependencies

\* The same after a step.
LEMMA DueMeansNext ==
    /\ "job" \in Due' <=> \/ "job" \in seen'.changed
                          \/ seen'.deps.job # <<page'.sampleInterval, node(page'), hook'.containsMetricData>>
    /\ "metric" \in Due' <=> \/ "metric" \in seen'.changed
                             \/ seen'.deps.metric # <<page'.aggFnSelection, hook'.containsMetricData>>
    /\ "node" \in Due' <=> \/ "node" \in seen'.changed
                           \/ seen'.deps.node # <<page'.sampleInterval, node(page')>>
    /\ "interval" \in Due' <=> \/ "interval" \in seen'.changed
                               \/ seen'.deps.interval # IntervalOf(hook'.jobData)
    /\ seen'.changed \subseteq Due'
BY DEF Due, Effects, Dependencies

\* The dependencies are of the types that are remembered.
LEMMA DependenciesAreSeen ==
    ASSUME TypeOK
    PROVE  Dependencies(page, hook) \in SeenDeps
<1>1. /\ page.sampleInterval \in Intervals \cup {Undefined} /\ page.aggFnSelection \in AggFns \cup {Undefined}
      /\ hook.containsMetricData \in BOOLEAN
      /\ hook.jobData \in JobData \cup {Undefined}
    BY DEF TypeOK, Page, Hook
<1>2. node(page) \in Nodes \cup {Undefined}
    BY NodeIsNode DEF TypeOK, Page
<1>3. IntervalOf(hook.jobData) \in Intervals \cup {Undefined}
    BY <1>1 DEF IntervalOf, JobData
<1> QED
    BY <1>1, <1>2, <1>3 DEF Dependencies, SeenDeps

---------------------------------------------------------------------------
(* What the steps do to the requests *)

\* The effects send requests for the interval chosen.
LEMMA EffectsAsk ==
    ASSUME TypeOK, RunEffects
    PROVE  /\ Sent \subseteq Request
           /\ requests' \in [Request -> 0..MaxPending]
           /\ JobsAsked' = JobsAsked \cup (IF "job" \in Due /\ ~JobIsCached THEN {page.sampleInterval} ELSE {})
           /\ NodesAsked' = NodesAsked \cup (IF ShowsNode /\ ~NodeIsCached THEN {page.sampleInterval} ELSE {})
           /\ MetricsAsked' = MetricsAsked \cup (IF Aggregates /\ ~AggregateIsCached THEN {page.sampleInterval} ELSE {})
<1>1. /\ page.sampleInterval \in Intervals \cup {Undefined} /\ page.aggFnSelection \in AggFns \cup {Undefined}
      /\ node(page) \in Nodes \cup {Undefined}
      /\ requests \in [Request -> 0..MaxPending] /\ MaxPending \in Nat
    BY NodeIsNode, JobPageAssumption DEF TypeOK, Page
<1>2. JobRequests = IF "job" \in Due /\ ~JobIsCached THEN {JobRequest(page.sampleInterval)} ELSE {}
    BY DEF JobRequests, JobRequest
<1>3. NodeRequests = IF ShowsNode /\ ~NodeIsCached THEN {NodeRequest(page.sampleInterval, node(page))} ELSE {}
    BY DEF NodeRequests, NodeRequest
<1>4. MetricRequests = IF Aggregates /\ ~AggregateIsCached
                       THEN {MetricRequest(page.sampleInterval, page.aggFnSelection)} ELSE {}
    BY DEF MetricRequests, MetricRequest
<1>5. Sent \subseteq Request
    BY <1>1, <1>2, <1>3, <1>4, RequestsOfThreeKinds DEF Sent, ShowsNode, Aggregates
<1>6. requests' = [r \in Request |-> requests[r] + IF r \in Sent THEN 1 ELSE 0] /\ \A r \in Sent : requests[r] < MaxPending
    BY DEF RunEffects
<1>7. requests' \in [Request -> 0..MaxPending]
    <2>1. ASSUME NEW r \in Request
          PROVE  requests[r] + (IF r \in Sent THEN 1 ELSE 0) \in 0..MaxPending
        BY <1>1, <1>6
    <2> QED
        BY <1>6, <2>1
<1>8. \A r \in Request : requests'[r] > 0 <=> requests[r] > 0 \/ r \in Sent
    <2>1. ASSUME NEW r \in Request
          PROVE  requests'[r] > 0 <=> requests[r] > 0 \/ r \in Sent
        <3>1. requests[r] \in Nat /\ requests'[r] = requests[r] + IF r \in Sent THEN 1 ELSE 0
            BY <1>1, <1>6
        <3> QED
            BY <3>1
    <2> QED
        BY <2>1
<1>9. \A i \in Intervals \cup {Undefined} :
        JobRequest(i) \in Sent <=> "job" \in Due /\ ~JobIsCached /\ i = page.sampleInterval
    BY <1>2, <1>3, <1>4, RequestFields DEF Sent
<1>10. \A i \in Intervals, n \in Nodes :
        NodeRequest(i, n) \in Sent <=> ShowsNode /\ ~NodeIsCached /\ i = page.sampleInterval /\ n = node(page)
    BY <1>2, <1>3, <1>4, RequestFields DEF Sent
<1>11. \A i \in Intervals, f \in AggFns :
        MetricRequest(i, f) \in Sent <=>
            Aggregates /\ ~AggregateIsCached /\ i = page.sampleInterval /\ f = page.aggFnSelection
    BY <1>2, <1>3, <1>4, RequestFields DEF Sent
<1>12. JobsAsked' = JobsAsked \cup (IF "job" \in Due /\ ~JobIsCached THEN {page.sampleInterval} ELSE {})
    BY <1>1, <1>8, <1>9, RequestsOfThreeKinds DEF JobsAsked
<1>13. NodesAsked' = NodesAsked \cup (IF ShowsNode /\ ~NodeIsCached THEN {page.sampleInterval} ELSE {})
    <2>1. ShowsNode => page.sampleInterval \in Intervals /\ node(page) \in Nodes
        BY <1>1 DEF ShowsNode
    <2> QED
        BY <1>8, <1>10, <2>1, RequestsOfThreeKinds DEF NodesAsked
<1>14. MetricsAsked' = MetricsAsked \cup (IF Aggregates /\ ~AggregateIsCached THEN {page.sampleInterval} ELSE {})
    <2>1. Aggregates => page.sampleInterval \in Intervals /\ page.aggFnSelection \in AggFns
        BY <1>1 DEF Aggregates
    <2> QED
        BY <1>8, <1>11, <2>1, RequestsOfThreeKinds DEF MetricsAsked
<1> QED
    BY <1>5, <1>7, <1>12, <1>13, <1>14

\* An answer takes a request away, and nothing else.
LEMMA AnswersTake ==
    ASSUME TypeOK, NEW r \in Request, Answered(r)
    PROVE  /\ requests' \in [Request -> 0..MaxPending]
           /\ JobsAsked' \subseteq JobsAsked /\ NodesAsked' \subseteq NodesAsked /\ MetricsAsked' \subseteq MetricsAsked
           /\ r.of # "job" => JobsAsked' = JobsAsked
           /\ r.of # "node" => NodesAsked' = NodesAsked
           /\ r.of # "metric" => MetricsAsked' = MetricsAsked
           /\ r.of = "job" => r.interval \in JobsAsked /\ JobsAsked \subseteq JobsAsked' \cup {r.interval}
           /\ r.of = "node" => r.interval \in NodesAsked
           /\ r.of = "metric" => r.interval \in MetricsAsked
<1>1. /\ requests \in [Request -> 0..MaxPending] /\ MaxPending \in Nat
      /\ requests' = [requests EXCEPT ![r] = @ - 1] /\ requests[r] > 0
    BY JobPageAssumption DEF TypeOK, Answered
<1>2. requests' \in [Request -> 0..MaxPending]
    BY <1>1
<1>3. /\ \A q \in Request : q # r => requests'[q] = requests[q]
      /\ \A q \in Request : requests'[q] > 0 => requests[q] > 0
    BY <1>1
<1>4. JobsAsked' \subseteq JobsAsked /\ NodesAsked' \subseteq NodesAsked /\ MetricsAsked' \subseteq MetricsAsked
    BY <1>3, RequestsOfThreeKinds DEF JobsAsked, NodesAsked, MetricsAsked
<1>5. r.of # "job" => JobsAsked' = JobsAsked
    BY <1>3, RequestsOfThreeKinds, RequestFields DEF JobsAsked
<1>6. r.of # "node" => NodesAsked' = NodesAsked
    BY <1>3, RequestsOfThreeKinds, RequestFields DEF NodesAsked
<1>7. r.of # "metric" => MetricsAsked' = MetricsAsked
    BY <1>3, RequestsOfThreeKinds, RequestFields DEF MetricsAsked
<1>8. r.of = "job" => r.interval \in JobsAsked /\ JobsAsked \subseteq JobsAsked' \cup {r.interval}
    BY <1>1, <1>3, RequestsOfThreeKinds, RequestFields DEF JobsAsked
<1>9. r.of = "node" => r.interval \in NodesAsked
    BY <1>1, RequestsOfThreeKinds DEF NodesAsked
<1>10. r.of = "metric" => r.interval \in MetricsAsked
    BY <1>1, RequestsOfThreeKinds DEF MetricsAsked
<1> QED
    BY <1>2, <1>4, <1>5, <1>6, <1>7, <1>8, <1>9, <1>10

\* A click takes none away and asks for nothing.
LEMMA AskedUnchanged ==
    ASSUME UNCHANGED requests
    PROVE  UNCHANGED <<JobsAsked, NodesAsked, MetricsAsked>>
BY DEF JobsAsked, NodesAsked, MetricsAsked

\* Nothing is under way exactly when no interval is.
LEMMA NothingAsked ==
    ASSUME TypeOK
    PROVE  (\A r \in Request : requests[r] = 0) <=> JobsAsked = {} /\ NodesAsked = {} /\ MetricsAsked = {}
<1>1. \A r \in Request : requests[r] \in Nat
    BY JobPageAssumption DEF TypeOK
<1>2. ASSUME \A r \in Request : requests[r] = 0
      PROVE  JobsAsked = {} /\ NodesAsked = {} /\ MetricsAsked = {}
    BY <1>2, RequestsOfThreeKinds DEF JobsAsked, NodesAsked, MetricsAsked
<1>3. ASSUME JobsAsked = {}, NodesAsked = {}, MetricsAsked = {}, NEW r \in Request
      PROVE  requests[r] = 0
    <2>1. CASE r.of = "job"
        BY <1>1, <1>3, <2>1, RequestsOfThreeKinds DEF JobsAsked
    <2>2. CASE r.of = "node"
        BY <1>1, <1>3, <2>2, RequestsOfThreeKinds DEF NodesAsked
    <2>3. CASE r.of = "metric"
        BY <1>1, <1>3, <2>3, RequestsOfThreeKinds DEF MetricsAsked
    <2> QED
        BY <2>1, <2>2, <2>3, RequestsOfThreeKinds
<1> QED
    BY <1>2, <1>3

---------------------------------------------------------------------------
(* The steps, field by field *)

\* The values of the fields.
LEMMA FieldTypes ==
    ASSUME TypeOK
    PROVE  /\ page.sampleInterval \in Intervals \cup {Undefined}
           /\ page.selection \in [Nodes -> BOOLEAN]
           /\ page.aggFnSelection \in AggFns \cup {Undefined}
           /\ node(page) \in Nodes \cup {Undefined}
           /\ hook.jobData \in JobData \cup {Undefined}
           /\ hook.isLoading \in BOOLEAN /\ hook.containsMetricData \in BOOLEAN
           /\ hook.Metadata \in Intervals \cup {Undefined}
           /\ hook.jobCache \subseteq Intervals
           /\ hook.nodeCache \subseteq Intervals \X Nodes
           /\ hook.aggFnCache \subseteq Intervals \X AggFns
           /\ IntervalOf(hook.jobData) \in Intervals \cup {Undefined}
           /\ hook.jobData = Undefined <=> IntervalOf(hook.jobData) = Undefined
           /\ hook.jobData # Undefined => /\ IntervalOf(hook.jobData) = hook.jobData.SampleInterval
                                          /\ hook.jobData.SampleInterval \in Intervals
                                          /\ hook.jobData.MetricData \in Metric \cup {Undefined}
           /\ crashed \in BOOLEAN /\ monitored \in BOOLEAN /\ hurried \in BOOLEAN /\ clicked \in BOOLEAN
<1>1. page \in Page /\ hook \in Hook /\ {monitored, crashed, clicked, hurried} \subseteq BOOLEAN
    BY DEF TypeOK
<1>2. /\ page.sampleInterval \in Intervals \cup {Undefined} /\ page.selection \in [Nodes -> BOOLEAN]
      /\ page.aggFnSelection \in AggFns \cup {Undefined}
    BY <1>1 DEF Page
<1>3. /\ hook.jobData \in JobData \cup {Undefined}
      /\ hook.isLoading \in BOOLEAN /\ hook.containsMetricData \in BOOLEAN
      /\ hook.Metadata \in Intervals \cup {Undefined} /\ hook.jobCache \in SUBSET Intervals
      /\ hook.nodeCache \in SUBSET (Intervals \X Nodes) /\ hook.aggFnCache \in SUBSET (Intervals \X AggFns)
    BY <1>1 DEF Hook
<1>4. hook.jobData # Undefined => /\ hook.jobData.SampleInterval \in Intervals
                                  /\ hook.jobData.MetricData \in Metric \cup {Undefined}
    BY <1>3 DEF JobData
<1>5. crashed \in BOOLEAN /\ monitored \in BOOLEAN /\ hurried \in BOOLEAN /\ clicked \in BOOLEAN
    BY <1>1
<1> QED
    BY <1>2, <1>3, <1>4, <1>5, NodeIsNode, UndefinedFresh DEF IntervalOf

\* What the effects do to each field. Afterwards the effects are due that depend on
\* what they have changed.
LEMMA EffectsFields ==
    ASSUME TypeOK, SeenInv, RunEffects
    PROVE  /\ page' = [sampleInterval |-> IntervalAfterEffects, selection |-> page.selection,
                       aggFnSelection |-> AggFnsAfterEffects]
           /\ hook' = [jobData |-> DataAfterEffects, isLoading |-> LoadingAfterEffects,
                       Metadata |-> hook.Metadata, jobCache |-> hook.jobCache,
                       nodeCache |-> hook.nodeCache, aggFnCache |-> hook.aggFnCache,
                       containsMetricData |-> hook.containsMetricData]
           /\ node(page') = node(page)
           /\ seen' = [deps |-> Dependencies(page, hook), changed |-> {}]
           /\ "job" \in Due' <=> IntervalAfterEffects # page.sampleInterval
           /\ "interval" \in Due' <=> IntervalOf(DataAfterEffects) # IntervalOf(hook.jobData)
<1>1. page \in Page /\ hook \in Hook
    BY DEF TypeOK
<1>2. page' = [page EXCEPT !.sampleInterval = IntervalAfterEffects, !.aggFnSelection = AggFnsAfterEffects]
      /\ hook' = [hook EXCEPT !.jobData = DataAfterEffects, !.isLoading = LoadingAfterEffects]
      /\ seen' = [deps |-> Dependencies(page, hook), changed |-> {}]
    BY DEF RunEffects
<1>3. page' = [sampleInterval |-> IntervalAfterEffects, selection |-> page.selection,
               aggFnSelection |-> AggFnsAfterEffects]
    BY <1>1, <1>2 DEF Page
<1>4. hook' = [jobData |-> DataAfterEffects, isLoading |-> LoadingAfterEffects,
               Metadata |-> hook.Metadata, jobCache |-> hook.jobCache,
               nodeCache |-> hook.nodeCache, aggFnCache |-> hook.aggFnCache,
               containsMetricData |-> hook.containsMetricData]
    BY <1>1, <1>2 DEF Hook
<1>5. node(page') = node(page)
    <2>1. page'.selection = page.selection
        BY <1>3
    <2>2. Selected(page') = Selected(page)
        BY <2>1 DEF Selected
    <2> QED
        BY <2>2 DEF node
<1>6. /\ seen'.changed = {}
      /\ seen'.deps.job = <<page.sampleInterval, node(page), hook.containsMetricData>>
      /\ seen'.deps.interval = IntervalOf(hook.jobData)
    BY <1>2 DEF Dependencies
<1>7. "job" \in Due' <=> IntervalAfterEffects # page.sampleInterval
    <2>1. page'.sampleInterval = IntervalAfterEffects /\ hook'.containsMetricData = hook.containsMetricData
        BY <1>3, <1>4
    <2> QED
        BY <1>5, <1>6, <2>1, DueMeansNext
<1>8. "interval" \in Due' <=> IntervalOf(DataAfterEffects) # IntervalOf(hook.jobData)
    <2>1. hook'.jobData = DataAfterEffects
        BY <1>4
    <2> QED
        BY <1>6, <2>1, DueMeansNext
<1> QED
    BY <1>2, <1>3, <1>4, <1>5, <1>7, <1>8

\* The metric data of a cache are those of the interval chosen.
LEMMA CachedMetricIsMetric ==
    ASSUME NEW i \in Intervals
    PROVE  /\ DefaultMetric(i) \in Metric /\ DefaultMetric(i).interval = i
           /\ \A n \in Nodes : /\ [DefaultMetric(i) EXCEPT !.node = n] \in Metric
                               /\ [DefaultMetric(i) EXCEPT !.node = n].interval = i
           /\ \A f \in AggFns : /\ [DefaultMetric(i) EXCEPT !.aggFn = f] \in Metric
                                /\ [DefaultMetric(i) EXCEPT !.aggFn = f].interval = i
BY UndefinedFresh DEF DefaultMetric, Metric

\* The data after the effects: the last effect that finds its data in a cache shows
\* them, for the interval chosen.
LEMMA DataAfter ==
    ASSUME TypeOK, HookInv
    PROVE  /\ hook.jobData = Undefined => ~ShowsNode /\ ~Aggregates /\ ~JobIsCached /\ DataAfterEffects = Undefined
           /\ hook.jobData # Undefined => DataAfterEffects \in JobData
           /\ ShowsNode /\ NodeIsCached =>
                 /\ DataAfterEffects.SampleInterval = page.sampleInterval
                 /\ DataAfterEffects.MetricData # Undefined
                 /\ DataAfterEffects.MetricData.interval = page.sampleInterval
           /\ ~(ShowsNode /\ NodeIsCached) /\ Aggregates /\ AggregateIsCached =>
                 /\ DataAfterEffects.SampleInterval = hook.jobData.SampleInterval
                 /\ DataAfterEffects.MetricData # Undefined
                 /\ DataAfterEffects.MetricData.interval = page.sampleInterval
           /\ ~(ShowsNode /\ NodeIsCached) /\ ~Aggregates /\ "job" \in Due /\ JobIsCached =>
                 /\ DataAfterEffects.SampleInterval = hook.Metadata
                 /\ DataAfterEffects.MetricData # Undefined
                 /\ DataAfterEffects.MetricData.interval = page.sampleInterval
           /\ ~(ShowsNode /\ NodeIsCached) /\ Aggregates /\ ~AggregateIsCached => DataAfterEffects = hook.jobData
           /\ ~(ShowsNode /\ NodeIsCached) /\ ~Aggregates /\ ~("job" \in Due /\ JobIsCached) =>
                 DataAfterEffects = hook.jobData
<1>1. /\ ShowsNode => page.sampleInterval \in Intervals /\ node(page) \in Nodes
      /\ Aggregates => page.sampleInterval \in Intervals /\ page.aggFnSelection \in AggFns /\ hook.jobData \in JobData
      /\ JobIsCached => page.sampleInterval \in Intervals /\ hook.Metadata \in Intervals
    BY FieldTypes DEF ShowsNode, Aggregates, JobIsCached, HookInv
<1>2. hook.jobData = Undefined => ~ShowsNode /\ ~Aggregates /\ ~JobIsCached
    BY FieldTypes, UndefinedFresh DEF ShowsNode, Aggregates, JobIsCached, HookInv
<1>3. CASE ShowsNode /\ NodeIsCached
    <2> DEFINE m == [DefaultMetric(page.sampleInterval) EXCEPT !.node = node(page)]
    <2>1. m \in Metric /\ m.interval = page.sampleInterval
        BY <1>1, <1>3, CachedMetricIsMetric
    <2>2. DataAfterEffects = [SampleInterval |-> page.sampleInterval, MetricData |-> m]
        BY <1>3 DEF DataAfterEffects
    <2> HIDE DEF m
    <2> QED
        BY <1>1, <1>2, <1>3, <2>1, <2>2, UndefinedFresh DEF JobData
<1>4. CASE ~(ShowsNode /\ NodeIsCached) /\ Aggregates /\ AggregateIsCached
    <2> DEFINE m == [DefaultMetric(page.sampleInterval) EXCEPT !.aggFn = page.aggFnSelection]
    <2>1. m \in Metric /\ m.interval = page.sampleInterval
        BY <1>1, <1>4, CachedMetricIsMetric
    <2>2. DataAfterEffects = [hook.jobData EXCEPT !.MetricData = m]
        BY <1>4 DEF DataAfterEffects
    <2> HIDE DEF m
    <2> QED
        BY <1>1, <1>2, <1>4, <2>1, <2>2, UndefinedFresh DEF JobData
<1>5. CASE ~(ShowsNode /\ NodeIsCached) /\ ~Aggregates /\ "job" \in Due /\ JobIsCached
    <2> DEFINE m == DefaultMetric(page.sampleInterval)
    <2>1. m \in Metric /\ m.interval = page.sampleInterval
        BY <1>1, <1>5, CachedMetricIsMetric
    <2>2. DataAfterEffects = [SampleInterval |-> hook.Metadata, MetricData |-> m]
        BY <1>5 DEF DataAfterEffects
    <2> HIDE DEF m
    <2> QED
        BY <1>1, <1>2, <1>5, <2>1, <2>2, UndefinedFresh DEF JobData
<1>6. CASE ~(ShowsNode /\ NodeIsCached) /\ Aggregates /\ ~AggregateIsCached
    <2>1. DataAfterEffects = hook.jobData
        BY <1>6 DEF DataAfterEffects
    <2> QED
        BY <1>2, <1>6, <2>1, FieldTypes
<1>7. CASE ~(ShowsNode /\ NodeIsCached) /\ ~Aggregates /\ ~("job" \in Due /\ JobIsCached)
    <2>1. DataAfterEffects = hook.jobData
        BY <1>7 DEF DataAfterEffects
    <2> QED
        BY <1>2, <1>7, <2>1, FieldTypes
<1> QED
    BY <1>3, <1>4, <1>5, <1>6, <1>7

---------------------------------------------------------------------------
(* The effects *)

\* In short: the interval the page takes over, and the data.
LEMMA EffectsResult ==
    ASSUME TypeOK, SeenInv, HookInv, RunEffects
    PROVE  /\ page'.sampleInterval = page.sampleInterval
                \/ /\ page'.sampleInterval # page.sampleInterval
                   /\ hook.jobData # Undefined /\ page'.sampleInterval = hook.jobData.SampleInterval
                   /\ seen.deps.interval # IntervalOf(hook.jobData)
           /\ "interval" \in Due /\ hook.jobData # Undefined => page'.sampleInterval = hook.jobData.SampleInterval
           /\ page'.sampleInterval = Undefined => page.sampleInterval = Undefined /\ hook.jobData = Undefined
           /\ page'.aggFnSelection \in AggFns \cup {Undefined}
           /\ page'.aggFnSelection = Undefined => page.aggFnSelection = Undefined
           /\ hook'.jobData = DataAfterEffects /\ hook'.isLoading = LoadingAfterEffects
           /\ hook'.Metadata = hook.Metadata /\ hook'.jobCache = hook.jobCache
           /\ hook'.containsMetricData = hook.containsMetricData
           /\ hook.jobData = Undefined <=> hook'.jobData = Undefined
           /\ hook'.jobData \in JobData \cup {Undefined}
           /\ node(page') = node(page)
           /\ seen'.changed = {} /\ seen'.deps.interval = IntervalOf(hook.jobData)
           /\ seen'.deps.job[3] = hook.containsMetricData
           /\ "job" \in Due' <=> page'.sampleInterval # page.sampleInterval
           /\ crashed = FALSE /\ crashed' = FALSE
           /\ UNCHANGED <<monitored, hurried, choices, failures>>
<1>1. /\ page'.sampleInterval = IntervalAfterEffects /\ page'.aggFnSelection = AggFnsAfterEffects
      /\ hook'.jobData = DataAfterEffects /\ hook'.isLoading = LoadingAfterEffects
      /\ hook'.Metadata = hook.Metadata /\ hook'.jobCache = hook.jobCache
      /\ hook'.containsMetricData = hook.containsMetricData
      /\ node(page') = node(page)
      /\ seen'.changed = {} /\ seen'.deps = Dependencies(page, hook)
      /\ "job" \in Due' <=> IntervalAfterEffects # page.sampleInterval
    BY EffectsFields
<1>2. seen'.deps.interval = IntervalOf(hook.jobData) /\ seen'.deps.job[3] = hook.containsMetricData
    BY <1>1 DEF Dependencies
<1>3. crashed = FALSE /\ crashed' = FALSE
    <2>1. ~crashed /\ crashed' = ("job" \in Due /\ JobIsCached /\ hook.Metadata = Undefined)
        BY DEF RunEffects
    <2>2. JobIsCached => hook.Metadata # Undefined
        BY DEF JobIsCached, HookInv
    <2> QED
        BY <2>1, <2>2, FieldTypes
<1>4. "interval" \in Due <=> seen.deps.interval # IntervalOf(hook.jobData)
    BY DueMeans DEF SeenInv
<1>5. /\ IntervalAfterEffects = page.sampleInterval
           \/ /\ IntervalAfterEffects # page.sampleInterval
              /\ hook.jobData # Undefined /\ IntervalAfterEffects = hook.jobData.SampleInterval
              /\ seen.deps.interval # IntervalOf(hook.jobData)
      /\ "interval" \in Due /\ hook.jobData # Undefined => IntervalAfterEffects = hook.jobData.SampleInterval
    BY <1>4 DEF IntervalAfterEffects
<1>6. IntervalAfterEffects = Undefined => page.sampleInterval = Undefined /\ hook.jobData = Undefined
    BY <1>4, <1>5, FieldTypes, UndefinedFresh DEF SeenInv
<1>7. /\ AggFnsAfterEffects \in AggFns \cup {Undefined}
      /\ AggFnsAfterEffects = Undefined => page.aggFnSelection = Undefined
    BY FieldTypes, UndefinedFresh DEF AggFnsAfterEffects
<1>8. /\ hook.jobData = Undefined <=> DataAfterEffects = Undefined
      /\ DataAfterEffects \in JobData \cup {Undefined}
    BY DataAfter, UndefinedFresh
<1>9. UNCHANGED <<monitored, hurried, choices, failures>>
    BY DEF RunEffects
<1> QED
    BY <1>1, <1>2, <1>3, <1>5, <1>6, <1>7, <1>8, <1>9

LEMMA EffectsKeepTypes ==
    ASSUME TypeOK, SeenInv, HookInv, RunEffects
    PROVE  TypeOK'
<1>1. page' \in Page
    <2>1. IntervalAfterEffects \in Intervals \cup {Undefined}
        BY FieldTypes DEF IntervalAfterEffects
    <2>2. AggFnsAfterEffects \in AggFns \cup {Undefined}
        BY FieldTypes, UndefinedFresh DEF AggFnsAfterEffects
    <2>3. page.selection \in [Nodes -> BOOLEAN]
        BY FieldTypes
    <2>4. page' = [sampleInterval |-> IntervalAfterEffects, selection |-> page.selection,
                   aggFnSelection |-> AggFnsAfterEffects]
        BY EffectsFields
    <2> QED
        BY <2>1, <2>2, <2>3, <2>4 DEF Page
<1>2. hook' \in Hook
    <2>1. DataAfterEffects \in JobData \cup {Undefined}
        BY DataAfter
    <2>2. LoadingAfterEffects \in BOOLEAN
        BY FieldTypes DEF LoadingAfterEffects, NodeIsCached, JobIsCached
    <2>3. hook' = [jobData |-> DataAfterEffects, isLoading |-> LoadingAfterEffects,
                   Metadata |-> hook.Metadata, jobCache |-> hook.jobCache,
                   nodeCache |-> hook.nodeCache, aggFnCache |-> hook.aggFnCache,
                   containsMetricData |-> hook.containsMetricData]
        BY EffectsFields
    <2>4. /\ hook.containsMetricData \in BOOLEAN /\ hook.Metadata \in Intervals \cup {Undefined}
          /\ hook.jobCache \in SUBSET Intervals
          /\ hook.nodeCache \in SUBSET (Intervals \X Nodes) /\ hook.aggFnCache \in SUBSET (Intervals \X AggFns)
        BY FieldTypes
    <2> QED
        BY <2>1, <2>2, <2>3, <2>4 DEF Hook
<1>3. seen'.changed \subseteq Effects
    BY EffectsFields
<1>4. requests' \in [Request -> 0..MaxPending]
    BY EffectsAsk
<1>5. {monitored, crashed, clicked, hurried}' \subseteq BOOLEAN
    BY EffectsResult, FieldTypes DEF RunEffects
<1>6. choices' \in 0..MaxChoices /\ failures' \in 0..MaxFailures
    BY EffectsResult DEF TypeOK
<1> QED
    BY <1>1, <1>2, <1>3, <1>4, <1>5, <1>6 DEF TypeOK

LEMMA EffectsKeepSeen ==
    ASSUME TypeOK, SeenInv, HookInv, RunEffects
    PROVE  SeenInv'
<1>1. seen' = [deps |-> Dependencies(page, hook), changed |-> {}]
    BY EffectsFields
<1>2. seen' \in [deps : SeenDeps, changed : SUBSET {"job", "node", "metric"}]
    BY <1>1, DependenciesAreSeen
<1> QED
    BY <1>2, EffectsResult DEF SeenInv, IntervalOf

LEMMA EffectsKeepHook ==
    ASSUME TypeOK, SeenInv, HookInv, RunEffects
    PROVE  HookInv'
<1>1. /\ hook'.jobCache # {} => hook'.Metadata # Undefined
      /\ monitored' /\ hook'.Metadata # Undefined => hook'.Metadata \in hook'.jobCache
      /\ hook'.containsMetricData => monitored'
    <2>1. /\ hook'.jobCache = hook.jobCache /\ hook'.Metadata = hook.Metadata
          /\ hook'.containsMetricData = hook.containsMetricData /\ monitored' = monitored
        BY EffectsResult
    <2>2. /\ hook.jobCache # {} => hook.Metadata # Undefined
          /\ monitored /\ hook.Metadata # Undefined => hook.Metadata \in hook.jobCache
          /\ hook.containsMetricData => monitored
        BY DEF HookInv
    <2> QED
        BY <2>1, <2>2
<1>2. ASSUME hook'.jobData = Undefined
      PROVE  page'.sampleInterval = Undefined /\ hook'.isLoading /\ ~hook'.containsMetricData
    <2>1. hook.jobData = Undefined
        BY <1>2, EffectsResult
    <2>2. page.sampleInterval = Undefined /\ hook.isLoading /\ ~hook.containsMetricData
        BY <2>1 DEF HookInv
    <2>3. ~ShowsNode /\ ~JobIsCached
        BY <2>1, DataAfter
    <2>4. LoadingAfterEffects = TRUE
        BY <2>2, <2>3, FieldTypes DEF LoadingAfterEffects
    <2> QED
        BY <2>1, <2>2, <2>4, EffectsResult
<1>3. ASSUME monitored', hook'.jobData # Undefined
      PROVE  hook'.containsMetricData /\ hook'.jobData.MetricData # Undefined
    <2>1. monitored /\ hook.jobData # Undefined
        BY <1>3, EffectsResult
    <2>2. hook.containsMetricData /\ hook.jobData.MetricData # Undefined
        BY <2>1 DEF HookInv
    <2>3. DataAfterEffects.MetricData # Undefined
        BY <2>1, <2>2, DataAfter
    <2> QED
        BY <2>2, <2>3, EffectsResult
<1>4. ASSUME MetricsAsked' # {} \/ "metric" \in seen'.changed
      PROVE  /\ hook'.containsMetricData /\ page'.sampleInterval # Undefined
             /\ page'.aggFnSelection # Undefined
    <2>1. MetricsAsked # {} \/ Aggregates
        BY <1>4, EffectsAsk, EffectsResult
    <2>2. hook.containsMetricData /\ page.sampleInterval # Undefined /\ page.aggFnSelection # Undefined
        BY <2>1 DEF HookInv, Aggregates
    <2> QED
        BY <2>2, EffectsResult
<1>5. ASSUME NodesAsked' # {}
      PROVE  page'.sampleInterval # Undefined
    BY <1>5, EffectsAsk, EffectsResult DEF HookInv, ShowsNode
<1> QED
    BY <1>1, <1>2, <1>3, <1>4, <1>5 DEF HookInv

LEMMA EffectsKeepLoading ==
    ASSUME TypeOK, SeenInv, HookInv, LoadingInv, RunEffects
    PROVE  LoadingInv'
<1> SUFFICES ASSUME ~crashed', failures' = 0, hook'.isLoading
             PROVE  "job" \in Due' \/ JobsAsked' # {} \/ NodesAsked' # {}
    BY DEF LoadingInv
<1>1. LoadingAfterEffects /\ ~crashed /\ failures = 0
    BY EffectsResult
<1>2. CASE ShowsNode
    BY <1>1, <1>2, EffectsAsk DEF LoadingAfterEffects
<1>3. CASE ~ShowsNode /\ "job" \in Due
    BY <1>1, <1>3, EffectsAsk DEF LoadingAfterEffects
<1>4. CASE ~ShowsNode /\ "job" \notin Due
    <2>1. hook.isLoading
        BY <1>1, <1>4 DEF LoadingAfterEffects
    <2> QED
        BY <1>1, <1>4, <2>1, EffectsAsk DEF LoadingInv
<1> QED
    BY <1>2, <1>3, <1>4

LEMMA EffectsKeepAvailable ==
    ASSUME TypeOK, SeenInv, HookInv, AvailableInv, RunEffects
    PROVE  AvailableInv'
<1>1. ASSUME failures' = 0, monitored'
      PROVE  /\ page'.sampleInterval # Undefined =>
                   JobIsCached' \/ page'.sampleInterval \in JobsAsked' \/ "job" \in Due'
             /\ MetricsAsked' \subseteq hook'.jobCache \cup JobsAsked'
    <2>1. ~crashed /\ failures = 0 /\ monitored
        BY <1>1, EffectsResult
    <2>2. page.sampleInterval # Undefined =>
             page.sampleInterval \in hook.jobCache \/ page.sampleInterval \in JobsAsked'
        BY <2>1, EffectsAsk DEF AvailableInv, JobIsCached
    <2>3. page'.sampleInterval # Undefined =>
                   JobIsCached' \/ page'.sampleInterval \in JobsAsked' \/ "job" \in Due'
        BY <2>2, EffectsResult DEF JobIsCached
    <2>4. MetricsAsked \subseteq hook.jobCache \cup JobsAsked'
        BY <2>1, EffectsAsk DEF AvailableInv
    <2>5. Aggregates => page.sampleInterval \in hook.jobCache \cup JobsAsked'
        BY <2>2 DEF Aggregates
    <2>6. MetricsAsked' \subseteq hook.jobCache \cup JobsAsked'
        BY <2>4, <2>5, EffectsAsk
    <2> QED
        BY <2>3, <2>6, EffectsResult
<1> QED
    BY <1>1, EffectsResult DEF AvailableInv

\* In a calm state the page takes over another interval only when nothing is asked for
\* but the best one.
LEMMA FollowsWhenCalm ==
    ASSUME TypeOK, SeenInv, HookInv, CalmInv, Calm, RunEffects,
           page'.sampleInterval # page.sampleInterval
    PROVE  JobsAsked' \subseteq {Undefined} /\ page'.sampleInterval \in hook.jobCache
<1>1. /\ page'.sampleInterval = hook.jobData.SampleInterval /\ hook.jobData # Undefined
      /\ hook.jobData.SampleInterval # page.sampleInterval
      /\ IntervalOf(hook.jobData) \notin {seen.deps.interval, page.sampleInterval}
    BY EffectsResult DEF IntervalOf
<1>2. ~Waiting
    BY <1>1 DEF CalmInv
<1>3. /\ JobsAsked \subseteq {Undefined}
      /\ ~("job" \in Due /\ page.sampleInterval # Undefined /\ ~JobIsCached)
    BY <1>2 DEF Waiting
<1>4. JobsAsked' \subseteq {Undefined}
    BY <1>3, EffectsAsk
<1>5. hook.jobData.SampleInterval \in hook.jobCache \cup JobsAsked
    BY <1>1 DEF CalmInv
<1> QED
    BY <1>1, <1>3, <1>4, <1>5, FieldTypes, UndefinedFresh

\* After the effects the data of the interval chosen are there or under way.
LEMMA ChosenIsAvailable ==
    ASSUME TypeOK, SeenInv, HookInv, AvailableInv, Calm, RunEffects, page.sampleInterval # Undefined
    PROVE  page.sampleInterval \in hook.jobCache \cup JobsAsked'
BY EffectsAsk DEF AvailableInv, Calm, JobIsCached

\* Which intervals the data are of.
LEMMA IntervalAfter ==
    ASSUME TypeOK, SeenInv, HookInv, RunEffects, hook'.jobData # Undefined
    PROVE  /\ hook.jobData # Undefined
           /\ IntervalOf(hook'.jobData) = hook'.jobData.SampleInterval
           /\ \/ hook'.jobData.SampleInterval = hook.jobData.SampleInterval
              \/ hook'.jobData.SampleInterval = page.sampleInterval /\ page.sampleInterval # Undefined
              \/ /\ hook'.jobData.SampleInterval = hook.Metadata /\ hook.Metadata # Undefined
                 /\ "job" \in Due /\ JobIsCached
<1>1. hook.jobData # Undefined /\ hook'.jobData = DataAfterEffects
    BY EffectsResult
<1>2. ShowsNode => page.sampleInterval # Undefined
    BY DEF ShowsNode
<1>3. JobIsCached => hook.Metadata # Undefined
    BY DEF HookInv, JobIsCached
<1>4. \/ DataAfterEffects.SampleInterval = hook.jobData.SampleInterval
      \/ DataAfterEffects.SampleInterval = page.sampleInterval /\ page.sampleInterval # Undefined
      \/ /\ DataAfterEffects.SampleInterval = hook.Metadata /\ hook.Metadata # Undefined
         /\ "job" \in Due /\ JobIsCached
    BY <1>2, <1>3, DataAfter
<1> QED
    BY <1>1, <1>4 DEF IntervalOf

LEMMA EffectsKeepCalm ==
    ASSUME TypeOK, SeenInv, HookInv, AvailableInv, CalmInv, RunEffects
    PROVE  CalmInv'
<1> SUFFICES ASSUME Calm'
             PROVE  CalmInv'
    BY DEF CalmInv
<1>0. Calm /\ monitored
    <2>1. /\ crashed = FALSE /\ failures' = failures /\ monitored' = monitored /\ hurried' = hurried
        BY EffectsResult
    <2> QED
        BY <2>1 DEF Calm
<1>1. JobsAsked' \subseteq {Undefined, page'.sampleInterval}
    <2>1. CASE page'.sampleInterval # page.sampleInterval
        BY <1>0, <2>1, FollowsWhenCalm
    <2>2. CASE page'.sampleInterval = page.sampleInterval
        BY <1>0, <2>2, EffectsAsk DEF CalmInv
    <2> QED
        BY <2>1, <2>2
<1>2. "job" \in Due' => JobsAsked' \subseteq {Undefined}
    BY <1>0, FollowsWhenCalm, EffectsResult
<1>3. ASSUME Waiting'
      PROVE  /\ IntervalOf(hook'.jobData) \in {seen'.deps.interval, page'.sampleInterval}
             /\ NodesAsked' \subseteq {page'.sampleInterval}
    <2>1. page'.sampleInterval = page.sampleInterval
        <3> SUFFICES ASSUME page'.sampleInterval # page.sampleInterval
                     PROVE  FALSE
            OBVIOUS
        <3>1. JobsAsked' \subseteq {Undefined} /\ page'.sampleInterval \in hook'.jobCache
            BY <1>0, FollowsWhenCalm, EffectsResult
        <3> QED
            BY <1>3, <3>1 DEF Waiting, JobIsCached
    <2>2. JobsAsked' \ {Undefined} # {}
        BY <1>3, <2>1, EffectsResult DEF Waiting
    <2>3. Waiting
        BY <1>0, <2>2, EffectsAsk DEF Waiting
    <2>4. NodesAsked \subseteq {page.sampleInterval}
        BY <1>0, <2>3 DEF CalmInv
    <2>5. ~("job" \in Due /\ JobIsCached)
        BY <1>0, <2>2, EffectsAsk DEF CalmInv
    <2>6. NodesAsked' \subseteq {page'.sampleInterval}
        BY <2>1, <2>4, EffectsAsk
    <2>7. CASE hook'.jobData = Undefined
        BY <2>6, <2>7, EffectsResult
    <2>8. CASE hook'.jobData # Undefined
        <3>1. seen'.deps.interval = hook.jobData.SampleInterval
            BY <2>8, IntervalAfter, EffectsResult DEF IntervalOf
        <3> QED
            BY <2>1, <2>5, <2>6, <2>8, <3>1, IntervalAfter
    <2> QED
        BY <2>7, <2>8
<1>4. hook'.jobData # Undefined => hook'.jobData.SampleInterval \in hook'.jobCache \cup JobsAsked'
    <2> SUFFICES ASSUME hook'.jobData # Undefined
                 PROVE  hook'.jobData.SampleInterval \in hook.jobCache \cup JobsAsked'
        BY EffectsResult
    <2>1. hook.jobData.SampleInterval \in hook.jobCache \cup JobsAsked'
        BY <1>0, IntervalAfter, EffectsAsk DEF CalmInv
    <2>2. hook.Metadata # Undefined => hook.Metadata \in hook.jobCache
        BY <1>0 DEF HookInv
    <2> QED
        BY <1>0, <2>1, <2>2, IntervalAfter, ChosenIsAvailable
<1>5. NodesAsked' \subseteq hook'.jobCache \cup JobsAsked'
    <2>1. NodesAsked \subseteq hook.jobCache \cup JobsAsked'
        BY <1>0, EffectsAsk DEF CalmInv
    <2>2. ShowsNode => page.sampleInterval \in hook.jobCache \cup JobsAsked'
        BY <1>0, ChosenIsAvailable DEF ShowsNode
    <2> QED
        BY <2>1, <2>2, EffectsAsk, EffectsResult
<1>6. ASSUME Early'
      PROVE  /\ page'.sampleInterval \in {Undefined, BestInterval}
             /\ IntervalOf(hook'.jobData) \in {Undefined, BestInterval}
             /\ hook'.Metadata \in {Undefined, BestInterval}
             /\ NodesAsked' \subseteq {BestInterval}
    <2>1. Early
        BY <1>6, EffectsAsk, EffectsResult DEF Early
    <2>2. /\ page.sampleInterval \in {Undefined, BestInterval}
          /\ IntervalOf(hook.jobData) \in {Undefined, BestInterval}
          /\ hook.Metadata \in {Undefined, BestInterval}
          /\ NodesAsked \subseteq {BestInterval}
        BY <1>0, <2>1 DEF CalmInv
    <2>3. hook.jobData # Undefined => hook.jobData.SampleInterval = BestInterval
        BY <2>2, FieldTypes, UndefinedFresh
    <2>4. page'.sampleInterval \in {Undefined, BestInterval}
        BY <2>2, <2>3, EffectsResult
    <2>5. IntervalOf(hook'.jobData) \in {Undefined, BestInterval}
        <3>1. CASE hook'.jobData = Undefined
            BY <3>1 DEF IntervalOf
        <3>2. CASE hook'.jobData # Undefined
            BY <2>2, <2>3, <3>2, IntervalAfter
        <3> QED
            BY <3>1, <3>2
    <2>6. hook'.Metadata \in {Undefined, BestInterval}
        BY <2>2, EffectsResult
    <2>7. NodesAsked' \subseteq {BestInterval}
        BY <2>2, EffectsAsk DEF ShowsNode
    <2> QED
        BY <2>4, <2>5, <2>6, <2>7
<1>7. NodesAsked' # {} \/ "node" \in seen'.changed => node(page') # Undefined /\ page'.sampleInterval # Undefined
    <2>1. NodesAsked' # {} \/ "node" \in seen'.changed => NodesAsked # {} \/ ShowsNode
        BY EffectsAsk, EffectsResult
    <2>2. NodesAsked # {} \/ ShowsNode => node(page) # Undefined /\ page.sampleInterval # Undefined
        BY <1>0 DEF CalmInv, ShowsNode
    <2> QED
        BY <2>1, <2>2, EffectsResult
<1>8. ASSUME Differs', JobsAsked' = {}, NodesAsked' = {}, MetricsAsked' = {}
      PROVE  Repairs'
    <2> SUFFICES ASSUME page'.sampleInterval = page.sampleInterval
                 PROVE  FALSE
        BY EffectsResult DEF Repairs
    <2>1. JobsAsked = {} /\ NodesAsked = {} /\ MetricsAsked = {}
        BY <1>8, EffectsAsk
    <2>2. /\ ShowsNode => NodeIsCached
          /\ Aggregates => AggregateIsCached
          /\ "job" \in Due => JobIsCached
        BY <1>8, EffectsAsk
    <2>3. /\ hook'.jobData = DataAfterEffects /\ hook.jobData # Undefined
          /\ DataAfterEffects.MetricData.interval # page.sampleInterval
        BY <1>8, EffectsResult DEF Differs
    <2>4. ~ShowsNode /\ ~Aggregates /\ "job" \notin Due
        BY <2>2, <2>3, DataAfter
    <2>5. DataAfterEffects = hook.jobData
        BY <2>4, DataAfter
    <2>6. Differs
        BY <2>3, <2>5 DEF Differs
    <2>7. Repairs
        BY <1>0, <2>1, <2>6 DEF CalmInv
    <2>8. "interval" \in Due /\ hook.jobData.SampleInterval # page.sampleInterval
        BY <2>4, <2>7 DEF Repairs
    <2> QED
        BY <2>3, <2>8, EffectsResult
<1> QED
    BY <1>1, <1>2, <1>3, <1>4, <1>5, <1>6, <1>7, <1>8 DEF CalmInv

---------------------------------------------------------------------------
(* The answer with the general data *)

\* What the answer does to each field.
LEMMA JobAnswerResult ==
    ASSUME TypeOK, NEW r \in Request, JobAnswered(r)
    PROVE  /\ AnsweredInterval(r) \in Intervals
           /\ r.interval = Undefined => AnsweredInterval(r) = BestInterval
           /\ r.interval # Undefined => AnsweredInterval(r) = r.interval
           /\ hook' \in Hook
           /\ hook'.Metadata = IF hook.Metadata = Undefined THEN AnsweredInterval(r) ELSE hook.Metadata
           /\ hook'.jobCache = IF monitored THEN hook.jobCache \cup {AnsweredInterval(r)} ELSE hook.jobCache
           /\ hook'.containsMetricData = monitored
           /\ hook'.isLoading = FALSE
           /\ hook'.jobData # Undefined /\ hook'.jobData.SampleInterval = AnsweredInterval(r)
           /\ IntervalOf(hook'.jobData) = AnsweredInterval(r)
           /\ monitored => /\ hook'.jobData.MetricData # Undefined
                           /\ hook'.jobData.MetricData.interval = AnsweredInterval(r)
           /\ crashed = FALSE /\ crashed' = FALSE
           /\ UNCHANGED <<monitored, page, seen, hurried, choices, failures>>
<1> DEFINE i == AnsweredInterval(r)
           c == IF monitored THEN hook.jobCache \cup {i} ELSE hook.jobCache
           a == IF monitored THEN hook.aggFnCache \cup {<<i, DefaultAggFn>>} ELSE hook.aggFnCache
           m == IF hook.Metadata = Undefined THEN i ELSE hook.Metadata
           d == [SampleInterval |-> i, MetricData |-> IF monitored THEN DefaultMetric(i) ELSE Undefined]
<1>1. i \in Intervals /\ (r.interval = Undefined => i = BestInterval) /\ (r.interval # Undefined => i = r.interval)
    BY RequestsOfThreeKinds, UndefinedFresh DEF AnsweredInterval
<1>2. c \in SUBSET Intervals /\ a \in SUBSET (Intervals \X AggFns) /\ m \in Intervals \cup {Undefined}
    BY <1>1, FieldTypes, UndefinedFresh
<1>3. DefaultMetric(i) \in Metric /\ DefaultMetric(i).interval = i
    BY <1>1, CachedMetricIsMetric
<1>4. d \in JobData
    BY <1>1, <1>3, FieldTypes DEF JobData
<1>5. d # Undefined /\ d.SampleInterval = i
    BY <1>4, UndefinedFresh
<1>6. monitored => d.MetricData # Undefined /\ d.MetricData.interval = i
    BY <1>3, UndefinedFresh
<1>7. hook' = [hook EXCEPT !.Metadata = m, !.jobCache = c, !.aggFnCache = a,
                           !.containsMetricData = monitored, !.isLoading = FALSE, !.jobData = d]
    BY DEF JobAnswered, populateJobCache
<1>8. hook \in Hook /\ monitored \in BOOLEAN
    BY FieldTypes DEF TypeOK
<1> HIDE DEF c, a, m, d
<1>9. hook' = [jobData |-> d, isLoading |-> FALSE, Metadata |-> m, jobCache |-> c,
               nodeCache |-> hook.nodeCache, aggFnCache |-> a, containsMetricData |-> monitored]
    BY <1>7, <1>8 DEF Hook
<1>10. hook' \in Hook
    BY <1>2, <1>4, <1>8, <1>9, FieldTypes DEF Hook
<1>11. crashed = FALSE /\ crashed' = FALSE
    BY FieldTypes DEF JobAnswered, Answered
<1>12. UNCHANGED <<monitored, page, seen, hurried, choices, failures>>
    BY DEF JobAnswered
<1>13. /\ hook'.Metadata = m /\ hook'.jobCache = c /\ hook'.containsMetricData = monitored
       /\ hook'.isLoading = FALSE /\ hook'.jobData = d
    BY <1>9
<1>14. IntervalOf(hook'.jobData) = i
    BY <1>5, <1>13 DEF IntervalOf
<1> QED
    BY <1>1, <1>5, <1>6, <1>10, <1>11, <1>12, <1>13, <1>14 DEF c, m

\* The effect for the general data stays due, and becomes due with the first metric data.
LEMMA JobAnswerDue ==
    ASSUME TypeOK, SeenInv, HookInv, NEW r \in Request, JobAnswered(r)
    PROVE  /\ "job" \in Due => "job" \in Due'
           /\ monitored /\ hook.jobData # Undefined => ("job" \in Due' <=> "job" \in Due)
<1>1. page' = page /\ seen' = seen /\ hook'.containsMetricData = monitored
    BY JobAnswerResult
<1>2. node(page') = node(page)
    BY <1>1
<1>3. hook.containsMetricData \in BOOLEAN /\ monitored \in BOOLEAN
    BY FieldTypes
<1>4. CASE hook.containsMetricData = monitored
    BY <1>1, <1>2, <1>4, DueMeans, DueMeansNext
<1>5. CASE hook.containsMetricData # monitored
    <2>1. hook.containsMetricData = FALSE /\ monitored = TRUE
        BY <1>3, <1>5 DEF HookInv
    <2>2. hook.jobData = Undefined
        BY <2>1 DEF HookInv
    <2>3. seen.deps.job[3] # TRUE
        BY <2>1 DEF SeenInv
    <2>4. <<page'.sampleInterval, node(page'), hook'.containsMetricData>>[3] = TRUE
        BY <1>1, <2>1
    <2>5. seen'.deps.job # <<page'.sampleInterval, node(page'), hook'.containsMetricData>>
        BY <1>1, <2>3, <2>4
    <2>6. "job" \in Due'
        BY <2>5, DueMeansNext
    <2> QED
        BY <2>2, <2>6
<1> QED
    BY <1>4, <1>5

LEMMA JobAnswerKeepsMost ==
    ASSUME TypeOK, SeenInv, HookInv, AvailableInv, NEW r \in Request, JobAnswered(r)
    PROVE  TypeOK' /\ SeenInv' /\ HookInv' /\ LoadingInv' /\ AvailableInv'
<1> DEFINE i == AnsweredInterval(r)
<1>0. Answered(r) /\ r.of = "job"
    BY DEF JobAnswered
<1>1. TypeOK'
    <2>1. hook' \in Hook /\ requests' \in [Request -> 0..MaxPending]
        BY <1>0, AnswersTake, JobAnswerResult
    <2>2. {monitored, crashed, clicked, hurried}' \subseteq BOOLEAN
        BY <1>0, JobAnswerResult, FieldTypes DEF Answered
    <2>3. page' \in Page /\ seen'.changed \subseteq Effects
        BY JobAnswerResult DEF TypeOK
    <2>4. choices' \in 0..MaxChoices /\ failures' \in 0..MaxFailures
        BY JobAnswerResult DEF TypeOK
    <2> QED
        BY <2>1, <2>2, <2>3, <2>4 DEF TypeOK
<1>2. SeenInv'
    <2>1. page' = page /\ seen' = seen /\ hook'.containsMetricData = monitored
        BY JobAnswerResult
    <2>2. hook.containsMetricData => monitored
        BY DEF HookInv
    <2> QED
        BY <2>1, <2>2 DEF SeenInv
<1>3. HookInv'
    <2>1. hook'.Metadata # Undefined
        BY JobAnswerResult, UndefinedFresh
    <2>2. monitored => hook'.Metadata \in hook'.jobCache
        <3>1. monitored /\ hook.Metadata # Undefined => hook.Metadata \in hook.jobCache
            BY DEF HookInv
        <3> QED
            BY <3>1, JobAnswerResult
    <2>3. /\ MetricsAsked' # {} \/ "metric" \in seen'.changed =>
                 monitored /\ page'.sampleInterval # Undefined /\ page'.aggFnSelection # Undefined
          /\ NodesAsked' # {} => page'.sampleInterval # Undefined
        <3>1. MetricsAsked' = MetricsAsked /\ NodesAsked' = NodesAsked
            BY <1>0, AnswersTake
        <3>2. page' = page /\ seen' = seen
            BY JobAnswerResult
        <3> QED
            BY <3>1, <3>2 DEF HookInv
    <2>4. monitored' = monitored /\ hook'.containsMetricData = monitored /\ hook'.jobData # Undefined
          /\ (monitored => hook'.jobData.MetricData # Undefined)
        BY JobAnswerResult
    <2> QED
        BY <2>1, <2>2, <2>3, <2>4 DEF HookInv
<1>4. LoadingInv'
    BY JobAnswerResult DEF LoadingInv
<1>5. AvailableInv'
    <2> SUFFICES ASSUME failures = 0, monitored
                 PROVE  /\ page'.sampleInterval # Undefined =>
                             JobIsCached' \/ page'.sampleInterval \in JobsAsked' \/ "job" \in Due'
                        /\ MetricsAsked' \subseteq hook'.jobCache \cup JobsAsked'
        BY JobAnswerResult DEF AvailableInv
    <2>1. ~crashed /\ page' = page /\ hook'.jobCache = hook.jobCache \cup {i}
        BY JobAnswerResult
    <2>2. /\ page.sampleInterval # Undefined =>
                page.sampleInterval \in hook.jobCache \/ page.sampleInterval \in JobsAsked \/ "job" \in Due
          /\ MetricsAsked \subseteq hook.jobCache \cup JobsAsked
        BY <2>1 DEF AvailableInv, JobIsCached
    <2>3. JobsAsked \subseteq JobsAsked' \cup {r.interval} /\ MetricsAsked' = MetricsAsked
        BY <1>0, AnswersTake
    <2>4. r.interval # Undefined => r.interval \in hook'.jobCache
        BY <2>1, JobAnswerResult
    <2>5. MetricsAsked \subseteq Intervals
        BY DEF MetricsAsked
    <2>6. MetricsAsked' \subseteq hook'.jobCache \cup JobsAsked'
        BY <2>1, <2>2, <2>3, <2>4, <2>5, UndefinedFresh
    <2>7. page'.sampleInterval # Undefined =>
              JobIsCached' \/ page'.sampleInterval \in JobsAsked' \/ "job" \in Due'
        BY <2>1, <2>2, <2>3, <2>4, JobAnswerDue DEF JobIsCached
    <2> QED
        BY <2>6, <2>7
<1> QED
    BY <1>1, <1>2, <1>3, <1>4, <1>5

LEMMA JobAnswerKeepsCalm ==
    ASSUME TypeOK, SeenInv, HookInv, CalmInv, NEW r \in Request, JobAnswered(r)
    PROVE  CalmInv'
<1> DEFINE i == AnsweredInterval(r)
<1> SUFFICES ASSUME Calm'
             PROVE  CalmInv'
    BY DEF CalmInv
<1>0. /\ Answered(r) /\ r.of = "job" /\ Calm /\ monitored
      /\ page' = page /\ seen' = seen /\ node(page') = node(page)
    <2>1. /\ crashed = FALSE /\ failures' = failures /\ monitored' = monitored /\ hurried' = hurried
          /\ page' = page /\ seen' = seen
        BY JobAnswerResult
    <2> QED
        BY <2>1 DEF Calm, JobAnswered
<1>1. /\ i \in Intervals /\ (r.interval = Undefined => i = BestInterval)
      /\ (r.interval # Undefined => i = r.interval)
      /\ hook'.jobCache = hook.jobCache \cup {i} /\ hook'.containsMetricData
      /\ hook'.jobData # Undefined /\ hook'.jobData.SampleInterval = i /\ IntervalOf(hook'.jobData) = i
      /\ hook'.jobData.MetricData.interval = i
      /\ hook'.Metadata = IF hook.Metadata = Undefined THEN i ELSE hook.Metadata
    BY <1>0, JobAnswerResult
<1>2. /\ JobsAsked' \subseteq JobsAsked /\ NodesAsked' = NodesAsked /\ MetricsAsked' = MetricsAsked
      /\ r.interval \in JobsAsked /\ JobsAsked \subseteq JobsAsked' \cup {r.interval}
    BY <1>0, AnswersTake
<1>3. JobsAsked \subseteq {Undefined, page.sampleInterval}
    BY <1>0 DEF CalmInv
<1>4. Early => /\ page.sampleInterval \in {Undefined, BestInterval}
               /\ hook.Metadata \in {Undefined, BestInterval}
               /\ NodesAsked \subseteq {BestInterval}
    BY <1>0 DEF CalmInv
<1>5. r.interval = Undefined => Early
    BY <1>2 DEF Early
<1>6. "job" \in Due' => JobsAsked' \subseteq {Undefined}
    <2>1. CASE "job" \in Due
        BY <1>0, <1>2, <2>1 DEF CalmInv
    <2>2. CASE hook.jobData # Undefined
        BY <1>0, <2>1, <2>2, JobAnswerDue
    <2>3. CASE hook.jobData = Undefined
        BY <1>2, <1>3, <2>3 DEF HookInv
    <2> QED
        BY <2>1, <2>2, <2>3
<1>7. ASSUME Waiting'
      PROVE  i \in {seen.deps.interval, page.sampleInterval} /\ NodesAsked \subseteq {page.sampleInterval}
    <2>1. CASE JobsAsked' \ {Undefined} # {}
        <3>1. page.sampleInterval # Undefined /\ page.sampleInterval \in JobsAsked
            BY <1>2, <1>3, <2>1
        <3>2. Waiting
            BY <3>1 DEF Waiting
        <3>3. i = page.sampleInterval
            BY <1>1, <1>2, <1>3, <1>4, <1>5, <3>1
        <3> QED
            BY <1>0, <3>2, <3>3 DEF CalmInv
    <2>2. CASE "job" \in Due' /\ page.sampleInterval # Undefined /\ page.sampleInterval \notin hook'.jobCache
        <3>1. hook.jobData # Undefined
            BY <2>2 DEF HookInv
        <3>2. "job" \in Due
            BY <1>0, <2>2, <3>1, JobAnswerDue
        <3>3. JobsAsked \subseteq {Undefined}
            BY <1>0, <3>2 DEF CalmInv
        <3>4. i = page.sampleInterval
            BY <1>1, <1>2, <1>4, <1>5, <2>2, <3>3
        <3> QED
            BY <1>1, <2>2, <3>4
    <2> QED
        BY <1>0, <1>7, <2>1, <2>2 DEF Waiting, JobIsCached
<1>8. NodesAsked' \subseteq hook'.jobCache \cup JobsAsked'
    <2>1. NodesAsked \subseteq hook.jobCache \cup JobsAsked
        BY <1>0 DEF CalmInv
    <2>2. NodesAsked \subseteq Intervals
        BY DEF NodesAsked
    <2> QED
        BY <1>1, <1>2, <2>1, <2>2, UndefinedFresh
<1>9. ASSUME Early'
      PROVE  /\ page'.sampleInterval \in {Undefined, BestInterval}
             /\ i \in {Undefined, BestInterval}
             /\ hook'.Metadata \in {Undefined, BestInterval}
             /\ NodesAsked' \subseteq {BestInterval}
    <2>1. Early
        BY <1>0, <1>2, <1>9 DEF Early
    <2>2. i = BestInterval
        BY <1>1, <1>2, <1>3, <1>4, <2>1
    <2> QED
        BY <1>0, <1>1, <1>2, <1>4, <2>1, <2>2
<1>10. NodesAsked' # {} \/ "node" \in seen'.changed => node(page') # Undefined /\ page'.sampleInterval # Undefined
    BY <1>0, <1>2 DEF CalmInv
<1>11. Differs' => Repairs'
    <2> SUFFICES ASSUME i # page.sampleInterval
                 PROVE  Repairs'
        BY <1>0, <1>1 DEF Differs
    <2>1. r.interval = Undefined
        BY <1>1, <1>2, <1>3
    <2>2. page.sampleInterval = Undefined
        BY <1>1, <1>4, <1>5, <2>1
    <2>3. seen.deps.interval = Undefined
        BY <2>2 DEF SeenInv
    <2>4. "interval" \in Due'
        BY <1>0, <1>1, <2>3, UndefinedFresh, DueMeansNext
    <2> QED
        BY <1>0, <1>1, <2>4 DEF Repairs
<1> QED
    BY <1>0, <1>1, <1>2, <1>3, <1>6, <1>7, <1>8, <1>9, <1>10, <1>11 DEF CalmInv

---------------------------------------------------------------------------
(* The other answers *)

\* What the details of a node do to each field.
LEMMA NodeAnswerResult ==
    ASSUME TypeOK, SeenInv, NEW r \in Request, NodeAnswered(r)
    PROVE  /\ r.interval \in Intervals
           /\ hook' \in Hook
           /\ hook'.isLoading = FALSE
           /\ hook'.Metadata = hook.Metadata /\ hook'.jobCache = hook.jobCache
           /\ hook'.containsMetricData = hook.containsMetricData
           /\ hook'.jobData # Undefined /\ hook'.jobData.SampleInterval = r.interval
           /\ IntervalOf(hook'.jobData) = r.interval
           /\ monitored => hook'.jobData.MetricData # Undefined
           /\ seen'.deps = seen.deps /\ seen'.changed = seen.changed \cup {"node"}
           /\ seen' \in [deps : SeenDeps, changed : SUBSET {"job", "node", "metric"}]
           /\ "job" \in Due' <=> "job" \in Due
           /\ "node" \in Due'
           /\ crashed = FALSE /\ crashed' = FALSE
           /\ node(page') = node(page)
           /\ UNCHANGED <<monitored, page, hurried, choices, failures>>
<1> DEFINE i == r.interval
           c == hook.nodeCache \cup {<<i, r.node>>}
           d == [SampleInterval |-> i,
                 MetricData |-> IF monitored THEN [DefaultMetric(i) EXCEPT !.node = r.node] ELSE Undefined]
<1>1. i \in Intervals /\ r.node \in Nodes
    BY RequestsOfThreeKinds DEF NodeAnswered
<1>2. c \in SUBSET (Intervals \X Nodes)
    BY <1>1, FieldTypes
<1>3. [DefaultMetric(i) EXCEPT !.node = r.node] \in Metric
    BY <1>1, CachedMetricIsMetric
<1>4. d \in JobData
    BY <1>1, <1>3, FieldTypes DEF JobData
<1>5. d # Undefined /\ d.SampleInterval = i
    BY <1>4, UndefinedFresh
<1>6. monitored => d.MetricData # Undefined
    BY <1>3, UndefinedFresh
<1>7. hook' = [hook EXCEPT !.nodeCache = c, !.isLoading = FALSE, !.jobData = d]
    BY DEF NodeAnswered
<1>8. hook \in Hook
    BY DEF TypeOK
<1> HIDE DEF c, d
<1>9. hook' = [jobData |-> d, isLoading |-> FALSE, Metadata |-> hook.Metadata, jobCache |-> hook.jobCache,
               nodeCache |-> c, aggFnCache |-> hook.aggFnCache,
               containsMetricData |-> hook.containsMetricData]
    BY <1>7, <1>8 DEF Hook
<1>10. hook' \in Hook
    BY <1>2, <1>4, <1>8, <1>9, FieldTypes DEF Hook
<1>11. crashed = FALSE /\ crashed' = FALSE
    BY FieldTypes DEF NodeAnswered, Answered
<1>12. UNCHANGED <<monitored, page, hurried, choices, failures>>
    BY DEF NodeAnswered
<1>13. /\ hook'.Metadata = hook.Metadata /\ hook'.jobCache = hook.jobCache
       /\ hook'.containsMetricData = hook.containsMetricData
       /\ hook'.isLoading = FALSE /\ hook'.jobData = d
    BY <1>9
<1>14. IntervalOf(hook'.jobData) = i
    BY <1>5, <1>13 DEF IntervalOf
<1>15. /\ seen'.deps = seen.deps /\ seen'.changed = seen.changed \cup {"node"}
       /\ seen' \in [deps : SeenDeps, changed : SUBSET {"job", "node", "metric"}]
    BY DEF NodeAnswered, SeenInv
<1>16. node(page') = node(page)
    BY <1>12
<1>17. "job" \in Due' <=> "job" \in Due
    BY <1>12, <1>13, <1>15, <1>16, DueMeans, DueMeansNext
<1>18. "node" \in Due'
    BY <1>15, DueMeansNext
<1> QED
    BY <1>1, <1>5, <1>6, <1>10, <1>11, <1>12, <1>13, <1>14, <1>15, <1>16, <1>17, <1>18

LEMMA NodeAnswerKeeps ==
    ASSUME JobPageIInv, NEW r \in Request, NodeAnswered(r)
    PROVE  JobPageIInv'
<1> USE DEF JobPageIInv
<1>0. Answered(r) /\ r.of = "node"
    BY DEF NodeAnswered
<1>1. /\ JobsAsked' = JobsAsked /\ MetricsAsked' = MetricsAsked
      /\ NodesAsked' \subseteq NodesAsked /\ r.interval \in NodesAsked
    BY <1>0, AnswersTake
<1>2. TypeOK'
    <2>1. hook' \in Hook /\ requests' \in [Request -> 0..MaxPending]
        BY <1>0, AnswersTake, NodeAnswerResult
    <2>2. {monitored, crashed, clicked, hurried}' \subseteq BOOLEAN
        BY <1>0, NodeAnswerResult, FieldTypes DEF Answered
    <2>3. page' \in Page /\ seen'.changed \subseteq Effects
        BY NodeAnswerResult DEF TypeOK, Effects
    <2>4. choices' \in 0..MaxChoices /\ failures' \in 0..MaxFailures
        BY NodeAnswerResult DEF TypeOK
    <2> QED
        BY <2>1, <2>2, <2>3, <2>4 DEF TypeOK
<1>3. SeenInv'
    BY NodeAnswerResult DEF SeenInv
<1>4. HookInv'
    <2>1. /\ hook.jobCache # {} => hook.Metadata # Undefined
          /\ monitored /\ hook.Metadata # Undefined => hook.Metadata \in hook.jobCache
          /\ hook.containsMetricData => monitored
        BY DEF HookInv
    <2>2. page.sampleInterval # Undefined /\ hook.jobData # Undefined
        BY <1>1 DEF HookInv
    <2>3. monitored => hook.containsMetricData
        BY <2>2 DEF HookInv
    <2>4. /\ MetricsAsked # {} \/ "metric" \in seen.changed =>
                 hook.containsMetricData /\ page.sampleInterval # Undefined /\ page.aggFnSelection # Undefined
        BY DEF HookInv
    <2>5. /\ page' = page /\ monitored' = monitored /\ hook'.jobData # Undefined
          /\ hook'.Metadata = hook.Metadata /\ hook'.jobCache = hook.jobCache
          /\ hook'.containsMetricData = hook.containsMetricData
          /\ (monitored => hook'.jobData.MetricData # Undefined)
          /\ seen'.changed = seen.changed \cup {"node"}
        BY NodeAnswerResult
    <2> QED
        BY <1>1, <2>1, <2>2, <2>3, <2>4, <2>5 DEF HookInv
<1>5. LoadingInv'
    BY NodeAnswerResult DEF LoadingInv
<1>6. AvailableInv'
    <2>1. /\ page' = page /\ monitored' = monitored /\ crashed = FALSE /\ crashed' = FALSE
          /\ failures' = failures /\ hook'.jobCache = hook.jobCache
          /\ ("job" \in Due' <=> "job" \in Due)
        BY NodeAnswerResult
    <2> QED
        BY <1>1, <2>1 DEF AvailableInv, JobIsCached
<1>7. CalmInv'
    <2> SUFFICES ASSUME Calm'
                 PROVE  CalmInv'
        BY DEF CalmInv
    <2>1. /\ page' = page /\ node(page') = node(page) /\ seen'.deps = seen.deps /\ hook'.jobCache = hook.jobCache
          /\ hook'.Metadata = hook.Metadata
          /\ hook'.jobData # Undefined /\ hook'.jobData.SampleInterval = r.interval
          /\ IntervalOf(hook'.jobData) = r.interval
          /\ ("job" \in Due' <=> "job" \in Due) /\ "node" \in Due'
        BY NodeAnswerResult
    <2>2. Calm
        BY NodeAnswerResult DEF Calm
    <2>3. /\ JobsAsked \subseteq {Undefined, page.sampleInterval}
          /\ "job" \in Due => JobsAsked \subseteq {Undefined}
          /\ Waiting => NodesAsked \subseteq {page.sampleInterval}
          /\ NodesAsked \subseteq hook.jobCache \cup JobsAsked
          /\ Early => /\ page.sampleInterval \in {Undefined, BestInterval}
                      /\ hook.Metadata \in {Undefined, BestInterval}
                      /\ NodesAsked \subseteq {BestInterval}
          /\ node(page) # Undefined /\ page.sampleInterval # Undefined
        BY <1>1, <2>2 DEF CalmInv
    <2>4. (Waiting' <=> Waiting) /\ (Early' <=> Early)
        BY <1>1, <2>1 DEF Waiting, Early, JobIsCached
    <2>5. Repairs'
        BY <2>1, <2>3 DEF Repairs, ShowsNode
    <2> QED
        BY <1>1, <2>1, <2>3, <2>4, <2>5 DEF CalmInv
<1> QED
    BY <1>2, <1>3, <1>4, <1>5, <1>6, <1>7

\* What the aggregated data do to each field.
LEMMA MetricAnswerResult ==
    ASSUME TypeOK, SeenInv, NEW r \in Request, MetricAnswered(r)
    PROVE  /\ r.interval \in Intervals
           /\ hook' \in Hook
           /\ hook'.isLoading = hook.isLoading
           /\ hook'.Metadata = hook.Metadata /\ hook'.jobCache = hook.jobCache
           /\ hook'.containsMetricData = hook.containsMetricData
           /\ hook'.jobData = hook.jobData
           /\ seen'.deps = seen.deps /\ seen'.changed \subseteq seen.changed \cup {"metric"}
           /\ seen.changed \subseteq seen'.changed
           /\ seen' \in [deps : SeenDeps, changed : SUBSET {"job", "node", "metric"}]
           /\ "job" \in Due' <=> "job" \in Due
           /\ "interval" \in Due' <=> "interval" \in Due
           /\ "node" \in Due' <=> "node" \in Due
           /\ \/ "metric" \in seen'.changed /\ crashed' = FALSE
              \/ r.interval \notin hook.jobCache /\ crashed' = TRUE
           /\ crashed = FALSE
           /\ node(page') = node(page)
           /\ UNCHANGED <<monitored, page, hurried, choices, failures>>
<1>1. r.interval \in Intervals /\ r.aggFn \in AggFns
    BY RequestsOfThreeKinds DEF MetricAnswered
<1>2. crashed = FALSE
    BY FieldTypes DEF MetricAnswered, Answered
<1>3. UNCHANGED <<monitored, page, hurried, choices, failures>>
    BY DEF MetricAnswered
<1>4. node(page') = node(page)
    BY <1>3
<1>5. /\ hook' \in Hook
      /\ hook'.isLoading = hook.isLoading
      /\ hook'.Metadata = hook.Metadata /\ hook'.jobCache = hook.jobCache
      /\ hook'.containsMetricData = hook.containsMetricData
      /\ hook'.jobData = hook.jobData
    <2>1. CASE hook' = hook
        BY <2>1 DEF TypeOK
    <2>2. CASE hook' = [hook EXCEPT !.aggFnCache = @ \cup {<<r.interval, r.aggFn>>}]
        <3>1. hook.aggFnCache \cup {<<r.interval, r.aggFn>>} \in SUBSET (Intervals \X AggFns)
            BY <1>1, FieldTypes
        <3>2. hook \in Hook
            BY DEF TypeOK
        <3> QED
            BY <2>2, <3>1, <3>2 DEF Hook
    <2> QED
        BY <2>1, <2>2 DEF MetricAnswered
<1>6. /\ seen'.deps = seen.deps /\ seen'.changed \subseteq seen.changed \cup {"metric"}
      /\ seen.changed \subseteq seen'.changed
      /\ seen' \in [deps : SeenDeps, changed : SUBSET {"job", "node", "metric"}]
    <2>1. seen \in [deps : SeenDeps, changed : SUBSET {"job", "node", "metric"}]
        BY DEF SeenInv
    <2>2. seen' = seen \/ seen' = [seen EXCEPT !.changed = @ \cup {"metric"}]
        BY DEF MetricAnswered
    <2>3. CASE seen' = seen
        BY <2>1, <2>3
    <2>4. CASE seen' = [seen EXCEPT !.changed = @ \cup {"metric"}]
        <3>1. seen' = [deps |-> seen.deps, changed |-> seen.changed \cup {"metric"}]
            BY <2>1, <2>4
        <3>2. seen.deps \in SeenDeps /\ seen.changed \cup {"metric"} \in SUBSET {"job", "node", "metric"}
            BY <2>1
        <3> QED
            BY <3>1, <3>2
    <2> QED
        BY <2>2, <2>3, <2>4
<1>7. \/ "metric" \in seen'.changed /\ crashed' = FALSE
      \/ r.interval \notin hook.jobCache /\ crashed' = TRUE
    <2>1. CASE seen' = [seen EXCEPT !.changed = @ \cup {"metric"}] /\ crashed' = crashed
        <3>1. seen \in [deps : SeenDeps, changed : SUBSET {"job", "node", "metric"}]
            BY DEF SeenInv
        <3>2. seen'.changed = seen.changed \cup {"metric"}
            BY <2>1, <3>1
        <3>3. crashed' = FALSE
            BY <1>2, <2>1
        <3> QED
            BY <3>2, <3>3
    <2>2. CASE r.interval \notin hook.jobCache /\ crashed' = TRUE
        BY <2>2
    <2> QED
        BY <2>1, <2>2 DEF MetricAnswered
<1>8. /\ "job" \in Due' <=> "job" \in Due
      /\ "interval" \in Due' <=> "interval" \in Due
      /\ "node" \in Due' <=> "node" \in Due
    BY <1>3, <1>4, <1>5, <1>6, DueMeans, DueMeansNext
<1> QED
    BY <1>1, <1>2, <1>3, <1>4, <1>5, <1>6, <1>7, <1>8

LEMMA MetricAnswerKeeps ==
    ASSUME JobPageIInv, NEW r \in Request, MetricAnswered(r)
    PROVE  JobPageIInv'
<1> USE DEF JobPageIInv
<1>0. Answered(r) /\ r.of = "metric"
    BY DEF MetricAnswered
<1>1. /\ JobsAsked' = JobsAsked /\ NodesAsked' = NodesAsked
      /\ MetricsAsked' \subseteq MetricsAsked /\ r.interval \in MetricsAsked
    BY <1>0, AnswersTake
<1>2. hook.containsMetricData /\ page.sampleInterval # Undefined /\ page.aggFnSelection # Undefined
    BY <1>1 DEF HookInv
<1>3. /\ page' = page /\ node(page') = node(page) /\ monitored' = monitored /\ crashed = FALSE
      /\ hurried' = hurried /\ failures' = failures
      /\ hook'.Metadata = hook.Metadata /\ hook'.jobCache = hook.jobCache
      /\ hook'.containsMetricData = hook.containsMetricData /\ hook'.jobData = hook.jobData
      /\ hook'.isLoading = hook.isLoading
      /\ seen'.deps = seen.deps /\ seen'.changed \subseteq seen.changed \cup {"metric"}
      /\ seen.changed \subseteq seen'.changed
      /\ ("job" \in Due' <=> "job" \in Due) /\ ("interval" \in Due' <=> "interval" \in Due)
      /\ ("node" \in Due' <=> "node" \in Due)
    BY MetricAnswerResult
<1>4. TypeOK'
    <2>1. hook' \in Hook /\ requests' \in [Request -> 0..MaxPending]
        BY <1>0, AnswersTake, MetricAnswerResult
    <2>2. {monitored, crashed, clicked, hurried}' \subseteq BOOLEAN
        BY <1>0, MetricAnswerResult, FieldTypes DEF Answered
    <2>3. page' \in Page /\ seen'.changed \subseteq Effects
        BY <1>3, MetricAnswerResult DEF TypeOK, Effects
    <2>4. choices' \in 0..MaxChoices /\ failures' \in 0..MaxFailures
        BY MetricAnswerResult DEF TypeOK
    <2> QED
        BY <2>1, <2>2, <2>3, <2>4 DEF TypeOK
<1>5. SeenInv'
    BY MetricAnswerResult DEF SeenInv
<1>6. HookInv'
    <2>1. /\ hook.jobCache # {} => hook.Metadata # Undefined
          /\ monitored /\ hook.Metadata # Undefined => hook.Metadata \in hook.jobCache
          /\ hook.jobData # Undefined
          /\ monitored => hook.jobData.MetricData # Undefined
          /\ hook.containsMetricData => monitored
        BY <1>2 DEF HookInv
    <2> QED
        BY <1>2, <1>3, <2>1 DEF HookInv
<1>7. LoadingInv'
    <2> SUFFICES ASSUME failures = 0, hook.isLoading
                 PROVE  "job" \in Due \/ JobsAsked # {} \/ NodesAsked # {}
        BY <1>1, <1>3 DEF LoadingInv
    <2> QED
        BY <1>3 DEF LoadingInv
<1>8. AvailableInv'
    <2> SUFFICES ASSUME failures = 0
                 PROVE  /\ page.sampleInterval # Undefined =>
                              JobIsCached \/ page.sampleInterval \in JobsAsked \/ "job" \in Due
                        /\ MetricsAsked' \subseteq hook.jobCache \cup JobsAsked
                        /\ crashed' => JobsAsked # {}
        BY <1>1, <1>3 DEF AvailableInv, JobIsCached
    <2>1. monitored
        BY <1>2 DEF HookInv
    <2>2. /\ page.sampleInterval # Undefined =>
                JobIsCached \/ page.sampleInterval \in JobsAsked \/ "job" \in Due
          /\ MetricsAsked \subseteq hook.jobCache \cup JobsAsked
        BY <1>3, <2>1 DEF AvailableInv
    <2>3. crashed' => r.interval \notin hook.jobCache
        BY MetricAnswerResult
    <2> QED
        BY <1>1, <2>2, <2>3
<1>9. CalmInv'
    <2> SUFFICES ASSUME Calm'
                 PROVE  CalmInv'
        BY DEF CalmInv
    <2>1. Calm
        BY <1>3 DEF Calm
    <2>2. "metric" \in seen'.changed
        BY MetricAnswerResult DEF Calm
    <2>3. (Waiting' <=> Waiting) /\ (Early' <=> Early) /\ (Differs' <=> Differs)
        BY <1>1, <1>3 DEF Waiting, Early, Differs, JobIsCached
    <2>4. Repairs'
        <3>1. hook.jobData # Undefined /\ hook.jobData.MetricData # Undefined
            BY <1>2, <2>1 DEF HookInv, Calm
        <3>2. "metric" \in Due'
            BY <2>2, DueMeansNext
        <3>3. Aggregates'
            BY <1>2, <1>3, <3>1, <3>2 DEF Aggregates
        <3> QED
            BY <3>3 DEF Repairs
    <2>5. "node" \in seen'.changed <=> "node" \in seen.changed
        BY <1>3
    <2>6. /\ JobsAsked \subseteq {Undefined, page.sampleInterval}
          /\ "job" \in Due => JobsAsked \subseteq {Undefined}
          /\ Waiting => /\ IntervalOf(hook.jobData) \in {seen.deps.interval, page.sampleInterval}
                        /\ NodesAsked \subseteq {page.sampleInterval}
          /\ hook.jobData # Undefined => hook.jobData.SampleInterval \in hook.jobCache \cup JobsAsked
          /\ NodesAsked \subseteq hook.jobCache \cup JobsAsked
          /\ Early => /\ page.sampleInterval \in {Undefined, BestInterval}
                      /\ IntervalOf(hook.jobData) \in {Undefined, BestInterval}
                      /\ hook.Metadata \in {Undefined, BestInterval}
                      /\ NodesAsked \subseteq {BestInterval}
          /\ NodesAsked # {} \/ "node" \in seen.changed =>
                node(page) # Undefined /\ page.sampleInterval # Undefined
        BY <2>1 DEF CalmInv
    <2> QED
        BY <1>1, <1>3, <2>3, <2>4, <2>5, <2>6 DEF CalmInv
<1> QED
    BY <1>4, <1>5, <1>6, <1>7, <1>8, <1>9

---------------------------------------------------------------------------
(* Failures and clicks *)

LEMMA FailureKeeps ==
    ASSUME JobPageIInv, NEW r \in Request, RequestFails(r)
    PROVE  JobPageIInv'
<1> USE DEF JobPageIInv
<1>1. Answered(r) /\ crashed = FALSE /\ UNCHANGED <<monitored, page, hook, seen, crashed, hurried, choices>>
    BY FieldTypes DEF RequestFails, Answered
<1>2. failures' \in 0..MaxFailures /\ failures' # 0
    BY JobPageAssumption DEF RequestFails, TypeOK
<1>3. /\ requests' \in [Request -> 0..MaxPending]
      /\ NodesAsked' \subseteq NodesAsked /\ MetricsAsked' \subseteq MetricsAsked
    BY <1>1, AnswersTake
<1>4. TypeOK'
    <2>1. {monitored, crashed, clicked, hurried}' \subseteq BOOLEAN
        BY <1>1, FieldTypes DEF Answered
    <2>2. page' \in Page /\ hook' \in Hook /\ seen'.changed \subseteq Effects /\ choices' \in 0..MaxChoices
        BY <1>1 DEF TypeOK
    <2> QED
        BY <1>2, <1>3, <2>1, <2>2 DEF TypeOK
<1>5. SeenInv'
    BY <1>1 DEF SeenInv
<1>6. HookInv'
    BY <1>1, <1>3 DEF HookInv
<1>7. LoadingInv' /\ AvailableInv' /\ CalmInv'
    BY <1>2 DEF LoadingInv, AvailableInv, CalmInv, Calm
<1> QED
    BY <1>4, <1>5, <1>6, <1>7

\* A click chooses something of the right kind.
LEMMA ChoicesClick ==
    ASSUME TypeOK, Choose
    PROVE  /\ Click /\ page' \in Page
           /\ page'.sampleInterval \in Intervals \cup {page.sampleInterval}
           /\ page'.aggFnSelection \in AggFns \cup {page.aggFnSelection}
<1>0. /\ page \in Page /\ page.selection \in [Nodes -> BOOLEAN]
      /\ page.sampleInterval \in Intervals \cup {Undefined} /\ page.aggFnSelection \in AggFns \cup {Undefined}
    BY FieldTypes DEF TypeOK
<1>1. ASSUME NEW i \in Intervals, setSampleInterval(i)
      PROVE  /\ Click /\ page' \in Page
             /\ page'.sampleInterval \in Intervals \cup {page.sampleInterval}
             /\ page'.aggFnSelection \in AggFns \cup {page.aggFnSelection}
    <2>1. Click /\ page' = [page EXCEPT !.sampleInterval = i]
        BY <1>1 DEF setSampleInterval
    <2> QED
        BY <1>0, <2>1 DEF Page
<1>2. ASSUME NEW val, setChecked(val),
             \A n \in Nodes : n \in DOMAIN val => val[n] \in BOOLEAN
      PROVE  /\ Click /\ page' \in Page
             /\ page'.sampleInterval \in Intervals \cup {page.sampleInterval}
             /\ page'.aggFnSelection \in AggFns \cup {page.aggFnSelection}
    <2> DEFINE s == [n \in Nodes |-> IF n \in DOMAIN val THEN val[n] ELSE page.selection[n]]
    <2>1. Click /\ page' = [page EXCEPT !.selection = s]
        BY <1>2 DEF setChecked
    <2>2. s \in [Nodes -> BOOLEAN]
        BY <1>0, <1>2
    <2> HIDE DEF s
    <2> QED
        BY <1>0, <2>1, <2>2 DEF Page
<1>3. ASSUME NEW f \in AggFns, setAggFnSelection(f)
      PROVE  /\ Click /\ page' \in Page
             /\ page'.sampleInterval \in Intervals \cup {page.sampleInterval}
             /\ page'.aggFnSelection \in AggFns \cup {page.aggFnSelection}
    <2>1. Click /\ page' = [page EXCEPT !.aggFnSelection = f]
        BY <1>3 DEF setAggFnSelection
    <2> QED
        BY <1>0, <2>1 DEF Page
<1>4. ASSUME NEW n \in Nodes, SelectionItem(n)
      PROVE  \E val : setChecked(val) /\ \A m \in Nodes : m \in DOMAIN val => val[m] \in BOOLEAN
    <2> DEFINE v == [m \in {n} |-> ~page.selection[m]]
    <2>1. setChecked(v)
        BY <1>4 DEF SelectionItem
    <2>2. \A m \in Nodes : m \in DOMAIN v => v[m] \in BOOLEAN
        OBVIOUS
    <2> QED
        BY <2>1, <2>2
<1>5. ASSUME Selection
      PROVE  \E val : setChecked(val) /\ \A m \in Nodes : m \in DOMAIN val => val[m] \in BOOLEAN
    <2> DEFINE v == [n \in Nodes |-> Selected(page) # Nodes]
    <2>1. setChecked(v)
        BY <1>5 DEF Selection
    <2>2. \A m \in Nodes : m \in DOMAIN v => v[m] \in BOOLEAN
        OBVIOUS
    <2> QED
        BY <2>1, <2>2
<1>6. ASSUME NEW nodes \in SUBSET Nodes, parseSelection(nodes)
      PROVE  \E val : setChecked(val) /\ \A m \in Nodes : m \in DOMAIN val => val[m] \in BOOLEAN
    <2> DEFINE v == [n \in Nodes |-> n \in nodes]
    <2>1. setChecked(v)
        BY <1>6 DEF parseSelection
    <2>2. \A m \in Nodes : m \in DOMAIN v => v[m] \in BOOLEAN
        OBVIOUS
    <2> QED
        BY <2>1, <2>2
<1> QED
    BY <1>1, <1>2, <1>3, <1>4, <1>5, <1>6 DEF Choose

LEMMA ClickKeeps ==
    ASSUME JobPageIInv, Choose
    PROVE  JobPageIInv'
<1> USE DEF JobPageIInv
<1>0. /\ Click /\ page' \in Page
      /\ page'.sampleInterval \in Intervals \cup {page.sampleInterval}
      /\ page'.aggFnSelection \in AggFns \cup {page.aggFnSelection}
    BY ChoicesClick
<1>1. /\ crashed = FALSE /\ Due = {} /\ hook.jobData # Undefined
      /\ hurried' = (hurried \/ \E r \in Request : requests[r] > 0)
      /\ UNCHANGED <<monitored, hook, seen, requests, crashed, failures>>
    BY <1>0, FieldTypes DEF Click
<1>2. JobsAsked' = JobsAsked /\ NodesAsked' = NodesAsked /\ MetricsAsked' = MetricsAsked
    BY <1>1, AskedUnchanged
<1>3. IntervalOf(hook.jobData) = hook.jobData.SampleInterval /\ hook.jobData.SampleInterval \in Intervals
    BY <1>1, FieldTypes
<1>4. seen.deps.interval = IntervalOf(hook.jobData) /\ seen.changed = {}
    BY <1>1, DueMeans
<1>5. page.sampleInterval # Undefined
    BY <1>3, <1>4, UndefinedFresh DEF SeenInv
<1>6. page'.sampleInterval # Undefined
    BY <1>0, <1>5, UndefinedFresh
<1>7. page.aggFnSelection # Undefined => page'.aggFnSelection # Undefined
    BY <1>0, UndefinedFresh
<1>8. page'.sampleInterval # page.sampleInterval => "job" \in Due'
    <2>1. seen.deps.job = <<page.sampleInterval, node(page), hook.containsMetricData>>
        BY <1>1, DueMeans
    <2>2. ASSUME page'.sampleInterval # page.sampleInterval
          PROVE  seen'.deps.job # <<page'.sampleInterval, node(page'), hook'.containsMetricData>>
        BY <1>1, <2>1, <2>2
    <2> QED
        BY <2>2, DueMeansNext
<1>9. TypeOK'
    <2>1. choices' \in 0..MaxChoices
        BY <1>0, JobPageAssumption DEF Click, TypeOK
    <2>2. {monitored, crashed, clicked, hurried}' \subseteq BOOLEAN
        <3>1. clicked' = TRUE /\ hurried' \in BOOLEAN
            BY <1>0, <1>1 DEF Click
        <3> QED
            BY <1>1, <3>1, FieldTypes
    <2>3. /\ hook' \in Hook /\ seen'.changed \subseteq Effects
          /\ requests' \in [Request -> 0..MaxPending] /\ failures' \in 0..MaxFailures
        BY <1>1 DEF TypeOK
    <2> QED
        BY <1>0, <2>1, <2>2, <2>3 DEF TypeOK
<1>10. SeenInv'
    BY <1>1, <1>6 DEF SeenInv
<1>11. HookInv'
    <2>1. /\ hook.jobCache # {} => hook.Metadata # Undefined
          /\ monitored /\ hook.Metadata # Undefined => hook.Metadata \in hook.jobCache
          /\ monitored => hook.containsMetricData /\ hook.jobData.MetricData # Undefined
          /\ hook.containsMetricData => monitored
          /\ MetricsAsked # {} => hook.containsMetricData /\ page.aggFnSelection # Undefined
        BY <1>1 DEF HookInv
    <2> QED
        BY <1>1, <1>2, <1>4, <1>6, <1>7, <2>1 DEF HookInv
<1>12. LoadingInv'
    <2> SUFFICES ASSUME failures = 0, hook.isLoading
                 PROVE  JobsAsked # {} \/ NodesAsked # {}
        BY <1>1, <1>2 DEF LoadingInv
    <2> QED
        BY <1>1 DEF LoadingInv
<1>13. AvailableInv'
    <2> SUFFICES ASSUME failures = 0, monitored
                 PROVE  /\ JobIsCached' \/ page'.sampleInterval \in JobsAsked \/ "job" \in Due'
                        /\ MetricsAsked \subseteq hook.jobCache \cup JobsAsked
        BY <1>1, <1>2 DEF AvailableInv
    <2>1. /\ JobIsCached \/ page.sampleInterval \in JobsAsked
          /\ MetricsAsked \subseteq hook.jobCache \cup JobsAsked
        BY <1>1, <1>5 DEF AvailableInv
    <2> QED
        BY <1>1, <1>8, <2>1 DEF JobIsCached
<1>14. CalmInv'
    <2> SUFFICES ASSUME Calm'
                 PROVE  CalmInv'
        BY DEF CalmInv
    <2>1. Calm /\ \A r \in Request : ~(requests[r] > 0)
        BY <1>1 DEF Calm
    <2>2. JobsAsked = {} /\ NodesAsked = {} /\ MetricsAsked = {}
        BY <2>1, RequestsOfThreeKinds DEF JobsAsked, NodesAsked, MetricsAsked
    <2>3. hook.jobData.SampleInterval \in hook.jobCache
        BY <1>1, <2>1, <2>2 DEF CalmInv
    <2>4. ~Differs
        BY <1>1, <2>1, <2>2 DEF CalmInv, Repairs, ShowsNode, Aggregates
    <2>5. Differs' => "job" \in Due'
        BY <1>1, <1>8, <2>4 DEF Differs
    <2>6. ~Early'
        BY <1>2, <1>6, <2>2 DEF Early
    <2>7. IntervalOf(hook'.jobData) = seen'.deps.interval
        BY <1>1, <1>4
    <2> QED
        BY <1>1, <1>2, <1>4, <2>2, <2>3, <2>5, <2>6, <2>7 DEF CalmInv, Repairs
<1> QED
    BY <1>9, <1>10, <1>11, <1>12, <1>13, <1>14

---------------------------------------------------------------------------
(* The theorems *)

\* The inductive invariant holds of every state of the page of a job.
THEOREM JobPageInvariance == Spec => []JobPageIInv
<1>1. Init => JobPageIInv
    <2> SUFFICES ASSUME Init
                 PROVE  JobPageIInv
        OBVIOUS
    <2> USE DEF Init
    <2>1. TypeOK
        <3>1. page \in Page
            BY DEF Page
        <3>2. hook \in Hook
            BY DEF Hook
        <3>3. requests \in [Request -> 0..MaxPending]
            BY JobPageAssumption
        <3>4. {monitored, crashed, clicked, hurried} \subseteq BOOLEAN
            OBVIOUS
        <3>5. choices \in 0..MaxChoices /\ failures \in 0..MaxFailures
            BY JobPageAssumption
        <3> QED
            BY <3>1, <3>2, <3>3, <3>4, <3>5 DEF TypeOK, Effects
    <2>2. JobsAsked = {} /\ NodesAsked = {} /\ MetricsAsked = {}
        BY <2>1, NothingAsked
    <2>3. SeenInv
        <3>1. seen \in [deps : SeenDeps, changed : SUBSET {"job", "node", "metric"}]
            BY <2>1, DependenciesAreSeen
        <3>2. seen.deps.interval = Undefined /\ seen.deps.job[3] = FALSE
            BY DEF Dependencies, IntervalOf
        <3> QED
            BY <3>1, <3>2 DEF SeenInv
    <2>4. "job" \in Due
        BY DueMeans
    <2>5. HookInv
        BY <2>2 DEF HookInv
    <2>6. LoadingInv
        BY <2>4 DEF LoadingInv
    <2>7. AvailableInv
        BY <2>2 DEF AvailableInv
    <2>8. CalmInv
        BY <2>2 DEF CalmInv, Waiting, IntervalOf, Differs
    <2> QED
        BY <2>1, <2>3, <2>5, <2>6, <2>7, <2>8 DEF JobPageIInv
<1>2. JobPageIInv /\ [Next]_vars => JobPageIInv'
    <2> SUFFICES ASSUME JobPageIInv, [Next]_vars
                 PROVE  JobPageIInv'
        OBVIOUS
    <2>1. CASE RunEffects
        BY <2>1, EffectsKeepTypes, EffectsKeepSeen, EffectsKeepHook, EffectsKeepLoading,
           EffectsKeepAvailable, EffectsKeepCalm DEF JobPageIInv
    <2>2. ASSUME NEW r \in Request, JobAnswered(r)
          PROVE  JobPageIInv'
        BY <2>2, JobAnswerKeepsMost, JobAnswerKeepsCalm DEF JobPageIInv
    <2>3. ASSUME NEW r \in Request, NodeAnswered(r)
          PROVE  JobPageIInv'
        BY <2>3, NodeAnswerKeeps
    <2>4. ASSUME NEW r \in Request, MetricAnswered(r)
          PROVE  JobPageIInv'
        BY <2>4, MetricAnswerKeeps
    <2>5. CASE Choose
        BY <2>5, ClickKeeps
    <2>6. ASSUME NEW r \in Request, RequestFails(r)
          PROVE  JobPageIInv'
        BY <2>6, FailureKeeps
    <2>7. CASE UNCHANGED vars
        <3>1. /\ UNCHANGED <<monitored, page, hook, seen, requests, crashed, clicked, hurried, choices, failures>>
              /\ UNCHANGED <<JobsAsked, NodesAsked, MetricsAsked>>
            BY <2>7, AskedUnchanged DEF vars
        <3>2. node(page') = node(page) /\ Dependencies(page', hook') = Dependencies(page, hook)
            BY <3>1
        <3>3. Due' = Due
            BY <3>1 DEF Due
        <3>4. TypeOK'
            BY <3>1 DEF JobPageIInv, TypeOK
        <3>5. SeenInv' /\ HookInv'
            BY <3>1 DEF JobPageIInv, SeenInv, HookInv
        <3>6. LoadingInv' /\ AvailableInv'
            BY <3>1, <3>3 DEF JobPageIInv, LoadingInv, AvailableInv, JobIsCached
        <3>7. CalmInv'
            BY <3>1, <3>2, <3>3
               DEF JobPageIInv, CalmInv, Calm, Early, Waiting, Differs, Repairs, JobIsCached, ShowsNode, Aggregates
        <3> QED
            BY <3>4, <3>5, <3>6, <3>7 DEF JobPageIInv
    <2> QED
        BY <2>1, <2>2, <2>3, <2>4, <2>5, <2>6, <2>7 DEF Next, Answer
<1> QED
    BY <1>1, <1>2, PTL DEF Spec

\* At rest the page shows no spinner; and the metric data it shows are of the interval
\* in the menu, if each click waited for the answers to the one before.
THEOREM JobPageCorrect == Spec => []Inv
<1>1. JobPageIInv => Inv
    <2> SUFFICES ASSUME JobPageIInv, Settled, ~crashed, failures = 0
                 PROVE  /\ ~hook.isLoading
                        /\ monitored /\ ~hurried => hook.jobData.MetricData.interval = page.sampleInterval
        BY DEF JobPageIInv, Inv, ShowsItsInterval
    <2>1. Due = {} /\ JobsAsked = {} /\ NodesAsked = {} /\ MetricsAsked = {}
        BY NothingAsked DEF JobPageIInv, Settled
    <2>2. ~hook.isLoading
        BY <2>1 DEF JobPageIInv, LoadingInv
    <2>3. hook.jobData # Undefined
        BY <2>2 DEF JobPageIInv, HookInv
    <2>4. ASSUME monitored, ~hurried
          PROVE  ~Differs
        BY <2>1, <2>4 DEF JobPageIInv, CalmInv, Calm, Repairs, ShowsNode, Aggregates
    <2> QED
        BY <2>2, <2>3, <2>4 DEF Differs
<1> QED
    BY <1>1, JobPageInvariance, PTL

\* The page breaks only while the answer to a request for general data is still to come:
\* then the aggregated data have overtaken it. The hook never looks for its metadata in vain.
THEOREM JobPageCrashes == Spec => []CrashIsOvertaking
<1>1. JobPageIInv => CrashIsOvertaking
    <2> SUFFICES ASSUME JobPageIInv
                 PROVE  CrashIsOvertaking
        OBVIOUS
    <2>1. JobIsCached => hook.Metadata # Undefined
        BY DEF JobPageIInv, HookInv, JobIsCached
    <2>2. ASSUME crashed, failures = 0
          PROVE  \E r \in Request : r.of = "job" /\ requests[r] > 0
        <3>1. PICK i \in Intervals \cup {Undefined} : requests[JobRequest(i)] > 0
            BY <2>2 DEF JobPageIInv, AvailableInv, JobsAsked
        <3> QED
            BY <3>1, RequestsOfThreeKinds, RequestFields
    <2> QED
        BY <2>1, <2>2 DEF CrashIsOvertaking
<1> QED
    BY <1>1, JobPageInvariance, PTL

---------------------------------------------------------------------------
(***************************************************************************)
(* The page of a running job                                               *)
(***************************************************************************)

---------------------------------------------------------------------------
(* The goroutines *)

\* Which goroutines run together, who has closed what, and where a page that never
\* asked for older metrics has its reader.
GoroutinesInv ==
    /\ handler = "GetJob" => reader = "none"
    /\ reader = "none" <=> producer = "none"
    /\ reader = "none" <=> writer = "none"
    /\ reader \in {"close", "ended"} <=> producer = "ended"
    /\ producer = "ended" <=> done = "closed"
    /\ monitor = done
    /\ writer = "ended" => done = "closed"
    /\ reader = "ended" <=> connection = "closed"
    /\ reader \in {"signal", "close"} => connection = "gone"
    /\ ~loads => reader \notin {"load", "reply"}

\* What goroutines carry, and when.
CarriedInv ==
    /\ carried.response # Null => reader = "reply"
    /\ producer = "send" <=> carried.producer # Null
    /\ writer = "write" <=> carried.writer # Null
    /\ producer = "send" => Len(carried.producer) <= 1
    /\ writer = "write" => Len(carried.writer) <= 1

---------------------------------------------------------------------------
(* The page *)

\* The first sample of the first answer of GetJob.
DataStart == IF replaced.opened - Hour > StartTime THEN replaced.opened - Hour ELSE StartTime

Fetching == fetch.asked \/ fetch.answer # Null

\* Which answers of GetJob there are: there is a second one and no third, and it is
\* not older than the first.
AnswersInv ==
    /\ livePage.data = Null <=> replaced.opened = Null
    /\ livePage.data # Null =>
          /\ replaced.opened \in Time /\ livePage.StopTime \in Time
          /\ replaced.opened <= livePage.StopTime /\ livePage.StopTime <= now
    /\ fetch.answer # Null =>
          /\ ~fetch.asked
          /\ fetch.answer.MetricData = Points(fetch.answer.StopTime - Hour, fetch.answer.StopTime)
          /\ fetch.answer.StopTime <= now
          /\ livePage.data # Null => livePage.StopTime <= fetch.answer.StopTime
    /\ Fetching \/ livePage.ws = "none" => replaced.lost = {} /\ ~replaced.overtook
    /\ livePage.ws = "none" /\ livePage.data # Null =>
          ~Fetching /\ replaced.opened = livePage.StopTime

\* How far page and live view are.
StagesInv ==
    /\ connection = "open" <=> livePage.ws # "closed"
    /\ livePage.data = Null => livePage.ws = "none" /\ livePage.due = {}
    /\ livePage.ws = "none" =>
          /\ reader = "none" /\ asked = <<>> /\ inbox = <<>>
          /\ livePage.data # Null => livePage.due = {"answer"}
          /\ livePage.curLiveWindowStart = Infinity
          /\ ~late /\ ~overwritten
    /\ livePage.ws # "none" =>
          /\ "answer" \notin livePage.due
          /\ livePage.timeStart # Null
          /\ livePage.curLiveWindowStart = Infinity =>
                /\ "window" \in livePage.due
                /\ DataStart <= livePage.timeStart
                /\ ~late => livePage.timeStart = DataStart

\* Live points are messages of at most one sample.
LatestFits(m) == m.Type = "LatestMetrics" => m.MetricData # Null /\ Len(m.MetricData) <= 1

MessagesInv ==
    /\ \A i \in 1..Len(inbox) : LatestFits(inbox[i])
    /\ livePage.lastMessage # Null => LatestFits(livePage.lastMessage)

---------------------------------------------------------------------------
(* Older metrics on their way *)

Increasing(s) == \A i, j \in 1..Len(s) : i < j => s[i] < s[j]

AskedFor(r) == IF r.StopTime = Null THEN {} ELSE r.StartTime .. r.StopTime - 1

PointsOf(s) == IF s = Null THEN {} ELSE ToSet(s)

OlderIn(m) ==
    IF m = Null THEN {} ELSE IF m.Type = "LoadMetricsResponse" THEN PointsOf(m.MetricData) ELSE {}

Data == PointsOf(livePage.data)
OlderLast == OlderIn(livePage.lastMessage)
OlderInbox == [i \in 1..Len(inbox) |-> OlderIn(inbox[i])]
OlderReader == (IF carried.request = Null THEN {} ELSE AskedFor(carried.request)) \cup PointsOf(carried.response)
OlderAsked == [k \in 1..Len(asked) |-> AskedFor(asked[k])]

Above(S, T) == \A a \in S, b \in T : b < a

\* What was asked for first is later in time, and so is what is shown.
OlderOrder ==
    /\ Above(Data, OlderLast) /\ Above(Data, OlderReader) /\ Above(OlderLast, OlderReader)
    /\ \A i \in 1..Len(inbox) :
          /\ Above(Data, OlderInbox[i]) /\ Above(OlderLast, OlderInbox[i])
          /\ Above(OlderInbox[i], OlderReader)
          /\ \A j \in 1..Len(inbox) : i < j => Above(OlderInbox[i], OlderInbox[j])
          /\ \A k \in 1..Len(asked) : Above(OlderInbox[i], OlderAsked[k])
    /\ \A k \in 1..Len(asked) :
          /\ Above(Data, OlderAsked[k]) /\ Above(OlderLast, OlderAsked[k])
          /\ Above(OlderReader, OlderAsked[k])
          /\ \A l \in 1..Len(asked) : k < l => Above(OlderAsked[k], OlderAsked[l])

\* All of them are between the window and the first answer of GetJob.
Between(S) ==
    \A p \in S : /\ livePage.curLiveWindowStart <= p
                 /\ p < DataStart

OlderBounds ==
    /\ livePage.curLiveWindowStart <= DataStart \/ livePage.curLiveWindowStart = Infinity
    /\ \A p \in Data : livePage.curLiveWindowStart <= p \/ DataStart <= p
    /\ Between(OlderLast) /\ Between(OlderReader)
    /\ \A i \in 1..Len(inbox) : Between(OlderInbox[i])
    /\ \A k \in 1..Len(asked) : Between(OlderAsked[k])

\* In order, but for live points, which may come again.
Ordered(s) ==
    \A i, j \in 1..Len(s) : i < j =>
        s[i] < s[j] \/ (s[i] = s[j] /\ s[i] >= livePage.StopTime - 1)

SegmentFits(m) ==
    m.Type = "LoadMetricsResponse" /\ m.MetricData # Null => Increasing(m.MetricData)

\* Each is in order in itself.
SegmentsInv ==
    /\ livePage.data # Null /\ ~late /\ ~replaced.overtook => Ordered(livePage.data)
    /\ livePage.lastMessage # Null => SegmentFits(livePage.lastMessage)
    /\ \A i \in 1..Len(inbox) : SegmentFits(inbox[i])
    /\ carried.response # Null => Increasing(carried.response)

---------------------------------------------------------------------------
(* Live points on their way *)

LatestIn(m) ==
    IF m = Null THEN {} ELSE IF m.Type = "LatestMetrics" THEN PointsOf(m.MetricData) ELSE {}

LatestLast == LatestIn(livePage.lastMessage)
LatestInbox == [i \in 1..Len(inbox) |-> LatestIn(inbox[i])]
LatestWriter == PointsOf(carried.writer)
LatestProducer == PointsOf(carried.producer)

NotBelow(S, T) == \A a \in S, b \in T : a >= b

\* A live point goes to the end of what is shown, unless the second answer overtook some.
AtEnd(S) == ~replaced.overtook => NotBelow(S, Data)

\* Live points come in the order of time.
LatestOrder ==
    /\ AtEnd(LatestLast) /\ AtEnd(LatestWriter) /\ AtEnd(LatestProducer)
    /\ NotBelow(LatestWriter, LatestLast) /\ NotBelow(LatestProducer, LatestLast)
    /\ NotBelow(LatestProducer, LatestWriter)
    /\ \A i \in 1..Len(inbox) :
          /\ AtEnd(LatestInbox[i]) /\ NotBelow(LatestInbox[i], LatestLast)
          /\ NotBelow(LatestWriter, LatestInbox[i]) /\ NotBelow(LatestProducer, LatestInbox[i])
          /\ \A j \in 1..Len(inbox) : i < j => NotBelow(LatestInbox[j], LatestInbox[i])

\* All of them have been taken since the answer of GetJob, or just before it.
Since(S) ==
    \A p \in S : /\ DataStart <= p /\ p < now
                 /\ ~replaced.overtook => livePage.StopTime - 1 <= p

LatestBounds ==
    /\ Since(LatestLast) /\ Since(LatestWriter) /\ Since(LatestProducer)
    /\ \A p \in Data : p < now
    /\ \A i \in 1..Len(inbox) : Since(LatestInbox[i])

---------------------------------------------------------------------------
(* Nothing is missing *)

Lost(m) == m # Null /\ m.Type = "LoadMetricsResponse" /\ m.MetricData = Null

\* An answer without metrics is on its way and will break the page.
Doomed ==
    \/ reader = "reply" /\ carried.response = Null
    \/ \E i \in 1..Len(inbox) : Lost(inbox[i])
    \/ Lost(livePage.lastMessage)

OnItsWay(p) ==
    \/ p \in Data \/ p \in OlderLast \/ p \in OlderReader
    \/ \E i \in 1..Len(inbox) : p \in OlderInbox[i]
    \/ \E k \in 1..Len(asked) : p \in OlderAsked[k]

CoverInv ==
    /\ livePage.data # Null => \A p \in DataStart .. replaced.opened - 1 : p \in Data \cup replaced.lost
    /\ livePage.data # Null /\ ~overwritten /\ livePage.ws # "closed" /\ ~Doomed =>
          \A p \in livePage.curLiveWindowStart .. replaced.opened - 1 : OnItsWay(p) \/ p \in replaced.lost

OrderInv == livePage.data # Null /\ ~late => OlderOrder /\ OlderBounds /\ LatestOrder /\ LatestBounds

IInv ==
    /\ LiveInv /\ GoroutinesInv /\ CarriedInv /\ AnswersInv /\ StagesInv /\ MessagesInv
    /\ SegmentsInv /\ OrderInv /\ CoverInv

---------------------------------------------------------------------------
(* Lemmas about the data *)

USE DEF history

\* Null is none of the values it is told apart from.
LEMMA NullFresh ==
    /\ Null \notin Time /\ Null \notin Seq(Time) /\ Null \notin LiveRequest /\ Null \notin Message
    /\ Null \notin LiveAnswer /\ Null # Infinity /\ Null # <<>>
    /\ Infinity \in Nat /\ Infinity \notin Time
<1>1. Time \subseteq Nat /\ MaxNow \in Nat
    BY LivePageAssumption DEF Time
<1>2. \A s \in Seq(Time) : s \in Seq(Nat)
    BY <1>1, SeqMonotonic
<1>3. <<>> \in Seq(Nat)
    OBVIOUS
<1>4. Infinity \in Nat /\ Infinity \notin Time
    BY <1>1 DEF Infinity, Time
<1> QED
    BY <1>1, <1>2, <1>3, <1>4, LivePageAssumption

\* The samples between two times, in order, are those and no others.
LEMMA PointsAreSamples ==
    ASSUME NEW from \in Int, NEW to \in Int, to <= Infinity
    PROVE  /\ Points(from, to) \in Seq(Time)
           /\ ToSet(Points(from, to)) = {p \in Time : from <= p /\ p < to}
           /\ Increasing(Points(from, to))
<1> DEFINE first == IF from < StartTime THEN StartTime ELSE from
           n == IF first < to THEN to - first ELSE 0
           e(i) == first + i - 1
<1>1. first \in Nat \ {0} /\ n \in Nat /\ MaxNow \in Nat
    BY LivePageAssumption DEF StartTime
<1>2. Points(from, to) = [i \in 1..n |-> e(i)]
    BY DEF Points
<1>3. \A i \in 1..n : e(i) \in Time
    BY <1>1 DEF Time, Infinity
<1>4. Points(from, to) \in Seq(Time) /\ Len(Points(from, to)) = n
    BY <1>1, <1>2, <1>3, IsASeq
<1>5. ToSet(Points(from, to)) = {e(i) : i \in 1..n}
    BY <1>2 DEF ToSet
<1>6. \A p \in Time : from <= p /\ p < to => p = e(p - first + 1) /\ p - first + 1 \in 1..n
    BY <1>1 DEF Time, StartTime
<1>7. \A i \in 1..n : from <= e(i) /\ e(i) < to
    BY <1>1
<1>8. Increasing(Points(from, to))
    BY <1>1, <1>2, <1>4 DEF Increasing
<1>9. ToSet(Points(from, to)) \subseteq {p \in Time : from <= p /\ p < to}
    BY <1>3, <1>5, <1>7
<1>10. ASSUME NEW p \in Time, from <= p, p < to
       PROVE  p \in ToSet(Points(from, to))
    <2>1. p = e(p - first + 1) /\ p - first + 1 \in 1..n
        BY <1>6, <1>10
    <2> HIDE DEF e, n, first
    <2> QED
        BY <2>1, <1>5
<1> QED
    BY <1>4, <1>8, <1>9, <1>10

\* The last sample before a time is at most one.
LEMMA LastPoint ==
    ASSUME NEW t \in Time
    PROVE  /\ Points(t - 1, t) \in Seq(Time)
           /\ Len(Points(t - 1, t)) <= 1
           /\ \A p \in ToSet(Points(t - 1, t)) : p = t - 1
<1>1. t \in Nat \ {0} /\ t \in Int /\ t - 1 \in Int /\ t <= Infinity
    BY LivePageAssumption DEF Time, Infinity
<1>2. Points(t - 1, t) \in Seq(Time) /\ ToSet(Points(t - 1, t)) = {p \in Time : t - 1 <= p /\ p < t}
    BY <1>1, PointsAreSamples
<1>3. \A p \in Time : t - 1 <= p /\ p < t => p = t - 1
    BY <1>1 DEF Time
<1>4. Len(Points(t - 1, t)) <= 1
    BY <1>1, <1>2 DEF Points, StartTime
<1> QED
    BY <1>2, <1>3, <1>4

\* Samples put after others are those of both.
LEMMA PointsOfConcat ==
    ASSUME NEW s \in Seq(Time), NEW t \in Seq(Time)
    PROVE  s \o t \in Seq(Time) /\ ToSet(s \o t) = ToSet(s) \cup ToSet(t)
<1>1. Len(s) \in Nat /\ Len(t) \in Nat /\ Len(s \o t) = Len(s) + Len(t) /\ s \o t \in Seq(Time)
    OBVIOUS
<1>2. \A i \in 1..Len(s) : (s \o t)[i] = s[i] /\ i \in 1..Len(s \o t)
    BY <1>1
<1>3. \A i \in 1..Len(t) : (s \o t)[i + Len(s)] = t[i] /\ i + Len(s) \in 1..Len(s \o t)
    BY <1>1
<1>4. \A i \in 1..Len(s \o t) :
        \/ i \in 1..Len(s) /\ (s \o t)[i] = s[i]
        \/ i - Len(s) \in 1..Len(t) /\ (s \o t)[i] = t[i - Len(s)]
    BY <1>1
<1>5. ToSet(s \o t) = {(s \o t)[i] : i \in 1..Len(s \o t)}
    BY <1>1 DEF ToSet
<1>6. ToSet(s) = {s[i] : i \in 1..Len(s)} /\ ToSet(t) = {t[i] : i \in 1..Len(t)}
    BY DEF ToSet
<1>7. ToSet(s \o t) \subseteq ToSet(s) \cup ToSet(t)
    BY <1>4, <1>5, <1>6
<1>8. ToSet(s) \subseteq ToSet(s \o t) /\ ToSet(t) \subseteq ToSet(s \o t)
    BY <1>2, <1>3, <1>5, <1>6
<1> QED
    BY <1>1, <1>7, <1>8

\* Samples in order are in order also where live points may come again.
LEMMA IncreasingIsOrdered ==
    ASSUME NEW s, Increasing(s)
    PROVE  Ordered(s)
BY DEF Increasing, Ordered

\* Samples in order put after others in order are in order, if they are later or a
\* live point that comes again.
LEMMA OrderedConcat ==
    ASSUME NEW s \in Seq(Time), NEW t \in Seq(Time), Ordered(s), Ordered(t),
           \A a \in ToSet(s), b \in ToSet(t) : a < b \/ (a = b /\ b >= livePage.StopTime - 1)
    PROVE  Ordered(s \o t)
<1>1. Len(s) \in Nat /\ Len(t) \in Nat /\ Len(s \o t) = Len(s) + Len(t)
    OBVIOUS
<1>2. \A i \in 1..Len(s \o t) :
        \/ i \in 1..Len(s) /\ (s \o t)[i] = s[i]
        \/ i - Len(s) \in 1..Len(t) /\ (s \o t)[i] = t[i - Len(s)] /\ i > Len(s)
    BY <1>1
<1>3. \A i \in 1..Len(s), j \in 1..Len(t) :
        s[i] < t[j] \/ (s[i] = t[j] /\ t[j] >= livePage.StopTime - 1)
    BY DEF ToSet
<1>4. SUFFICES ASSUME NEW i \in 1..Len(s \o t), NEW j \in 1..Len(s \o t), i < j
               PROVE  \/ (s \o t)[i] < (s \o t)[j]
                      \/ (s \o t)[i] = (s \o t)[j] /\ (s \o t)[i] >= livePage.StopTime - 1
    BY DEF Ordered
<1>5. CASE i \in 1..Len(s) /\ j \in 1..Len(s)
    BY <1>1, <1>2, <1>4, <1>5 DEF Ordered
<1>6. CASE i \in 1..Len(s) /\ j > Len(s)
    BY <1>1, <1>2, <1>3, <1>6
<1>7. CASE i > Len(s) /\ j > Len(s)
    BY <1>1, <1>2, <1>4, <1>7 DEF Ordered
<1> QED
    BY <1>1, <1>4, <1>5, <1>6, <1>7

\* An answer of GetJob are the samples of its last hour.
LEMMA AnswerFits ==
    ASSUME LiveInv, AnswersInv, fetch.answer # Null
    PROVE  LET n == fetch.answer.StopTime IN
           /\ n \in Time /\ n \in Nat /\ n <= now /\ Hour \in Nat \ {0}
           /\ fetch.answer.MetricData \in Seq(Time) /\ fetch.answer.MetricData # Null
           /\ ToSet(fetch.answer.MetricData) = {p \in Time : n - Hour <= p /\ p < n}
           /\ Increasing(fetch.answer.MetricData)
<1> DEFINE n == fetch.answer.StopTime
<1>1. fetch.answer \in LiveAnswer
    BY DEF LiveInv, PageTypeOK, Fetch
<1>2. n \in Time /\ fetch.answer.MetricData \in Seq(Time)
    BY <1>1 DEF LiveAnswer
<1>3. n \in Nat /\ n <= Infinity /\ Hour \in Nat \ {0}
    BY <1>2, LivePageAssumption DEF Time, Infinity
<1>4. fetch.answer.MetricData = Points(n - Hour, n) /\ n <= now
    BY DEF AnswersInv
<1>5. n - Hour \in Int /\ n \in Int
    BY <1>3
<1>6. /\ ToSet(Points(n - Hour, n)) = {p \in Time : n - Hour <= p /\ p < n}
      /\ Increasing(Points(n - Hour, n))
    BY <1>3, <1>5, PointsAreSamples
<1> QED
    BY <1>2, <1>3, <1>4, <1>6, NullFresh

\* A queue with a new entry at its end.
LEMMA Enqueued ==
    ASSUME NEW S, NEW s \in Seq(S), NEW e \in S
    PROVE  /\ Len(s) \in Nat /\ Len(Append(s, e)) = Len(s) + 1
           /\ \A i \in 1..Len(s) : Append(s, e)[i] = s[i]
           /\ Append(s, e)[Len(s) + 1] = e
OBVIOUS

\* A queue without its first entry.
LEMMA Dequeued ==
    ASSUME NEW S, NEW s \in Seq(S), s # <<>>
    PROVE  /\ Len(s) \in Nat /\ Len(Tail(s)) = Len(s) - 1
           /\ \A i \in 1..Len(Tail(s)) : Tail(s)[i] = s[i + 1]
           /\ Head(s) = s[1] /\ 1 \in 1..Len(s)
OBVIOUS

---------------------------------------------------------------------------
(* The goroutines *)

\* Every step keeps the goroutines where they belong.
LEMMA GoroutinesStep ==
    ASSUME MonitoringInv, GoroutinesInv, LivePageNext
    PROVE  MonitoringInv' /\ GoroutinesInv'
<1> USE DEF MonitoringInv, MonitoringTypeOK, NoSendOnClosedChannel, GoroutinesInv,
            goroutineVars, channelVars, monitoringVars
<1>1. CASE UNCHANGED monitoringVars
    BY <1>1
<1>2. CASE RunLiveEffects
    BY <1>2 DEF RunLiveEffects
<1>3. CASE PeerLeaves
    BY <1>3 DEF PeerLeaves
<1>4. CASE StartMonitoring
    BY <1>4 DEF StartMonitoring
<1>5. CASE JobNotFound
    BY <1>5 DEF JobNotFound
<1>6. CASE ReadLoadMetrics
    BY <1>6 DEF ReadLoadMetrics
<1>7. CASE Load
    BY <1>7 DEF Load, BeginWrite
<1>8. CASE Replied
    BY <1>8 DEF Replied, EndWrite
<1>9. CASE Query
    BY <1>9 DEF Query
<1>10. CASE SendData
    BY <1>10 DEF SendData, BeginWrite
<1>11. CASE Written
    BY <1>11 DEF Written, EndWrite
<1>12. CASE Tick
    BY <1>12 DEF Tick
<1>13. CASE TakeTick
    BY <1>13 DEF TakeTick
<1>14. CASE QueryFails
    BY <1>14 DEF QueryFails
<1>15. CASE ReadFails
    BY <1>15 DEF ReadFails
<1>16. CASE ReadOther
    BY <1>16 DEF ReadOther
<1>17. CASE SignalDone
    BY <1>17 DEF SignalDone
<1>18. CASE Close
    BY <1>18 DEF Close
<1>19. CASE MonitorClosed
    BY <1>19 DEF MonitorClosed
<1> QED
    BY <1>1, <1>2, <1>3, <1>4, <1>5, <1>6, <1>7, <1>8, <1>9, <1>10, <1>11, <1>12, <1>13, <1>14,
       <1>15, <1>16, <1>17, <1>18, <1>19
       DEF LivePageNext, PageNext, LiveNext, Disconnects, Connects, ReceivesLoadMetrics, Loads,
           WritesResponse, QueriesLast, HandsOver, WritesLatest, OtherSteps

\* A page that never asks for older metrics has one writer to its connection.
LEMMA OneWriter ==
    ASSUME MonitoringInv, GoroutinesInv
    PROVE  WatchingIsSafe
<1>1. SUFFICES ASSUME ~loads
               PROVE  Cardinality(writing) <= 1
    BY DEF WatchingIsSafe
<1>2. writing = {} \/ writing = {"writer"}
    BY <1>1 DEF MonitoringInv, MonitoringTypeOK, GoroutinesInv
<1>3. Cardinality({}) = 0
    BY FS_EmptySet
<1>4. Cardinality({"writer"}) = 1
    BY FS_Singleton
<1> QED
    BY <1>2, <1>3, <1>4

\* What the steps without data do to the reader.
LEMMA OtherStepsOfReader ==
    ASSUME OtherSteps
    PROVE  /\ UNCHANGED pageVars
           /\ reader = "load" <=> reader' = "load"
           /\ reader = "reply" <=> reader' = "reply"
           /\ reader = "none" <=> reader' = "none"
<1>1. \/ reader' = reader
      \/ reader = "read" /\ reader' = "signal"
      \/ reader = "signal" /\ reader' = "close"
      \/ reader = "close" /\ reader' = "ended"
    BY DEF OtherSteps, Tick, TakeTick, QueryFails, ReadFails, ReadOther, SignalDone, Close,
           MonitorClosed, monitoringVars, goroutineVars
<1> QED
    BY <1>1 DEF OtherSteps

---------------------------------------------------------------------------
(* The values *)

\* What Points answers to GetJob, and what the requests of the page get.
LEMMA AnswersAreSamples ==
    ASSUME LiveInv
    PROVE  /\ Points(now - Hour, now) \in Seq(Time)
           /\ Points(now - 1, now) \in Seq(Time)
           /\ DefaultStart \in Time
           /\ \A r \in LiveRequest : r.StopTime # Null => LoadedMetrics(r) \in Seq(Time)
<1>1. now \in Int /\ now \in Time /\ now - Hour \in Int /\ now - 1 \in Int /\ now <= Infinity
    BY LivePageAssumption DEF LiveInv, PageTypeOK, Time, Infinity
<1>2. Points(now - Hour, now) \in Seq(Time) /\ Points(now - 1, now) \in Seq(Time)
    BY <1>1, PointsAreSamples
<1>3. DefaultStart \in Time
    BY <1>1, LivePageAssumption DEF DefaultStart, StartTime, Time
<1>4. ASSUME NEW r \in LiveRequest, r.StopTime # Null
      PROVE  LoadedMetrics(r) \in Seq(Time)
    <2>1. r.StartTime \in Int /\ r.StopTime \in Int /\ r.StopTime <= Infinity
        BY <1>4, LivePageAssumption DEF LiveRequest, Time, Infinity
    <2> QED
        BY <2>1, PointsAreSamples DEF LoadedMetrics
<1> QED
    BY <1>2, <1>3, <1>4

\* A message added where there is room.
LEMMA RoomForOne ==
    ASSUME LiveInv, NEW m \in Message
    PROVE  /\ Append(inbox, m) \in Seq(Message)
           /\ Len(Append(inbox, m)) = Len(inbox) + 1
           /\ Len(inbox) < MaxMessages => Len(Append(inbox, m)) <= MaxMessages
BY LivePageAssumption DEF LiveInv, PageTypeOK

\* A message merged into the data leaves samples.
LEMMA MergedAreSamples ==
    ASSUME NEW d \in Seq(Time), NEW m \in Message, ~Throws(d, m)
    PROVE  WithMessage(d, m) \in Seq(Time)
<1>1. m.MetricData \in Seq(Time)
    BY DEF Throws, Message
<1>2. m.MetricData \o d \in Seq(Time) /\ d \o m.MetricData \in Seq(Time)
    BY <1>1
<1> QED
    BY <1>1, <1>2 DEF WithMessage

\* The page's own steps keep its state well-formed.
LEMMA PageTypesOfPage ==
    ASSUME LiveInv, AnswersInv, StagesInv, PageNext
    PROVE  PageTypeOK'
<1> USE DEF LiveInv, PageTypeOK, LivePageState, monitoringVars
<1>0. CASE GetJob /\ UNCHANGED monitoringVars
    BY <1>0, AnswersAreSamples DEF GetJob, Fetch, LiveAnswer
<1>1. CASE GetJobAnswered /\ UNCHANGED monitoringVars
    <2>1. fetch' \in Fetch
        BY <1>1 DEF GetJobAnswered, Fetch
    <2>2. fetch.answer.MetricData \in Seq(Time) /\ fetch.answer.StopTime \in Time
        BY <1>1, AnswerFits DEF GetJobAnswered
    <2>3. livePage' \in LivePageState /\ ("message" \in livePage'.due <=> livePage'.lastMessage # Null)
        BY <1>1, <2>2, NullFresh DEF GetJobAnswered, StagesInv
    <2>4. replaced' \in Replaced
        <3>1. livePage.data # Null => ToSet(livePage.data) \subseteq Time
            BY DEF ToSet
        <3> QED
            BY <1>1, <2>2, <3>1 DEF GetJobAnswered, Replaced
    <2> QED
        BY <1>1, <2>1, <2>3, <2>4 DEF GetJobAnswered
<1>2. CASE WebSocketOpens /\ UNCHANGED monitoringVars
    BY <1>2 DEF WebSocketOpens
<1>3. CASE OnMessage /\ UNCHANGED monitoringVars
    <2>1. Head(inbox) \in Message /\ Tail(inbox) \in Seq(Message) /\ Len(Tail(inbox)) <= MaxMessages
        BY <1>3, LivePageAssumption DEF OnMessage
    <2>2. livePage'.lastMessage = Head(inbox) /\ livePage'.due = livePage.due \cup {"message"}
        BY <1>3 DEF OnMessage
    <2> QED
        BY <1>3, <2>1, <2>2, NullFresh DEF OnMessage
<1>4. CASE Advance /\ UNCHANGED monitoringVars
    BY <1>4, LivePageAssumption DEF Advance, Time
<1>5. ASSUME NEW t \in Time, SetStartTime(t), UNCHANGED monitoringVars
      PROVE  PageTypeOK'
    BY <1>5 DEF SetStartTime
<1>6. CASE ResetTimeRange /\ UNCHANGED monitoringVars
    BY <1>5, <1>6, LivePageAssumption DEF ResetTimeRange, StartTime, Time
<1> QED
    BY <1>0, <1>1, <1>2, <1>3, <1>4, <1>5, <1>6 DEF PageNext, StartTime, Time

\* So do the effects.
LEMMA PageTypesOfEffects ==
    ASSUME LiveInv, StagesInv, RunLiveEffects
    PROVE  PageTypeOK'
<1> DEFINE arrived == "message" \in livePage.due
           fails   == arrived /\ Throws(livePage.data, livePage.lastMessage)
           moves   == "window" \in livePage.due /\ MovesWindow(livePage)
           asks    == "window" \in livePage.due /\ AsksOlder(livePage)
<1> USE DEF LiveInv, PageTypeOK
<1>1. livePage.data \in Seq(Time) /\ livePage \in LivePageState
    BY DEF RunLiveEffects, StagesInv, LivePageState
<1>2. arrived => livePage.lastMessage \in Message
    BY DEF LivePageState
<1>3. arrived /\ ~fails => WithMessage(livePage.data, livePage.lastMessage) \in Seq(Time)
    BY <1>1, <1>2, MergedAreSamples
<1>4. moves => livePage.timeStart \in Time /\ livePage.timeStart \in 1..Infinity
    BY LivePageAssumption DEF LivePageState, MovesWindow, Time, Infinity
<1>5. DefaultStart \in Time
    BY AnswersAreSamples
<1>6. asks => WSLoadMetricsMsg(livePage) \in LiveRequest
    <2>1. livePage.curLiveWindowStart # Infinity => livePage.curLiveWindowStart \in Time
        <3>1. livePage.curLiveWindowStart \in 1..Infinity /\ MaxNow \in Nat
            BY <1>1, LivePageAssumption DEF LivePageState
        <3> QED
            BY <3>1 DEF Infinity, Time
    <2>2. asks => livePage.timeStart \in Time
        BY <1>1 DEF LivePageState, AsksOlder
    <2> QED
        BY <2>1, <2>2 DEF WSLoadMetricsMsg, LiveRequest
<1>7. asked' \in Seq(LiveRequest) /\ inbox' \in Seq(Message) /\ Len(inbox') <= MaxMessages
    BY <1>6, LivePageAssumption DEF RunLiveEffects
<1>8. broken' \in BOOLEAN /\ late' \in BOOLEAN /\ fetch' \in Fetch
    BY DEF RunLiveEffects, Fetch
<1> HIDE DEF arrived, fails, moves, asks
<1>9. livePage' = [livePage EXCEPT
                !.data = IF arrived /\ ~fails THEN WithMessage(@, livePage.lastMessage) ELSE @,
                !.lastMessage = Null,
                !.ws = IF fails THEN "closed" ELSE IF "answer" \in livePage.due THEN "connecting" ELSE @,
                !.timeStart = IF "answer" \in livePage.due THEN DefaultStart ELSE @,
                !.curLiveWindowStart = IF moves THEN livePage.timeStart ELSE @,
                !.due = IF "answer" \in livePage.due \/ moves THEN {"window"} ELSE {}]
    BY DEF RunLiveEffects, arrived, fails, moves, asks
<1>10. livePage' \in LivePageState /\ ("message" \in livePage'.due <=> livePage'.lastMessage # Null)
    <2> DEFINE data == IF arrived /\ ~fails THEN WithMessage(livePage.data, livePage.lastMessage) ELSE livePage.data
               ws == IF fails THEN "closed" ELSE IF "answer" \in livePage.due THEN "connecting" ELSE livePage.ws
               timeStart == IF "answer" \in livePage.due THEN DefaultStart ELSE livePage.timeStart
               window == IF moves THEN livePage.timeStart ELSE livePage.curLiveWindowStart
               due == IF "answer" \in livePage.due \/ moves THEN {"window"} ELSE {}
    <2>1. /\ data \in Seq(Time)
          /\ ws \in {"none", "connecting", "open", "closed"}
          /\ timeStart \in Time \cup {Null}
          /\ window \in 1..Infinity
          /\ due \in SUBSET {"answer", "window", "message"} /\ "message" \notin due
        BY <1>1, <1>3, <1>4, <1>5 DEF LivePageState
    <2> HIDE DEF data, ws, timeStart, window, due
    <2>2. livePage' = [livePage EXCEPT !.data = data, !.lastMessage = Null, !.ws = ws,
                            !.timeStart = timeStart, !.curLiveWindowStart = window, !.due = due]
        BY <1>9 DEF data, ws, timeStart, window, due
    <2> QED
        BY <1>1, <2>1, <2>2 DEF LivePageState
<1> QED
    BY <1>7, <1>8, <1>10 DEF RunLiveEffects, goroutineVars

\* So does the live view.
LEMMA PageTypesOfLive ==
    ASSUME LiveInv, GoroutinesInv, LiveNext
    PROVE  PageTypeOK'
<1> USE DEF LiveInv, PageTypeOK
<1>1. CASE Disconnects
    <2>1. /\ livePage' = [livePage EXCEPT !.ws = "closed"] /\ asked' = <<>> /\ inbox' = <<>>
          /\ now' = now /\ carried' = carried /\ broken' = broken /\ late' = late
          /\ overwritten' = overwritten /\ reader' = reader /\ fetch' = fetch /\ replaced' = replaced
        BY <1>1 DEF Disconnects, PeerLeaves, goroutineVars
    <2>2. /\ livePage' \in LivePageState /\ livePage'.due = livePage.due
          /\ livePage'.lastMessage = livePage.lastMessage
        BY <2>1 DEF LivePageState
    <2>3. Len(inbox') <= MaxMessages
        BY <2>1, LivePageAssumption
    <2> QED
        BY <2>1, <2>2, <2>3
<1>2. CASE Connects
    <2>1. reader # "load" /\ reader' # "load" /\ carried' = carried
        BY <1>2 DEF Connects, StartMonitoring, JobNotFound, pageVars, goroutineVars, GoroutinesInv
    <2> QED
        BY <1>2, <2>1 DEF Connects, pageVars
<1>3. CASE ReceivesLoadMetrics
    <2>1. Head(asked) \in LiveRequest /\ Tail(asked) \in Seq(LiveRequest)
        BY <1>3 DEF ReceivesLoadMetrics
    <2>2. carried' \in Carried /\ carried'.request # Null
        BY <1>3, <2>1, NullFresh DEF ReceivesLoadMetrics, Carried
    <2> QED
        BY <1>3, <2>1, <2>2 DEF ReceivesLoadMetrics, ReadLoadMetrics
<1>4. CASE Loads
    <2>1. carried.request \in LiveRequest
        BY <1>4 DEF Loads, Load, Carried
    <2>2. PICK answer \in {Null}
                \cup (IF carried.request.StopTime = Null THEN {} ELSE {LoadedMetrics(carried.request)}) :
            carried' = [carried EXCEPT !.request = Null, !.response = answer]
        BY <1>4 DEF Loads
    <2>3. answer \in Seq(Time) \cup {Null}
        BY <2>1, <2>2, AnswersAreSamples
    <2>4. carried' \in Carried /\ carried'.request = Null
        BY <2>2, <2>3 DEF Carried
    <2> QED
        BY <1>4, <2>4 DEF Loads, Load
<1>5. CASE WritesResponse
    <2>1. [Type |-> "LoadMetricsResponse", MetricData |-> carried.response] \in Message
        BY DEF Message, Carried
    <2>2. inbox' \in Seq(Message) /\ Len(inbox') <= MaxMessages
        BY <1>5, <2>1, RoomForOne DEF WritesResponse, Writes
    <2>3. carried' \in Carried /\ carried'.request = carried.request
        BY <1>5 DEF WritesResponse, Carried
    <2> QED
        BY <1>5, <2>2, <2>3 DEF WritesResponse, Replied
<1>6. CASE QueriesLast
    <2>1. carried' \in Carried /\ carried'.request = carried.request
        BY <1>6, AnswersAreSamples DEF QueriesLast, Carried
    <2> QED
        BY <1>6, <2>1 DEF QueriesLast, Query
<1>7. CASE HandsOver
    <2>1. carried' \in Carried /\ carried'.request = carried.request
        BY <1>7 DEF HandsOver, Carried
    <2> QED
        BY <1>7, <2>1 DEF HandsOver, SendData
<1>8. CASE WritesLatest
    <2>1. [Type |-> "LatestMetrics", MetricData |-> carried.writer] \in Message
        BY DEF Message, Carried
    <2>2. inbox' \in Seq(Message) /\ Len(inbox') <= MaxMessages
        BY <1>8, <2>1, RoomForOne DEF WritesLatest, Writes
    <2>3. carried' \in Carried /\ carried'.request = carried.request
        BY <1>8 DEF WritesLatest, Carried
    <2> QED
        BY <1>8, <2>2, <2>3 DEF WritesLatest, Written
<1>9. CASE OtherSteps
    <2>1. UNCHANGED pageVars /\ (reader = "load" <=> reader' = "load")
        BY <1>9, OtherStepsOfReader
    <2> QED
        BY <2>1 DEF pageVars
<1> QED
    BY <1>1, <1>2, <1>3, <1>4, <1>5, <1>6, <1>7, <1>8, <1>9 DEF LiveNext

---------------------------------------------------------------------------
(* What is carried, how far page and live view are, live points *)

\* Every step keeps what the goroutines carry.
LEMMA CarriedStep ==
    ASSUME LiveInv, GoroutinesInv, CarriedInv, LivePageNext
    PROVE  CarriedInv'
<1> USE DEF CarriedInv
<1>1. CASE PageNext \/ RunLiveEffects
    <2>1. UNCHANGED <<carried, reader, producer, writer>>
        BY <1>1 DEF PageNext, GetJob, GetJobAnswered, WebSocketOpens, OnMessage, Advance, SetStartTime,
                    ResetTimeRange, monitoringVars, RunLiveEffects, goroutineVars
    <2> QED
        BY <2>1
<1>2. CASE Disconnects
    BY <1>2 DEF Disconnects, PeerLeaves, goroutineVars
<1>3. CASE Connects
    <2>1. CASE StartMonitoring
        BY <1>3, <2>1 DEF Connects, StartMonitoring, pageVars, GoroutinesInv
    <2>2. CASE JobNotFound
        BY <1>3, <2>2 DEF Connects, JobNotFound, pageVars, goroutineVars
    <2> QED
        BY <1>3, <2>1, <2>2 DEF Connects
<1>4. CASE ReceivesLoadMetrics
    BY <1>4 DEF ReceivesLoadMetrics, ReadLoadMetrics, LiveInv, PageTypeOK, Carried
<1>5. CASE Loads
    BY <1>5 DEF Loads, Load, LiveInv, PageTypeOK, Carried
<1>6. CASE WritesResponse
    BY <1>6 DEF WritesResponse, Replied, LiveInv, PageTypeOK, Carried
<1>7. CASE QueriesLast
    <2>1. Points(now - 1, now) \in Seq(Time) /\ Len(Points(now - 1, now)) <= 1
        BY LastPoint DEF LiveInv, PageTypeOK
    <2> QED
        BY <1>7, <2>1, NullFresh DEF QueriesLast, Query, LiveInv, PageTypeOK, Carried
<1>8. CASE HandsOver
    BY <1>8 DEF HandsOver, SendData, LiveInv, PageTypeOK, Carried
<1>9. CASE WritesLatest
    BY <1>9 DEF WritesLatest, Written, LiveInv, PageTypeOK, Carried
<1>10. CASE OtherSteps
    <2>1. /\ reader' = reader \/ reader # "reply"
          /\ producer = "send" <=> producer' = "send"
          /\ writer = "write" <=> writer' = "write"
        BY <1>10 DEF OtherSteps, Tick, TakeTick, QueryFails, ReadFails, ReadOther, SignalDone, Close,
                MonitorClosed, monitoringVars, goroutineVars
    <2> QED
        BY <1>10, <2>1 DEF OtherSteps, pageVars
<1> QED
    BY <1>1, <1>2, <1>3, <1>4, <1>5, <1>6, <1>7, <1>8, <1>9, <1>10 DEF LivePageNext, LiveNext

\* Every step keeps the page and the live view in step.
LEMMA StagesStep ==
    ASSUME LiveInv, GoroutinesInv, AnswersInv, StagesInv, LivePageNext
    PROVE  StagesInv'
<1> USE DEF StagesInv, DataStart
<1>0. livePage \in LivePageState /\ now \in Time
    BY DEF LiveInv, PageTypeOK
<1>1. CASE GetJobAnswered /\ UNCHANGED monitoringVars
    <2>1. fetch.answer # Null /\ fetch.answer.MetricData # Null
        BY <1>1, AnswerFits DEF GetJobAnswered
    <2>2. livePage.ws = "none" => livePage.data = Null
        BY <2>1 DEF AnswersInv, Fetching
    <2>3. /\ livePage'.data # Null /\ livePage'.ws = livePage.ws /\ livePage'.timeStart = livePage.timeStart
          /\ livePage'.curLiveWindowStart = livePage.curLiveWindowStart
          /\ livePage'.due = IF livePage.data = Null THEN {"answer"} ELSE livePage.due
          /\ livePage.data # Null => replaced'.opened = replaced.opened
          /\ UNCHANGED <<connection, reader, asked, inbox, late, overwritten>>
        BY <1>0, <1>1, <2>1 DEF GetJobAnswered, monitoringVars, goroutineVars, channelVars, LivePageState, LiveInv,
                                PageTypeOK, Replaced
    <2> QED
        BY <2>2, <2>3
<1>13. CASE GetJob /\ UNCHANGED monitoringVars
    BY <1>13 DEF GetJob, monitoringVars, goroutineVars, channelVars
<1>2. CASE WebSocketOpens /\ UNCHANGED monitoringVars
    BY <1>0, <1>2 DEF WebSocketOpens, monitoringVars, LivePageState
<1>3. CASE OnMessage /\ UNCHANGED monitoringVars
    BY <1>0, <1>3 DEF OnMessage, monitoringVars, LivePageState
<1>4. CASE Advance /\ UNCHANGED monitoringVars
    BY <1>0, <1>4 DEF Advance, monitoringVars, Time
<1>5. ASSUME NEW t \in Time, SetStartTime(t), UNCHANGED monitoringVars
      PROVE  StagesInv'
    BY <1>0, <1>5, NullFresh DEF SetStartTime, monitoringVars, LivePageState
<1>6. CASE ResetTimeRange /\ UNCHANGED monitoringVars
    BY <1>5, <1>6, LivePageAssumption DEF ResetTimeRange, StartTime, Time
<1>7. CASE RunLiveEffects
    <2> DEFINE fails == "message" \in livePage.due /\ Throws(livePage.data, livePage.lastMessage)
               moves == "window" \in livePage.due /\ MovesWindow(livePage)
    <2>1. livePage.data # Null /\ livePage.data \in Seq(Time) /\ livePage.StopTime \in Time
        BY <1>0, <1>7 DEF RunLiveEffects, LivePageState, AnswersInv
    <2>2. livePage' \in LivePageState /\ livePage'.StopTime = livePage.StopTime /\ UNCHANGED <<now, reader, overwritten, replaced>>
        BY <1>0, <1>7, PageTypesOfEffects DEF RunLiveEffects, goroutineVars, PageTypeOK, LivePageState
    <2>3. livePage'.data # Null
        <3>1. "message" \in livePage.due /\ ~fails => WithMessage(livePage.data, livePage.lastMessage) \in Seq(Time)
            BY <1>0, <2>1, MergedAreSamples DEF LiveInv, PageTypeOK, LivePageState
        <3> QED
            BY <1>0, <1>7, <2>1, <3>1, NullFresh DEF RunLiveEffects, LivePageState
    <2>4. connection' = "open" <=> livePage'.ws # "closed"
        BY <1>0, <1>7 DEF RunLiveEffects, LivePageState
    <2>5. livePage'.ws # "none"
        BY <1>0, <1>7, <2>1 DEF RunLiveEffects, LivePageState
    <2>6. "answer" \notin livePage'.due
        BY <1>0, <1>7 DEF RunLiveEffects, LivePageState
    <2>7. CASE "answer" \in livePage.due
        <3>1. /\ livePage'.timeStart = DefaultStart /\ "window" \in livePage'.due
              /\ late' = (late \/ now # livePage.StopTime)
            BY <1>0, <1>7, <2>7 DEF RunLiveEffects, LivePageState
        <3>2. livePage.StopTime <= now /\ replaced.opened = livePage.StopTime /\ Hour \in Nat
            BY <2>1, <2>7, LivePageAssumption DEF AnswersInv
        <3>3. DefaultStart \in Time
            BY AnswersAreSamples
        <3>4. DataStart <= DefaultStart /\ (now = livePage.StopTime => DefaultStart = DataStart)
            BY <1>0, <2>1, <3>2 DEF DefaultStart, StartTime, Time
        <3> QED
            BY <2>1, <2>2, <2>3, <2>4, <2>5, <2>6, <3>1, <3>2, <3>3, <3>4, NullFresh
    <2>8. CASE "answer" \notin livePage.due
        <3>1. livePage'.timeStart = livePage.timeStart
            BY <1>0, <1>7, <2>8 DEF RunLiveEffects, LivePageState
        <3>2. livePage'.curLiveWindowStart # Infinity
            BY <1>0, <1>7, <2>1, <2>8, NullFresh DEF RunLiveEffects, LivePageState, MovesWindow
        <3> QED
            BY <2>1, <2>2, <2>3, <2>4, <2>5, <2>6, <2>8, <3>1, <3>2
    <2> QED
        BY <2>7, <2>8
<1>8. CASE Disconnects
    BY <1>0, <1>8 DEF Disconnects, PeerLeaves, LivePageState, goroutineVars
<1>9. CASE Connects
    BY <1>9 DEF Connects, StartMonitoring, JobNotFound, pageVars, goroutineVars
<1>10. CASE ReceivesLoadMetrics
    BY <1>10 DEF ReceivesLoadMetrics, ReadLoadMetrics, GoroutinesInv
<1>11. CASE Loads \/ WritesResponse \/ QueriesLast \/ HandsOver \/ WritesLatest
    <2>1. UNCHANGED <<now, livePage, asked, connection, late, overwritten, replaced>> /\ reader # "none"
        BY <1>11 DEF Loads, Load, WritesResponse, Replied, QueriesLast, Query, HandsOver, SendData,
                     WritesLatest, Written, GoroutinesInv, LiveInv, MonitoringInv, MonitoringTypeOK
    <2> QED
        BY <2>1
<1>12. CASE OtherSteps
    <2>1. UNCHANGED pageVars /\ (connection' = "open" <=> connection = "open") /\ (reader = "none" => reader' = "none")
        BY <1>12 DEF OtherSteps, Tick, TakeTick, QueryFails, ReadFails, ReadOther, SignalDone, Close,
                MonitorClosed, monitoringVars, goroutineVars, GoroutinesInv
    <2> QED
        BY <2>1 DEF pageVars
<1> QED
    BY <1>1, <1>2, <1>3, <1>4, <1>5, <1>6, <1>7, <1>8, <1>9, <1>10, <1>11, <1>12, <1>13
       DEF LivePageNext, PageNext, LiveNext, StartTime, Time

\* Every step keeps live points to at most one sample.
LEMMA MessagesStep ==
    ASSUME LiveInv, StagesInv, CarriedInv, MessagesInv, LivePageNext
    PROVE  MessagesInv'
<1> USE DEF MessagesInv
<1>0. livePage \in LivePageState /\ inbox \in Seq(Message)
    BY DEF LiveInv, PageTypeOK
<1>1. CASE UNCHANGED <<inbox, livePage.lastMessage>>
    BY <1>1
<1>2. CASE inbox' = <<>> /\ livePage'.lastMessage = livePage.lastMessage
    BY <1>2
<1>3. CASE OnMessage
    <2>1. livePage'.lastMessage = inbox[1] /\ Len(inbox) > 0
        BY <1>0, <1>3 DEF OnMessage, LivePageState
    <2>2. \A i \in 1..Len(inbox') : inbox'[i] = inbox[i + 1] /\ i + 1 \in 1..Len(inbox)
        BY <1>0, <1>3 DEF OnMessage
    <2> QED
        BY <1>0, <2>1, <2>2
<1>4. CASE RunLiveEffects
    <2>1. livePage'.lastMessage = Null /\ (inbox' = inbox \/ inbox' = <<>>)
        BY <1>0, <1>4 DEF RunLiveEffects, LivePageState
    <2> QED
        BY <2>1
<1>5. ASSUME NEW m \in Message, LatestFits(m), inbox' = Append(inbox, m), livePage' = livePage
      PROVE  MessagesInv'
    <2>1. /\ Len(inbox) \in Nat /\ Len(inbox') = Len(inbox) + 1
          /\ \A i \in 1..Len(inbox) : inbox'[i] = inbox[i]
          /\ inbox'[Len(inbox) + 1] = m
        BY <1>0, <1>5, Enqueued
    <2>2. \A i \in 1..Len(inbox') : i \in 1..Len(inbox) \/ i = Len(inbox) + 1
        BY <2>1
    <2> QED
        BY <1>5, <2>1, <2>2
<1>6. CASE WritesResponse
    <2>1. LatestFits([Type |-> "LoadMetricsResponse", MetricData |-> carried.response])
        BY DEF LatestFits
    <2>2. [Type |-> "LoadMetricsResponse", MetricData |-> carried.response] \in Message
        BY DEF LiveInv, PageTypeOK, Carried, Message
    <2> QED
        BY <1>1, <1>5, <1>6, <2>1, <2>2 DEF WritesResponse, Writes
<1>7. CASE WritesLatest
    <2>1. LatestFits([Type |-> "LatestMetrics", MetricData |-> carried.writer])
        BY <1>7 DEF WritesLatest, Written, LatestFits, CarriedInv
    <2>2. [Type |-> "LatestMetrics", MetricData |-> carried.writer] \in Message
        BY DEF LiveInv, PageTypeOK, Carried, Message
    <2> QED
        BY <1>1, <1>5, <1>7, <2>1, <2>2 DEF WritesLatest, Writes
<1>8. CASE GetJobAnswered
    BY <1>0, <1>1, <1>8 DEF GetJobAnswered, LivePageState
<1>9. CASE Disconnects
    BY <1>0, <1>2, <1>9 DEF Disconnects, LivePageState
<1>10. CASE WebSocketOpens
    BY <1>0, <1>1, <1>10 DEF WebSocketOpens, LivePageState
<1>11. ASSUME NEW t, SetStartTime(t)
       PROVE  MessagesInv'
    BY <1>0, <1>1, <1>11 DEF SetStartTime, LivePageState
<1>12. CASE GetJob \/ Advance \/ Connects \/ ReceivesLoadMetrics \/ Loads \/ QueriesLast \/ HandsOver \/ OtherSteps
    BY <1>1, <1>12 DEF GetJob, Advance, Connects, ReceivesLoadMetrics, Loads, QueriesLast, HandsOver, OtherSteps, pageVars
<1> QED
    BY <1>3, <1>4, <1>6, <1>7, <1>8, <1>9, <1>10, <1>11, <1>12 DEF LivePageNext, PageNext, LiveNext, ResetTimeRange

---------------------------------------------------------------------------
(* The order of what is shown and what is on its way *)

\* What is on its way are samples.
LEMMA SegmentsAreTimes ==
    ASSUME LiveInv
    PROVE  /\ Data \subseteq Time
           /\ OlderLast \subseteq Time /\ LatestLast \subseteq Time
           /\ \A i \in 1..Len(inbox) : OlderInbox[i] \subseteq Time /\ LatestInbox[i] \subseteq Time
           /\ LatestWriter \subseteq Time /\ LatestProducer \subseteq Time
           /\ \A p \in Time : p \in Nat /\ p < Infinity
<1>1. ASSUME NEW s \in Seq(Time) \cup {Null}
      PROVE  PointsOf(s) \subseteq Time
    BY <1>1 DEF PointsOf, ToSet
<1>2. ASSUME NEW m \in Message \cup {Null}
      PROVE  OlderIn(m) \subseteq Time /\ LatestIn(m) \subseteq Time
    BY <1>1, <1>2 DEF OlderIn, LatestIn, Message
<1>3. livePage.data \in Seq(Time) \cup {Null} /\ livePage.lastMessage \in Message \cup {Null}
    BY DEF LiveInv, PageTypeOK, LivePageState
<1>4. carried.writer \in Seq(Time) \cup {Null} /\ carried.producer \in Seq(Time) \cup {Null}
    BY DEF LiveInv, PageTypeOK, Carried
<1>5. \A i \in 1..Len(inbox) : inbox[i] \in Message
    BY DEF LiveInv, PageTypeOK
<1>6. \A p \in Time : p \in Nat /\ p < Infinity
    BY LivePageAssumption DEF Time, Infinity
<1>7. Data \subseteq Time
    BY <1>1, <1>3 DEF Data
<1>8. OlderLast \subseteq Time /\ LatestLast \subseteq Time
    BY <1>2, <1>3 DEF OlderLast, LatestLast
<1>9. \A i \in 1..Len(inbox) : OlderInbox[i] \subseteq Time /\ LatestInbox[i] \subseteq Time
    BY <1>2, <1>5 DEF OlderInbox, LatestInbox
<1>10. LatestWriter \subseteq Time /\ LatestProducer \subseteq Time
    BY <1>1, <1>4 DEF LatestWriter, LatestProducer
<1> QED
    BY <1>6, <1>7, <1>8, <1>9, <1>10

\* What is on its way are whole numbers.
LEMMA SegmentsAreNumbers ==
    ASSUME LiveInv
    PROVE  /\ \A p \in Data \cup OlderLast \cup LatestLast \cup OlderReader \cup LatestWriter \cup LatestProducer : p \in Int
           /\ \A i \in 1..Len(inbox) : \A p \in OlderInbox[i] \cup LatestInbox[i] : p \in Int
           /\ \A k \in 1..Len(asked) : \A p \in OlderAsked[k] : p \in Int
<1>1. \A r : \A p \in AskedFor(r) : p \in Int
    BY DEF AskedFor
<1>2. PointsOf(carried.response) \subseteq Time
    BY DEF LiveInv, PageTypeOK, Carried, PointsOf, ToSet
<1>3. \A p \in OlderReader : p \in Int
    BY <1>1, <1>2, SegmentsAreTimes DEF OlderReader
<1>4. \A k \in 1..Len(asked) : \A p \in OlderAsked[k] : p \in Int
    BY <1>1 DEF OlderAsked
<1> QED
    BY <1>3, <1>4, SegmentsAreTimes

\* The clock alone does not disturb the order.
LEMMA OrderAdvances ==
    ASSUME LiveInv, OrderInv, UNCHANGED <<asked, inbox, carried, late, replaced>>, now' \in {now, now + 1},
           livePage'.data = livePage.data, livePage'.lastMessage = livePage.lastMessage,
           livePage'.curLiveWindowStart = livePage.curLiveWindowStart,
           livePage'.StopTime = livePage.StopTime
    PROVE  OrderInv'
<1>1. /\ UNCHANGED <<Data, OlderLast, OlderInbox, OlderReader, OlderAsked>>
      /\ UNCHANGED <<LatestLast, LatestInbox, LatestWriter, LatestProducer, DataStart>>
    BY DEF Data, OlderLast, OlderInbox, OlderReader, OlderAsked, LatestLast, LatestInbox, LatestWriter,
           LatestProducer, DataStart
<1>2. SUFFICES ASSUME livePage.data # Null, ~late
               PROVE  (OlderOrder /\ OlderBounds /\ LatestOrder /\ LatestBounds)'
    BY DEF OrderInv
<1>3. OlderOrder' /\ LatestOrder'
    BY <1>1, <1>2 DEF OrderInv, OlderOrder, LatestOrder, AtEnd, Above, NotBelow
<1>4. OlderBounds'
    BY <1>1, <1>2 DEF OrderInv, OlderBounds, Between
<1>5. \A p \in Time : p < now => p < now'
    BY DEF LiveInv, PageTypeOK, Time
<1>6. LatestBounds'
    BY <1>1, <1>2, <1>5, SegmentsAreTimes DEF OrderInv, LatestBounds, Since
<1> QED
    BY <1>3, <1>4, <1>6

\* What live points are on their way.
LEMMA OnTheWay ==
    ASSUME LiveInv
    PROVE  /\ LatestLast \subseteq LiveOnTheWay
           /\ LatestWriter \subseteq LiveOnTheWay /\ LatestProducer \subseteq LiveOnTheWay
           /\ \A i \in 1..Len(inbox) : LatestInbox[i] \subseteq LiveOnTheWay
<1>1. \A m : LatestIn(m) = LivePoints(m)
    BY DEF LatestIn, LivePoints, PointsOf, Samples
<1>2. \A q : PointsOf(q) = Samples(q)
    BY DEF PointsOf, Samples
<1>3. LatestLast \subseteq LiveOnTheWay
    BY <1>1 DEF LiveOnTheWay, LatestLast
<1>4. LatestWriter \subseteq LiveOnTheWay /\ LatestProducer \subseteq LiveOnTheWay
    BY <1>2 DEF LiveOnTheWay, LatestWriter, LatestProducer
<1>5. ASSUME NEW i \in 1..Len(inbox)
      PROVE  LatestInbox[i] \subseteq LiveOnTheWay
    <2>1. LatestInbox[i] = LivePoints(inbox[i])
        BY <1>1 DEF LatestInbox
    <2> QED
        BY <2>1 DEF LiveOnTheWay
<1> QED
    BY <1>3, <1>4, <1>5

\* The first answer of GetJob is all there is.
LEMMA OrderOpened ==
    ASSUME LiveInv, GoroutinesInv, CarriedInv, AnswersInv, StagesInv, GetJobAnswered, livePage.data = Null
    PROVE  OrderInv'
<1> DEFINE n == fetch.answer.StopTime
<1>1. livePage.ws = "none" /\ reader = "none" /\ asked = <<>> /\ inbox = <<>>
    BY DEF StagesInv
<1>2. livePage.lastMessage = Null
    BY <1>1 DEF LiveInv, PageTypeOK, StagesInv
<1>3. carried.request = Null /\ carried.response = Null /\ carried.writer = Null /\ carried.producer = Null
    BY <1>1 DEF LiveInv, PageTypeOK, CarriedInv, GoroutinesInv
<1>4. livePage.curLiveWindowStart = Infinity
    BY <1>1 DEF StagesInv
<1>5. /\ livePage'.data = fetch.answer.MetricData /\ livePage'.StopTime = n /\ replaced'.opened = n
      /\ livePage'.lastMessage = Null /\ livePage'.curLiveWindowStart = Infinity
      /\ UNCHANGED <<now, asked, inbox, carried, late>> /\ fetch.answer # Null
    BY <1>2, <1>4 DEF GetJobAnswered, LiveInv, PageTypeOK, LivePageState, Replaced
<1>6. Data' = {p \in Time : n - Hour <= p /\ p < n} /\ n \in Nat /\ n <= now /\ Hour \in Nat
    BY <1>5, AnswerFits DEF Data, PointsOf
<1>7. OlderLast' = {} /\ LatestLast' = {} /\ OlderReader' = {} /\ LatestWriter' = {} /\ LatestProducer' = {}
    BY <1>3, <1>5 DEF OlderLast, OlderIn, LatestLast, LatestIn, OlderReader, PointsOf, LatestWriter, LatestProducer
<1>8. Len(asked') = 0 /\ Len(inbox') = 0
    BY <1>1, <1>5
<1>9. OlderOrder' /\ LatestOrder'
    BY <1>7, <1>8 DEF OlderOrder, LatestOrder, AtEnd, Above, NotBelow
<1>10. \A p \in Data' : DataStart' <= p /\ p < now'
    BY <1>5, <1>6 DEF DataStart, LiveInv, PageTypeOK, Time, StartTime
<1>11. OlderBounds' /\ LatestBounds'
    BY <1>5, <1>7, <1>8, <1>10 DEF OlderBounds, LatestBounds, Between, Since
<1> QED
    BY <1>9, <1>11 DEF OrderInv

\* What the second answer has lies between older metrics and, unless it overtook some,
\* live points on their way.
LEMMA OrderReplaced ==
    ASSUME LiveInv, AnswersInv, StagesInv, OrderInv, GetJobAnswered, livePage.data # Null
    PROVE  OrderInv'
<1> DEFINE n == fetch.answer.StopTime
<1>1. /\ livePage'.data = fetch.answer.MetricData /\ livePage'.StopTime = n
      /\ livePage'.lastMessage = livePage.lastMessage
      /\ livePage'.curLiveWindowStart = livePage.curLiveWindowStart
      /\ replaced'.opened = replaced.opened
      /\ replaced'.overtook = \E p \in LiveOnTheWay : p < n - 1
      /\ UNCHANGED <<now, asked, inbox, carried, late>> /\ fetch.answer # Null
    BY DEF GetJobAnswered, LiveInv, PageTypeOK, LivePageState, Replaced
<1>2. /\ Data' = {p \in Time : n - Hour <= p /\ p < n}
      /\ n \in Nat /\ n <= now /\ Hour \in Nat \ {0}
    BY <1>1, AnswerFits DEF Data, PointsOf
<1>3. /\ UNCHANGED <<OlderLast, OlderInbox, OlderReader, OlderAsked>>
      /\ UNCHANGED <<LatestLast, LatestInbox, LatestWriter, LatestProducer, DataStart>>
    BY <1>1 DEF OlderLast, OlderInbox, OlderReader, OlderAsked, LatestLast, LatestInbox, LatestWriter,
                LatestProducer, DataStart
<1>4. SUFFICES ASSUME ~late
               PROVE  (OlderOrder /\ OlderBounds /\ LatestOrder /\ LatestBounds)'
    BY <1>1 DEF OrderInv
<1>5. OlderOrder /\ OlderBounds /\ LatestOrder /\ LatestBounds
    BY <1>4 DEF OrderInv
<1>6. now \in Nat /\ DataStart \in Int /\ \A p \in Data' : p \in Nat /\ DataStart <= p /\ p < n
    <2>1. replaced.opened \in Time /\ replaced.opened <= livePage.StopTime /\ livePage.StopTime <= n
          /\ livePage.StopTime \in Time
        BY <1>1 DEF AnswersInv
    <2>2. now \in Nat /\ Time \subseteq Nat \ {0} /\ MaxNow \in Nat
        BY LivePageAssumption DEF LiveInv, PageTypeOK, Time
    <2>3. replaced.opened <= n /\ replaced.opened \in Nat
        <3>1. replaced.opened \in Nat /\ livePage.StopTime \in Nat
            BY <2>1, <2>2
        <3> QED
            BY <1>2, <2>1, <3>1
    <2> QED
        BY <1>2, <2>2, <2>3 DEF DataStart, StartTime
<1>7. ASSUME NEW S, Between(S), \A p \in S : p \in Int
      PROVE  Above(Data', S)
    BY <1>6, <1>7 DEF Between, Above
<1>8. /\ Above(Data', OlderLast) /\ Above(Data', OlderReader)
      /\ \A i \in 1..Len(inbox) : Above(Data', OlderInbox[i])
      /\ \A k \in 1..Len(asked) : Above(Data', OlderAsked[k])
    BY <1>5, <1>7, SegmentsAreNumbers DEF OlderBounds
<1>9. OlderOrder'
    BY <1>1, <1>3, <1>5, <1>8 DEF OlderOrder
<1>10. OlderBounds'
    BY <1>1, <1>3, <1>5, <1>6 DEF OlderBounds, Between
<1>11. ASSUME NEW S, S \subseteq LiveOnTheWay, \A p \in S : p \in Int, ~replaced'.overtook
       PROVE  NotBelow(S, Data') /\ \A p \in S : livePage'.StopTime - 1 <= p
    BY <1>1, <1>2, <1>6, <1>11 DEF NotBelow
<1>12. LatestOrder'
    <2>1. /\ ~replaced'.overtook => NotBelow(LatestLast, Data') /\ NotBelow(LatestWriter, Data')
                                    /\ NotBelow(LatestProducer, Data')
          /\ \A i \in 1..Len(inbox) : ~replaced'.overtook => NotBelow(LatestInbox[i], Data')
        BY <1>11, OnTheWay, SegmentsAreNumbers
    <2> QED
        BY <1>1, <1>3, <1>5, <2>1 DEF LatestOrder, AtEnd
<1>13. LatestBounds'
    <2>1. ASSUME NEW S, Since(S), S \subseteq LiveOnTheWay, \A p \in S : p \in Int
          PROVE  \A p \in S : /\ DataStart <= p /\ p < now
                              /\ ~replaced'.overtook => livePage'.StopTime - 1 <= p
        BY <1>11, <2>1 DEF Since
    <2>2. \A p \in Data' : p < now
        BY <1>2, <1>6
    <2>3. ASSUME NEW i \in 1..Len(inbox)
          PROVE  \A p \in LatestInbox[i] : /\ DataStart <= p /\ p < now
                                           /\ ~replaced'.overtook => livePage'.StopTime - 1 <= p
        BY <1>5, <2>1, OnTheWay, SegmentsAreNumbers DEF LatestBounds
    <2>4. \A p \in LatestLast \cup LatestWriter \cup LatestProducer :
             /\ DataStart <= p /\ p < now
             /\ ~replaced'.overtook => livePage'.StopTime - 1 <= p
        BY <1>5, <2>1, OnTheWay, SegmentsAreNumbers DEF LatestBounds
    <2> QED
        BY <1>1, <1>3, <2>2, <2>3, <2>4 DEF LatestBounds, Since
<1> QED
    BY <1>9, <1>10, <1>12, <1>13

\* The message that arrives is the next one, in front of those that follow.
LEMMA OrderOnMessage ==
    ASSUME LiveInv, OrderInv, OnMessage
    PROVE  OrderInv'
<1>1. /\ livePage'.lastMessage = inbox[1] /\ 1 \in 1..Len(inbox)
      /\ livePage'.data = livePage.data /\ livePage'.StopTime = livePage.StopTime
      /\ livePage'.curLiveWindowStart = livePage.curLiveWindowStart
      /\ UNCHANGED <<now, asked, carried, late, replaced>>
    BY Dequeued DEF OnMessage, LiveInv, PageTypeOK, LivePageState
<1>2. /\ UNCHANGED <<Data, OlderReader, OlderAsked, LatestWriter, LatestProducer, DataStart>>
      /\ OlderLast' = OlderInbox[1] /\ LatestLast' = LatestInbox[1]
    BY <1>1 DEF Data, OlderReader, OlderAsked, LatestWriter, LatestProducer, DataStart,
                OlderLast, OlderInbox, LatestLast, LatestInbox
<1>3. \A i \in 1..Len(inbox') : i + 1 \in 1..Len(inbox) /\ inbox'[i] = inbox[i + 1] /\ i \in Nat
    BY Dequeued DEF OnMessage, LiveInv, PageTypeOK
<1>4. \A i \in 1..Len(inbox') : OlderInbox'[i] = OlderInbox[i + 1] /\ LatestInbox'[i] = LatestInbox[i + 1]
    BY <1>3 DEF OlderInbox, LatestInbox
<1>5. SUFFICES ASSUME livePage.data # Null, ~late
               PROVE  (OlderOrder /\ OlderBounds /\ LatestOrder /\ LatestBounds)'
    BY <1>1 DEF OrderInv
<1>6. OlderOrder'
    <2>1. OlderOrder
        BY <1>5 DEF OrderInv
    <2>2. Above(Data, OlderLast)' /\ Above(Data, OlderReader)' /\ Above(OlderLast, OlderReader)'
        BY <1>1, <1>2, <2>1 DEF OlderOrder
    <2>3. ASSUME NEW i \in 1..Len(inbox')
          PROVE  /\ Above(Data', OlderInbox'[i]) /\ Above(OlderLast', OlderInbox'[i])
                 /\ Above(OlderInbox'[i], OlderReader')
                 /\ \A j \in 1..Len(inbox') : i < j => Above(OlderInbox'[i], OlderInbox'[j])
                 /\ \A k \in 1..Len(asked') : Above(OlderInbox'[i], OlderAsked'[k])
        BY <1>1, <1>2, <1>3, <1>4, <2>1 DEF OlderOrder
    <2>4. ASSUME NEW k \in 1..Len(asked')
          PROVE  /\ Above(Data', OlderAsked'[k]) /\ Above(OlderLast', OlderAsked'[k])
                 /\ Above(OlderReader', OlderAsked'[k])
                 /\ \A l \in 1..Len(asked') : k < l => Above(OlderAsked'[k], OlderAsked'[l])
        BY <1>1, <1>2, <2>1 DEF OlderOrder
    <2> QED
        BY <2>2, <2>3, <2>4 DEF OlderOrder
<1>7. LatestOrder'
    <2>1. LatestOrder
        BY <1>5 DEF OrderInv
    <2>2. /\ AtEnd(LatestLast)' /\ AtEnd(LatestWriter)' /\ AtEnd(LatestProducer)'
          /\ NotBelow(LatestWriter, LatestLast)' /\ NotBelow(LatestProducer, LatestLast)'
          /\ NotBelow(LatestProducer, LatestWriter)'
        BY <1>1, <1>2, <2>1 DEF LatestOrder, AtEnd
    <2>3. ASSUME NEW i \in 1..Len(inbox')
          PROVE  /\ AtEnd(LatestInbox[i])' /\ NotBelow(LatestInbox'[i], LatestLast')
                 /\ NotBelow(LatestWriter', LatestInbox'[i]) /\ NotBelow(LatestProducer', LatestInbox'[i])
                 /\ \A j \in 1..Len(inbox') : i < j => NotBelow(LatestInbox'[j], LatestInbox'[i])
        BY <1>1, <1>2, <1>3, <1>4, <2>1 DEF LatestOrder, AtEnd
    <2> QED
        BY <2>2, <2>3 DEF LatestOrder
<1>8. OlderBounds'
    BY <1>1, <1>2, <1>3, <1>4, <1>5 DEF OrderInv, OlderBounds, Between
<1>9. LatestBounds'
    BY <1>1, <1>2, <1>3, <1>4, <1>5 DEF OrderInv, LatestBounds, Since
<1> QED
    BY <1>6, <1>7, <1>8, <1>9

\* What was on its way to or from the page is lost.
LEMMA OrderDisconnects ==
    ASSUME LiveInv, OrderInv, Disconnects
    PROVE  OrderInv'
<1>1. /\ livePage'.lastMessage = livePage.lastMessage
      /\ livePage'.data = livePage.data /\ livePage'.StopTime = livePage.StopTime
      /\ livePage'.curLiveWindowStart = livePage.curLiveWindowStart
      /\ UNCHANGED <<now, carried, late, replaced>> /\ Len(inbox') = 0 /\ Len(asked') = 0
    BY DEF Disconnects, LiveInv, PageTypeOK, LivePageState
<1>2. UNCHANGED <<Data, OlderReader, OlderLast, LatestLast, LatestWriter, LatestProducer, DataStart>>
    BY <1>1 DEF Data, OlderReader, LatestWriter, LatestProducer, DataStart, OlderLast, LatestLast
<1> QED
    BY <1>1, <1>2 DEF OrderInv, OlderOrder, OlderBounds, LatestOrder, LatestBounds, AtEnd, Between, Since

\* A message sent comes after those in the inbox.
LEMMA InboxGrows ==
    ASSUME LiveInv, NEW m \in Message, inbox' = Append(inbox, m)
    PROVE  /\ Len(inbox) \in Nat /\ Len(inbox') = Len(inbox) + 1
           /\ \A i \in 1..Len(inbox') : i \in 1..Len(inbox) \/ i = Len(inbox) + 1
           /\ \A i \in 1..Len(inbox) :
                /\ inbox'[i] = inbox[i]
                /\ OlderInbox'[i] = OlderInbox[i] /\ LatestInbox'[i] = LatestInbox[i]
           /\ inbox'[Len(inbox) + 1] = m
           /\ OlderInbox'[Len(inbox) + 1] = OlderIn(m) /\ LatestInbox'[Len(inbox) + 1] = LatestIn(m)
<1>1. /\ Len(inbox) \in Nat /\ Len(inbox') = Len(inbox) + 1
      /\ \A i \in 1..Len(inbox) : inbox'[i] = inbox[i]
      /\ inbox'[Len(inbox) + 1] = m
    BY Enqueued DEF LiveInv, PageTypeOK
<1>2. /\ \A i \in 1..Len(inbox') : i \in 1..Len(inbox) \/ i = Len(inbox) + 1
      /\ \A i \in 1..Len(inbox) : i \in 1..Len(inbox')
      /\ Len(inbox) + 1 \in 1..Len(inbox')
    BY <1>1
<1> QED
    BY <1>1, <1>2 DEF OlderInbox, LatestInbox

\* The reader takes what was asked for first.
LEMMA OrderReceivesLoadMetrics ==
    ASSUME LiveInv, GoroutinesInv, CarriedInv, OrderInv, ReceivesLoadMetrics
    PROVE  OrderInv' /\ OlderReader' = OlderAsked[1] /\ OlderReader = {}
<1>1. /\ asked \in Seq(LiveRequest) /\ carried'.request = asked[1] /\ asked[1] # Null /\ 1 \in 1..Len(asked)
      /\ carried.request = Null /\ carried.response = Null
      /\ carried'.response = Null
      /\ carried'.writer = carried.writer /\ carried'.producer = carried.producer
      /\ UNCHANGED <<now, livePage, inbox, late, replaced>>
    BY Dequeued, NullFresh DEF ReceivesLoadMetrics, ReadLoadMetrics, LiveInv, PageTypeOK, CarriedInv, Carried
<1>2. /\ UNCHANGED <<Data, OlderLast, OlderInbox, LatestLast, LatestInbox, LatestWriter, LatestProducer, DataStart>>
      /\ OlderReader' = OlderAsked[1] /\ OlderReader = {}
    BY <1>1 DEF Data, OlderLast, OlderInbox, LatestLast, LatestInbox, LatestWriter, LatestProducer, DataStart,
                OlderReader, OlderAsked, PointsOf
<1>3. \A k \in 1..Len(asked') : k + 1 \in 1..Len(asked) /\ asked'[k] = asked[k + 1] /\ k \in Nat
    BY Dequeued DEF ReceivesLoadMetrics, LiveInv, PageTypeOK
<1>4. \A k \in 1..Len(asked') : OlderAsked'[k] = OlderAsked[k + 1]
    BY <1>3 DEF OlderAsked
<1>5. SUFFICES ASSUME livePage.data # Null, ~late
               PROVE  (OlderOrder /\ OlderBounds /\ LatestOrder /\ LatestBounds)'
    BY <1>1, <1>2 DEF OrderInv
<1>6. OlderOrder'
    <2>1. OlderOrder
        BY <1>5 DEF OrderInv
    <2>2. ASSUME NEW k \in 1..Len(asked')
          PROVE  /\ Above(Data', OlderAsked'[k]) /\ Above(OlderLast', OlderAsked'[k])
                 /\ Above(OlderReader', OlderAsked'[k])
                 /\ \A l \in 1..Len(asked') : k < l => Above(OlderAsked'[k], OlderAsked'[l])
        BY <1>1, <1>2, <1>3, <1>4, <2>1 DEF OlderOrder
    <2>3. /\ Above(Data, OlderLast)' /\ Above(Data, OlderReader)' /\ Above(OlderLast, OlderReader)'
          /\ \A i \in 1..Len(inbox') :
                /\ Above(Data', OlderInbox'[i]) /\ Above(OlderLast', OlderInbox'[i])
                /\ Above(OlderInbox'[i], OlderReader')
                /\ \A j \in 1..Len(inbox') : i < j => Above(OlderInbox'[i], OlderInbox'[j])
        BY <1>1, <1>2, <2>1 DEF OlderOrder
    <2>4. \A i \in 1..Len(inbox'), k \in 1..Len(asked') : Above(OlderInbox'[i], OlderAsked'[k])
        BY <1>1, <1>2, <1>3, <1>4, <2>1 DEF OlderOrder
    <2> QED
        BY <2>2, <2>3, <2>4 DEF OlderOrder
<1>7. LatestOrder' /\ LatestBounds'
    BY <1>1, <1>2, <1>5 DEF OrderInv, LatestOrder, LatestBounds, AtEnd, NotBelow, Since
<1>8. OlderBounds'
    BY <1>1, <1>2, <1>3, <1>4, <1>5 DEF OrderInv, OlderBounds, Between
<1> QED
    BY <1>2, <1>6, <1>7, <1>8

\* An answer is no more than what was asked for, and all of it unless the query failed.
LEMMA LoadsAnswers ==
    ASSUME LiveInv, CarriedInv, Loads
    PROVE  /\ carried'.response # Null => OlderReader' = OlderReader /\ Increasing(carried'.response)
           /\ OlderReader' \subseteq OlderReader
           /\ carried'.writer = carried.writer /\ carried'.producer = carried.producer
<1>1. carried.request \in LiveRequest /\ carried.request # Null /\ carried.response = Null
    BY DEF Loads, Load, LiveInv, PageTypeOK, Carried, CarriedInv
<1>2. PICK answer \in {Null}
            \cup (IF carried.request.StopTime = Null THEN {} ELSE {LoadedMetrics(carried.request)}) :
        carried' = [carried EXCEPT !.request = Null, !.response = answer]
    BY DEF Loads
<1>3. /\ carried'.request = Null /\ carried'.response = answer
      /\ carried'.writer = carried.writer /\ carried'.producer = carried.producer
    BY <1>2 DEF LiveInv, PageTypeOK, Carried
<1>4. OlderReader = AskedFor(carried.request) /\ OlderReader' = PointsOf(answer)
    BY <1>1, <1>3 DEF OlderReader, PointsOf
<1>5. CASE answer = Null
    BY <1>3, <1>4, <1>5 DEF PointsOf
<1>6. CASE answer # Null
    <2> DEFINE from == carried.request.StartTime
               to == carried.request.StopTime
    <2>1. answer = Points(from, to) /\ to # Null
        BY <1>2, <1>6 DEF LoadedMetrics
    <2>2. from \in Time /\ to \in Time /\ from \in Int /\ to \in Int /\ to <= Infinity
        BY <1>1, <2>1, LivePageAssumption DEF LiveRequest, Time, Infinity
    <2>3. ToSet(answer) = {p \in Time : from <= p /\ p < to} /\ Increasing(answer)
        BY <2>1, <2>2, PointsAreSamples
    <2>4. AskedFor(carried.request) = from .. to - 1
        BY <2>1 DEF AskedFor
    <2>5. from .. to - 1 = {p \in Time : from <= p /\ p < to}
        BY <2>2, LivePageAssumption DEF Time
    <2> QED
        BY <1>3, <1>4, <1>6, <2>3, <2>4, <2>5 DEF PointsOf
<1> QED
    BY <1>5, <1>6

\* It is no more than what was asked for.
LEMMA OrderLoads ==
    ASSUME LiveInv, CarriedInv, OrderInv, Loads
    PROVE  OrderInv'
<1>1. UNCHANGED <<now, livePage, asked, inbox, late, replaced>>
    BY DEF Loads
<1>2. OlderReader' \subseteq OlderReader /\ carried'.writer = carried.writer /\ carried'.producer = carried.producer
    BY LoadsAnswers
<1>3. /\ UNCHANGED <<Data, OlderLast, OlderInbox, OlderAsked, LatestLast, LatestInbox>>
      /\ UNCHANGED <<LatestWriter, LatestProducer, DataStart>>
    BY <1>1, <1>2 DEF Data, OlderLast, OlderInbox, LatestLast, LatestInbox, LatestWriter, LatestProducer,
                DataStart, OlderAsked
<1>4. SUFFICES ASSUME livePage.data # Null, ~late
               PROVE  (OlderOrder /\ OlderBounds /\ LatestOrder /\ LatestBounds)'
    BY <1>1 DEF OrderInv
<1>5. OlderOrder'
    BY <1>1, <1>2, <1>3, <1>4 DEF OrderInv, OlderOrder, Above
<1>6. OlderBounds' /\ LatestOrder' /\ LatestBounds'
    BY <1>1, <1>2, <1>3, <1>4 DEF OrderInv, OlderBounds, Between, LatestOrder, LatestBounds, AtEnd, Since
<1> QED
    BY <1>5, <1>6

\* An answer written goes from the reader to the end of the inbox.
LEMMA ResponseMoves ==
    ASSUME LiveInv, WritesResponse, connection = "open"
    PROVE  LET m == [Type |-> "LoadMetricsResponse", MetricData |-> carried.response]
           IN  m \in Message /\ inbox' = Append(inbox, m) /\ OlderIn(m) = OlderReader /\ LatestIn(m) = {}
<1> DEFINE m == [Type |-> "LoadMetricsResponse", MetricData |-> carried.response]
<1>1. m \in Message /\ m # Null
    BY NullFresh DEF LiveInv, PageTypeOK, Carried, Message
<1>2. inbox' = Append(inbox, m)
    BY DEF WritesResponse, Writes
<1>3. carried.request = Null
    BY DEF WritesResponse, Replied, LiveInv, PageTypeOK
<1> QED
    BY <1>1, <1>2, <1>3 DEF OlderIn, LatestIn, OlderReader

\* It stays behind what was sent before.
LEMMA OrderWritesResponse ==
    ASSUME LiveInv, OrderInv, WritesResponse
    PROVE  OrderInv'
<1>1. /\ carried'.request = Null /\ carried'.response = Null
      /\ carried'.writer = carried.writer /\ carried'.producer = carried.producer
      /\ UNCHANGED <<now, livePage, asked, late, replaced>>
    BY DEF WritesResponse, Replied, LiveInv, PageTypeOK, Carried
<1>2. /\ UNCHANGED <<Data, OlderLast, OlderAsked, LatestLast, LatestWriter, LatestProducer, DataStart>>
      /\ OlderReader' = {}
    BY <1>1 DEF Data, OlderLast, LatestLast, LatestWriter, LatestProducer, DataStart, OlderAsked,
                OlderReader, PointsOf
<1>3. SUFFICES ASSUME livePage.data # Null, ~late
               PROVE  (OlderOrder /\ OlderBounds /\ LatestOrder /\ LatestBounds)'
    BY <1>1 DEF OrderInv
<1>4. OlderOrder /\ OlderBounds /\ LatestOrder /\ LatestBounds
    BY <1>3 DEF OrderInv
<1>5. CASE connection = "open"
    <2> DEFINE n == Len(inbox)
    <2>1. /\ n \in Nat /\ Len(inbox') = n + 1
          /\ \A i \in 1..Len(inbox') : i \in 1..n \/ i = n + 1
          /\ \A i \in 1..n : OlderInbox'[i] = OlderInbox[i] /\ LatestInbox'[i] = LatestInbox[i]
          /\ OlderInbox'[n + 1] = OlderReader /\ LatestInbox'[n + 1] = {}
        BY <1>5, ResponseMoves, InboxGrows
    <2> HIDE DEF n
    <2>2. n = Len(inbox)
        BY DEF n
    <2>3. OlderOrder'
        BY <1>1, <1>2, <1>4, <2>1, <2>2 DEF OlderOrder, Above
    <2>4. LatestOrder'
        BY <1>1, <1>2, <1>4, <2>1, <2>2 DEF LatestOrder, AtEnd, NotBelow
    <2>5. OlderBounds' /\ LatestBounds'
        BY <1>1, <1>2, <1>4, <2>1, <2>2 DEF OlderBounds, LatestBounds, Between, Since
    <2> QED
        BY <2>3, <2>4, <2>5
<1>6. CASE connection # "open"
    <2>1. inbox' = inbox /\ OlderInbox' = OlderInbox /\ LatestInbox' = LatestInbox
        BY <1>6 DEF WritesResponse, Writes, OlderInbox, LatestInbox
    <2> QED
        BY <1>1, <1>2, <1>4, <2>1 DEF OlderOrder, LatestOrder, OlderBounds, LatestBounds, AtEnd, Between, Since, Above
<1> QED
    BY <1>5, <1>6

\* The producer reads the last sample there is.
LEMMA OrderQueriesLast ==
    ASSUME LiveInv, AnswersInv, OrderInv, QueriesLast
    PROVE  OrderInv'
<1>1. /\ carried'.request = carried.request /\ carried'.response = carried.response
      /\ carried'.writer = carried.writer /\ carried'.producer = Points(now - 1, now)
      /\ UNCHANGED <<now, livePage, asked, inbox, late, replaced>>
    BY DEF QueriesLast, LiveInv, PageTypeOK, Carried
<1>2. UNCHANGED <<Data, OlderLast, OlderInbox, OlderReader, OlderAsked, LatestLast, LatestInbox, LatestWriter, DataStart>>
    BY <1>1 DEF Data, OlderLast, OlderInbox, OlderReader, OlderAsked, LatestLast, LatestInbox, LatestWriter, DataStart
<1>3. now \in Nat /\ \A p \in LatestProducer' : p = now - 1
    <2>1. now \in Time /\ now \in Nat
        BY LivePageAssumption DEF LiveInv, PageTypeOK, Time
    <2>2. Points(now - 1, now) # Null /\ \A p \in ToSet(Points(now - 1, now)) : p = now - 1
        BY <2>1, LastPoint, NullFresh
    <2> QED
        BY <1>1, <2>1, <2>2 DEF LatestProducer, PointsOf
<1>4. SUFFICES ASSUME livePage.data # Null, ~late
               PROVE  (OlderOrder /\ OlderBounds /\ LatestOrder /\ LatestBounds)'
    BY <1>1 DEF OrderInv
<1>5. /\ OlderOrder /\ OlderBounds /\ LatestOrder /\ LatestBounds
      /\ livePage.StopTime \in Time /\ livePage.StopTime <= now
    BY <1>4 DEF OrderInv, AnswersInv
<1>9. \A p \in LatestProducer' : DataStart <= p
    <2>1. /\ replaced.opened \in Nat /\ livePage.StopTime \in Nat /\ replaced.opened <= livePage.StopTime
          /\ Hour \in Nat \ {0}
        BY <1>4, LivePageAssumption DEF AnswersInv, Time
    <2>2. \A p \in LatestProducer' : p \in Nat \ {0}
        <3>1. now \in Time /\ Points(now - 1, now) \in Seq(Time)
            BY LastPoint DEF LiveInv, PageTypeOK
        <3> QED
            BY <1>1, <3>1, NullFresh, LivePageAssumption DEF LatestProducer, PointsOf, ToSet, Time
    <2> QED
        BY <1>3, <1>5, <2>1, <2>2 DEF DataStart, StartTime
<1>6. OlderOrder' /\ OlderBounds'
    BY <1>1, <1>2, <1>5 DEF OlderOrder, OlderBounds, Between
<1>7. LatestOrder'
    BY <1>1, <1>2, <1>3, <1>5, SegmentsAreTimes DEF LatestOrder, LatestBounds, AtEnd, Since, NotBelow
<1>8. LatestBounds'
    BY <1>1, <1>2, <1>3, <1>5, <1>9, SegmentsAreTimes DEF LatestBounds, Since
<1> QED
    BY <1>6, <1>7, <1>8

\* A live point goes from the producer to the writer.
LEMMA OrderHandsOver ==
    ASSUME LiveInv, OrderInv, HandsOver
    PROVE  OrderInv'
<1>1. /\ carried'.request = carried.request /\ carried'.response = carried.response
      /\ carried'.writer = carried.producer /\ carried'.producer = Null
      /\ UNCHANGED <<now, livePage, asked, inbox, late, replaced>>
    BY DEF HandsOver, LiveInv, PageTypeOK, Carried
<1>2. /\ UNCHANGED <<Data, OlderLast, OlderInbox, OlderReader, OlderAsked, LatestLast, LatestInbox, DataStart>>
      /\ LatestWriter' = LatestProducer /\ LatestProducer' = {}
    BY <1>1 DEF Data, OlderLast, OlderInbox, OlderReader, OlderAsked, LatestLast, LatestInbox, LatestWriter,
                DataStart, LatestProducer, PointsOf
<1>3. SUFFICES ASSUME livePage.data # Null, ~late
               PROVE  (OlderOrder /\ OlderBounds /\ LatestOrder /\ LatestBounds)'
    BY <1>1 DEF OrderInv
<1>4. OlderOrder /\ OlderBounds /\ LatestOrder /\ LatestBounds
    BY <1>3 DEF OrderInv
<1>5. OlderOrder' /\ OlderBounds'
    BY <1>1, <1>2, <1>4 DEF OlderOrder, OlderBounds, Between
<1>6. LatestOrder' /\ LatestBounds'
    BY <1>1, <1>2, <1>4 DEF LatestOrder, LatestBounds, AtEnd, Since, NotBelow
<1> QED
    BY <1>5, <1>6

\* A live point written goes from the writer to the end of the inbox.
LEMMA OrderWritesLatest ==
    ASSUME LiveInv, OrderInv, WritesLatest
    PROVE  OrderInv'
<1>1. /\ carried'.request = carried.request /\ carried'.response = carried.response
      /\ carried'.writer = Null /\ carried'.producer = carried.producer
      /\ UNCHANGED <<now, livePage, asked, late, replaced>>
    BY DEF WritesLatest, LiveInv, PageTypeOK, Carried
<1>2. /\ UNCHANGED <<Data, OlderLast, OlderReader, OlderAsked, LatestLast, LatestProducer, DataStart>>
      /\ LatestWriter' = {}
    BY <1>1 DEF Data, OlderLast, OlderReader, OlderAsked, LatestLast, LatestProducer, DataStart,
                LatestWriter, PointsOf
<1>3. SUFFICES ASSUME livePage.data # Null, ~late
               PROVE  (OlderOrder /\ OlderBounds /\ LatestOrder /\ LatestBounds)'
    BY <1>1 DEF OrderInv
<1>4. OlderOrder /\ OlderBounds /\ LatestOrder /\ LatestBounds
    BY <1>3 DEF OrderInv
<1>5. CASE connection = "open"
    <2> DEFINE n == Len(inbox)
               m == [Type |-> "LatestMetrics", MetricData |-> carried.writer]
    <2>1. m \in Message /\ m # Null
        BY NullFresh DEF LiveInv, PageTypeOK, Carried, Message
    <2>2. OlderIn(m) = {} /\ LatestIn(m) = LatestWriter
        BY <2>1 DEF OlderIn, LatestIn, LatestWriter
    <2>3. inbox' = Append(inbox, m)
        BY <1>5 DEF WritesLatest, Writes
    <2> HIDE DEF m
    <2>4. /\ n \in Nat /\ Len(inbox') = n + 1
          /\ \A i \in 1..Len(inbox') : i \in 1..n \/ i = n + 1
          /\ \A i \in 1..n : OlderInbox'[i] = OlderInbox[i] /\ LatestInbox'[i] = LatestInbox[i]
          /\ OlderInbox'[n + 1] = {} /\ LatestInbox'[n + 1] = LatestWriter
        BY <2>1, <2>2, <2>3, InboxGrows
    <2> HIDE DEF n
    <2>5. n = Len(inbox)
        BY DEF n
    <2>6. OlderOrder'
        BY <1>1, <1>2, <1>4, <2>4, <2>5 DEF OlderOrder, Above
    <2>7. LatestOrder'
        BY <1>1, <1>2, <1>4, <2>4, <2>5 DEF LatestOrder, AtEnd, NotBelow
    <2>8. OlderBounds' /\ LatestBounds'
        BY <1>1, <1>2, <1>4, <2>4, <2>5 DEF OlderBounds, LatestBounds, Between, Since
    <2> QED
        BY <2>6, <2>7, <2>8
<1>6. CASE connection # "open"
    <2>1. inbox' = inbox /\ OlderInbox' = OlderInbox /\ LatestInbox' = LatestInbox
        BY <1>6 DEF WritesLatest, Writes, OlderInbox, LatestInbox
    <2> QED
        BY <1>1, <1>2, <1>4, <2>1 DEF OlderOrder, LatestOrder, OlderBounds, LatestBounds, AtEnd, Between, Since, NotBelow
<1> QED
    BY <1>5, <1>6

---------------------------------------------------------------------------
(* The effects *)

\* The page breaks and loses what was on its way, or shows the message in addition.
LEMMA EffectsMerge ==
    ASSUME LiveInv, StagesInv, MessagesInv, RunLiveEffects
    PROVE  /\ livePage.data # Null /\ livePage'.data # Null
           /\ livePage'.lastMessage = Null /\ OlderLast' = {} /\ LatestLast' = {}
           /\ livePage'.StopTime = livePage.StopTime /\ UNCHANGED <<now, carried, replaced, DataStart>>
           /\ \/ /\ broken' /\ livePage'.ws = "closed" /\ livePage'.data = livePage.data
                 /\ inbox' = <<>> /\ asked' = <<>>
              \/ /\ ~broken' /\ ~Lost(livePage.lastMessage) /\ inbox' = inbox
                 /\ Data' = Data \cup OlderLast \cup LatestLast
                 /\ OlderLast = {} \/ LatestLast = {}
                 /\ LatestLast # {} => Data # {}
<1> DEFINE fails == "message" \in livePage.due /\ Throws(livePage.data, livePage.lastMessage)
           m == livePage.lastMessage
           d == livePage.data
<1>1. livePage \in LivePageState
    BY DEF LiveInv, PageTypeOK
<1>2. d \in Seq(Time) /\ d # Null
    BY <1>1 DEF RunLiveEffects, StagesInv, LivePageState
<1>3. /\ livePage'.data = IF "message" \in livePage.due /\ ~fails THEN WithMessage(d, m) ELSE d
      /\ livePage'.lastMessage = Null /\ livePage'.StopTime = livePage.StopTime
      /\ fails => livePage'.ws = "closed" /\ inbox' = <<>> /\ asked' = <<>>
      /\ ~fails => inbox' = inbox
      /\ broken' = fails /\ UNCHANGED <<now, carried, replaced>>
    BY <1>1 DEF RunLiveEffects, LivePageState
<1>4. OlderLast' = {} /\ LatestLast' = {} /\ UNCHANGED DataStart
    BY <1>3 DEF OlderLast, LatestLast, OlderIn, LatestIn, DataStart
<1>5. CASE fails
    BY <1>2, <1>3, <1>4, <1>5
<1>6. CASE ~fails /\ "message" \notin livePage.due
    <2>1. m = Null
        BY <1>6 DEF LiveInv, PageTypeOK
    <2> QED
        BY <1>2, <1>3, <1>4, <1>6, <2>1 DEF OlderLast, LatestLast, OlderIn, LatestIn, Lost, Data
<1>7. CASE ~fails /\ "message" \in livePage.due
    <2>1. m \in Message /\ m # Null
        BY <1>1, <1>7 DEF LiveInv, PageTypeOK, LivePageState
    <2>2. m.MetricData \in Seq(Time) /\ m.MetricData # Null
        BY <1>7, <2>1 DEF Throws, Message
    <2>3. livePage'.data = WithMessage(d, m) /\ WithMessage(d, m) \in Seq(Time)
        BY <1>2, <1>3, <1>7, <2>1, MergedAreSamples
    <2>4. livePage'.data # Null /\ Data' = ToSet(WithMessage(d, m)) /\ Data = ToSet(d)
        BY <1>2, <2>3, NullFresh DEF Data, PointsOf
    <2>5. ~Lost(m)
        BY <2>2 DEF Lost
    <2>6. CASE m.Type = "LoadMetricsResponse"
        <3>1. OlderLast = ToSet(m.MetricData) /\ LatestLast = {}
            BY <2>1, <2>2, <2>6 DEF OlderLast, OlderIn, LatestLast, LatestIn, PointsOf
        <3>2. ToSet(WithMessage(d, m)) = ToSet(m.MetricData) \cup ToSet(d)
            BY <1>2, <2>2, <2>6, PointsOfConcat DEF WithMessage
        <3> QED
            BY <1>2, <1>3, <1>4, <1>7, <2>4, <2>5, <3>1, <3>2
    <2>7. CASE m.Type # "LoadMetricsResponse"
        <3>1. m.Type = "LatestMetrics"
            BY <2>1, <2>7 DEF Message
        <3>2. LatestLast = ToSet(m.MetricData) /\ OlderLast = {}
            BY <2>1, <2>2, <3>1 DEF OlderLast, OlderIn, LatestLast, LatestIn, PointsOf
        <3>3. ToSet(WithMessage(d, m)) = ToSet(d) \cup ToSet(m.MetricData)
            BY <1>2, <2>2, <2>7, PointsOfConcat DEF WithMessage
        <3>4. CASE m.MetricData = <<>>
            <4>1. ToSet(m.MetricData) = {}
                BY <3>4 DEF ToSet
            <4> QED
                BY <1>2, <1>3, <1>4, <1>7, <2>4, <2>5, <3>2, <3>3, <4>1
        <3>5. CASE m.MetricData # <<>>
            <4>1. Len(d) \in Nat \ {0}
                BY <1>2, <1>7, <3>1, <3>5 DEF Throws
            <4>2. d[1] \in ToSet(d)
                BY <1>2, <4>1 DEF ToSet
            <4> QED
                BY <1>2, <1>3, <1>4, <1>7, <2>4, <2>5, <3>2, <3>3, <4>2
        <3> QED
            BY <3>4, <3>5
    <2> QED
        BY <2>6, <2>7
<1> QED
    BY <1>5, <1>6, <1>7

\* There are two answers of GetJob, the second not older than the first.
LEMMA AnswersStep ==
    ASSUME LiveInv, AnswersInv, StagesInv, MessagesInv, LivePageNext
    PROVE  AnswersInv'
<1>0. livePage \in LivePageState /\ fetch \in Fetch /\ replaced \in Replaced /\ now \in Time /\ now \in Nat
    BY LivePageAssumption DEF LiveInv, PageTypeOK, Time
<1>1. CASE GetJob
    BY <1>0, <1>1 DEF GetJob, AnswersInv, Fetching
<1>2. CASE GetJobAnswered
    <2>1. /\ livePage'.data = fetch.answer.MetricData /\ livePage'.StopTime = fetch.answer.StopTime
          /\ livePage'.data # Null /\ livePage'.ws = livePage.ws
          /\ livePage'.StopTime \in Time /\ livePage'.StopTime \in Nat /\ livePage'.StopTime <= now
          /\ now' = now /\ fetch'.answer = Null /\ fetch.answer # Null
        BY <1>0, <1>2, AnswerFits DEF GetJobAnswered, LivePageState, Fetch
    <2>2. ~fetch.asked /\ fetch'.asked = fetch.asked
        BY <1>0, <1>2, <2>1 DEF GetJobAnswered, AnswersInv, Fetch
    <2>3. ~Fetching'
        BY <2>1, <2>2 DEF Fetching
    <2>4. CASE livePage.data = Null
        <3>1. livePage.ws = "none"
            BY <2>4 DEF StagesInv
        <3>2. /\ replaced'.opened = fetch.answer.StopTime
              /\ replaced'.lost = replaced.lost /\ replaced'.overtook = replaced.overtook
            BY <1>0, <1>2, <2>4 DEF GetJobAnswered, Replaced
        <3>3. replaced.lost = {} /\ ~replaced.overtook /\ fetch.answer.StopTime # Null
            BY <2>1, <3>1, NullFresh DEF AnswersInv
        <3> QED
            BY <2>1, <2>3, <3>2, <3>3 DEF AnswersInv
    <2>5. CASE livePage.data # Null
        <3>1. replaced'.opened = replaced.opened
            BY <1>0, <1>2, <2>5 DEF GetJobAnswered, Replaced
        <3>2. livePage.ws # "none"
            BY <2>1, <2>5 DEF AnswersInv, Fetching
        <3>3. /\ replaced.opened \in Time /\ livePage.StopTime \in Time /\ Time \subseteq Nat
              /\ replaced.opened <= livePage.StopTime /\ livePage.StopTime <= fetch.answer.StopTime
            BY <2>1, <2>5, LivePageAssumption DEF AnswersInv, Time
        <3>4. replaced.opened <= fetch.answer.StopTime /\ replaced.opened # Null
            <4>1. replaced.opened \in Nat /\ livePage.StopTime \in Nat /\ replaced.opened # Null
                BY <3>3, NullFresh
            <4>2. fetch.answer.StopTime \in Nat
                BY <2>1
            <4> QED
                BY <3>3, <4>1, <4>2
        <3> QED
            BY <2>1, <2>3, <3>1, <3>2, <3>3, <3>4 DEF AnswersInv
    <2> QED
        BY <2>4, <2>5
<1>3. CASE RunLiveEffects
    <2>1. /\ livePage.data # Null /\ livePage'.data # Null /\ livePage'.StopTime = livePage.StopTime
          /\ UNCHANGED <<now, replaced>>
        BY <1>3, EffectsMerge
    <2>2. livePage'.ws # "none"
        BY <1>0, <1>3, <2>1 DEF RunLiveEffects, LivePageState, StagesInv
    <2>3. fetch'.answer = fetch.answer /\ fetch'.asked = (fetch.asked \/ "answer" \in livePage.due)
        BY <1>0, <1>3 DEF RunLiveEffects, Fetch
    <2>4. CASE "answer" \in livePage.due
        <3>1. livePage.ws = "none"
            BY <2>4 DEF StagesInv
        <3> QED
            BY <2>1, <2>2, <2>3, <3>1 DEF AnswersInv, Fetching
    <2>5. CASE "answer" \notin livePage.due
        BY <2>1, <2>2, <2>3, <2>5 DEF AnswersInv, Fetching
    <2> QED
        BY <2>4, <2>5
<1>4. ASSUME UNCHANGED <<fetch, replaced>>, now' \in {now, now + 1}, livePage'.data = livePage.data,
             livePage'.StopTime = livePage.StopTime, livePage'.ws = "none" <=> livePage.ws = "none"
      PROVE  AnswersInv'
    <2>1. now <= now' /\ \A t \in Time : t <= now => t <= now'
        BY <1>0, <1>4, LivePageAssumption DEF Time
    <2>2. fetch.answer # Null => fetch.answer.StopTime \in Time
        BY AnswerFits
    <2> QED
        BY <1>4, <2>1, <2>2 DEF AnswersInv, Fetching
<1>5. CASE WebSocketOpens \/ OnMessage \/ Advance \/ Disconnects \/ \E t : SetStartTime(t)
    BY <1>0, <1>4, <1>5 DEF WebSocketOpens, OnMessage, Advance, Disconnects, SetStartTime, LivePageState
<1>6. CASE Connects \/ ReceivesLoadMetrics \/ Loads \/ WritesResponse \/ QueriesLast \/ HandsOver
             \/ WritesLatest \/ OtherSteps
    BY <1>4, <1>6 DEF Connects, ReceivesLoadMetrics, Loads, WritesResponse, QueriesLast, HandsOver, WritesLatest,
                      OtherSteps, pageVars
<1> QED
    BY <1>1, <1>2, <1>3, <1>5, <1>6 DEF LivePageNext, PageNext, LiveNext, ResetTimeRange

\* The window goes to where the range starts, and what is asked for lies in between.
LEMMA EffectsMoveWindow ==
    ASSUME LiveInv, AnswersInv, StagesInv, OlderBounds, RunLiveEffects, ~late'
    PROVE  /\ ~late
           /\ \/ livePage'.curLiveWindowStart <= DataStart /\ livePage'.curLiveWindowStart \in Time
              \/ livePage'.curLiveWindowStart = Infinity
           /\ livePage'.curLiveWindowStart <= livePage.curLiveWindowStart
           /\ livePage.curLiveWindowStart # Infinity => livePage.curLiveWindowStart <= DataStart
           /\ ~broken' /\ asked' # asked =>
                /\ asked' = Append(asked, WSLoadMetricsMsg(livePage))
                /\ WSLoadMetricsMsg(livePage) \in LiveRequest
                /\ \A p \in AskedFor(WSLoadMetricsMsg(livePage)) :
                      /\ livePage'.curLiveWindowStart <= p /\ p < livePage.curLiveWindowStart
                      /\ livePage.curLiveWindowStart # Infinity
<1> DEFINE w == livePage.curLiveWindowStart
           t == livePage.timeStart
           moves == "window" \in livePage.due /\ MovesWindow(livePage)
           asks == "window" \in livePage.due /\ AsksOlder(livePage)
<1>1. livePage \in LivePageState /\ MaxNow \in Nat /\ DataStart \in Nat
    <2>1. livePage.data # Null /\ replaced.opened \in Time /\ Hour \in Nat
        BY LivePageAssumption DEF RunLiveEffects, StagesInv, AnswersInv
    <2> QED
        BY <2>1, LivePageAssumption DEF DataStart, StartTime, Time, LiveInv, PageTypeOK
<1>2. w \in 1..Infinity /\ (t # Null => t \in Time)
    BY <1>1 DEF LivePageState
<1>3. ~late
    BY DEF RunLiveEffects
<1>4. livePage'.curLiveWindowStart = IF moves THEN t ELSE w
    BY <1>1 DEF RunLiveEffects, LivePageState
<1>5. w # Infinity => w <= DataStart
    BY DEF OlderBounds
<1>7. moves => /\ t \in Time /\ t <= w
               /\ t <= DataStart
    <2>1. SUFFICES ASSUME moves PROVE t \in Time /\ t <= w /\ t <= DataStart
        OBVIOUS
    <2>2. t \in Time
        BY <1>2, <2>1 DEF MovesWindow
    <2>3. CASE w = Infinity
        <3>1. livePage.ws # "none"
            BY <2>1 DEF StagesInv, RunLiveEffects
        <3>2. t = DataStart
            BY <1>3, <2>3, <3>1 DEF StagesInv
        <3> QED
            BY <1>1, <2>2, <2>3, <3>2 DEF Time, Infinity
    <2>4. CASE w # Infinity
        BY <1>1, <1>2, <1>5, <2>1, <2>2, <2>4 DEF MovesWindow, AsksOlder, Time, Infinity
    <2> QED
        BY <2>2, <2>3, <2>4
<1>8. w # Infinity => w \in Time
    BY <1>1, <1>2 DEF Time, Infinity
<1>9. ASSUME ~broken', asked' # asked
      PROVE  /\ asked' = Append(asked, WSLoadMetricsMsg(livePage)) /\ asks /\ moves
             /\ WSLoadMetricsMsg(livePage) \in LiveRequest
    <2>1. asked' = Append(asked, WSLoadMetricsMsg(livePage)) /\ asks
        BY <1>9 DEF RunLiveEffects
    <2>2. moves
        BY <2>1 DEF MovesWindow, AsksOlder
    <2> QED
        BY <1>2, <1>8, <2>1, <2>2 DEF AsksOlder, WSLoadMetricsMsg, LiveRequest
<1>10. ASSUME ~broken', asked' # asked, NEW p \in AskedFor(WSLoadMetricsMsg(livePage))
       PROVE  t <= p /\ p < w /\ w # Infinity
    BY <1>2, <1>7, <1>8, <1>9, <1>10 DEF AskedFor, WSLoadMetricsMsg, Time, Infinity
<1> QED
    BY <1>1, <1>2, <1>3, <1>4, <1>5, <1>7, <1>8, <1>9, <1>10 DEF Infinity

\* The requests after the effects: those before, and the new one.
LEMMA AskedGrows ==
    ASSUME LiveInv, NEW r \in LiveRequest, asked' = Append(asked, r)
    PROVE  /\ Len(asked) \in Nat /\ Len(asked') = Len(asked) + 1
           /\ \A k \in 1..Len(asked') : k \in 1..Len(asked) \/ k = Len(asked) + 1
           /\ \A k \in 1..Len(asked) : asked'[k] = asked[k] /\ OlderAsked'[k] = OlderAsked[k]
           /\ asked'[Len(asked) + 1] = r
           /\ OlderAsked'[Len(asked) + 1] = AskedFor(r)
<1>1. /\ Len(asked) \in Nat /\ Len(asked') = Len(asked) + 1
      /\ \A k \in 1..Len(asked) : asked'[k] = asked[k]
      /\ asked'[Len(asked) + 1] = r
    BY Enqueued DEF LiveInv, PageTypeOK
<1>2. /\ \A k \in 1..Len(asked') : k \in 1..Len(asked) \/ k = Len(asked) + 1
      /\ \A k \in 1..Len(asked) : k \in 1..Len(asked')
      /\ Len(asked) + 1 \in 1..Len(asked')
    BY <1>1
<1> QED
    BY <1>1, <1>2 DEF OlderAsked

\* A page that breaks keeps what it shows, in order.
LEMMA OrderBreaks ==
    ASSUME LiveInv, AnswersInv, StagesInv, MessagesInv, OrderInv, RunLiveEffects, broken'
    PROVE  OrderInv'
<1>1. /\ livePage.data # Null /\ livePage'.data = livePage.data
      /\ livePage'.lastMessage = Null /\ OlderLast' = {} /\ LatestLast' = {}
      /\ livePage'.StopTime = livePage.StopTime /\ UNCHANGED <<now, carried, replaced, DataStart>>
      /\ inbox' = <<>> /\ asked' = <<>>
    BY EffectsMerge
<1>2. SUFFICES ASSUME ~late'
               PROVE  (OlderOrder /\ OlderBounds /\ LatestOrder /\ LatestBounds)'
    BY DEF OrderInv
<1>3. ~late
    BY <1>2 DEF RunLiveEffects
<1>4. OlderOrder /\ OlderBounds /\ LatestOrder /\ LatestBounds
    BY <1>1, <1>3 DEF OrderInv
<1>5. Len(asked') = 0 /\ Len(inbox') = 0
    BY <1>1
<1>6. UNCHANGED <<Data, OlderReader, LatestWriter, LatestProducer>>
    BY <1>1 DEF Data, OlderReader, LatestWriter, LatestProducer
<1>7. /\ livePage'.curLiveWindowStart <= livePage.curLiveWindowStart
      /\ livePage'.curLiveWindowStart <= DataStart \/ livePage'.curLiveWindowStart = Infinity
      /\ livePage.curLiveWindowStart \in Int /\ livePage'.curLiveWindowStart \in Int
    <2>1. livePage.curLiveWindowStart \in Int /\ Infinity \in Int /\ Time \subseteq Int
        BY NullFresh, LivePageAssumption DEF LiveInv, PageTypeOK, LivePageState, Time
    <2> QED
        BY <1>2, <1>4, <2>1, EffectsMoveWindow
<1>8. OlderOrder' /\ LatestOrder'
    BY <1>1, <1>4, <1>5, <1>6 DEF OlderOrder, LatestOrder, AtEnd, Above, NotBelow
<1>9. \A p \in Data \cup OlderReader : p \in Int
    <2>1. carried.request # Null => carried.request \in LiveRequest
        BY DEF LiveInv, PageTypeOK, Carried
    <2>2. PointsOf(carried.response) \subseteq Time
        BY DEF LiveInv, PageTypeOK, Carried, PointsOf, ToSet
    <2>3. \A r \in LiveRequest : AskedFor(r) \subseteq Int
        BY DEF AskedFor
    <2> QED
        BY <2>1, <2>2, <2>3, SegmentsAreTimes DEF OlderReader
<1>10. OlderBounds'
    BY <1>1, <1>4, <1>5, <1>6, <1>7, <1>9 DEF OlderBounds, Between
<1>11. LatestBounds'
    BY <1>1, <1>4, <1>5, <1>6 DEF LatestBounds, Since
<1> QED
    BY <1>8, <1>10, <1>11

\* Otherwise the message lies between what is shown and what is still to come.
LEMMA OrderMerges ==
    ASSUME LiveInv, AnswersInv, StagesInv, MessagesInv, OrderInv, RunLiveEffects, ~broken'
    PROVE  OrderInv'
<1>1. /\ livePage.data # Null
      /\ livePage'.lastMessage = Null /\ OlderLast' = {} /\ LatestLast' = {}
      /\ livePage'.StopTime = livePage.StopTime /\ UNCHANGED <<now, carried, replaced, DataStart>>
      /\ inbox' = inbox
      /\ Data' = Data \cup OlderLast \cup LatestLast
      /\ OlderLast = {} \/ LatestLast = {}
      /\ LatestLast # {} => Data # {}
    BY EffectsMerge
<1>2. SUFFICES ASSUME ~late'
               PROVE  (OlderOrder /\ OlderBounds /\ LatestOrder /\ LatestBounds)'
    BY DEF OrderInv
<1>3. ~late
    BY <1>2 DEF RunLiveEffects
<1>4. OlderOrder /\ OlderBounds /\ LatestOrder /\ LatestBounds
    BY <1>1, <1>3 DEF OrderInv
<1>5. UNCHANGED <<OlderReader, LatestWriter, LatestProducer, OlderInbox, LatestInbox>>
    BY <1>1 DEF OlderReader, LatestWriter, LatestProducer, OlderInbox, LatestInbox
<1> DEFINE w == livePage.curLiveWindowStart
           wNew == livePage'.curLiveWindowStart
<1>6. /\ wNew <= w /\ w \in Int /\ wNew \in Int /\ DataStart \in Int /\ now \in Int
      /\ DataStart <= now
      /\ wNew <= DataStart \/ wNew = Infinity
      /\ w # Infinity => w <= DataStart
    <2>0. Infinity \in Int /\ MaxNow \in Nat /\ Hour \in Nat \ {0}
        BY NullFresh, LivePageAssumption
    <2>1. w \in 1..Infinity /\ livePage.StopTime \in Time /\ replaced.opened \in Time /\ now \in Time
          /\ replaced.opened <= livePage.StopTime /\ livePage.StopTime <= now
        BY <1>1 DEF LiveInv, PageTypeOK, LivePageState, AnswersInv
    <2>2. w \in Int /\ livePage.StopTime \in Nat /\ replaced.opened \in Nat /\ now \in Nat \ {0}
        BY <2>0, <2>1 DEF Time
    <2>3. DataStart \in Int /\ DataStart <= now
        BY <2>0, <2>1, <2>2 DEF DataStart, StartTime
    <2>4. /\ wNew <= w /\ ((wNew \in Time /\ wNew <= DataStart) \/ wNew = Infinity)
          /\ w # Infinity => w <= DataStart
        BY <1>2, <1>4, EffectsMoveWindow
    <2>5. wNew \in Int
        BY <2>0, <2>4 DEF Time
    <2> QED
        BY <2>2, <2>3, <2>4, <2>5
\* A live point is later than all metrics that are asked for.
<1>7. ASSUME NEW S, Above(Data, S), Above(OlderLast, S), \A p \in S : p \in Int /\ p < DataStart
      PROVE  Above(Data', S)
    <2>1. ASSUME NEW a \in LatestLast, NEW b \in S
          PROVE  b < a
        <3>1. b < DataStart /\ DataStart <= a /\ b \in Int /\ a \in Int
            BY <1>4, <1>7, <2>1, SegmentsAreNumbers DEF LatestBounds, Since
        <3> QED
            BY <1>6, <3>1
    <2> QED
        BY <1>1, <1>7, <2>1 DEF Above
\* Older metrics end where the first answer of GetJob starts.
<1>8. ASSUME NEW S, AtEnd(S), NotBelow(S, LatestLast), Since(S), \A p \in S : p \in Int
      PROVE  ~replaced.overtook => NotBelow(S, Data')
    <2>1. ASSUME NEW a \in S, NEW b \in OlderLast
          PROVE  a >= b
        <3>1. a \in Int /\ b \in Int /\ DataStart <= a /\ b < DataStart
            BY <1>4, <1>8, <2>1, SegmentsAreNumbers DEF Since, OlderBounds, Between
        <3> QED
            BY <1>6, <3>1
    <2> QED
        BY <1>1, <1>8, <2>1 DEF AtEnd, NotBelow
<1>9. LatestOrder'
    <2>1. /\ ~replaced.overtook => NotBelow(LatestWriter, Data') /\ NotBelow(LatestProducer, Data')
          /\ \A i \in 1..Len(inbox) : ~replaced.overtook => NotBelow(LatestInbox[i], Data')
        BY <1>4, <1>8, SegmentsAreNumbers DEF LatestOrder, LatestBounds
    <2>2. \A S : NotBelow({}, S) /\ NotBelow(S, {})
        BY DEF NotBelow
    <2> QED
        BY <1>1, <1>4, <1>5, <2>1, <2>2 DEF LatestOrder, AtEnd
<1>10. LatestBounds'
    <2>1. \A p \in Data' : p < now
        <3>1. \A p \in OlderLast : p < now
            BY <1>1, <1>4, <1>6, SegmentsAreNumbers DEF OlderBounds, Between
        <3> QED
            BY <1>1, <1>4, <3>1 DEF LatestBounds, Since
    <2> QED
        BY <1>1, <1>4, <1>5, <2>1 DEF LatestBounds, Since
<1>11. \A p \in Data' : wNew <= p \/ DataStart <= p
    <2>1. ASSUME NEW p \in Data
          PROVE  wNew <= p \/ DataStart <= p
        <3>1. p \in Int /\ (w <= p \/ DataStart <= p)
            BY <1>4, <2>1, SegmentsAreNumbers DEF OlderBounds
        <3> QED
            BY <1>6, <3>1
    <2>2. ASSUME NEW p \in OlderLast
          PROVE  wNew <= p
        <3>1. p \in Int /\ w <= p
            BY <1>4, <2>2, SegmentsAreNumbers DEF OlderBounds, Between
        <3> QED
            BY <1>6, <3>1
    <2>3. ASSUME NEW p \in LatestLast
          PROVE  DataStart <= p
        BY <1>4, <2>3 DEF LatestBounds, Since
    <2> QED
        BY <1>1, <2>1, <2>2, <2>3
<1> HIDE DEF w, wNew
<1>12. ASSUME NEW S, Between(S), \A p \in S : p \in Int
       PROVE  \A p \in S : wNew <= p /\ p < DataStart
    BY <1>6, <1>12 DEF Between, w
<1>13. CASE asked' = asked
    <2>1. OlderAsked' = OlderAsked
        BY <1>13 DEF OlderAsked
    <2>2. /\ Above(Data', OlderReader) /\ \A i \in 1..Len(inbox) : Above(Data', OlderInbox[i])
          /\ \A k \in 1..Len(asked) : Above(Data', OlderAsked[k])
        BY <1>4, <1>7, SegmentsAreNumbers DEF OlderOrder, OlderBounds, Between
    <2>3. \A S : Above({}, S) /\ Above(S, {})
        BY DEF Above
    <2>4. OlderOrder'
        BY <1>1, <1>4, <1>5, <1>13, <2>1, <2>2, <2>3 DEF OlderOrder
    <2>5. /\ \A p \in OlderReader : wNew <= p /\ p < DataStart
          /\ \A i \in 1..Len(inbox) : \A p \in OlderInbox[i] : wNew <= p /\ p < DataStart
          /\ \A k \in 1..Len(asked) : \A p \in OlderAsked[k] : wNew <= p /\ p < DataStart
        BY <1>4, <1>12, SegmentsAreNumbers DEF OlderBounds
    <2>6. OlderBounds'
        BY <1>1, <1>5, <1>6, <1>11, <1>13, <2>1, <2>5 DEF OlderBounds, Between, wNew
    <2> QED
        BY <1>9, <1>10, <2>4, <2>6
<1>14. CASE asked' # asked
    <2> DEFINE r == WSLoadMetricsMsg(livePage)
               n == Len(asked)
    <2>1. /\ asked' = Append(asked, r) /\ r \in LiveRequest
          /\ \A p \in AskedFor(r) : wNew <= p /\ p < w /\ w # Infinity
        BY <1>2, <1>4, <1>14, EffectsMoveWindow DEF w, wNew
    <2> HIDE DEF r
    <2>2. /\ n \in Nat /\ Len(asked') = n + 1
          /\ \A k \in 1..Len(asked') : k \in 1..n \/ k = n + 1
          /\ \A k \in 1..n : OlderAsked'[k] = OlderAsked[k]
          /\ OlderAsked'[n + 1] = AskedFor(r)
        BY <2>1, AskedGrows
    <2> HIDE DEF n
    <2>3. n = Len(asked) /\ \A p \in AskedFor(r) : p \in Int
        BY DEF n, AskedFor
    <2>4. ASSUME NEW S, \A p \in S : p \in Int /\ w <= p
          PROVE  Above(S, AskedFor(r))
        BY <1>6, <2>1, <2>3, <2>4 DEF Above
    <2>5. /\ Above(Data, AskedFor(r)) /\ Above(OlderLast, AskedFor(r)) /\ Above(OlderReader, AskedFor(r))
          /\ \A i \in 1..Len(inbox) : Above(OlderInbox[i], AskedFor(r))
          /\ \A k \in 1..n : Above(OlderAsked[k], AskedFor(r))
        <3>1. /\ \A p \in OlderLast \cup OlderReader : w <= p
              /\ \A i \in 1..Len(inbox) : \A p \in OlderInbox[i] : w <= p
              /\ \A k \in 1..n : \A p \in OlderAsked[k] : w <= p
            BY <1>4, <2>3 DEF OlderBounds, Between, w
        <3>2. w # Infinity => \A p \in Data : w <= p
            BY <1>4, <1>6, SegmentsAreNumbers DEF OlderBounds, w
        <3>3. w = Infinity => AskedFor(r) = {}
            BY <2>1
        <3>4. Above(Data, AskedFor(r))
            <4>1. CASE w = Infinity
                BY <3>3, <4>1 DEF Above
            <4>2. CASE w # Infinity
                BY <2>4, <3>2, <4>2, SegmentsAreNumbers
            <4> QED
                BY <4>1, <4>2
        <3>5. Above(OlderLast, AskedFor(r)) /\ Above(OlderReader, AskedFor(r))
            BY <2>4, <3>1, SegmentsAreNumbers
        <3>6. \A i \in 1..Len(inbox) : Above(OlderInbox[i], AskedFor(r))
            BY <2>4, <3>1, SegmentsAreNumbers
        <3>7. \A k \in 1..n : Above(OlderAsked[k], AskedFor(r))
            BY <2>3, <2>4, <3>1, SegmentsAreNumbers
        <3> QED
            BY <3>4, <3>5, <3>6, <3>7
    <2>6. /\ Above(Data', OlderReader) /\ \A i \in 1..Len(inbox) : Above(Data', OlderInbox[i])
          /\ \A k \in 1..n : Above(Data', OlderAsked[k])
          /\ Above(Data', AskedFor(r))
        <3>1. /\ Above(Data', OlderReader) /\ \A i \in 1..Len(inbox) : Above(Data', OlderInbox[i])
              /\ \A k \in 1..n : Above(Data', OlderAsked[k])
            BY <1>4, <1>7, <2>3, SegmentsAreNumbers DEF OlderOrder, OlderBounds, Between
        <3>2. \A p \in AskedFor(r) : p < DataStart
            BY <1>6, <2>1, <2>3
        <3> QED
            BY <1>7, <2>3, <2>5, <3>1, <3>2
    <2>7. \A S : Above({}, S) /\ Above(S, {})
        BY DEF Above
    <2>8. OlderOrder'
        <3>1. ASSUME NEW k \in 1..Len(asked')
              PROVE  /\ Above(Data', OlderAsked'[k]) /\ Above(OlderLast', OlderAsked'[k])
                     /\ Above(OlderReader', OlderAsked'[k])
                     /\ \A i \in 1..Len(inbox) : Above(OlderInbox'[i], OlderAsked'[k])
            BY <1>1, <1>4, <1>5, <2>2, <2>3, <2>5, <2>6, <2>7 DEF OlderOrder
        <3>2. ASSUME NEW k \in 1..Len(asked'), NEW l \in 1..Len(asked'), k < l
              PROVE  Above(OlderAsked'[k], OlderAsked'[l])
            <4>1. k \in 1..n
                BY <2>2, <3>2
            <4>2. CASE l \in 1..n
                BY <1>4, <2>2, <2>3, <3>2, <4>1, <4>2 DEF OlderOrder
            <4>3. CASE l = n + 1
                BY <2>2, <2>5, <4>1, <4>3
            <4> QED
                BY <2>2, <4>2, <4>3
        <3>3. /\ Above(Data', OlderLast') /\ Above(Data', OlderReader') /\ Above(OlderLast', OlderReader')
              /\ \A i \in 1..Len(inbox) :
                    /\ Above(Data', OlderInbox'[i]) /\ Above(OlderLast', OlderInbox'[i])
                    /\ Above(OlderInbox'[i], OlderReader')
                    /\ \A j \in 1..Len(inbox) : i < j => Above(OlderInbox'[i], OlderInbox'[j])
            BY <1>1, <1>4, <1>5, <2>6, <2>7 DEF OlderOrder
        <3> QED
            BY <1>1, <3>1, <3>2, <3>3 DEF OlderOrder
    <2>9. OlderBounds'
        <3>1. /\ \A p \in OlderReader : wNew <= p /\ p < DataStart
              /\ \A i \in 1..Len(inbox) : \A p \in OlderInbox[i] : wNew <= p /\ p < DataStart
              /\ \A k \in 1..n : \A p \in OlderAsked[k] : wNew <= p /\ p < DataStart
            BY <1>4, <1>12, <2>3, SegmentsAreNumbers DEF OlderBounds
        <3>2. \A p \in AskedFor(r) : wNew <= p /\ p < DataStart
            BY <1>6, <2>1, <2>3
        <3>3. \A k \in 1..Len(asked') : \A p \in OlderAsked'[k] : wNew <= p /\ p < DataStart
            BY <2>2, <3>1, <3>2
        <3> QED
            BY <1>1, <1>5, <1>6, <1>11, <3>1, <3>3 DEF OlderBounds, Between, wNew
    <2> QED
        BY <1>9, <1>10, <2>8, <2>9
<1> QED
    BY <1>13, <1>14

---------------------------------------------------------------------------
(* Each message is in order in itself *)

\* Every step keeps what is shown, and every answer, in the order of time.
LEMMA SegmentsStep ==
    ASSUME LiveInv, AnswersInv, StagesInv, CarriedInv, MessagesInv, SegmentsInv, OrderInv, LivePageNext
    PROVE  SegmentsInv'
<1>0. livePage \in LivePageState /\ inbox \in Seq(Message) /\ carried \in Carried
    BY DEF LiveInv, PageTypeOK
<1>1. CASE /\ livePage'.data = livePage.data /\ livePage'.lastMessage = livePage.lastMessage
           /\ livePage'.StopTime = livePage.StopTime /\ replaced' = replaced
           /\ (late => late') /\ (inbox' = inbox \/ inbox' = <<>>)
           /\ carried'.response = carried.response
    BY <1>1 DEF SegmentsInv, Ordered
<1>2. CASE GetJobAnswered
    <2>1. /\ livePage'.data = fetch.answer.MetricData /\ livePage'.lastMessage = livePage.lastMessage
          /\ UNCHANGED <<inbox, carried>>
        BY <1>0, <1>2 DEF GetJobAnswered, LivePageState
    <2>2. Increasing(livePage'.data)
        BY <1>2, <2>1, AnswerFits DEF GetJobAnswered
    <2>3. Ordered(livePage.data)'
        BY <2>2 DEF Increasing, Ordered
    <2> QED
        BY <2>1, <2>3 DEF SegmentsInv
<1>3. CASE OnMessage
    <2>1. /\ livePage'.lastMessage = inbox[1] /\ 1 \in 1..Len(inbox) /\ livePage'.data = livePage.data
          /\ livePage'.StopTime = livePage.StopTime /\ UNCHANGED <<carried, late, replaced>>
        BY <1>0, <1>3, Dequeued DEF OnMessage, LivePageState
    <2>2. \A i \in 1..Len(inbox') : inbox'[i] = inbox[i + 1] /\ i + 1 \in 1..Len(inbox)
        BY <1>0, <1>3, Dequeued DEF OnMessage
    <2> QED
        BY <2>1, <2>2 DEF SegmentsInv, Ordered
<1>4. CASE RunLiveEffects
    <2> DEFINE m == livePage.lastMessage
               d == livePage.data
    <2>1. /\ d \in Seq(Time) /\ d # Null
          /\ livePage'.lastMessage = Null /\ carried' = carried /\ (inbox' = inbox \/ inbox' = <<>>)
          /\ livePage'.StopTime = livePage.StopTime /\ replaced' = replaced
        BY <1>0, <1>4, EffectsMerge DEF LivePageState
    <2>2. SUFFICES ASSUME ~late', ~replaced.overtook
                   PROVE  Ordered(livePage'.data)
        BY <2>1 DEF SegmentsInv, Ordered
    <2>3. ~late /\ Ordered(d)
        BY <1>4, <2>1, <2>2 DEF RunLiveEffects, SegmentsInv
    <2>4. livePage'.data = d \/ (m \in Message /\ m # Null /\ ~Throws(d, m) /\ livePage'.data = WithMessage(d, m))
        BY <1>0, <1>4 DEF RunLiveEffects, LivePageState, LiveInv, PageTypeOK
    <2>5. ASSUME m \in Message, m # Null, ~Throws(d, m)
          PROVE  Ordered(WithMessage(d, m))
        <3>1. m.MetricData \in Seq(Time) /\ m.MetricData # Null
            BY <2>5 DEF Throws, Message
        <3>2. Data = ToSet(d)
            BY <2>1 DEF Data, PointsOf
        <3>3. CASE m.Type = "LoadMetricsResponse"
            <4>1. Ordered(m.MetricData)
                BY <2>5, <3>1, <3>3, IncreasingIsOrdered DEF SegmentsInv, SegmentFits
            <4>2. OlderLast = ToSet(m.MetricData)
                BY <2>5, <3>1, <3>3 DEF OlderLast, OlderIn, PointsOf
            <4>3. Above(ToSet(d), ToSet(m.MetricData))
                BY <2>1, <2>3, <3>2, <4>2 DEF OrderInv, OlderOrder
            <4>4. \A a \in ToSet(m.MetricData), b \in ToSet(d) : a < b
                BY <4>3 DEF Above
            <4> QED
                BY <2>1, <2>3, <3>1, <3>3, <4>1, <4>4, OrderedConcat DEF WithMessage
        <3>4. CASE m.Type = "LatestMetrics"
            <4>1. LatestLast = ToSet(m.MetricData)
                BY <2>5, <3>1, <3>4 DEF LatestLast, LatestIn, PointsOf
            <4>2. Len(m.MetricData) <= 1
                BY <2>5, <3>4 DEF MessagesInv, LatestFits
            <4>3. Ordered(m.MetricData)
                BY <3>1, <4>2 DEF Ordered
            <4>4. NotBelow(ToSet(m.MetricData), ToSet(d)) /\ \A p \in ToSet(m.MetricData) : livePage.StopTime - 1 <= p
                BY <2>1, <2>2, <2>3, <3>2, <4>1 DEF OrderInv, LatestOrder, LatestBounds, AtEnd, Since
            <4>5. livePage.StopTime \in Int /\ \A p \in ToSet(d) \cup ToSet(m.MetricData) : p \in Int
                <5>1. livePage.StopTime \in Time /\ MaxNow \in Nat
                    BY <2>1, LivePageAssumption DEF AnswersInv
                <5> QED
                    BY <3>2, <4>1, <5>1, SegmentsAreNumbers DEF Time
            <4>6. \A a \in ToSet(d), b \in ToSet(m.MetricData) :
                     a < b \/ (a = b /\ b >= livePage.StopTime - 1)
                BY <4>4, <4>5 DEF NotBelow
            <4>7. WithMessage(d, m) = d \o m.MetricData
                BY <3>4 DEF WithMessage
            <4> QED
                BY <2>1, <2>3, <3>1, <4>3, <4>6, <4>7, OrderedConcat
        <3> QED
            BY <2>5, <3>3, <3>4 DEF Message
    <2> QED
        BY <2>3, <2>4, <2>5
<1>5. CASE Loads
    <2>1. UNCHANGED <<livePage, inbox, late, replaced>> /\ (carried'.response # Null => Increasing(carried'.response))
        BY <1>5, LoadsAnswers DEF Loads
    <2> QED
        BY <2>1 DEF SegmentsInv, Ordered
<1>6. ASSUME NEW m \in Message, SegmentFits(m), inbox' = Append(inbox, m),
             UNCHANGED <<livePage, late, replaced>>, carried'.response \in {Null, carried.response}
      PROVE  SegmentsInv'
    <2>1. \A i \in 1..Len(inbox') : SegmentFits(inbox'[i])
        BY <1>6, InboxGrows DEF SegmentsInv
    <2> QED
        BY <1>6, <2>1 DEF SegmentsInv, Ordered
<1>7. CASE WritesResponse
    <2> DEFINE m == [Type |-> "LoadMetricsResponse", MetricData |-> carried.response]
    <2>1. m \in Message /\ SegmentFits(m)
        BY <1>0 DEF Carried, Message, SegmentFits, SegmentsInv
    <2>2. UNCHANGED <<livePage, late, replaced>> /\ carried'.response = Null
        BY <1>0, <1>7 DEF WritesResponse, Carried
    <2>3. inbox' = inbox \/ inbox' = Append(inbox, m)
        BY <1>7 DEF WritesResponse, Writes
    <2> HIDE DEF m
    <2>4. CASE inbox' = inbox
        BY <2>2, <2>4 DEF SegmentsInv, Ordered
    <2> QED
        BY <1>6, <2>1, <2>2, <2>3, <2>4
<1>8. CASE WritesLatest
    <2> DEFINE m == [Type |-> "LatestMetrics", MetricData |-> carried.writer]
    <2>1. m \in Message /\ SegmentFits(m)
        BY <1>0 DEF Carried, Message, SegmentFits
    <2>2. UNCHANGED <<livePage, late, replaced>> /\ carried'.response = carried.response
        BY <1>0, <1>8 DEF WritesLatest, Carried
    <2>3. inbox' = inbox \/ inbox' = Append(inbox, m)
        BY <1>8 DEF WritesLatest, Writes
    <2> HIDE DEF m
    <2> QED
        BY <1>1, <1>6, <2>1, <2>2, <2>3
<1>9. CASE WebSocketOpens \/ Disconnects \/ \E t \in Time : SetStartTime(t)
    BY <1>0, <1>1, <1>9 DEF WebSocketOpens, Disconnects, SetStartTime, LivePageState
<1>10. CASE ReceivesLoadMetrics \/ QueriesLast \/ HandsOver
    BY <1>0, <1>1, <1>10 DEF ReceivesLoadMetrics, QueriesLast, HandsOver, Carried
<1>11. CASE GetJob \/ Advance \/ Connects \/ OtherSteps
    BY <1>1, <1>11 DEF GetJob, Advance, Connects, OtherSteps, pageVars
<1>12. CASE ResetTimeRange
    BY <1>9, <1>12, LivePageAssumption DEF ResetTimeRange, StartTime, Time
<1> QED
    BY <1>2, <1>3, <1>4, <1>5, <1>7, <1>8, <1>9, <1>10, <1>11, <1>12
       DEF LivePageNext, PageNext, LiveNext, StartTime, Time

\* Every step keeps what is shown and what is on its way in the order of time.
LEMMA OrderStep ==
    ASSUME LiveInv, GoroutinesInv, AnswersInv, StagesInv, CarriedInv, MessagesInv, OrderInv, LivePageNext
    PROVE  OrderInv'
<1>0. livePage \in LivePageState
    BY DEF LiveInv, PageTypeOK
<1>1. CASE GetJob \/ WebSocketOpens \/ Advance \/ \E t \in Time : SetStartTime(t)
    BY <1>0, <1>1, OrderAdvances DEF GetJob, WebSocketOpens, Advance, SetStartTime, LivePageState
<1>2. CASE Connects \/ OtherSteps
    BY <1>2, OrderAdvances DEF Connects, OtherSteps, pageVars
<1>3. CASE ResetTimeRange
    BY <1>1, <1>3, LivePageAssumption DEF ResetTimeRange, StartTime, Time
<1>4. CASE RunLiveEffects
    BY <1>4, OrderBreaks, OrderMerges
<1> QED
    BY <1>1, <1>2, <1>3, <1>4, OrderOpened, OrderReplaced, OrderOnMessage, OrderDisconnects, OrderReceivesLoadMetrics,
       OrderLoads, OrderWritesResponse, OrderQueriesLast, OrderHandsOver, OrderWritesLatest
       DEF LivePageNext, PageNext, LiveNext, StartTime, Time

---------------------------------------------------------------------------
(* Nothing is missing *)

\* Every step keeps every sample that the page counts on shown or on its way, as
\* long as no message was replaced and no answer was empty.
LEMMA CoverStep ==
    ASSUME LiveInv, GoroutinesInv, AnswersInv, StagesInv, CarriedInv, MessagesInv, CoverInv, LivePageNext
    PROVE  CoverInv'
<1>0. livePage \in LivePageState /\ inbox \in Seq(Message) /\ carried \in Carried /\ now \in Time
    BY DEF LiveInv, PageTypeOK
<1>1. CASE GetJobAnswered /\ UNCHANGED monitoringVars
    <2> DEFINE n == fetch.answer.StopTime
    <2>1. /\ livePage'.data = fetch.answer.MetricData /\ livePage'.data # Null
          /\ livePage'.curLiveWindowStart = livePage.curLiveWindowStart /\ livePage'.ws = livePage.ws
          /\ livePage'.lastMessage = livePage.lastMessage
          /\ UNCHANGED <<asked, inbox, carried, reader, overwritten>>
        BY <1>0, <1>1, AnswerFits DEF GetJobAnswered, LivePageState, monitoringVars, goroutineVars
    <2>2. /\ n \in Nat /\ n \in Time /\ Hour \in Nat \ {0} /\ MaxNow \in Nat
          /\ Data' = {p \in Time : n - Hour <= p /\ p < n} /\ Data' = ToSet(fetch.answer.MetricData)
        BY <1>1, <2>1, AnswerFits, LivePageAssumption DEF GetJobAnswered, Data, PointsOf
    <2>3. CASE livePage.data = Null
        <3>1. replaced'.opened = n /\ livePage.curLiveWindowStart = Infinity
            BY <1>0, <1>1, <2>3 DEF GetJobAnswered, StagesInv, LiveInv, PageTypeOK, Replaced
        <3>2. DataStart' = IF n - Hour > StartTime THEN n - Hour ELSE StartTime
            BY <3>1 DEF DataStart
        <3>3. \A p \in DataStart' .. replaced'.opened - 1 : p \in Data'
            BY <2>2, <3>1, <3>2 DEF Time, StartTime
        <3>4. \A p \in livePage'.curLiveWindowStart .. replaced'.opened - 1 : FALSE
            BY <2>1, <2>2, <3>1 DEF Infinity, Time
        <3> QED
            BY <3>3, <3>4 DEF CoverInv
    <2>4. CASE livePage.data # Null
        <3>1. replaced'.opened = replaced.opened /\ replaced'.lost = ToSet(livePage.data) \ ToSet(fetch.answer.MetricData)
            BY <1>0, <1>1, <2>4 DEF GetJobAnswered, LiveInv, PageTypeOK, Replaced
        <3>2. replaced.lost = {}
            BY <1>1 DEF GetJobAnswered, AnswersInv, Fetching
        <3>3. Data = ToSet(livePage.data)
            BY <2>4 DEF Data, PointsOf
        <3>4. \A p \in Data : p \in Data' \/ p \in replaced'.lost
            BY <2>2, <3>1, <3>3
        <3>5. UNCHANGED <<OlderLast, OlderInbox, OlderReader, OlderAsked, DataStart>> /\ Doomed' = Doomed
            BY <2>1, <3>1 DEF OlderLast, OlderInbox, OlderReader, OlderAsked, DataStart, Doomed
        <3>6. \A p : OnItsWay(p) => OnItsWay(p)' \/ p \in replaced'.lost
            BY <2>1, <3>4, <3>5 DEF OnItsWay
        <3> QED
            BY <2>1, <2>4, <3>1, <3>2, <3>4, <3>5, <3>6 DEF CoverInv
    <2> QED
        BY <2>3, <2>4
<1>2. CASE /\ livePage'.data = livePage.data /\ livePage'.lastMessage = livePage.lastMessage
           /\ livePage'.StopTime = livePage.StopTime
           /\ livePage'.curLiveWindowStart = livePage.curLiveWindowStart
           /\ livePage'.ws = "closed" \/ (livePage.ws # "closed" /\ UNCHANGED <<asked, inbox, carried>>)
           /\ UNCHANGED <<overwritten, replaced>> /\ (reader = "reply" <=> reader' = "reply")
    <2>1. UNCHANGED <<Data, DataStart, OlderLast>>
        BY <1>2 DEF Data, DataStart, OlderLast
    <2>2. CASE livePage'.ws = "closed"
        BY <1>2, <2>1, <2>2 DEF CoverInv
    <2>3. CASE livePage'.ws # "closed"
        <3>1. UNCHANGED <<asked, inbox, carried>> /\ livePage.ws # "closed"
            BY <1>2, <2>3
        <3>2. UNCHANGED <<OlderInbox, OlderAsked, OlderReader>>
            BY <3>1 DEF OlderInbox, OlderAsked, OlderReader
        <3>3. Doomed' = Doomed
            BY <1>2, <3>1 DEF Doomed
        <3> QED
            BY <1>2, <2>1, <3>1, <3>2, <3>3 DEF CoverInv, OnItsWay
    <2> QED
        BY <2>2, <2>3
<1>3. CASE OnMessage /\ UNCHANGED monitoringVars
    <2>1. /\ livePage'.lastMessage = inbox[1] /\ 1 \in 1..Len(inbox)
          /\ livePage'.data = livePage.data /\ livePage'.StopTime = livePage.StopTime
          /\ livePage'.curLiveWindowStart = livePage.curLiveWindowStart /\ livePage'.ws = livePage.ws
          /\ UNCHANGED <<asked, carried, reader, replaced>>
        BY <1>0, <1>3, Dequeued DEF OnMessage, LivePageState, monitoringVars
    <2>2. UNCHANGED <<Data, OlderReader, OlderAsked, DataStart>> /\ OlderLast' = OlderInbox[1]
        BY <2>1 DEF Data, OlderReader, OlderAsked, DataStart, OlderLast, OlderInbox
    <2>3. \A i \in 1..Len(inbox') : inbox'[i] = inbox[i + 1]
        BY <1>0, <1>3, Dequeued DEF OnMessage
    <2>4. \A i \in 1..Len(inbox) : i = 1 \/ (i - 1 \in 1..Len(inbox') /\ (i - 1) + 1 = i)
        BY <1>0, <1>3, Dequeued DEF OnMessage
    <2>5. \A i \in 1..Len(inbox) : i = 1 \/ (i - 1 \in 1..Len(inbox') /\ OlderInbox'[i - 1] = OlderInbox[i]
                                              /\ inbox'[i - 1] = inbox[i])
        BY <2>3, <2>4 DEF OlderInbox
    <2>6. SUFFICES ASSUME ~overwritten', ~Doomed', livePage.ws # "closed", livePage.data # Null
                   PROVE  \A p \in livePage.curLiveWindowStart .. replaced.opened - 1 : OnItsWay(p)' \/ p \in replaced.lost
        BY <2>1, <2>2 DEF CoverInv
    <2>7. ~overwritten /\ livePage.lastMessage = Null
        BY <1>0, <1>3, <2>6 DEF OnMessage, LiveInv, PageTypeOK
    <2>8. OlderLast = {} /\ ~Lost(livePage.lastMessage)
        BY <2>7 DEF OlderLast, OlderIn, Lost
    <2>9. ~Doomed
        BY <2>1, <2>5, <2>6, <2>8 DEF Doomed
    <2>10. \A p : OnItsWay(p) => OnItsWay(p)'
        BY <2>1, <2>2, <2>5, <2>8 DEF OnItsWay
    <2> QED
        BY <2>6, <2>7, <2>9, <2>10 DEF CoverInv
<1>4. CASE RunLiveEffects
    <2>1. /\ livePage.data # Null /\ livePage'.data # Null
          /\ livePage'.lastMessage = Null /\ OlderLast' = {}
          /\ livePage'.StopTime = livePage.StopTime /\ UNCHANGED <<carried, reader, DataStart, overwritten, replaced>>
        BY <1>4, EffectsMerge DEF RunLiveEffects, goroutineVars
    <2>2. OlderReader' = OlderReader
        BY <2>1 DEF OlderReader
    <2>3. CASE broken'
        <3>1. livePage'.ws = "closed" /\ livePage'.data = livePage.data
            BY <1>4, <2>3, EffectsMerge
        <3>2. Data' = Data
            BY <3>1 DEF Data
        <3> QED
            BY <2>1, <3>1, <3>2 DEF CoverInv
    <2>4. CASE ~broken'
        <3>1. /\ ~Lost(livePage.lastMessage) /\ inbox' = inbox
              /\ Data' = Data \cup OlderLast \cup LatestLast
            BY <1>4, <2>4, EffectsMerge
        <3>2. \A p \in DataStart .. replaced.opened - 1 : p \in Data' \/ p \in replaced.lost
            BY <2>1, <3>1 DEF CoverInv
        <3>3. SUFFICES ASSUME ~overwritten, livePage'.ws # "closed", ~Doomed'
                       PROVE  \A p \in livePage'.curLiveWindowStart .. replaced.opened - 1 : OnItsWay(p)' \/ p \in replaced.lost
            BY <2>1, <3>2 DEF CoverInv
        <3>4. ~Doomed
            BY <2>1, <3>1, <3>3 DEF Doomed, Lost
        <3>5. livePage.ws # "closed"
            BY <1>0, <1>4, <3>3 DEF RunLiveEffects, LivePageState, StagesInv
        <3>6. \A p \in livePage.curLiveWindowStart .. replaced.opened - 1 : OnItsWay(p) \/ p \in replaced.lost
            BY <2>1, <3>3, <3>4, <3>5 DEF CoverInv
        <3> DEFINE moves == "window" \in livePage.due /\ MovesWindow(livePage)
                   asks == "window" \in livePage.due /\ AsksOlder(livePage)
                   w == livePage.curLiveWindowStart
                   t == livePage.timeStart
        <3>7. livePage'.curLiveWindowStart = IF moves THEN t ELSE w
            BY <1>0, <1>4 DEF RunLiveEffects, LivePageState
        <3>8. asked' = IF asks THEN Append(asked, WSLoadMetricsMsg(livePage)) ELSE asked
            BY <1>4, <2>4 DEF RunLiveEffects
        <3>9. OlderInbox' = OlderInbox
            BY <3>1 DEF OlderInbox
        <3>10. w \in 1..Infinity /\ Infinity \in Nat /\ replaced.opened \in Int /\ DataStart \in Int
            <4>1. replaced.opened \in Time /\ Hour \in Nat /\ MaxNow \in Nat
                BY <2>1, LivePageAssumption DEF AnswersInv
            <4>2. w \in 1..Infinity
                BY <1>0 DEF LivePageState
            <4> QED
                BY <4>1, <4>2, NullFresh DEF DataStart, StartTime, Time
        <3>11. CASE ~asks
            <4>1. asked' = asked /\ OlderAsked' = OlderAsked
                BY <3>8, <3>11 DEF OlderAsked
            <4>2. \A p : OnItsWay(p) => OnItsWay(p)'
                BY <2>1, <2>2, <3>1, <3>9, <4>1 DEF OnItsWay
            <4>3. CASE ~moves
                BY <2>1, <3>6, <3>7, <4>2, <4>3
            <4>4. CASE moves
                <5>1. w = Infinity /\ t # Null /\ livePage'.curLiveWindowStart = t
                    BY <3>7, <3>11, <4>4 DEF MovesWindow
                <5>2. livePage.ws # "none"
                    BY <2>1, <4>4 DEF StagesInv
                <5>3. t \in Int /\ DataStart <= t
                    <6>1. t \in Time /\ DataStart <= t /\ MaxNow \in Nat
                        BY <1>0, <5>1, <5>2, LivePageAssumption DEF StagesInv, LivePageState
                    <6> QED
                        BY <6>1 DEF Time
                <5>4. \A p \in t .. replaced.opened - 1 : p \in DataStart .. replaced.opened - 1
                    BY <3>10, <5>3
                <5> QED
                    BY <2>1, <3>2, <5>1, <5>4 DEF OnItsWay
            <4> QED
                BY <4>3, <4>4
        <3>12. CASE asks
            <4> DEFINE r == WSLoadMetricsMsg(livePage)
            <4>1. /\ t \in Time /\ t \in Int /\ moves /\ livePage'.curLiveWindowStart = t
                  /\ livePage.ws = "open"
                <5>1. t # Null /\ moves /\ livePage.ws = "open"
                    BY <3>12 DEF AsksOlder, MovesWindow
                <5>2. t \in Time /\ MaxNow \in Nat
                    BY <1>0, <5>1, LivePageAssumption DEF LivePageState
                <5> QED
                    BY <3>7, <5>1, <5>2 DEF Time
            <4>2. r \in LiveRequest
                <5>1. w # Infinity => w \in Time
                    BY <3>10, LivePageAssumption DEF Time, Infinity
                <5> QED
                    BY <4>1, <5>1 DEF WSLoadMetricsMsg, LiveRequest
            <4>3. asked' = Append(asked, r)
                BY <3>8, <3>12
            <4> HIDE DEF r
            <4>4. /\ Len(asked) \in Nat
                  /\ \A k \in 1..Len(asked) : k \in 1..Len(asked') /\ OlderAsked'[k] = OlderAsked[k]
                  /\ Len(asked) + 1 \in 1..Len(asked') /\ OlderAsked'[Len(asked) + 1] = AskedFor(r)
                BY <4>2, <4>3, AskedGrows
            <4>5. \A p : OnItsWay(p) => OnItsWay(p)'
                BY <2>1, <2>2, <3>1, <3>9, <4>4 DEF OnItsWay
            <4>6. \A p \in AskedFor(r) : OnItsWay(p)'
                BY <4>4 DEF OnItsWay
            <4>7. CASE w = Infinity
                <5>1. DataStart <= t
                    BY <4>1, <4>7 DEF StagesInv
                <5>2. \A p \in t .. replaced.opened - 1 : p \in DataStart .. replaced.opened - 1
                    BY <3>10, <4>1, <5>1
                <5> QED
                    BY <2>1, <3>2, <4>1, <5>2 DEF OnItsWay
            <4>8. CASE w # Infinity
                <5>1. AskedFor(r) = t .. w - 1
                    <6>1. w # Null
                        BY <3>10, LivePageAssumption
                    <6> QED
                        BY <4>8, <6>1 DEF r, AskedFor, WSLoadMetricsMsg
                <5>2. \A p \in t .. replaced.opened - 1 : p \in AskedFor(r) \/ p \in w .. replaced.opened - 1
                    BY <3>10, <4>1, <5>1
                <5> QED
                    BY <2>1, <3>6, <4>1, <4>5, <4>6, <5>2
            <4> QED
                BY <4>7, <4>8
        <3> QED
            BY <3>11, <3>12
    <2> QED
        BY <2>3, <2>4
<1>5. CASE ReceivesLoadMetrics
    <2>1. /\ asked \in Seq(LiveRequest) /\ carried'.request = asked[1] /\ asked[1] # Null /\ 1 \in 1..Len(asked)
          /\ carried.request = Null /\ carried.response = Null
          /\ carried'.response = Null /\ reader # "reply" /\ reader' # "reply"
          /\ UNCHANGED <<livePage, inbox, overwritten, replaced>>
        BY <1>0, <1>5, Dequeued, NullFresh DEF ReceivesLoadMetrics, ReadLoadMetrics, LiveInv, PageTypeOK, CarriedInv, Carried
    <2>2. /\ UNCHANGED <<Data, OlderLast, OlderInbox, DataStart>>
          /\ OlderReader' = OlderAsked[1] /\ OlderReader = {}
        BY <2>1 DEF Data, OlderLast, OlderInbox, DataStart, OlderReader, OlderAsked, PointsOf
    <2>3. \A k \in 1..Len(asked') : asked'[k] = asked[k + 1]
        BY <1>5, <2>1, Dequeued DEF ReceivesLoadMetrics
    <2>4. \A k \in 1..Len(asked) : k = 1 \/ (k - 1 \in 1..Len(asked') /\ (k - 1) + 1 = k)
        BY <1>5, <2>1, Dequeued DEF ReceivesLoadMetrics
    <2>5. \A k \in 1..Len(asked) : k = 1 \/ (k - 1 \in 1..Len(asked') /\ OlderAsked'[k - 1] = OlderAsked[k])
        BY <2>3, <2>4 DEF OlderAsked
    <2>6. Doomed' = Doomed
        BY <2>1 DEF Doomed
    <2>7. \A p : OnItsWay(p) => OnItsWay(p)'
        BY <2>1, <2>2, <2>5 DEF OnItsWay
    <2> QED
        BY <2>1, <2>2, <2>6, <2>7 DEF CoverInv
<1>6. CASE Loads
    <2>1. UNCHANGED <<livePage, asked, inbox, overwritten, replaced>> /\ reader' = "reply"
        BY <1>6 DEF Loads, Load
    <2>2. UNCHANGED <<Data, DataStart, OlderLast, OlderInbox, OlderAsked>>
        BY <2>1 DEF Data, DataStart, OlderLast, OlderInbox, OlderAsked
    <2>3. CASE carried'.response = Null
        <3>1. Doomed'
            BY <2>1, <2>3 DEF Doomed
        <3> QED
            BY <2>1, <2>2, <3>1 DEF CoverInv
    <2>4. CASE carried'.response # Null
        <3>1. OlderReader' = OlderReader
            BY <1>6, <2>4, LoadsAnswers
        <3>2. ~Doomed' => ~Doomed
            BY <1>6, <2>1, <2>4 DEF Doomed, Loads, Load
        <3>3. \A p : OnItsWay(p) => OnItsWay(p)'
            BY <2>1, <2>2, <3>1 DEF OnItsWay
        <3> QED
            BY <2>1, <2>2, <3>2, <3>3 DEF CoverInv
    <2> QED
        BY <2>3, <2>4
<1>7. CASE WritesResponse
    <2>1. UNCHANGED <<livePage, asked, overwritten, replaced>> /\ reader' = "read" /\ reader = "reply"
        BY <1>7 DEF WritesResponse, Replied
    <2>2. UNCHANGED <<Data, DataStart, OlderLast, OlderAsked>>
        BY <2>1 DEF Data, DataStart, OlderLast, OlderAsked
    <2>3. CASE connection # "open"
        <3>1. livePage'.ws = "closed"
            BY <2>1, <2>3 DEF StagesInv
        <3> QED
            BY <2>1, <2>2, <3>1 DEF CoverInv
    <2>4. CASE connection = "open"
        <3> DEFINE m == [Type |-> "LoadMetricsResponse", MetricData |-> carried.response]
                   n == Len(inbox)
        <3>1. m \in Message /\ inbox' = Append(inbox, m) /\ OlderIn(m) = OlderReader
            BY <1>7, <2>4, ResponseMoves
        <3>2. m # Null /\ (Lost(m) <=> carried.response = Null)
            BY <3>1, NullFresh DEF Lost
        <3> HIDE DEF m
        <3>3. /\ n \in Nat /\ n + 1 \in 1..Len(inbox')
              /\ \A i \in 1..n : i \in 1..Len(inbox') /\ inbox'[i] = inbox[i] /\ OlderInbox'[i] = OlderInbox[i]
              /\ inbox'[n + 1] = m /\ OlderInbox'[n + 1] = OlderReader
            BY <3>1, InboxGrows
        <3> HIDE DEF n
        <3>4. n = Len(inbox)
            BY DEF n
        <3>5. ~Doomed' => ~Doomed
            BY <2>1, <3>2, <3>3, <3>4 DEF Doomed
        <3>6. \A p : OnItsWay(p) => OnItsWay(p)'
            BY <2>1, <2>2, <3>3, <3>4 DEF OnItsWay
        <3> QED
            BY <2>1, <2>2, <3>5, <3>6 DEF CoverInv
    <2> QED
        BY <2>3, <2>4
<1>8. CASE WritesLatest
    <2>1. /\ UNCHANGED <<livePage, asked, overwritten, replaced, reader>>
          /\ carried'.request = carried.request /\ carried'.response = carried.response
        BY <1>0, <1>8 DEF WritesLatest, Written, Carried
    <2>2. UNCHANGED <<Data, DataStart, OlderLast, OlderAsked, OlderReader>>
        BY <2>1 DEF Data, DataStart, OlderLast, OlderAsked, OlderReader
    <2>3. /\ Len(inbox) \in Nat
          /\ \A i \in 1..Len(inbox) : i \in 1..Len(inbox') /\ inbox'[i] = inbox[i] /\ OlderInbox'[i] = OlderInbox[i]
        <3> DEFINE m == [Type |-> "LatestMetrics", MetricData |-> carried.writer]
        <3>1. m \in Message
            BY <1>0 DEF Carried, Message
        <3>2. inbox' = inbox \/ inbox' = Append(inbox, m)
            BY <1>8 DEF WritesLatest, Writes
        <3> HIDE DEF m
        <3>3. CASE inbox' = Append(inbox, m)
            BY <3>1, <3>3, InboxGrows
        <3>4. CASE inbox' = inbox
            BY <1>0, <3>4 DEF OlderInbox
        <3> QED
            BY <3>2, <3>3, <3>4
    <2>4. ~Doomed' => ~Doomed
        BY <2>1, <2>3 DEF Doomed
    <2>5. \A p : OnItsWay(p) => OnItsWay(p)'
        BY <2>1, <2>2, <2>3 DEF OnItsWay
    <2> QED
        BY <2>1, <2>2, <2>4, <2>5 DEF CoverInv
<1>9. CASE QueriesLast \/ HandsOver
    <2>1. /\ UNCHANGED <<livePage, asked, inbox, overwritten, replaced, reader>>
          /\ carried'.request = carried.request /\ carried'.response = carried.response
        BY <1>0, <1>9 DEF QueriesLast, Query, HandsOver, SendData, Carried
    <2>2. UNCHANGED <<Data, DataStart, OlderLast, OlderInbox, OlderAsked, OlderReader>>
        BY <2>1 DEF Data, DataStart, OlderLast, OlderInbox, OlderAsked, OlderReader
    <2>3. Doomed' = Doomed
        BY <2>1 DEF Doomed
    <2> QED
        BY <2>1, <2>2, <2>3 DEF CoverInv, OnItsWay
<1>10. CASE (GetJob \/ WebSocketOpens \/ Advance \/ \E t \in Time : SetStartTime(t)) /\ UNCHANGED monitoringVars
    BY <1>0, <1>2, <1>10 DEF GetJob, WebSocketOpens, Advance, SetStartTime, LivePageState, monitoringVars, CoverInv
<1>11. CASE ResetTimeRange /\ UNCHANGED monitoringVars
    BY <1>10, <1>11, LivePageAssumption DEF ResetTimeRange, StartTime, Time
<1>12. CASE Disconnects
    BY <1>0, <1>2, <1>12 DEF Disconnects, PeerLeaves, LivePageState, goroutineVars
<1>13. CASE Connects \/ OtherSteps
    <2>1. UNCHANGED pageVars /\ (reader = "reply" <=> reader' = "reply")
        BY <1>13, OtherStepsOfReader DEF Connects, StartMonitoring, JobNotFound, goroutineVars, GoroutinesInv
    <2> QED
        BY <1>2, <2>1 DEF pageVars, CoverInv
<1> QED
    BY <1>1, <1>3, <1>4, <1>5, <1>6, <1>7, <1>8, <1>9, <1>10, <1>11, <1>12, <1>13
       DEF LivePageNext, PageNext, LiveNext, StartTime, Time

---------------------------------------------------------------------------
(* The theorems *)

\* A page that has just been opened has the invariant.
LEMMA LiveInitInvariant ==
    ASSUME LiveInit
    PROVE  IInv
<1>1. MonitoringInv /\ GoroutinesInv
    <2>1. MonitoringInit
        BY DEF LiveInit
    <2>2. MonitoringTypeOK
        <3>1. loads \in BOOLEAN /\ panicked \in BOOLEAN
            BY <2>1 DEF MonitoringInit
        <3>2. writing = {} /\ tick \in 0..1 /\ reader = "none" /\ writer = "none" /\ producer = "none"
            BY <2>1 DEF MonitoringInit
        <3>3. /\ connection \in {"open", "gone", "closed"} /\ handler \in {"GetJob", "returned"}
              /\ monitor \in {"open", "closed"} /\ done \in {"open", "closed"}
            BY <2>1 DEF MonitoringInit
        <3> QED
            BY <3>1, <3>2, <3>3 DEF MonitoringTypeOK
    <2>3. NoSendOnClosedChannel /\ GoroutinesInv
        BY <2>1 DEF MonitoringInit, NoSendOnClosedChannel, GoroutinesInv
    <2> QED
        BY <2>2, <2>3 DEF MonitoringInv
<1>2. /\ livePage.data = Null /\ livePage.StopTime = Null /\ livePage.timeStart = Null
      /\ livePage.curLiveWindowStart = Infinity /\ livePage.ws = "none"
      /\ livePage.lastMessage = Null /\ livePage.due = {}
      /\ carried.request = Null /\ carried.response = Null /\ carried.producer = Null /\ carried.writer = Null
      /\ Len(asked) = 0 /\ Len(inbox) = 0
      /\ reader = "none" /\ writer = "none" /\ producer = "none" /\ connection = "open"
      /\ ~late /\ ~overwritten /\ fetch.answer = Null
      /\ replaced.opened = Null /\ replaced.lost = {} /\ ~replaced.overtook
    BY DEF LiveInit, MonitoringInit
<1>3. PageTypeOK
    <2>1. Infinity \in 1..Infinity
        BY LivePageAssumption DEF Infinity
    <2>2. livePage \in LivePageState
        BY <2>1 DEF LiveInit, LivePageState
    <2>3. carried \in Carried
        BY DEF LiveInit, Carried
    <2>4. asked \in Seq(LiveRequest) /\ inbox \in Seq(Message) /\ Len(inbox) <= MaxMessages
        BY <1>2, LivePageAssumption DEF LiveInit
    <2> QED
        BY <1>2, <2>2, <2>3, <2>4 DEF LiveInit, PageTypeOK, Time, Fetch, Replaced
<1>4. CarriedInv /\ AnswersInv /\ StagesInv /\ MessagesInv /\ SegmentsInv /\ OrderInv
    BY <1>2 DEF LiveInit, CarriedInv, AnswersInv, StagesInv, MessagesInv, SegmentsInv, OrderInv
<1>5. CoverInv
    BY <1>2 DEF CoverInv
<1> QED
    BY <1>1, <1>3, <1>4, <1>5 DEF IInv, LiveInv

\* Every step keeps the invariant.
LEMMA LiveStepInvariant ==
    ASSUME IInv, [LivePageNext]_allVars
    PROVE  IInv'
<1>1. CASE LivePageNext
    <2>1. MonitoringInv' /\ GoroutinesInv'
        BY <1>1, GoroutinesStep DEF IInv, LiveInv
    <2>2. PageTypeOK'
        BY <1>1, PageTypesOfPage, PageTypesOfEffects, PageTypesOfLive DEF IInv, LivePageNext
    <2>3. CarriedInv' /\ AnswersInv' /\ StagesInv' /\ MessagesInv'
        BY <1>1, CarriedStep, AnswersStep, StagesStep, MessagesStep DEF IInv
    <2>4. SegmentsInv' /\ OrderInv' /\ CoverInv'
        BY <1>1, SegmentsStep, OrderStep, CoverStep DEF IInv
    <2> QED
        BY <2>1, <2>2, <2>3, <2>4 DEF IInv, LiveInv
<1>2. CASE UNCHANGED allVars
    <2>1. UNCHANGED pageVars /\ UNCHANGED monitoringVars
        BY <1>2 DEF allVars
    <2>2. MonitoringInv' /\ GoroutinesInv' /\ CarriedInv'
        BY <2>1 DEF IInv, LiveInv, MonitoringInv, MonitoringTypeOK, NoSendOnClosedChannel, GoroutinesInv,
                    CarriedInv, monitoringVars, pageVars
    <2>3. PageTypeOK' /\ AnswersInv' /\ StagesInv' /\ MessagesInv' /\ SegmentsInv'
        BY <2>1 DEF IInv, LiveInv, PageTypeOK, AnswersInv, Fetching, StagesInv, DataStart, MessagesInv, SegmentsInv,
                    Ordered, monitoringVars, pageVars
    <2>4. OrderInv'
        BY <2>1, OrderAdvances DEF IInv, pageVars
    <2>5. UNCHANGED <<Data, DataStart, OlderLast, OlderInbox, OlderAsked, OlderReader>> /\ Doomed' = Doomed
        BY <2>1 DEF Data, DataStart, OlderLast, OlderInbox, OlderAsked, OlderReader, Doomed, monitoringVars, pageVars
    <2>6. CoverInv'
        BY <2>1, <2>5 DEF IInv, CoverInv, OnItsWay, pageVars
    <2> QED
        BY <2>2, <2>3, <2>4, <2>6 DEF IInv, LiveInv
<1> QED
    BY <1>1, <1>2

\* Page and live view keep the invariant, whatever the size of the job.
THEOREM LivePageInvariance == LivePageSpec => []IInv
<1>1. LiveInit => IInv
    BY LiveInitInvariant
<1>2. IInv /\ [LivePageNext]_allVars => IInv'
    BY LiveStepInvariant
<1> QED
    BY <1>1, <1>2, PTL DEF LivePageSpec

\* Page and live view are well-formed, a goroutine is inside WriteJSON exactly where its
\* code writes, and nothing is sent on a channel that is closed.
THEOREM LiveCorrect == LivePageSpec => []LiveInv
<1>1. IInv => LiveInv
    BY DEF IInv
<1> QED
    BY <1>1, LivePageInvariance, PTL

\* As long as a page does not ask for older metrics, no two goroutines write to its connection.
THEOREM WatchingCorrect == LivePageSpec => []WatchingIsSafe
<1>1. IInv => WatchingIsSafe
    BY OneWriter DEF IInv, LiveInv
<1> QED
    BY <1>1, LivePageInvariance, PTL

\* When all is at rest, what was on its way is shown.
LEMMA NothingOnItsWay ==
    ASSUME IInv, AtRest
    PROVE  ~Doomed /\ \A p : OnItsWay(p) => p \in ToSet(livePage.data)
<1>1. /\ livePage.data # Null /\ Len(asked) = 0 /\ Len(inbox) = 0 /\ livePage.lastMessage = Null
      /\ carried.request = Null /\ carried.response = Null /\ reader = "read"
    BY DEF AtRest, IInv, LiveInv, PageTypeOK, CarriedInv
<1>2. OlderLast = {} /\ OlderReader = {} /\ Data = ToSet(livePage.data)
    BY <1>1 DEF OlderLast, OlderIn, OlderReader, PointsOf, Data
<1> QED
    BY <1>1, <1>2 DEF Doomed, Lost, OnItsWay

\* The samples shown are in the order of time, however often the range was moved while
\* live points came in, and only live points come again, unless the second answer of
\* GetJob overtook some; and at rest none is missing between the start of the window and
\* the time the page was opened but what that answer has taken away.
THEOREM OlderMetricsCorrect == LivePageSpec => []OlderMetricsFit
<1>1. IInv => InOrder
    BY DEF IInv, SegmentsInv, InOrder, Ordered
<1>2. IInv => Complete
    <2>1. SUFFICES ASSUME IInv, AtRest, ~overwritten
                   PROVE  \A p \in livePage.curLiveWindowStart .. replaced.opened - 1 :
                             p \in ToSet(livePage.data) \cup replaced.lost
        BY DEF Complete
    <2>2. \A p \in livePage.curLiveWindowStart .. replaced.opened - 1 : OnItsWay(p) \/ p \in replaced.lost
        BY <2>1, NothingOnItsWay DEF IInv, CoverInv, AtRest
    <2> QED
        BY <2>1, <2>2, NothingOnItsWay
<1>3. IInv => OlderMetricsFit
    BY <1>1, <1>2 DEF OlderMetricsFit
<1> QED
    BY <1>3, LivePageInvariance, PTL

===========================================================================

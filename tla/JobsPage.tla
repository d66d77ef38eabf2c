------------------------------ MODULE JobsPage ------------------------------
(***************************************************************************)
(* The list of jobs and the statistics: both pages keep search parameters  *)
(* in the local storage (useStorageState), ask the backend for the jobs    *)
(* that match (useGetJobs) and let the user change the parameters in a     *)
(* JobFilter, which collects changes until they are applied.               *)
(*                                                                         *)
(* An effect runs when a value it depends on was replaced, even by an      *)
(* equal one: due holds the effects that are to run. All run in one step   *)
(* with the values that were rendered, those of the JobFilter first, and   *)
(* the last call of a setter wins.                                         *)
(***************************************************************************)
EXTENDS Naturals, Sequences, SequencesExt

CONSTANTS
    User,           \* a user name
    Partition,      \* a partition
    Tag,            \* a tag of jobs
    None,           \* no value: the parameter does not restrict the jobs
    MaxLimit,       \* largest number of nodes and of GPUs
    MaxPending,     \* bound: requests under way; more of them wait
    MaxEdits,       \* bound: changes in the filter
    MaxFailures     \* bound: requests that fail

ASSUME JobsPageAssumption ==
    /\ MaxLimit \in Nat \ {0} /\ MaxPending \in Nat \ {0}
    /\ MaxEdits \in Nat /\ MaxFailures \in Nat

VARIABLES
    site,           \* which of the two pages it is
    query,          \* the user or tag in the address: what is known and what is there
    saved,          \* the parameters in the local storage
    params,         \* the parameters of the page
    isLoadingParams,
    jobList,        \* the parameters the list was asked for with
    isLoading,      \* of useGetJobs
    requests,       \* the requests under way, the oldest first
    filter,         \* the state of JobFilter
    due,            \* the effects to run
    history         \* counters and what happened: earlier visit, edits, failures, overtaken answers

vars == <<site, query, saved, params, isLoadingParams, jobList, isLoading, requests,
          filter, due, history>>

---------------------------------------------------------------------------
(* Data *)

Limits == 1..MaxLimit
RangeFilter == {r \in Limits \X Limits : r[1] <= r[2]}

\* The fields whose change starts from the parameters of the page, and those whose
\* change starts from the changes that are there.
FieldsOfParams == {"UserName", "Partition", "Tags"}
FieldsOfFilter == {"IsRunning", "Time"}
RangeFields == {"NumNodes", "NumGpus"}

\* Time is open, the last fourteen days or something else.
JobSearchParams ==
    [UserName : {User, None}, Partition : {Partition, None}, Tags : {Tag, None},
     IsRunning : {"true", None}, Time : {"recent", "chosen", None},
     NumNodes : RangeFilter, NumGpus : RangeFilter]

Values(field) == {p[field] : p \in JobSearchParams}

DefaultParams ==
    [UserName |-> None, Partition |-> None, Tags |-> None, IsRunning |-> None, Time |-> None,
     NumNodes |-> <<1, MaxLimit>>, NumGpus |-> <<1, MaxLimit>>]

\* Parameters that an earlier visit may have left.
EarlierParams ==
    {[DefaultParams EXCEPT !.Partition = Partition, !.Tags = tags, !.Time = "chosen"] : tags \in {Tag, None}}

Recent(p) == [p EXCEPT !.Time = "recent"]

Effects == {"load", "fetch", "time", "user", "tag", "reset", "apply"}

---------------------------------------------------------------------------
(* The effects *)

Loads == "load" \in due
SetsTime == "time" \in due /\ ~isLoadingParams
SetsUser == "user" \in due /\ query.known /\ query.user
SetsTag == "tag" \in due /\ query.known /\ query.tag /\ jobList # None

\* Mutant of Applies: changes are applied without a click.
AppliesAtOnce == "apply" \in due

Applies == "apply" \in due /\ filter.shouldApply

\* Some effect calls setParams, which also writes the local storage.
SetsParams == SetsTime \/ SetsUser \/ SetsTag \/ Applies

\* Mutant of ParamsToSet: the time is put into the defaults.
ParamsFromDefaults ==
    CASE SetsTag -> [params EXCEPT !.Tags = Tag]
      [] ~SetsTag /\ SetsUser -> [params EXCEPT !.UserName = User]
      [] ~SetsTag /\ ~SetsUser /\ SetsTime -> Recent(DefaultParams)
      [] OTHER -> filter.params

\* Mutant of ParamsToSet: the tags that are applied are those of the page.
ParamsButTags ==
    CASE SetsTag -> [params EXCEPT !.Tags = Tag]
      [] ~SetsTag /\ SetsUser -> [params EXCEPT !.UserName = User]
      [] ~SetsTag /\ ~SetsUser /\ SetsTime -> Recent(params)
      [] OTHER -> [filter.params EXCEPT !.Tags = params.Tags]

\* Each effect changes what was rendered; the last one in the code wins.
ParamsToSet ==
    CASE SetsTag -> [params EXCEPT !.Tags = Tag]
      [] ~SetsTag /\ SetsUser -> [params EXCEPT !.UserName = User]
      [] ~SetsTag /\ ~SetsUser /\ SetsTime -> Recent(params)
      [] OTHER -> filter.params

ParamsAfterEffects ==
    IF SetsParams THEN ParamsToSet
    ELSE IF Loads /\ saved # None THEN saved
    ELSE params

\* Mutant of SavedAfterEffects: the storage gets what was rendered.
SavedWhatWasRendered == IF SetsParams THEN params ELSE saved

SavedAfterEffects == IF SetsParams THEN ParamsToSet ELSE saved

Fetches == "fetch" \in due /\ ~isLoadingParams

\* The filter of the statistics is there only while nothing is loading.
StaysMounted == filter.mounted /\ (site = "jobs" \/ ~("fetch" \in due))

\* What the next render finds replaced: parameters, and that they are loaded.
DueAfterEffects ==
    (IF SetsParams \/ (Loads /\ saved # None)
     THEN {"fetch"} \cup (IF StaysMounted THEN {"reset", "apply"} ELSE {}) ELSE {})
      \cup (IF Loads THEN {"fetch", "time"} ELSE {})

RunEffects ==
    /\ due # {}
    /\ Fetches => Len(requests) < MaxPending
    /\ params' = ParamsAfterEffects
    /\ saved' = SavedAfterEffects
    /\ isLoadingParams' = (isLoadingParams /\ ~Loads)
    /\ isLoading' = (isLoading \/ "fetch" \in due)
    /\ requests' = IF Fetches THEN Append(requests, params) ELSE requests
    /\ filter' = [filter EXCEPT !.params = IF "reset" \in due THEN params ELSE @,
                                !.shouldApply = @ /\ ~Applies,
                                !.mounted = StaysMounted]
    /\ due' = DueAfterEffects
    /\ history' = [history EXCEPT !.edited = @ /\ "reset" \notin due, !.clicked = FALSE,
                                  !.apart = @ \/ SetsUser \/ SetsTag]
    /\ UNCHANGED <<site, query, jobList>>

---------------------------------------------------------------------------
(* The backend and the browser *)

\* Right after a click the effects run, before anything else does.
Idle == history.clicked => due = {}

\* An answer is shown whether or not it is the one to the last question. The
\* filter, when it appears, forgets what was chosen in it, and its picker has no tags
\* even if the parameters have.
JobsAnswered(i) ==
    /\ Idle
    /\ jobList' = requests[i]
    /\ isLoading' = FALSE
    /\ requests' = RemoveAt(requests, i)
    /\ filter' = IF filter.mounted THEN filter
                 ELSE [mounted |-> TRUE, params |-> Recent(params), shouldApply |-> FALSE,
                       left |-> None, right |-> None, selectedTags |-> None]
    /\ due' = due \cup (IF site = "jobs" THEN {"tag"} ELSE {})
                  \cup (IF filter.mounted THEN {} ELSE {"reset", "apply"})
    /\ history' = [history EXCEPT !.overtaken = @ \/ i > 1, !.clicked = FALSE,
                                  !.apart = IF filter.mounted THEN @ ELSE params.Tags # None]
    /\ UNCHANGED <<site, query, saved, params, isLoadingParams>>

\* A request fails, is refused or is answered with something else than JSON: the
\* list stays as it is. (What refusal means for the session is in App.)
RequestFails(i) ==
    /\ Idle
    /\ history.failures < MaxFailures
    /\ requests' = RemoveAt(requests, i)
    /\ history' = [history EXCEPT !.failures = @ + 1, !.clicked = FALSE]
    /\ UNCHANGED <<site, query, saved, params, isLoadingParams, jobList, isLoading, filter, due>>

\* The router knows the query of the address only after the first render, unless
\* the page was opened from another page.
RouterReady ==
    /\ ~query.known /\ Idle
    /\ query' = [query EXCEPT !.known = TRUE]
    /\ due' = due \cup (IF site = "jobs" THEN {"user", "tag"} ELSE {})
    /\ UNCHANGED <<site, saved, params, isLoadingParams, jobList, isLoading, requests, filter,
                   history>>

---------------------------------------------------------------------------
(* The user, in the filter *)

\* The filter is there and a click can be handled.
Edits ==
    /\ filter.mounted /\ due = {}
    /\ history.edits < MaxEdits
    /\ Len(requests) < MaxPending
    /\ due' = {"apply"}
    /\ UNCHANGED <<site, query, saved, params, isLoadingParams, jobList, isLoading, requests>>

\* What happened, with one more change.
Edited == [history EXCEPT !.edits = @ + 1, !.edited = TRUE, !.clicked = TRUE]

\* What the filter shows: the tags are those of its picker.
ShownParams == [filter.params EXCEPT !.Tags = filter.selectedTags]

\* User, partition and tags: other changes that have not been applied are lost, tags
\* too, but the picker goes on showing those.
ChangeOfParams(field) ==
    /\ Edits
    /\ \E value \in Values(field) \ {ShownParams[field]} :
          filter' = [filter EXCEPT
                        !.params = [params EXCEPT ![field] = value],
                        !.selectedTags = IF field = "Tags" THEN value ELSE @]
    /\ history' = [Edited EXCEPT !.apart = field # "Tags" /\ filter.selectedTags # params.Tags]

\* Running or finished, and the time.
ChangeOfFilter(field) ==
    /\ Edits
    /\ \E value \in Values(field) \ {filter.params[field]} :
          filter' = [filter EXCEPT !.params[field] = value]
    /\ history' = Edited

\* A number input. The last value set on this side, for nodes or GPUs, is ignored.
setLowerLimit(field) ==
    /\ Edits
    /\ \E val \in Limits :
          /\ val <= filter.params[field][2] /\ val # filter.params[field][1]
          /\ filter' = IF filter.left = val THEN filter
                       ELSE [filter EXCEPT !.left = val, !.params[field][1] = val]
    /\ history' = Edited

setUpperLimit(field) ==
    /\ Edits
    /\ \E val \in Limits :
          /\ val >= filter.params[field][1] /\ val # filter.params[field][2]
          /\ filter' = IF filter.right = val THEN filter
                       ELSE [filter EXCEPT !.right = val, !.params[field][2] = val]
    /\ history' = Edited

\* A slider sets both limits, each in the changes as they were rendered: where
\* neither value is the last one, the lower limit is lost.
Slide(field) ==
    /\ Edits
    /\ \E val \in RangeFilter \ {filter.params[field]} :
          /\ val[1] = filter.params[field][1] \/ val[2] = filter.params[field][2]
          /\ filter' = [filter EXCEPT
                 !.left = val[1], !.right = val[2],
                 !.params[field] = IF filter.right # val[2] THEN <<@[1], val[2]>>
                                   ELSE IF filter.left # val[1] THEN <<val[1], @[2]>>
                                   ELSE @]
    /\ history' = Edited

Apply ==
    /\ filter.mounted /\ due = {} /\ history.edited
    /\ Len(requests) < MaxPending
    /\ filter' = [filter EXCEPT !.shouldApply = TRUE]
    /\ due' = {"apply"}
    /\ history' = [history EXCEPT !.clicked = TRUE]
    /\ UNCHANGED <<site, query, saved, params, isLoadingParams, jobList, isLoading, requests>>

---------------------------------------------------------------------------

Init ==
    /\ site \in {"jobs", "statistics"}
    /\ query \in [known : BOOLEAN, user : BOOLEAN, tag : BOOLEAN]
    /\ ~(query.user /\ query.tag)
    /\ saved \in EarlierParams \cup {None}
    /\ params = DefaultParams /\ isLoadingParams = TRUE
    /\ jobList = None /\ isLoading = TRUE
    /\ requests = <<>>
    /\ filter = [mounted |-> FALSE, params |-> DefaultParams, shouldApply |-> FALSE,
                 left |-> None, right |-> None, selectedTags |-> None]
    /\ due = {"load", "fetch", "time"} \cup (IF site = "jobs" THEN {"user", "tag"} ELSE {})
    /\ history = [earlier |-> saved, edits |-> 0, edited |-> FALSE, failures |-> 0, overtaken |-> FALSE,
                  clicked |-> FALSE, apart |-> FALSE]

Edit ==
    \/ \E field \in FieldsOfParams : ChangeOfParams(field)
    \/ \E field \in FieldsOfFilter : ChangeOfFilter(field)
    \/ \E field \in RangeFields : setLowerLimit(field) \/ setUpperLimit(field) \/ Slide(field)

Answer == \E i \in 1..Len(requests) : JobsAnswered(i) \/ RequestFails(i)

Next == RunEffects \/ Answer \/ RouterReady \/ Edit \/ Apply

Spec == Init /\ [][Next]_vars

\* React renders, the router becomes ready, and requests are answered or fail.
FairSpec == Spec /\ WF_vars(RunEffects) /\ WF_vars(RouterReady) /\ WF_vars(Answer)

---------------------------------------------------------------------------
(* Properties *)

Filter == [mounted : BOOLEAN, params : JobSearchParams, shouldApply : BOOLEAN,
           left : Limits \cup {None}, right : Limits \cup {None}, selectedTags : {Tag, None}]

\* All parameters are well-formed; ranges never turn round.
TypeOK ==
    /\ query \in [known : BOOLEAN, user : BOOLEAN, tag : BOOLEAN]
    /\ {saved, jobList} \subseteq JobSearchParams \cup {None}
    /\ params \in JobSearchParams
    /\ {isLoadingParams, isLoading} \subseteq BOOLEAN
    /\ requests \in Seq(JobSearchParams) /\ Len(requests) <= MaxPending
    /\ filter \in Filter
    /\ due \subseteq Effects

Settled == due = {} /\ requests = <<>> /\ query.known

\* However effects, answers and changes interleave: at rest the list is the one for
\* the parameters of the page, unless an answer overtook another one; the filter
\* shows these parameters, unless there are changes to apply; and the storage has
\* them, so that a reload shows the same. (What the picker shows may be apart from
\* them: see AppliesWhatIsShown.)
ListFollowsParams ==
    Settled =>
        /\ ~history.overtaken /\ history.failures = 0 => jobList = params
        /\ filter.mounted /\ ~history.edited =>
              filter.params = params /\ (~history.apart => ShownParams = params)
        /\ saved = params

\* What was saved survives the start of the page, where four effects set the
\* parameters, unless the address names a user or a tag. (With the name of a user
\* that is known at once it is lost: the effect writes the defaults.)
KeepsSavedParams ==
    Settled /\ history.edits = 0 /\ ~query.user /\ ~query.tag =>
        params = Recent(IF history.earlier # None THEN history.earlier ELSE DefaultParams)

\* The state is well-formed, and the saved parameters are kept.
Inv == TypeOK /\ KeepsSavedParams

\* What is applied is what the filter showed, for all fields at once, however changes,
\* answers and the effects interleaved. The tags that its picker shows are apart from
\* what is applied in three cases only: the filter appeared when the parameters had
\* tags already, the user or the partition was changed while picked tags were not yet
\* applied, or an effect put the user or the tag of the address into the parameters;
\* and picking tags ends each of them.
AppliesWhatIsShown == [][Applies /\ RunEffects /\ ~history.apart => params' = ShownParams]_vars

\* The effects do not set each other off for ever: the page comes to rest, unless
\* the address names a tag. (Then each answer sets the tag again, which asks again.)
ComesToRest == <>[](Settled \/ query.tag)

===========================================================================

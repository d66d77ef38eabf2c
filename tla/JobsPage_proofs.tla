--------------------------- MODULE JobsPage_proofs ---------------------------
(***************************************************************************)
(* The list of jobs is the one for its parameters, saved parameters are    *)
(* kept, and what is applied was shown: for any values of the parameters   *)
(* and any bounds.                                                         *)
(*                                                                         *)
(* The second part is about long lists: no page is blank, leafing through  *)
(* shows all, and a page is found again. It holds for any jobs and results *)
(* of a search, any choice of limits and of keys to sort by.               *)
(***************************************************************************)
EXTENDS JobsPage, PagedLists, FiniteSetTheorems, FunctionTheorems, SequenceTheorems, TLAPS

USE JobsPageAssumption

---------------------------------------------------------------------------
(* The invariant *)

\* What has happened so far.
History == [earlier : JobSearchParams \cup {None}, edits : Nat, edited : BOOLEAN, failures : Nat,
            overtaken : BOOLEAN, clicked : BOOLEAN, apart : BOOLEAN]

Types == TypeOK /\ history \in History

\* Until the storage has been read, the effect that reads it is due.
LoadsFirst == isLoadingParams => "load" \in due

\* Changes are applied by the very next step, and only if there are any.
AppliesNext ==
    filter.shouldApply => due = {"apply"} /\ history.clicked /\ history.edited /\ filter.mounted

\* The page starts before it asks for anything, and before the filter is there.
BeginInv ==
    /\ "load" \in due => isLoadingParams
    /\ "load" \in due \/ "time" \in due => requests = <<>> /\ ~filter.mounted

\* The picker shows the tags of the filter, also when the filter is reset next.
TagsInv ==
    filter.mounted /\ ~history.apart =>
        filter.selectedTags = IF "reset" \in due THEN params.Tags ELSE filter.params.Tags

\* The storage has the parameters, or an effect that writes them is due.
SavedInv == saved = params \/ "load" \in due \/ ("time" \in due /\ ~isLoadingParams)

\* The filter has the parameters, or changes, or will be reset.
FilterInv == filter.mounted /\ ~history.edited => filter.params = params \/ "reset" \in due

\* The last question was about the parameters, or another one is due.
Asked == IF requests = <<>> THEN jobList = params ELSE requests[Len(requests)] = params
ListInv == ~history.overtaken /\ history.failures = 0 => Asked \/ "fetch" \in due

\* The parameters the page starts from.
StartParams == IF history.earlier # None THEN history.earlier ELSE DefaultParams

\* The parameters before anything was changed: defaults, then those that were saved,
\* then these with the time.
StartInv ==
    ~query.user /\ ~query.tag /\ history.edits = 0 =>
        /\ ~history.edited
        /\ \/ isLoadingParams /\ params = DefaultParams /\ saved = history.earlier
           \/ ~isLoadingParams /\ "load" \notin due /\ "time" \in due /\ params = StartParams
           \/ ~isLoadingParams /\ "load" \notin due /\ "time" \notin due /\ params = Recent(StartParams)

OrderInv ==
    /\ LoadsFirst /\ AppliesNext /\ BeginInv
    /\ SavedInv /\ FilterInv /\ TagsInv /\ ListInv /\ StartInv

---------------------------------------------------------------------------
(* Parameters *)

LEMMA Ranges ==
    /\ <<1, MaxLimit>> \in RangeFilter
    /\ \A r \in RangeFilter : /\ r[1] \in Limits /\ r[2] \in Limits /\ r[1] <= r[2]
                              /\ r = <<r[1], r[2]>>
    /\ \A a, b \in Limits : a <= b => <<a, b>> \in RangeFilter
    BY DEF RangeFilter, Limits

\* Changing one limit of a range.
LEMMA Limit ==
    ASSUME NEW r \in RangeFilter, NEW v \in Limits
    PROVE  /\ [r EXCEPT ![1] = v] = <<v, r[2]>>
           /\ [r EXCEPT ![2] = v] = <<r[1], v>>
    BY Ranges

LEMMA Defaults == DefaultParams \in JobSearchParams /\ EarlierParams \subseteq JobSearchParams
    BY Ranges DEF DefaultParams, EarlierParams, JobSearchParams

\* Setting one field.
LEMMA SetField ==
    ASSUME NEW p \in JobSearchParams
    PROVE  /\ Recent(p) \in JobSearchParams
           /\ Recent(Recent(p)) = Recent(p)
           /\ [p EXCEPT !.Tags = Tag] \in JobSearchParams
           /\ [p EXCEPT !.UserName = User] \in JobSearchParams
    BY DEF Recent, JobSearchParams

\* A field takes one of its values.
LEMMA SetValue ==
    ASSUME NEW p \in JobSearchParams,
           NEW field \in {"UserName", "Partition", "Tags", "IsRunning", "Time", "NumNodes", "NumGpus"},
           NEW v \in Values(field)
    PROVE  [p EXCEPT ![field] = v] \in JobSearchParams
    <1>1. PICK q \in JobSearchParams : v = q[field]
        BY DEF Values
    <1> QED
        BY <1>1 DEF JobSearchParams

LEMMA SetRange ==
    ASSUME NEW p \in JobSearchParams, NEW field \in RangeFields, NEW r \in RangeFilter
    PROVE  [p EXCEPT ![field] = r] \in JobSearchParams /\ p[field] \in RangeFilter
    BY DEF JobSearchParams, RangeFields

---------------------------------------------------------------------------
(* Types *)

LEMMA InitTypes == Init => Types
    <1> SUFFICES ASSUME Init PROVE Types
        OBVIOUS
    <1>1. filter \in Filter
        BY Defaults DEF Init, Filter
    <1>2. saved \in JobSearchParams \cup {None} /\ params \in JobSearchParams
        BY Defaults DEF Init
    <1>3. due \subseteq Effects
        BY DEF Init, Effects
    <1>4. history \in History
        BY <1>2 DEF Init, History
    <1>5. requests \in Seq(JobSearchParams) /\ Len(requests) <= MaxPending
        BY DEF Init
    <1> QED
        BY <1>1, <1>2, <1>3, <1>4, <1>5 DEF Init, Types, TypeOK

LEMMA InitOrder == Init => OrderInv
    <1> SUFFICES ASSUME Init PROVE OrderInv
        OBVIOUS
    <1>1. LoadsFirst /\ AppliesNext /\ BeginInv /\ FilterInv /\ TagsInv /\ SavedInv
        BY DEF Init, LoadsFirst, AppliesNext, BeginInv, FilterInv, TagsInv, SavedInv
    <1>2. ListInv
        BY DEF Init, ListInv
    <1>3. StartInv
        BY DEF Init, StartInv
    <1> QED
        BY <1>1, <1>2, <1>3 DEF OrderInv

---------------------------------------------------------------------------
(* Requests *)

LEMMA ConcatFacts ==
    ASSUME NEW S, NEW a \in Seq(S), NEW b \in Seq(S)
    PROVE  /\ a \o b \in Seq(S) /\ Len(a \o b) = Len(a) + Len(b)
           /\ \A j \in 1..Len(b) : (a \o b)[Len(a) + j] = b[j]
    OBVIOUS

LEMMA RemoveFacts ==
    ASSUME NEW S, NEW seq \in Seq(S), NEW i \in 1..Len(seq)
    PROVE  /\ RemoveAt(seq, i) \in Seq(S)
           /\ Len(RemoveAt(seq, i)) = Len(seq) - 1
           /\ i = 1 /\ Len(seq) > 1 =>
                  RemoveAt(seq, i)[Len(RemoveAt(seq, i))] = seq[Len(seq)]
    <1> DEFINE before == SubSeq(seq, 1, i - 1)
               after == SubSeq(seq, i + 1, Len(seq))
    <1>1. RemoveAt(seq, i) = before \o after
        BY DEF RemoveAt
    <1>2. before \in Seq(S) /\ Len(before) = i - 1
        OBVIOUS
    <1>3. /\ after \in Seq(S) /\ Len(after) = Len(seq) - i
          /\ \A j \in 1..Len(after) : after[j] = seq[i + j]
        OBVIOUS
    <1> HIDE DEF before, after
    <1>4. /\ before \o after \in Seq(S) /\ Len(before \o after) = Len(before) + Len(after)
          /\ \A j \in 1..Len(after) : (before \o after)[Len(before) + j] = after[j]
        <2>1. before \in Seq(S) /\ after \in Seq(S)
            BY <1>2, <1>3
        <2> QED
            BY <2>1, ConcatFacts, Zenon
    <1>5. Len(seq) \in Nat
        OBVIOUS
    <1>6. ASSUME i = 1, Len(seq) > 1
          PROVE  (before \o after)[Len(before \o after)] = seq[Len(seq)]
        <2>1. Len(after) \in 1..Len(after) /\ Len(before) + Len(after) = Len(after)
            BY <1>2, <1>3, <1>5, <1>6
        <2>2. (before \o after)[Len(after)] = after[Len(after)] /\ after[Len(after)] = seq[Len(seq)]
            BY <1>2, <1>3, <1>4, <1>5, <1>6, <2>1
        <2> QED
            BY <1>4, <2>1, <2>2
    <1> QED
        BY <1>1, <1>2, <1>3, <1>4, <1>5, <1>6, SMTT(20)

---------------------------------------------------------------------------
(* Types are preserved *)

LEMMA RunEffectsTypes == Types /\ RunEffects => Types'
    <1> SUFFICES ASSUME Types, RunEffects PROVE Types'
        OBVIOUS
    <1>1. ParamsToSet \in JobSearchParams
        BY SetField DEF Types, TypeOK, Filter, ParamsToSet
    <1>2. /\ params' \in JobSearchParams
          /\ saved' \in JobSearchParams \cup {None}
        BY <1>1 DEF Types, TypeOK, RunEffects, ParamsAfterEffects, SavedAfterEffects
    <1>3. requests' \in Seq(JobSearchParams) /\ Len(requests') <= MaxPending
        BY DEF Types, TypeOK, RunEffects
    <1>4. filter' \in Filter
        BY DEF Types, TypeOK, Filter, RunEffects, StaysMounted, Applies
    <1>5. history' \in History
        <2>1. SetsUser \in BOOLEAN /\ SetsTag \in BOOLEAN
            BY DEF SetsUser, SetsTag, Types, TypeOK
        <2> QED
            BY <2>1 DEF Types, History, RunEffects
    <1>6. due' \subseteq Effects
        BY DEF RunEffects, DueAfterEffects, Effects
    <1>7. {isLoadingParams', isLoading'} \subseteq BOOLEAN
        BY DEF Types, TypeOK, RunEffects, Loads
    <1> QED
        BY <1>2, <1>3, <1>4, <1>5, <1>6, <1>7 DEF Types, TypeOK, RunEffects

LEMMA AnswerTypes == Types /\ Answer => Types'
    <1> SUFFICES ASSUME Types, NEW i \in 1..Len(requests), JobsAnswered(i) \/ RequestFails(i)
                 PROVE  Types'
        BY DEF Answer
    <1>1. requests[i] \in JobSearchParams
        BY DEF Types, TypeOK
    <1>2. requests' \in Seq(JobSearchParams) /\ Len(requests') <= MaxPending
        BY RemoveFacts DEF Types, TypeOK, JobsAnswered, RequestFails
    <1>3. CASE JobsAnswered(i)
        <2>1. filter' \in Filter
            BY <1>3, SetField DEF Types, TypeOK, Filter, JobsAnswered
        <2>2. history' \in History
            BY <1>3 DEF Types, History, JobsAnswered
        <2>3. due' \subseteq Effects
            BY <1>3 DEF Types, TypeOK, JobsAnswered, Effects
        <2> QED
            BY <1>1, <1>2, <1>3, <2>1, <2>2, <2>3 DEF Types, TypeOK, JobsAnswered
    <1>4. CASE RequestFails(i)
        <2>1. history' \in History
            <3>1. history \in History /\ history.failures + 1 \in Nat
                BY DEF Types, History
            <3> QED
                BY <1>4, <3>1 DEF History, RequestFails
        <2> QED
            BY <1>2, <1>4, <2>1 DEF Types, TypeOK, RequestFails
    <1> QED
        BY <1>3, <1>4

LEMMA RouterReadyTypes == Types /\ RouterReady => Types'
    BY DEF Types, TypeOK, RouterReady, Effects

\* An edit is one more change.
LEMMA EditHistory ==
    ASSUME Types, Edit
    PROVE  /\ history' \in History /\ history'.earlier = history.earlier
           /\ history'.edited /\ history'.clicked /\ history'.edits # 0
           /\ history'.failures = history.failures /\ history'.overtaken = history.overtaken
    <1>1. history \in History /\ history.edits \in Nat /\ history.edits + 1 \in Nat /\ history.edits + 1 # 0
        BY DEF Types, History
    <1>2. Edited \in History
        BY <1>1 DEF Edited, History
    <1>3. history' = Edited \/ \E b \in BOOLEAN : history' = [Edited EXCEPT !.apart = b]
        BY DEF Edit, ChangeOfParams, ChangeOfFilter, setLowerLimit, setUpperLimit, Slide
    <1>4. /\ history' \in History /\ history'.earlier = Edited.earlier
          /\ history'.edited = Edited.edited /\ history'.clicked = Edited.clicked
          /\ history'.edits = Edited.edits
          /\ history'.failures = Edited.failures /\ history'.overtaken = Edited.overtaken
        BY <1>2, <1>3 DEF History
    <1> QED
        BY <1>1, <1>4 DEF Edited, History

\* What an edit does to the filter.
LEMMA EditFilter ==
    ASSUME Types, Edit
    PROVE  Edits /\ filter' \in Filter /\ filter'.mounted /\ filter'.shouldApply = filter.shouldApply
    <1>1. ASSUME NEW field \in FieldsOfParams, ChangeOfParams(field)
          PROVE  Edits /\ filter' \in Filter /\ filter'.mounted /\ filter'.shouldApply = filter.shouldApply
        <2>1. PICK value \in Values(field) :
                  filter' = [filter EXCEPT
                                !.params = [params EXCEPT ![field] = value],
                                !.selectedTags = IF field = "Tags" THEN value ELSE @]
            BY <1>1 DEF ChangeOfParams
        <2>2. [params EXCEPT ![field] = value] \in JobSearchParams
            BY SetValue DEF FieldsOfParams, Types, TypeOK
        <2>3. field = "Tags" => value \in {Tag, None}
            BY DEF Values, JobSearchParams
        <2> QED
            BY <1>1, <2>1, <2>2, <2>3 DEF ChangeOfParams, Edits, Types, TypeOK, Filter
    <1>2. ASSUME NEW field \in FieldsOfFilter, ChangeOfFilter(field)
          PROVE  Edits /\ filter' \in Filter /\ filter'.mounted /\ filter'.shouldApply = filter.shouldApply
        <2>1. PICK value \in Values(field) : filter' = [filter EXCEPT !.params[field] = value]
            BY <1>2 DEF ChangeOfFilter
        <2>2. [filter.params EXCEPT ![field] = value] \in JobSearchParams
            BY SetValue DEF FieldsOfFilter, Types, TypeOK, Filter
        <2> QED
            BY <1>2, <2>1, <2>2 DEF ChangeOfFilter, Edits, Types, TypeOK, Filter
    <1>3. ASSUME NEW field \in RangeFields,
                 setLowerLimit(field) \/ setUpperLimit(field) \/ Slide(field)
          PROVE  Edits /\ filter' \in Filter /\ filter'.mounted /\ filter'.shouldApply = filter.shouldApply
        <2> DEFINE range == filter.params[field]
        <2>1. filter.params \in JobSearchParams /\ range \in RangeFilter /\ filter \in Filter
            <3>1. filter \in Filter /\ filter.params \in JobSearchParams
                BY DEF Types, TypeOK, Filter
            <3> QED
                BY <3>1 DEF JobSearchParams, RangeFields
        <2>2. Edits /\ filter.mounted
            BY <1>3 DEF setLowerLimit, setUpperLimit, Slide, Edits
        <2>3. CASE setLowerLimit(field)
            <3>1. PICK val \in Limits :
                    /\ val <= range[2]
                    /\ filter' = IF filter.left = val THEN filter
                                 ELSE [filter EXCEPT !.left = val, !.params[field][1] = val]
                BY <2>3 DEF setLowerLimit
            <3> DEFINE limited == [filter.params EXCEPT ![field] = [range EXCEPT ![1] = val]]
            <3>2. [range EXCEPT ![1] = val] \in RangeFilter
                BY <2>1, <3>1, Ranges, Limit DEF Limits
            <3>3. limited \in JobSearchParams
                BY <2>1, <3>2, SetRange
            <3>4. CASE filter.left # val
                <4>1. filter' = [filter EXCEPT !.left = val, !.params = limited]
                    BY <3>1, <3>4
                <4> HIDE DEF limited
                <4> QED
                    BY <2>1, <2>2, <3>1, <3>3, <4>1 DEF Filter
            <3> QED
                BY <2>1, <2>2, <3>1, <3>4
        <2>4. CASE setUpperLimit(field)
            <3>1. PICK val \in Limits :
                    /\ val >= range[1]
                    /\ filter' = IF filter.right = val THEN filter
                                 ELSE [filter EXCEPT !.right = val, !.params[field][2] = val]
                BY <2>4 DEF setUpperLimit
            <3> DEFINE limited == [filter.params EXCEPT ![field] = [range EXCEPT ![2] = val]]
            <3>2. [range EXCEPT ![2] = val] \in RangeFilter
                BY <2>1, <3>1, Ranges, Limit DEF Limits
            <3>3. limited \in JobSearchParams
                BY <2>1, <3>2, SetRange
            <3>4. CASE filter.right # val
                <4>1. filter' = [filter EXCEPT !.right = val, !.params = limited]
                    BY <3>1, <3>4
                <4> HIDE DEF limited
                <4> QED
                    BY <2>1, <2>2, <3>1, <3>3, <4>1 DEF Filter
            <3> QED
                BY <2>1, <2>2, <3>1, <3>4
        <2>5. CASE Slide(field)
            <3>1. PICK val \in RangeFilter :
                    /\ val[1] = range[1] \/ val[2] = range[2]
                    /\ filter' = [filter EXCEPT
                          !.left = val[1], !.right = val[2],
                          !.params[field] = IF filter.right # val[2] THEN <<@[1], val[2]>>
                                            ELSE IF filter.left # val[1] THEN <<val[1], @[2]>>
                                            ELSE @]
                BY <2>5 DEF Slide
            <3> DEFINE slid == IF filter.right # val[2] THEN <<range[1], val[2]>>
                               ELSE IF filter.left # val[1] THEN <<val[1], range[2]>>
                               ELSE range
                       limited == [filter.params EXCEPT ![field] = slid]
            <3>2. slid \in RangeFilter
                BY <2>1, <3>1, Ranges
            <3>3. limited \in JobSearchParams
                BY <2>1, <3>2, SetRange
            <3>4. filter' = [filter EXCEPT !.left = val[1], !.right = val[2], !.params = limited]
                BY <3>1
            <3>5. val[1] \in Limits /\ val[2] \in Limits
                BY Ranges
            <3> HIDE DEF limited
            <3> QED
                BY <2>1, <2>2, <3>3, <3>4, <3>5 DEF Filter
        <2> QED
            BY <1>3, <2>3, <2>4, <2>5
    <1> QED
        BY <1>1, <1>2, <1>3 DEF Edit

LEMMA EditTypes == Types /\ Edit => Types'
    <1> SUFFICES ASSUME Types, Edit PROVE Types'
        OBVIOUS
    <1>1. Edits /\ filter' \in Filter
        BY EditFilter
    <1>2. history' \in History
        BY EditHistory
    <1> QED
        BY <1>1, <1>2 DEF Types, TypeOK, Edits, Effects

LEMMA ApplyTypes == Types /\ Apply => Types'
    <1> SUFFICES ASSUME Types, Apply PROVE Types'
        OBVIOUS
    <1>1. filter' \in Filter
        BY DEF Types, TypeOK, Filter, Apply
    <1>2. history' \in History
        BY DEF Types, History, Apply
    <1> QED
        BY <1>1, <1>2 DEF Types, TypeOK, Apply, Effects

---------------------------------------------------------------------------
(* The order of effects, answers and changes *)

\* What the effects leave alone, and when they set the parameters.
LEMMA EffectFacts ==
    ASSUME Types, RunEffects
    PROVE  /\ history \in History /\ filter \in Filter
           /\ params' = ParamsAfterEffects /\ saved' = SavedAfterEffects
           /\ due' = DueAfterEffects
           /\ history'.apart = (history.apart \/ SetsUser \/ SetsTag)
           /\ history'.earlier = history.earlier /\ history'.edits = history.edits
           /\ history'.edited = (history.edited /\ "reset" \notin due)
           /\ history'.failures = history.failures /\ history'.overtaken = history.overtaken
           /\ filter'.mounted = StaysMounted
           /\ filter'.params = IF "reset" \in due THEN params ELSE filter.params
           /\ filter'.shouldApply = (filter.shouldApply /\ ~Applies)
           /\ filter'.selectedTags = filter.selectedTags
           /\ "load" \notin due' /\ ("time" \in due' <=> Loads)
           /\ "fetch" \in due' <=> (SetsParams \/ Loads)
    <1>1. history \in History /\ filter \in Filter
        BY DEF Types, TypeOK
    <1>2. history' = [history EXCEPT !.edited = @ /\ "reset" \notin due, !.clicked = FALSE,
                                     !.apart = @ \/ SetsUser \/ SetsTag]
        BY DEF RunEffects
    <1>3. filter' = [filter EXCEPT !.params = IF "reset" \in due THEN params ELSE @,
                                   !.shouldApply = @ /\ ~Applies,
                                   !.mounted = StaysMounted]
        BY DEF RunEffects
    <1>4. due' = DueAfterEffects /\ params' = ParamsAfterEffects /\ saved' = SavedAfterEffects
        BY DEF RunEffects
    <1>5. /\ "load" \notin due' /\ ("time" \in due' <=> Loads)
          /\ "fetch" \in due' <=> (SetsParams \/ Loads)
        BY <1>4 DEF DueAfterEffects
    <1>6. /\ history'.earlier = history.earlier /\ history'.edits = history.edits
          /\ history'.apart = (history.apart \/ SetsUser \/ SetsTag)
          /\ history'.edited = (history.edited /\ "reset" \notin due)
          /\ history'.failures = history.failures /\ history'.overtaken = history.overtaken
        BY <1>1, <1>2 DEF History
    <1>7. /\ filter'.mounted = StaysMounted
          /\ filter'.params = IF "reset" \in due THEN params ELSE filter.params
          /\ filter'.shouldApply = (filter.shouldApply /\ ~Applies)
          /\ filter'.selectedTags = filter.selectedTags
        BY <1>1, <1>3 DEF Filter
    <1> QED
        BY <1>1, <1>2, <1>4, <1>5, <1>6, <1>7

\* The parameters change only together with the effects that follow from that.
LEMMA ParamsChange ==
    ASSUME Types, RunEffects, params' # params
    PROVE  /\ SetsParams \/ (Loads /\ saved # None)
           /\ "fetch" \in due' /\ (filter'.mounted => "reset" \in due')
    BY EffectFacts DEF ParamsAfterEffects, DueAfterEffects

LEMMA RunEffectsOrder == Types /\ OrderInv /\ RunEffects => OrderInv'
    <1> SUFFICES ASSUME Types, OrderInv, RunEffects PROVE OrderInv'
        OBVIOUS
    <1>1. LoadsFirst'
        BY DEF OrderInv, LoadsFirst, RunEffects, Loads
    <1>2. AppliesNext'
        BY EffectFacts DEF OrderInv, AppliesNext, Applies
    <1>3. SavedInv'
        <2>1. CASE SetsParams
            BY <2>1, EffectFacts DEF ParamsAfterEffects, SavedAfterEffects, SavedInv
        <2>2. CASE ~SetsParams /\ Loads
            <3>1. "time" \in due' /\ ~isLoadingParams'
                BY <2>2, EffectFacts DEF RunEffects
            <3> QED
                BY <3>1 DEF SavedInv
        <2>3. CASE ~SetsParams /\ ~Loads
            BY <2>3, EffectFacts
               DEF ParamsAfterEffects, SavedAfterEffects, OrderInv, SavedInv, SetsParams, SetsTime, Loads
        <2> QED
            BY <2>1, <2>2, <2>3
    <1>4. FilterInv'
        BY EffectFacts, ParamsChange DEF OrderInv, FilterInv, StaysMounted
    <1>7. BeginInv'
        <2>1. CASE Loads
            <3>1. ~Fetches /\ requests = <<>> /\ ~filter.mounted
                BY <2>1 DEF OrderInv, BeginInv, Loads, Fetches
            <3>2. requests' = <<>> /\ ~filter'.mounted
                BY <3>1, EffectFacts DEF RunEffects, StaysMounted
            <3> QED
                BY <3>2, EffectFacts DEF BeginInv
        <2>2. CASE ~Loads
            BY <2>2, EffectFacts DEF BeginInv
        <2> QED
            BY <2>1, <2>2
    <1>8. TagsInv'
        <2> SUFFICES ASSUME filter'.mounted, ~history'.apart
                     PROVE  filter'.selectedTags =
                                IF "reset" \in due' THEN params'.Tags ELSE filter'.params.Tags
            BY DEF TagsInv
        <2>1. filter.mounted /\ ~history.apart /\ ~SetsUser /\ ~SetsTag /\ StaysMounted
            BY EffectFacts, Zenon DEF StaysMounted
        <2>2. "load" \notin due /\ "time" \notin due /\ ~Loads /\ ~SetsTime
            BY <2>1 DEF OrderInv, BeginInv, Loads, SetsTime
        <2>3. filter.selectedTags = IF "reset" \in due THEN params.Tags ELSE filter.params.Tags
            BY <2>1 DEF OrderInv, TagsInv
        <2>4. CASE Applies
            <3>1. due = {"apply"}
                BY <2>4 DEF OrderInv, AppliesNext, Applies
            <3>2. params' = filter.params
                BY <2>1, <2>2, <2>4, EffectFacts DEF ParamsAfterEffects, SetsParams, ParamsToSet
            <3>3. "reset" \in due'
                BY <2>1, <2>4, EffectFacts DEF DueAfterEffects, SetsParams
            <3> QED
                BY <2>3, <3>1, <3>2, <3>3, EffectFacts
        <2>5. CASE ~Applies
            <3>1. "reset" \notin due'
                BY <2>1, <2>2, <2>5, EffectFacts DEF DueAfterEffects, SetsParams
            <3> QED
                BY <2>3, <3>1, EffectFacts
        <2> QED
            BY <2>4, <2>5
    <1>5. ListInv'
        <2> SUFFICES ASSUME ~history.overtaken, history.failures = 0, "fetch" \notin due'
                     PROVE  Asked'
            BY EffectFacts DEF ListInv
        <2>1. params' = params
            BY ParamsChange
        <2>2. ~isLoadingParams
            BY EffectFacts DEF OrderInv, LoadsFirst, Loads
        <2>3. CASE Fetches
            <3>1. requests' = Append(requests, params)
                BY <2>3 DEF RunEffects
            <3>2. requests' # <<>> /\ requests'[Len(requests')] = params
                BY <3>1 DEF Types, TypeOK
            <3> QED
                BY <2>1, <3>2 DEF Asked
        <2>4. CASE ~Fetches
            BY <2>1, <2>2, <2>4 DEF OrderInv, ListInv, Asked, Fetches, RunEffects
        <2> QED
            BY <2>3, <2>4
    <1>6. StartInv'
        <2> SUFFICES ASSUME ~query.user, ~query.tag, history.edits = 0
                     PROVE  StartInv'
            BY EffectFacts DEF StartInv, RunEffects
        <2>1. query' = query /\ ~history.edited /\ ~history'.edited
            BY EffectFacts DEF OrderInv, StartInv, RunEffects
        <2>2. /\ ~SetsUser /\ ~SetsTag /\ ~Applies
              /\ SetsParams <=> SetsTime
            BY <2>1 DEF OrderInv, AppliesNext, SetsUser, SetsTag, Applies, SetsParams
        <2>3. SetsTime => ParamsToSet = Recent(params)
            BY <2>2 DEF ParamsToSet
        <2>5. CASE isLoadingParams
            BY <2>1, <2>2, <2>5, EffectFacts
               DEF OrderInv, StartInv, LoadsFirst, Loads, SetsTime, ParamsAfterEffects, StartParams, RunEffects
        <2>6. CASE ~isLoadingParams
            <3>1. "load" \notin due /\ ~Loads /\ ~isLoadingParams'
                BY <2>1, <2>6 DEF OrderInv, StartInv, Loads, RunEffects
            <3>2. params' = IF "time" \in due THEN Recent(params) ELSE params
                BY <2>2, <2>3, <2>6, <3>1, EffectFacts DEF ParamsAfterEffects, SetsTime
            <3>3. params' = Recent(StartParams)
                BY <2>6, <3>1, <3>2 DEF OrderInv, StartInv
            <3>4. "load" \notin due' /\ "time" \notin due'
                BY <3>1, EffectFacts
            <3> QED
                BY <2>1, <3>1, <3>3, <3>4, EffectFacts DEF StartInv, StartParams
        <2> QED
            BY <2>5, <2>6
    <1> QED
        BY <1>1, <1>2, <1>3, <1>4, <1>5, <1>6, <1>7, <1>8 DEF OrderInv

\* The parameters and what becomes of them are left alone.
Kept == UNCHANGED <<query, saved, params, isLoadingParams>>

LEMMA AnswerOrder == Types /\ OrderInv /\ Answer => OrderInv'
    <1> SUFFICES ASSUME Types, OrderInv, NEW i \in 1..Len(requests), JobsAnswered(i) \/ RequestFails(i)
                 PROVE  OrderInv'
        BY DEF Answer
    <1>1. /\ Idle /\ Kept /\ due \subseteq due'
          /\ ("load" \in due' <=> "load" \in due) /\ ("time" \in due' <=> "time" \in due)
          /\ requests' = RemoveAt(requests, i)
        BY DEF JobsAnswered, RequestFails, Kept
    <1>2. ~filter.shouldApply
        BY <1>1 DEF OrderInv, AppliesNext, Idle
    <1>3. /\ history \in History /\ filter \in Filter
          /\ requests \in Seq(JobSearchParams) /\ Len(requests) \in Nat
        BY DEF Types, TypeOK
    <1>4. /\ history'.earlier = history.earlier /\ history'.edits = history.edits
          /\ history'.edited = history.edited
        BY <1>3 DEF JobsAnswered, RequestFails, History
    <1>5. ~filter'.shouldApply
        BY <1>2, <1>3 DEF JobsAnswered, RequestFails, Filter
    <1>6. LoadsFirst' /\ AppliesNext' /\ SavedInv'
        BY <1>1, <1>5 DEF OrderInv, LoadsFirst, AppliesNext, SavedInv, Kept
    <1>7. FilterInv'
        <2>1. filter' = filter \/ "reset" \in due'
            BY DEF JobsAnswered, RequestFails
        <2> QED
            BY <1>1, <1>4, <2>1 DEF OrderInv, FilterInv, Kept
    <1>10. BeginInv'
        <2>1. requests # <<>>
            BY <1>3
        <2> QED
            BY <1>1, <2>1 DEF OrderInv, BeginInv
    <1>11. TagsInv'
        <2>1. CASE JobsAnswered(i) /\ ~filter.mounted
            <3>1. "reset" \in due' /\ filter'.selectedTags = None
                BY <2>1 DEF JobsAnswered
            <3>2. history'.apart = (params.Tags # None)
                BY <1>3, <2>1 DEF JobsAnswered, History
            <3> QED
                BY <1>1, <3>1, <3>2 DEF TagsInv, Kept
        <2>2. CASE ~(JobsAnswered(i) /\ ~filter.mounted)
            <3>1. filter' = filter /\ ("reset" \in due' <=> "reset" \in due)
                BY <2>2 DEF JobsAnswered, RequestFails
            <3>2. history'.apart = history.apart
                BY <1>3, <2>2 DEF JobsAnswered, RequestFails, History
            <3> QED
                BY <1>1, <3>1, <3>2 DEF OrderInv, TagsInv, Kept
        <2> QED
            BY <2>1, <2>2
    <1>8. ListInv'
        <2> SUFFICES ASSUME ~history'.overtaken, history'.failures = 0, "fetch" \notin due'
                     PROVE  Asked'
            BY DEF ListInv
        <2>1. CASE JobsAnswered(i)
            <3>1. ~history.overtaken /\ i = 1 /\ history.failures = 0
                <4>1. history' = [history EXCEPT !.overtaken = @ \/ i > 1, !.clicked = FALSE,
                                      !.apart = IF filter.mounted THEN @ ELSE params.Tags # None]
                    BY <2>1 DEF JobsAnswered
                <4>2. history'.failures = history.failures
                    BY <1>3, <4>1 DEF History
                <4>3. history'.overtaken = (history.overtaken \/ i > 1)
                    BY <1>3, <4>1 DEF History
                <4>4. ~history.overtaken /\ ~(i > 1)
                    BY <4>3, Zenon
                <4>5. i = 1
                    BY <1>3, <4>4
                <4> QED
                    BY <4>2, <4>4, <4>5
            <3>2. requests # <<>> /\ requests[Len(requests)] = params
                BY <1>1, <1>3, <3>1 DEF OrderInv, ListInv, Asked
            <3>3. CASE Len(requests) = 1
                <4>1. requests' = <<>>
                    BY <1>1, <1>3, <3>3, RemoveFacts
                <4> QED
                    BY <1>1, <2>1, <3>1, <3>2, <3>3, <4>1 DEF Asked, JobsAnswered, Kept
            <3>4. CASE Len(requests) > 1
                <4>1. requests'[Len(requests')] = requests[Len(requests)] /\ Len(requests') = Len(requests) - 1
                    BY <1>1, <1>3, <3>1, <3>4, RemoveFacts
                <4>2. requests' # <<>>
                    BY <1>3, <3>4, <4>1
                <4> QED
                    BY <1>1, <3>2, <4>1, <4>2 DEF Asked, Kept
            <3>5. Len(requests) = 1 \/ Len(requests) > 1
                <4>1. 1 \in 1..Len(requests)
                    BY <3>1
                <4> QED
                    BY <1>3, <4>1
            <3> QED
                BY <3>3, <3>4, <3>5
        <2>2. CASE RequestFails(i)
            BY <1>3, <2>2 DEF RequestFails, History
        <2> QED
            BY <2>1, <2>2
    <1>9. StartInv'
        BY <1>1, <1>4 DEF OrderInv, StartInv, StartParams, Kept
    <1> QED
        BY <1>6, <1>7, <1>8, <1>9, <1>10, <1>11 DEF OrderInv

LEMMA RouterReadyOrder == Types /\ OrderInv /\ RouterReady => OrderInv'
    <1> SUFFICES ASSUME Types, OrderInv, RouterReady PROVE OrderInv'
        OBVIOUS
    <1>1. /\ due \subseteq due'
          /\ ("load" \in due' <=> "load" \in due) /\ ("time" \in due' <=> "time" \in due)
          /\ ("reset" \in due' <=> "reset" \in due)
          /\ query'.user = query.user /\ query'.tag = query.tag
        BY DEF RouterReady, Types, TypeOK
    <1>2. ~filter.shouldApply
        BY DEF OrderInv, AppliesNext, RouterReady, Idle
    <1> QED
        BY <1>1, <1>2 DEF RouterReady, OrderInv, LoadsFirst, AppliesNext, BeginInv, SavedInv, FilterInv,
                          TagsInv, ListInv, Asked, StartInv, StartParams

\* A click of the user, after which the filter may be applied.
LEMMA ClickOrder ==
    ASSUME Types, OrderInv, due = {}, due' = {"apply"}, Kept, UNCHANGED <<jobList, requests>>,
           history'.edited, history'.clicked, history'.earlier = history.earlier,
           filter'.mounted, TagsInv',
           history'.failures = history.failures, history'.overtaken = history.overtaken,
           history'.edits = 0 => history.edits = 0 /\ history.edited
    PROVE  OrderInv'
    <1>1. ~isLoadingParams
        BY DEF OrderInv, LoadsFirst
    <1>2. LoadsFirst' /\ AppliesNext' /\ BeginInv' /\ SavedInv' /\ FilterInv'
        BY <1>1 DEF OrderInv, LoadsFirst, AppliesNext, BeginInv, SavedInv, FilterInv, Kept
    <1>3. ListInv'
        BY DEF OrderInv, ListInv, Asked, Kept
    <1>4. StartInv'
        <2>1. ~query.user /\ ~query.tag => history'.edits # 0
            BY DEF OrderInv, StartInv
        <2> QED
            BY <2>1 DEF StartInv, Kept
    <1> QED
        BY <1>2, <1>3, <1>4 DEF OrderInv

\* A change keeps picker and tags together, unless it sets them apart.
LEMMA EditTags ==
    ASSUME Types, TagsInv, Edit
    PROVE  TagsInv'
    <1> SUFFICES ASSUME ~history'.apart
                 PROVE  filter'.selectedTags = filter'.params.Tags
        BY EditFilter DEF TagsInv, Edits
    <1>1. /\ filter \in Filter /\ filter.params \in JobSearchParams /\ params \in JobSearchParams
          /\ history \in History /\ Edited \in History
        <2>1. history \in History /\ history.edits + 1 \in Nat
            BY DEF Types, History
        <2>2. Edited \in History
            BY <2>1 DEF History, Edited
        <2> QED
            BY <2>1, <2>2 DEF Types, TypeOK, Filter
    <1>2. ASSUME NEW field \in FieldsOfParams, ChangeOfParams(field)
          PROVE  filter'.selectedTags = filter'.params.Tags
        <2>1. PICK value \in Values(field) :
                  filter' = [filter EXCEPT
                                !.params = [params EXCEPT ![field] = value],
                                !.selectedTags = IF field = "Tags" THEN value ELSE @]
            BY <1>2 DEF ChangeOfParams
        <2>2. /\ filter'.params = [params EXCEPT ![field] = value]
              /\ filter'.selectedTags = IF field = "Tags" THEN value ELSE filter.selectedTags
            BY <1>1, <2>1 DEF Filter
        <2>3. history'.apart = (field # "Tags" /\ filter.selectedTags # params.Tags)
            BY <1>1, <1>2 DEF ChangeOfParams, History
        <2>4. [params EXCEPT ![field] = value].Tags = IF field = "Tags" THEN value ELSE params.Tags
            BY <1>1 DEF JobSearchParams
        <2> QED
            BY <2>2, <2>3, <2>4
    <1>3. ASSUME NEW field \in FieldsOfFilter \cup RangeFields,
                 Edits, history' = Edited,
                 filter'.selectedTags = filter.selectedTags, filter'.params.Tags = filter.params.Tags
          PROVE  filter'.selectedTags = filter'.params.Tags
        <2>1. ~history.apart
            BY <1>1, <1>3 DEF Edited, History
        <2> QED
            BY <1>3, <2>1 DEF TagsInv, Edits
    <1>4. ASSUME NEW field \in FieldsOfFilter, ChangeOfFilter(field)
          PROVE  filter'.selectedTags = filter'.params.Tags
        <2>1. PICK value \in Values(field) : filter' = [filter EXCEPT !.params[field] = value]
            BY <1>4 DEF ChangeOfFilter
        <2>2. filter'.selectedTags = filter.selectedTags /\ filter'.params.Tags = filter.params.Tags
            BY <1>1, <2>1 DEF Filter, JobSearchParams, FieldsOfFilter
        <2> QED
            BY <1>3, <1>4, <2>2 DEF ChangeOfFilter
    <1>5. ASSUME NEW field \in RangeFields,
                 setLowerLimit(field) \/ setUpperLimit(field) \/ Slide(field)
          PROVE  filter'.selectedTags = filter'.params.Tags
        <2>1. Edits /\ history' = Edited
            BY <1>5 DEF setLowerLimit, setUpperLimit, Slide
        <2>2. filter'.selectedTags = filter.selectedTags /\ filter'.params.Tags = filter.params.Tags
            <3>1. CASE setLowerLimit(field)
                BY <1>1, <3>1 DEF setLowerLimit, Filter, JobSearchParams, RangeFields
            <3>2. CASE setUpperLimit(field)
                BY <1>1, <3>2 DEF setUpperLimit, Filter, JobSearchParams, RangeFields
            <3>3. CASE Slide(field)
                BY <1>1, <3>3 DEF Slide, Filter, JobSearchParams, RangeFields
            <3> QED
                BY <1>5, <3>1, <3>2, <3>3
        <2> QED
            BY <1>3, <2>1, <2>2
    <1> QED
        BY <1>2, <1>4, <1>5 DEF Edit

LEMMA EditOrder == Types /\ OrderInv /\ Edit => OrderInv'
    <1> SUFFICES ASSUME Types, OrderInv, Edit PROVE OrderInv'
        OBVIOUS
    <1>1. Edits /\ filter'.mounted
        BY EditFilter
    <1>2. TagsInv'
        BY EditTags DEF OrderInv
    <1> QED
        BY <1>1, <1>2, EditHistory, ClickOrder DEF Edits, Kept

LEMMA ApplyOrder == Types /\ OrderInv /\ Apply => OrderInv'
    <1> SUFFICES ASSUME Types, OrderInv, Apply PROVE OrderInv'
        OBVIOUS
    <1>1. history \in History /\ history.edited /\ history' = [history EXCEPT !.clicked = TRUE]
        BY DEF Types, Apply
    <1>2. /\ history'.edited /\ history'.clicked /\ history'.earlier = history.earlier
          /\ history'.failures = history.failures /\ history'.overtaken = history.overtaken
          /\ history'.edits = history.edits /\ history'.apart = history.apart
        BY <1>1 DEF History
    <1>3. /\ filter'.mounted /\ filter'.params = filter.params
          /\ filter'.selectedTags = filter.selectedTags
        BY DEF Types, TypeOK, Filter, Apply
    <1>4. TagsInv'
        BY <1>2, <1>3 DEF OrderInv, TagsInv, Apply
    <1> QED
        BY <1>1, <1>2, <1>3, <1>4, ClickOrder DEF Apply, Kept

---------------------------------------------------------------------------
(* Theorems *)

IInv == Types /\ OrderInv

LEMMA NextInv == IInv /\ [Next]_vars => IInv'
    <1> SUFFICES ASSUME IInv, [Next]_vars PROVE IInv'
        OBVIOUS
    <1>1. CASE RunEffects
        BY <1>1, RunEffectsTypes, RunEffectsOrder DEF IInv
    <1>2. CASE Answer
        BY <1>2, AnswerTypes, AnswerOrder DEF IInv
    <1>3. CASE RouterReady
        BY <1>3, RouterReadyTypes, RouterReadyOrder DEF IInv
    <1>4. CASE Edit
        BY <1>4, EditTypes, EditOrder DEF IInv
    <1>5. CASE Apply
        BY <1>5, ApplyTypes, ApplyOrder DEF IInv
    <1>6. CASE UNCHANGED vars
        BY <1>6 DEF IInv, vars, Types, TypeOK, OrderInv, LoadsFirst, AppliesNext, BeginInv, SavedInv,
                    FilterInv, TagsInv, ListInv, Asked, StartInv, StartParams
    <1> QED
        BY <1>1, <1>2, <1>3, <1>4, <1>5, <1>6 DEF Next

\* The effects, answers and changes of jobs.tsx, statistics.tsx, JobFilter.tsx and
\* useGetJobs keep the order that the properties rest on.
THEOREM Invariance == Spec => []IInv
    <1>1. Init => IInv
        BY InitTypes, InitOrder DEF IInv
    <1> QED
        BY <1>1, NextInv, PTL DEF Spec

\* Parameters saved in the local storage (useStorageState) survive the start of the
\* page, where four effects set the parameters.
THEOREM JobsPageCorrect == Spec => []Inv
    <1>1. IInv => Inv
        <2> SUFFICES ASSUME IInv, Settled, history.edits = 0, ~query.user, ~query.tag
                     PROVE  params = Recent(StartParams)
            BY DEF Inv, IInv, Types, KeepsSavedParams, StartParams
        <2> QED
            BY DEF IInv, OrderInv, StartInv, LoadsFirst, Settled
    <1> QED
        BY <1>1, Invariance, PTL

\* At rest list, filter and storage are those of the parameters of the page, as long
\* as no answer of useGetJobs overtook another one.
THEOREM ListFollowsCorrect == Spec => []ListFollowsParams
    <1>1. IInv => ListFollowsParams
        <2> SUFFICES ASSUME IInv, Settled PROVE ListFollowsParams
            BY DEF ListFollowsParams
        <2>1. /\ ~history.overtaken /\ history.failures = 0 => jobList = params
              /\ filter.mounted /\ ~history.edited => filter.params = params
              /\ saved = params
            BY DEF IInv, OrderInv, ListInv, Asked, FilterInv, SavedInv, Settled
        <2>2. ASSUME filter.mounted, ~history.edited, ~history.apart PROVE ShownParams = params
            BY <2>1, <2>2 DEF IInv, OrderInv, TagsInv, Settled, ShownParams, Types, TypeOK, JobSearchParams
        <2> QED
            BY <2>1, <2>2 DEF ListFollowsParams
    <1> QED
        BY <1>1, Invariance, PTL

\* Applying the filter (JobFilter.tsx) sets the parameters to what it showed, the tags
\* of the picker included, unless these were set apart from the changes before.
THEOREM AppliesCorrect == Spec => AppliesWhatIsShown
    <1>1. IInv /\ [Next]_vars => (Applies /\ RunEffects /\ ~history.apart => params' = ShownParams)
        <2> SUFFICES ASSUME IInv, Applies, RunEffects, ~history.apart PROVE params' = ShownParams
            OBVIOUS
        <2>1. due = {"apply"} /\ filter.mounted
            BY DEF IInv, OrderInv, AppliesNext, Applies
        <2>2. ~SetsTime /\ ~SetsUser /\ ~SetsTag
            BY <2>1 DEF SetsTime, SetsUser, SetsTag
        <2>3. ParamsToSet = filter.params
            BY <2>2 DEF ParamsToSet
        <2>4. params' = filter.params
            BY <2>3 DEF RunEffects, ParamsAfterEffects, SetsParams
        <2>5. filter.selectedTags = filter.params.Tags /\ filter.params \in JobSearchParams
            BY <2>1 DEF IInv, OrderInv, TagsInv, Types, TypeOK, Filter
        <2>6. ShownParams = filter.params
            BY <2>5 DEF ShownParams, JobSearchParams
        <2> QED
            BY <2>4, <2>6
    <1> QED
        BY <1>1, Invariance, PTL DEF Spec, AppliesWhatIsShown

---------------------------------------------------------------------------
(***************************************************************************)
(* Long lists, a page at a time: PagedLists                                *)
(***************************************************************************)

\* What a list may hold.
Things == Jobs \cup Users \cup Tags

\* The sequences that list a finite set.
LEMMA ListsOfSet ==
    ASSUME NEW S, IsFiniteSet(S), NEW s \in SetToSeqs(S)
    PROVE  /\ s \in Seq(S) /\ Len(s) = Cardinality(S) /\ ToSet(s) = S
           /\ \A i, j \in 1..Len(s) : i # j => s[i] # s[j]
    <1>1. Cardinality(S) \in Nat
        BY FS_CardinalityType
    <1>2. /\ s \in [1..Cardinality(S) -> S]
          /\ \A i, j \in 1..Cardinality(S) : i # j => s[i] # s[j]
        BY DEF SetToSeqs
    <1>3. s \in Seq(S) /\ Len(s) = Cardinality(S)
        BY <1>1, <1>2
    <1>4. s \in Injection(1..Cardinality(S), S)
        BY <1>2, Fun_IsInj
    <1>5. Cardinality(1..Cardinality(S)) = Cardinality(S)
        BY <1>1, FS_Interval
    <1>6. s \in Surjection(1..Cardinality(S), S)
        BY <1>4, <1>5, FS_Injection
    <1>7. \A x \in S : \E i \in 1..Cardinality(S) : s[i] = x
        BY <1>6 DEF Surjection
    <1>8. ToSet(s) = S
        BY <1>2, <1>7 DEF ToSet
    <1> QED
        BY <1>2, <1>3, <1>8

\* Only the empty list lists nothing.
LEMMA ListsOfNothing == <<>> \in SetToSeqs({})
    <1>1. 1..Cardinality({}) = {}
        BY FS_EmptySet
    <1>2. <<>> \in [{} -> {}]
        OBVIOUS
    <1> QED
        BY <1>1, <1>2 DEF SetToSeqs

\* The jobs before the i-th are i - 1 many.
LEMMA ThoseBefore ==
    ASSUME NEW S, NEW s \in Seq(S), NEW i \in 1..Len(s),
           \A k, l \in 1..Len(s) : k # l => s[k] # s[l]
    PROVE  Cardinality({s[k] : k \in 1..(i - 1)}) = i - 1
    <1> DEFINE A == {s[k] : k \in 1..(i - 1)}
               f == [k \in 1..(i - 1) |-> s[k]]
    <1>1. Len(s) \in Nat /\ i - 1 \in Nat
        OBVIOUS
    <1>2. f \in [1..(i - 1) -> A]
        OBVIOUS
    <1>3. \A k, l \in 1..(i - 1) : f[k] = f[l] => k = l
        BY <1>1
    <1>4. \A a \in A : \E k \in 1..(i - 1) : f[k] = a
        OBVIOUS
    <1> HIDE DEF f, A
    <1>5. f \in Bijection(1..(i - 1), A)
        BY <1>2, <1>3, <1>4, Fun_IsBij
    <1>6. IsFiniteSet(1..(i - 1)) /\ Cardinality(1..(i - 1)) = i - 1
        <2>1. \A m \in Nat : IsFiniteSet(1..m) /\ Cardinality(1..m) = m
            BY FS_Interval
        <2> QED
            BY <1>1, <2>1
    <1>7. Cardinality(A) = i - 1
        BY <1>5, <1>6, FS_Bijection DEF ExistsBijection
    <1> QED
        BY <1>7 DEF A

\* Jobs with different keys have one order only: each comes after those that precede it.
LEMMA SortedIsUnique ==
    ASSUME NEW S, IsFiniteSet(S), NEW d, NEW s \in Sorted(S, d), NEW t \in Sorted(S, d),
           \A a, b \in S : a # b => ~Same(a, b, d)
    PROVE  s = t
    <1> DEFINE Before(x) == {y \in S : y # x /\ Precedes(y, x, d)}
    <1>1. ASSUME NEW q \in Sorted(S, d), NEW i \in 1..Len(q)
          PROVE  Cardinality(Before(q[i])) = i - 1
        <2>1. /\ q \in Seq(S) /\ ToSet(q) = S
              /\ \A k, l \in 1..Len(q) : k # l => q[k] # q[l]
            BY ListsOfSet DEF Sorted
        <2>2. DOMAIN q = 1..Len(q) /\ Len(q) \in Nat
            BY <2>1
        <2>3. \A k, l \in 1..Len(q) : k < l => ~Precedes(q[l], q[k], d)
            BY <2>2 DEF Sorted
        <2>4. \A k, l \in 1..Len(q) : k < l => Precedes(q[k], q[l], d)
            <3>1. ASSUME NEW k \in 1..Len(q), NEW l \in 1..Len(q), k < l
                  PROVE  Precedes(q[k], q[l], d)
                <4>1. q[k] \in S /\ q[l] \in S /\ q[k] # q[l]
                    BY <2>1, <3>1
                <4>2. ~Same(q[k], q[l], d) /\ ~Precedes(q[l], q[k], d)
                    BY <2>3, <3>1, <4>1
                <4> QED
                    BY <4>2 DEF Same
            <3> QED
                BY <3>1
        <2>5. Before(q[i]) = {q[k] : k \in 1..(i - 1)}
            <3>1. ASSUME NEW k \in 1..(i - 1)
                  PROVE  q[k] \in Before(q[i])
                <4>1. k \in 1..Len(q) /\ k < i /\ k # i
                    BY <2>2
                <4> QED
                    BY <2>1, <2>4, <4>1
            <3>2. ASSUME NEW y \in Before(q[i])
                  PROVE  \E k \in 1..(i - 1) : y = q[k]
                <4>1. PICK k \in 1..Len(q) : y = q[k]
                    BY <2>1, <2>2 DEF ToSet
                <4>2. ~(i < k) /\ k # i
                    BY <2>3, <4>1
                <4>3. k \in 1..(i - 1)
                    BY <2>2, <4>2
                <4> QED
                    BY <4>1, <4>3
            <3> HIDE DEF Before
            <3> QED
                BY <3>1, <3>2
        <2> QED
            BY <2>1, <2>5, ThoseBefore
    <1>2. /\ s \in Seq(S) /\ ToSet(s) = S /\ Len(s) = Cardinality(S)
          /\ t \in Seq(S) /\ ToSet(t) = S /\ Len(t) = Cardinality(S)
        BY ListsOfSet DEF Sorted
    <1> HIDE DEF Before
    <1>3. ASSUME NEW i \in 1..Len(s)
          PROVE  s[i] = t[i]
        <2>1. s[i] \in ToSet(t)
            BY <1>2
        <2>2. PICK j \in 1..Len(t) : s[i] = t[j]
            BY <1>2, <2>1 DEF ToSet
        <2>3. i - 1 = j - 1
            BY <1>1, <2>2
        <2> QED
            BY <1>2, <2>2, <2>3
    <1> QED
        BY <1>2, <1>3, SeqEqual

---------------------------------------------------------------------------
(* Pages *)

\* How many pages there are.
LEMMA PagesAre ==
    ASSUME NEW length \in Nat, NEW n \in Nat
    PROVE  /\ PagesOf(length, n) \in Nat
           /\ n = 0 => PagesOf(length, n) = 1
           /\ n # 0 => /\ length <= n * PagesOf(length, n)
                       /\ n * (PagesOf(length, n) - 1) < length
           /\ 0 < length => 1 <= PagesOf(length, n)
    <1>1. CASE n = 0
        BY <1>1 DEF PagesOf
    <1>2. CASE n # 0
        <2> DEFINE q == (length + n - 1) \div n
        <2>1. q \in Int /\ n * q <= length + n - 1 /\ length + n - 1 < n * (q + 1)
            BY <1>2
        <2>2. PagesOf(length, n) = q
            BY <1>2 DEF PagesOf
        <2> HIDE DEF q
        <2>3. n * (q + 1) = n * q + n /\ n * (q - 1) = n * q - n /\ n * q \in Int
            BY <2>1
        <2>4. length <= n * q /\ n * (q - 1) < length
            BY <2>1, <2>3
        <2>5. q \in Nat
            <3> SUFFICES ASSUME q <= -1
                         PROVE  FALSE
                BY <2>1
            <3>1. n * (q + 1) <= 0
                BY <2>1
            <3> QED
                BY <1>2, <2>1, <2>3, <3>1
        <2>6. 0 < length => 1 <= q
            <3> SUFFICES ASSUME 0 < length, q = 0
                         PROVE  FALSE
                BY <2>5
            <3> QED
                BY <2>4
        <2> QED
            BY <1>2, <2>2, <2>4, <2>5, <2>6
    <1> QED
        BY <1>1, <1>2

\* The page a rendering settles on is one of the list, and the one wanted if that is.
LEMMA ClampedIs ==
    ASSUME NEW p \in Nat, NEW length \in Nat, NEW n \in Nat
    PROVE  /\ Clamped(p, length, n) \in Nat
           /\ 0 < length => /\ 1 <= Clamped(p, length, n)
                            /\ n = 0 \/ Clamped(p, length, n) <= PagesOf(length, n)
           /\ 1 <= p /\ (n = 0 \/ p <= PagesOf(length, n)) => Clamped(p, length, n) = p
           /\ n # 0 /\ PagesOf(length, n) < p => Clamped(p, length, n) = PagesOf(length, n)
    <1> DEFINE pages == PagesOf(length, n)
    <1>1. pages \in Nat /\ (0 < length => 1 <= pages)
        BY PagesAre
    <1>2. Clamped(p, length, n) = IF n # 0 /\ pages < p THEN pages
                                  ELSE IF p = 0 /\ length > 0 THEN 1 ELSE p
        BY DEF Clamped
    <1> HIDE DEF pages
    <1>3. /\ Clamped(p, length, n) \in Nat
          /\ 0 < length => /\ 1 <= Clamped(p, length, n)
                           /\ n = 0 \/ Clamped(p, length, n) <= pages
          /\ 1 <= p /\ (n = 0 \/ p <= pages) => Clamped(p, length, n) = p
          /\ n # 0 /\ pages < p => Clamped(p, length, n) = pages
        BY <1>1, <1>2
    <1> QED
        BY <1>3 DEF pages

\* The elements of the pages up to p.
Upto(seq, p, n) == {seq[i] : i \in {k \in 1..Len(seq) : n = 0 \/ k <= n * p}}

\* What is on a page.
LEMMA SliceIs ==
    ASSUME NEW S, NEW seq \in Seq(S), NEW p \in Nat, NEW n \in Nat
    PROVE  /\ ToSet(Slice(seq, p, n)) \subseteq ToSet(seq)
           /\ 1 <= p => ToSet(Slice(seq, p, n)) =
                 {seq[i] : i \in {k \in 1..Len(seq) : n = 0 \/ (n * (p - 1) < k /\ k <= n * p)}}
           /\ 1 <= p /\ 0 < Len(seq) /\ (n = 0 \/ n * (p - 1) < Len(seq)) => Slice(seq, p, n) # <<>>
    <1>1. Len(seq) \in Nat /\ DOMAIN seq = 1..Len(seq)
        OBVIOUS
    <1>2. CASE n = 0
        <2>1. Slice(seq, p, n) = seq
            BY <1>2 DEF Slice
        <2> QED
            BY <1>1, <1>2, <2>1 DEF ToSet
    <1>3. CASE n # 0 /\ p = 0
        <2>1. Slice(seq, p, n) = <<>>
            BY <1>3 DEF Slice
        <2> QED
            BY <1>3, <2>1 DEF ToSet
    <1>4. CASE n # 0 /\ 1 <= p
        <2> DEFINE b == n * (p - 1)
                   e == n * p
                   h == IF e < Len(seq) THEN e ELSE Len(seq)
                   s == SubSeq(seq, b + 1, h)
        <2>1. b \in Nat /\ e \in Nat /\ e = b + n
            BY <1>4
        <2>2. Slice(seq, p, n) = s
            <3>1. n # 0 /\ p # 0
                BY <1>4
            <3> QED
                BY <3>1, Zenon DEF Slice
        <2> HIDE DEF b, e
        <2>3. h \in Nat /\ h <= Len(seq) /\ h <= e /\ \A k \in 1..Len(seq) : k <= h <=> k <= e
            BY <1>1, <2>1
        <2> HIDE DEF h
        <2>4. \A i \in (b + 1)..h : seq[i] \in S
            BY <1>1, <2>1, <2>3
        <2>5. /\ s \in Seq(S) /\ Len(s) = (IF b + 1 <= h THEN h - b ELSE 0)
              /\ \A i \in 1..(h - b) : s[i] = seq[b + i]
            <3>1. /\ s \in Seq(S) /\ Len(s) = (IF b + 1 <= h THEN h - (b + 1) + 1 ELSE 0)
                  /\ \A i \in 1..(h - (b + 1) + 1) : s[i] = seq[b + 1 + i - 1]
                <4>1. b + 1 \in Int /\ h \in Int
                    BY <2>1, <2>3
                <4> QED
                    BY <2>4, <4>1, SubSeqProperties
            <3> HIDE DEF s
            <3>2. h - (b + 1) + 1 = h - b
                BY <2>1, <2>3
            <3>3. ASSUME NEW i \in 1..(h - b)
                  PROVE  s[i] = seq[b + i]
                <4>1. b + 1 + i - 1 = b + i
                    BY <2>1, <2>3
                <4> QED
                    BY <3>1, <3>2, <4>1
            <3> QED
                BY <3>1, <3>2, <3>3
        <2> HIDE DEF s
        <2>6. DOMAIN s = 1..Len(s)
            BY <2>5
        <2>7. ASSUME NEW x \in ToSet(s)
              PROVE  \E i \in 1..Len(seq) : x = seq[i] /\ b < i /\ i <= e
            <3>1. PICK j \in 1..Len(s) : x = s[j]
                BY <2>6 DEF ToSet
            <3>2. b + 1 <= h /\ j \in 1..(h - b) /\ j \in Nat
                BY <2>1, <2>3, <2>5
            <3>3. b + j \in 1..Len(seq) /\ b < b + j /\ b + j <= e
                BY <1>1, <2>1, <2>3, <3>2
            <3> QED
                BY <2>5, <3>1, <3>2, <3>3
        <2>8. ASSUME NEW i \in 1..Len(seq), b < i, i <= e
              PROVE  seq[i] \in ToSet(s)
            <3>1. i <= h /\ i - b \in 1..(h - b) /\ b + (i - b) = i
                BY <1>1, <2>1, <2>3, <2>8
            <3>2. i - b \in 1..Len(s) /\ s[i - b] = seq[i]
                BY <2>1, <2>3, <2>5, <3>1
            <3> QED
                BY <2>6, <3>2 DEF ToSet
        <2>9. ToSet(s) = {seq[i] : i \in {k \in 1..Len(seq) : n = 0 \/ (b < k /\ k <= e)}}
            BY <1>4, <2>7, <2>8
        <2>10. ToSet(s) \subseteq ToSet(seq)
            BY <1>1, <2>7 DEF ToSet
        <2>11. 0 < Len(seq) /\ b < Len(seq) => s # <<>>
            <3> SUFFICES ASSUME b < Len(seq)
                         PROVE  Len(s) > 0
                OBVIOUS
            <3>1. b + 1 <= e
                BY <1>4, <2>1
            <3>2. b + 1 <= h
                BY <1>1, <2>1, <3>1 DEF h
            <3> QED
                BY <2>1, <2>3, <2>5, <3>2
        <2> QED
            BY <1>4, <2>2, <2>9, <2>10, <2>11 DEF b, e
    <1> QED
        BY <1>2, <1>3, <1>4

\* One page more.
LEMMA UptoNext ==
    ASSUME NEW S, NEW seq \in Seq(S), NEW p \in Nat, NEW n \in Nat
    PROVE  Upto(seq, p, n) \cup ToSet(Slice(seq, p + 1, n)) = Upto(seq, p + 1, n)
    <1>1. Len(seq) \in Nat /\ p + 1 \in Nat /\ 1 <= p + 1 /\ p + 1 - 1 = p
        OBVIOUS
    <1>2. ToSet(Slice(seq, p + 1, n)) =
                {seq[i] : i \in {k \in 1..Len(seq) : n = 0 \/ (n * p < k /\ k <= n * (p + 1))}}
        BY <1>1, SliceIs
    <1>3. n * p \in Nat /\ n * (p + 1) \in Nat /\ n * p <= n * (p + 1)
        OBVIOUS
    <1> QED
        BY <1>1, <1>2, <1>3 DEF Upto

---------------------------------------------------------------------------
(* The invariant of PagedLists *)

ListTypes ==
    /\ view \in {"/jobs", "/search"}
    /\ page \in Nat /\ stored \in Nat \cup {NoPage} /\ left \in Nat /\ visits \in Nat
    /\ early \in {NoList} \cup SUBSET Jobs /\ pageIsLoading \in BOOLEAN
    /\ display \in [limit : PageLimits, sortBy : SortKeys, descending : BOOLEAN]
    /\ view = "/jobs" => leafed \subseteq Jobs

Searches == [term : {"none", "short", "long"}, isAdmin : BOOLEAN,
             active : Categories \cup {"All"}, results : [Categories -> Seq(Things)],
             loading : [Categories -> {"no", "asked", "lost"}]]

\* What is known of a search.
SearchInv ==
    /\ search \in Searches
    /\ \A c \in Categories : search.results[c] \in Found[c]

\* The jobs that are shown are sorted by the settings of the moment.
RenderedInv ==
    list # NoList =>
        /\ list \in Seq(Things)
        /\ view = "/jobs" => ToSet(list) \subseteq Jobs /\ list \in Sorted(ToSet(list), display)

\* The page that is known, or will be when it has been read.
PageRead == IF pageIsLoading /\ stored # NoPage THEN stored ELSE page

\* Nothing is rendered before the page has been read. The page in the storage is the one
\* shown: one of the list, and the one that was left until the list is there.
PageInv ==
    /\ pageIsLoading => page = 1 /\ list = NoList
    /\ ~pageIsLoading => page = stored
    /\ list = NoList => left = PageRead
    /\ list \notin {NoList, <<>>} => 1 <= page /\ (limit = 0 \/ page <= PagesOf(Len(list), limit))

AllDiffer == \A a, b \in ToSet(list) : a # b => ~Same(a, b, display)

\* On the way, everything before the page has been shown.
LeafInv ==
    (/\ list \notin {NoList, <<>>} /\ leafed # {}
     /\ view = "/jobs" => AllDiffer)
    => leafed = Upto(list, page, limit)

PagedListsIInv == ListTypes /\ SearchInv /\ RenderedInv /\ PageInv /\ LeafInv

---------------------------------------------------------------------------
(* Lists *)

\* The finite sets of jobs, users and tags have finite subsets.
LEMMA FiniteParts ==
    \A S : S \in SUBSET Jobs \/ S \in SUBSET Users \/ S \in SUBSET Tags => IsFiniteSet(S)
BY FS_Subset, PagedListsAssumption DEF PagedListsAssumption

\* Jobs that are sorted are a list of these jobs.
LEMMA SortedIs ==
    ASSUME NEW jobs \in SUBSET Jobs, NEW d, NEW seq \in Sorted(jobs, d)
    PROVE  /\ seq \in Seq(Things) /\ seq \in JobLists
           /\ ToSet(seq) = jobs /\ seq \in Sorted(ToSet(seq), d)
           /\ Len(seq) = Cardinality(jobs)
    <1>1. IsFiniteSet(jobs) /\ seq \in SetToSeqs(jobs)
        BY FiniteParts DEF Sorted
    <1>2. seq \in Seq(jobs) /\ ToSet(seq) = jobs /\ Len(seq) = Cardinality(jobs)
        BY <1>1, ListsOfSet
    <1>3. seq \in Seq(Things)
        BY <1>2, SeqMonotonic DEF Things
    <1>4. seq \in JobLists
        BY <1>1 DEF JobLists
    <1> QED
        BY <1>2, <1>3, <1>4

\* What is found is a list, and it may be empty.
LEMMA FoundAre ==
    \A c \in Categories : Found[c] \subseteq Seq(Things) /\ <<>> \in Found[c]
    <1>1. ASSUME NEW S, S = Users \/ S = Tags
          PROVE  UNION {SetToSeqs(s) : s \in SUBSET S} \subseteq Seq(Things)
        <2> SUFFICES ASSUME NEW s \in SUBSET S, NEW q \in SetToSeqs(s)
                     PROVE  q \in Seq(Things)
            OBVIOUS
        <2>1. q \in Seq(s)
            BY <1>1, FiniteParts, ListsOfSet
        <2>2. s \subseteq Things
            BY <1>1 DEF Things
        <2> QED
            BY <2>1, <2>2, SeqMonotonic
    <1>2. ASSUME NEW d
          PROVE  UNION {Sorted(s, d) : s \in SUBSET Jobs} \subseteq Seq(Things)
        <2> SUFFICES ASSUME NEW s \in SUBSET Jobs, NEW q \in Sorted(s, d)
                     PROVE  q \in Seq(Things)
            OBVIOUS
        <2> QED
            BY SortedIs
    <1>3. ASSUME NEW S
          PROVE  <<>> \in UNION {SetToSeqs(s) : s \in SUBSET S}
        BY ListsOfNothing
    <1>4. ASSUME NEW d
          PROVE  <<>> \in UNION {Sorted(s, d) : s \in SUBSET Jobs}
        <2>1. <<>> \in Sorted({}, d)
            BY ListsOfNothing DEF Sorted
        <2> QED
            BY <2>1
    <1>5. /\ Found["Users"] = UNION {SetToSeqs(s) : s \in SUBSET Users}
          /\ Found["Tags"] = UNION {SetToSeqs(s) : s \in SUBSET Tags}
          /\ Found["Jobs"] = UNION {Sorted(s, [sortBy |-> "StartTime", descending |-> TRUE]) :
                                       s \in SUBSET Jobs}
        BY DEF Found
    <1>6. Found["Users"] \subseteq Seq(Things) /\ <<>> \in Found["Users"]
        BY <1>1, <1>3, <1>5
    <1>7. Found["Tags"] \subseteq Seq(Things) /\ <<>> \in Found["Tags"]
        BY <1>1, <1>3, <1>5
    <1>8. Found["Jobs"] \subseteq Seq(Things) /\ <<>> \in Found["Jobs"]
        BY <1>2, <1>4, <1>5
    <1> QED
        BY <1>6, <1>7, <1>8 DEF Categories

\* What a search shows is a list.
LEMMA ResultsAreList ==
    ASSUME NEW s, s.results \in [Categories -> Seq(Things)], s.active \in Categories \cup {"All"}
    PROVE  getCurrentResultsByCategory(s) \in Seq(Things)
    <1>1. /\ s.results["Users"] \in Seq(Things) /\ s.results["Jobs"] \in Seq(Things)
          /\ s.results["Tags"] \in Seq(Things)
        BY DEF Categories
    <1>2. s.results["Users"] \o s.results["Jobs"] \in Seq(Things)
        BY <1>1, ConcatProperties
    <1>3. s.results["Users"] \o s.results["Jobs"] \o s.results["Tags"] \in Seq(Things)
        BY <1>1, <1>2, ConcatProperties
    <1>4. CASE s.active = "All"
        BY <1>3, <1>4 DEF getCurrentResultsByCategory
    <1>5. CASE s.active # "All"
        BY <1>5 DEF getCurrentResultsByCategory
    <1> QED
        BY <1>4, <1>5

---------------------------------------------------------------------------
(* Rendering *)

\* What a rendering leaves.
LEMMA RenderingIs ==
    ASSUME NEW seq \in Seq(Things), NEW p \in Nat, NEW n \in Nat, NEW leaf \in BOOLEAN,
           Rendering(seq, p, n, leaf)
    PROVE  /\ list' = seq /\ list' # NoList
           /\ page' = Clamped(p, Len(seq), n) /\ stored' = page' /\ page' \in Nat
           /\ seq # <<>> => 1 <= page' /\ (n = 0 \/ page' <= PagesOf(Len(seq), n))
           /\ leafed' \subseteq ToSet(seq) \cup (IF leaf THEN leafed ELSE {})
           /\ leafed' # {} =>
                 \/ leafed' = Upto(seq, page', n)
                 \/ /\ leaf /\ leafed # {}
                    /\ leafed' = leafed \cup ToSet(Slice(seq, page', n))
    <1> DEFINE settled == Clamped(p, Len(seq), n)
    <1>1. /\ list' = seq /\ page' = settled /\ stored' = settled
          /\ leafed' = IF settled = 1 THEN ToSet(Slice(seq, 1, n))
                       ELSE IF leaf /\ leafed # {} THEN leafed \cup ToSet(Slice(seq, settled, n))
                       ELSE {}
        BY DEF Rendering, setPageStorage
    <1>2. NoList \notin Seq(Things)
        BY PagedListsAssumption DEF PagedListsAssumption, Things
    <1>3. Len(seq) \in Nat /\ (seq # <<>> => 0 < Len(seq))
        OBVIOUS
    <1>4. /\ settled \in Nat
          /\ seq # <<>> => 1 <= settled /\ (n = 0 \/ settled <= PagesOf(Len(seq), n))
        BY <1>3, ClampedIs
    <1> HIDE DEF settled
    <1>5. /\ ToSet(Slice(seq, settled, n)) \subseteq ToSet(seq)
          /\ ToSet(Slice(seq, 1, n)) \subseteq ToSet(seq)
        BY <1>4, SliceIs
    <1>6. ToSet(Slice(seq, 1, n)) = Upto(seq, 1, n)
        <2>1. \A q \in Nat : 1 <= q => ToSet(Slice(seq, q, n)) =
                  {seq[i] : i \in {k \in 1..Len(seq) : n = 0 \/ (n * (q - 1) < k /\ k <= n * q)}}
            BY SliceIs
        <2>2. ToSet(Slice(seq, 1, n)) =
                  {seq[i] : i \in {k \in 1..Len(seq) : n = 0 \/ (n * (1 - 1) < k /\ k <= n * 1)}}
            <3>1. 1 \in Nat /\ 1 <= 1
                OBVIOUS
            <3> QED
                BY <2>1, <3>1, Zenon
        <2>3. n * (1 - 1) = 0 /\ n * 1 = n
            OBVIOUS
        <2> QED
            BY <1>3, <2>2, <2>3 DEF Upto
    <1>7. CASE settled = 1
        BY <1>1, <1>2, <1>4, <1>5, <1>6, <1>7 DEF settled
    <1>8. CASE settled # 1 /\ leaf /\ leafed # {}
        BY <1>1, <1>2, <1>4, <1>5, <1>8 DEF settled
    <1>9. CASE settled # 1 /\ ~(leaf /\ leafed # {})
        BY <1>1, <1>2, <1>4, <1>9 DEF settled
    <1> QED
        BY <1>7, <1>8, <1>9

\* Turning to the next page of the list that is shown, however it is sorted now.
Onwards(seq, p) ==
    /\ list \notin {NoList, <<>>} /\ display' = display
    /\ limit # 0 /\ p = page + 1 /\ p <= PagesOf(Len(list), limit)
    /\ IF view = "/jobs" THEN ToSet(list) \subseteq Jobs /\ seq \in Sorted(ToSet(list), display)
       ELSE seq = list

\* A rendering keeps the invariant.
LEMMA RenderingKeeps ==
    ASSUME PagedListsIInv, NEW seq \in Seq(Things), NEW p \in Nat, NEW n \in Nat,
           NEW leaf \in BOOLEAN, Rendering(seq, p, n, leaf), limit' = n, view' = view,
           pageIsLoading' = FALSE,
           view = "/jobs" => ToSet(seq) \subseteq Jobs /\ seq \in Sorted(ToSet(seq), display'),
           leaf => Onwards(seq, p) /\ n = limit
    PROVE  /\ RenderedInv' /\ PageInv' /\ LeafInv'
           /\ page' \in Nat /\ stored' \in Nat
           /\ view' = "/jobs" => leafed' \subseteq Jobs
    <1>1. /\ list' = seq /\ list' # NoList
          /\ page' = Clamped(p, Len(seq), n) /\ stored' = page' /\ page' \in Nat
          /\ seq # <<>> => 1 <= page' /\ (n = 0 \/ page' <= PagesOf(Len(seq), n))
          /\ leafed' \subseteq ToSet(seq) \cup (IF leaf THEN leafed ELSE {})
          /\ leafed' # {} =>
                \/ leafed' = Upto(seq, page', n)
                \/ /\ leaf /\ leafed # {}
                   /\ leafed' = leafed \cup ToSet(Slice(seq, page', n))
        BY RenderingIs
    <1>2. RenderedInv'
        BY <1>1 DEF RenderedInv
    <1>3. PageInv'
        BY <1>1 DEF PageInv
    <1>4. view' = "/jobs" => leafed' \subseteq Jobs
        <2>1. view = "/jobs" => leafed \subseteq Jobs
            BY DEF PagedListsIInv, ListTypes
        <2> QED
            BY <1>1, <2>1
    <1>5. LeafInv'
        <2> SUFFICES ASSUME seq # <<>>, leafed' # {}, view = "/jobs" => AllDiffer'
                     PROVE  leafed' = Upto(seq, page', n)
            BY <1>1 DEF LeafInv
        <2> SUFFICES ASSUME leaf, leafed # {}, leafed' = leafed \cup ToSet(Slice(seq, page', n))
                     PROVE  leafed' = Upto(seq, page', n)
            BY <1>1
        <2>1. Onwards(seq, p) /\ n = limit
            OBVIOUS
        <2>2. seq = list /\ (view = "/jobs" => AllDiffer)
            <3>1. CASE view = "/jobs"
                <4>1. /\ list \in Sorted(ToSet(list), display) /\ ToSet(list) \subseteq Jobs
                      /\ seq \in Sorted(ToSet(list), display) /\ display' = display
                    BY <2>1, <3>1 DEF Onwards, PagedListsIInv, RenderedInv
                <4>2. IsFiniteSet(ToSet(list)) /\ ToSet(seq) = ToSet(list)
                    BY <4>1, FiniteParts, SortedIs
                <4>3. \A a, b \in ToSet(list) : a # b => ~Same(a, b, display)
                    BY <1>1, <3>1, <4>1, <4>2 DEF AllDiffer
                <4>4. seq = list
                    BY <4>1, <4>2, <4>3, SortedIsUnique
                <4> QED
                    BY <4>3, <4>4 DEF AllDiffer
            <3>2. CASE view # "/jobs"
                BY <2>1, <3>2 DEF Onwards
            <3> QED
                BY <3>1, <3>2
        <2>3. leafed = Upto(list, page, limit)
            BY <2>1, <2>2 DEF Onwards, PagedListsIInv, LeafInv
        <2>4. page \in Nat
            BY DEF PagedListsIInv, ListTypes
        <2>5. page' = page + 1
            <3>1. Len(seq) \in Nat /\ 1 <= p /\ p <= PagesOf(Len(seq), n) /\ p = page + 1
                BY <2>1, <2>2, <2>4 DEF Onwards
            <3> QED
                BY <1>1, <3>1, ClampedIs
        <2>6. leafed' = Upto(seq, page, n) \cup ToSet(Slice(seq, page + 1, n))
            BY <2>1, <2>2, <2>3, <2>5
        <2> QED
            BY <2>4, <2>5, <2>6, UptoNext
    <1> QED
        BY <1>1, <1>2, <1>3, <1>4, <1>5

\* So does a rendering of jobs.
LEMMA JobsRenderingKeeps ==
    ASSUME PagedListsIInv, NEW jobs \in SUBSET Jobs, NEW p \in Nat, NEW leaf \in BOOLEAN,
           view = "/jobs", view' = view, display'.limit \in Nat, pageIsLoading' = FALSE,
           RenderJobs(jobs, display', p, leaf),
           leaf => /\ list \notin {NoList, <<>>} /\ display' = display /\ jobs = ToSet(list)
                   /\ limit # 0 /\ p = page + 1 /\ p <= PagesOf(Len(list), limit)
    PROVE  /\ RenderedInv' /\ PageInv' /\ LeafInv'
           /\ page' \in Nat /\ stored' \in Nat
           /\ view' = "/jobs" => leafed' \subseteq Jobs
    <1>1. PICK seq \in Sorted(jobs, display') : Rendering(seq, p, display'.limit, leaf)
        BY DEF RenderJobs
    <1>2. seq \in Seq(Things) /\ ToSet(seq) = jobs /\ seq \in Sorted(ToSet(seq), display')
        BY SortedIs
    <1>3. limit' = display'.limit /\ limit = display.limit
        BY DEF limit
    <1>4. leaf => Onwards(seq, p) /\ display'.limit = limit
        BY <1>2, <1>3 DEF Onwards
    <1> QED
        BY <1>1, <1>2, <1>3, <1>4, RenderingKeeps

---------------------------------------------------------------------------
(* The steps of /jobs *)

LEMMA ListStart == PagedListsInit => PagedListsIInv
    <1> SUFFICES ASSUME PagedListsInit
                 PROVE  PagedListsIInv
        OBVIOUS
    <1> USE DEF PagedListsInit
    <1>1. ListTypes
        BY PagedListsAssumption DEF PagedListsAssumption, ListTypes
    <1>2. SearchInv
        <2>1. PICK admin \in BOOLEAN : search = NewSearch(admin)
            OBVIOUS
        <2>2. [c \in Categories |-> <<>>] \in [Categories -> Seq(Things)]
            OBVIOUS
        <2>3. [c \in Categories |-> "no"] \in [Categories -> {"no", "asked", "lost"}]
            OBVIOUS
        <2> QED
            BY <2>1, <2>2, <2>3, FoundAre DEF SearchInv, Searches, NewSearch
    <1>3. RenderedInv /\ PageInv /\ LeafInv
        BY DEF RenderedInv, PageInv, PageRead, LeafInv
    <1> QED
        BY <1>1, <1>2, <1>3 DEF PagedListsIInv

\* A search that is not touched is still well-formed.
LEMMA SearchKept ==
    ASSUME SearchInv, search' = search
    PROVE  SearchInv'
BY DEF SearchInv

\* The settings are those of a page.
LEMMA LimitIsNat ==
    ASSUME ListTypes
    PROVE  display.limit \in Nat /\ limit \in Nat
    <1>1. PageLimits \subseteq Nat /\ SearchLimit \in Nat
        BY PagedListsAssumption DEF PagedListsAssumption
    <1>2. display.limit \in PageLimits
        BY DEF ListTypes
    <1> QED
        BY <1>1, <1>2 DEF limit

\* Jobs are rendered once the page has been read, with it or with the one before.
LEMMA JobsShownKeep ==
    ASSUME PagedListsIInv, NEW jobs \in SUBSET Jobs, NEW p \in Nat,
           view = "/jobs", RenderJobs(jobs, display, p, FALSE),
           pageIsLoading' = FALSE, early' \in {NoList} \cup SUBSET Jobs,
           UNCHANGED <<view, left, display, search, visits>>
    PROVE  PagedListsIInv'
    <1>1. ListTypes /\ SearchInv
        BY DEF PagedListsIInv
    <1>2. /\ view' = view /\ left' = left /\ display' = display
          /\ search' = search /\ visits' = visits
        OBVIOUS
    <1>3. RenderJobs(jobs, display', p, FALSE) /\ display'.limit \in Nat
        BY <1>1, <1>2, LimitIsNat
    <1>4. /\ RenderedInv' /\ PageInv' /\ LeafInv'
          /\ page' \in Nat /\ stored' \in Nat
          /\ view' = "/jobs" => leafed' \subseteq Jobs
        BY <1>2, <1>3, JobsRenderingKeeps
    <1>5. ListTypes'
        BY <1>1, <1>2, <1>4 DEF ListTypes
    <1>6. SearchInv'
        BY <1>1, <1>2, SearchKept
    <1> QED
        BY <1>4, <1>5, <1>6 DEF PagedListsIInv

LEMMA ListAnsweredKeeps ==
    ASSUME PagedListsIInv, ListAnswered
    PROVE  PagedListsIInv'
    <1>1. ListTypes /\ SearchInv
        BY DEF PagedListsIInv
    <1>2. PICK jobs \in SUBSET Jobs :
             IF pageIsLoading THEN early' = jobs /\ UNCHANGED <<list, page, stored, leafed>>
             ELSE RenderJobs(jobs, display, page, FALSE) /\ UNCHANGED early
        BY DEF ListAnswered
    <1>3. /\ view = "/jobs" /\ pageIsLoading' = pageIsLoading
          /\ view' = view /\ left' = left /\ display' = display
          /\ search' = search /\ visits' = visits
        BY DEF ListAnswered
    <1>4. CASE pageIsLoading
        <2>1. /\ early' = jobs /\ list' = list /\ page' = page /\ stored' = stored
              /\ leafed' = leafed /\ limit' = limit
            BY <1>2, <1>3, <1>4 DEF limit
        <2>2. RenderedInv /\ PageInv /\ LeafInv
            BY DEF PagedListsIInv
        <2>3. ListTypes'
            BY <1>1, <1>3, <2>1 DEF ListTypes
        <2>4. RenderedInv' /\ PageInv'
            BY <1>3, <2>1, <2>2 DEF RenderedInv, PageInv, PageRead
        <2>5. LeafInv'
            BY <1>3, <2>1, <2>2 DEF LeafInv, AllDiffer
        <2> QED
            BY <1>1, <1>3, <2>3, <2>4, <2>5, SearchKept DEF PagedListsIInv
    <1>5. CASE ~pageIsLoading
        <2>1. page \in Nat /\ pageIsLoading' = FALSE /\ early' \in {NoList} \cup SUBSET Jobs
            BY <1>1, <1>2, <1>3, <1>5 DEF ListTypes
        <2> QED
            BY <1>2, <1>3, <1>5, <2>1, JobsShownKeep
    <1> QED
        BY <1>4, <1>5

\* The effect finds the page that was left.
LEMMA StorageIsRead ==
    ASSUME PagedListsIInv, pageIsLoading
    PROVE  /\ (IF stored = NoPage THEN page ELSE stored) = PageRead
           /\ PageRead \in Nat /\ list = NoList /\ left = PageRead
    <1>1. ListTypes /\ PageInv
        BY DEF PagedListsIInv
    <1> QED
        BY <1>1 DEF ListTypes, PageInv, PageRead

LEMMA StorageStateKeeps ==
    ASSUME PagedListsIInv, useSessionStorageState
    PROVE  PagedListsIInv'
    <1>1. ListTypes /\ SearchInv /\ RenderedInv /\ PageInv /\ LeafInv
        BY DEF PagedListsIInv
    <1> DEFINE p == IF stored = NoPage THEN page ELSE stored
    <1>2. /\ pageIsLoading /\ pageIsLoading' = FALSE /\ early' = NoList
          /\ view' = view /\ left' = left /\ display' = display
          /\ search' = search /\ visits' = visits
          /\ \/ view = "/search" /\ Rendering(getCurrentResultsByCategory(search), p, SearchLimit, FALSE)
             \/ view = "/jobs" /\ early # NoList /\ RenderJobs(early, display, p, FALSE)
             \/ view = "/jobs" /\ early = NoList /\ setPageStorage(p) /\ UNCHANGED <<list, leafed>>
        BY DEF useSessionStorageState
    <1>3. p \in Nat /\ list = NoList /\ left = p
        BY <1>2, StorageIsRead
    <1> HIDE DEF p
    <1>4. CASE view = "/search"
        <2> DEFINE seq == getCurrentResultsByCategory(search)
        <2>1. seq \in Seq(Things) /\ Rendering(seq, p, SearchLimit, FALSE)
            <3>1. search.results \in [Categories -> Seq(Things)] /\ search.active \in Categories \cup {"All"}
                BY <1>1 DEF SearchInv, Searches
            <3> QED
                BY <1>2, <1>4, <3>1, ResultsAreList
        <2>2. limit' = SearchLimit /\ SearchLimit \in Nat
            BY <1>2, <1>4, PagedListsAssumption DEF limit, PagedListsAssumption
        <2> HIDE DEF seq
        <2>3. /\ RenderedInv' /\ PageInv' /\ LeafInv'
              /\ page' \in Nat /\ stored' \in Nat
            BY <1>2, <1>3, <1>4, <2>1, <2>2, RenderingKeeps
        <2>4. ListTypes'
            BY <1>1, <1>2, <1>4, <2>3 DEF ListTypes
        <2> QED
            BY <1>1, <1>2, <2>3, <2>4, SearchKept DEF PagedListsIInv
    <1>5. CASE view = "/jobs" /\ early # NoList
        <2>1. early \in SUBSET Jobs /\ RenderJobs(early, display, p, FALSE)
            BY <1>1, <1>2, <1>5 DEF ListTypes
        <2> QED
            BY <1>2, <1>3, <1>5, <2>1, JobsShownKeep
    <1>6. CASE view = "/jobs" /\ early = NoList
        <2>1. page' = p /\ stored' = p /\ list' = list /\ leafed' = leafed
            BY <1>2, <1>6 DEF setPageStorage
        <2>2. ListTypes'
            BY <1>1, <1>2, <1>3, <1>6, <2>1 DEF ListTypes
        <2>3. RenderedInv' /\ PageInv' /\ LeafInv'
            BY <1>2, <1>3, <2>1 DEF RenderedInv, PageInv, PageRead, LeafInv
        <2> QED
            BY <1>1, <1>2, <2>2, <2>3, SearchKept DEF PagedListsIInv
    <1> QED
        BY <1>2, <1>4, <1>5, <1>6

LEMMA DisplayKeeps ==
    ASSUME PagedListsIInv,
           NEW d \in [limit : PageLimits, sortBy : SortKeys, descending : BOOLEAN],
           ChangeDisplay(d)
    PROVE  PagedListsIInv'
    <1>1. ListTypes /\ SearchInv
        BY DEF PagedListsIInv
    <1>2. /\ view = "/jobs" /\ list # NoList /\ display' = d
          /\ RenderJobs(ToSet(list), d, page, FALSE)
          /\ view' = view /\ left' = left /\ search' = search /\ visits' = visits
          /\ early' = early /\ pageIsLoading' = pageIsLoading
        BY DEF ChangeDisplay, Shows
    <1>3. ToSet(list) \in SUBSET Jobs
        BY <1>2 DEF PagedListsIInv, RenderedInv
    <1>4. page \in Nat /\ d.limit \in Nat
        <2>1. d.limit \in PageLimits
            OBVIOUS
        <2> QED
            BY <1>1, <2>1, PagedListsAssumption DEF ListTypes, PagedListsAssumption
    <1>5. /\ RenderJobs(ToSet(list), display', page, FALSE) /\ display'.limit \in Nat
          /\ pageIsLoading' = FALSE
        BY <1>1, <1>2, <1>4 DEF PagedListsIInv, PageInv, ListTypes
    <1>6. /\ RenderedInv' /\ PageInv' /\ LeafInv'
          /\ page' \in Nat /\ stored' \in Nat
          /\ view' = "/jobs" => leafed' \subseteq Jobs
        BY <1>2, <1>3, <1>4, <1>5, JobsRenderingKeeps
    <1>7. ListTypes'
        BY <1>1, <1>2, <1>6 DEF ListTypes
    <1>8. SearchInv'
        BY <1>1, <1>2, SearchKept
    <1> QED
        BY <1>6, <1>7, <1>8 DEF PagedListsIInv

\* The three settings of /jobs.
LEMMA SettingsKeep ==
    ASSUME PagedListsIInv, setJoblistLimit \/ setSortBy \/ setSortByDescending
    PROVE  PagedListsIInv'
    <1> DEFINE Displays == [limit : PageLimits, sortBy : SortKeys, descending : BOOLEAN]
    <1>1. display \in Displays
        BY DEF PagedListsIInv, ListTypes
    <1>2. /\ display.limit \in PageLimits /\ display.sortBy \in SortKeys
          /\ display.descending \in BOOLEAN
          /\ \A n \in PageLimits : [display EXCEPT !.limit = n] \in Displays
          /\ \A key \in SortKeys : [display EXCEPT !.sortBy = key] \in Displays
          /\ [display EXCEPT !.descending = ~@] \in Displays
        BY <1>1
    <1>3. \E d \in Displays : ChangeDisplay(d)
        BY <1>2 DEF setJoblistLimit, setSortBy, setSortByDescending
    <1> QED
        BY <1>3, DisplayKeeps

\* A tab that is loaded anew will read the page that was shown.
LEMMA LoadKeeps ==
    ASSUME PagedListsIInv, Load, SearchInv',
           display' \in [limit : PageLimits, sortBy : SortKeys, descending : BOOLEAN]
    PROVE  PagedListsIInv'
    <1>1. ListTypes /\ PageInv
        BY DEF PagedListsIInv
    <1>2. /\ visits' = visits + 1 /\ list' = NoList /\ early' = NoList /\ leafed' = {}
          /\ left' = (IF list = NoList THEN left ELSE page)
          /\ page' = 1 /\ pageIsLoading' = TRUE /\ view' = view /\ stored' = stored
        BY DEF Load
    <1>3. left' = PageRead
        BY <1>1, <1>2 DEF PageInv, PageRead
    <1>4. PageRead' = PageRead
        <2>1. NoPage \notin Nat
            BY PagedListsAssumption DEF PagedListsAssumption
        <2> QED
            BY <1>1, <1>2, <2>1 DEF PageInv, PageRead, ListTypes
    <1>5. ListTypes'
        BY <1>1, <1>2 DEF ListTypes
    <1>6. RenderedInv' /\ PageInv' /\ LeafInv'
        BY <1>2, <1>3, <1>4 DEF RenderedInv, PageInv, LeafInv
    <1> QED
        BY <1>5, <1>6 DEF PagedListsIInv

LEMMA ReloadKeeps ==
    ASSUME PagedListsIInv, Reload
    PROVE  PagedListsIInv'
    <1>1. Load /\ display' = [display EXCEPT !.descending = TRUE] /\ search' = search
        BY DEF Reload
    <1>2. display \in [limit : PageLimits, sortBy : SortKeys, descending : BOOLEAN]
        BY DEF PagedListsIInv, ListTypes
    <1>3. display' \in [limit : PageLimits, sortBy : SortKeys, descending : BOOLEAN]
        BY <1>1, <1>2
    <1>4. SearchInv'
        BY <1>1, SearchKept DEF PagedListsIInv
    <1> QED
        BY <1>1, <1>3, <1>4, LoadKeeps

---------------------------------------------------------------------------
(* Turning to another page *)

LEMMA TurnKeeps ==
    ASSUME PagedListsIInv, NEW p \in Nat, NEW leaf \in BOOLEAN, Turn(p, leaf),
           leaf => /\ list # <<>> /\ limit # 0 /\ p = page + 1
                   /\ p <= PagesOf(Len(list), limit)
    PROVE  PagedListsIInv'
    <1>1. ListTypes /\ SearchInv
        BY DEF PagedListsIInv
    <1>2. /\ list # NoList /\ view' = view /\ left' = left /\ display' = display
          /\ search' = search /\ visits' = visits
          /\ early' = early /\ pageIsLoading' = FALSE
        BY <1>1 DEF Turn, PagedListsIInv, PageInv, ListTypes
    <1>3. /\ list \in Seq(Things)
          /\ view = "/jobs" => ToSet(list) \subseteq Jobs
        BY <1>2 DEF PagedListsIInv, RenderedInv
    <1>4. /\ RenderedInv' /\ PageInv' /\ LeafInv'
          /\ page' \in Nat /\ stored' \in Nat
          /\ view' = "/jobs" => leafed' \subseteq Jobs
        <2>1. CASE view = "/jobs"
            <3>1. RenderJobs(ToSet(list), display', p, leaf)
                BY <1>2, <2>1 DEF Turn
            <3>2. display'.limit \in Nat
                BY <1>1, <1>2, LimitIsNat
            <3>3. leaf => /\ list \notin {NoList, <<>>} /\ display' = display
                          /\ limit # 0 /\ p = page + 1 /\ p <= PagesOf(Len(list), limit)
                BY <1>2
            <3> QED
                BY <1>2, <1>3, <2>1, <3>1, <3>2, <3>3, JobsRenderingKeeps
        <2>2. CASE view # "/jobs"
            <3>1. Rendering(list, p, SearchLimit, leaf)
                BY <2>2 DEF Turn
            <3>2. limit = SearchLimit /\ limit' = SearchLimit /\ limit \in Nat
                BY <1>1, <1>2, <2>2, LimitIsNat DEF limit
            <3>3. leaf => Onwards(list, p)
                BY <1>2, <2>2 DEF Onwards
            <3> QED
                BY <1>2, <1>3, <2>2, <3>1, <3>2, <3>3, RenderingKeeps
        <2> QED
            BY <2>1, <2>2
    <1>5. ListTypes'
        BY <1>1, <1>2, <1>4 DEF ListTypes
    <1>6. SearchInv'
        BY <1>1, <1>2, SearchKept
    <1> QED
        BY <1>4, <1>5, <1>6 DEF PagedListsIInv

\* Where the selection leads: to a page of the list, and shows the next one as the next.
LEMMA PageSelectionKeeps ==
    ASSUME PagedListsIInv, PageSelection
    PROVE  PagedListsIInv'
    <1> DEFINE pages == PagesOf(Len(list), limit)
    <1>1. ListTypes
        BY DEF PagedListsIInv
    <1>2. list # NoList /\ SelectionShown
        BY DEF PageSelection
    <1>3. page \in Nat /\ limit \in Nat /\ list \in Seq(Things) /\ Len(list) \in Nat
        BY <1>1, <1>2, LimitIsNat DEF PagedListsIInv, RenderedInv, ListTypes
    <1>4. pages \in Nat /\ (limit = 0 => pages = 1) /\ (limit # 0 => limit * (pages - 1) < Len(list))
        BY <1>3, PagesAre
    <1>5. list # <<>>
        <2> SUFFICES ASSUME list = <<>>
                     PROVE  FALSE
            OBVIOUS
        <2>1. limit # 0 /\ pages > 1 /\ Len(list) = 0
            BY <1>2 DEF SelectionShown
        <2>2. limit * (pages - 1) \in Nat
            BY <1>3, <1>4, <2>1
        <2> QED
            BY <1>3, <1>4, <2>1, <2>2
    <1>6. 1 <= page
        BY <1>2, <1>5 DEF PagedListsIInv, PageInv
    <1>7. \/ page > 1 /\ \E p \in {1, page - 1} : Turn(p, FALSE)
          \/ page > 2 /\ Turn(page - 2, FALSE)
          \/ page < pages /\ Turn(page + 1, TRUE)
          \/ page < pages /\ Turn(pages, page + 1 = pages)
          \/ page + 2 <= pages /\ Turn(page + 2, FALSE)
        BY DEF PageSelection
    <1> HIDE DEF pages
    <1>8. \E p \in Nat, leaf \in BOOLEAN :
             Turn(p, leaf) /\ (leaf => p = page + 1 /\ p <= pages /\ page < pages)
        <2>1. CASE page > 1 /\ \E p \in {1, page - 1} : Turn(p, FALSE)
            <3>1. 1 \in Nat /\ page - 1 \in Nat /\ FALSE \in BOOLEAN
                BY <1>3, <2>1
            <3> QED
                BY <2>1, <3>1, Zenon
        <2>2. CASE page > 2 /\ Turn(page - 2, FALSE)
            <3>1. page - 2 \in Nat /\ FALSE \in BOOLEAN
                BY <1>3, <2>2
            <3> QED
                BY <2>2, <3>1, Zenon
        <2>3. CASE page < pages /\ Turn(page + 1, TRUE)
            <3>1. page + 1 \in Nat /\ page + 1 <= pages /\ TRUE \in BOOLEAN
                BY <1>3, <1>4, <2>3
            <3> QED
                BY <2>3, <3>1, Zenon
        <2>4. CASE page < pages /\ Turn(pages, page + 1 = pages)
            <3>1. (page + 1 = pages) \in BOOLEAN /\ pages <= pages
                BY <1>3, <1>4
            <3> QED
                BY <1>4, <2>4, <3>1, Zenon
        <2>5. CASE page + 2 <= pages /\ Turn(page + 2, FALSE)
            <3>1. page + 2 \in Nat /\ FALSE \in BOOLEAN
                BY <1>3
            <3> QED
                BY <2>5, <3>1, Zenon
        <2> QED
            BY <1>7, <2>1, <2>2, <2>3, <2>4, <2>5
    <1>9. PICK p \in Nat, leaf \in BOOLEAN :
             Turn(p, leaf) /\ (leaf => p = page + 1 /\ p <= pages /\ page < pages)
        BY <1>8
    <1>10. leaf => /\ list # <<>> /\ limit # 0 /\ p = page + 1
                   /\ p <= PagesOf(Len(list), limit)
        <2>1. page < pages => limit # 0
            BY <1>3, <1>4, <1>6
        <2> QED
            BY <1>5, <1>9, <2>1 DEF pages
    <1> QED
        BY <1>9, <1>10, TurnKeeps

---------------------------------------------------------------------------
(* The steps of /search *)

\* Showing what is known of a search keeps the invariant.
LEMMA ResultsKeep ==
    ASSUME PagedListsIInv, view = "/search", NEW s \in Searches,
           \A c \in Categories : s.results[c] \in Found[c], RenderResults(s)
    PROVE  PagedListsIInv'
    <1>1. ListTypes
        BY DEF PagedListsIInv
    <1>2. /\ search' = s /\ view' = view /\ left' = left /\ display' = display
          /\ early' = early /\ pageIsLoading' = pageIsLoading /\ visits' = visits
        BY DEF RenderResults
    <1>3. /\ RenderedInv' /\ PageInv' /\ LeafInv'
          /\ page' \in Nat /\ stored' \in Nat \cup {NoPage}
        <2>1. CASE s.term = "long" /\ ~pageIsLoading
            <3> DEFINE seq == getCurrentResultsByCategory(s)
            <3>1. Rendering(seq, page, SearchLimit, FALSE)
                BY <2>1 DEF RenderResults
            <3>2. seq \in Seq(Things)
                <4>1. s.results \in [Categories -> Seq(Things)] /\ s.active \in Categories \cup {"All"}
                    BY DEF Searches
                <4> QED
                    BY <4>1, ResultsAreList
            <3>3. limit = SearchLimit /\ limit' = SearchLimit /\ limit \in Nat /\ page \in Nat
                BY <1>1, <1>2, LimitIsNat DEF limit, ListTypes
            <3> HIDE DEF seq
            <3>4. pageIsLoading' = FALSE
                BY <1>1, <1>2, <2>1 DEF ListTypes
            <3> QED
                BY <1>2, <3>1, <3>2, <3>3, <3>4, RenderingKeeps
        <2>2. CASE ~(s.term = "long" /\ ~pageIsLoading)
            <3>1. /\ list' = list /\ page' = page /\ stored' = stored /\ leafed' = leafed
                  /\ limit' = limit
                BY <1>2, <2>2 DEF RenderResults, limit
            <3>2. RenderedInv /\ PageInv /\ LeafInv
                BY DEF PagedListsIInv
            <3>3. RenderedInv'
                BY <1>2, <3>1, <3>2 DEF RenderedInv
            <3>4. PageInv'
                BY <1>2, <3>1, <3>2 DEF PageInv, PageRead
            <3>5. LeafInv'
                BY <1>2, <3>1, <3>2 DEF LeafInv, AllDiffer
            <3> QED
                BY <1>1, <3>1, <3>3, <3>4, <3>5 DEF ListTypes
        <2> QED
            BY <2>1, <2>2
    <1>4. ListTypes'
        BY <1>1, <1>2, <1>3 DEF ListTypes
    <1>5. SearchInv'
        BY <1>2 DEF SearchInv, Searches
    <1> QED
        BY <1>3, <1>4, <1>5 DEF PagedListsIInv

\* A search by its fields,
LEMMA SearchFields ==
    ASSUME NEW s \in Searches
    PROVE  /\ s = [term |-> s.term, isAdmin |-> s.isAdmin, active |-> s.active,
                   results |-> s.results, loading |-> s.loading]
           /\ s.term \in {"none", "short", "long"} /\ s.isAdmin \in BOOLEAN
           /\ s.active \in Categories \cup {"All"} /\ s.results \in [Categories -> Seq(Things)]
           /\ s.loading \in [Categories -> {"no", "asked", "lost"}]
BY DEF Searches

\* with another term,
LEMMA TermRead ==
    ASSUME NEW s \in Searches, NEW t \in {"none", "short", "long"},
           NEW l \in [Categories -> {"no", "asked", "lost"}]
    PROVE  /\ [[s EXCEPT !.term = t] EXCEPT !.loading = l] \in Searches
           /\ [[s EXCEPT !.term = t] EXCEPT !.loading = l].results = s.results
    <1> DEFINE u == [s EXCEPT !.term = t]
    <1>1. /\ s = [term |-> s.term, isAdmin |-> s.isAdmin, active |-> s.active,
                  results |-> s.results, loading |-> s.loading]
          /\ s.isAdmin \in BOOLEAN /\ s.active \in Categories \cup {"All"}
          /\ s.results \in [Categories -> Seq(Things)]
        BY SearchFields
    <1>2. u = [term |-> t, isAdmin |-> s.isAdmin, active |-> s.active,
               results |-> s.results, loading |-> s.loading]
        BY <1>1
    <1> HIDE DEF u
    <1>3. [u EXCEPT !.loading = l] = [term |-> t, isAdmin |-> s.isAdmin, active |-> s.active,
                                      results |-> s.results, loading |-> l]
        BY <1>2
    <1>4. [u EXCEPT !.loading = l] \in Searches /\ [u EXCEPT !.loading = l].results = s.results
        BY <1>1, <1>3 DEF Searches
    <1> QED
        BY <1>4 DEF u

\* with another category,
LEMMA CategoryChosen ==
    ASSUME NEW s \in Searches, NEW a \in Categories \cup {"All"}
    PROVE  [s EXCEPT !.active = a] \in Searches /\ [s EXCEPT !.active = a].results = s.results
    <1>1. /\ s = [term |-> s.term, isAdmin |-> s.isAdmin, active |-> s.active,
                  results |-> s.results, loading |-> s.loading]
          /\ s.term \in {"none", "short", "long"} /\ s.isAdmin \in BOOLEAN
          /\ s.results \in [Categories -> Seq(Things)]
          /\ s.loading \in [Categories -> {"no", "asked", "lost"}]
        BY SearchFields
    <1>2. [s EXCEPT !.active = a] =
             [term |-> s.term, isAdmin |-> s.isAdmin, active |-> a,
              results |-> s.results, loading |-> s.loading]
        BY <1>1
    <1> QED
        BY <1>1, <1>2 DEF Searches

\* with one request less,
LEMMA LoadingEnded ==
    ASSUME NEW s \in Searches, NEW c \in Categories, NEW l \in {"no", "asked", "lost"}
    PROVE  [s EXCEPT !.loading[c] = l] \in Searches /\ [s EXCEPT !.loading[c] = l].results = s.results
    <1> DEFINE k == [s.loading EXCEPT ![c] = l]
    <1>1. /\ s = [term |-> s.term, isAdmin |-> s.isAdmin, active |-> s.active,
                  results |-> s.results, loading |-> s.loading]
          /\ s.term \in {"none", "short", "long"} /\ s.isAdmin \in BOOLEAN
          /\ s.active \in Categories \cup {"All"} /\ s.results \in [Categories -> Seq(Things)]
        BY SearchFields
    <1>2. k \in [Categories -> {"no", "asked", "lost"}]
        BY SearchFields
    <1>3. [s EXCEPT !.loading[c] = l] = [s EXCEPT !.loading = k]
        OBVIOUS
    <1> HIDE DEF k
    <1>4. [s EXCEPT !.loading = k] =
             [term |-> s.term, isAdmin |-> s.isAdmin, active |-> s.active,
              results |-> s.results, loading |-> k]
        BY <1>1
    <1>5. [s EXCEPT !.loading = k] \in Searches /\ [s EXCEPT !.loading = k].results = s.results
        BY <1>1, <1>2, <1>4 DEF Searches
    <1> QED
        BY <1>3, <1>5

\* and with the results of one.
LEMMA ResultsCame ==
    ASSUME NEW s \in Searches, NEW c \in Categories, NEW found \in Seq(Things),
           NEW l \in {"no", "asked", "lost"}
    PROVE  /\ [s EXCEPT !.results[c] = found, !.loading[c] = l] \in Searches
           /\ [s EXCEPT !.results[c] = found, !.loading[c] = l].results
                 = [s.results EXCEPT ![c] = found]
    <1> DEFINE r == [s.results EXCEPT ![c] = found]
               u == [s EXCEPT !.results = r]
    <1>1. /\ s = [term |-> s.term, isAdmin |-> s.isAdmin, active |-> s.active,
                  results |-> s.results, loading |-> s.loading]
          /\ s.term \in {"none", "short", "long"} /\ s.isAdmin \in BOOLEAN
          /\ s.active \in Categories \cup {"All"}
          /\ s.loading \in [Categories -> {"no", "asked", "lost"}]
        BY SearchFields
    <1>2. r \in [Categories -> Seq(Things)]
        BY SearchFields
    <1>3. [s EXCEPT !.results[c] = found, !.loading[c] = l] = [u EXCEPT !.loading[c] = l]
        OBVIOUS
    <1> HIDE DEF r
    <1>4. u = [term |-> s.term, isAdmin |-> s.isAdmin, active |-> s.active,
               results |-> r, loading |-> s.loading]
        BY <1>1
    <1>5. u \in Searches /\ u.results = r
        BY <1>1, <1>2, <1>4 DEF Searches
    <1> HIDE DEF u
    <1>6. [u EXCEPT !.loading[c] = l] \in Searches /\ [u EXCEPT !.loading[c] = l].results = r
        BY <1>5, LoadingEnded
    <1> QED
        BY <1>3, <1>6 DEF r

LEMMA ReadTermKeeps ==
    ASSUME PagedListsIInv, ReadTerm
    PROVE  PagedListsIInv'
    <1>1. search \in Searches /\ \A c \in Categories : search.results[c] \in Found[c]
        BY DEF PagedListsIInv, SearchInv, Searches
    <1>2. PICK t \in {"short", "long"} :
             RenderResults([[search EXCEPT !.term = t] EXCEPT !.loading =
                 [c \in Categories |-> IF AskedFor([search EXCEPT !.term = t], c)
                                       THEN "asked" ELSE "no"]])
        BY DEF ReadTerm
    <1> DEFINE l == [c \in Categories |-> IF AskedFor([search EXCEPT !.term = t], c)
                                          THEN "asked" ELSE "no"]
               s == [[search EXCEPT !.term = t] EXCEPT !.loading = l]
    <1>3. l \in [Categories -> {"no", "asked", "lost"}] /\ view = "/search"
        BY DEF ReadTerm
    <1>4. RenderResults(s)
        BY <1>2
    <1> HIDE DEF l
    <1>5. s \in Searches /\ s.results = search.results
        BY <1>1, <1>3, TermRead
    <1> HIDE DEF s
    <1> QED
        BY <1>1, <1>3, <1>4, <1>5, ResultsKeep

LEMMA ResultsAnsweredKeeps ==
    ASSUME PagedListsIInv, NEW c \in Categories, ResultsAnswered(c)
    PROVE  PagedListsIInv'
    <1>1. search \in Searches /\ \A x \in Categories : search.results[x] \in Found[x]
        BY DEF PagedListsIInv, SearchInv, Searches
    <1>2. PICK found \in Found[c] :
             RenderResults([search EXCEPT !.results[c] = found, !.loading[c] = "no"])
        BY DEF ResultsAnswered
    <1>3. found \in Seq(Things) /\ view = "/search"
        BY FoundAre DEF ResultsAnswered
    <1> DEFINE s == [search EXCEPT !.results[c] = found, !.loading[c] = "no"]
    <1>4. s \in Searches /\ s.results = [search.results EXCEPT ![c] = found]
        <2>1. "no" \in {"no", "asked", "lost"} /\ search \in Searches
            BY <1>1
        <2> QED
            BY <1>3, <2>1, ResultsCame, Zenon
    <1>5. RenderResults(s)
        BY <1>2
    <1> HIDE DEF s
    <1>6. search.results \in [Categories -> Seq(Things)]
        BY <1>1, SearchFields
    <1>7. \A x \in Categories : s.results[x] \in Found[x]
        BY <1>1, <1>4, <1>6
    <1> QED
        BY <1>3, <1>4, <1>5, <1>7, ResultsKeep

LEMMA ResultsFailKeeps ==
    ASSUME PagedListsIInv, NEW c \in Categories, ResultsFail(c)
    PROVE  PagedListsIInv'
    <1>1. search \in Searches /\ \A x \in Categories : search.results[x] \in Found[x]
        BY DEF PagedListsIInv, SearchInv, Searches
    <1>2. /\ search' = [search EXCEPT !.loading[c] = "lost"]
          /\ early' = early /\ pageIsLoading' = pageIsLoading
          /\ view' = view /\ list' = list /\ page' = page /\ stored' = stored /\ left' = left
          /\ display' = display /\ leafed' = leafed /\ visits' = visits
        BY DEF ResultsFail
    <1>3. search' \in Searches /\ search'.results = search.results
        BY <1>1, <1>2, LoadingEnded
    <1>4. SearchInv'
        BY <1>1, <1>3 DEF SearchInv, Searches
    <1>5. ListTypes'
        BY <1>2 DEF PagedListsIInv, ListTypes
    <1>6. limit' = limit /\ RenderedInv /\ PageInv /\ LeafInv
        BY <1>2 DEF limit, PagedListsIInv
    <1>7. RenderedInv'
        BY <1>2, <1>6 DEF RenderedInv
    <1>8. PageInv'
        BY <1>2, <1>6 DEF PageInv, PageRead
    <1>9. LeafInv'
        BY <1>2, <1>6 DEF LeafInv, AllDiffer
    <1> QED
        BY <1>4, <1>5, <1>7, <1>8, <1>9 DEF PagedListsIInv

LEMMA CategoryKeeps ==
    ASSUME PagedListsIInv, setActiveCategory
    PROVE  PagedListsIInv'
    <1>1. search \in Searches /\ \A x \in Categories : search.results[x] \in Found[x]
        BY DEF PagedListsIInv, SearchInv, Searches
    <1>2. PICK a \in Categories \cup {"All"} : RenderResults([search EXCEPT !.active = a])
        BY DEF setActiveCategory
    <1> DEFINE s == [search EXCEPT !.active = a]
    <1>3. s \in Searches /\ s.results = search.results
        BY <1>1, CategoryChosen
    <1>4. RenderResults(s) /\ view = "/search"
        BY <1>2 DEF setActiveCategory
    <1> HIDE DEF s
    <1> QED
        BY <1>1, <1>3, <1>4, ResultsKeep

LEMMA SearchAgainKeeps ==
    ASSUME PagedListsIInv, SearchAgain
    PROVE  PagedListsIInv'
    <1>1. ListTypes /\ SearchInv
        BY DEF PagedListsIInv
    <1>2. Load /\ search' = NewSearch(search.isAdmin) /\ display' = display
        BY DEF SearchAgain
    <1>3. SearchInv'
        <2>1. search.isAdmin \in BOOLEAN
            BY <1>1 DEF SearchInv, Searches
        <2>2. [c \in Categories |-> <<>>] \in [Categories -> Seq(Things)]
            OBVIOUS
        <2>3. [c \in Categories |-> "no"] \in [Categories -> {"no", "asked", "lost"}]
            OBVIOUS
        <2> QED
            BY <1>2, <2>1, <2>2, <2>3, FoundAre DEF SearchInv, Searches, NewSearch
    <1>4. display' \in [limit : PageLimits, sortBy : SortKeys, descending : BOOLEAN]
        BY <1>1, <1>2 DEF ListTypes
    <1> QED
        BY <1>2, <1>3, <1>4, LoadKeeps

LEMMA NothingKeeps ==
    ASSUME PagedListsIInv, UNCHANGED listVars
    PROVE  PagedListsIInv'
    <1>1. /\ view' = view /\ list' = list /\ page' = page /\ stored' = stored /\ left' = left
          /\ display' = display /\ search' = search /\ leafed' = leafed /\ early' = early
          /\ pageIsLoading' = pageIsLoading /\ visits' = visits
        BY DEF listVars
    <1>2. limit' = limit
        BY <1>1 DEF limit
    <1>3. ListTypes' /\ SearchInv' /\ RenderedInv' /\ PageInv'
        BY <1>1, <1>2 DEF PagedListsIInv, ListTypes, SearchInv, RenderedInv, PageInv, PageRead
    <1>4. LeafInv'
        BY <1>1, <1>2 DEF PagedListsIInv, LeafInv, AllDiffer
    <1> QED
        BY <1>3, <1>4 DEF PagedListsIInv

---------------------------------------------------------------------------
(* What is proved *)

\* The invariant of PagedLists: what is shown is sorted by the settings of the moment, and
\* the page is one of the list and the one in the storage, whatever came before.
THEOREM PagedListsInvariance == PagedListsSpec => []PagedListsIInv
    <1>1. PagedListsIInv /\ [PagedListsNext]_listVars => PagedListsIInv'
        <2> SUFFICES ASSUME PagedListsIInv, [PagedListsNext]_listVars
                     PROVE  PagedListsIInv'
            OBVIOUS
        <2>1. CASE ListAnswered
            BY <2>1, ListAnsweredKeeps
        <2>2. CASE setJoblistLimit \/ setSortBy \/ setSortByDescending
            BY <2>2, SettingsKeep
        <2>3. CASE PageSelection
            BY <2>3, PageSelectionKeeps
        <2>4. CASE ReadTerm
            BY <2>4, ReadTermKeeps
        <2>5. CASE setActiveCategory
            BY <2>5, CategoryKeeps
        <2>6. CASE \E c \in Categories : ResultsAnswered(c) \/ ResultsFail(c)
            BY <2>6, ResultsAnsweredKeeps, ResultsFailKeeps
        <2>7. CASE Reload
            BY <2>7, ReloadKeeps
        <2>8. CASE SearchAgain
            BY <2>8, SearchAgainKeeps
        <2>9. CASE useSessionStorageState
            BY <2>9, StorageStateKeeps
        <2>10. CASE UNCHANGED listVars
            BY <2>10, NothingKeeps
        <2> QED
            BY <2>1, <2>2, <2>3, <2>4, <2>5, <2>6, <2>7, <2>8, <2>9, <2>10 DEF PagedListsNext
    <1> QED
        BY <1>1, ListStart, PTL DEF PagedListsSpec

\* No page of jobs or results is blank as long as there are any.
THEOREM PagesCorrect == PagedListsSpec => []PagedListsInv
    <1>1. ASSUME PagedListsIInv
          PROVE  PagedListsInv
        <2>1. ListTypes /\ SearchInv /\ RenderedInv /\ PageInv
            BY <1>1 DEF PagedListsIInv
        <2>2. PagedListsTypeOK
            <3>1. list = NoList \/ view = "/search" \/ list \in JobLists
                <4> SUFFICES ASSUME list # NoList, view = "/jobs"
                             PROVE  list \in JobLists
                    BY <2>1 DEF ListTypes
                <4>1. list \in Sorted(ToSet(list), display) /\ ToSet(list) \in SUBSET Jobs
                    BY <2>1 DEF RenderedInv
                <4> QED
                    BY <4>1, SortedIs
            <3>2. /\ search.term \in {"none", "short", "long"}
                  /\ search.loading \in [Categories -> {"no", "asked", "lost"}]
                  /\ \A c \in Categories : search.results[c] \in Found[c]
                BY <2>1 DEF SearchInv, Searches
            <3>3. /\ view \in {"/jobs", "/search"}
                  /\ {page, left, visits} \subseteq Nat /\ (stored = NoPage \/ stored \in Nat)
                  /\ early = NoList \/ early \subseteq Jobs
                  /\ pageIsLoading \in BOOLEAN
                  /\ display \in [limit : PageLimits, sortBy : SortKeys, descending : BOOLEAN]
                  /\ view = "/jobs" => leafed \subseteq Jobs
                BY <2>1 DEF ListTypes
            <3> QED
                BY <3>1, <3>2, <3>3 DEF PagedListsTypeOK
        <2>3. NoBlankPage
            <3> SUFFICES ASSUME list \notin {NoList, <<>>}
                         PROVE  Slice(list, page, limit) # <<>>
                BY DEF NoBlankPage
            <3> DEFINE pages == PagesOf(Len(list), limit)
            <3>1. /\ list \in Seq(Things) /\ page \in Nat /\ limit \in Nat
                  /\ 1 <= page /\ (limit = 0 \/ page <= pages)
                BY <2>1, LimitIsNat DEF RenderedInv, PageInv, ListTypes
            <3>2. Len(list) \in Nat /\ 0 < Len(list)
                BY <3>1
            <3>3. pages \in Nat /\ (limit # 0 => limit * (pages - 1) < Len(list))
                BY <3>1, <3>2, PagesAre
            <3> HIDE DEF pages
            <3>4. limit = 0 \/ limit * (page - 1) < Len(list)
                <4> SUFFICES ASSUME limit # 0
                             PROVE  limit * (page - 1) < Len(list)
                    OBVIOUS
                <4>1. PICK k \in Nat : pages = page + k
                    <5>1. pages - page \in Nat /\ pages = page + (pages - page)
                        BY <3>1, <3>3
                    <5> QED
                        BY <5>1
                <4>2. limit * (pages - 1) = limit * (page - 1) + limit * k
                    BY <3>1, <4>1
                <4>3. limit * k \in Nat /\ limit * (page - 1) \in Nat /\ limit * (pages - 1) \in Int
                    BY <3>1, <3>3
                <4> QED
                    BY <3>2, <3>3, <4>2, <4>3
            <3> QED
                BY <3>1, <3>2, <3>4, SliceIs
        <2> QED
            BY <2>2, <2>3 DEF PagedListsInv
    <1> QED
        BY <1>1, PagedListsInvariance, PTL

\* Leafing through to the last page shows all, when no two jobs have the same key.
THEOREM LeafingCorrect == PagedListsSpec => []LeafingShowsAll
    <1>1. ASSUME PagedListsIInv
          PROVE  LeafingShowsAll
        <2> SUFFICES ASSUME list \notin {NoList, <<>>}, leafed # {},
                            page = PagesOf(Len(list), limit),
                            view = "/jobs" => \A a, b \in ToSet(list) : a # b => ~Same(a, b, display)
                     PROVE  leafed = ToSet(list)
            BY DEF LeafingShowsAll
        <2>1. leafed = Upto(list, page, limit)
            BY <1>1 DEF PagedListsIInv, LeafInv, AllDiffer
        <2>2. list \in Seq(Things) /\ limit \in Nat /\ Len(list) \in Nat
            BY <1>1, LimitIsNat DEF PagedListsIInv, RenderedInv
        <2>3. page \in Nat /\ (limit = 0 \/ Len(list) <= limit * page)
            BY <2>2, PagesAre
        <2>4. limit * page \in Nat
            BY <2>2, <2>3
        <2>5. Upto(list, page, limit) = {list[i] : i \in 1..Len(list)}
            BY <2>2, <2>3, <2>4 DEF Upto
        <2> QED
            BY <2>1, <2>2, <2>5 DEF ToSet
    <1> QED
        BY <1>1, PagedListsInvariance, PTL

\* A page of jobs that is loaded anew, however often and whether its jobs come before or
\* after the effect of useSessionStorageState, comes back to the page that was shown.
THEOREM ReloadCorrect == PagedListsSpec => PageSurvivesReload
    <1> DEFINE P == view = "/jobs" /\ list = NoList /\ list' # NoList /\ list' # <<>> /\ left > 0 =>
                       page' = IF limit # 0 /\ PagesOf(Len(list'), limit) < left
                               THEN PagesOf(Len(list'), limit) ELSE left
    <1>1. ASSUME PagedListsIInv, [PagedListsNext]_listVars
          PROVE  P
        <2> SUFFICES ASSUME view = "/jobs", list = NoList, list' # NoList, list' # <<>>, left > 0
                     PROVE  page' = IF limit # 0 /\ PagesOf(Len(list'), limit) < left
                                    THEN PagesOf(Len(list'), limit) ELSE left
            OBVIOUS
        <2>1. ListAnswered \/ useSessionStorageState
            <3>1. ~setJoblistLimit /\ ~setSortBy /\ ~setSortByDescending /\ ~PageSelection
                BY DEF setJoblistLimit, setSortBy, setSortByDescending, ChangeDisplay, Shows,
                       PageSelection
            <3>2. ~ReadTerm /\ ~setActiveCategory /\ ~SearchAgain /\ ~Reload /\ ~UNCHANGED listVars
                BY DEF ReadTerm, setActiveCategory, SearchAgain, Reload, Load, listVars
            <3>3. \A c \in Categories : ~ResultsAnswered(c) /\ ~ResultsFail(c)
                BY DEF ResultsAnswered, ResultsFail
            <3> QED
                BY <1>1, <3>1, <3>2, <3>3 DEF PagedListsNext
        <2>2. limit = display.limit /\ limit \in Nat /\ left \in Nat
            BY <1>1, LimitIsNat DEF limit, PagedListsIInv, ListTypes
        <2>3. \E jobs \in SUBSET Jobs : RenderJobs(jobs, display, left, FALSE)
            <3>1. CASE ListAnswered
                <4>1. ~pageIsLoading
                    BY <3>1 DEF ListAnswered
                <4>2. page = left
                    BY <1>1, <4>1 DEF PagedListsIInv, PageInv, PageRead
                <4> QED
                    BY <3>1, <4>1, <4>2 DEF ListAnswered
            <3>2. CASE useSessionStorageState
                <4>1. (IF stored = NoPage THEN page ELSE stored) = left
                    BY <1>1, <3>2, StorageIsRead DEF useSessionStorageState
                <4>2. early # NoList /\ RenderJobs(early, display, left, FALSE)
                    BY <3>2, <4>1 DEF useSessionStorageState
                <4>3. early \in SUBSET Jobs
                    BY <1>1, <4>2 DEF PagedListsIInv, ListTypes
                <4> QED
                    BY <4>2, <4>3
            <3> QED
                BY <2>1, <3>1, <3>2
        <2>4. PICK jobs \in SUBSET Jobs : RenderJobs(jobs, display, left, FALSE)
            BY <2>3
        <2>5. PICK seq \in Sorted(jobs, display) : Rendering(seq, left, display.limit, FALSE)
            BY <2>4 DEF RenderJobs
        <2>6. list' = seq /\ page' = Clamped(left, Len(seq), limit)
            BY <2>2, <2>5 DEF Rendering, setPageStorage
        <2>7. left # 0
            BY <2>2
        <2> QED
            BY <2>6, <2>7, Zenon DEF Clamped
    <1> HIDE DEF P
    <1>2. PagedListsSpec => [][P]_listVars
        BY <1>1, PagedListsInvariance, PTL DEF PagedListsSpec
    <1> QED
        BY <1>2 DEF PageSurvivesReload, P

===========================================================================

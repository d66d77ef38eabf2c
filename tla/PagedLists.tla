----------------------------- MODULE PagedLists -----------------------------
(***************************************************************************)
(* Long lists, shown a page at a time: the jobs of /jobs, sorted anew at   *)
(* every rendering, and the results of /search, which come in by three     *)
(* requests and in categories that share one page number. The number is    *)
(* kept in the session storage of the tab, and read back in an effect,     *)
(* after a first rendering with the initial number.                        *)
(*                                                                         *)
(* A tab shows one of the two. When the parameters of /jobs ask for other  *)
(* jobs is left to JobsPage: here answers just come.                       *)
(***************************************************************************)
EXTENDS Naturals, Sequences, FiniteSets, SequencesExt

CONSTANTS
    Jobs,           \* what the backend may answer: records of metadata
    Users, Tags,    \* what a search may find besides jobs
    PageLimits,     \* choices of jobs per page; 0 shows all
    SortKeys,       \* keys to sort by
    SearchLimit,    \* results per page of a search
    NoList,         \* no answer yet
    NoPage,         \* nothing in the session storage yet
    MaxVisits       \* bound: pages loaded

ASSUME PagedListsAssumption ==
    /\ IsFiniteSet(Jobs) /\ IsFiniteSet(Users) /\ IsFiniteSet(Tags)
    /\ NoList \notin Seq(Jobs \cup Users \cup Tags) /\ NoPage \notin Nat
    /\ \A job \in Jobs : {"Id", "StartTime", "StopTime", "IsRunning"} \subseteq DOMAIN job
    /\ PageLimits \subseteq Nat /\ 0 \in PageLimits /\ "joblength" \in SortKeys
    /\ SearchLimit \in Nat \ {0} /\ MaxVisits \in Nat
    /\ \A key \in SortKeys : key = "joblength" \/ \A job \in Jobs : job[key] \in Nat

VARIABLES
    view,       \* "/jobs" or "/search"
    list,       \* the rendered list in its order, or NoList while nothing is rendered
    early,      \* jobs that were answered before the page was read, or NoList
    page,       \* the state of useSessionStorageState
    pageIsLoading,
    stored,     \* the page in the session storage
    left,       \* the page shown last before the tab was loaded
    display,    \* the settings of /jobs
    search,     \* the state of /search
    leafed,     \* what was on the pages since the first, leafing forward; or {}
    visits      \* pages loaded so far

listVars == <<view, list, early, page, pageIsLoading, stored, left, display, search, leafed, visits>>

---------------------------------------------------------------------------
(* Pages of a list *)

limit == IF view = "/jobs" THEN display.limit ELSE SearchLimit

\* Pages of a list; with limit 0 there is one, however long the list is.
PagesOf(length, n) == IF n = 0 THEN 1 ELSE (length + n - 1) \div n

\* Mutant of Clamped: the page is kept, as long as it is no negative one.
ClampedBelow(p, length, n) == IF p = 0 /\ length > 0 THEN 1 ELSE p

\* The page a rendering settles on. With limit 0 nothing is clamped; an empty list
\* leads to page 0.
Clamped(p, length, n) ==
    IF n # 0 /\ PagesOf(length, n) < p THEN PagesOf(length, n)
    ELSE IF p = 0 /\ length > 0 THEN 1
    ELSE p

\* Mutant of Slice: the last one on a page is left out.
SliceTooShort(seq, p, n) == IF n = 0 THEN seq ELSE SubSeq(seq, n * (p - 1) + 1, n * p - 1)

\* What is on the page. (With page 0, which is shown for an empty list, nothing.)
Slice(seq, p, n) ==
    IF n = 0 THEN seq
    ELSE IF p = 0 THEN <<>>
    ELSE SubSeq(seq, n * (p - 1) + 1, IF n * p < Len(seq) THEN n * p ELSE Len(seq))

---------------------------------------------------------------------------
(* The order of the jobs *)

Length(job) == IF job.StopTime > job.StartTime THEN job.StopTime - job.StartTime
               ELSE job.StartTime - job.StopTime

\* By length, finished jobs come first and running ones are in the order they started.
Precedes(a, b, d) ==
    LET Down(x, y) == IF d.descending THEN x > y ELSE x < y IN
    IF d.sortBy # "joblength" THEN Down(a[d.sortBy], b[d.sortBy])
    ELSE \/ ~a.IsRunning /\ b.IsRunning
         \/ ~a.IsRunning /\ ~b.IsRunning /\ Down(Length(a), Length(b))
         \/ a.IsRunning /\ b.IsRunning /\ Down(b.StartTime, a.StartTime)

\* The comparison never says that two jobs are equal, so sorting leaves jobs with the
\* same key in an order of its own, which may be another one at the next rendering.
Sorted(jobs, d) ==
    {s \in SetToSeqs(jobs) : \A i, j \in DOMAIN s : i < j => ~Precedes(s[j], s[i], d)}

Same(a, b, d) == ~Precedes(a, b, d) /\ ~Precedes(b, a, d)

---------------------------------------------------------------------------
(* Rendering *)

\* A page number goes to the state and to the session storage.
setPageStorage(p) == page' = p /\ stored' = p

\* Rendering seq with the page number p, which is also the one in the storage, and
\* goes there again if it is clamped. Leafing on adds what is on the page.
Rendering(seq, p, n, leaf) ==
    LET settled == Clamped(p, Len(seq), n) IN
    /\ list' = seq
    /\ setPageStorage(settled)
    /\ leafed' = IF settled = 1 THEN ToSet(Slice(seq, 1, n))
                 ELSE IF leaf /\ leafed # {} THEN leafed \cup ToSet(Slice(seq, settled, n))
                 ELSE {}

\* /jobs sorts what it has and renders.
RenderJobs(jobs, d, p, leaf) ==
    \E seq \in Sorted(jobs, d) : Rendering(seq, p, d.limit, leaf)

Shows == view = "/jobs" /\ list # NoList

\* Mutant of ListAnswered: the list is rendered whether or not the page has been read.
ListAnsweredAtOnce ==
    /\ view = "/jobs"
    /\ \E jobs \in SUBSET Jobs : RenderJobs(jobs, display, page, FALSE)
    /\ UNCHANGED <<view, early, pageIsLoading, left, display, search, visits>>

\* An answer for the parameters of the moment. It is left open whether the first one
\* comes before the effect that reads the page: then it waits for that.
ListAnswered ==
    /\ view = "/jobs"
    /\ \E jobs \in SUBSET Jobs :
          IF pageIsLoading THEN early' = jobs /\ UNCHANGED <<list, page, stored, leafed>>
          ELSE RenderJobs(jobs, display, page, FALSE) /\ UNCHANGED early
    /\ UNCHANGED <<view, pageIsLoading, left, display, search, visits>>

ChangeDisplay(d) ==
    /\ Shows /\ d # display
    /\ display' = d
    /\ RenderJobs(ToSet(list), d, page, FALSE)
    /\ UNCHANGED <<view, early, pageIsLoading, left, search, visits>>

setJoblistLimit == \E n \in PageLimits : ChangeDisplay([display EXCEPT !.limit = n])
setSortBy == \E key \in SortKeys : ChangeDisplay([display EXCEPT !.sortBy = key])
setSortByDescending == ChangeDisplay([display EXCEPT !.descending = ~@])

\* The user turns to another page.
Turn(p, leaf) ==
    /\ list # NoList
    /\ \/ view = "/jobs" /\ RenderJobs(ToSet(list), display, p, leaf)
       \/ view = "/search" /\ Rendering(list, p, SearchLimit, leaf)
    /\ UNCHANGED <<view, early, pageIsLoading, left, display, search, visits>>

\* The selection is there for more than one page; with limit 0, for more than no job,
\* and says that there is one page.
SelectionShown == IF limit = 0 THEN list # <<>> ELSE PagesOf(Len(list), limit) > 1

PageSelection ==
    /\ list # NoList /\ SelectionShown
    /\ LET pages == PagesOf(Len(list), limit) IN
       \/ page > 1 /\ \E p \in {1, page - 1} : Turn(p, FALSE)
       \/ page > 2 /\ Turn(page - 2, FALSE)
       \/ page < pages /\ Turn(page + 1, TRUE)
       \/ page < pages /\ Turn(pages, page + 1 = pages)
       \/ page + 2 <= pages /\ Turn(page + 2, FALSE)

---------------------------------------------------------------------------
(* Searching *)

Categories == {"Users", "Jobs", "Tags"}

\* What the backend may find. Jobs are sorted by their start, the latest first; the
\* rest stays in the order of the answer.
Found ==
    [Users |-> UNION {SetToSeqs(s) : s \in SUBSET Users},
     Tags |-> UNION {SetToSeqs(s) : s \in SUBSET Tags},
     Jobs |-> UNION {Sorted(s, [sortBy |-> "StartTime", descending |-> TRUE]) : s \in SUBSET Jobs}]

getCurrentResultsByCategory(s) ==
    IF s.active = "All" THEN s.results["Users"] \o s.results["Jobs"] \o s.results["Tags"]
    ELSE s.results[s.active]

\* The list is there for a term that is long enough, when the page has been read.
RenderResults(s) ==
    /\ search' = s
    /\ IF s.term = "long" /\ ~pageIsLoading
       THEN Rendering(getCurrentResultsByCategory(s), page, SearchLimit, FALSE)
       ELSE UNCHANGED <<list, page, stored, leafed>>
    /\ UNCHANGED <<view, early, pageIsLoading, left, display, visits>>

\* Users are for administrators.
AskedFor(s, c) == s.term = "long" /\ (c = "Users" => s.isAdmin)

\* Before the term has been read, nothing is asked for. A category that is loading has
\* asked the backend, or will wait for ever.
NewSearch(isAdmin) ==
    [term |-> "none", isAdmin |-> isAdmin, active |-> "All",
     results |-> [c \in Categories |-> <<>>], loading |-> [c \in Categories |-> "no"]]

\* The router knows the term: the effects ask for each category, or empty it.
ReadTerm ==
    /\ view = "/search" /\ search.term = "none"
    /\ \E term \in {"short", "long"} :
          LET s == [search EXCEPT !.term = term] IN
          RenderResults([s EXCEPT !.loading =
              [c \in Categories |-> IF AskedFor(s, c) THEN "asked" ELSE "no"]])

\* Results, or null when there are none. The list of results reads the page before the
\* search asks for them: effects of the parts of a page run first.
ResultsAnswered(c) ==
    /\ view = "/search" /\ search.loading[c] = "asked" /\ ~pageIsLoading
    /\ \E found \in Found[c] :
          RenderResults([search EXCEPT !.results[c] = found, !.loading[c] = "no"])

\* A refusal has no JSON, and a lost request no answer: the category goes on loading.
ResultsFail(c) ==
    /\ view = "/search" /\ search.loading[c] = "asked" /\ ~pageIsLoading
    /\ search' = [search EXCEPT !.loading[c] = "lost"]
    /\ UNCHANGED <<view, list, early, page, pageIsLoading, stored, left, display, leafed, visits>>

setActiveCategory ==
    /\ view = "/search" /\ search.term # "none"
    /\ \E c \in Categories \cup {"All"} :
          /\ c # search.active /\ (c = "Users" => search.isAdmin)
          /\ RenderResults([search EXCEPT !.active = c])

---------------------------------------------------------------------------
(* Loading the tab *)

\* The effect of the hook: it reads the page, or writes the initial one if there is none,
\* and what waited for that is rendered.
useSessionStorageState ==
    /\ pageIsLoading
    /\ view = "/search" => search.term = "long"
    /\ pageIsLoading' = FALSE
    /\ LET p == IF stored = NoPage THEN page ELSE stored IN
       \/ view = "/search" /\ Rendering(getCurrentResultsByCategory(search), p, SearchLimit, FALSE)
       \/ view = "/jobs" /\ early # NoList /\ RenderJobs(early, display, p, FALSE)
       \/ view = "/jobs" /\ early = NoList /\ setPageStorage(p) /\ UNCHANGED <<list, leafed>>
    /\ early' = NoList
    /\ UNCHANGED <<view, left, display, search, visits>>

\* The tab is loaded anew: the page is the initial one until the effect has run.
Load ==
    /\ visits < MaxVisits
    /\ visits' = visits + 1
    /\ list' = NoList /\ early' = NoList /\ leafed' = {}
    /\ left' = IF list = NoList THEN left ELSE page
    /\ page' = 1 /\ pageIsLoading' = TRUE
    /\ UNCHANGED <<view, stored>>

\* A reload, with the settings in the local storage; the direction is not stored.
Reload ==
    /\ view = "/jobs" /\ Load
    /\ display' = [display EXCEPT !.descending = TRUE]
    /\ UNCHANGED search

\* A search for another term loads the page anew.
SearchAgain ==
    /\ view = "/search" /\ Load
    /\ search' = NewSearch(search.isAdmin)
    /\ UNCHANGED display

PagedListsInit ==
    /\ view \in {"/jobs", "/search"}
    /\ list = NoList /\ early = NoList
    /\ page = 1 /\ pageIsLoading = TRUE /\ stored = NoPage /\ left = 1
    /\ display \in [limit : PageLimits, sortBy : SortKeys, descending : {TRUE}]
    /\ search \in {NewSearch(isAdmin) : isAdmin \in BOOLEAN}
    /\ view = "/jobs" => ~search.isAdmin
    /\ view = "/search" => display.limit = 0 /\ display.sortBy = "joblength"
    /\ leafed = {} /\ visits = 0

PagedListsNext ==
    \/ useSessionStorageState
    \/ ListAnswered \/ setJoblistLimit \/ setSortBy \/ setSortByDescending
    \/ PageSelection
    \/ ReadTerm \/ setActiveCategory
    \/ \E c \in Categories : ResultsAnswered(c) \/ ResultsFail(c)
    \/ Reload \/ SearchAgain

PagedListsSpec == PagedListsInit /\ [][PagedListsNext]_listVars

---------------------------------------------------------------------------
(* Properties *)

JobLists == UNION {SetToSeqs(s) : s \in SUBSET Jobs}

\* What is shown is a list, and what is known of a search is what can be found.
PagedListsTypeOK ==
    /\ view \in {"/jobs", "/search"}
    /\ list = NoList \/ view = "/search" \/ list \in JobLists
    /\ early = NoList \/ early \subseteq Jobs
    /\ {page, left, visits} \subseteq Nat /\ (stored = NoPage \/ stored \in Nat)
    /\ pageIsLoading \in BOOLEAN
    /\ display \in [limit : PageLimits, sortBy : SortKeys, descending : BOOLEAN]
    /\ search.term \in {"none", "short", "long"}
    /\ \A c \in Categories : search.results[c] \in Found[c]
    /\ search.loading \in [Categories -> {"no", "asked", "lost"}]
    /\ view = "/jobs" => leafed \subseteq Jobs

\* There is never a blank page as long as the list holds something, whatever limits,
\* answers, categories and reloads came before.
NoBlankPage ==
    list \notin {NoList, <<>>} => Slice(list, page, limit) # <<>>

\* The state is well-formed, and no page of jobs is blank.
PagedListsInv == PagedListsTypeOK /\ NoBlankPage

\* Leafing from the first page to the last shows everything, each on its way: unless
\* jobs have the same key, which may change their places between two pages.
LeafingShowsAll ==
    (/\ list \notin {NoList, <<>>} /\ leafed # {}
     /\ page = PagesOf(Len(list), limit)
     /\ view = "/jobs" => \A a, b \in ToSet(list) : a # b => ~Same(a, b, display))
    => leafed = ToSet(list)

\* A page of jobs that is loaded anew comes back to the page that was shown last, or to
\* the last one there is: also if the jobs are there before the page has been read, if
\* other jobs follow, and if the tab is loaded again before either.
PageSurvivesReload ==
    [][view = "/jobs" /\ list = NoList /\ list' # NoList /\ list' # <<>> /\ left > 0 =>
          page' = IF limit # 0 /\ PagesOf(Len(list'), limit) < left
                  THEN PagesOf(Len(list'), limit) ELSE left]_listVars

---------------------------------------------------------------------------
(* What a comment of the code claims *)

\* PageSelection.tsx:16: "Pages need to have a number in [1, pages]."
PageNumberInRange ==
    list # NoList /\ SelectionShown => page \in 1..PagesOf(Len(list), limit)

===========================================================================

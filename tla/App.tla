-------------------------------- MODULE App --------------------------------
(***************************************************************************)
(* Who may see which page: MyApp with its redirections, the pages that     *)
(* check roles themselves, the login page, the logout of the header, and   *)
(* what the pages do when the backend refuses a request. The tabs of one   *)
(* browser share the Authorization cookie; React knows what it was when    *)
(* the tab was loaded, and hears of changes made with react-cookie only.   *)
(*                                                                         *)
(* One user has at most one session with the backend, see Sessions. The    *)
(* requests of a tab are dropped when it is loaded anew.                   *)
(***************************************************************************)
EXTENDS Naturals, FiniteSets

CONSTANTS
    Tabs,           \* tabs of the browser
    RoleSets,       \* what administrators may assign to the user
    None,           \* no cookie
    MaxLogins,      \* bound: sessions
    MaxPending,     \* bound: requests under way
    MaxEvents       \* bound: pages the user opens and lost requests

ASSUME AppAssumption ==
    /\ RoleSets \subseteq SUBSET {"admin", "user", "job-control"}
    /\ {MaxLogins, MaxPending, MaxEvents} \subseteq Nat

VARIABLES
    session,        \* the session the backend accepts, or 0
    logins,         \* sessions so far
    cookie,         \* the cookie of the browser
    tab,            \* [Tabs -> what the tab shows and knows]
    requests,       \* requests under way
    events,         \* pages opened and requests lost so far
    lost            \* whether a request or its answer was lost

vars == <<session, logins, cookie, tab, requests, events, lost>>

---------------------------------------------------------------------------
(* Data *)

\* A token: its session and the roles in its claims.
Token == [id : 1..MaxLogins, roles : RoleSets]

ASSUME NoneAssumption == None \notin Token

\* Pages that load something, with what they do about a refusal: the lists of jobs
\* remove the cookie with react-cookie; the others (authFetch of a job and of the
\* settings, fetch of the search) leave React in the dark. The statistics, which ask
\* for the list and are guarded like the settings, are not listed.
JobLists == {"/jobs"}
AdminPages == {"/settings"}
Pages == JobLists \cup AdminPages \cup {"/job"}
Paths == Pages \cup {"/login", "/role-error"}

\* data: nothing asked for yet, asked for, or there.
Tab == [pathname : Paths, user : Token \cup {None}, data : {"none", "loading", "shown"}]

Request == [tab : Tabs, of : Pages \cup {"login", "logout", "notify"},
            token : Token \cup {None}, status : {"sent", "ok", "refused"}]

---------------------------------------------------------------------------
(* Redirections *)

useIsAuthenticated(t) == tab[t].user # None

useHasNoAllowedRole(user) == user.roles \cap {"admin", "user"} = {}

\* Mutant of RedirectTo: whoever is at /role-error is sent to the jobs.
RedirectToJobsAnyway(t) ==
    LET path == tab[t].pathname IN
    IF ~useIsAuthenticated(t) THEN "/login"
    ELSE IF path # "/role-error" /\ useHasNoAllowedRole(tab[t].user) THEN "/role-error"
    ELSE IF path \in {"/role-error", "/login"} THEN "/jobs"
    ELSE path

\* Where the effect of MyApp sends the tab, by the three branches of its code; where
\* it does not, the page is rendered.
RedirectTo(t) ==
    LET path == tab[t].pathname IN
    IF ~useIsAuthenticated(t) THEN "/login"
    ELSE IF path # "/role-error" /\ useHasNoAllowedRole(tab[t].user) THEN "/role-error"
    ELSE IF path = "/role-error" /\ ~useHasNoAllowedRole(tab[t].user) THEN "/jobs"
    ELSE IF path = "/login" THEN "/jobs"
    ELSE path

Rendered(t) == RedirectTo(t) = tab[t].pathname

Redirect(t) ==
    /\ ~Rendered(t)
    /\ tab' = [tab EXCEPT ![t].pathname = RedirectTo(t), ![t].data = "none"]
    /\ UNCHANGED <<session, logins, cookie, requests, events, lost>>

\* Mutant of AccessDenied: the backend will refuse.
AccessDeniedByBackend(t) == FALSE

\* Statistics and settings are for administrators.
AccessDenied(t) == tab[t].pathname \in AdminPages /\ "admin" \notin tab[t].user.roles

---------------------------------------------------------------------------
(* Requests *)

Happens == events < MaxEvents /\ events' = events + 1

\* A tab sends one request of a kind at a time. The one to the administrators carries
\* what React knows of the user in its body; the others carry the cookie.
Sends(t, of) ==
    /\ ~\E r \in requests : r.tab = t /\ r.of = of
    /\ Cardinality(requests) < MaxPending
    /\ requests' = requests \cup {[tab |-> t, of |-> of, status |-> "sent",
                                   token |-> IF of = "notify" THEN tab[t].user ELSE cookie]}

\* A page that is rendered asks for its data, with the cookie of the browser.
Fetch(t) ==
    /\ Rendered(t) /\ tab[t].pathname \in Pages /\ ~AccessDenied(t)
    /\ tab[t].data = "none"
    /\ Sends(t, tab[t].pathname)
    /\ tab' = [tab EXCEPT ![t].data = "loading"]
    /\ UNCHANGED <<session, logins, cookie, events, lost>>

\* Local login and its form.
submit(t) ==
    /\ Rendered(t) /\ tab[t].pathname = "/login"
    /\ logins < MaxLogins
    /\ Sends(t, "login")
    /\ UNCHANGED <<session, logins, cookie, tab, events, lost>>

\* The button is there for everyone who is logged in.
logout(t) ==
    /\ useIsAuthenticated(t)
    /\ Sends(t, "logout")
    /\ UNCHANGED <<session, logins, cookie, tab, events, lost>>

requestAccess(t) ==
    /\ Rendered(t) /\ tab[t].pathname = "/role-error"
    /\ Sends(t, "notify")
    /\ UNCHANGED <<session, logins, cookie, tab, events, lost>>

---------------------------------------------------------------------------
(* The backend *)

AuthLevel(of) == IF of = "/settings" THEN "admin" ELSE "user"

\* What Protected lets pass.
Protected(token, level) ==
    /\ token # None /\ token.id = session
    /\ {"admin", level} \cap token.roles # {}

Finish(r, status) == requests' = (requests \ {r}) \cup {[r EXCEPT !.status = status]}

Serve(r) ==
    /\ r.of \in Pages \cup {"logout"} /\ r.status = "sent"
    /\ Finish(r, IF Protected(r.token, AuthLevel(r.of)) THEN "ok" ELSE "refused")
    /\ session' = IF r.of = "logout" /\ Protected(r.token, "user") THEN 0 ELSE session
    /\ UNCHANGED <<logins, cookie, tab, events, lost>>

\* Whoever has a role already is told so.
ServeNotify(r) ==
    /\ r.of = "notify" /\ r.status = "sent"
    /\ Finish(r, IF useHasNoAllowedRole(r.token) THEN "ok" ELSE "refused")
    /\ UNCHANGED <<session, logins, cookie, tab, events, lost>>

\* A login replaces the session; its token carries the roles administrators have given
\* the user by now. The password may be wrong, and those who control jobs are refused.
ServeLogin(r) ==
    /\ r.of = "login" /\ r.status = "sent"
    /\ \/ /\ logins < MaxLogins
          /\ logins' = logins + 1 /\ session' = logins + 1
          /\ \E roles \in RoleSets :
                /\ "job-control" \notin roles
                /\ requests' = (requests \ {r}) \cup
                       {[r EXCEPT !.status = "ok",
                                  !.token = [id |-> logins + 1, roles |-> roles]]}
       \/ Finish(r, "refused") /\ UNCHANGED <<logins, session>>
    /\ UNCHANGED <<cookie, tab, events, lost>>

\* The session expires, and the cookie of the same age may be gone as well.
SessionEnds ==
    /\ session # 0
    /\ session' = 0
    /\ cookie' \in {cookie, None}
    /\ UNCHANGED <<logins, tab, requests, events, lost>>

---------------------------------------------------------------------------
(* Answers, and loading a tab *)

Loaded(path, token) == [pathname |-> path, user |-> token, data |-> "none"]

RequestsOfOthers(t) == {r \in requests : r.tab # t}

\* Mutant of DataAnswered: React is not told.
DataAnsweredQuietly(r) ==
    /\ r.of \in Pages /\ r.status # "sent"
    /\ requests' = requests \ {r}
    /\ IF r.status = "ok" /\ tab[r.tab].pathname = r.of
       THEN tab' = [tab EXCEPT ![r.tab].data = "shown"] ELSE UNCHANGED tab
    /\ cookie' = IF r.status = "ok" THEN cookie ELSE None
    /\ UNCHANGED <<session, logins, events, lost>>

\* Data are shown, if the page is still there. A refusal ends the session of the
\* browser: the answer itself removes the cookie, and useGetJobs tells React so.
DataAnswered(r) ==
    /\ r.of \in Pages /\ r.status # "sent"
    /\ requests' = requests \ {r}
    /\ \/ /\ r.status = "ok"
          /\ tab' = IF tab[r.tab].pathname = r.of
                    THEN [tab EXCEPT ![r.tab].data = "shown"] ELSE tab
          /\ UNCHANGED cookie
       \/ /\ r.status = "refused"
          /\ cookie' = None
          /\ tab' = IF r.of \in JobLists THEN [tab EXCEPT ![r.tab].user = None] ELSE tab
    /\ UNCHANGED <<session, logins, events, lost>>

\* Mutant of LoginAnswered: the page goes on without being loaded anew.
LoginAnsweredInPlace(r) ==
    /\ r.of = "login" /\ r.status # "sent"
    /\ requests' = requests \ {r}
    /\ IF r.status = "ok"
       THEN cookie' = r.token /\ tab' = [tab EXCEPT ![r.tab] = Loaded("/jobs", r.token)]
       ELSE UNCHANGED <<cookie, tab>>
    /\ UNCHANGED <<session, logins, events, lost>>

\* Either way the tab is loaded anew, before or after the router has moved on.
LoginAnswered(r) ==
    /\ r.of = "login" /\ r.status # "sent"
    /\ requests' = RequestsOfOthers(r.tab)
    /\ \/ /\ r.status = "ok"
          /\ cookie' = r.token
          /\ \E path \in {"/login", "/jobs"} : tab' = [tab EXCEPT ![r.tab] = Loaded(path, r.token)]
       \/ /\ r.status = "refused"
          /\ tab' = [tab EXCEPT ![r.tab] = Loaded("/login", cookie)]
          /\ UNCHANGED cookie
    /\ UNCHANGED <<session, logins, events, lost>>

\* Whatever the answer is, the cookie is removed and React knows.
LogoutAnswered(r) ==
    /\ r.of = "logout" /\ r.status # "sent"
    /\ requests' = requests \ {r}
    /\ cookie' = None
    /\ tab' = [tab EXCEPT ![r.tab].user = None]
    /\ UNCHANGED <<session, logins, events, lost>>

\* A message is shown.
NotifyAnswered(r) ==
    /\ r.of = "notify" /\ r.status # "sent"
    /\ requests' = requests \ {r}
    /\ UNCHANGED <<session, logins, cookie, tab, events, lost>>

RequestFails(r) ==
    /\ Happens
    /\ lost' = TRUE
    /\ requests' = requests \ {r}
    /\ UNCHANGED <<session, logins, cookie, tab>>

\* A link of the header or an address: the tab is loaded anew.
Open(t) ==
    /\ Happens
    /\ \E path \in Pages : tab' = [tab EXCEPT ![t] = Loaded(path, cookie)]
    /\ requests' = RequestsOfOthers(t)
    /\ UNCHANGED <<session, logins, cookie, lost>>

\* Login with OIDC leaves the page; the backend sends the browser back to the jobs.
LoginOAuth(t) ==
    /\ Rendered(t) /\ tab[t].pathname = "/login"
    /\ logins < MaxLogins
    /\ logins' = logins + 1 /\ session' = logins + 1
    /\ \E roles \in RoleSets :
          LET token == [id |-> logins + 1, roles |-> roles] IN
          cookie' = token /\ tab' = [tab EXCEPT ![t] = Loaded("/jobs", token)]
    /\ requests' = RequestsOfOthers(t)
    /\ UNCHANGED <<events, lost>>

---------------------------------------------------------------------------

Init ==
    /\ session = 0 /\ logins = 0 /\ cookie = None
    /\ tab \in [Tabs -> {Loaded("/jobs", None)}]
    /\ requests = {}
    /\ events = 0 /\ lost = FALSE

Served(r) == Serve(r) \/ ServeNotify(r) \/ ServeLogin(r)
Answered(r) == DataAnswered(r) \/ LoginAnswered(r) \/ LogoutAnswered(r) \/ NotifyAnswered(r)

Next ==
    \/ \E t \in Tabs : Redirect(t) \/ Fetch(t)
    \/ \E t \in Tabs : submit(t) \/ logout(t) \/ requestAccess(t) \/ Open(t) \/ LoginOAuth(t)
    \/ \E r \in requests : Served(r) \/ Answered(r) \/ RequestFails(r)
    \/ SessionEnds

Spec == Init /\ [][Next]_vars

\* Effects run, and requests for lists are served and answered or fail.
FairSpec ==
    /\ Spec
    /\ \A t \in Tabs :
          /\ WF_vars(Redirect(t))
          /\ WF_vars(\E r \in requests : r.tab = t /\ r.of \in JobLists
                                           /\ (Serve(r) \/ DataAnswered(r) \/ RequestFails(r)))

---------------------------------------------------------------------------
(* Properties *)

\* Cookies, tabs and requests are well-formed.
TypeOK ==
    /\ session \in 0..logins /\ logins \in 0..MaxLogins
    /\ cookie \in Token \cup {None}
    /\ tab \in [Tabs -> Tab]
    /\ requests \subseteq Request
    /\ events \in 0..MaxEvents /\ lost \in BOOLEAN

\* Data are rendered only for someone who had the role for them when they were
\* asked for, also while redirections, refusals and logins of other tabs cross.
DataNeedRoles ==
    \A t \in Tabs : Rendered(t) /\ tab[t].data = "shown" =>
        LET path == tab[t].pathname IN
        tab[t].user # None /\ {"admin", AuthLevel(path)} \cap tab[t].user.roles # {}

\* The state is well-formed, and data are shown only to who may see them.
Inv == TypeOK /\ DataNeedRoles

\* A refusal that comes late does not log a user out again: when the cookie is
\* removed in a tab that knows the session it is for, the refused request had that
\* same session. (A request of another tab, sent before, does remove it.)
LoginSurvives ==
    [][\A r \in requests :
          (r \notin requests' /\ cookie # None /\ cookie' = None) =>
              (tab[r.tab].user = cookie => r.token = cookie)]_vars

\* The redirections do not send a tab round for ever.
RedirectionsEnd == \A t \in Tabs : []<>Rendered(t)

\* A tab does not wait for a list of jobs for ever, unless the request is lost: the
\* list is shown, or a refusal leads to the login page. (The pages that use authFetch
\* or fetch do wait for ever once they are refused: React does not hear of it.)
ListsLoadOrLogOut ==
    \A t \in Tabs :
        tab[t].pathname \in JobLists /\ tab[t].data = "loading" ~> tab[t].data # "loading" \/ lost

---------------------------------------------------------------------------
(* What a comment of the code claims *)

\* Header.tsx:81: logout "removes the authorization cookie locally and revokes the
\* session via the API".
LogoutRevokes ==
    [][\A r \in requests :
          LogoutAnswered(r) /\ r.token # None => session # r.token.id]_vars

===========================================================================

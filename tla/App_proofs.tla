----------------------------- MODULE App_proofs -----------------------------
(***************************************************************************)
(* Data are shown only to who may see them, and late refusals do not log a *)
(* user out again: for any tabs, roles and bounds.                         *)
(***************************************************************************)
EXTENDS App, TLAPS

USE AppAssumption, NoneAssumption

---------------------------------------------------------------------------
(* The invariant *)

\* Only pages ask for data.
OnPages == \A t \in Tabs : tab[t].data # "none" => tab[t].pathname \in Pages

\* What an administrator asked for is awaited only by a tab of an administrator.
AdminsOnly ==
    /\ \A t \in Tabs : tab[t].pathname \in AdminPages /\ tab[t].data # "none" /\ tab[t].user # None =>
            "admin" \in tab[t].user.roles
    /\ \A r \in requests : r.of \in AdminPages /\ tab[r.tab].pathname = r.of
                             /\ tab[r.tab].user # None =>
            "admin" \in tab[r.tab].user.roles

\* Logins that were accepted and whose answer is under way.
Issued == {r \in requests : r.of = "login" /\ r.status = "ok"}

\* Sessions have been counted, and nobody knows of a session before its login is answered.
FreshLogins ==
    /\ cookie # None => cookie.id <= logins
    /\ \A t \in Tabs : tab[t].user # None => tab[t].user.id <= logins
    /\ \A r \in Issued :
        /\ r.token # None /\ r.token.id <= logins
        /\ cookie # None => cookie.id # r.token.id
        /\ \A t \in Tabs : tab[t].user # None => tab[t].user.id # r.token.id
        /\ \A q \in Issued : q # r => q.token.id # r.token.id

\* A tab that knows the session of the cookie has sent no request with another one.
OwnCookie ==
    \A r \in requests :
        r.of \in Pages \cup {"logout"} /\ tab[r.tab].user # None /\ tab[r.tab].user = cookie =>
            r.token = cookie

IInv == TypeOK /\ OnPages /\ AdminsOnly /\ FreshLogins /\ OwnCookie

LEMMA InitInv == Init => IInv
    <1> SUFFICES ASSUME Init PROVE IInv
        OBVIOUS
    <1>1. tab \in [Tabs -> Tab] /\ \A t \in Tabs : tab[t].data = "none" /\ tab[t].user = None
        BY DEF Init, Loaded, Tab, Paths, Pages, JobLists
    <1>2. MaxLogins \in Nat /\ MaxEvents \in Nat
        OBVIOUS
    <1>3. TypeOK
        <2>1. 0 \in 0..MaxLogins /\ 0 \in 0..MaxEvents /\ 0 \in 0..0
            BY <1>2
        <2> QED
            BY <1>1, <2>1 DEF Init, TypeOK
    <1> QED
        BY <1>1, <1>3 DEF Init, IInv, OnPages, AdminsOnly, FreshLogins, OwnCookie, Issued

\* What an object of each kind looks like.
LEMMA Shapes ==
    ASSUME TypeOK
    PROVE  /\ \A t \in Tabs : /\ tab[t] \in Tab /\ tab[t].pathname \in Paths
                              /\ tab[t].user \in Token \cup {None}
           /\ \A r \in requests : /\ r \in Request /\ r.tab \in Tabs
                                  /\ r.token \in Token \cup {None}
           /\ \A tok \in Token : tok.id \in Nat
           /\ logins \in Nat
    <1>1. \A t \in Tabs : /\ tab[t] \in Tab /\ tab[t].pathname \in Paths
                         /\ tab[t].user \in Token \cup {None}
        BY DEF TypeOK, Tab
    <1>2. \A r \in requests : /\ r \in Request /\ r.tab \in Tabs
                             /\ r.token \in Token \cup {None}
        BY DEF TypeOK, Request
    <1>3. MaxLogins \in Nat
        OBVIOUS
    <1>4. \A tok \in Token : tok.id \in Nat
        BY <1>3 DEF Token
    <1>5. logins \in Nat
        BY <1>3 DEF TypeOK
    <1> QED
        BY <1>1, <1>2, <1>4, <1>5

---------------------------------------------------------------------------
(* A tab sends a request *)

LEMMA SendsInv ==
    ASSUME IInv, NEW t \in Tabs, NEW of \in Pages \cup {"login", "logout", "notify"},
           Sends(t, of),
           tab' = tab \/ tab' = [tab EXCEPT ![t].data = "loading"],
           tab' # tab => tab[t].pathname \in Pages,
           (tab' # tab \/ of \in AdminPages)
             /\ tab[t].pathname \in AdminPages /\ tab[t].user # None =>
                "admin" \in tab[t].user.roles,
           UNCHANGED <<session, logins, cookie, events, lost>>
    PROVE  IInv'
    <1> DEFINE new == [tab |-> t, of |-> of, status |-> "sent",
                       token |-> IF of = "notify" THEN tab[t].user ELSE cookie]
    <1>0. TypeOK /\ tab[t].user \in Token \cup {None} /\ cookie \in Token \cup {None}
        BY Shapes DEF IInv, TypeOK
    <1>1. requests' = requests \cup {new} /\ new \in Request
        BY <1>0 DEF Sends, Request
    <1>2. /\ new.tab = t /\ new.of = of /\ new.status = "sent"
          /\ of # "notify" => new.token = cookie
        OBVIOUS
    <1> HIDE DEF new
    <1>3. tab' \in [Tabs -> Tab]
        BY <1>0 DEF TypeOK, Tab
    <1>4. \A u \in Tabs : /\ tab'[u].pathname = tab[u].pathname /\ tab'[u].user = tab[u].user
                          /\ u # t \/ tab' = tab => tab'[u].data = tab[u].data
        BY <1>0 DEF TypeOK, Tab
    <1>5. TypeOK'
        BY <1>0, <1>1, <1>3 DEF TypeOK
    <1>6. OnPages'
        BY <1>4 DEF IInv, OnPages
    <1>7. AdminsOnly'
        <2>1. ASSUME NEW u \in Tabs, tab'[u].pathname \in AdminPages, tab'[u].data # "none",
                     tab'[u].user # None
              PROVE  "admin" \in tab'[u].user.roles
            <3>1. CASE u = t /\ tab' # tab
                BY <1>4, <2>1, <3>1
            <3>2. CASE u # t \/ tab' = tab
                BY <1>4, <2>1, <3>2 DEF IInv, AdminsOnly
            <3> QED
                BY <3>1, <3>2
        <2>2. ASSUME NEW r \in requests', r.of \in AdminPages, tab'[r.tab].pathname = r.of,
                     tab'[r.tab].user # None
              PROVE  "admin" \in tab'[r.tab].user.roles
            <3>1. CASE r \in requests
                BY <1>0, <1>4, <2>2, <3>1, Shapes DEF IInv, AdminsOnly
            <3>2. CASE r = new
                BY <1>2, <1>4, <2>2, <3>2
            <3> QED
                BY <1>1, <3>1, <3>2
        <2> QED
            BY <2>1, <2>2 DEF AdminsOnly
    <1>8. FreshLogins'
        <2>1. Issued' = Issued
            BY <1>1, <1>2 DEF Issued
        <2> QED
            BY <1>4, <2>1 DEF IInv, FreshLogins
    <1>9. OwnCookie'
        BY <1>0, <1>1, <1>2, <1>4, Shapes DEF IInv, OwnCookie, Pages, JobLists, AdminPages
    <1> QED
        BY <1>5, <1>6, <1>7, <1>8, <1>9 DEF IInv

LEMMA PageInv ==
    ASSUME IInv, NEW t \in Tabs, Fetch(t) \/ submit(t) \/ logout(t) \/ requestAccess(t)
    PROVE  IInv'
    <1>1. CASE Fetch(t)
        <2>1. /\ tab[t].pathname \in Pages
              /\ tab[t].pathname \in AdminPages => "admin" \in tab[t].user.roles
            BY <1>1 DEF Fetch, AccessDenied
        <2> QED
            BY <1>1, <2>1, SendsInv DEF Fetch
    <1>2. CASE submit(t)
        BY <1>2, SendsInv DEF submit, AdminPages
    <1>3. CASE logout(t)
        BY <1>3, SendsInv DEF logout, AdminPages
    <1>4. CASE requestAccess(t)
        BY <1>4, SendsInv DEF requestAccess, AdminPages
    <1> QED
        BY <1>1, <1>2, <1>3, <1>4

---------------------------------------------------------------------------
(* A redirection, and loading a tab *)

LEMMA RedirectInv ==
    ASSUME IInv, NEW t \in Tabs, Redirect(t)
    PROVE  IInv'
    <1>0. TypeOK
        BY DEF IInv
    <1>1. RedirectTo(t) \in {"/login", "/role-error", "/jobs"}
        BY DEF Redirect, Rendered, RedirectTo
    <1>2. tab' = [tab EXCEPT ![t] = [tab[t] EXCEPT !.pathname = RedirectTo(t), !.data = "none"]]
        BY <1>0 DEF Redirect, TypeOK, Tab
    <1>3. tab' \in [Tabs -> Tab]
        <2>1. tab[t] \in Tab
            BY <1>0 DEF TypeOK
        <2>2. RedirectTo(t) \in Paths
            BY <1>1 DEF Paths, Pages, JobLists
        <2>3. [tab[t] EXCEPT !.pathname = RedirectTo(t), !.data = "none"] \in Tab
            BY <2>1, <2>2 DEF Tab
        <2> QED
            BY <1>0, <1>2, <2>3 DEF TypeOK
    <1>4. /\ \A u \in Tabs : tab'[u].user = tab[u].user
          /\ \A u \in Tabs \ {t} : tab'[u] = tab[u]
          /\ tab'[t].data = "none" /\ tab'[t].pathname \notin AdminPages
        BY <1>0, <1>1, <1>2 DEF TypeOK, AdminPages
    <1>5. UNCHANGED <<session, logins, cookie, requests, events, lost>>
        BY DEF Redirect
    <1>6. TypeOK'
        BY <1>0, <1>3, <1>5 DEF TypeOK
    <1>7. OnPages' /\ AdminsOnly'
        BY <1>0, <1>4, <1>5, Shapes DEF IInv, OnPages, AdminsOnly
    <1>8. FreshLogins'
        BY <1>4, <1>5 DEF IInv, FreshLogins, Issued
    <1>9. OwnCookie'
        BY <1>0, <1>4, <1>5, Shapes DEF IInv, OwnCookie
    <1> QED
        BY <1>6, <1>7, <1>8, <1>9 DEF IInv

\* A tab that is loaded anew forgets its requests and knows the cookie.
LEMMA LoadInv ==
    ASSUME IInv, NEW t \in Tabs, NEW path \in Paths,
           tab' = [tab EXCEPT ![t] = Loaded(path, cookie')],
           requests' = RequestsOfOthers(t),
           cookie' \in Token \cup {None},
           \/ cookie' = cookie
           \/ /\ cookie' # None /\ cookie'.id <= logins'
              /\ \A u \in Tabs : tab[u].user # cookie'
              /\ \A r \in Issued : r.tab # t => r.token.id # cookie'.id,
           session' \in 0..logins', logins' \in 0..MaxLogins, logins <= logins',
           events' \in 0..MaxEvents, lost' \in BOOLEAN
    PROVE  IInv'
    <1>0. TypeOK
        BY DEF IInv
    <1>1. Loaded(path, cookie') \in Tab
        BY DEF Loaded, Tab
    <1>2. /\ tab'[t].user = cookie' /\ tab'[t].data = "none"
          /\ \A u \in Tabs \ {t} : tab'[u] = tab[u]
        BY <1>0 DEF TypeOK, Loaded
    <1>3. \A r \in requests' : r \in requests /\ r.tab \in Tabs \ {t}
        BY <1>0, Shapes DEF RequestsOfOthers
    <1>4. Issued' \subseteq Issued
        BY <1>3 DEF Issued
    <1>5. TypeOK'
        BY <1>0, <1>1, <1>3 DEF TypeOK
    <1>6. OnPages' /\ AdminsOnly'
        BY <1>2, <1>3 DEF IInv, OnPages, AdminsOnly
    <1>7. FreshLogins'
        <2>1. /\ cookie' # None => cookie'.id <= logins' /\ cookie'.id \in Nat
              /\ logins \in Nat /\ logins' \in Nat
            BY <1>0, Shapes DEF IInv, FreshLogins
        <2>2. ASSUME NEW u \in Tabs, tab'[u].user # None PROVE tab'[u].user.id <= logins'
            <3>1. CASE u = t
                BY <1>2, <2>1, <2>2, <3>1
            <3>2. CASE u # t
                <4>1. tab[u].user.id <= logins /\ tab[u].user.id \in Nat
                    BY <1>0, <1>2, <2>2, <3>2, Shapes DEF IInv, FreshLogins
                <4> QED
                    BY <1>2, <2>1, <3>2, <4>1
            <3> QED
                BY <3>1, <3>2
        <2>3. ASSUME NEW r \in Issued'
              PROVE  /\ r.token # None /\ r.token.id <= logins'
                     /\ cookie' # None => cookie'.id # r.token.id
                     /\ \A u \in Tabs : tab'[u].user # None => tab'[u].user.id # r.token.id
                     /\ \A q \in Issued' : q # r => q.token.id # r.token.id
            <3>1. r \in Issued /\ r.tab # t
                BY <1>3, <1>4 DEF Issued
            <3>2. r.token # None /\ r.token.id <= logins /\ r.token.id \in Nat
                BY <1>0, <3>1, Shapes DEF IInv, FreshLogins, Issued
            <3>3. cookie' # None => cookie'.id # r.token.id
                BY <3>1 DEF IInv, FreshLogins
            <3>4. \A u \in Tabs : tab'[u].user # None => tab'[u].user.id # r.token.id
                BY <1>2, <3>1, <3>3 DEF IInv, FreshLogins
            <3> QED
                BY <1>4, <2>1, <3>1, <3>2, <3>3, <3>4 DEF IInv, FreshLogins
        <2> QED
            BY <2>1, <2>2, <2>3 DEF FreshLogins
    <1>8. OwnCookie'
        BY <1>2, <1>3 DEF IInv, OwnCookie
    <1> QED
        BY <1>5, <1>6, <1>7, <1>8 DEF IInv

LEMMA LoadingInv ==
    ASSUME IInv, NEW t \in Tabs, Open(t) \/ LoginOAuth(t)
    PROVE  IInv'
    <1>0. TypeOK /\ MaxLogins \in Nat /\ MaxEvents \in Nat
        BY DEF IInv
    <1>1. CASE Open(t)
        <2>1. PICK path \in Pages : tab' = [tab EXCEPT ![t] = Loaded(path, cookie)]
            BY <1>1 DEF Open
        <2>2. /\ events' \in 0..MaxEvents /\ path \in Paths /\ cookie' = cookie
              /\ UNCHANGED <<session, logins, lost>>
            BY <1>0, <1>1 DEF Open, Happens, TypeOK, Paths
        <2>3. session' \in 0..logins' /\ logins' \in 0..MaxLogins /\ logins <= logins'
            BY <1>0, <2>2 DEF TypeOK
        <2> QED
            BY <1>0, <1>1, <2>1, <2>2, <2>3, LoadInv DEF Open, TypeOK
    <1>2. CASE LoginOAuth(t)
        <2>1. PICK roles \in RoleSets :
                    /\ cookie' = [id |-> logins + 1, roles |-> roles]
                    /\ tab' = [tab EXCEPT ![t] = Loaded("/jobs", cookie')]
            BY <1>2 DEF LoginOAuth
        <2>2. /\ logins < MaxLogins /\ logins' = logins + 1 /\ session' = logins + 1
              /\ UNCHANGED <<events, lost>>
              /\ requests' = RequestsOfOthers(t)
            BY <1>2 DEF LoginOAuth
        <2>3. logins \in Nat /\ logins + 1 \in 1..MaxLogins
            BY <1>0, <2>2 DEF TypeOK
        <2>4. cookie' \in Token /\ cookie'.id = logins + 1 /\ cookie' # None
            BY <2>1, <2>3 DEF Token
        <2>5. \A u \in Tabs : tab[u].user # cookie'
            BY <1>0, <2>3, <2>4, Shapes DEF IInv, FreshLogins
        <2>6. \A r \in Issued : r.token.id # cookie'.id
            BY <1>0, <2>3, <2>4, Shapes DEF IInv, FreshLogins, Issued
        <2>7. "/jobs" \in Paths
            BY DEF Paths, Pages, JobLists
        <2>8. session' \in 0..logins' /\ logins' \in 0..MaxLogins /\ logins <= logins'
              /\ cookie'.id <= logins' /\ events' \in 0..MaxEvents /\ lost' \in BOOLEAN
            BY <1>0, <2>2, <2>3, <2>4 DEF TypeOK
        <2> QED
            BY <2>1, <2>2, <2>4, <2>5, <2>6, <2>7, <2>8, LoadInv
    <1> QED
        BY <1>1, <1>2

---------------------------------------------------------------------------
(* The backend *)

\* A request is answered; what it is about and, but for a login, its token stay.
LEMMA FinishInv ==
    ASSUME IInv, NEW r \in requests, NEW new \in Request,
           requests' = (requests \ {r}) \cup {new},
           new.tab = r.tab, new.of = r.of,
           r.of # "login" => new.token = r.token,
           new.of = "login" /\ new.status = "ok" =>
               new.token # None /\ new.token.id = logins + 1 /\ logins' = logins + 1,
           logins' \in {logins, logins + 1},
           session' \in 0..logins', logins' \in 0..MaxLogins,
           UNCHANGED <<cookie, tab, events, lost>>
    PROVE  IInv'
    <1>0. TypeOK /\ r \in Request /\ logins \in Nat
        BY Shapes DEF IInv
    <1>1. TypeOK'
        BY <1>0 DEF TypeOK
    <1>2. OnPages'
        BY DEF IInv, OnPages
    <1>3. AdminsOnly'
        BY DEF IInv, AdminsOnly
    <1>4. FreshLogins'
        <2>1. \A q \in Issued' :
                    q \in Issued \/ (q = new /\ new.of = "login" /\ new.status = "ok")
            BY DEF Issued
        <2>2. \A q \in Issued : q.token # None /\ q.token.id <= logins /\ q.token.id \in Nat
            BY <1>0, Shapes DEF IInv, FreshLogins, Issued
        <2>3. /\ cookie # None => cookie.id <= logins /\ cookie.id \in Nat
              /\ \A t \in Tabs : tab[t].user # None =>
                    tab[t].user.id <= logins /\ tab[t].user.id \in Nat
            BY <1>0, Shapes DEF IInv, FreshLogins, TypeOK
        <2>4. ASSUME NEW q \in Issued'
              PROVE  /\ q.token # None /\ q.token.id <= logins'
                     /\ cookie # None => cookie.id # q.token.id
                     /\ \A t \in Tabs : tab[t].user # None => tab[t].user.id # q.token.id
                     /\ \A p \in Issued' : p # q => p.token.id # q.token.id
            <3>1. CASE q \in Issued
                <4>1. \A p \in Issued' : p # q => p.token.id # q.token.id
                    BY <1>0, <2>1, <2>2, <3>1 DEF IInv, FreshLogins
                <4> QED
                    BY <1>0, <2>2, <3>1, <4>1 DEF IInv, FreshLogins
            <3>2. CASE q = new /\ new.of = "login" /\ new.status = "ok"
                BY <1>0, <2>1, <2>2, <2>3, <3>2
            <3> QED
                BY <2>1, <3>1, <3>2
        <2> QED
            BY <1>0, <2>3, <2>4 DEF FreshLogins
    <1>5. OwnCookie'
        BY DEF IInv, OwnCookie, Pages, JobLists, AdminPages
    <1> QED
        BY <1>1, <1>2, <1>3, <1>4, <1>5 DEF IInv

LEMMA ServedInv ==
    ASSUME IInv, NEW r \in requests, Served(r)
    PROVE  IInv'
    <1>0. TypeOK /\ r \in Request /\ logins \in Nat /\ MaxLogins \in Nat
        BY Shapes DEF IInv
    <1>1. \A status \in {"sent", "ok", "refused"} :
            LET new == [r EXCEPT !.status = status] IN
            /\ new \in Request /\ new.tab = r.tab /\ new.of = r.of /\ new.token = r.token
            /\ new.status = status
        BY <1>0 DEF Request
    <1>2. CASE Serve(r)
        <2> DEFINE new == [r EXCEPT !.status =
                             IF Protected(r.token, AuthLevel(r.of)) THEN "ok" ELSE "refused"]
        <2>1. /\ requests' = (requests \ {r}) \cup {new} /\ r.of # "login"
              /\ session' \in {0, session}
              /\ UNCHANGED <<logins, cookie, tab, events, lost>>
            BY <1>2 DEF Serve, Finish, Pages, JobLists, AdminPages
        <2>2. session' \in 0..logins'
            BY <1>0, <2>1 DEF TypeOK
        <2>3. new \in Request /\ new.tab = r.tab /\ new.of = r.of /\ new.token = r.token
            BY <1>1
        <2> HIDE DEF new
        <2> QED
            BY <1>0, <2>1, <2>2, <2>3, FinishInv DEF TypeOK
    <1>3. CASE ServeNotify(r)
        <2> DEFINE new == [r EXCEPT !.status =
                             IF useHasNoAllowedRole(r.token) THEN "ok" ELSE "refused"]
        <2>1. /\ requests' = (requests \ {r}) \cup {new} /\ r.of # "login"
              /\ UNCHANGED <<session, logins, cookie, tab, events, lost>>
            BY <1>3 DEF ServeNotify, Finish
        <2>2. new \in Request /\ new.tab = r.tab /\ new.of = r.of /\ new.token = r.token
            BY <1>1
        <2> HIDE DEF new
        <2> QED
            BY <1>0, <2>1, <2>2, FinishInv DEF TypeOK
    <1>4. CASE ServeLogin(r)
        <2>1. CASE logins < MaxLogins /\ logins' = logins + 1
            <3>1. CASE requests' = (requests \ {r}) \cup {[r EXCEPT !.status = "refused"]}
                       /\ UNCHANGED <<logins, session>>
                BY <1>0, <2>1, <3>1
            <3>2. CASE /\ session' = logins + 1
                       /\ \E roles \in RoleSets : requests' = (requests \ {r}) \cup
                              {[r EXCEPT !.status = "ok",
                                         !.token = [id |-> logins + 1, roles |-> roles]]}
                <4>1. PICK roles \in RoleSets : requests' = (requests \ {r}) \cup
                              {[r EXCEPT !.status = "ok",
                                         !.token = [id |-> logins + 1, roles |-> roles]]}
                    BY <3>2
                <4> DEFINE token == [id |-> logins + 1, roles |-> roles]
                           new == [r EXCEPT !.status = "ok", !.token = token]
                <4>2. token \in Token /\ token # None /\ token.id = logins + 1
                    BY <1>0, <2>1 DEF Token
                <4>3. /\ new \in Request /\ new.tab = r.tab /\ new.of = r.of
                      /\ new.token = token
                    BY <1>0, <4>2 DEF Request
                <4>4. session' \in 0..logins' /\ logins' \in 0..MaxLogins
                    BY <1>0, <2>1, <3>2
                <4>5. /\ requests' = (requests \ {r}) \cup {new} /\ r.of = "login"
                      /\ UNCHANGED <<cookie, tab, events, lost>>
                    BY <1>4, <4>1 DEF ServeLogin
                <4> HIDE DEF token, new
                <4> QED
                    BY <2>1, <4>2, <4>3, <4>4, <4>5, FinishInv
            <3> QED
                BY <1>4, <3>1, <3>2 DEF ServeLogin, Finish
        <2>2. CASE Finish(r, "refused") /\ UNCHANGED <<logins, session>>
            <3> DEFINE new == [r EXCEPT !.status = "refused"]
            <3>1. /\ new \in Request /\ new.tab = r.tab /\ new.of = r.of /\ new.token = r.token
                  /\ new.status = "refused"
                BY <1>1
            <3>2. /\ requests' = (requests \ {r}) \cup {new}
                  /\ UNCHANGED <<session, logins, cookie, tab, events, lost>>
                BY <1>4, <2>2 DEF ServeLogin, Finish
            <3> HIDE DEF new
            <3> QED
                BY <1>0, <3>1, <3>2, FinishInv DEF TypeOK
        <2> QED
            BY <1>4, <2>1, <2>2 DEF ServeLogin
    <1> QED
        BY <1>2, <1>3, <1>4 DEF Served

---------------------------------------------------------------------------
(* Answers *)

\* A request is gone; the tab that sent it shows its data or learns that it is
\* logged out, and the cookie may be removed.
LEMMA GoneInv ==
    ASSUME IInv, NEW r \in requests,
           requests' = requests \ {r},
           cookie' \in {cookie, None},
           \/ tab' = tab
           \/ tab' = [tab EXCEPT ![r.tab].user = None]
           \/ tab' = [tab EXCEPT ![r.tab].data = "shown"]
              /\ r.of \in Pages /\ tab[r.tab].pathname = r.of,
           events' \in 0..MaxEvents, lost' \in BOOLEAN,
           UNCHANGED <<session, logins>>
    PROVE  IInv'
    <1>0. TypeOK /\ r.tab \in Tabs
        BY Shapes DEF IInv
    <1>1. /\ tab' \in [Tabs -> Tab]
          /\ \A t \in Tabs : /\ tab'[t].pathname = tab[t].pathname
                             /\ tab'[t].user \in {tab[t].user, None}
                             /\ \/ tab'[t].data = tab[t].data
                                \/ /\ t = r.tab /\ r.of \in Pages /\ tab[t].pathname = r.of
                                   /\ tab'[t].user = tab[t].user
        BY <1>0 DEF TypeOK, Tab
    <1>2. TypeOK'
        BY <1>0, <1>1 DEF TypeOK
    <1>3. OnPages'
        BY <1>1 DEF IInv, OnPages
    <1>4. AdminsOnly'
        <2>1. ASSUME NEW t \in Tabs, tab'[t].pathname \in AdminPages, tab'[t].data # "none",
                     tab'[t].user # None
              PROVE  "admin" \in tab'[t].user.roles
            <3>1. tab'[t].user = tab[t].user /\ tab[t].pathname \in AdminPages
                BY <1>1, <2>1
            <3> QED
                BY <1>1, <2>1, <3>1 DEF IInv, AdminsOnly
        <2>2. ASSUME NEW q \in requests', q.of \in AdminPages, tab'[q.tab].pathname = q.of,
                     tab'[q.tab].user # None
              PROVE  "admin" \in tab'[q.tab].user.roles
            <3>1. q.tab \in Tabs /\ q \in requests
                BY <1>0, Shapes
            <3> QED
                BY <1>1, <2>2, <3>1 DEF IInv, AdminsOnly
        <2> QED
            BY <2>1, <2>2 DEF AdminsOnly
    <1>5. FreshLogins'
        <2>1. Issued' \subseteq Issued
            BY DEF Issued
        <2> QED
            BY <1>1, <2>1 DEF IInv, FreshLogins
    <1>6. OwnCookie'
        <2> SUFFICES ASSUME NEW q \in requests', q.of \in Pages \cup {"logout"},
                            tab'[q.tab].user # None, tab'[q.tab].user = cookie'
                     PROVE  q.token = cookie'
            BY DEF OwnCookie
        <2>1. q.tab \in Tabs /\ q \in requests
            BY <1>0, Shapes
        <2> QED
            BY <1>1, <2>1 DEF IInv, OwnCookie
    <1> QED
        BY <1>2, <1>3, <1>4, <1>5, <1>6 DEF IInv

LEMMA AnsweredInv ==
    ASSUME IInv, NEW r \in requests, Answered(r) \/ RequestFails(r)
    PROVE  IInv'
    <1>0. TypeOK /\ MaxEvents \in Nat /\ r.tab \in Tabs /\ r.token \in Token \cup {None}
        BY Shapes DEF IInv
    <1>1. CASE DataAnswered(r)
        <2>1. /\ requests' = requests \ {r} /\ cookie' \in {cookie, None}
              /\ UNCHANGED <<session, logins, events, lost>>
            BY <1>1 DEF DataAnswered
        <2>2. \/ tab' = tab
              \/ tab' = [tab EXCEPT ![r.tab].user = None]
              \/ tab' = [tab EXCEPT ![r.tab].data = "shown"]
                 /\ r.of \in Pages /\ tab[r.tab].pathname = r.of
            BY <1>1 DEF DataAnswered
        <2> QED
            BY <1>0, <2>1, <2>2, GoneInv DEF TypeOK
    <1>2. CASE LoginAnswered(r)
        <2>1. /\ r.of = "login" /\ requests' = RequestsOfOthers(r.tab)
              /\ UNCHANGED <<session, logins, events, lost>>
            BY <1>2 DEF LoginAnswered
        <2>2. session \in 0..logins /\ logins \in 0..MaxLogins /\ logins <= logins
            BY <1>0, Shapes DEF TypeOK
        <2>3. CASE r.status = "ok"
            <3>1. PICK path \in {"/login", "/jobs"} :
                        tab' = [tab EXCEPT ![r.tab] = Loaded(path, cookie')] /\ cookie' = r.token
                BY <1>2, <2>3 DEF LoginAnswered
            <3>2. r \in Issued
                BY <2>1, <2>3 DEF Issued
            <3>3. cookie' # None /\ cookie'.id <= logins /\ \A u \in Tabs : tab[u].user # cookie'
                BY <3>1, <3>2 DEF IInv, FreshLogins
            <3>4. \A q \in Issued : q.tab # r.tab => q.token.id # cookie'.id
                BY <3>1, <3>2 DEF IInv, FreshLogins
            <3>5. path \in Paths /\ cookie' \in Token \cup {None}
                BY <1>0, <3>1 DEF Paths, Pages, JobLists
            <3> QED
                BY <1>0, <2>1, <2>2, <3>1, <3>3, <3>4, <3>5, LoadInv DEF TypeOK
        <2>4. CASE r.status = "refused"
            <3>1. tab' = [tab EXCEPT ![r.tab] = Loaded("/login", cookie')] /\ cookie' = cookie
                BY <1>2, <2>4 DEF LoginAnswered
            <3>2. "/login" \in Paths
                BY DEF Paths
            <3> QED
                BY <1>0, <2>1, <2>2, <3>1, <3>2, LoadInv DEF TypeOK
        <2> QED
            BY <1>2, <2>3, <2>4 DEF LoginAnswered
    <1>3. CASE LogoutAnswered(r)
        BY <1>0, <1>3, GoneInv DEF LogoutAnswered, TypeOK
    <1>4. CASE NotifyAnswered(r)
        BY <1>0, <1>4, GoneInv DEF NotifyAnswered, TypeOK
    <1>5. CASE RequestFails(r)
        <2>1. events' \in 0..MaxEvents /\ lost' \in BOOLEAN
            BY <1>0, <1>5 DEF RequestFails, Happens, TypeOK
        <2> QED
            BY <1>5, <2>1, GoneInv DEF RequestFails
    <1> QED
        BY <1>1, <1>2, <1>3, <1>4, <1>5 DEF Answered

LEMMA SessionEndsInv ==
    ASSUME IInv, SessionEnds
    PROVE  IInv'
    <1>0. TypeOK /\ logins \in Nat
        BY Shapes DEF IInv
    <1>1. TypeOK'
        BY <1>0 DEF TypeOK, SessionEnds
    <1> QED
        BY <1>1 DEF IInv, SessionEnds, OnPages, AdminsOnly, FreshLogins, OwnCookie, Issued

LEMMA NextInv ==
    ASSUME IInv, [Next]_vars
    PROVE  IInv'
    <1>1. ASSUME NEW t \in Tabs, Redirect(t) PROVE IInv'
        BY <1>1, RedirectInv
    <1>2. ASSUME NEW t \in Tabs, Fetch(t) \/ submit(t) \/ logout(t) \/ requestAccess(t) PROVE IInv'
        BY <1>2, PageInv
    <1>3. ASSUME NEW t \in Tabs, Open(t) \/ LoginOAuth(t) PROVE IInv'
        BY <1>3, LoadingInv
    <1>4. ASSUME NEW r \in requests, Served(r) PROVE IInv'
        BY <1>4, ServedInv
    <1>5. ASSUME NEW r \in requests, Answered(r) \/ RequestFails(r) PROVE IInv'
        BY <1>5, AnsweredInv
    <1>6. CASE SessionEnds
        BY <1>6, SessionEndsInv
    <1>7. CASE UNCHANGED vars
        BY <1>7 DEF vars, IInv, TypeOK, OnPages, AdminsOnly, FreshLogins, OwnCookie, Issued
    <1> QED
        BY <1>1, <1>2, <1>3, <1>4, <1>5, <1>6, <1>7 DEF Next

---------------------------------------------------------------------------
(* Theorems *)

\* The inductive invariant: who waits for what administrators may see is one, nobody
\* knows of a session before its login is answered, and a tab that knows the session
\* of the cookie has sent no request with another one.
THEOREM Invariance == Spec => []IInv
    BY InitInv, NextInv, PTL DEF Spec

\* Data are shown only in tabs of users with the role for them.
THEOREM AppCorrect == Spec => []Inv
    <1>1. IInv => Inv
        <2> SUFFICES ASSUME IInv, NEW t \in Tabs, Rendered(t), tab[t].data = "shown"
                     PROVE  /\ tab[t].user # None
                            /\ {"admin", AuthLevel(tab[t].pathname)} \cap tab[t].user.roles # {}
            BY DEF IInv, Inv, DataNeedRoles
        <2>1. tab[t].pathname \in Pages
            BY DEF IInv, OnPages
        <2>2. tab[t].user # None /\ ~useHasNoAllowedRole(tab[t].user)
            BY <2>1 DEF Rendered, RedirectTo, useIsAuthenticated, Pages, JobLists, AdminPages
        <2>3. CASE tab[t].pathname \in AdminPages
            <3>1. "admin" \in tab[t].user.roles
                BY <2>2, <2>3 DEF IInv, AdminsOnly
            <3> QED
                BY <2>2, <3>1
        <2>4. CASE tab[t].pathname \notin AdminPages
            BY <2>2, <2>4 DEF AuthLevel, AdminPages, useHasNoAllowedRole
        <2> QED
            BY <2>3, <2>4
    <1> QED
        BY <1>1, Invariance, PTL

\* A refusal or a logout that comes late removes the cookie only of the session it was
\* sent with, as far as its tab knows.
THEOREM LoginsSurvive == Spec => LoginSurvives
    <1> DEFINE Survives == \A r \in requests :
                  (r \notin requests' /\ cookie # None /\ cookie' = None) =>
                      (tab[r.tab].user = cookie => r.token = cookie)
    <1>1. IInv /\ [Next]_vars => [Survives]_vars
        <2> SUFFICES ASSUME IInv, Next, NEW r \in requests, r \notin requests', cookie # None,
                            cookie' = None, tab[r.tab].user = cookie
                     PROVE  r.token = cookie
            OBVIOUS
        <2>1. ASSUME r.of \in Pages \cup {"logout"} PROVE r.token = cookie
            BY <2>1 DEF IInv, OwnCookie
        <2>2. ASSUME NEW q \in requests, DataAnswered(q) PROVE r.token = cookie
            BY <2>1, <2>2 DEF DataAnswered
        <2>3. ASSUME NEW q \in requests, LogoutAnswered(q) PROVE r.token = cookie
            BY <2>1, <2>3 DEF LogoutAnswered
        <2>4. ASSUME NEW q \in requests, LoginAnswered(q) PROVE FALSE
            <3>1. q.status = "ok" /\ q \in Issued /\ cookie' = q.token
                BY <2>4 DEF LoginAnswered, Issued
            <3> QED
                BY <3>1 DEF IInv, FreshLogins
        <2>5. ASSUME NEW q \in requests, Served(q) \/ NotifyAnswered(q) \/ RequestFails(q)
              PROVE  FALSE
            BY <2>5 DEF Served, Serve, ServeNotify, ServeLogin, NotifyAnswered, RequestFails
        <2>6. ASSUME NEW t \in Tabs, LoginOAuth(t) PROVE FALSE
            <3>1. PICK roles \in RoleSets : cookie' = [id |-> logins + 1, roles |-> roles]
                BY <2>6 DEF LoginOAuth
            <3>2. logins + 1 \in 1..MaxLogins
                BY <2>6, Shapes DEF LoginOAuth, IInv
            <3> QED
                BY <3>1, <3>2 DEF Token
        <2>7. ASSUME NEW t \in Tabs,
                     Redirect(t) \/ Fetch(t) \/ submit(t) \/ logout(t) \/ requestAccess(t) \/ Open(t)
              PROVE  FALSE
            BY <2>7 DEF Redirect, Fetch, submit, logout, requestAccess, Open
        <2>8. CASE SessionEnds
            BY <2>8 DEF SessionEnds
        <2> QED
            BY <2>2, <2>3, <2>4, <2>5, <2>6, <2>7, <2>8 DEF Next, Answered
    <1> QED
        BY <1>1, Invariance, PTL DEF Spec, LoginSurvives

===========================================================================

-------------------------- MODULE Sessions_proofs --------------------------
(***************************************************************************)
(* A token that was replaced or removed is never accepted again, for any   *)
(* users, life times, handlers and failures.                               *)
(***************************************************************************)
EXTENDS Sessions, TLAPS

USE SessionsAssumption, NoTokenAssumption

---------------------------------------------------------------------------
(* Tokens *)

LEMMA LifeTimes ==
    ASSUME NEW roles \in SUBSET Roles
    PROVE  lifeTime(roles) \in Nat /\ lifeTime(roles) <= APITokenLifeTime + JSONWebTokenLifeTime
    BY DEF lifeTime

LEMMA TokenFacts ==
    ASSUME NEW tok \in Token
    PROVE  /\ tok.username \in Users /\ tok.roles \in SUBSET Roles /\ tok.age \in Nat
           /\ tok.age <= lifeTime(tok.roles) /\ lifeTime(tok.roles) \in Nat
           /\ tok # NoToken
    BY LifeTimes DEF Token

\* A second later a token is a token of the same user.
LEMMA OlderIsToken ==
    ASSUME NEW tok \in Token
    PROVE  Older(tok) \in Token /\ Older(tok).username = tok.username
    <1>1. CASE tok.age < lifeTime(tok.roles)
        <2> DEFINE older == [tok EXCEPT !.age = @ + 1]
        <2>1. Older(tok) = older
            BY <1>1, TokenFacts DEF Older
        <2>2. older.age <= lifeTime(older.roles) /\ older.age \in Nat
            BY <1>1, TokenFacts DEF Token
        <2>3. older.age \in 0..APITokenLifeTime + JSONWebTokenLifeTime
            BY <2>2, TokenFacts, LifeTimes DEF Token
        <2> QED
            BY <2>1, <2>2, <2>3 DEF Token
    <1>2. CASE ~(tok.age < lifeTime(tok.roles))
        BY <1>2 DEF Older
    <1> QED
        BY <1>1, <1>2

LEMMA OlderNoToken == Older(NoToken) = NoToken
    BY DEF Older

\* Two tokens that differ do not become one while the first is valid.
LEMMA OlderApart ==
    ASSUME NEW tok \in Token, NEW other \in Token \cup {NoToken}, tok # other,
           Older(tok).age < lifeTime(Older(tok).roles)
    PROVE  Older(tok) # Older(other)
    <1>1. CASE other = NoToken
        BY <1>1, OlderIsToken, OlderNoToken
    <1>2. CASE other # NoToken
        <2>1. other \in Token
            BY <1>2
        <2>2. tok.age < lifeTime(tok.roles) /\ Older(tok) = [tok EXCEPT !.age = @ + 1]
            BY TokenFacts DEF Older
        <2>3. CASE other.age < lifeTime(other.roles)
            <3>1. Older(other) = [other EXCEPT !.age = @ + 1]
                BY <1>2, <2>3 DEF Older
            <3>2. tok.username # other.username \/ tok.roles # other.roles \/ tok.age # other.age
                BY <2>1 DEF Token
            <3>3. tok.age \in Nat /\ other.age \in Nat
                BY <2>1, TokenFacts
            <3> QED
                BY <2>1, <2>2, <3>1, <3>2, <3>3 DEF Token
        <2>4. CASE ~(other.age < lifeTime(other.roles))
            <3>1. Older(other) = other
                BY <2>4 DEF Older
            <3> QED
                BY <2>4, <3>1
        <2> QED
            BY <2>3, <2>4
    <1> QED
        BY <1>1, <1>2

---------------------------------------------------------------------------
(* The invariant *)

\* A session is one of its user, and a handler signs tokens of the user it works on.
OwnTokens ==
    /\ \A u \in Users : user_sessions[u] # NoToken => user_sessions[u].username = u
    /\ \A h \in Handlers : handler[h] # IdleHandler /\ handler[h].token # NoToken =>
            handler[h].token.username = handler[h].username

\* A dead token is no session and will not be made one.
DeadApart ==
    \A tok \in dead :
        /\ \A u \in Users : user_sessions[u] # tok
        /\ \A h \in Handlers : handler[h] # IdleHandler => handler[h].token # tok

IInv == TypeOK /\ OwnTokens /\ DeadApart

LEMMA InitInv == Init => IInv
    <1> SUFFICES ASSUME Init PROVE IInv
        OBVIOUS
    <1> QED
        BY DEF Init, IInv, TypeOK, OwnTokens, DeadApart

\* What is known of a handler between two of its statements.
LEMMA BusyFacts ==
    ASSUME TypeOK, NEW h \in Handlers, handler[h].at # "idle"
    PROVE  /\ handler[h] \in BusyHandler /\ handler[h] # IdleHandler
           /\ handler[h].username \in Users /\ handler[h].roles \in SUBSET Roles
           /\ handler[h].token \in Token \cup {NoToken}
    BY DEF TypeOK, BusyHandler, IdleHandler

\* A step that leaves the sessions alone and buries nothing keeps the invariant if
\* the handler it is about becomes idle, or holds no token but one it held before.
LEMMA StepOfHandler ==
    ASSUME IInv, NEW h \in Handlers, NEW new \in BusyHandler \cup {IdleHandler},
           handler' = [handler EXCEPT ![h] = new],
           \/ new = IdleHandler
           \/ new.token = NoToken
           \/ /\ handler[h] # IdleHandler
              /\ new.token = handler[h].token /\ new.username = handler[h].username,
           user_roles' \in [Users -> (SUBSET Roles) \cup {NoRoles}],
           failures' \in Nat,
           UNCHANGED <<user_sessions, dead>>
    PROVE  IInv'
    <1>1. TypeOK'
        BY DEF IInv, TypeOK
    <1>2. OwnTokens'
        BY DEF IInv, TypeOK, OwnTokens
    <1>3. DeadApart'
        BY TokenFacts DEF IInv, TypeOK, DeadApart
    <1> QED
        BY <1>1, <1>2, <1>3 DEF IInv

\* A request that is taken on.
LEMMA ServeInv ==
    ASSUME IInv, NEW h \in Handlers, NEW at, NEW username \in Users, NEW roles \in SUBSET Roles,
           at \in {"GetUserRoles", "Sign", "RemoveUserSession", "SetUserRoles"},
           Serve(h, at, username, roles),
           UNCHANGED <<user_sessions, user_roles, dead, failures>>
    PROVE  IInv'
    <1> DEFINE new == [at |-> at, username |-> username, roles |-> roles, token |-> NoToken]
    <1>1. new \in BusyHandler
        BY DEF BusyHandler
    <1>2. handler' = [handler EXCEPT ![h] = new] /\ new.token = NoToken
        BY DEF Serve
    <1> QED
        BY <1>1, <1>2, StepOfHandler DEF IInv, TypeOK

LEMMA RequestInv ==
    ASSUME IInv, NEW h \in Handlers, Request(h)
    PROVE  IInv'
    <1>1. ASSUME NEW u \in Users, Login(h, u) PROVE IInv'
        <2>1. {LocalRole[u]} \in SUBSET Roles
            BY <1>1 DEF Login
        <2> QED
            BY <1>1, <2>1, ServeInv DEF Login
    <1>2. ASSUME NEW u \in Users, LoginOAuthCallback(h, u) PROVE IInv'
        BY <1>2, ServeInv DEF LoginOAuthCallback
    <1>3. ASSUME NEW u \in Users, Logout(h, u) PROVE IInv'
        BY <1>3, ServeInv DEF Logout
    <1>4. ASSUME GenerateAPIKey(h) PROVE IInv'
        <2>1. "api" \in Users /\ {"job-control"} \in SUBSET Roles
            BY DEF Users, Roles
        <2> QED
            BY <1>4, <2>1, ServeInv DEF GenerateAPIKey
    <1>5. ASSUME NEW u \in OAuthUsers, NEW roles \in RoleSets, SetUserConfig(h, u, roles)
          PROVE  IInv'
        <2>1. u \in Users /\ roles \in SUBSET Roles
            BY DEF Users
        <2> QED
            BY <1>5, <2>1, ServeInv DEF SetUserConfig
    <1> QED
        BY <1>1, <1>2, <1>3, <1>4, <1>5 DEF Request

\* Steps of a handler in the table of roles, and statements that fail.
LEMMA RolesInv ==
    ASSUME IInv, NEW h \in Handlers,
           GetUserRoles(h) \/ SetNoRoles(h) \/ AssignUserRole(h) \/ SetUserRoles(h)
             \/ StatementFails(h)
    PROVE  IInv'
    <1> DEFINE old == handler[h]
    <1>0. TypeOK
        BY DEF IInv
    <1>1. CASE GetUserRoles(h)
        <2>1. old \in BusyHandler /\ old # IdleHandler
            BY <1>0, <1>1, BusyFacts DEF GetUserRoles
        <2> DEFINE found == user_roles[old.username]
        <2>2. CASE found = NoRoles
            <3> DEFINE new == [old EXCEPT !.at = "SetNoRoles"]
            <3>1. new \in BusyHandler /\ new.token = old.token /\ new.username = old.username
                BY <2>1 DEF BusyHandler
            <3>2. handler' = [handler EXCEPT ![h] = new]
                BY <1>1, <2>2 DEF GetUserRoles
            <3> QED
                BY <1>1, <2>1, <3>1, <3>2, StepOfHandler DEF GetUserRoles, IInv, TypeOK
        <2>3. CASE found # NoRoles
            <3> DEFINE new == [[old EXCEPT !.at = AssignOrSign(found)] EXCEPT !.roles = found]
            <3>1. found \in SUBSET Roles
                BY <1>0, <2>1, <2>3 DEF TypeOK, BusyHandler
            <3>2. new \in BusyHandler /\ new.token = old.token /\ new.username = old.username
                BY <2>1, <3>1 DEF BusyHandler, AssignOrSign
            <3>3. handler' = [handler EXCEPT ![h] = new]
                BY <1>0, <1>1, <2>3 DEF GetUserRoles, TypeOK
            <3> QED
                BY <1>1, <2>1, <3>2, <3>3, StepOfHandler DEF GetUserRoles, IInv, TypeOK
        <2> QED
            BY <2>2, <2>3
    <1> DEFINE unread == [old EXCEPT !.at = "SetNoRoles"]
               none == [old EXCEPT !.at = AssignOrSign({})]
               user == [[old EXCEPT !.at = "Sign"] EXCEPT !.roles = {"user"}]
    <1>2. ASSUME old.at # "idle"
          PROVE  /\ old \in BusyHandler /\ old # IdleHandler
                 /\ unread \in BusyHandler /\ unread.token = old.token /\ unread.username = old.username
                 /\ none \in BusyHandler /\ none.token = old.token /\ none.username = old.username
                 /\ user \in BusyHandler /\ user.token = old.token /\ user.username = old.username
        <2>1. old \in BusyHandler /\ old # IdleHandler
            BY <1>0, <1>2, BusyFacts
        <2> QED
            BY <2>1 DEF BusyHandler, AssignOrSign, Roles
    <1>3. CASE SetNoRoles(h)
        <2>1. handler' = [handler EXCEPT ![h] = none] /\ old.at # "idle"
            BY <1>3 DEF SetNoRoles
        <2>2. user_roles' \in [Users -> (SUBSET Roles) \cup {NoRoles}] /\ failures' \in Nat
            BY <1>0, <1>3 DEF SetNoRoles, TypeOK
        <2> QED
            BY <1>2, <1>3, <2>1, <2>2, StepOfHandler DEF SetNoRoles
    <1>4. CASE AssignUserRole(h)
        <2>1. handler' = [handler EXCEPT ![h] = user] /\ old.at # "idle"
            BY <1>0, <1>4 DEF AssignUserRole, TypeOK
        <2>2. user_roles' \in [Users -> (SUBSET Roles) \cup {NoRoles}] /\ failures' \in Nat
            BY <1>0, <1>4 DEF AssignUserRole, TypeOK, Roles
        <2> QED
            BY <1>2, <1>4, <2>1, <2>2, StepOfHandler DEF AssignUserRole
    <1>5. CASE SetUserRoles(h)
        <2>1. handler' = [handler EXCEPT ![h] = IdleHandler] /\ old.roles \in SUBSET Roles
            BY <1>0, <1>5, BusyFacts DEF SetUserRoles, Reply
        <2>2. user_roles' \in [Users -> (SUBSET Roles) \cup {NoRoles}] /\ failures' \in Nat
            BY <1>0, <1>5, <2>1 DEF SetUserRoles, TypeOK
        <2> QED
            BY <1>5, <2>1, <2>2, StepOfHandler DEF SetUserRoles
    <1>6. CASE StatementFails(h)
        <2>1. /\ failures' \in Nat
              /\ user_roles' \in [Users -> (SUBSET Roles) \cup {NoRoles}]
              /\ UNCHANGED <<user_sessions, dead>>
            BY <1>0, <1>6 DEF StatementFails, TypeOK
        <2>2. \/ /\ old.at # "idle"
                 /\ \/ handler' = [handler EXCEPT ![h] = unread]
                    \/ handler' = [handler EXCEPT ![h] = none]
                    \/ handler' = [handler EXCEPT ![h] = user]
              \/ handler' = [handler EXCEPT ![h] = IdleHandler]
            BY <1>0, <1>6 DEF StatementFails, Reply, TypeOK
        <2> HIDE DEF unread, none, user
        <2> QED
            BY <1>2, <2>1, <2>2, StepOfHandler
    <1> QED
        BY <1>1, <1>3, <1>4, <1>5, <1>6

\* A login signs its token, which may have been issued before in this second.
LEMMA SignInv ==
    ASSUME IInv, NEW h \in Handlers, Sign(h)
    PROVE  IInv'
    <1> DEFINE token == [username |-> handler[h].username, roles |-> handler[h].roles, age |-> 0]
               new == [[handler[h] EXCEPT !.at = "SetUserSessionToken"] EXCEPT !.token = token]
    <1>0. TypeOK
        BY DEF IInv
    <1>1. handler[h] \in BusyHandler
        BY <1>0, BusyFacts DEF Sign
    <1>2. token \in Token
        <2>1. handler[h].username \in Users /\ handler[h].roles \in SUBSET Roles
            BY <1>1 DEF BusyHandler
        <2>2. 0 <= lifeTime(token.roles) /\ 0 \in 0..APITokenLifeTime + JSONWebTokenLifeTime
            BY <2>1, LifeTimes
        <2> QED
            BY <2>1, <2>2 DEF Token
    <1>3. new \in BusyHandler /\ new.token = token /\ new.username = handler[h].username
        BY <1>1, <1>2 DEF BusyHandler
    <1>4. handler' = [handler EXCEPT ![h] = new]
        BY <1>0 DEF Sign, TypeOK
    <1>5. dead' = dead \ {token} /\ UNCHANGED <<user_sessions, user_roles, failures>>
        BY DEF Sign
    <1>6. token.username = handler[h].username
        OBVIOUS
    <1> HIDE DEF token, new
    <1>7. TypeOK'
        BY <1>0, <1>3, <1>4, <1>5 DEF TypeOK
    <1>8. OwnTokens'
        BY <1>0, <1>3, <1>4, <1>5, <1>6 DEF IInv, TypeOK, OwnTokens
    <1>9. DeadApart'
        BY <1>0, <1>3, <1>4, <1>5 DEF IInv, TypeOK, DeadApart
    <1> QED
        BY <1>7, <1>8, <1>9 DEF IInv

\* The session of a user is replaced by the token of a login, or removed.
LEMMA ReplaceInv ==
    ASSUME IInv, NEW h \in Handlers, NEW u \in Users, NEW new \in Token \cup {NoToken},
           handler[h] # IdleHandler,
           new = NoToken \/ (new = handler[h].token /\ u = handler[h].username),
           user_sessions' = [user_sessions EXCEPT ![u] = new],
           Reply(h),
           Bury(u),
           UNCHANGED <<user_roles, failures>>
    PROVE  IInv'
    <1>1. /\ user_sessions[u] \in Token \cup {NoToken}
          /\ user_sessions'[u] = new
          /\ \A v \in Users \ {u} : user_sessions'[v] = user_sessions[v]
        BY DEF IInv, TypeOK
    <1>2. \A g \in Handlers : handler'[g] = IF g = h THEN IdleHandler ELSE handler[g]
        BY DEF IInv, TypeOK, Reply
    <1>3. TypeOK'
        BY <1>1 DEF IInv, TypeOK, Reply, Bury
    <1>4. OwnTokens'
        BY <1>1, <1>2 DEF IInv, OwnTokens
    <1>5. DeadApart'
        <2> SUFFICES ASSUME NEW tok \in dead'
                     PROVE  /\ \A v \in Users : user_sessions'[v] # tok
                            /\ \A g \in Handlers : handler'[g] # IdleHandler =>
                                    handler'[g].token # tok
            BY DEF DeadApart
        <2>1. CASE tok \in dead
            <3>1. tok \in Token
                BY <2>1 DEF IInv, TypeOK
            <3>2. new # tok
                BY <2>1, <3>1, TokenFacts DEF IInv, DeadApart
            <3> QED
                BY <1>1, <1>2, <2>1, <3>2 DEF IInv, DeadApart
        <2>2. CASE tok \notin dead
            <3>1. /\ tok = user_sessions[u] /\ tok # NoToken /\ tok # new
                  /\ \A g \in Handlers : handler'[g] # IdleHandler => handler'[g].token # tok
                BY <1>1, <2>2 DEF Bury
            <3>2. \A v \in Users \ {u} : user_sessions[v] # tok
                BY <3>1 DEF IInv, OwnTokens
            <3> QED
                BY <1>1, <3>1, <3>2
        <2> QED
            BY <2>1, <2>2
    <1> QED
        BY <1>3, <1>4, <1>5 DEF IInv

LEMMA SessionInv ==
    ASSUME IInv, NEW h \in Handlers, SetUserSessionToken(h) \/ RemoveUserSession(h)
    PROVE  IInv'
    <1>1. /\ handler[h] \in BusyHandler /\ handler[h] # IdleHandler
          /\ handler[h].username \in Users /\ handler[h].token \in Token \cup {NoToken}
        BY BusyFacts DEF SetUserSessionToken, RemoveUserSession, IInv
    <1>2. CASE SetUserSessionToken(h)
        BY <1>1, <1>2, ReplaceInv DEF SetUserSessionToken
    <1>3. CASE RemoveUserSession(h)
        BY <1>1, <1>3, ReplaceInv DEF RemoveUserSession
    <1> QED
        BY <1>2, <1>3

\* Time does not make a dead token a session, since both grow older.
LEMMA TickInv ==
    ASSUME IInv, Tick
    PROVE  IInv'
    <1>1. \A u \in Users : user_sessions'[u] = Older(user_sessions[u])
        BY DEF Tick
    <1>2. ASSUME NEW h \in Handlers
          PROVE  /\ handler[h] = IdleHandler => handler'[h] = IdleHandler
                 /\ handler[h] # IdleHandler =>
                        /\ handler[h] \in BusyHandler /\ handler'[h] \in BusyHandler
                        /\ handler'[h] # IdleHandler
                        /\ handler'[h].token = Older(handler[h].token)
                        /\ handler'[h].username = handler[h].username
        <2>1. CASE handler[h] = IdleHandler
            BY <2>1 DEF Tick
        <2>2. CASE handler[h] # IdleHandler
            <3>1. handler[h] \in BusyHandler
                BY <2>2 DEF IInv, TypeOK
            <3>2. handler'[h] = [handler[h] EXCEPT !.token = Older(@)]
                BY <2>2 DEF Tick
            <3>3. Older(handler[h].token) \in Token \cup {NoToken}
                BY <3>1, OlderIsToken, OlderNoToken DEF BusyHandler
            <3>4. handler'[h] \in BusyHandler
                BY <3>1, <3>2, <3>3 DEF BusyHandler
            <3>5. handler'[h] # IdleHandler
                BY <3>4 DEF BusyHandler, IdleHandler
            <3> QED
                BY <2>2, <3>1, <3>2, <3>4, <3>5 DEF BusyHandler
        <2> QED
            BY <2>1, <2>2
    <1>3. dead \subseteq Token
        BY DEF IInv, TypeOK
    <1>4. TypeOK'
        <2>1. user_sessions' \in [Users -> Token \cup {NoToken}]
            BY OlderIsToken, OlderNoToken DEF IInv, TypeOK, Tick
        <2>2. handler' \in [Handlers -> BusyHandler \cup {IdleHandler}]
            <3>1. handler' = [h \in Handlers |-> handler'[h]]
                BY DEF Tick
            <3> QED
                BY <1>2, <3>1
        <2>3. dead' \subseteq Token
            BY <1>3, OlderIsToken DEF Tick
        <2> QED
            BY <2>1, <2>2, <2>3 DEF IInv, TypeOK, Tick
    <1>5. OwnTokens'
        <2>1. ASSUME NEW u \in Users, user_sessions'[u] # NoToken
              PROVE  user_sessions'[u].username = u
            <3>1. user_sessions[u] \in Token
                BY <1>1, <2>1, OlderNoToken DEF IInv, TypeOK
            <3> QED
                BY <1>1, <3>1, OlderIsToken, TokenFacts DEF IInv, OwnTokens
        <2>2. ASSUME NEW h \in Handlers, handler'[h] # IdleHandler, handler'[h].token # NoToken
              PROVE  handler'[h].token.username = handler'[h].username
            <3>1. handler[h] # IdleHandler /\ handler[h] \in BusyHandler
                BY <1>2, <2>2
            <3>2. handler[h].token \in Token
                BY <1>2, <2>2, <3>1, OlderNoToken DEF BusyHandler
            <3> QED
                BY <1>2, <3>1, <3>2, OlderIsToken, TokenFacts DEF IInv, OwnTokens
        <2> QED
            BY <2>1, <2>2 DEF OwnTokens
    <1>6. DeadApart'
        <2> SUFFICES ASSUME NEW tok \in dead'
                     PROVE  /\ \A u \in Users : user_sessions'[u] # tok
                            /\ \A h \in Handlers : handler'[h] # IdleHandler =>
                                    handler'[h].token # tok
            BY DEF DeadApart
        <2>1. PICK d \in dead : tok = Older(d) /\ tok.age < lifeTime(tok.roles)
            BY DEF Tick
        <2>2. d \in Token
            BY <1>3
        <2>3. ASSUME NEW u \in Users PROVE user_sessions'[u] # tok
            <3>1. user_sessions[u] # d /\ user_sessions[u] \in Token \cup {NoToken}
                BY DEF IInv, TypeOK, DeadApart
            <3> QED
                BY <1>1, <2>1, <2>2, <3>1, OlderApart
        <2>4. ASSUME NEW h \in Handlers, handler'[h] # IdleHandler
              PROVE  handler'[h].token # tok
            <3>1. handler[h] # IdleHandler /\ handler[h] \in BusyHandler
                BY <1>2, <2>4
            <3>2. handler[h].token # d /\ handler[h].token \in Token \cup {NoToken}
                BY <3>1 DEF IInv, DeadApart, BusyHandler
            <3> QED
                BY <1>2, <2>1, <2>2, <3>1, <3>2, OlderApart
        <2> QED
            BY <2>3, <2>4
    <1> QED
        BY <1>4, <1>5, <1>6 DEF IInv

LEMMA RestartInv ==
    ASSUME IInv, Restart
    PROVE  IInv'
    BY DEF IInv, TypeOK, OwnTokens, DeadApart, Restart

LEMMA NextInv ==
    ASSUME IInv, [Next]_vars
    PROVE  IInv'
    <1>1. CASE Tick
        BY <1>1, TickInv
    <1>2. CASE Restart
        BY <1>2, RestartInv
    <1>3. ASSUME NEW h \in Handlers, Request(h) PROVE IInv'
        BY <1>3, RequestInv
    <1>4. ASSUME NEW h \in Handlers, Proceed(h) PROVE IInv'
        BY <1>4, RolesInv, SignInv, SessionInv DEF Proceed
    <1>5. CASE UNCHANGED vars
        BY <1>5 DEF vars, IInv, TypeOK, OwnTokens, DeadApart
    <1> QED
        BY <1>1, <1>2, <1>3, <1>4, <1>5 DEF Next

---------------------------------------------------------------------------
(* Theorems *)

\* The tables, the tokens and the handlers keep their shape; a session is of the user
\* it is stored for; and what is dead is neither a session nor on its way to be one.
THEOREM Invariance == Spec => []IInv
    BY InitInv, NextInv, PTL DEF Spec

\* No token that a logout removed or a login replaced is accepted by validate again.
THEOREM SessionsCorrect == Spec => []Inv
    <1>1. IInv => Inv
        BY TokenFacts DEF IInv, Inv, TypeOK, DeadApart, DeadTokenIsRefused, validate
    <1> QED
        BY <1>1, Invariance, PTL

===========================================================================

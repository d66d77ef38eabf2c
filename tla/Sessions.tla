----------------------------- MODULE Sessions -----------------------------
(***************************************************************************)
(* Who is logged in, with which roles: the tables user_sessions and        *)
(* user_roles of the store, the tokens the AuthManager issues and accepts, *)
(* and the handlers that log users in and out and change their roles.      *)
(*                                                                         *)
(* A token is what its claims say: two tokens of a user with the same      *)
(* roles that are issued in the same second are the same string. It        *)
(* carries its age instead of the time it was issued, so that time need    *)
(* not be bounded. Names, passwords and signatures are taken as valid.     *)
(***************************************************************************)
EXTENDS Naturals

CONSTANTS
    LocalUsers,             \* users of the configuration
    LocalRole,              \* their roles
    OAuthUsers,             \* users of the OAuth provider
    RoleSets,               \* what administrators assign to users
    AutoAssignUserRole,     \* config
    JSONWebTokenLifeTime,   \* config, in seconds
    APITokenLifeTime,       \* config, in seconds
    Handlers,               \* goroutines that serve requests
    MaxFailures,            \* bound: restarts of the backend, and statements that fail
    NoToken                 \* no row in the table of sessions

Roles == {"job-control", "user", "admin"}

\* No row in the table of roles; no set of roles is this one.
NoRoles == {"no row"}

\* The API key belongs to a user "api"; there may be a local user of that name.
Users == LocalUsers \cup OAuthUsers \cup {"api"}

ASSUME SessionsAssumption ==
    /\ LocalRole \in [LocalUsers -> Roles]
    /\ RoleSets \subseteq SUBSET Roles
    /\ AutoAssignUserRole \in BOOLEAN
    /\ JSONWebTokenLifeTime \in Nat /\ APITokenLifeTime \in Nat
    /\ MaxFailures \in Nat

VARIABLES
    user_sessions,  \* [Users -> the token of the user's session, or NoToken]
    user_roles,     \* [Users -> roles, or NoRoles]
    handler,        \* [Handlers -> where the goroutine is, with its local variables]
    dead,           \* history: tokens that were replaced or removed
    failures        \* restarts of the backend and failed statements so far

vars == <<user_sessions, user_roles, handler, dead, failures>>

---------------------------------------------------------------------------
(* Tokens *)

lifeTime(roles) ==
    IF "job-control" \in roles THEN APITokenLifeTime ELSE JSONWebTokenLifeTime

Token == {tok \in [username : Users, roles : SUBSET Roles,
                   age : 0..APITokenLifeTime + JSONWebTokenLifeTime] :
            tok.age <= lifeTime(tok.roles)}

ASSUME NoTokenAssumption == NoToken \notin Token

\* A second later; the age of an expired token no longer matters.
Older(tok) ==
    IF tok # NoToken /\ tok.age < lifeTime(tok.roles) THEN [tok EXCEPT !.age = @ + 1] ELSE tok

\* Mutants of validate: the store is not asked, or expired tokens are accepted.
validateStateless(tok) == tok.age < lifeTime(tok.roles)

validateForever(tok) == user_sessions[tok.username] = tok

validate(tok) ==
    /\ tok.age < lifeTime(tok.roles)
    /\ user_sessions[tok.username] = tok

\* The tokens that browsers and scripts may hold.
Presented == {tok \in dead \cup {user_sessions[u] : u \in Users} : tok # NoToken}

\* What Protected lets pass.
Protected(tok, authLevel) ==
    /\ validate(tok)
    /\ "admin" \in tok.roles \/ authLevel \in tok.roles

IdleHandler == [at |-> "idle"]

\* A busy handler: its next statement, the user it works on, the roles it found
\* or was given, and the token it signed.
BusyHandler == [at : {"GetUserRoles", "SetNoRoles", "AssignUserRole", "Sign", "SetUserSessionToken",
                      "RemoveUserSession", "SetUserRoles"},
                username : Users, roles : SUBSET Roles, token : Token \cup {NoToken}]

Serve(h, at, username, roles) ==
    /\ handler[h] = IdleHandler
    /\ handler' = [handler EXCEPT ![h] = [at |-> at, username |-> username, roles |-> roles,
                                          token |-> NoToken]]

Reply(h) == handler' = [handler EXCEPT ![h] = IdleHandler]

\* History: the token of the user's session is replaced or removed for good, if
\* the table does not get the same again, now or by a login under way.
Bury(u) ==
    dead' = dead \cup {tok \in {user_sessions[u]} \ {NoToken, user_sessions'[u]} :
                         \A h \in Handlers : handler'[h] # IdleHandler => handler'[h].token # tok}

---------------------------------------------------------------------------
(* Logging in *)

\* Login of a local user whose password is right.
Login(h, u) ==
    /\ u \in LocalUsers
    /\ Serve(h, "Sign", u, {LocalRole[u]})
    /\ UNCHANGED <<user_sessions, user_roles, dead, failures>>

\* LoginOAuthCallback, once the provider has named the user.
LoginOAuthCallback(h, u) ==
    /\ u \in OAuthUsers
    /\ Serve(h, "GetUserRoles", u, {})
    /\ UNCHANGED <<user_sessions, user_roles, dead, failures>>

\* An administrator has the API key generated.
GenerateAPIKey(h) ==
    /\ \E tok \in Presented : Protected(tok, "admin")
    /\ Serve(h, "Sign", "api", {"job-control"})
    /\ UNCHANGED <<user_sessions, user_roles, dead, failures>>

\* How it goes on once the user has the given roles.
AssignOrSign(roles) == IF roles = {} /\ AutoAssignUserRole THEN "AssignUserRole" ELSE "Sign"

\* The roles are read. Who has no roles may be given one.
GetUserRoles(h) ==
    LET found == user_roles[handler[h].username] IN
    /\ handler[h].at = "GetUserRoles"
    /\ \/ /\ found = NoRoles
          /\ handler' = [handler EXCEPT ![h].at = "SetNoRoles"]
       \/ /\ found # NoRoles
          /\ handler' = [handler EXCEPT ![h].at = AssignOrSign(found), ![h].roles = found]
    /\ UNCHANGED <<user_sessions, user_roles, dead, failures>>

SetNoRoles(h) ==
    /\ handler[h].at = "SetNoRoles"
    /\ user_roles' = [user_roles EXCEPT ![handler[h].username] = {}]
    /\ handler' = [handler EXCEPT ![h].at = AssignOrSign({})]
    /\ UNCHANGED <<user_sessions, dead, failures>>

AssignUserRole(h) ==
    /\ handler[h].at = "AssignUserRole"
    /\ user_roles' = [user_roles EXCEPT ![handler[h].username] = {"user"}]
    /\ handler' = [handler EXCEPT ![h].at = "Sign", ![h].roles = {"user"}]
    /\ UNCHANGED <<user_sessions, dead, failures>>

\* GenerateJWT reads the time and signs the token.
Sign(h) ==
    LET token == [username |-> handler[h].username, roles |-> handler[h].roles, age |-> 0] IN
    /\ handler[h].at = "Sign"
    /\ handler' = [handler EXCEPT ![h].at = "SetUserSessionToken", ![h].token = token]
    /\ dead' = dead \ {token}
    /\ UNCHANGED <<user_sessions, user_roles, failures>>

\* The session of the user is inserted or replaced, and the answer has the token.
SetUserSessionToken(h) ==
    LET u == handler[h].username IN
    /\ handler[h].at = "SetUserSessionToken"
    /\ user_sessions' = [user_sessions EXCEPT ![u] = handler[h].token]
    /\ Reply(h)
    /\ UNCHANGED <<user_roles, failures>>
    /\ Bury(u)

---------------------------------------------------------------------------
(* Logging out, and other users' roles *)

\* The user to log out is named in the body of the request, not by the cookie.
Logout(h, u) ==
    /\ \E tok \in Presented : Protected(tok, "user")
    /\ Serve(h, "RemoveUserSession", u, {})
    /\ UNCHANGED <<user_sessions, user_roles, dead, failures>>

RemoveUserSession(h) ==
    LET u == handler[h].username IN
    /\ handler[h].at = "RemoveUserSession"
    /\ user_sessions' = [user_sessions EXCEPT ![u] = NoToken]
    /\ Reply(h)
    /\ UNCHANGED <<user_roles, failures>>
    /\ Bury(u)

\* An administrator sets the roles of the user named in the body, whatever user
\* the path names.
SetUserConfig(h, u, roles) ==
    /\ \E tok \in Presented : Protected(tok, "admin")
    /\ Serve(h, "SetUserRoles", u, roles)
    /\ UNCHANGED <<user_sessions, user_roles, dead, failures>>

SetUserRoles(h) ==
    /\ handler[h].at = "SetUserRoles"
    /\ user_roles' = [user_roles EXCEPT ![handler[h].username] = handler[h].roles]
    /\ Reply(h)
    /\ UNCHANGED <<user_sessions, dead, failures>>

---------------------------------------------------------------------------
(* Failures *)

\* A statement fails, which the handlers do not notice: roles that cannot be read
\* count as none, and a write that was not done as done.
StatementFails(h) ==
    /\ failures < MaxFailures
    /\ failures' = failures + 1
    /\ \/ /\ handler[h].at = "GetUserRoles"
          /\ handler' = [handler EXCEPT ![h].at = "SetNoRoles"]
       \/ /\ handler[h].at = "SetNoRoles"
          /\ handler' = [handler EXCEPT ![h].at = AssignOrSign({})]
       \/ /\ handler[h].at = "AssignUserRole"
          /\ handler' = [handler EXCEPT ![h].at = "Sign", ![h].roles = {"user"}]
       \/ /\ handler[h].at \in {"SetUserSessionToken", "RemoveUserSession", "SetUserRoles"}
          /\ Reply(h)
    /\ UNCHANGED <<user_sessions, user_roles, dead>>

\* A restart of the backend drops the requests; the tables survive.
Restart ==
    /\ failures < MaxFailures
    /\ failures' = failures + 1
    /\ handler' = [h \in Handlers |-> IdleHandler]
    /\ UNCHANGED <<user_sessions, user_roles, dead>>

---------------------------------------------------------------------------

\* A second passes; tokens that have expired are forgotten by the history.
Tick ==
    /\ user_sessions' = [u \in Users |-> Older(user_sessions[u])]
    /\ handler' = [h \in Handlers |->
                    IF handler[h] = IdleHandler THEN IdleHandler
                    ELSE [handler[h] EXCEPT !.token = Older(@)]]
    /\ dead' = {tok \in {Older(d) : d \in dead} : tok.age < lifeTime(tok.roles)}
    /\ UNCHANGED <<user_roles, failures>>

Init ==
    /\ user_sessions = [u \in Users |-> NoToken]
    /\ user_roles = [u \in Users |-> NoRoles]
    /\ handler = [h \in Handlers |-> IdleHandler]
    /\ dead = {}
    /\ failures = 0

Request(h) ==
    \/ \E u \in Users : Login(h, u) \/ LoginOAuthCallback(h, u) \/ Logout(h, u)
    \/ GenerateAPIKey(h)
    \/ \E u \in OAuthUsers, roles \in RoleSets : SetUserConfig(h, u, roles)

Proceed(h) ==
    \/ GetUserRoles(h) \/ SetNoRoles(h) \/ AssignUserRole(h)
    \/ Sign(h) \/ SetUserSessionToken(h)
    \/ RemoveUserSession(h) \/ SetUserRoles(h)
    \/ StatementFails(h)

Next == Tick \/ Restart \/ \E h \in Handlers : Request(h) \/ Proceed(h)

Spec == Init /\ [][Next]_vars

\* Time passes, goroutines are scheduled and the database answers in the end.
FairSpec == Spec /\ WF_vars(Tick) /\ \A h \in Handlers : WF_vars(Proceed(h))

---------------------------------------------------------------------------
(* Properties *)

\* The tables hold well-formed tokens and sets of roles, and every handler is idle or
\* between two statements with well-formed local variables.
TypeOK ==
    /\ user_sessions \in [Users -> Token \cup {NoToken}]
    /\ user_roles \in [Users -> (SUBSET Roles) \cup {NoRoles}]
    /\ handler \in [Handlers -> BusyHandler \cup {IdleHandler}]
    /\ dead \subseteq Token
    /\ failures \in Nat

\* A token that a logout removed or a later login replaced is never accepted
\* again, whatever logins of the user are under way, unless the very same token
\* is issued anew within its second.
DeadTokenIsRefused == \A tok \in dead : ~validate(tok)

\* The state is well-formed, and no token that was replaced or removed is accepted.
Inv == TypeOK /\ DeadTokenIsRefused

\* The roles in a token are those of its login, not those of now. But when the roles an
\* administrator gave a user are not changed any more, neither by another administrator
\* nor by a login that finds none, in the end no token with others is accepted: neither
\* an old session nor a login that read the roles before the change outlasts the life
\* time of a token.
RolesTakeEffect ==
    \A u \in OAuthUsers \ LocalUsers, roles \in RoleSets :
        <>[](user_roles[u] = roles) =>
            <>[](user_sessions[u] # NoToken /\ validate(user_sessions[u]) =>
                    user_sessions[u].roles = roles)

===========================================================================

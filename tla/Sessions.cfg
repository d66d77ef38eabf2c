SPECIFICATION FairSpec
CONSTANTS
    LocalUsers = {root}
    LocalRole <- Local
    OAuthUsers = {o1}
    RoleSets <- UserOrAdmin
    AutoAssignUserRole = TRUE
    JSONWebTokenLifeTime = 1
    APITokenLifeTime = 0
    Handlers = {h1, h2}
    MaxFailures = 1
    NoToken = NoToken
INVARIANTS
    Inv
PROPERTIES
    RolesTakeEffect

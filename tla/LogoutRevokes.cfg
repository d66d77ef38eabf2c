SPECIFICATION Spec
CONSTANTS
    Tabs = {t1, t2}
    RoleSets = {{}, {"user"}, {"admin"}}
    None = None
    MaxLogins = 2
    MaxPending = 2
    MaxEvents = 1
CHECK_DEADLOCK FALSE
PROPERTIES
    LogoutRevokes

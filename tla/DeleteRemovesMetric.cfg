SPECIFICATION Spec
CONSTANTS
    Admins = {a1, a2}
    Names = {m1, m2}
    Categories = {c1, c2}
    Parts = {p1}
    Virtual = {v1}
    Users = {u1, u2}
    Roles = {{}, {"user"}}
    None = None
    MaxGuid = 3
    MaxEdits = 4
    MaxLost = 1
SYMMETRY Symmetry
CHECK_DEADLOCK FALSE
PROPERTIES
    DeleteRemovesMetric

SPECIFICATION Spec
CONSTANTS
    Users = {u1, u2}
    Calls = {c1, c2}
    Logins = {}
INVARIANT
    AnAdminRemains

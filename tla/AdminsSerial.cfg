SPECIFICATION Spec
CONSTANTS
    Users = {u1, u2, u3}
    Calls = {c1}
    Logins = {l1, l2}
SYMMETRY Symmetry
INVARIANTS
    TypeOK
    AnAdminRemains
PROPERTY
    SignInsKeepAdmins

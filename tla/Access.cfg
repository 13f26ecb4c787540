SPECIFICATION Spec
CONSTANTS
    Identities = {i1}
    Groups = {g1}
    Requests = {q1, q2}
    Reviews = {v1}
    Admins = {a1, a2}
    Syncers = {s1, s2}
    MaxRows = 2
    MaxEdits = 1
    Failures = TRUE
SYMMETRY Symmetry
CONSTRAINT Bounds
INVARIANTS
    TypeOK
    
    DecisionsAreAudited
    
PROPERTY
    SyncIsExact

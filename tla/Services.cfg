CHECK_DEADLOCK FALSE
SPECIFICATION Spec
CONSTANTS
    Calls = {c1, c2}
    Tenants = {t1, t2}
    Members = {m1}
    Operators = {t1, t2}
    Tokens = {m1}
    MaxAttempts = 2
    MaxWrong = 8
    MaxRows = 3
    MaxNow = 1
    MaxEdits = 1
    MaxRequests = 2
    Window = 3
    Slowest = 1
    MaxClock = 4
    MaxMoves = 4
    MaxChanges = 1
    MaxUsers = 1
    MaxInvites = 2
    MaxRev = 2
    MaxKeys = 3
    MaxSaves = 3
    MaxSecrets = 2
    MaxNotices = 3
    MaxStarts = 1
SYMMETRY Alike
INVARIANTS
    TypeOK
    FailuresBounded
    VerdictsAreTrue
    
    RedirectsBounded
    DuplicatesBounded
    AnsweredWasCarriedOut
    TokenUsesBounded

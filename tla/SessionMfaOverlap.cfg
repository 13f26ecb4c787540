CHECK_DEADLOCK FALSE
SPECIFICATION Spec
CONSTANTS
    Calls = {c1, c2}
    MaxChanges = 1
    MaxSetups = 1
INVARIANT
    MfaHasSecret

CHECK_DEADLOCK FALSE
SPECIFICATION Spec
CONSTANTS
    Calls = {c1}
    MaxChanges = 2
    MaxSetups = 1
INVARIANT
    DisabledHasNoSession

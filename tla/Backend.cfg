CHECK_DEADLOCK FALSE
SPECIFICATION FairSpec
CONSTANTS
    Operators = {o1, o2}
    Visitors = {v1}
    MaxLinks = 3
    Asked = {q1}
    Runs = {r1, r2}
    MaxFaults = 2
    Deletions = {q1, q2}
    Exports = {v1}
    Callers = {o1, o2}
    Jobs = {r1, r2}
INVARIANTS
    TypeOK
    LinksDoNotPileUp
    CompletedWasCarriedOut
PROPERTY
    ErasureComes

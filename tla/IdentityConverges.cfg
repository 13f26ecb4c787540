SPECIFICATION FairSpec
CONSTANTS
    Accounts = {x1, x2}
    MaxEmail = 2
    Users = {u1}
    Manual = {m1}
    Cron = {k1}
    Nobody = Nobody
    System = System
    Reuse = FALSE
    MapsByHand = TRUE
    MaxEdits = 1
    MaxFails = 1
    MaxLinks = 1
PROPERTY
    IdentitiesGetSynced

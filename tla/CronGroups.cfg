SPECIFICATION FairSpec
CONSTANTS
    Accounts = {x1, x2}
    MaxEmail = 1
    Users = {u1}
    Manual = {m1}
    Cron = {k1}
    Nobody = Nobody
    System = System
    Reuse = FALSE
    MapsByHand = FALSE
    MaxEdits = 0
    MaxFails = 0
    MaxLinks = 1
PROPERTY
    CronSyncsGroups

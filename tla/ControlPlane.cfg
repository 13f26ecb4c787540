CHECK_DEADLOCK FALSE
SPECIFICATION Spec
SYMMETRY Symmetry
CONSTANTS
    x = x
    y = y
    dx = dx
    dy = dy
    a1 = a1
    a2 = a2
    b1 = b1
    b2 = b2
    None = None
    Nobody = Nobody
    System = System
    Slugs = {t1}
    SeedSlug = t1
    Addresses = {x, y}
    Domains = {dx, dy}
    DomainOf <- DomainsOfAddresses
    SeedAddress = x
    SeedDomain = dx
    Sessions = {b1, b2}
    Requests = {a1, a2}
    Issued = {b1, b2}
    Callers = {a1, a2, a3}
    MaxUsers = 3
    People = {p1}
    Teams = {b1, b2}
    Detections = {a1, a2}
    MaxIds = 2
    MaxRowChanges = 2
    Flights = {f1}
    Tenants = {t1, t2}
    Home = t1
    MaxVersions = 2
    Directory = {1, 2}
    RoleIds = {1, 2}
    PageSize = 1
    RoleSyncs = {s1}
    MaxGoogleChanges = 2
    Calls = {a1, a2}
    MaxChanges = 2
    MaxSetups = 1
    Accounts = {b1, b2}
    MaxEmail = 1
    Users = {u1}
    Manual = {m1}
    Cron = {k1}
    Reuse = TRUE
    MapsByHand = TRUE
    MaxEdits = 3
    MaxFails = 1
    MaxLinks = 1
INVARIANTS
    TypeOK
    DomainIsVouchedFor
    CreatedDomainStays
    InviteTellsItsUser
    ScoreIsAudited
    ConsolesAgree
    HandlerActsForOneUser
    TokensFollowCredentials
    
PROPERTIES
    
    SyncMirrorsGoogle

SPECIFICATION Spec
CONSTANTS
    root = root
    ann = ann
    bob = bob
    t1 = t1
    t2 = t2
    q1 = q1
    q2 = q2
    NoUser = NoUser
    NoToken = NoToken
    NoChange = NoChange
    Root = root
    Users <- ThreeUsers
    Tokens = {t1, t2}
    Requests = {q1, q2}
    Roles <- TwoRoles
    Listings <- AnnListings
SYMMETRY Symmetry
CHECK_DEADLOCK FALSE
INVARIANTS
    ActsWithAuthority
    AdministeredWithoutSync
    OffboardedStaysOut

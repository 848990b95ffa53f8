SPECIFICATION BoundedSpec
CONSTANTS
    a = a
    b = b
    c = c
    s1 = s1
    s2 = s2
    s3 = s3
    g = g
    p1 = p1
    p2 = p2
    t1 = t1
    NoGroup = NoGroup
    NoPassword = NoPassword
    Sources <- ThreeSources
    Records <- ThreeRecords
    SourceOf <- ThreeSourceOf
    GroupOf <- ThreeGroupOf
    PasswordOf <- ThreePasswordOf
    Scans = {t1, t2}
    Purgers = {w1}
    Policies = {"indefinite", "none", "days"}
    Days = 1
    Limit = 1
    Incarnations = 2
    MaxTime = 1
    MaxTrail = 3
    MaxReopens = 1
INVARIANTS
    ReLeakLinks
    ChainsEnd
    TrailAgrees
PROPERTIES
    NeverRelinked
    DeletedUnlessBlocked

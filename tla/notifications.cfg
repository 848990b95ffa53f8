SPECIFICATION FairSpec
CONSTANTS
    ann = ann
    bob = bob
    k1 = k1
    k2 = k2
    NoKey = NoKey
    NoTime = NoTime
    Users = {ann}
    Keys = {k1, k2}
    UserOf <- OneUser
    Workers = {w1, w2}
    Cooldown = 2
    MaxTime = 2
    MaxCrashes = 1
INVARIANTS
    CooldownKept
    MailedOnce
PROPERTIES
    EveryoneSettled

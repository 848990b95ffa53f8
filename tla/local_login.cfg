SPECIFICATION FairSpec
CONSTANTS
    root = root
    nobody = nobody
    ip = ip
    q1 = q1
    q2 = q2
    p1 = p1
    p2 = p2
    s1 = s1
    s2 = s2
    Off = Off
    Admins = {root}
    Names = {root, nobody}
    Ips = {ip}
    Requests = {q1, q2}
    Passwords = {p1, p2}
    First = p1
    Secrets = {s1, s2}
    Skews = {1, 2}
    Forms <- SomeForms
    MaxFailures = 2
    Lockout = 2
    IpMax = 3
    IpWindow = 2
    IpLockout = 2
    MaxWait = 1
INVARIANTS
    PagesAgree
PROPERTIES
    GuessesPaced
    OnlyOwnersAct
    LocksElapse

SPECIFICATION ListedSpec
CONSTANTS
    t1 = t1
    t2 = t2
    x1 = x1
    x2 = x2
    y = y
    g1 = g1
    g2 = g2
    e1 = e1
    e2 = e2
    None = None
    Tabs = {t1, t2}
    Own = {x1, x2}
    Foreign = {y}
    Subjects = {g1, g2}
    Emails = {e1, e2}
    MaxRows = 2
    MaxMoves = 1
SYMMETRY Symmetry
INVARIANTS
    QuietBrowser
PROPERTIES
    SignsInAsSelf
    AccountsKeepSubject

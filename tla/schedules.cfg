SPECIFICATION FairSpec
CONSTANTS
    often = often
    seldom = seldom
    NoWorker = NoWorker
    Schedules = {s1, s2}
    Crons = {often, seldom}
    FirstFrom <- Cron
    Grace = 1
    Workers = {w1, w2}
    MaxTime = 3
    MaxCrashes = 1
INVARIANTS
    FiresInOrder
PROPERTIES
    NotWhileOff
    DueIsHandled

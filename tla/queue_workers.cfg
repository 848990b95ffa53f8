SPECIFICATION FairSpec
CONSTANTS
    ann = ann
    bob = bob
    bobAlias = bobAlias
    NoWorker = NoWorker
    Batches <- OneBatch
    Users <- ThreeUsers
    Subjects <- TwoSubjects
    SubjectOf <- AliasedSubjects
    Workers = {w1, w2}
    StaleAfter = 0
    MaxCrashes = 1
INVARIANTS
    ExclusiveWhileFresh
    VerdictSound
    CountersNeverOverstate
    OutcomeFromScan
PROPERTIES
    EveryRowSettles
    FinishesUnlessShared
    ImplementsLedger

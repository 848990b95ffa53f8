SPECIFICATION FairSpec
CONSTANTS
    ann = ann
    bob = bob
    bobAlias = bobAlias
    NoWorker = NoWorker
    Batches <- OneBatch
    Users <- TwoUsers
    Subjects <- TwoSubjects
    SubjectOf <- PlainSubjects
    Workers = {w1, w2}
    StaleAfter = 1
    MaxCrashes = 0
PROPERTIES
    EveryBatchFinishes

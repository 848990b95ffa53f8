SPECIFICATION Spec
CONSTANTS
    i1 = i1  i2 = i2
    None = None
    Inits <- TwoInits
    MaxSecrets = 5
    MaxFaults = 2
PROPERTIES RunbookComesUp

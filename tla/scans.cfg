SPECIFICATION Spec
CONSTANTS
    t1 = t1  r1 = r1  r2 = r2  d1 = d1  d2 = d2  wazuh = wazuh
    none = none
    None = none
    Findings <- TwoScans
    Tests <- OneTest
    Sinks <- OneSink
    Requests <- TwoRequests
    Dispatchers <- TwoDispatchers
    Clients <- ThreeClients
    Broken <- BrokenVersions
    MaxAttempts = 2
    MaxDelay = 1
    MaxEvents = 2
    Cooldown = 1
INVARIANTS OneClient SendsCounted
PROPERTIES SelfChecksSpaced ScansEnd

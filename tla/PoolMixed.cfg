\* Two threads sign and verify on one context, if there is a GPU.
SPECIFICATION FairSpec
CONSTANTS
    t1 = t1  t2 = t2  t3 = t3
    NoThread = NoThread
    Threads = {t1, t2}
    MaxGpus = 1
    MaxQueues = 1
    Devices = {0, 1}
    Requests <- MixedRequests
    BlockSize = 4
    SigSize = 4
    MaxCalls = 3
INVARIANTS
    ResultsAreOwn
    SetupSuffices
PROPERTIES
    CallsReturn

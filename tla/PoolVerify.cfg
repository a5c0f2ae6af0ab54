\* Two threads verify on the contexts of up to two GPUs: devices found or
\* not, set-up that fails half way.
SPECIFICATION Spec
CONSTANTS
    t1 = t1  t2 = t2  t3 = t3
    NoThread = NoThread
    Threads = {t1, t2}
    MaxGpus = 2
    MaxQueues = 2
    Devices = {0, 1, 3}
    Requests <- VerifyRequests
    BlockSize = 2
    SigSize = 2
    MaxCalls = 3
SYMMETRY Callers
INVARIANTS
    TypeOK
    WorkIsOwners
    KernelInBounds
    AllFreed
    OnlyReady
    InitAnswerFinal
    Balanced

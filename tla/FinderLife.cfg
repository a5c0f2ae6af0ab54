\* One run of the script: every environment, two interrupts, every way to end.
SPECIFICATION FairSpec
CONSTANTS
    a1 = a1  a2 = a2  a3 = a3
    s1 = s1  s2 = s2  s3 = s3
    w1 = w1  w2 = w2
    NoAddr = NoAddr
    NoSeed = NoSeed
    Addrs = {a1, a2, a3}
    Seeds = {s1, s2, s3}
    Matching = {a1, a2}
    AddressOf <- MCAddressOf
    Workers = {w1}
    Emits <- MCEmits
    Configs <- MCConfigs
    PipeCap = 1
    MaxSigints = 2
INVARIANTS
    TypeOK
    StoredKeysVerified
    ExitReleases
    InterruptStopsEngine
PROPERTIES
    RunEnds

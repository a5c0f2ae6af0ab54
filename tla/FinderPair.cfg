\* Two runs and the wallets meet in one collection.
SPECIFICATION MCPairSpec
CONSTANTS
    a1 = a1  a2 = a2  a3 = a3
    s1 = s1  s2 = s2  s3 = s3
    w1 = w1  w2 = w2
    NoAddr = NoAddr
    NoSeed = NoSeed
    Addrs = {a1, a2, a3}
    Seeds = {s1, s2, s3}
    Matching = {a1, a2}
    AddressOf <- MCAddressOf
    Workers = {w1, w2}
    Emits <- MCPairEmits
    Configs <- MCPairConfigs
    PipeCap = 1
    MaxSigints = 0
INVARIANTS
    OneDocPerAddress
    InsertsAccounted
    NoOvershoot
    SeenIsStored
PROPERTIES
    DocsWriteOnce
    ImplementsKeyStore

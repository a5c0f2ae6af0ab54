\* The launch loop on machines with no, one and two GPUs, and where its tuning rests.
SPECIFICATION FairSpec
CONSTANTS
    l1 = l1
    Found = {l1}
    Setups <- MCSetups
    Target = 16
    MaxAtt = 12
    First = 8
    QueueCap = 2
    Limit = 64
INVARIANTS
    TypeOK
    LaunchesShort
    RoundIsFlushed
PROPERTIES
    LinesArrive
    ReportsForever
    TuningSettles

\* The limit on GPUs of different speeds.
SPECIFICATION Spec
CONSTANTS
    l1 = l1
    Found = {l1}
    Setups <- UnevenSetups
    Target = 16
    MaxAtt = 40
    First = 8
    QueueCap = 2
    Limit = 64
INVARIANTS
    LaunchesUnderLimit

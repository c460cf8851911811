SPECIFICATION FairSpec
CONSTANTS
    p1 = p1  p2 = p2  r1 = r1
    Pid = {p1, p2}
    NoPid = NoPid
    Foreign = Foreign
    Req = {r1}
    MaxGeneration = 2
INVARIANTS OwnsEveryProcess ForwardOwned PoolCurrent
PROPERTIES CloseReturns Reconnects

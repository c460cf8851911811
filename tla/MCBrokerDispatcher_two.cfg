SPECIFICATION FairSpec
CONSTANTS
    o1 = o1  o2 = o2  l1 = l1  l2 = l2  h1 = h1  h2 = h2
    Op = {o1, o2}
    Lane = {l1, l2}
    NoLane = NoLane
    Handle = {h1, h2}
    NoHandle = NoHandle
    PeerTask <- MCPeerTask
    PeerOutcome = {"completed"}
    Cancellable = {}
    Limit = 1
    Batch = 1
    MaxStops = 0
PROPERTIES AcceptedLeaves

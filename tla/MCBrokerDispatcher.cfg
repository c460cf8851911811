SPECIFICATION FairSpec
CONSTANTS
    o1 = o1  o2 = o2  l1 = l1  l2 = l2  h1 = h1  h2 = h2
    Op = {o1}
    Lane = {l1}
    NoLane = NoLane
    Handle = {h1}
    NoHandle = NoHandle
    PeerTask <- MCPeerTask
    PeerOutcome = {"completed", "failed", "canceled", "rejected"}
    Cancellable = {o1}
    Limit = 1
    Batch = 20
    MaxStops = 2
INVARIANTS TypeOK SubmittedOnce CancelSentOnce OutcomeHonest RunningOwned ObservationsExclusive
PROPERTIES RunningResolves CancelTakenUp

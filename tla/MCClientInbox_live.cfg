SPECIFICATION FairSpec
CONSTANTS
    o1 = o1  l1 = l1  h1 = h1
    Op = {o1}
    Lane = {l1}
    NoLane = NoLane
    Handle = {h1}
    NoHandle = NoHandle
    LateHandle = FALSE
    PeerOutcome = {"completed"}
    MaxFloor = 0
    MaxFeed = 5
    MaxTools = 0
    MaxRestarts = 0
PROPERTIES ResultArrives

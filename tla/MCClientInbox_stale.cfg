SPECIFICATION Spec
CONSTANTS
    o1 = o1  l1 = l1  h1 = h1
    Op = {o1}
    Lane = {l1}
    NoLane = NoLane
    Handle = {h1}
    NoHandle = NoHandle
    LateHandle = TRUE
    PeerOutcome = {"completed"}
    MaxFloor = 5
    MaxFeed = 4
    MaxTools = 1
    MaxRestarts = 1
INVARIANTS NothingSkipped
PROPERTIES TerminalKept

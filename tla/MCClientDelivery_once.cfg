SPECIFICATION FairSpec
CONSTANTS
    o1 = o1  o2 = o2
    Op = {o1, o2}
    MaxSubmits = 1
    MaxRestarts = 2
INVARIANTS EnqueuedOnce DeliveryHonest InlineOrQueued
PROPERTIES Offered
CHECK_DEADLOCK FALSE

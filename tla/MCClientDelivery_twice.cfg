SPECIFICATION Spec
CONSTANTS
    o1 = o1  o2 = o2
    Op = {o1}
    MaxSubmits = 2
    MaxRestarts = 0
INVARIANTS InlineOrQueued
CHECK_DEADLOCK FALSE

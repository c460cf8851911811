SPECIFICATION Spec
CONSTANTS
    o1 = o1  o2 = o2  o3 = o3
    Op = {o1, o2, o3}
    Batch = 2
    Limit = 1
PROPERTIES HandlesResolve

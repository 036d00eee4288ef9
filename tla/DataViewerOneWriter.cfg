CONSTANTS
    p1 = p1
    p2 = p2
    p3 = p3
    Proc = {p1, p2, p3}
    Writer = {p1}
    Ops <- MCOps
    MaxCalls = 5
SPECIFICATION Spec
PROPERTY RefinesAtomicDatabase
CHECK_DEADLOCK FALSE

CONSTANTS
    p1 = p1
    p2 = p2
    p3 = p3
    Proc = {p1, p2}
    Writer = {p1, p2}
    Ops <- MCOps
    MaxCalls = 3
SPECIFICATION Spec
INVARIANT SerialOutcome
CHECK_DEADLOCK FALSE

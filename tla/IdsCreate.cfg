CONSTANTS
    p1 = p1
    p2 = p2
    p3 = p3
    None = None
    Proc = {p1, p2}
    Id = {1, 2, 3, 4, 5, 6}
    Inode = {11, 12, 13, 14, 15, 16}
    Requests <- EitherOrder
    GivenNames = {0}
    Commands = {"create", "stop"}
    MaxCalls = 3
    MaxKills = 0
SPECIFICATION Spec
INVARIANTS AutoIdsAreFree WaitsInRequestOrder
PROPERTY CommandsEnd
CHECK_DEADLOCK FALSE

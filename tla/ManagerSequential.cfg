CONSTANTS
    p1 = p1
    p2 = p2
    p3 = p3
    None = None
    Proc = {p1}
    Id = {1, 2, 3, 4}
    Inode = {11, 12, 13, 14}
    Requests <- Mixed
    GivenNames = {0, 1}
    Commands = {"create", "start", "stop", "remove", "clear", "reset"}
    MaxCalls = 5
    MaxKills = 1
SPECIFICATION Spec
INVARIANTS GroupsDisjoint NoLeakedIds RunningIsRecorded
PROPERTY RemovalNeedsStopped
CHECK_DEADLOCK FALSE

SPECIFICATION Spec
CONSTANTS
    None = None
    c1 = c1
    c2 = c2
    k1 = k1
    k2 = k2
    p1 = p1
    p2 = p2
    w1 = w1
    Ids = {"d1", "d2"}
    Controllers <- MCControllers
    Conns <- MCConns
    Polled <- MCPolled
    Sockets <- MCSockets
    Casts <- MCCasts
    QueueSize = 1
CHECK_DEADLOCK FALSE
INVARIANTS
    AnnouncedOrTaken
    AnnouncementsHaveOwners
    RegisteredIsServed
    LeftBehindWereLate
    ClosedMeansForgotten
PROPERTIES
    RegistrationReported
    UnregistrationEnds

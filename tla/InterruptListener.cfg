CONSTANTS
    t1 = t1
    t2 = t2
    Thread = {t1, t2}
    SIGINT = SIGINT
    SIGTERM = SIGTERM
    SIGHUP = SIGHUP
    Sig = {SIGINT, SIGTERM, SIGHUP}
    MaxSessions = 2
    MaxListeners = 2
SPECIFICATION Spec
INVARIANTS WriteEndNotMisused RunnerFindsListener
PROPERTIES SignalsHeard StopHandlingReturns
CHECK_DEADLOCK FALSE

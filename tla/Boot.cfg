SPECIFICATION Spec
CONSTANTS
    Subscribers <- MCSubscribers
    Confs <- MCConfs
    FifoSize = 1
    PipeSize = 1
    MaxLines = 3
    MaxFaults = 1
INVARIANTS
    VerdictIsTheGuests
PROPERTIES
    LauncherAnswered
    BootedGuestRunsOn
    FailFastBringsDown
    CancelledLaunchEnds

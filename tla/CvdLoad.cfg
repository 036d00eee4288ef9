SPECIFICATION Spec
CONSTANT MaxSignals = 2
INVARIANTS RunningMeansOn NoSignalToReaped LeftSettled
PROPERTY InterruptEnds
CHECK_DEADLOCK FALSE

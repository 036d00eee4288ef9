CONSTANTS
    Cmd = {1, 2, 3}
    Critical = {1, 2}
    Vmm = {2}
    Exempt = {}
    SecureEnv = {1}
SPECIFICATION Spec
INVARIANTS TypeOK CleanExitMeansAllDead SuspendTakesEffect
PROPERTY CriticalExitEnds

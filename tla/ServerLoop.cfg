CONSTANTS
    Cmd = {1, 2}
    Critical = {1, 2}
    Vmm = {2}
    Exempt = {}
    SecureEnv = {}
    Faults = {"pre_suspend", "crosvm_suspend", "crosvm_resume", "post_resume"}
SPECIFICATION ServerSpec
INVARIANTS StopMeansDead SuspendedMeansFrozen
PROPERTY StopAnswered
CHECK_DEADLOCK FALSE

CONSTANTS
    Cmd = {1, 2}
    Critical = {2}
    Vmm = {2}
    Exempt = {}
    SecureEnv = {}
SPECIFICATION Spec
PROPERTY SuspendAnswered

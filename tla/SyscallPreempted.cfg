CONSTANTS
    CPU = {c1}
    Task = {t1}
    Idle = Idle
    Null = Null
    Wild = Wild
    Envs = {"stack", "none"}
    MaxValue = 1
SPECIFICATION Spec
INVARIANT OwnStack

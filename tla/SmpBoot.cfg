CONSTANTS
    b = b
    a1 = a1
    a2 = a2
    a3 = a3
    Bsp = b
    AP = {a1, a2, a3}
    Processors <- MCProcessors3
    ContextSize = 80
    PageSize = 128
    FramesNum = 32
    Reserved <- MCReserved
    Prompt = TRUE
    Null = Null
SPECIFICATION FairSpec
INVARIANTS TypeOK OwnMemory OneInTrampoline GateAfterSetup
PROPERTY BootEnds
CHECK_DEADLOCK FALSE

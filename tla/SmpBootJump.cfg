CONSTANTS
    b = b
    a1 = a1
    a2 = a2
    a3 = a3
    Bsp = b
    AP = {a1, a2}
    Processors <- MCProcessors2
    ContextSize = 80
    PageSize = 128
    FramesNum = 32
    Reserved <- MCAllFree
    Prompt = TRUE
    Null = Null
SPECIFICATION Spec
INVARIANT BeginsScheduling
CHECK_DEADLOCK FALSE

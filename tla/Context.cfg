CONSTANTS
    CPU = {c1, c2}
    Task = {t1, t2}
    Idle = Idle
    Null = Null
    Wild = Wild
    Envs = {"stack", "none"}
    MaxValue = 1
SPECIFICATION FairSpec
INVARIANTS TypeOK GsPaired OwnFrame OwnTables
PROPERTIES ExitRetires SetupEnds

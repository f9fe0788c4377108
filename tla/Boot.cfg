CONSTANTS
    Fan = 4
    Width = 2
    Machines <- MCMachines
    KernelBase = 128
    InitialReserve = 4
    TrampolineTarget = 1
    TrampolineLock = 12
    PciDevices = 2
    PciFunctions = 2
    Pins <- MCPins
SPECIFICATION Spec
INVARIANTS TypeOK TablesApart KernelProtected DevicesMapped SymbolsResolve RoutesRight ConsoleShows
PROPERTY PagingImplementsMap
CHECK_DEADLOCK FALSE

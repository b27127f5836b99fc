\* Rows against the plant, over every order of two changes, the runs and lost flushes.
SPECIFICATION Spec
CONSTANTS
    FrontPort = {1, 2, 3, 4, 5, 6, 7, 8}
    RearPos = {11, 12, 13, 14, 15, 16, 17, 18}
    DeviceOf <- MCDeviceOf
    Behind <- MCBehind
    Terminated = {1, 2, 8}
    Cable = {41, 42, 43}
    Positions <- MCPositions
    Strand = {31, 32, 33}
    CableOf <- MCCableOf
    Jumper <- MCJumper
    InitialPlant <- MCInitialPlant
    MayLand <- MCMayLand
    MaxAssigned = 1
    MaxChanges = 2
    MaxRow = 12
    Entry <- MCEntry
CHECK_DEADLOCK FALSE
INVARIANTS TypeOK OneRowPerStrand StoredIsWalk TraceShowsPath
PROPERTIES RowsKeepTheirFiber CutKeepsFirst

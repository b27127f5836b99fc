SPECIFICATION Spec
CONSTANTS
    Panel <- MCPanel
    Registered <- MCRegistered
    Declared = 2
    MaxTemplate = 2
    MaxStrand = 3
    MaxFiber = 2
INVARIANT LinkedTraces
PROPERTY ProfileMirrors
CHECK_DEADLOCK FALSE

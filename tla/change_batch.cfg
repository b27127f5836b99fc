\* Two devices, two savepoints, three calls in all.
SPECIFICATION Spec
CONSTANTS
    Device = {d1, d2}
    MaxSavepoint = 2
    MaxCall = 3
SYMMETRY BatchSymmetry
PROPERTY QueuedOnceIfCommitted

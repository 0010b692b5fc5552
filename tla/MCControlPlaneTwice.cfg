\* Two API processes, three calls that come at any time, one failure.
SPECIFICATION Spec
CONSTANTS
    Processes = {p, q}
    Keys = {k}
    Bodies = {a, b}
    MaxCalls = 3
    MaxFaults = 1
SYMMETRY Symmetry
INVARIANTS
    OneRunPerKey
CHECK_DEADLOCK FALSE

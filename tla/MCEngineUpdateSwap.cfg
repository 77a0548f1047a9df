SPECIFICATION Spec
CONSTANTS
    w1 = w1
    w2 = w2
    Workers <- TwoWorkers
    Autostart <- One
    MaxFaults = 1
    MaxCrashes = 1
CHECK_DEADLOCK FALSE

PROPERTIES SwapEndsNothing

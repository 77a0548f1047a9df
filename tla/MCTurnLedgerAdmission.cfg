SPECIFICATION Spec
CONSTANTS
    NoPrompt = NoPrompt
    Chunks <- Keys
    Manners <- OnlyInterleaved
    MaxPrompts = 3
    MaxWrites = 4
    MaxInFlight = 2
CHECK_DEADLOCK FALSE
INVARIANT AdmittedLosesNothing

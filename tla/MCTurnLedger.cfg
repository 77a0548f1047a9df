SPECIFICATION Spec
CONSTANTS
    NoPrompt = NoPrompt
    Chunks <- Keys
    Manners <- EachOne
    MaxPrompts = 3
    MaxWrites = 4
    MaxInFlight = 2
CHECK_DEADLOCK FALSE
INVARIANTS TypeOK AdmissionLosesNothing LedgerAccounts

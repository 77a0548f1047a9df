SPECIFICATION FairSpec
CONSTANTS
    a = a
    b = b
    p1 = p1
    p2 = p2
    p3 = p3
    i1 = i1
    i2 = i2
    nobody = nobody
    None = None
    Hives = {a, b}
    Issues = {i1}
    Claims = {1, 2}
    Handoffs = {1, 2}
    Passes = {p1, p2, p3}
    HiveOf <- TwoForA
    Claimants <- Anyone
    Offers <- OneWay
    Persons = {nobody}
    Refusable = {a}
    Removable = {i1}
    MaxFaults = 1
INVARIANTS
    TypeOK
    JiraBeforeHome
    ImportedWasHome
PROPERTIES
    KeepsHome
    ClaimsEnd
    HandoffsEnd

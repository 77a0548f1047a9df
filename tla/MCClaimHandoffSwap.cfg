SPECIFICATION FairSpec
CONSTANTS
    a = a
    b = b
    p1 = p1
    p2 = p2
    p3 = p3
    i1 = i1
    i2 = i2
    nobody = nobody
    None = None
    Hives = {a, b}
    Issues = {i1, i2}
    Claims = {1, 2}
    Handoffs = {1, 2}
    Passes = {p1, p2}
    HiveOf <- OneEach
    Claimants <- EachItsOwn
    Offers <- BothWays
    Persons = {}
    Refusable = {}
    Removable = {}
    MaxFaults = 0
PROPERTIES
    AcceptedFinishes

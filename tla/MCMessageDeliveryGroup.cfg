SPECIFICATION Spec
CONSTANTS
    w1 = w1
    Messages = {1, 2}
    Workers = {w1}
    To <- ForOne
    Reviews = {1}
    Closable = {2}
    MaxRetries <- FirstOnly
    Engaged = {}
    Enters = 2
    MaxFaults = 1
INVARIANTS DeliveredWasTaken

SPECIFICATION Spec
CONSTANTS
    t1 = t1
    t2 = t2
    w = w
    Nobody = Nobody
    Tasks <- TwoTasks
    Workers <- OneWorker
    Linked <- EitherWay
    Asked <- First
    Removable <- Second
    MaxCrashes = 1
INVARIANTS TypeOK Acyclic FinishedInOrder OneActive
PROPERTIES ClearedComesBack AnsweredComesBack

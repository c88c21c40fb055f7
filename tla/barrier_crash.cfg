CONSTANTS
    Client = {c1, c2, c3}
    MayCrash = {c1, c2}
SPECIFICATION FairSpec
INVARIANTS TypeOK NobodyEarly RemovedLast CountKept
PROPERTIES PassedOrOvertaken
CHECK_DEADLOCK FALSE

CONSTANTS
    b1 = b1
    b2 = b2
    b3 = b3
    p1 = p1
    s1 = s1
    None = None
    pub_reg_port = 0
    sub_reg_port = 1
    MaxPort = 2
    Broker <- ThreeBrokers
    Publisher = {p1}
    Subscriber = {s1}
    Occupied <- FirstOccupied
    MayExit = {b1, b2}
    MayCrash = {b1, b2}
    MayExpire = {b1}
    MayBlip = {s1}
SPECIFICATION FairSpec
INVARIANTS TypeOK OncePerWrite WatchKept ServingAdvertised NoMissedChange
PROPERTIES FollowsOrLeftBehind
CHECK_DEADLOCK FALSE

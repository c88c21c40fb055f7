CONSTANTS
    None = None
    p1 = p1
    p2 = p2
    s1 = s1
    s2 = s2
    a = a
    b = b
    h = h
    port1 = port1
    port2 = port2
    port3 = port3
    Topic <- MCTopic
    Host = {h}
    Pub = {p2}
    Sub = {s1, s2}
    PubTopics <- OnePubTopics
    SubTopics <- MCSubTopics
    HostOf <- MCHostOf
    Extensions <- Related
    PortRange = {port1, port2}
    TakenPorts = {}
    MaxEvents = 3
    HighWaterMark = 2
    Leavers = {s2, p2}
    Killable = {}
SPECIFICATION FairSpec
CHECK_DEADLOCK FALSE
INVARIANTS TypeOK InOrder
PROPERTIES Drained

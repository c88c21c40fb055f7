CONSTANTS
    None = None
    p1 = p1
    p2 = p2
    s1 = s1
    s2 = s2
    a = a
    b = b
    h = h
    port1 = port1
    port2 = port2
    port3 = port3
    Topic <- MCTopic
    Host = {h}
    Pub = {p1, p2}
    Sub = {s1, s2}
    PubTopics <- MCPubTopics
    SubTopics <- MCSubTopics
    HostOf <- MCHostOf
    Extensions <- Unrelated
    PortRange = {port1, port2, port3}
    TakenPorts = {port3}
    MaxEvents = 0
    HighWaterMark = 2
    Leavers = {p1, p2, s1, s2}
    Killable = {p1, s1}
SPECIFICATION Spec
CHECK_DEADLOCK FALSE
INVARIANTS PortsAgree SourcesConnected

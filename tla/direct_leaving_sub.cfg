CONSTANTS
    None = None
    p1 = p1
    p2 = p2
    s1 = s1
    s2 = s2
    a = a
    b = b
    h = h
    port1 = port1
    port2 = port2
    port3 = port3
    pub_reg_port = pub_reg_port
    sub_reg_port = sub_reg_port
    Pub <- MCPub
    Sub <- MCSub
    Topic <- MCTopic
    Host <- MCHost
    PubTopics <- MCPubTopics
    SubTopics <- MCSubTopics
    HostOf <- MCHostOf
    IdOf <- MCIdOf
    PortRange <- MCPortRange
    TakenPorts = {}
    Leavers <- SubscribersLeave
    Killable = {}
SPECIFICATION FairSpec
CHECK_DEADLOCK FALSE
PROPERTIES
    DisconnectsProperly

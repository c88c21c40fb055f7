CONSTANTS
    None = None
    p2 = p2
    s1 = s1
    s2 = s2
    a = a
    b = b
    h = h
    port1 = port1
    port2 = port2
    pub_reg_port = pub_reg_port
    sub_reg_port = sub_reg_port
    Topic = {a, b}
    Host = {h}
    Pub = {p2}
    Sub = {s1, s2}
    PubTopics <- MCPubTopics
    SubTopics <- MCSubTopics
    HostOf <- MCHostOf
    IdOf <- SameId
    PortRange = {port1, port2}
    TakenPorts = {}
    MaxEpoch = 2
    Leavers = {s1}
    Killable = {p2}
    Hasty = {s2, p2}
SPECIFICATION FairSwitchSpec
INVARIANTS IntroducedAgain BlockedByStrangers EntriesKept
PROPERTIES RejoinsInTheEnd
CHECK_DEADLOCK FALSE

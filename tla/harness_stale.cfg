CONSTANTS
    tree8 = tree8
    tree6 = tree6
    Network = {tree8, tree6}
    num_hosts <- MCHosts
    model <- MCModel
    Plan <- MCPlan
    num_events = 2
    MaxRuns = 2
SPECIFICATION Spec
INVARIANT SuccessMeansItWorked
CHECK_DEADLOCK FALSE

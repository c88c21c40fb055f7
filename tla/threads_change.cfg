CONSTANTS
    Topic = {a, b}
    max_event_count = 2
    MaxChanges = 3
SPECIFICATION FairSpec
INVARIANTS TypeOK FlagProtects OneLostPerChange  LeavesTold
 
CHECK_DEADLOCK FALSE

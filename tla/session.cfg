CONSTANTS
    Client = {c1, c2, c3}
    zkVal = bar
    new_val = bar2
    MayExpire = {c1, c2}
    None = None
SPECIFICATION Spec
INVARIANTS CreatorReadsNewValue NothingLeft
CHECK_DEADLOCK FALSE

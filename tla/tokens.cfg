SPECIFICATION FairSpec
CONSTANTS
    Subjects = {"s1", "s2"}
    Callers = {"c1", "c2"}
    Now = 1
    MaxChanges = 1
    MaxFaults = 1
INVARIANTS
    UsersSound
PROPERTIES
    CacheSettles
CHECK_DEADLOCK FALSE

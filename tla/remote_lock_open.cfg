\* Every fault at once.
CONSTANTS
    s1 = s1  s2 = s2  s3 = s3
    daemon = daemon  cli = cli  other = other
    h1 = h1  h2 = h2  d1 = d1  d2 = d2
    Scope = {s1, s2}
    Proc = {daemon, cli}
    Host = {h1, h2}
    Dir = {d1, d2}
    ProcOf <- Apart
    HostOf <- Hosts
    DirOf <- Dirs
    Nobody = Nobody
    Leftover <- Old
    TTL = 0
    MaxAcquire = 2
    MaxNow = 2
    MaxLives = 1
    Faults = {"lostReply", "unreadable", "diskFail", "rmFail", "rmLost", "late", "overstay", "sameSecond", "stealWindow", "unlockWindow", "force"}
SPECIFICATION Spec
INVARIANTS BreachNeedsRobbery LiveEntryHasScope
CHECK_DEADLOCK FALSE

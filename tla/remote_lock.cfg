\* A daemon, a command-line run and another machine contend for one archive root.
CONSTANTS
    s1 = s1  s2 = s2  s3 = s3
    daemon = daemon  cli = cli  other = other
    h1 = h1  h2 = h2  d1 = d1  d2 = d2
    Scope = {s1, s2, s3}
    Proc = {daemon, cli, other}
    Host = {h1, h2}
    Dir = {d1, d2}
    ProcOf <- Apart
    HostOf <- Hosts
    DirOf <- Dirs
    Nobody = Nobody
    Leftover <- Old
    TTL = 1
    MaxAcquire = 3
    MaxNow = 3
    MaxLives = 1
    Faults = {"lostReply"}
SPECIFICATION Spec
INVARIANTS TypeOK Exclusion HolderKeepsLock
PROPERTIES MutexSpec
CHECK_DEADLOCK FALSE

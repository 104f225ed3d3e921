\* Two calls or flushes and a direct use of the clients; anything may be reset
\* and the settings may change at any time.
SPECIFICATION FairSpec
CONSTANTS
    u1 = u1  u2 = u2  d1 = d1  s1 = s1  s2 = s2  bad = bad
    User = {u1, u2}
    Direct = {d1}
    Setting = {s1, s2, bad}
    Valid = {s1, s2}
    Workers <- MCWorkers
    None = None
INVARIANTS
    TypeOK
    FlushCoversTheProcess
    OneClientPerProcess
    PoolIsBounded
PROPERTIES
    WorkIsFinished
CHECK_DEADLOCK FALSE

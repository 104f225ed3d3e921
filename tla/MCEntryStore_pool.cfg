\* One process: two write-behind builds, one worker, an eviction and a flush,
\* under fairness; every request may be refused and the process may be killed.
SPECIFICATION FairSpec
CONSTANTS
    f1 = f1  p1 = p1  p2 = p2
    a1 = a1  a2 = a2  b1 = b1  e1 = e1  g1 = g1
    NoRow = NoRow
    Fingerprint = {f1}
    Process = {p1}
    Build = {a1, a2}
    Evictor = {e1}
    Flusher = {g1}
    Owner <- MCOwner
    Target <- MCTarget
    Background = {a1, a2}
    Inline = {a1, a2}
    Indexed = {}
    Timed = {}
    MaxWorkers = 1
    LostAcks = FALSE
INVARIANTS
    FlushWaitsForEarlierBuilds
PROPERTIES
    PersistFinishes
    EvictFinishes
    FlushFinishes
CHECK_DEADLOCK FALSE

\* Two write-behind builds, one worker, an eviction by another process;
\* requests may be refused, a table lock lasts five sleeps or one more, and
\* the processes may be killed.
SPECIFICATION FairIndexSpec
CONSTANTS
    f1 = f1  p1 = p1  p2 = p2  a1 = a1  a2 = a2  e1 = e1  i1 = i1  i2 = i2
    NoRow = NoRow
    Fingerprint = {f1}
    Process = {p1, p2}
    Build = {a1, a2}
    Evictor = {e1}
    Flusher = {}
    Owner <- MCOwner
    Target <- MCTarget
    Background = {a1, a2}
    Inline = {a1, a2}
    Indexed = {a1, a2}
    Timed = {}
    MaxWorkers = 1
    LostAcks = FALSE
    Index = {i1, i2}
    Declared <- MCDeclared
    IndexFaults = FALSE
    Holds <- MCHolds
INVARIANTS
    IndexTypeOK
    SuccessMeansIndexed
    LocksAreWaitedOut
PROPERTIES
    PersistFinishes
    ImplementsStore
CHECK_DEADLOCK FALSE

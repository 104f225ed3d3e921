\* A write-behind miss is queried after its persist has landed.
SPECIFICATION MaterializeSpec
CONSTANTS
    f1 = f1  p1 = p1  p2 = p2  a1 = a1  a2 = a2  b1 = b1  e1 = e1
    NoRow = NoRow
    Fingerprint = {f1}
    Process = {p1, p2}
    Build = {a1, b1}
    Evictor = {}
    Flusher = {}
    Owner <- MCOwner
    Target <- MCTarget
    Background = {a1}
    Inline = {}
    Indexed = {}
    Timed = {}
    MaxWorkers = 1
    LostAcks = FALSE
    ReadFaults = FALSE
INVARIANTS
    SqlWorksOncePersisted
CHECK_DEADLOCK FALSE

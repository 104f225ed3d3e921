\* A write-behind persist fails before the flush that should report it.
SPECIFICATION Spec
CONSTANTS
    f1 = f1  p1 = p1  p2 = p2
    a1 = a1  a2 = a2  b1 = b1  e1 = e1  g1 = g1
    NoRow = NoRow
    Fingerprint = {f1}
    Process = {p1, p2}
    Build = {a1}
    Evictor = {}
    Flusher = {g1}
    Owner <- MCOwner
    Target <- MCTarget
    Background = {a1}
    Inline = {a1}
    Indexed = {}
    Timed = {}
    MaxWorkers = 2
    LostAcks = FALSE
INVARIANTS
    FlushSurfacesFailures
CHECK_DEADLOCK FALSE

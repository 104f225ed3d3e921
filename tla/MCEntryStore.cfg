\* Two processes, three builds of one fingerprint and an eviction; every
\* request may be refused, either process may be killed.
SPECIFICATION Spec
CONSTANTS
    f1 = f1  p1 = p1  p2 = p2
    a1 = a1  a2 = a2  b1 = b1  e1 = e1  g1 = g1
    NoRow = NoRow
    Fingerprint = {f1}
    Process = {p1, p2}
    Build = {a1, a2, b1}
    Evictor = {e1}
    Flusher = {}
    Owner <- MCOwner
    Target <- MCTarget
    Background = {a1, a2}
    Inline = {a1}
    Indexed = {b1}
    Timed = {}
    MaxWorkers = 2
    LostAcks = FALSE
INVARIANTS
    TypeOK
    NoDanglingReadyRow
    FailedPersistIsInvisible
    EvictIsFinal
PROPERTIES
    NoResurrection
    CacheSpec
CHECK_DEADLOCK FALSE

\* A write-behind call and a synchronous one, an eviction, lost
\* acknowledgements and kills; only callers are sure to be scheduled.
SPECIFICATION FairMaterializeSpec
CONSTANTS
    f1 = f1  p1 = p1  p2 = p2  a1 = a1  a2 = a2  b1 = b1  e1 = e1
    NoRow = NoRow
    Fingerprint = {f1}
    Process = {p1, p2}
    Build = {a1, b1}
    Evictor = {e1}
    Flusher = {}
    Owner <- MCOwner
    Target <- MCTarget
    Background = {a1}
    Inline = {a1}
    Indexed = {}
    Timed = {}
    MaxWorkers = 1
    LostAcks = TRUE
    ReadFaults = FALSE
INVARIANTS
    MaterializeTypeOK
    OnlyEvictionTakesData
    HitsArePublished
    ReadsSurviveLostResults
PROPERTIES
    CallsEnd
    ReadsEnd
CHECK_DEADLOCK FALSE

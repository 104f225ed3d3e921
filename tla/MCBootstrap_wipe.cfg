\* A write and a first read of an unseeded registry; no request fails.
SPECIFICATION Spec
CONSTANTS
    t1 = t1  t2 = t2  u1 = u1  u2 = u2  p1 = p1  p2 = p2
    Thread = {t1, u1}
    Process = {p1, p2}
    HomeOf <- MCHomeOf
    Writer = {t1}
    Origin = Origin
    NoDatabase = NoDatabase
    Nobody = Nobody
    Faults = {}
INVARIANTS
    AcknowledgedRowsStay
CHECK_DEADLOCK FALSE

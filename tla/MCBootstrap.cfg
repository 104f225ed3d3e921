\* A reader and a writer in each of two processes; every request may fail.
SPECIFICATION FairSpec
CONSTANTS
    t1 = t1  t2 = t2  u1 = u1  u2 = u2  p1 = p1  p2 = p2
    Thread = {t1, t2, u1, u2}
    Process = {p1, p2}
    HomeOf <- MCHomeOf
    Writer = {t2, u2}
    Origin = Origin
    NoDatabase = NoDatabase
    Nobody = Nobody
    Faults = {"refused", "lost"}
INVARIANTS
    TypeOK
    OneRegistryPerProcess
    FoundRegistryIsShared
    LookupsRecover
PROPERTIES
    OperationsFinish
CHECK_DEADLOCK FALSE

\* A first build and a refresh of one entry, with clocks one tick apart and a
\* grace that just covers the slowest persist seen by the slow reader.
SPECIFICATION FairSpec
CONSTANTS
    b1 = b1  b2 = b2  r1 = r1  s1 = s1
    Forever = Forever
    NoRow = NoRow
    Build = {b1, b2}
    Reader = {r1}
    Sweeper = {s1}
    Skew <- MCSkew
    Ttl <- MCTtl
    Grace = 2
    MaxWait = 1
    MaxPersist = 1
    LastCapture = 1
    Horizon = 6
INVARIANTS
    TypeOK
    BackstopComesLast
PROPERTIES
    HitsHaveTheirData
    StalenessIsBounded
    ListedRowsAreNotServed
    DatabasesAreReclaimed
CHECK_DEADLOCK FALSE

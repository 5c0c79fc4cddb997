\* Three threads creating engines and sessions until both counters run out, each of
\* them running on.
SPECIFICATION FairSpec
CONSTANTS
    Threads = {t1, t2, t3}
    U64Max = 3
INVARIANTS
    TypeOK
    GivenBelowCounter
PROPERTIES
    ImplementsIdSource
    WaitsOnlyForWinners

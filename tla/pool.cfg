\* Three fetches on two permits: somebody waits, and the stack can hold an
\* expired conn beside a fresh one.  No symmetry: it is unsound for liveness.
CONSTANTS
    f1 = f1
    f2 = f2
    f3 = f3
    k1 = k1
    k2 = k2
    c1 = c1
    c2 = c2
    c3 = c3
    Fetchers <- MCFetchers
    Closers <- MCClosers
    Conns <- MCConns
    NoConn = NoConn
    PoolSize = 2
    IdleTimeout = 1
    MaxTime = 2
SPECIFICATION FairSpec
INVARIANTS
    TypeOK
    ExclusiveLease
    NoConnLeak
    PermitAccounting
    OpenBound
    ClosedPoolIsEmpty
PROPERTIES
    NeverReapsFresh
    ImplementsLease
    AcquireReturns
    CloseReleasesAll
    IdleEventuallyReaped

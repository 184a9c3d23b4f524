\* As pool, for the one claim of the README's config table.
CONSTANTS
    f1 = f1
    f2 = f2
    f3 = f3
    k1 = k1
    k2 = k2
    c1 = c1
    c2 = c2
    c3 = c3
    Fetchers <- MCFetchers
    Closers <- MCOneCloser
    Conns <- MCConnsTwo
    NoConn = NoConn
    PoolSize = 1
    IdleTimeout = 1
    MaxTime = 2
SPECIFICATION Spec
INVARIANT DocOpenBound

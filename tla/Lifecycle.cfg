SPECIFICATION FairSpec
CONSTANTS
    Producers = {p1, p2}
    Probes = {q1}
    Workers = {w1}
    Background = {b1, m1}
    Once = {m1}
    Grace = 2
    PingTimeout = 1
    p1 = p1
    p2 = p2
    q1 = q1
    w1 = w1
    b1 = b1
    m1 = m1
CHECK_DEADLOCK FALSE
INVARIANTS
    ClosedOnlyWhenUnused
    ServerErrorReturned
PROPERTIES
    NoProducerAfterStop
    NeverReadyAfterStop
    ShutdownCompletes

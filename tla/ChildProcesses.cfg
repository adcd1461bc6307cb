CONSTANTS
    Children = {c1, c2}
    Pids = {p1, p2, p3}
    Fds = {}
    NoPid = NoPid
    NoFd = NoFd
    Nobody = Nobody
    Stranger = Stranger
    Free = Free
    Host = Host
    NotYet = NotYet
    HostReaps = FALSE
SPECIFICATION Spec
SYMMETRY Symmetry
INVARIANTS ProcessExact OwnedUntilKnown
PROPERTIES SignalsInScope GroupSwept KeepsPromise

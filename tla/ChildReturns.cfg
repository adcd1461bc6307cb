CONSTANTS
    Children = {c1}
    Pids = {p1}
    Fds = {f1, f2, f3}
    NoPid = NoPid
    NoFd = NoFd
    Nobody = Nobody
    Stranger = Stranger
    Free = Free
    Host = Host
    NotYet = NotYet
    HostReaps = TRUE
SPECIFICATION FairSpec
INVARIANTS DescriptorsExact
PROPERTIES CloseReturns TimeoutReturns

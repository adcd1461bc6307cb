CONSTANT MaxFd = 12
SPECIFICATION FairSpec
INVARIANTS NothingLeft ChildStreams
PROPERTIES HostKept Returns
CHECK_DEADLOCK FALSE

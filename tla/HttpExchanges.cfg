CONSTANTS
    BodyLimit = 2
    MetadataLimit = 11
    HeadRoom = 2
    LineRoom = 1
    Messages <- All
    Driven <- Some
    HeadLength = 1
    Content = 2
    ReceiveRoom = 2
    SendRoom = 2
    OutputRoom = 1
    SocketRoom = 1
    Transports = {"plain", "tls"}
    MayFail = TRUE
SPECIFICATION RequestSpec
INVARIANTS BodyExact
PROPERTIES UploadInOrder RetriesSameWrite Released Returns NoStall
CHECK_DEADLOCK FALSE

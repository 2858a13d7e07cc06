SPECIFICATION BothSpec
CONSTANTS
    kRecordHeader = 2
    FCGI_MAX_CONTENT_LENGTH = 3
    EmptyResult = 2
    Requests <- MCRequests
    Paddings = {1}
    Results = {0, 4}
    SendBuffer = 20
    MaxRequests = 2
    MaxConnections = 2
    Responses = {1, 3}
    MucgiSendBuffer = 2
    MaxPieces = 2
    MucgiRequests = 3
INVARIANTS StreamInOrder
PROPERTIES  RequestIsSettled ImplementsConversation
    ResponseArrives ShutdownCompletes PeerGoneIsNoticed
CHECK_DEADLOCK FALSE

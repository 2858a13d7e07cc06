SPECIFICATION Spec
CONSTANTS
    HeaderLen = 2
    Alignment = 2
    MinBuff = 4
    FCGI_MAX_LENGTH = 9
    Script <- MultiplexingScript
    Misread <- MCMisread
    MaxRequests = 1
    Followers = {}
    InBuff = 4
    OutBuff = 4
    ErrBuff = 1
    LongPut = 3
    GetSizes = {2}
INVARIANT StdinIsWhole
CHECK_DEADLOCK FALSE

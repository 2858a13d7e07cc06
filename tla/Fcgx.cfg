SPECIFICATION FairSpec
CONSTANTS
    HeaderLen = 2
    Alignment = 2
    MinBuff = 4
    FCGI_MAX_LENGTH = 9
    Script <- MCScript
    Misread <- MCMisread
    MaxRequests = 2
    InBuff = 4
    OutBuff = 4
    ErrBuff = 1
    Followers = {"post"}
    LongPut = 3
    GetSizes = {2}
INVARIANTS InputIsWhole ReplyIsWhole
PROPERTIES RequestIsSettled
CHECK_DEADLOCK FALSE

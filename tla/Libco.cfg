SPECIFICATION FairSpec
CONSTANTS
    Co = {1, 2}
    Main = main
    None = none
    Fd = {sock, file}
    Files = {file}
    Shared = {1, 2}
    iItemSize = 2
    Forever = 3
    MaxLag = 1
    Timeout = {1, 3}
    PollSets = {{sock, file}}
    Length = 2
    Tries = 2
    MaxCalls = 3
INVARIANTS PollsEndOnce StackIsOwn
PROPERTIES CallsReturn
CHECK_DEADLOCK FALSE

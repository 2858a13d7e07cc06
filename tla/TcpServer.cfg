SPECIFICATION MCSpec
CONSTANTS
    base = base
    io1 = io1
    io2 = io2
    c2 = c2
    c3 = c3
    f1 = f1
    Pools <- MCPools
    Conn = {c1, c2, c3}
    Fd = {f1, f2}
    Forced = {c1}
INVARIANTS FunctorsAssert ChannelsAreAlive
PROPERTY ClosedIsFreed

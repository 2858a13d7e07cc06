CONSTANTS
    m_usCoroutineCount = 4
    m_usMaxCoroutineCount = 3
    MAX_RECYCLE_COUNT = 1
    usListenNum = 1
    Fd = {10, 11}
    ClockMayStepBack = FALSE
SPECIFICATION FairSpec
PROPERTIES ClosedByPeerIsClosed

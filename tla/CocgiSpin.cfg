CONSTANTS
    m_usCoroutineCount = 1
    m_usMaxCoroutineCount = 2
    MAX_RECYCLE_COUNT = 1
    usListenNum = 1
    Fd = {10, 11, 12}
    ClockMayStepBack = FALSE
SPECIFICATION HangUpSpec
PROPERTY ExhaustedPoolRecovers

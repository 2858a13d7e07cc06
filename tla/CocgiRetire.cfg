CONSTANTS
    m_usCoroutineCount = 2
    m_usMaxCoroutineCount = 1
    MAX_RECYCLE_COUNT = 1
    usListenNum = 1
    Fd = {10, 11}
    ClockMayStepBack = FALSE
SPECIFICATION Spec
INVARIANT RunningCoroutineIsAlive

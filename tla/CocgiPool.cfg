CONSTANTS
    m_usCoroutineCount = 1
    m_usMaxCoroutineCount = 3
    MAX_RECYCLE_COUNT = 1
    usListenNum = 1
    Fd = {10, 11, 12}
    ClockMayStepBack = TRUE
SPECIFICATION Spec
INVARIANTS OneOwnerPerConnection RunningCoroutineIsAlive
PROPERTIES ImplementsPool

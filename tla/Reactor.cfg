SPECIFICATION ReactorSpec
CONSTANTS
    Addr <- MCAddr
    None = None
    Spawner = {1, 2}
    Starts <- MCStarts
    NoPid = noPid
    Servers <- MCServers
    m_usProcessCount = 2
    MaxLate = 2
    MaxTimers = 2
    Horizon = 2
    Delays <- MCDelays
    Intervals <- MCIntervals
    MaxCalls = 1
    Channel <- MCChannel
    FdOf <- MCFdOf
    InitEvents = 2
    Fd = {1, 2, 3, 4}
    NoFd <- MCNoFd
    MaxClients = 2
    ThreadCounts = {0, 1}
INVARIANTS TimersAgree ArmedForEarliest  SpareIsKept
           BackendIsSetUp PidFileNamesBackends
 
CHECK_DEADLOCK FALSE

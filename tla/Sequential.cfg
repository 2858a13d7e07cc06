SPECIFICATION AllSpec
CONSTANTS
    Byte = {0, 1}
    kCheapPrepend = 1
    kInitialSize = 1
    kExtrabuf = 2
    MaxChunk = 2
    MaxReadable = 3
    HeaderLength = 8
    FCGI_MAX_CONTENT_LENGTH = 127
    EmptyLength = 75
    NameLengths = {0, 1, 127, 128}
    ValueLengths = {0, 1, 128, 130}
    MaxPairs = 2
    MaxResult = 600
    Chunks = {1, 5, 100}
    Characters = {10, 13, 32, 37, 38, 43, 61, 65, 97, 200}
    MaxCharacters = 3
    Widths = {99, 100, 300}
    Precisions = {200}
    Lengths = {1, 300, 2000}
    MaxConversions = 2
    MaxParams = 5
    MaxCalls = 3
    Nodes = {"n1", "n2", "n3", "n4"}
    Descriptors = {0, 1, 2}
    MaxOperations = 4
    FirstYear = 1900
    LastYear = 2300
    MaxTime = 24
INVARIANTS CodecsCarryAll FormReachesBackend  WrappersAreTransparent
    ListsAreSequences CoroutineDataIsOwn OperationsAreTracked TimesAreTurnedBack
PROPERTIES ImplementsQueue
CHECK_DEADLOCK FALSE

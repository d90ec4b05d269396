SPECIFICATION MemorySpec
CONSTANTS
    Callers = {c1, c2}
    MemMap <- SmallMap
    BITS = 2
    PAGE_SIZE = 8
    LOW_BYTES = 2
    MaxPages = 3
    NONE = NONE
    Clients = {c1, c2}
    HDR = 4
    ALIGN = 2
    PAGE = 12
    INIT_PAGES = 1
    InitPage = 1
    NPages = 3
    Sizes = {0, 3, 9}
    NULL = NULL
    OUTSIDE = OUTSIDE
    Procs = {p0, p1}
    InitProc = p0
    FAN = 2
    LEVELS = 2
    USER_END = 4
    STACK = 1
    Images <- SomeImages
    Frames <- Memory
    MaxMapped = 2
    MaxCalls = 4
INVARIANTS
    NoSharedPage
    CountersExact
    FirstFit
    IndInv
    HeapSound
    AddressSpacesApart
PROPERTIES
    LockReleased
    GrowsOnlyWhenNeeded
\* panic() stops the machine.
CHECK_DEADLOCK FALSE

SPECIFICATION InterruptsSpec
CONSTANTS
    Blocks <- MCBlocks
    Fadt <- MCFadt
    Sci = 9
    IrqOf <- MCIrqOf
    DeviceOf <- MCDeviceOf
    Base <- MCBase
    Count <- MCCount
    PerReg = 2
    Pulse <- MCPulse
    Methods <- MCMethods
    Dynamic <- MCDynamic
    WakeDevices = {"D1"}
    MaxUsers = 2
    Scenarios <- MCScenarios
    Served = {"GLOBAL_LOCK", "POWER_BUTTON"}
    Unserved = {"RTC"}
    Sticky = {"GLOBAL_LOCK", "POWER_BUTTON", "RTC"}
    SpinMax = 2
    DepthMax = 2
    SeqMax = 2
    Threads = {t0, t1, t2, t3}
    InitThread = t0
    NULL = NULL
    GARBAGE = GARBAGE
    SIZE = 4
    MaxKeys = 11
    MaxRead = 3
INVARIANTS ArmedIsEnabled OneOwner EnabledHasHandler NothingLost ThreadListSound
PROPERTIES MaskedStaysOff KeysInOrder EventuallyDelivered DestroyedNeverResumes EveryReadyRuns
CHECK_DEADLOCK FALSE

SPECIFICATION AllSpec
CONSTANTS
    N = 3
    Callers = {c1, c2, c3}
    Blocks = {b1, b2, b3}
    DeadBlocks = {d1}
    MaxHeld = 1
    NULL = NULL
SYMMETRY Alike
INVARIANTS
    RefCountExact
    CacheSound
    ReadCorrect
PROPERTY
    HeldStays
\* A panic stops the machine, and a read of a file ends.
CHECK_DEADLOCK FALSE

SPECIFICATION Spec
CONSTANTS
    Procs = {p0, p1, p2, p3}
    InitProc = p0
    NULL = NULL
SYMMETRY Alike
INVARIANTS
    ListSound
    ProcessesSound
PROPERTY
    ReapedByParent
\* The kernel may run wild.
CHECK_DEADLOCK FALSE

SPECIFICATION SchedSpec
CONSTANTS
    Threads = {t0, t1, t2}
    InitThread = t0
    NULL = NULL
    GARBAGE = GARBAGE
PROPERTY ExitIsRescheduled
\* The machine may hang in the handler or run wild.
CHECK_DEADLOCK FALSE

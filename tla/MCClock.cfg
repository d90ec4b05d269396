SPECIFICATION AllSpec
CONSTANTS
    disk = disk
    volume = volume
    timer = timer
    ahci = ahci
    fat = fat
    pit = pit
    NULL = NULL
    Procs = {p1, p2}
    InitProc = p1
    Names = {sh, ls}
    InitName = sh
    Writers = {w1, w2}
    WIDTH = 5
    HEIGHT = 7
    GLYPH_X = 2
    GLYPH_Y = 2
    UINT = 12
    Digit = 2
    MaxEsc = 4
    MaxArg = 2
    ArgsMax = 1
SYMMETRY Alike
INVARIANT HoursConverted
\* The years considered end, drivers come and go no more, and an exception handler may hang.
CHECK_DEADLOCK FALSE

-------------------------------- MODULE Term --------------------------------
(***************************************************************************)
(* The terminal emulator: src/kernel/sys/term/term.c, its cursor           *)
(* (cursor/cursor.c) and the kernel's wrapper kputchar.  Threads write     *)
(* characters and may be preempted anywhere; an exception handler prints   *)
(* with interrupts off.  What is drawn is left out; where it is drawn, the *)
(* escape sequences that move the cursor and the lock are kept.            *)
(* term_init sets tc.enabled, and nobody calls term_disable.               *)
(*                                                                         *)
(* A backspace moves the cursor without the lock.  A move that another     *)
(* writer's may overlap sets `raced', and the cursor is no longer followed *)
(* (it stays at 0): every statement of the one could fall between any two  *)
(* of the other.                                                           *)
(*                                                                         *)
(* The proofs at the end hold for every number of writers and every size   *)
(* of the screen and of the glyphs.                                        *)
(***************************************************************************)
EXTENDS FiniteSets, Induction

CONSTANTS
    Writers,            \* threads that write to the terminal
    WIDTH, HEIGHT,      \* of the framebuffer, in pixels
    GLYPH_X, GLYPH_Y,
    UINT,               \* 2^32 in the code: coordinates are unsigned
    Digit,              \* the digit that escape sequences use
    ArgsMax,            \* 16 in the code: the length of tc.escArgs
    MaxEsc,             \* bound: characters of an escape sequence
    MaxArg              \* bound: no digit is written after an argument above it

\* A framebuffer that holds a glyph, with coordinates that fit the unsigned type; the
\* width fits the signed one, to which cursor_backspace converts posX.
ASSUME TermAssumption ==
    /\ WIDTH \in Nat /\ HEIGHT \in Nat /\ GLYPH_X \in Nat \ {0} /\ GLYPH_Y \in Nat \ {0}
    /\ GLYPH_X <= WIDTH /\ GLYPH_Y <= HEIGHT
    /\ UINT \in Nat /\ 2 * WIDTH <= UINT /\ HEIGHT + GLYPH_Y < UINT
    /\ Digit \in 0..9

VARIABLES
    posX, posY,                     \* tc.cursor
    escape, escapeOffset,           \* inside an escape sequence
    arg0, escArgsCount,             \* tc.escArgs[0] and the number of separators
    lock,                           \* tc.lock
    kernelScreenOut,
    pc, chr,                        \* of each writer; the character it writes
    freed,                          \* a writer has released the lock of another
    wrapped,                        \* a backspace has moved the cursor below 0
    raced,                          \* two writers may have moved the cursor at once
    overrun,                        \* a digit was stored past tc.escArgs
    hung                            \* the exception handler spins for tc.lock

cursor == <<posX, posY>>
parser == <<escape, escapeOffset, arg0, escArgsCount>>
vars == <<cursor, parser, lock, kernelScreenOut, pc, chr, freed, wrapped, raced, overrun, hung>>

\* The characters that move the cursor or belong to an escape sequence; "glyph" is
\* any other, the bracket and CSI m included.
Chars == {"glyph", "newline", "return", "escape", "backspace", "digit", ";", "@", "J"}

\* term_init.
Init ==
    /\ posX = 0 /\ posY = 0
    /\ escape = FALSE /\ escapeOffset = 0 /\ arg0 = 0 /\ escArgsCount = 0
    /\ lock = FALSE /\ kernelScreenOut = TRUE
    /\ pc = [w \in Writers |-> "idle"] /\ chr = [w \in Writers |-> "glyph"]
    /\ freed = FALSE /\ wrapped = FALSE /\ hung = FALSE
    /\ raced = FALSE /\ overrun = FALSE

-----------------------------------------------------------------------------
(* cursor.c: the position after an operation                               *)

\* Variant: the line below the screen counts as a line.
LastLineLate(y) == (y + GLYPH_Y) % UINT > HEIGHT

LastLine(y) == (y + GLYPH_Y) % UINT > HEIGHT - GLYPH_Y

\* On the last line the text scrolls and the cursor stays.
LineBelow(y) == IF LastLine(y) THEN y ELSE (y + GLYPH_Y) % UINT

cursor_newline(p) == <<IF LastLine(p[2]) THEN 0 ELSE p[1], LineBelow(p[2])>>

cursor_return(p) == <<0, p[2]>>

cursor_advance(p) ==
    IF p[1] + GLYPH_X >= WIDTH THEN <<0, LineBelow(p[2])>> ELSE <<p[1] + GLYPH_X, p[2]>>

\* At the left edge the line is decremented twice.
cursor_backspace(p) ==
    IF p[1] >= GLYPH_X THEN <<p[1] - GLYPH_X, p[2]>>
    ELSE <<WIDTH - GLYPH_X, (p[2] - 2 * GLYPH_Y) % UINT>>

Advanced(p, n) ==
    LET after[i \in 0..n] == IF i = 0 THEN p ELSE cursor_advance(after[i-1]) IN after[n]

-----------------------------------------------------------------------------
(* term.c                                                                  *)

\* The cursor moves to p.  The others may be moving it at the same time: a writer that
\* holds the lock, or that has released it for a backspace.
MoveTo(p, others) ==
    /\ raced' = (raced \/ \E v \in others : pc[v] \in {"in", "back"})
    /\ IF raced' THEN posX' = 0 /\ posY' = 0 ELSE posX' = p[1] /\ posY' = p[2]

\* Where a character outside an escape sequence leaves the cursor; "escape" and
\* "backspace" do not move it here.
Plain(c) ==
    CASE c = "newline" -> cursor_return(cursor_newline(cursor))
      [] c = "return" -> cursor_return(cursor)
      [] OTHER -> cursor_advance(cursor)

\* The characters that end an escape sequence: all but its introduction, digits
\* and separators.
Final(c) == escapeOffset >= 1 /\ c \notin {"digit", ";"}

\* The ends that move the cursor: CSI @ prints spaces, CSI 2 J clears the screen.
\* CSI m sets colours.
Moves(c) == Final(c) /\ (c = "@" \/ (c = "J" /\ escArgsCount = 0 /\ arg0 = 2))

Escaped(c) == IF c = "@" THEN Advanced(cursor, arg0) ELSE <<0, 0>>

\* A digit or a separator.  escArgs[ArgsMax] is left alone, but no later one is.
Argument(c) ==
    /\ escArgsCount' = IF c = ";" THEN (escArgsCount + 1) % 256 ELSE escArgsCount
    /\ arg0' = IF c = "digit" /\ escArgsCount = 0 THEN ((arg0 * 10) + Digit) % 256 ELSE arg0
    /\ overrun' = (c = "digit" /\ escArgsCount > ArgsMax)

term_handle_esc(c, others) ==
    /\ IF Moves(c) THEN MoveTo(Escaped(c), others) ELSE UNCHANGED <<cursor, raced>>
    /\ IF Final(c)
       THEN /\ escape' = FALSE /\ escapeOffset' = 0 /\ arg0' = 0 /\ escArgsCount' = 0
            /\ UNCHANGED overrun
       ELSE /\ escapeOffset' = escapeOffset + 1
            /\ IF escapeOffset >= 1 THEN Argument(c) ELSE UNCHANGED <<arg0, escArgsCount, overrun>>
            /\ UNCHANGED escape

\* An overrun changes what lies behind escArgs in tc: the model ends there.
At(w, l) == pc[w] = l /\ ~hung /\ ~overrun
Goto(w, l) == pc' = [pc EXCEPT ![w] = l]
Return(w) == Goto(w, "idle") /\ chr' = [chr EXCEPT ![w] = "glyph"]

\* Those inside the section that tc.lock protects.
Inside == {w \in Writers : pc[w] \in {"in", "dbg"} \/ (pc[w] = "out" /\ chr[w] # "backspace")}

\* term_putchar, also as the write function of the terminal's file, and kputchar
\* while the screen is on.
term_putchar(w, c) ==
    /\ At(w, "idle") /\ Goto(w, "in")
    /\ ~lock /\ lock' = TRUE
    /\ chr' = [chr EXCEPT ![w] = c]
    /\ UNCHANGED <<cursor, parser, kernelScreenOut, freed, wrapped, raced, overrun, hung>>

\* kputchar otherwise: the character only goes to the serial port.
term_putchar_dbg(w) ==
    /\ At(w, "idle") /\ Goto(w, "dbg")
    /\ ~kernelScreenOut
    /\ ~lock /\ lock' = TRUE
    /\ UNCHANGED <<cursor, parser, kernelScreenOut, chr, freed, wrapped, raced, overrun, hung>>

Bounded(c) == Final(c) \/ (escapeOffset < MaxEsc /\ (c = "digit" => arg0 <= MaxArg))

\* Variant: the return from the escape sequence forgets the lock.
PutEscapedKeepsLock(w) ==
    /\ At(w, "in") /\ escape
    /\ Bounded(chr[w])
    /\ term_handle_esc(chr[w], Writers \ {w})
    /\ Return(w)
    /\ UNCHANGED <<lock, kernelScreenOut, freed, wrapped, hung>>

PutEscaped(w) ==
    /\ At(w, "in") /\ escape
    /\ Bounded(chr[w])
    /\ term_handle_esc(chr[w], Writers \ {w})
    /\ lock' = FALSE /\ Return(w)
    /\ UNCHANGED <<kernelScreenOut, freed, wrapped, hung>>

PutPlain(w) ==
    /\ At(w, "in") /\ ~escape /\ chr[w] # "backspace"
    /\ IF chr[w] = "escape" THEN UNCHANGED <<cursor, raced>>
                            ELSE MoveTo(Plain(chr[w]), Writers \ {w})
    /\ escape' = (chr[w] = "escape")
    /\ Goto(w, "out")
    /\ UNCHANGED <<escapeOffset, arg0, escArgsCount>>
    /\ UNCHANGED <<lock, kernelScreenOut, chr, freed, wrapped, overrun, hung>>

\* The lock is released before the cursor moves back, ...
PutBackspace(w) ==
    /\ At(w, "in") /\ ~escape /\ chr[w] = "backspace"
    /\ lock' = FALSE /\ Goto(w, "back")
    /\ UNCHANGED <<cursor, parser, kernelScreenOut, chr, freed, wrapped, raced, overrun, hung>>

MoveBack(w) ==
    /\ At(w, "back") /\ Goto(w, "out")
    /\ MoveTo(cursor_backspace(cursor), Writers \ {w})
    /\ wrapped' = (wrapped \/ (posX < GLYPH_X /\ posY < 2 * GLYPH_Y))
    /\ UNCHANGED <<parser, lock, kernelScreenOut, chr, freed, overrun, hung>>

\* ... and once more at the end, whoever has it then.
Leave(w) ==
    /\ At(w, "out") \/ At(w, "dbg")
    /\ lock' = FALSE /\ Return(w)
    /\ freed' = (freed \/ (w \notin Inside /\ lock))
    /\ UNCHANGED <<cursor, parser, kernelScreenOut, wrapped, raced, overrun, hung>>

\* process_terminate_exception prints its report with interrupts off and turns the
\* kernel's output off afterwards.
ExceptionReport ==
    /\ ~hung /\ ~overrun
    /\ IF lock
       THEN hung' = TRUE /\ UNCHANGED <<cursor, parser, raced, overrun, kernelScreenOut>>
       ELSE /\ kernelScreenOut' = FALSE
            /\ IF escape THEN term_handle_esc("newline", Writers)
                         ELSE MoveTo(Plain("newline"), Writers) /\ UNCHANGED <<parser, overrun>>
            /\ UNCHANGED hung
    /\ UNCHANGED <<lock, pc, chr, freed, wrapped>>

Next ==
    \/ \E w \in Writers :
          \/ \E c \in Chars : term_putchar(w, c)
          \/ term_putchar_dbg(w) \/ PutEscaped(w) \/ PutPlain(w)
          \/ PutBackspace(w) \/ MoveBack(w) \/ Leave(w)
    \/ ExceptionReport

Spec == Init /\ [][Next]_vars

-----------------------------------------------------------------------------

TypeOK ==
    /\ posX \in 0 .. UINT - 1 /\ posY \in 0 .. UINT - 1
    /\ escape \in BOOLEAN /\ escapeOffset \in Nat /\ arg0 \in 0..255 /\ escArgsCount \in 0..255
    /\ lock \in BOOLEAN /\ kernelScreenOut \in BOOLEAN
    /\ pc \in [Writers -> {"idle", "in", "dbg", "back", "out"}] /\ chr \in [Writers -> Chars]
    /\ freed \in BOOLEAN /\ wrapped \in BOOLEAN /\ hung \in BOOLEAN
    /\ raced \in BOOLEAN /\ overrun \in BOOLEAN

\* The next glyph starts on the screen and its line fits, after any text and escape
\* sequence, until a backspace at the left edge of the first two lines has made the
\* line number wrap, or a backspace, which moves the cursor without the lock, may have
\* overlapped another writer's move; the parser is reset between sequences.  (The model
\* ends where a digit after more than ArgsMax separators is stored past escArgs.)
CursorOnScreen ==
    /\ TypeOK
    /\ ~wrapped /\ ~raced => posX < WIDTH /\ posY + GLYPH_Y <= HEIGHT
    /\ ~escape => escapeOffset = 0 /\ arg0 = 0 /\ escArgsCount = 0

\* Every path through term_putchar gives the lock back and nobody else enters
\* before, until a backspace has released the lock of another writer; the exception
\* handler hangs only if it has interrupted a writer inside.
ExclusiveWriters ==
    /\ ~freed => (\A v, w \in Inside : v = w) /\ (lock <=> Inside # {})
    /\ hung => Inside # {}

-----------------------------------------------------------------------------
(* Proofs *)

\* A leaf that names no backend is one for Zenon; SMTT marks those that need more theory.
USE ZenonT(30)

\* CSI @ prints spaces: positions that are closed under cursor_advance are closed under
\* any number of them, by induction over that number.
LEMMA AdvancedStays ==
    ASSUME NEW S, \A p \in S : cursor_advance(p) \in S, NEW p \in S, NEW n \in Nat
    PROVE  Advanced(p, n) \in S
  <1>. DEFINE after[i \in 0..n] == IF i = 0 THEN p ELSE cursor_advance(after[i-1])
              G == [q \in S |-> cursor_advance(q)]
  <1>. HIDE DEF cursor_advance
  <1>1. PICK f \in [0..n -> S] : Iterates(f, n, p, G)
    BY IterationExists
  <1>2. ASSUME NEW i \in 1..n PROVE f[i] = cursor_advance(f[i-1])
    <2>1. i - 1 \in 0..n /\ f[i - 1] \in S
      BY SMTT(30)
    <2>. QED BY <1>1, <2>1 DEF Iterates
  <1>3. f = [i \in 0..n |-> IF i = 0 THEN p ELSE cursor_advance(f[i-1])]
    BY <1>1, <1>2, SMTT(30) DEF Iterates
  <1>4. after = [i \in 0..n |-> IF i = 0 THEN p ELSE cursor_advance(after[i-1])]
    BY <1>3
  <1>. DEFINE K == {k \in Nat : k <= n => after[k] \in S}
  <1>. HIDE DEF after
  <1>5. 0 \in K
    BY <1>4, SMTT(30)
  <1>6. ASSUME NEW k \in Nat, k \in K PROVE k + 1 \in K
    BY <1>4, <1>6, SMTT(30)
  <1>. HIDE DEF K
  <1>7. n \in K
    BY <1>5, <1>6, SetInduction
  <1>8. after[n] \in S
    BY <1>7, SMTT(30) DEF K
  <1>. QED BY <1>8 DEF Advanced, after

\* The values of the two unsigned coordinates.
Positions == (0 .. UINT - 1) \X (0 .. UINT - 1)

\* The positions at which a glyph starts on the screen and its line fits.
Screen == {p \in Positions : p[1] < WIDTH /\ p[2] + GLYPH_Y <= HEIGHT}

\* A line feed stays on the screen and does not wrap.
LEMMA LineBelowType ==
    ASSUME NEW y \in 0 .. UINT - 1
    PROVE  /\ LineBelow(y) \in 0 .. UINT - 1
           /\ y + GLYPH_Y <= HEIGHT => LineBelow(y) + GLYPH_Y <= HEIGHT
  <1>1. CASE LastLine(y)
    BY <1>1 DEF LineBelow
  <1>2. CASE ~LastLine(y)
    <2>. DEFINE z == (y + GLYPH_Y) % UINT
    <2>1. z \in 0 .. UINT - 1
      BY TermAssumption, SMTT(30)
    <2>2. ASSUME y + GLYPH_Y <= HEIGHT PROVE z = y + GLYPH_Y
      <3>1. y + GLYPH_Y \in 0 .. UINT - 1
        BY <2>2, TermAssumption, SMTT(30)
      <3>. QED BY <3>1, TermAssumption, SMTT(30)
    <2>3. LineBelow(y) = z /\ ~(z > HEIGHT - GLYPH_Y)
      BY <1>2 DEF LineBelow, LastLine
    <2>. HIDE DEF z
    <2>. QED BY <2>1, <2>2, <2>3, TermAssumption, SMTT(30)
  <1>. QED BY <1>1, <1>2

\* So does the step to the next glyph.
LEMMA AdvanceType ==
    ASSUME NEW p \in Positions
    PROVE  /\ cursor_advance(p) \in Positions
           /\ p \in Screen => cursor_advance(p) \in Screen
  <1>. DEFINE y == LineBelow(p[2])
  <1>1. y \in 0 .. UINT - 1 /\ (p[2] + GLYPH_Y <= HEIGHT => y + GLYPH_Y <= HEIGHT)
    BY LineBelowType DEF Positions
  <1>2. cursor_advance(p) = IF p[1] + GLYPH_X >= WIDTH THEN <<0, y>> ELSE <<p[1] + GLYPH_X, p[2]>>
    BY DEF cursor_advance
  <1>. HIDE DEF y
  <1>. QED BY <1>1, <1>2, TermAssumption, SMTT(30) DEF Screen, Positions

\* A character outside an escape sequence does one of three things to the cursor.
LEMMA PlainIs ==
    ASSUME NEW c
    PROVE  Plain(c) \in {cursor_return(cursor_newline(cursor)), cursor_return(cursor),
                         cursor_advance(cursor)}
  BY DEF Plain

\* The end of an escape sequence does one of two.
LEMMA EscapedIs ==
    ASSUME NEW c
    PROVE  Escaped(c) \in {Advanced(cursor, arg0), <<0, 0>>}
  BY DEF Escaped

\* No text and no escape sequence takes the cursor off the screen.
LEMMA TextStays ==
    ASSUME TypeOK, NEW S \in {Screen, Positions}, cursor \in S, NEW c
    PROVE  Plain(c) \in S /\ Escaped(c) \in S
  <1>1. \A p \in S : cursor_advance(p) \in S
    BY AdvanceType DEF Screen, Positions
  <1>2. Advanced(cursor, arg0) \in S
    BY <1>1, AdvancedStays, SMTT(30) DEF TypeOK
  <1>3. /\ <<0, 0>> \in S
        /\ \A p \in S : p \in Positions /\ cursor_return(p) \in S
    BY TermAssumption, SMTT(30) DEF Screen, Positions, cursor_return
  <1>4. cursor_newline(cursor) \in S
    <2>1. cursor \in Positions /\ cursor[2] \in 0 .. UINT - 1
      BY <1>3 DEF Positions
    <2>2. /\ LineBelow(cursor[2]) \in 0 .. UINT - 1
          /\ cursor[2] + GLYPH_Y <= HEIGHT => LineBelow(cursor[2]) + GLYPH_Y <= HEIGHT
      BY <2>1, LineBelowType
    <2>. QED BY <2>1, <2>2, TermAssumption, SMTT(30) DEF cursor_newline, Screen, Positions
  <1>5. Plain(c) \in S
    BY <1>1, <1>3, <1>4, PlainIs
  <1>6. Escaped(c) \in S
    BY <1>2, <1>3, EscapedIs
  <1>. QED BY <1>5, <1>6

\* The lock's invariant: a writer between the two releases of a backspace is outside,
\* and a lock that is taken has a writer inside, whatever was released before.
LockInv ==
    /\ lock \in BOOLEAN /\ freed \in BOOLEAN /\ hung \in BOOLEAN
    /\ pc \in [Writers -> {"idle", "in", "dbg", "back", "out"}] /\ chr \in [Writers -> Chars]
    /\ \A w \in Writers : pc[w] = "back" => chr[w] = "backspace"
    /\ lock => Inside # {}
    /\ ExclusiveWriters

\* Every step keeps the invariant of the lock.
LEMMA LockKeeps == LockInv /\ [Next]_vars => LockInv'
  <1>. SUFFICES ASSUME LockInv, [Next]_vars PROVE LockInv'
    OBVIOUS
  <1>. USE DEF LockInv, ExclusiveWriters, Inside, At, Goto, Return
  <1>1. ASSUME NEW w \in Writers, NEW c \in Chars, term_putchar(w, c) PROVE LockInv'
    BY <1>1 DEF term_putchar, Chars
  <1>2. ASSUME NEW w \in Writers, term_putchar_dbg(w) PROVE LockInv'
    BY <1>2 DEF term_putchar_dbg, Chars
  <1>3. ASSUME NEW w \in Writers, PutEscaped(w) PROVE LockInv'
    BY <1>3 DEF PutEscaped, Chars
  <1>4. ASSUME NEW w \in Writers, PutPlain(w) PROVE LockInv'
    BY <1>4 DEF PutPlain, Chars
  <1>5. ASSUME NEW w \in Writers, PutBackspace(w) PROVE LockInv'
    <2>1. w \in Inside /\ Inside' = Inside \ {w}
      BY <1>5 DEF PutBackspace
    <2>2. lock' = FALSE /\ freed' = freed /\ hung' = hung /\ chr' = chr /\ ~hung
      BY <1>5 DEF PutBackspace
    <2>3. /\ pc' \in [Writers -> {"idle", "in", "dbg", "back", "out"}]
          /\ \A v \in Writers : pc'[v] = "back" => chr'[v] = "backspace"
      BY <1>5 DEF PutBackspace
    <2>. HIDE DEF Inside
    <2>. QED BY <2>1, <2>2, <2>3
  <1>6. ASSUME NEW w \in Writers, MoveBack(w) PROVE LockInv'
    BY <1>6 DEF MoveBack, Chars
  <1>7. ASSUME NEW w \in Writers, Leave(w) PROVE LockInv'
    BY <1>7 DEF Leave, Chars
  <1>8. CASE ExceptionReport
    BY <1>8 DEF ExceptionReport
  <1>9. CASE UNCHANGED vars
    BY <1>9 DEF vars
  <1>. QED BY <1>1, <1>2, <1>3, <1>4, <1>5, <1>6, <1>7, <1>8, <1>9 DEF Next

\* Every step keeps the cursor on the screen and the parser reset between sequences.
LEMMA CursorKeeps == ASSUME CursorOnScreen, [Next]_vars PROVE CursorOnScreen'
  <1>. DEFINE Rest == /\ lock' \in BOOLEAN /\ kernelScreenOut' \in BOOLEAN
                      /\ pc' \in [Writers -> {"idle", "in", "dbg", "back", "out"}]
                      /\ chr' \in [Writers -> Chars]
                      /\ freed' \in BOOLEAN /\ wrapped' \in BOOLEAN /\ hung' \in BOOLEAN
                      /\ overrun' \in BOOLEAN
              Place == /\ cursor' \in Positions /\ raced' \in BOOLEAN
                       /\ ~wrapped' /\ ~raced' => cursor' \in Screen
              Parser == /\ escape' \in BOOLEAN /\ escapeOffset' \in Nat
                        /\ arg0' \in 0..255 /\ escArgsCount' \in 0..255
                        /\ ~escape' => escapeOffset' = 0 /\ arg0' = 0 /\ escArgsCount' = 0
  <1>1. TypeOK /\ cursor \in Positions /\ (~wrapped /\ ~raced => cursor \in Screen)
    BY TermAssumption DEF CursorOnScreen, TypeOK, cursor, Positions, Screen
  <1>2. SUFFICES Rest /\ Place /\ Parser
    BY DEF CursorOnScreen, TypeOK, cursor, Positions, Screen
  <1>3. \A c : /\ Plain(c) \in Positions /\ Escaped(c) \in Positions
               /\ ~wrapped /\ ~raced => Plain(c) \in Screen /\ Escaped(c) \in Screen
    BY <1>1, TextStays
  <1>4. ASSUME NEW p \in Positions, NEW V, MoveTo(p, V),
               ~wrapped' /\ ~raced => p \in Screen
        PROVE  Place
    <2>1. raced' \in BOOLEAN /\ (~raced' => ~raced)
      BY <1>1, <1>4 DEF MoveTo, TypeOK
    <2>2. CASE raced'
      <3>1. posX' = 0 /\ posY' = 0
        BY <1>4, <2>2 DEF MoveTo
      <3>. QED BY <2>1, <2>2, <3>1, TermAssumption, SMTT(30) DEF cursor, Positions
    <2>3. CASE ~raced'
      <3>1. posX' = p[1] /\ posY' = p[2]
        BY <1>4, <2>3 DEF MoveTo
      <3>2. cursor' = p
        BY <3>1, SMTT(30) DEF cursor, Positions
      <3>. QED BY <1>4, <2>1, <2>3, <3>2
    <2>. QED BY <2>2, <2>3
  <1>5. ASSUME NEW c, NEW V, term_handle_esc(c, V), wrapped' = wrapped PROVE Place
    <2>1. CASE Moves(c)
      BY <1>3, <1>4, <1>5, <2>1 DEF term_handle_esc
    <2>2. CASE ~Moves(c)
      <3>1. cursor' = cursor /\ raced' = raced
        BY <1>5, <2>2 DEF term_handle_esc
      <3>. QED BY <1>1, <1>5, <3>1 DEF TypeOK
    <2>. QED BY <2>1, <2>2
  <1>6. ASSUME NEW c, NEW V, term_handle_esc(c, V), escape PROVE Parser
    <2>1. CASE Final(c)
      <3>1. escape' = FALSE /\ escapeOffset' = 0 /\ arg0' = 0 /\ escArgsCount' = 0
        BY <1>6, <2>1 DEF term_handle_esc
      <3>2. escape' \in BOOLEAN
        BY <3>1
      <3>3. escapeOffset' \in Nat /\ arg0' \in 0..255 /\ escArgsCount' \in 0..255
        BY <3>1, SMTT(30)
      <3>. QED BY <3>1, <3>2, <3>3
    <2>2. CASE ~Final(c)
      <3>. DEFINE a == ((arg0 * 10) + Digit) % 256
                  n == (escArgsCount + 1) % 256
      <3>1. a \in 0..255 /\ n \in 0..255
        BY <1>1, TermAssumption, SMTT(30) DEF TypeOK
      <3>2. /\ escapeOffset' = escapeOffset + 1 /\ escape' = escape
            /\ escArgsCount' \in {escArgsCount, n} /\ arg0' \in {arg0, a}
        BY <1>6, <2>2 DEF term_handle_esc, Argument
      <3>. HIDE DEF a, n
      <3>. QED BY <1>1, <1>6, <3>1, <3>2, SMTT(30) DEF TypeOK
    <2>. QED BY <2>1, <2>2
  <1>7. ASSUME UNCHANGED cursor, raced' = raced, wrapped' = wrapped PROVE Place
    BY <1>1, <1>7 DEF TypeOK
  <1>8. ASSUME UNCHANGED parser PROVE Parser
    BY <1>1, <1>8 DEF parser, CursorOnScreen, TypeOK
  <1>9. ASSUME NEW w \in Writers, PutEscaped(w) PROVE Rest /\ Place /\ Parser
    <2>1. Rest
      <3>1. overrun' \in BOOLEAN
        BY <1>1, <1>9 DEF PutEscaped, term_handle_esc, Argument, TypeOK
      <3>. QED BY <1>1, <1>9, <3>1 DEF PutEscaped, TypeOK, Goto, Return, Chars
    <2>. QED BY <2>1, <1>5, <1>6, <1>9 DEF PutEscaped
  <1>10. ASSUME NEW w \in Writers, PutPlain(w) PROVE Rest /\ Place /\ Parser
    <2>1. Rest
      BY <1>1, <1>10 DEF PutPlain, TypeOK, Goto
    <2>2. Place
      <3>1. CASE chr[w] = "escape"
        BY <1>7, <1>10, <3>1 DEF PutPlain
      <3>2. CASE chr[w] # "escape"
        BY <1>3, <1>4, <1>10, <3>2 DEF PutPlain
      <3>. QED BY <3>1, <3>2
    <2>3. Parser
      BY <1>1, <1>10 DEF PutPlain, CursorOnScreen, TypeOK
    <2>. QED BY <2>1, <2>2, <2>3
  <1>11. ASSUME NEW w \in Writers, MoveBack(w) PROVE Rest /\ Place /\ Parser
    <2>1. Rest
      BY <1>1, <1>11 DEF MoveBack, TypeOK, Goto
    <2>2. Place
      <3>. DEFINE y == (cursor[2] - 2 * GLYPH_Y) % UINT
      <3>1. y \in 0 .. UINT - 1
        BY <1>1, TermAssumption, SMTT(30) DEF Positions
      <3>2. ASSUME posY >= 2 * GLYPH_Y PROVE y = posY - 2 * GLYPH_Y
        <4>1. posY - 2 * GLYPH_Y \in 0 .. UINT - 1
          BY <1>1, <3>2, TermAssumption, SMTT(30) DEF TypeOK
        <4>2. (posY - 2 * GLYPH_Y) % UINT = posY - 2 * GLYPH_Y
          BY <4>1, TermAssumption, SMTT(30)
        <4>. QED BY <4>2 DEF cursor
      <3>3. cursor_backspace(cursor) = IF posX >= GLYPH_X THEN <<posX - GLYPH_X, posY>>
                                       ELSE <<WIDTH - GLYPH_X, y>>
        BY DEF cursor_backspace, cursor
      <3>. HIDE DEF y
      <3>4. ~wrapped' => ~wrapped /\ (posX < GLYPH_X => ~(posY < 2 * GLYPH_Y))
        BY <1>11 DEF MoveBack
      <3>5. /\ cursor_backspace(cursor) \in Positions
            /\ ~wrapped' /\ ~raced => cursor_backspace(cursor) \in Screen
        BY <1>1, <3>1, <3>2, <3>3, <3>4, TermAssumption, SMTT(30)
        DEF Positions, Screen, TypeOK, cursor
      <3>. QED BY <1>4, <1>11, <3>5 DEF MoveBack
    <2>. QED BY <1>8, <1>11, <2>1, <2>2 DEF MoveBack
  <1>12. ASSUME NEW w \in Writers,
                \/ \E c \in Chars : term_putchar(w, c)
                \/ term_putchar_dbg(w) \/ PutBackspace(w) \/ Leave(w)
         PROVE  Rest /\ Place /\ Parser
    <2>1. Rest /\ wrapped' = wrapped
      BY <1>1, <1>12 DEF term_putchar, term_putchar_dbg, PutBackspace, Leave, TypeOK, Goto, Return, Chars
    <2>2. UNCHANGED cursor /\ UNCHANGED parser /\ raced' = raced
      BY <1>12 DEF term_putchar, term_putchar_dbg, PutBackspace, Leave
    <2>. QED BY <1>7, <1>8, <2>1, <2>2
  <1>13. CASE ExceptionReport
    <2>1. Rest /\ wrapped' = wrapped
      <3>1. overrun' \in BOOLEAN
        BY <1>1, <1>13 DEF ExceptionReport, term_handle_esc, Argument, TypeOK
      <3>. QED BY <1>1, <1>13, <3>1 DEF ExceptionReport, TypeOK
    <2>2. CASE lock
      BY <1>7, <1>8, <1>13, <2>1, <2>2 DEF ExceptionReport
    <2>3. CASE ~lock /\ escape
      BY <1>5, <1>6, <1>13, <2>1, <2>3 DEF ExceptionReport
    <2>4. CASE ~lock /\ ~escape
      <3>1. MoveTo(Plain("newline"), Writers) /\ UNCHANGED parser
        BY <1>13, <2>4 DEF ExceptionReport
      <3>2. Place
        BY <1>3, <1>4, <2>1, <3>1
      <3>. QED BY <1>8, <2>1, <3>1, <3>2
    <2>. QED BY <2>1, <2>2, <2>3, <2>4
  <1>14. CASE UNCHANGED vars
    <2>1. Rest
      BY <1>1, <1>14 DEF vars, TypeOK
    <2>. QED BY <1>7, <1>8, <1>14, <2>1 DEF vars
  <1>. QED BY <1>9, <1>10, <1>11, <1>12, <1>13, <1>14 DEF Next

\* term_init establishes both.
LEMMA TermInit == Init => LockInv /\ CursorOnScreen
  <1>. SUFFICES ASSUME Init PROVE LockInv /\ CursorOnScreen
    OBVIOUS
  <1>1. /\ escape = FALSE /\ lock = FALSE /\ kernelScreenOut = TRUE
        /\ freed = FALSE /\ wrapped = FALSE /\ hung = FALSE /\ raced = FALSE /\ overrun = FALSE
    BY DEF Init
  <1>2. /\ escape \in BOOLEAN /\ lock \in BOOLEAN /\ kernelScreenOut \in BOOLEAN
        /\ freed \in BOOLEAN /\ wrapped \in BOOLEAN /\ hung \in BOOLEAN
        /\ raced \in BOOLEAN /\ overrun \in BOOLEAN
    BY <1>1
  <1>3. /\ posX = 0 /\ posY = 0 /\ escapeOffset = 0 /\ arg0 = 0 /\ escArgsCount = 0
        /\ pc \in [Writers -> {"idle", "in", "dbg", "back", "out"}] /\ chr \in [Writers -> Chars]
        /\ \A w \in Writers : pc[w] = "idle"
    BY DEF Init, Chars
  <1>4. LockInv
    BY <1>1, <1>2, <1>3 DEF LockInv, ExclusiveWriters, Inside
  <1>5. CursorOnScreen
    BY <1>1, <1>2, <1>3, TermAssumption, SMTT(30) DEF CursorOnScreen, TypeOK
  <1>. QED BY <1>4, <1>5

\* Until a backspace has released the lock of another writer, term_putchar excludes other
\* writers and gives the lock back; an exception report hangs only on a writer inside.
\* For every set of writers and every screen.
THEOREM TermExclusiveWriters == Spec => []ExclusiveWriters
  <1>1. LockInv => ExclusiveWriters
    BY DEF LockInv
  <1>. QED BY <1>1, TermInit, LockKeeps, PTL DEF Spec

\* The cursor stays on every screen that holds a glyph and whose size fits the unsigned
\* coordinates, until a backspace at the left edge of the first two lines wraps it or one
\* may have overlapped another writer's move.
THEOREM TermCursorOnScreen == Spec => []CursorOnScreen
  <1>1. Init => CursorOnScreen
    BY TermInit
  <1>2. CursorOnScreen /\ [Next]_vars => CursorOnScreen'
    BY CursorKeeps
  <1>. QED BY <1>1, <1>2, PTL DEF Spec
=============================================================================

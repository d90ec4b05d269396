-------------------------------- MODULE Pmm --------------------------------
(***************************************************************************)
(* The physical page allocator, src/kernel/mem/pmm/pmm.c.                  *)
(*                                                                         *)
(* Callers (threads in a system call, boot code, drivers) allocate and     *)
(* free runs of pages.  The whole body of pmm_allocate, pmm_allocate32 and *)
(* pmm_free runs under one spinlock, which does not mask interrupts: a     *)
(* caller may be preempted at any point of its scan, so the scan and the   *)
(* marking loops take one step per page here.                              *)
(*                                                                         *)
(* Addresses are page numbers (base >> 12).  A bit of the bitmap is TRUE   *)
(* when the page is in use.                                                *)
(***************************************************************************)
EXTENDS Integers, Sequences, FiniteSets

CONSTANTS
    Callers,      \* the threads that call the allocator
    MemMap,       \* the boot loader's map: [base, length (pages), usable]
    BITS,         \* bits per bitmap byte: 8
    PAGE_SIZE,    \* bytes per page: 4096
    LOW_BYTES,    \* bitmap bytes describing the first 4 GiB: 131072
    MaxPages,     \* bound: the largest request
    NONE          \* the spinlock is not held

Entries == {MemMap[i] : i \in 1..Len(MemMap)}

PagesOf(e) == e.base .. e.base + e.length - 1

Usable == UNION {PagesOf(e) : e \in {f \in Entries : f.usable}}

\* memmap_get_highest_usable_address(), in pages: the end of the last usable
\* entry of the map.
HighestUsable ==
    LET last == CHOOSE i \in 1..Len(MemMap) :
                    /\ MemMap[i].usable
                    /\ \A j \in i+1..Len(MemMap) : ~MemMap[j].usable
    IN  MemMap[last].base + MemMap[last].length

\* The division rounds down: up to BITS - 1 usable pages at the end have a bit
\* in byte number BitmapSize, which the searches never look at.
BitmapSize == HighestUsable \div BITS

Page == 0 .. HighestUsable - 1

\* The first usable entry with room for the bitmap holds it; the loop that
\* reserves its pages runs to bitmap + bitmapSize inclusive.
BitmapPages ==
    LET Fits(i) == MemMap[i].usable /\ MemMap[i].length * PAGE_SIZE >= BitmapSize
        first == CHOOSE i \in 1..Len(MemMap) :
                    Fits(i) /\ \A j \in 1..i-1 : ~Fits(j)
    IN  MemMap[first].base .. MemMap[first].base + (BitmapSize \div PAGE_SIZE)

\* The pages the allocator manages.
Managed == Usable \ BitmapPages

ASSUME CallersAssumption == NONE \notin Callers

ASSUME SizesAssumption ==
    /\ BITS \in Nat \ {0} /\ PAGE_SIZE \in Nat \ {0}
    /\ LOW_BYTES \in Nat /\ MaxPages \in Nat

\* The boot loader orders the map by address, its entries do not overlap, and
\* one of them has room for the bitmap and the byte after it.
ASSUME MapAssumption ==
    /\ HighestUsable \in Nat
    /\ Usable \subseteq Page
    /\ BitmapPages \subseteq Usable

VARIABLES
    bitmap,       \* [Page -> BOOLEAN]
    freePages,    \* the statistics kept by pmm_bitmap_set and _clear
    usedPages,
    lock,         \* the caller that holds the spinlock, or NONE
    pc,           \* where each caller is: idle, scan, mark, clear
    npages,       \* the request of each call
    base,         \* start of the run found, or being freed
    pos,          \* the page a loop is at
    found,        \* foundPages; inChunk is found > 0
    high,         \* searchingHighPages
    limit,        \* where the scan ends
    owns,         \* the pages each caller has been given and not given back
    panicked      \* "Out of Memory!": panic() stops the machine

frame == <<pc, npages, base, pos, found, high, limit>>
vars == <<bitmap, freePages, usedPages, lock, frame, owns, panicked>>

Run(b, n) == b .. b + n - 1

Top == BitmapSize * BITS

TypeOK ==
    /\ bitmap \in [Page -> BOOLEAN]
    /\ freePages \in Nat /\ usedPages \in Int
    /\ lock \in Callers \cup {NONE}
    /\ pc \in [Callers -> {"idle", "scan", "mark", "clear"}]
    /\ npages \in [Callers -> Nat] /\ base \in [Callers -> Nat]
    /\ pos \in [Callers -> Nat] /\ found \in [Callers -> Nat]
    /\ high \in [Callers -> BOOLEAN] /\ limit \in [Callers -> Nat]
    /\ owns \in [Callers -> SUBSET Page]
    /\ panicked \in BOOLEAN

\* pmm_init.
Init ==
    /\ bitmap = [p \in Page |-> IF p \in Managed THEN FALSE ELSE TRUE]
    /\ freePages = Cardinality(Managed)
    /\ usedPages = Top - Cardinality(Managed)
    /\ lock = NONE
    /\ pc = [c \in Callers |-> "idle"]
    /\ npages = [c \in Callers |-> 0] /\ base = [c \in Callers |-> 0]
    /\ pos = [c \in Callers |-> 0] /\ found = [c \in Callers |-> 0]
    /\ high = [c \in Callers |-> FALSE] /\ limit = [c \in Callers |-> 0]
    /\ owns = [c \in Callers |-> {}]
    /\ panicked = FALSE

\* Variant: the lock is taken without waiting for it.
AcquireLockNoWait(c) == lock' = c

\* acquireLock spins until the lock is free.
AcquireLock(c) == lock = NONE /\ lock' = c

\* A call enters the locked section with its loop variables set.
Enter(c, where, n, b, start, hi, end) ==
    /\ ~panicked
    /\ pc[c] = "idle"
    /\ AcquireLock(c)
    /\ pc' = [pc EXCEPT ![c] = where]
    /\ npages' = [npages EXCEPT ![c] = n]
    /\ base' = [base EXCEPT ![c] = b]
    /\ pos' = [pos EXCEPT ![c] = start]
    /\ found' = [found EXCEPT ![c] = 0]
    /\ high' = [high EXCEPT ![c] = hi]
    /\ limit' = [limit EXCEPT ![c] = end]
    /\ UNCHANGED <<bitmap, freePages, usedPages, panicked>>

\* Variant: one branch returns with the lock held.
ReturnLocked(c) ==
    /\ lock' = lock
    /\ pc' = [pc EXCEPT ![c] = "idle"]
    /\ UNCHANGED <<npages, base, pos, found, high, limit>>

\* The call returns: the lock is released and the locals are dead.
Return(c) ==
    /\ lock' = NONE
    /\ pc' = [pc EXCEPT ![c] = "idle"]
    /\ npages' = [npages EXCEPT ![c] = 0]
    /\ base' = [base EXCEPT ![c] = 0]
    /\ pos' = [pos EXCEPT ![c] = 0]
    /\ found' = [found EXCEPT ![c] = 0]
    /\ high' = [high EXCEPT ![c] = FALSE]
    /\ limit' = [limit EXCEPT ![c] = 0]

\* pmm_find_free starts above 4 GiB when there is memory there.
HasHigh == BitmapSize > LOW_BYTES
LowTop == IF HasHigh THEN LOW_BYTES * BITS ELSE Top

pmm_allocate(c, n) ==
    /\ Enter(c, "scan", n, 0, IF HasHigh THEN LowTop ELSE 0, HasHigh, Top)
    /\ UNCHANGED owns

\* pmm_find_free32 only looks below 4 GiB.
pmm_allocate32(c, n) ==
    /\ Enter(c, "scan", n, 0, 0, FALSE, LowTop)
    /\ UNCHANGED owns

Scanning(c) == ~panicked /\ pc[c] = "scan" /\ pos[c] < limit[c]

\* Variant: a used page does not restart the count.
ScanUsedKeepsCount(c) ==
    /\ Scanning(c)
    /\ bitmap[pos[c]]
    /\ pos' = [pos EXCEPT ![c] = @ + 1]
    /\ UNCHANGED <<bitmap, freePages, usedPages, lock, pc, npages, base, found,
                   high, limit, owns, panicked>>

\* Variant: a used page ends the search one page early.
ScanUsedSkips(c) ==
    /\ Scanning(c)
    /\ bitmap[pos[c]]
    /\ found' = [found EXCEPT ![c] = 0]
    /\ pos' = [pos EXCEPT ![c] = @ + 2]
    /\ UNCHANGED <<bitmap, freePages, usedPages, lock, pc, npages, base, high,
                   limit, owns, panicked>>

\* A page in use ends the current run.
ScanUsed(c) ==
    /\ Scanning(c)
    /\ bitmap[pos[c]]
    /\ found' = [found EXCEPT ![c] = 0]
    /\ pos' = [pos EXCEPT ![c] = @ + 1]
    /\ UNCHANGED <<bitmap, freePages, usedPages, lock, pc, npages, base, high,
                   limit, owns, panicked>>

RunStart(c) == IF found[c] = 0 THEN pos[c] ELSE base[c]

\* A free page starts or extends a run; npages of them end the search.
ScanFree(c) ==
    /\ Scanning(c)
    /\ ~bitmap[pos[c]]
    /\ base' = [base EXCEPT ![c] = RunStart(c)]
    /\ found' = [found EXCEPT ![c] = @ + 1]
    /\ IF found[c] + 1 = npages[c]
       THEN /\ pc' = [pc EXCEPT ![c] = "mark"]
            /\ pos' = [pos EXCEPT ![c] = RunStart(c)]
       ELSE /\ pos' = [pos EXCEPT ![c] = @ + 1]
            /\ UNCHANGED pc
    /\ UNCHANGED <<bitmap, freePages, usedPages, lock, npages, high, limit, owns,
                   panicked>>

\* retry: nothing above 4 GiB, search the whole bitmap from the start.
ScanRetry(c) ==
    /\ ~panicked /\ pc[c] = "scan" /\ pos[c] >= limit[c]
    /\ high[c]
    /\ high' = [high EXCEPT ![c] = FALSE]
    /\ found' = [found EXCEPT ![c] = 0]
    /\ pos' = [pos EXCEPT ![c] = 0]
    /\ UNCHANGED <<bitmap, freePages, usedPages, lock, pc, npages, base, limit,
                   owns, panicked>>

OutOfMemory(c) ==
    /\ ~panicked /\ pc[c] = "scan" /\ pos[c] >= limit[c]
    /\ ~high[c]
    /\ panicked' = TRUE
    /\ UNCHANGED <<bitmap, freePages, usedPages, lock, frame, owns>>

BitmapSetUncounted(p) ==
    /\ usedPages' = usedPages + 1
    /\ bitmap' = [bitmap EXCEPT ![p] = TRUE]
    /\ UNCHANGED freePages

\* pmm_bitmap_set and pmm_bitmap_clear: the counters move whatever the bit was.
pmm_bitmap_set(p) ==
    /\ usedPages' = usedPages + 1
    /\ freePages' = freePages - 1
    /\ bitmap' = [bitmap EXCEPT ![p] = TRUE]

pmm_bitmap_clear(p) ==
    /\ usedPages' = usedPages - 1
    /\ freePages' = freePages + 1
    /\ bitmap' = [bitmap EXCEPT ![p] = FALSE]

InLoop(c, where) ==
    ~panicked /\ pc[c] = where /\ pos[c] < base[c] + npages[c]

LoopDone(c, where) ==
    ~panicked /\ pc[c] = where /\ pos[c] >= base[c] + npages[c]

MarkPage(c) ==
    /\ InLoop(c, "mark")
    /\ pmm_bitmap_set(pos[c])
    /\ pos' = [pos EXCEPT ![c] = @ + 1]
    /\ UNCHANGED <<lock, pc, npages, base, found, high, limit, owns, panicked>>

\* The caller receives the run.
AllocateReturn(c) ==
    /\ LoopDone(c, "mark")
    /\ owns' = [owns EXCEPT ![c] = @ \cup Run(base[c], npages[c])]
    /\ Return(c)
    /\ UNCHANGED <<bitmap, freePages, usedPages, panicked>>

\* A caller gives back pages it owns: a whole allocation, or part of one (the
\* address space code frees page by page what was allocated as a run).
pmm_free(c, b, n) ==
    /\ Run(b, n) \subseteq owns[c]
    /\ Enter(c, "clear", n, b, b, FALSE, 0)
    /\ owns' = [owns EXCEPT ![c] = @ \ Run(b, n)]

ClearPage(c) ==
    /\ InLoop(c, "clear")
    /\ pmm_bitmap_clear(pos[c])
    /\ pos' = [pos EXCEPT ![c] = @ + 1]
    /\ UNCHANGED <<lock, pc, npages, base, found, high, limit, owns, panicked>>

FreeReturn(c) ==
    /\ LoopDone(c, "clear")
    /\ Return(c)
    /\ UNCHANGED <<bitmap, freePages, usedPages, owns, panicked>>

\* The steps of a call in progress.
CallStep(c) ==
    \/ ScanUsed(c) \/ ScanFree(c) \/ ScanRetry(c) \/ OutOfMemory(c)
    \/ MarkPage(c) \/ AllocateReturn(c)
    \/ ClearPage(c) \/ FreeReturn(c)

Next ==
    \E c \in Callers :
        \/ \E n \in 1..MaxPages : pmm_allocate(c, n)
        \/ \E n \in 1..MaxPages : pmm_allocate32(c, n)
        \/ \E b \in Page, n \in 1..MaxPages : pmm_free(c, b, n)
        \/ CallStep(c)

\* The scheduler keeps running a thread that is inside a call.
Spec == Init /\ [][Next]_vars /\ \A c \in Callers : WF_vars(CallStep(c))

-----------------------------------------------------------------------------

\* The pages a call has taken from, or not yet returned to, the free pool.
InFlight(c) ==
    IF pc[c] = "mark" THEN base[c] .. pos[c] - 1
    ELSE IF pc[c] = "clear" THEN pos[c] .. base[c] + npages[c] - 1
    ELSE {}

FreeRun(b, n) == \A p \in Run(b, n) : ~bitmap[p]

\* Where the current pass of a search started.
From(c) == IF high[c] THEN LowTop ELSE 0

\* The loop invariant of pmm_find_free and pmm_find_free32: the last `found`
\* pages are free and preceded by a used one, and no run of the requested length
\* ends before the current page; once the high pages have been searched in vain,
\* there is none there.
ScanInv ==
    \A c \in Callers : pc[c] = "scan" =>
        /\ limit[c] \in {Top, LowTop}
        /\ high[c] => HasHigh /\ limit[c] = Top
        /\ From(c) + found[c] <= pos[c] /\ pos[c] <= limit[c]
        /\ found[c] < npages[c]
        /\ found[c] > 0 => base[c] = pos[c] - found[c]
        /\ \A p \in pos[c] - found[c] .. pos[c] - 1 : ~bitmap[p]
        /\ pos[c] - found[c] > From(c) => bitmap[pos[c] - found[c] - 1]
        /\ \A b \in From(c)..pos[c] :
               b + npages[c] <= pos[c] => ~FreeRun(b, npages[c])
        /\ limit[c] = Top /\ HasHigh /\ ~high[c] =>
               \A b \in LowTop..Top : b + npages[c] <= Top => ~FreeRun(b, npages[c])

\* No page is given to two callers at a time, even though callers interleave
\* inside pmm_allocate (pmm.c:122-131, the spinlock around search and marking).
NoSharedPage ==
    \A c, d \in Callers : c # d => owns[c] \cap owns[d] = {}

\* A managed page has its bit set exactly when some caller has it or a call is
\* moving it: no page leaks and none is free while in use.
BitmapExact ==
    \A p \in Managed :
        bitmap[p] <=> \E c \in Callers : p \in owns[c] \cup InFlight(c)

\* The statistics agree with the bitmap although pmm_bitmap_set and
\* pmm_bitmap_clear never test the bit they change.
CountersExact ==
    /\ freePages = Cardinality({p \in Page : ~bitmap[p]})
    /\ usedPages + freePages = Top

\* Neither reserved memory nor the bitmap's own pages are ever handed out.
ReservedNeverOwned ==
    \A c \in Callers : owns[c] \cap (Page \ Managed) = {}

\* "Out of Memory!" is only raised when no run of the requested length is free
\* in the range the call may use: the single pass that restarts its count at
\* each used page does not overlook one.
PanicOnlyWhenFull ==
    panicked => \A c \in Callers : pc[c] = "scan" =>
        \A b \in 0..limit[c] :
            b + npages[c] <= limit[c] => ~FreeRun(b, npages[c])

\* A run taken by pmm_allocate is the first free run of its length in the range
\* being searched, and lies below 4 GiB only when nothing above fits: the memory
\* pmm_allocate32 depends on is used last.
FirstFit ==
    \A c \in Callers : pc[c] = "mark" /\ pos[c] = base[c] =>
        /\ FreeRun(base[c], npages[c])
        /\ \A b \in From(c)..base[c]-1 : ~FreeRun(b, npages[c])
        /\ limit[c] = Top /\ HasHigh /\ base[c] < LowTop =>
               \A b \in LowTop..Top : b + npages[c] <= Top => ~FreeRun(b, npages[c])

\* The conjuncts that make the properties above inductive: who is inside a call,
\* what a call in the marking or clearing loop is moving, and the bits that never
\* change.
LockInv ==
    \A c \in Callers : pc[c] # "idle" <=> lock = c

MoveInv ==
    \A c \in Callers :
        /\ pc[c] \in {"mark", "clear"} =>
              /\ base[c] <= pos[c] /\ pos[c] <= base[c] + npages[c]
              /\ Run(base[c], npages[c]) \subseteq Managed
        /\ pc[c] = "mark" => \A p \in pos[c] .. base[c] + npages[c] - 1 : ~bitmap[p]
        /\ \A d \in Callers : InFlight(c) \cap owns[d] = {}

ReservedMarked == \A p \in Page \ Managed : bitmap[p]

\* The inductive invariant of the allocator: the properties above together with
\* the facts about calls in progress that every step of pmm.c preserves.
IndInv ==
    /\ TypeOK /\ LockInv /\ MoveInv /\ ReservedMarked /\ ReservedNeverOwned
    /\ NoSharedPage /\ BitmapExact /\ CountersExact
    /\ ScanInv /\ FirstFit /\ PanicOnlyWhenFull

\* A caller that has the allocator's lock gives it back, unless the machine has
\* stopped: no path through the three functions returns with it held.
LockReleased ==
    \A c \in Callers : lock = c ~> (lock # c \/ panicked)
=============================================================================

---------------------------- MODULE KernelProof -----------------------------
(***************************************************************************)
(* Proofs about two services of the kernel whose calls are interrupted half*)
(* way: the page allocator of Pmm and the scheduler of Sched.              *)
(*                                                                         *)
(* Pmm, for every memory map, page size and number of callers that         *)
(* satisfies its assumptions: entering a call, searching for a free run,   *)
(* the loops that mark and clear the bits and the returns preserve the     *)
(* inductive invariant IndInv.                                             *)
(*                                                                         *)
(* Sched, for every finite set of threads: wherever a tick interrupts      *)
(* sched_add_thread, kmalloc, kmfree or sys_exit, the list, its count, the *)
(* position and the two locks agree (SchedInv).                            *)
(***************************************************************************)
EXTENDS Pmm, Sched, FiniteSetTheorems, TLAPS

\* A leaf that names no backend is one for Zenon; SMTT marks those that need more theory.
USE ZenonT(30)

-----------------------------------------------------------------------------
(* The page allocator                                                      *)

\* The search range lies within the pages that have a bit.
LEMMA TopBounds ==
    /\ Top \in Nat /\ LowTop \in Nat
    /\ LowTop <= Top /\ Top <= HighestUsable
    /\ BitmapSize \in Nat
  <1>1. BitmapSize \in Nat /\ BitmapSize * BITS <= HighestUsable
    BY SizesAssumption, MapAssumption, SMTT(30) DEF BitmapSize
  <1>2. LOW_BYTES < BitmapSize => LOW_BYTES * BITS <= BitmapSize * BITS
    BY <1>1, SizesAssumption, SMTT(30)
  <1> QED
    BY <1>1, <1>2, SizesAssumption, MapAssumption, SMTT(30) DEF Top, LowTop, HasHigh

\* The pages are finitely many, so they can be counted.
LEMMA PageFinite == IsFiniteSet(Page)
  BY FS_Interval, MapAssumption, SMTT(30) DEF Page

\* Marking or freeing a page changes the number of free pages by one.
LEMMA CardinalityRemove ==
    ASSUME NEW S, IsFiniteSet(S), NEW x \in S
    PROVE  Cardinality(S \ {x}) = Cardinality(S) - 1
  BY FS_RemoveElement

\* The same for a page that becomes free.
LEMMA CardinalityAdd ==
    ASSUME NEW S, IsFiniteSet(S), NEW x, x \notin S
    PROVE  Cardinality(S \cup {x}) = Cardinality(S) + 1
  BY FS_AddElement

\* Entering pmm_allocate preserves the invariant: the scan starts with an empty
\* run, above 4 GiB when there is memory there.
LEMMA EnterAllocateStep ==
    ASSUME IndInv, NEW c \in Callers, NEW n \in 1..MaxPages, pmm_allocate(c, n)
    PROVE  IndInv'
  <1> USE SizesAssumption, CallersAssumption, TopBounds DEF IndInv, TypeOK
  <1>1. TypeOK'
    BY SMTT(30) DEF pmm_allocate, Enter, AcquireLock, HasHigh
  <1>2. LockInv'
    BY DEF pmm_allocate, Enter, AcquireLock, LockInv
  <1>3. MoveInv'
    BY DEF pmm_allocate, Enter, AcquireLock, MoveInv, InFlight, Run, LockInv
  <1>4. ReservedMarked'
    BY DEF pmm_allocate, Enter, AcquireLock, ReservedMarked, LockInv
  <1>5. ReservedNeverOwned'
    BY DEF pmm_allocate, Enter, AcquireLock, ReservedNeverOwned, LockInv
  <1>6. NoSharedPage'
    BY DEF pmm_allocate, Enter, AcquireLock, NoSharedPage, LockInv
  <1>7. BitmapExact'
    BY DEF pmm_allocate, Enter, AcquireLock, BitmapExact, InFlight, LockInv
  <1>8. CountersExact'
    BY DEF pmm_allocate, Enter, AcquireLock, CountersExact, LockInv
  <1>9. ScanInv'
    BY SMTT(30) DEF pmm_allocate, Enter, AcquireLock, ScanInv, From, FreeRun, Run, LockInv
  <1>10. FirstFit'
    BY DEF pmm_allocate, Enter, AcquireLock, FirstFit, From, FreeRun, Run, LockInv
  <1>11. PanicOnlyWhenFull'
    BY DEF pmm_allocate, Enter, AcquireLock, PanicOnlyWhenFull, FreeRun, Run, LockInv
  <1> QED
    BY <1>1, <1>2, <1>3, <1>4, <1>5, <1>6, <1>7, <1>8, <1>9, <1>10, <1>11 DEF IndInv

\* Entering pmm_allocate32 preserves the invariant.
LEMMA EnterAllocate32Step ==
    ASSUME IndInv, NEW c \in Callers, NEW n \in 1..MaxPages, pmm_allocate32(c, n)
    PROVE  IndInv'
  <1> USE SizesAssumption, CallersAssumption, TopBounds DEF IndInv, TypeOK
  <1>1. TypeOK'
    BY SMTT(30) DEF pmm_allocate32, Enter, AcquireLock, LockInv
  <1>2. LockInv'
    BY DEF pmm_allocate32, Enter, AcquireLock, LockInv
  <1>3. MoveInv'
    BY DEF pmm_allocate32, Enter, AcquireLock, MoveInv, InFlight, Run, LockInv
  <1>4. ReservedMarked'
    BY DEF pmm_allocate32, Enter, AcquireLock, ReservedMarked, LockInv
  <1>5. ReservedNeverOwned'
    BY DEF pmm_allocate32, Enter, AcquireLock, ReservedNeverOwned, LockInv
  <1>6. NoSharedPage'
    BY DEF pmm_allocate32, Enter, AcquireLock, NoSharedPage, LockInv
  <1>7. BitmapExact'
    BY DEF pmm_allocate32, Enter, AcquireLock, BitmapExact, InFlight, LockInv
  <1>8. CountersExact'
    BY DEF pmm_allocate32, Enter, AcquireLock, CountersExact, LockInv
  <1>9. ScanInv'
    BY SMTT(30) DEF pmm_allocate32, Enter, AcquireLock, ScanInv, From, FreeRun, Run, LockInv
  <1>10. FirstFit'
    BY DEF pmm_allocate32, Enter, AcquireLock, FirstFit, From, FreeRun, Run, LockInv
  <1>11. PanicOnlyWhenFull'
    BY DEF pmm_allocate32, Enter, AcquireLock, PanicOnlyWhenFull, FreeRun, Run, LockInv
  <1> QED
    BY <1>1, <1>2, <1>3, <1>4, <1>5, <1>6, <1>7, <1>8, <1>9, <1>10, <1>11 DEF IndInv

\* Entering pmm_free preserves the invariant: the run leaves its owner and is
\* the caller's to clear.
LEMMA EnterFreeStep ==
    ASSUME IndInv, NEW c \in Callers, NEW n \in 1..MaxPages, NEW b \in Page, pmm_free(c, b, n)
    PROVE  IndInv'
  <1> USE SizesAssumption, CallersAssumption, TopBounds DEF IndInv, TypeOK
  <1>1. TypeOK'
    BY SMTT(30) DEF pmm_free, Enter, AcquireLock, Run, Page
  <1>2. LockInv'
    BY DEF pmm_free, Enter, AcquireLock, Run, LockInv
  <1>3. MoveInv'
    <2>1. Run(b, n) \subseteq Managed
      BY DEF pmm_free, ReservedNeverOwned
    <2>2. \A d \in Callers : Run(b, n) \cap owns'[d] = {}
      BY DEF pmm_free, NoSharedPage
    <2>3. \A d \in Callers : pc'[d] = IF d = c THEN "clear" ELSE "idle"
      BY DEF pmm_free, Enter, AcquireLock, LockInv
    <2>4. base'[c] = b /\ pos'[c] = b /\ npages'[c] = n /\ b \in Nat /\ n \in Nat
      BY SMTT(30) DEF pmm_free, Enter, Page
    <2> QED
      BY <2>1, <2>2, <2>3, <2>4, SMTT(30) DEF MoveInv, InFlight, Run
  <1>4. ReservedMarked'
    BY DEF pmm_free, Enter, AcquireLock, Run, ReservedMarked, LockInv
  <1>5. ReservedNeverOwned'
    BY DEF pmm_free, Enter, AcquireLock, Run, ReservedNeverOwned, LockInv
  <1>6. NoSharedPage'
    BY DEF pmm_free, Enter, AcquireLock, Run, NoSharedPage, LockInv
  <1>7. BitmapExact'
    BY DEF pmm_free, Enter, AcquireLock, Run, BitmapExact, InFlight, LockInv
  <1>8. CountersExact'
    BY DEF pmm_free, Enter, AcquireLock, Run, CountersExact, LockInv
  <1>9. ScanInv'
    BY SMTT(30) DEF pmm_free, Enter, AcquireLock, Run, ScanInv, From, FreeRun, LockInv
  <1>10. FirstFit'
    BY DEF pmm_free, Enter, AcquireLock, Run, FirstFit, From, FreeRun, LockInv
  <1>11. PanicOnlyWhenFull'
    BY DEF pmm_free, Enter, AcquireLock, Run, PanicOnlyWhenFull, FreeRun, LockInv
  <1> QED
    BY <1>1, <1>2, <1>3, <1>4, <1>5, <1>6, <1>7, <1>8, <1>9, <1>10, <1>11 DEF IndInv

\* Passing a used page preserves the invariant: every run that contains it is
\* ruled out.
LEMMA ScanUsedStep ==
    ASSUME IndInv, NEW c \in Callers, ScanUsed(c)
    PROVE  IndInv'
  <1> USE SizesAssumption, CallersAssumption, TopBounds DEF IndInv, TypeOK
  <1>1. TypeOK'
    BY SMTT(30) DEF ScanUsed, Scanning, LockInv
  <1>2. LockInv'
    BY DEF ScanUsed, Scanning, LockInv
  <1>3. MoveInv'
    BY DEF ScanUsed, Scanning, MoveInv, InFlight, Run, LockInv
  <1>4. ReservedMarked'
    BY DEF ScanUsed, Scanning, ReservedMarked, LockInv
  <1>5. ReservedNeverOwned'
    BY DEF ScanUsed, Scanning, ReservedNeverOwned, LockInv
  <1>6. NoSharedPage'
    BY DEF ScanUsed, Scanning, NoSharedPage, LockInv
  <1>7. BitmapExact'
    BY DEF ScanUsed, Scanning, BitmapExact, InFlight, LockInv
  <1>8. CountersExact'
    BY DEF ScanUsed, Scanning, CountersExact, LockInv
  <1>9. ScanInv'
    BY SMTT(30) DEF ScanUsed, Scanning, ScanInv, From, FreeRun, Run, LockInv
  <1>10. FirstFit'
    BY DEF ScanUsed, Scanning, FirstFit, From, FreeRun, Run, LockInv
  <1>11. PanicOnlyWhenFull'
    BY DEF ScanUsed, Scanning, PanicOnlyWhenFull, FreeRun, Run, LockInv
  <1> QED
    BY <1>1, <1>2, <1>3, <1>4, <1>5, <1>6, <1>7, <1>8, <1>9, <1>10, <1>11 DEF IndInv

\* Passing a free page preserves the invariant; when it completes the run, the
\* run is the first that fits.
LEMMA ScanFreeStep ==
    ASSUME IndInv, NEW c \in Callers, ScanFree(c)
    PROVE  IndInv'
  <1> USE SizesAssumption, CallersAssumption, TopBounds DEF IndInv, TypeOK
  <1>0. /\ pos[c] \in Nat /\ found[c] \in Nat /\ npages[c] \in Nat /\ limit[c] \in Nat
        /\ base[c] \in Nat /\ From(c) \in Nat
        /\ From(c) <= pos[c] - found[c] /\ pos[c] < limit[c] /\ limit[c] <= Top
        /\ RunStart(c) = pos[c] - found[c]
        /\ \A p \in pos[c] - found[c] .. pos[c] : p \in Managed /\ ~bitmap[p]
    <2>1. /\ pos[c] \in Nat /\ found[c] \in Nat /\ npages[c] \in Nat /\ limit[c] \in Nat
          /\ base[c] \in Nat /\ From(c) \in Nat
      BY DEF From
    <2>2. /\ From(c) <= pos[c] - found[c] /\ pos[c] < limit[c] /\ limit[c] <= Top
          /\ RunStart(c) = pos[c] - found[c]
      BY <2>1, SMTT(30) DEF ScanFree, Scanning, ScanInv, RunStart
    <2>3. \A p \in pos[c] - found[c] .. pos[c] - 1 : ~bitmap[p]
      BY DEF ScanFree, Scanning, ScanInv
    <2>4. \A p \in pos[c] - found[c] .. pos[c] : p \in Page /\ ~bitmap[p]
      BY <2>1, <2>2, <2>3, MapAssumption, SMTT(30) DEF ScanFree, Scanning, Page
    <2> QED
      BY <2>1, <2>2, <2>4 DEF ReservedMarked
  <1>1. TypeOK'
    BY SMTT(30) DEF ScanFree, Scanning, RunStart, LockInv
  <1>2. LockInv'
    BY DEF ScanFree, Scanning, RunStart, LockInv
  <1>3. MoveInv'
    <2>1. pc'[c] = "mark" => InFlight(c)' = {}
      BY <1>0, SMTT(30) DEF ScanFree, Scanning, InFlight
    <2>2. \A d \in Callers \ {c} : pc'[d] = "idle"
      BY <1>0, <1>2 DEF ScanFree, Scanning, LockInv
    <2>3. pc'[c] \in {"scan", "mark"}
      BY DEF ScanFree, Scanning
    <2> SUFFICES ASSUME pc'[c] = "mark"
                 PROVE  MoveInv!(c)'
      BY <2>2, <2>3 DEF MoveInv, InFlight
    <2>4. found[c] + 1 = npages[c] /\ npages'[c] = npages[c] /\ bitmap' = bitmap
      BY DEF ScanFree, Scanning
    <2>5. base'[c] = pos[c] - found[c] /\ pos'[c] = pos[c] - found[c]
      BY <1>0, <2>4 DEF ScanFree, Scanning
    <2>6. base'[c] + npages'[c] - 1 = pos[c]
      BY <1>0, <2>4, <2>5, SMTT(30)
    <2> QED
      BY <1>0, <2>1, <2>4, <2>5, <2>6, SMTT(30) DEF Run
  <1>4. ReservedMarked'
    BY DEF ScanFree, Scanning, RunStart, ReservedMarked, LockInv
  <1>5. ReservedNeverOwned'
    BY DEF ScanFree, Scanning, RunStart, ReservedNeverOwned, LockInv
  <1>6. NoSharedPage'
    BY DEF ScanFree, Scanning, RunStart, NoSharedPage, LockInv
  <1>7. BitmapExact'
    BY SMTT(30) DEF ScanFree, Scanning, RunStart, BitmapExact, InFlight, LockInv
  <1>8. CountersExact'
    BY DEF ScanFree, Scanning, RunStart, CountersExact, LockInv
  <1>9. ScanInv'
    <2>1. \A d \in Callers : pc'[d] = "scan" => d = c
      BY SMTT(30) DEF ScanFree, Scanning, LockInv
    <2> SUFFICES ASSUME pc'[c] = "scan"
                 PROVE  ScanInv!(c)!2'
      BY <2>1, SMTT(30) DEF ScanInv
    <2>2. /\ found[c] + 1 # npages[c] /\ found'[c] = found[c] + 1
          /\ pos'[c] = pos[c] + 1 /\ base'[c] = pos[c] - found[c]
          /\ UNCHANGED <<bitmap, npages, high, limit>>
      BY <1>0 DEF ScanFree, Scanning
    <2>3. From(c)' = From(c)
      BY <2>2 DEF From
    <2>4. \A s \in From(c)..pos[c]+1 : s + npages[c] <= pos[c] + 1 => ~FreeRun(s, npages[c])
      <3> SUFFICES ASSUME NEW s \in From(c)..pos[c]+1, s + npages[c] = pos[c] + 1
                   PROVE  ~FreeRun(s, npages[c])
        BY SMTT(30) DEF ScanInv, ScanFree, Scanning
      <3>1. s <= pos[c] - found[c] - 1 /\ pos[c] - found[c] - 1 \in s .. s + npages[c] - 1
        BY <2>2, <1>0, SMTT(30) DEF ScanInv, ScanFree, Scanning
      <3> QED
        BY <3>1, <1>0, SMTT(30) DEF FreeRun, Run, ScanInv, ScanFree, Scanning
    <2>5. pos[c] < limit[c] /\ ~bitmap[pos[c]] /\ pc[c] = "scan"
      BY DEF ScanFree, Scanning
    <2>6. limit'[c] \in {Top, LowTop} /\ (high'[c] => HasHigh /\ limit'[c] = Top)
      BY <2>2, <2>5 DEF ScanInv
    <2>7. /\ From(c)' + found'[c] <= pos'[c] /\ pos'[c] <= limit'[c]
          /\ found'[c] < npages'[c] /\ found'[c] > 0 /\ base'[c] = pos'[c] - found'[c]
      <3>1. found[c] < npages[c]
        BY <2>5 DEF ScanInv
      <3>2. From(c) + (found[c] + 1) <= pos[c] + 1 /\ pos[c] + 1 <= limit[c]
        BY <1>0, SMTT(30)
      <3> HIDE DEF IndInv, TypeOK
      <3>3. found[c] + 1 < npages[c] /\ found[c] + 1 > 0
        BY <1>0, <2>2, <3>1, SMTT(30)
      <3>4. pos[c] - found[c] = (pos[c] + 1) - (found[c] + 1)
        BY <1>0, SMTT(30)
      <3>5. limit'[c] = limit[c] /\ npages'[c] = npages[c]
        BY <2>2
      <3> QED
        BY <2>2, <2>3, <3>2, <3>3, <3>4, <3>5
    <2>8. \A p \in pos'[c] - found'[c] .. pos'[c] - 1 : ~bitmap'[p]
      BY <1>0, <2>2, SMTT(30)
    <2>9. pos'[c] - found'[c] > From(c)' => bitmap'[pos'[c] - found'[c] - 1]
      <3>1. pos'[c] - found'[c] = pos[c] - found[c]
        BY <1>0, <2>2, SMTT(30)
      <3> QED
        BY <2>2, <2>3, <2>5, <3>1 DEF ScanInv
    <2>10. \A s \in From(c)'..pos'[c] : s + npages'[c] <= pos'[c] => ~FreeRun(s, npages[c])'
      BY <2>2, <2>3, <2>4 DEF FreeRun
    <2>11. limit'[c] = Top /\ HasHigh /\ ~high'[c] =>
              \A s \in LowTop..Top : s + npages'[c] <= Top => ~FreeRun(s, npages[c])'
      BY <2>2, <2>5 DEF ScanInv, FreeRun
    <2> QED
      BY <2>6, <2>7, <2>8, <2>9, <2>10, <2>11
  <1>10. FirstFit'
    <2>1. \A d \in Callers : pc'[d] = "mark" => d = c
      BY DEF ScanFree, Scanning, LockInv
    <2> SUFFICES ASSUME pc'[c] = "mark"
                 PROVE  FirstFit!(c)!2'
      BY <2>1 DEF FirstFit
    <2>2. /\ found[c] + 1 = npages[c] /\ base'[c] = pos[c] - found[c]
          /\ UNCHANGED <<bitmap, npages, high, limit>>
      BY <1>0 DEF ScanFree, Scanning
    <2>3. From(c)' = From(c)
      BY <2>2 DEF From
    <2>4. FreeRun(base'[c], npages[c])
      BY <2>2, <1>0, SMTT(30) DEF FreeRun, Run
    <2>5. \A s \in From(c)..base'[c]-1 : ~FreeRun(s, npages[c])
      <3> SUFFICES ASSUME NEW s \in From(c)..base'[c]-1
                   PROVE  ~FreeRun(s, npages[c])
        OBVIOUS
      <3>1. CASE s + npages[c] <= pos[c]
        BY <3>1, <2>2, <1>0, SMTT(30) DEF ScanInv, ScanFree, Scanning
      <3>2. CASE s + npages[c] > pos[c]
        <4>1. base'[c] - 1 \in s .. s + npages[c] - 1 /\ bitmap[base'[c] - 1]
          BY <3>2, <2>2, <1>0, SMTT(30) DEF ScanInv, ScanFree, Scanning
        <4> QED
          BY <4>1 DEF FreeRun, Run
      <3> QED
        BY <3>1, <3>2, <2>2, <1>0, SMTT(30)
    <2>6. limit[c] = Top /\ HasHigh /\ base'[c] < LowTop =>
             \A s \in LowTop..Top : s + npages[c] <= Top => ~FreeRun(s, npages[c])
      BY <2>2, <1>0, SMTT(30) DEF ScanInv, ScanFree, Scanning, From
    <2> QED
      BY <2>2, <2>3, <2>4, <2>5, <2>6 DEF FreeRun
  <1>11. PanicOnlyWhenFull'
    BY DEF ScanFree, Scanning, RunStart, PanicOnlyWhenFull, FreeRun, Run, LockInv
  <1> QED
    BY <1>1, <1>2, <1>3, <1>4, <1>5, <1>6, <1>7, <1>8, <1>9, <1>10, <1>11 DEF IndInv

\* Restarting the search from page 0 preserves the invariant: the failed first
\* pass leaves the fact that nothing above 4 GiB fits.
LEMMA ScanRetryStep ==
    ASSUME IndInv, NEW c \in Callers, ScanRetry(c)
    PROVE  IndInv'
  <1> USE SizesAssumption, CallersAssumption, TopBounds DEF IndInv, TypeOK
  <1>1. TypeOK'
    BY DEF ScanRetry, LockInv
  <1>2. LockInv'
    BY DEF ScanRetry, LockInv
  <1>3. MoveInv'
    BY DEF ScanRetry, MoveInv, InFlight, Run, LockInv
  <1>4. ReservedMarked'
    BY DEF ScanRetry, ReservedMarked, LockInv
  <1>5. ReservedNeverOwned'
    BY DEF ScanRetry, ReservedNeverOwned, LockInv
  <1>6. NoSharedPage'
    BY DEF ScanRetry, NoSharedPage, LockInv
  <1>7. BitmapExact'
    BY DEF ScanRetry, BitmapExact, InFlight, LockInv
  <1>8. CountersExact'
    BY DEF ScanRetry, CountersExact, LockInv
  <1>9. ScanInv'
    BY SMTT(30) DEF ScanRetry, ScanInv, From, FreeRun, Run, LockInv
  <1>10. FirstFit'
    BY DEF ScanRetry, FirstFit, From, FreeRun, Run, LockInv
  <1>11. PanicOnlyWhenFull'
    BY DEF ScanRetry, PanicOnlyWhenFull, FreeRun, Run, LockInv
  <1> QED
    BY <1>1, <1>2, <1>3, <1>4, <1>5, <1>6, <1>7, <1>8, <1>9, <1>10, <1>11 DEF IndInv

\* The panic preserves the invariant: the pass is complete and found nothing.
LEMMA OutOfMemoryStep ==
    ASSUME IndInv, NEW c \in Callers, OutOfMemory(c)
    PROVE  IndInv'
  <1> USE SizesAssumption, CallersAssumption, TopBounds DEF IndInv, TypeOK
  <1>1. TypeOK'
    BY DEF OutOfMemory, frame, LockInv
  <1>2. LockInv'
    BY DEF OutOfMemory, frame, LockInv
  <1>3. MoveInv'
    BY DEF OutOfMemory, frame, MoveInv, InFlight, Run, LockInv
  <1>4. ReservedMarked'
    BY DEF OutOfMemory, frame, ReservedMarked, LockInv
  <1>5. ReservedNeverOwned'
    BY DEF OutOfMemory, frame, ReservedNeverOwned, LockInv
  <1>6. NoSharedPage'
    BY DEF OutOfMemory, frame, NoSharedPage, LockInv
  <1>7. BitmapExact'
    BY DEF OutOfMemory, frame, BitmapExact, InFlight, LockInv
  <1>8. CountersExact'
    BY DEF OutOfMemory, frame, CountersExact, LockInv
  <1>9. ScanInv'
    BY DEF OutOfMemory, frame, ScanInv, From, FreeRun, Run, LockInv
  <1>10. FirstFit'
    BY DEF OutOfMemory, frame, FirstFit, From, FreeRun, Run, LockInv
  <1>11. PanicOnlyWhenFull'
    BY SMTT(30) DEF OutOfMemory, frame, PanicOnlyWhenFull, ScanInv, From, FreeRun, Run, LockInv
  <1> QED
    BY <1>1, <1>2, <1>3, <1>4, <1>5, <1>6, <1>7, <1>8, <1>9, <1>10, <1>11 DEF IndInv

-----------------------------------------------------------------------------
(* The loops over the bits, and the returns *)

\* Marking a page of the run found preserves the invariant; the page was free, so
\* the counters stay exact.
LEMMA MarkPageStep ==
    ASSUME IndInv, NEW c \in Callers, MarkPage(c)
    PROVE  IndInv'
  <1> USE SizesAssumption, CallersAssumption, TopBounds DEF IndInv, TypeOK
  <1>0. /\ pos[c] \in Nat /\ base[c] \in Nat /\ npages[c] \in Nat
        /\ base[c] <= pos[c] /\ pos[c] < base[c] + npages[c]
        /\ pos[c] \in Managed /\ pos[c] \in Page /\ ~bitmap[pos[c]]
        /\ \A d \in Callers : pos[c] \notin owns[d]
        /\ \A d \in Callers \ {c} : pc[d] = "idle"
    <2>1. /\ pos[c] \in Nat /\ base[c] \in Nat /\ npages[c] \in Nat
          /\ base[c] <= pos[c] /\ pos[c] < base[c] + npages[c]
      BY DEF MarkPage, InLoop, MoveInv
    <2>2. pos[c] \in Managed /\ pos[c] \in Page
      BY <2>1, MapAssumption, SMTT(30) DEF MarkPage, InLoop, MoveInv, Run, Managed
    <2>3. ~bitmap[pos[c]]
      BY <2>1, <2>2, SMTT(30) DEF MarkPage, InLoop, MoveInv
    <2>4. \A d \in Callers : pos[c] \notin owns[d]
      BY <2>1, <2>2, <2>3 DEF BitmapExact, MarkPage
    <2>5. \A d \in Callers \ {c} : pc[d] = "idle"
      BY DEF MarkPage, InLoop, LockInv
    <2> QED
      BY <2>1, <2>2, <2>3, <2>4, <2>5
  <1>8. CountersExact'
    <2> DEFINE F == {p \in Page : ~bitmap[p]}
    <2>1. IsFiniteSet(F)
      BY PageFinite, FS_Subset
    <2>2. {p \in Page : ~bitmap'[p]} = F \ {pos[c]}
      BY <1>0 DEF MarkPage, pmm_bitmap_set
    <2>3. pos[c] \in F
      BY <1>0
    <2>4. freePages = Cardinality(F) /\ usedPages + freePages = Top
      BY DEF CountersExact
    <2> HIDE DEF F
    <2>5. Cardinality(F \ {pos[c]}) = Cardinality(F) - 1
      BY <2>1, <2>3, CardinalityRemove
    <2>6. Cardinality(F) \in Nat
      BY <2>1, FS_CardinalityType
    <2>7. freePages' = freePages - 1 /\ usedPages' = usedPages + 1
      BY DEF MarkPage, pmm_bitmap_set
    <2>8. freePages' = Cardinality(F \ {pos[c]}) /\ usedPages' + freePages' = Top
      BY <2>4, <2>5, <2>6, <2>7, SMTT(30)
    <2> QED
      BY <2>2, <2>8 DEF CountersExact
  <1>1. TypeOK'
    <2>1. freePages' \in Nat
      BY <1>8, PageFinite, FS_Subset, FS_CardinalityType DEF CountersExact
    <2> QED
      BY <2>1, <1>0, SMTT(30) DEF MarkPage, pmm_bitmap_set
  <1>2. LockInv'
    BY DEF MarkPage, InLoop, pmm_bitmap_set, LockInv
  <1>3. MoveInv'
    <2>1. /\ pos' = [pos EXCEPT ![c] = pos[c] + 1] /\ UNCHANGED <<pc, base, npages, owns>>
          /\ \A p \in Page : p # pos[c] => bitmap'[p] = bitmap[p]
      BY DEF MarkPage, pmm_bitmap_set
    <2>2. \A d \in Callers : InFlight(c)' \cap owns'[d] = {}
      <3>1. InFlight(c)' = InFlight(c) \cup {pos[c]}
        BY <1>0, <2>1, SMTT(30) DEF MarkPage, InLoop, InFlight
      <3> QED
        BY <1>0, <2>1, <3>1, SMTT(30) DEF MoveInv
    <2>3. \A d \in Callers \ {c} : InFlight(d)' = {} /\ pc'[d] = "idle"
      BY <1>0, <2>1 DEF InFlight
    <2>4. Run(base[c], npages[c]) \subseteq Managed
      BY DEF MarkPage, InLoop, MoveInv
    <2>5. pc[c] = "mark" =>
             \A p \in pos[c] + 1 .. base[c] + npages[c] - 1 : p \in Page /\ ~bitmap[p]
      BY <1>0, <2>4, MapAssumption, SMTT(30) DEF MoveInv, Managed, Run
    <2>6. pos'[c] = pos[c] + 1
      BY <2>1
    <2> QED
      BY <1>0, <2>1, <2>2, <2>3, <2>4, <2>5, <2>6, SMTT(30) DEF MoveInv, MarkPage, InLoop
  <1>4. ReservedMarked'
    BY DEF MarkPage, InLoop, pmm_bitmap_set, ReservedMarked, LockInv
  <1>5. ReservedNeverOwned'
    BY DEF MarkPage, InLoop, pmm_bitmap_set, ReservedNeverOwned, LockInv
  <1>6. NoSharedPage'
    BY DEF MarkPage, InLoop, pmm_bitmap_set, NoSharedPage, LockInv
  <1>7. BitmapExact'
    <2>1. /\ pos'[c] = pos[c] + 1 /\ UNCHANGED <<pc, base, npages, owns>>
          /\ bitmap'[pos[c]] /\ \A p \in Page \ {pos[c]} : bitmap'[p] = bitmap[p]
      BY <1>0 DEF MarkPage, pmm_bitmap_set
    <2>a. \A d \in Callers \ {c} : pc[d] = "idle" /\ pc'[d] = "idle"
      BY <1>0, <2>1
    <2>2. \A d \in Callers \ {c} : InFlight(d)' = {} /\ InFlight(d) = {}
      BY <2>a DEF InFlight
    <2>3. InFlight(c)' = InFlight(c) \cup {pos[c]}
      BY <1>0, <2>1, SMTT(30) DEF MarkPage, InLoop, InFlight
    <2> SUFFICES ASSUME NEW p \in Managed
                 PROVE  bitmap'[p] <=> \E d \in Callers : p \in owns'[d] \cup InFlight(d)'
      BY DEF BitmapExact
    <2>4. p \in Page
      BY MapAssumption DEF Managed
    <2>5. bitmap[p] <=> \E d \in Callers : p \in owns[d] \cup InFlight(d)
      BY DEF BitmapExact
    <2>6. CASE p = pos[c]
      BY <1>0, <2>1, <2>2, <2>3, <2>6
    <2>7. CASE p # pos[c]
      BY <2>1, <2>2, <2>3, <2>4, <2>5, <2>7, SMTT(30)
    <2> QED
      BY <2>6, <2>7
  <1>s. \A d \in Callers : pc'[d] \in {"mark", "idle"}
    BY DEF MarkPage, InLoop, LockInv
  <1>9. ScanInv'
    BY <1>s DEF ScanInv
  <1>10. FirstFit'
    BY <1>0, SMTT(30) DEF MarkPage, InLoop, pmm_bitmap_set, FirstFit, LockInv
  <1>11. PanicOnlyWhenFull'
    BY <1>s DEF PanicOnlyWhenFull
  <1> QED
    BY <1>1, <1>2, <1>3, <1>4, <1>5, <1>6, <1>7, <1>8, <1>9, <1>10, <1>11 DEF IndInv

\* Returning the run to the caller preserves the invariant.
LEMMA AllocateReturnStep ==
    ASSUME IndInv, NEW c \in Callers, AllocateReturn(c)
    PROVE  IndInv'
  <1> USE SizesAssumption, CallersAssumption, TopBounds DEF IndInv, TypeOK
  <1>0. /\ Run(base[c], npages[c]) \subseteq Managed
        /\ InFlight(c) = Run(base[c], npages[c])
        /\ \A d \in Callers \ {c} : pc[d] = "idle"
    BY SMTT(30) DEF AllocateReturn, LoopDone, MoveInv, InFlight, Run, LockInv
  <1>a. /\ owns' = [owns EXCEPT ![c] = owns[c] \cup Run(base[c], npages[c])]
        /\ bitmap' = bitmap /\ \A d \in Callers : pc'[d] = "idle"
    BY <1>0 DEF AllocateReturn, Return
  <1>b. Managed \subseteq Page
    BY MapAssumption DEF Managed
  <1>1. TypeOK'
    BY <1>0, <1>a, <1>b DEF AllocateReturn, Return
  <1>2. LockInv'
    BY DEF AllocateReturn, LoopDone, Return, Run, LockInv
  <1>3. MoveInv'
    BY <1>a DEF MoveInv, InFlight
  <1>4. ReservedMarked'
    BY DEF AllocateReturn, LoopDone, Return, Run, ReservedMarked, LockInv
  <1>5. ReservedNeverOwned'
    BY <1>0, <1>a DEF ReservedNeverOwned
  <1>6. NoSharedPage'
    BY <1>0, <1>a, SMTT(30) DEF NoSharedPage, MoveInv
  <1>7. BitmapExact'
    <2>1. \A d \in Callers : InFlight(d)' = {}
      BY <1>a DEF InFlight
    <2>2. \A d \in Callers \ {c} : InFlight(d) = {} /\ owns'[d] = owns[d]
      BY <1>0, <1>a DEF InFlight
    <2>3. owns'[c] = owns[c] \cup InFlight(c)
      BY <1>0, <1>a
    <2> QED
      BY <1>a, <2>1, <2>2, <2>3 DEF BitmapExact
  <1>8. CountersExact'
    BY DEF AllocateReturn, LoopDone, Return, Run, CountersExact, LockInv
  <1>9. ScanInv'
    BY <1>a DEF ScanInv
  <1>10. FirstFit'
    BY <1>a DEF FirstFit
  <1>11. PanicOnlyWhenFull'
    BY <1>a DEF PanicOnlyWhenFull
  <1> QED
    BY <1>1, <1>2, <1>3, <1>4, <1>5, <1>6, <1>7, <1>8, <1>9, <1>10, <1>11 DEF IndInv

\* Clearing a page of the run being freed preserves the invariant; the page was
\* in use, so the counters stay exact.
LEMMA ClearPageStep ==
    ASSUME IndInv, NEW c \in Callers, ClearPage(c)
    PROVE  IndInv'
  <1> USE SizesAssumption, CallersAssumption, TopBounds DEF IndInv, TypeOK
  <1>0. /\ pos[c] \in Nat /\ base[c] \in Nat /\ npages[c] \in Nat
        /\ base[c] <= pos[c] /\ pos[c] < base[c] + npages[c]
        /\ pos[c] \in Managed /\ pos[c] \in Page /\ bitmap[pos[c]]
        /\ \A d \in Callers : pos[c] \notin owns[d]
        /\ \A d \in Callers \ {c} : pc[d] = "idle"
    <2>1. /\ pos[c] \in Nat /\ base[c] \in Nat /\ npages[c] \in Nat
          /\ base[c] <= pos[c] /\ pos[c] < base[c] + npages[c]
      BY DEF ClearPage, InLoop, MoveInv
    <2>2. pos[c] \in Managed /\ pos[c] \in Page
      BY <2>1, MapAssumption, SMTT(30) DEF ClearPage, InLoop, MoveInv, Run, Managed
    <2>a. pos[c] \in InFlight(c)
      BY <2>1, SMTT(30) DEF ClearPage, InLoop, InFlight
    <2>3. bitmap[pos[c]]
      BY <2>2, <2>a DEF BitmapExact
    <2>4. \A d \in Callers : pos[c] \notin owns[d]
      BY <2>a DEF MoveInv
    <2>5. \A d \in Callers \ {c} : pc[d] = "idle"
      BY DEF ClearPage, InLoop, LockInv
    <2> QED
      BY <2>1, <2>2, <2>3, <2>4, <2>5
  <1>8. CountersExact'
    <2> DEFINE F == {p \in Page : ~bitmap[p]}
    <2>1. IsFiniteSet(F)
      BY PageFinite, FS_Subset
    <2>2. {p \in Page : ~bitmap'[p]} = F \cup {pos[c]}
      BY <1>0, SMTT(30) DEF ClearPage, pmm_bitmap_clear
    <2>3. pos[c] \notin F
      BY <1>0
    <2>4. freePages = Cardinality(F) /\ usedPages + freePages = Top
      BY DEF CountersExact
    <2> HIDE DEF F
    <2>5. Cardinality(F \cup {pos[c]}) = Cardinality(F) + 1
      BY <2>1, <2>3, CardinalityAdd
    <2>6. Cardinality(F) \in Nat
      BY <2>1, FS_CardinalityType
    <2>7. freePages' = freePages + 1 /\ usedPages' = usedPages - 1
      BY DEF ClearPage, pmm_bitmap_clear
    <2>8. freePages' = Cardinality(F \cup {pos[c]}) /\ usedPages' + freePages' = Top
      BY <2>4, <2>5, <2>6, <2>7, SMTT(30)
    <2> QED
      BY <2>2, <2>8 DEF CountersExact
  <1>1. TypeOK'
    <2>1. freePages' \in Nat
      BY <1>8, PageFinite, FS_Subset, FS_CardinalityType DEF CountersExact
    <2> QED
      BY <2>1, <1>0, SMTT(30) DEF ClearPage, pmm_bitmap_clear
  <1>2. LockInv'
    BY DEF ClearPage, InLoop, pmm_bitmap_clear, LockInv
  <1>3. MoveInv'
    <2>1. /\ pos' = [pos EXCEPT ![c] = pos[c] + 1] /\ UNCHANGED <<pc, base, npages, owns>>
          /\ \A p \in Page : p # pos[c] => bitmap'[p] = bitmap[p]
      BY DEF ClearPage, pmm_bitmap_clear
    <2>2. \A d \in Callers : InFlight(c)' \cap owns'[d] = {}
      BY <1>0, <2>1, SMTT(30) DEF ClearPage, InLoop, MoveInv, InFlight
    <2>3. \A d \in Callers \ {c} : InFlight(d)' = {} /\ pc'[d] = "idle"
      BY <1>0, <2>1 DEF InFlight
    <2>4. Run(base[c], npages[c]) \subseteq Managed
      BY DEF ClearPage, InLoop, MoveInv
    <2>5. pc[c] = "mark" =>
             \A p \in pos[c] + 1 .. base[c] + npages[c] - 1 : p \in Page /\ ~bitmap[p]
      BY <1>0, <2>4, MapAssumption, SMTT(30) DEF MoveInv, Managed, Run
    <2>6. pos'[c] = pos[c] + 1
      BY <2>1
    <2> QED
      BY <1>0, <2>1, <2>2, <2>3, <2>4, <2>5, <2>6, SMTT(30) DEF MoveInv, ClearPage, InLoop
  <1>4. ReservedMarked'
    BY <1>0 DEF ClearPage, pmm_bitmap_clear, ReservedMarked
  <1>5. ReservedNeverOwned'
    BY DEF ClearPage, InLoop, pmm_bitmap_clear, ReservedNeverOwned, LockInv
  <1>6. NoSharedPage'
    BY DEF ClearPage, InLoop, pmm_bitmap_clear, NoSharedPage, LockInv
  <1>7. BitmapExact'
    <2>1. /\ pos'[c] = pos[c] + 1 /\ UNCHANGED <<pc, base, npages, owns>>
          /\ ~bitmap'[pos[c]] /\ \A p \in Page \ {pos[c]} : bitmap'[p] = bitmap[p]
      BY <1>0 DEF ClearPage, pmm_bitmap_clear
    <2>a. \A d \in Callers \ {c} : pc[d] = "idle" /\ pc'[d] = "idle"
      BY <1>0, <2>1
    <2>2. \A d \in Callers \ {c} : InFlight(d)' = {} /\ InFlight(d) = {}
      BY <2>a DEF InFlight
    <2>3. InFlight(c)' = InFlight(c) \ {pos[c]}
      BY <1>0, <2>1, SMTT(30) DEF ClearPage, InLoop, InFlight
    <2> SUFFICES ASSUME NEW p \in Managed
                 PROVE  bitmap'[p] <=> \E d \in Callers : p \in owns'[d] \cup InFlight(d)'
      BY DEF BitmapExact
    <2>4. p \in Page
      BY MapAssumption DEF Managed
    <2>5. bitmap[p] <=> \E d \in Callers : p \in owns[d] \cup InFlight(d)
      BY DEF BitmapExact
    <2>6. CASE p = pos[c]
      BY <1>0, <2>1, <2>2, <2>3, <2>6, SMTT(30)
    <2>7. CASE p # pos[c]
      BY <2>1, <2>2, <2>3, <2>4, <2>5, <2>7
    <2> QED
      BY <2>6, <2>7
  <1>s. \A d \in Callers : pc'[d] \in {"clear", "idle"}
    BY DEF ClearPage, InLoop, LockInv
  <1>9. ScanInv'
    BY <1>s DEF ScanInv
  <1>10. FirstFit'
    BY <1>s DEF FirstFit
  <1>11. PanicOnlyWhenFull'
    BY <1>s DEF PanicOnlyWhenFull
  <1> QED
    BY <1>1, <1>2, <1>3, <1>4, <1>5, <1>6, <1>7, <1>8, <1>9, <1>10, <1>11 DEF IndInv

\* Returning from pmm_free preserves the invariant.
LEMMA FreeReturnStep ==
    ASSUME IndInv, NEW c \in Callers, FreeReturn(c)
    PROVE  IndInv'
  <1> USE SizesAssumption, CallersAssumption, TopBounds DEF IndInv, TypeOK
  <1>0. pc[c] = "clear" /\ InFlight(c) = {} /\ \A d \in Callers \ {c} : pc[d] = "idle"
    BY SMTT(30) DEF FreeReturn, LoopDone, MoveInv, InFlight, LockInv
  <1>a. bitmap' = bitmap /\ owns' = owns /\ \A d \in Callers : pc'[d] = "idle"
    BY <1>0 DEF FreeReturn, Return
  <1>1. TypeOK'
    BY DEF FreeReturn, LoopDone, Return, LockInv
  <1>2. LockInv'
    BY DEF FreeReturn, LoopDone, Return, LockInv
  <1>3. MoveInv'
    BY <1>a DEF MoveInv, InFlight
  <1>4. ReservedMarked'
    BY DEF FreeReturn, LoopDone, Return, ReservedMarked, LockInv
  <1>5. ReservedNeverOwned'
    BY DEF FreeReturn, LoopDone, Return, ReservedNeverOwned, LockInv
  <1>6. NoSharedPage'
    BY DEF FreeReturn, LoopDone, Return, NoSharedPage, LockInv
  <1>7. BitmapExact'
    <2>1. \A d \in Callers : InFlight(d) = {} /\ InFlight(d)' = {}
      BY <1>0, <1>a DEF InFlight
    <2> QED
      BY <1>a, <2>1 DEF BitmapExact
  <1>8. CountersExact'
    BY DEF FreeReturn, LoopDone, Return, CountersExact, LockInv
  <1>9. ScanInv'
    BY <1>a DEF ScanInv
  <1>10. FirstFit'
    BY <1>a DEF FirstFit
  <1>11. PanicOnlyWhenFull'
    BY <1>a DEF PanicOnlyWhenFull
  <1> QED
    BY <1>1, <1>2, <1>3, <1>4, <1>5, <1>6, <1>7, <1>8, <1>9, <1>10, <1>11 DEF IndInv

\* The initial state of pmm_init satisfies the invariant.
LEMMA InitInv ==
    Init => IndInv
  <1> SUFFICES ASSUME Init
               PROVE  IndInv
    OBVIOUS
  <1> USE SizesAssumption, CallersAssumption, TopBounds DEF Init
  <1>1. Managed \subseteq Page
    BY MapAssumption DEF Managed
  <1>2. IsFiniteSet(Managed) /\ Cardinality(Managed) \in Nat
    BY <1>1, PageFinite, FS_Subset, FS_CardinalityType
  <1>3. {p \in Page : ~bitmap[p]} = Managed
    BY <1>1
  <1>4. TypeOK
    <2>1. bitmap \in [Page -> BOOLEAN] /\ owns \in [Callers -> SUBSET Page]
      OBVIOUS
    <2>2. freePages \in Nat /\ usedPages \in Int
      BY <1>2, SMTT(30)
    <2>3. /\ pc \in [Callers -> {"idle", "scan", "mark", "clear"}]
          /\ npages \in [Callers -> Nat] /\ base \in [Callers -> Nat]
          /\ pos \in [Callers -> Nat] /\ found \in [Callers -> Nat]
          /\ high \in [Callers -> BOOLEAN] /\ limit \in [Callers -> Nat]
      OBVIOUS
    <2>4. lock \in Callers \cup {NONE} /\ panicked \in BOOLEAN
      OBVIOUS
    <2> HIDE DEF Init
    <2> QED
      BY <2>1, <2>2, <2>3, <2>4 DEF TypeOK
  <1>5. CountersExact
    <2>1. freePages = Cardinality(Managed) /\ usedPages + freePages = Top
      BY <1>2, SMTT(30)
    <2> QED
      BY <1>3, <2>1 DEF CountersExact
  <1>6. BitmapExact
    BY <1>1 DEF BitmapExact, InFlight
  <1>7. LockInv /\ MoveInv /\ ReservedMarked /\ ReservedNeverOwned /\ NoSharedPage
    BY DEF LockInv, MoveInv, InFlight, ReservedMarked, ReservedNeverOwned, NoSharedPage
  <1>8. ScanInv /\ FirstFit /\ PanicOnlyWhenFull
    BY DEF ScanInv, FirstFit, PanicOnlyWhenFull
  <1> QED
    BY <1>4, <1>5, <1>6, <1>7, <1>8 DEF IndInv

\* The inductive invariant of the allocator holds in every reachable state.
THEOREM PmmInvariant == Spec => []IndInv
  <1>1. IndInv /\ [Next]_vars => IndInv'
    <2> SUFFICES ASSUME IndInv, [Next]_vars
                 PROVE  IndInv'
      OBVIOUS
    <2>1. CASE UNCHANGED vars
      <3> USE <2>1 DEF vars, frame
      <3>1. TypeOK' /\ LockInv' /\ ReservedMarked' /\ ReservedNeverOwned' /\ NoSharedPage'
        BY DEF IndInv, TypeOK, LockInv, ReservedMarked, ReservedNeverOwned, NoSharedPage
      <3>2. MoveInv' /\ BitmapExact'
        BY DEF IndInv, MoveInv, BitmapExact, InFlight
      <3>3. CountersExact'
        BY DEF IndInv, CountersExact
      <3>4. ScanInv'
        BY DEF IndInv, ScanInv, From, FreeRun
      <3>5. FirstFit'
        BY DEF IndInv, FirstFit, From, FreeRun
      <3>6. PanicOnlyWhenFull'
        BY DEF IndInv, PanicOnlyWhenFull, FreeRun
      <3> QED
        BY <3>1, <3>2, <3>3, <3>4, <3>5, <3>6 DEF IndInv
    <2>2. ASSUME NEW c \in Callers, NEW n \in 1..MaxPages, pmm_allocate(c, n)
          PROVE  IndInv'
      BY <2>2, EnterAllocateStep
    <2>3. ASSUME NEW c \in Callers, NEW n \in 1..MaxPages, pmm_allocate32(c, n)
          PROVE  IndInv'
      BY <2>3, EnterAllocate32Step
    <2>4. ASSUME NEW c \in Callers, NEW b \in Page, NEW n \in 1..MaxPages, pmm_free(c, b, n)
          PROVE  IndInv'
      BY <2>4, EnterFreeStep
    <2>5. ASSUME NEW c \in Callers, CallStep(c)
          PROVE  IndInv'
      BY <2>5, ScanUsedStep, ScanFreeStep, ScanRetryStep, OutOfMemoryStep, MarkPageStep,
         AllocateReturnStep, ClearPageStep, FreeReturnStep DEF CallStep
    <2> QED
      BY <2>1, <2>2, <2>3, <2>4, <2>5 DEF Next
  <1> QED
    BY InitInv, <1>1, PTL DEF Spec

\* No physical page is ever given to two callers at a time, however their calls
\* interleave (pmm.c:122-151).
THEOREM PmmNoSharedPage == Spec => []NoSharedPage
  <1>1. IndInv => NoSharedPage
    BY DEF IndInv
  <1> QED
    BY PmmInvariant, <1>1, PTL

\* freePages and usedPages always describe the bitmap exactly, although the bits
\* are set and cleared blindly (pmm.c:17-35).
THEOREM PmmCountersExact == Spec => []CountersExact
  <1>1. IndInv => CountersExact
    BY DEF IndInv
  <1> QED
    BY PmmInvariant, <1>1, PTL

\* The one-pass search of pmm_find_free is first fit, prefers the memory above
\* 4 GiB (pmm.c:41-85), and the out-of-memory panic is raised only when no run of
\* the requested length is free.
THEOREM PmmSearchCorrect == Spec => [](FirstFit /\ PanicOnlyWhenFull)
  <1>1. IndInv => FirstFit /\ PanicOnlyWhenFull
    BY DEF IndInv
  <1> QED
    BY PmmInvariant, <1>1, PTL

\* Every managed page is marked in the bitmap exactly while somebody has it.
THEOREM PmmBitmapExact == Spec => [](BitmapExact /\ ReservedNeverOwned)
  <1>1. IndInv => BitmapExact /\ ReservedNeverOwned
    BY DEF IndInv
  <1> QED
    BY PmmInvariant, <1>1, PTL

-----------------------------------------------------------------------------
(* The scheduler                                                           *)

\* Where a thread is inside sched_add_thread before its child is linked, and where it
\* holds a lock.
Adding == {"alloc", "allocated", "insert", "link"}
HoldsList == {"link", "terminate", "unlock"}
HoldsHeap == {"heap", "allocated", "freeing"}

\* A lock is held by the thread that is between its acquire and its release.
LocksAgree ==
    \A t \in Threads : /\ listLock = t <=> point[t] \in HoldsList
                       /\ kheapLock = t <=> point[t] \in HoldsHeap

\* How far a thread has come says what its status is; the init thread does not exit.
StatusAgrees ==
    /\ status[InitThread] = "ready"
    /\ \A t \in Threads :
          /\ status[t] = "destroyed" <=> point[t] = "dead"
          /\ status[t] = "none" => point[t] = "user"
          /\ point[t] \in {"freeing", "exiting", "dead"} => t # InitThread

\* A thread that is being added is ready, is not its parent, and has one parent at work
\* on it.
ChildrenInHand ==
    \A t \in Threads :
        /\ point[t] \in Adding =>
              /\ child[t] \in Threads /\ status[child[t]] = "ready"
              /\ \A u \in Threads : point[u] \in Adding /\ child[u] = child[t] => u = t
        /\ point[t] \in Adding \cup {"terminate"} => child[t] # t

\* The list is a chain of the threads added, and ends at the tail; while the last one
\* linked is not terminated, its pointer is not written and it is not counted.
ListRight ==
    /\ head = InitThread /\ Chain(Threads, next, Added, InitThread)
    /\ \A x \in Threads \ Added : next[x] = GARBAGE
    /\ tail \in Added /\ next[tail] \notin Threads
    /\ \A x \in Added : next[x] \notin Threads => x = tail
    /\ \A t \in Threads : point[t] = "terminate" =>
          child[t] = tail /\ next[tail] = GARBAGE /\ nodeCount + 1 = Cardinality(Added)
    /\ (\A t \in Threads : point[t] # "terminate") =>
          next[tail] = NULL /\ nodeCount = Cardinality(Added)

\* The scheduler is at a node of the list, or behind the one that is not terminated; only
\* the init thread can be both the current thread and the next.
PositionRight ==
    /\ currentThread \in Added
    /\ \/ currentThreadNode \in Added \cup {NULL}
       \/ /\ currentThreadNode = GARBAGE
          /\ \E t \in Threads : point[t] = "terminate" /\ currentThread = child[t]
    /\ currentThreadNode = currentThread => currentThread = InitThread

\* The inductive invariant.
SchedInv ==
    /\ SchedTypeOK /\ LocksAgree /\ StatusAgrees /\ ChildrenInHand /\ ListRight
    /\ PositionRight /\ StuckOnlyOnExit

-----------------------------------------------------------------------------

\* A thread has been added when it is ready, or about to be removed, and nobody has it
\* in hand.
IsAdded(x) ==
    /\ x \in Threads /\ (status[x] = "ready" \/ (status[x] = "destroyed" /\ x = currentThread))
    /\ \A t \in Threads : point[t] \in Adding => child[t] # x

\* Added is the set of those threads, before a step and after it.
LEMMA AddedIs == \A x : (x \in Added <=> IsAdded(x)) /\ (x \in Added' <=> IsAdded(x)')
  BY DEF Added, InHand, IsAdded, Adding

\* sched_init and process_create_init establish the invariant.
LEMMA SchedInitInv == SchedInit => SchedInv
  <1>. SUFFICES ASSUME SchedInit PROVE SchedInv
    OBVIOUS
  <1>. USE ThreadsAssumption
  <1>0. SchedTypeOK
    <2>1. stuck \in BOOLEAN /\ wild \in BOOLEAN
      BY DEF SchedInit
    <2>2. /\ next \in [Threads -> Threads \cup {NULL, GARBAGE}]
          /\ nodeCount \in Nat \ {0} /\ child \in [Threads -> Threads \cup {NULL}]
          /\ status \in [Threads -> {"none", "ready", "destroyed"}] /\ point \in [Threads -> Points]
      BY SMTT(30) DEF SchedInit, Points
    <2>. QED BY <2>1, <2>2 DEF SchedInit, SchedTypeOK
  <1>1. LocksAgree /\ StatusAgrees /\ ChildrenInHand /\ StuckOnlyOnExit
    BY SMTT(30) DEF SchedInit, LocksAgree, StatusAgrees, ChildrenInHand,
           StuckOnlyOnExit, Adding, HoldsList, HoldsHeap
  <1>2. Added = {InitThread}
    <2>1. \A x : IsAdded(x) <=> x = InitThread
      BY SMTT(30) DEF SchedInit, IsAdded, Adding
    <2>. QED BY <2>1, AddedIs
  <1>3. /\ next[InitThread] = NULL /\ \A x \in Threads : x # InitThread => next[x] = GARBAGE
        /\ \A t \in Threads : point[t] # "terminate"
    BY SMTT(30) DEF SchedInit
  <1>4. Chain(Threads, next, {InitThread}, InitThread)
    BY <1>3 DEF Chain, NoWayOut
  <1>5. nodeCount = Cardinality(Added)
    BY <1>2, FS_Singleton DEF SchedInit
  <1>6. ListRight
    BY <1>2, <1>3, <1>4, <1>5 DEF ListRight, SchedInit
  <1>7. PositionRight
    BY <1>2 DEF PositionRight, SchedInit
  <1>. QED BY <1>0, <1>1, <1>6, <1>7 DEF SchedInv

\* The current thread has moved, and nobody else.
LEMMA AtMoves ==
    ASSUME SchedTypeOK, NEW t \in Threads, NEW from, NEW to \in Points, At(t, from, to)
    PROVE  /\ point' \in [Threads -> Points] /\ point[t] = from /\ point'[t] = to
           /\ \A u \in Threads : u # t => point'[u] = point[u]
           /\ currentThread = t /\ currentThread' = t /\ ~stuck /\ stuck' = stuck /\ wild' = wild
  BY SMTT(30) DEF At, SchedTypeOK

\* A step that changes neither the list nor a thread's status, and that does not link a
\* child, keeps the invariant when it keeps the locks right.
LEMMA PassKeeps ==
    ASSUME SchedInv, NEW t \in Threads, NEW from \in Points, NEW to \in Points,
           At(t, from, to), UNCHANGED <<links, status, child>>,
           from \in Adding <=> to \in Adding,
           from \notin {"terminate", "dead"}, to \notin {"terminate", "dead"},
           to \in {"freeing", "exiting"} => t # InitThread,
           listLock' \in Threads \cup {NULL}, kheapLock' \in Threads \cup {NULL}, LocksAgree',
           currentThreadNode' \in {currentThreadNode, head}
    PROVE  SchedInv'
  <1>. USE DEF SchedInv
  <1>1. /\ point' \in [Threads -> Points] /\ point[t] = from /\ point'[t] = to
        /\ \A u \in Threads : u # t => point'[u] = point[u]
        /\ currentThread = t /\ currentThread' = t /\ ~stuck /\ stuck' = stuck /\ wild' = wild
    BY AtMoves
  <1>2. /\ next' = next /\ head' = head /\ tail' = tail /\ nodeCount' = nodeCount
        /\ status' = status /\ child' = child
    BY DEF links
  <1>3. /\ \A u \in Threads : point'[u] \in Adding <=> point[u] \in Adding
        /\ \A u \in Threads : point'[u] = "terminate" <=> point[u] = "terminate"
        /\ \A u \in Threads : point'[u] = "dead" <=> point[u] = "dead"
    BY <1>1
  <1>4. Added' = Added
    <2>1. \A x : IsAdded(x)' <=> IsAdded(x)
      BY <1>1, <1>2, <1>3 DEF IsAdded
    <2>. QED BY <2>1, AddedIs
  <1>5. IsAdded(t) /\ status[t] # "none"
    BY <1>1, AddedIs DEF PositionRight, IsAdded
  <1>6. SchedTypeOK'
    BY <1>1, <1>2, SMTT(30) DEF SchedTypeOK
  <1>7. StatusAgrees'
    BY <1>1, <1>2, <1>3, <1>5 DEF StatusAgrees
  <1>8. ChildrenInHand'
    BY <1>1, <1>2, <1>3, SMTT(30) DEF ChildrenInHand
  <1>9. ListRight'
    BY <1>2, <1>3, <1>4 DEF ListRight
  <1>10. PositionRight'
    BY <1>1, <1>2, <1>3, <1>4 DEF PositionRight, ListRight, Chain
  <1>. QED BY <1>1, <1>6, <1>7, <1>8, <1>9, <1>10 DEF StuckOnlyOnExit

\* Acquiring and releasing the heap's lock keep the locks right.
LEMMA HeapLockAgrees ==
    ASSUME SchedInv, NEW t \in Threads, NEW from \in Points, NEW to \in Points,
           from \in HoldsList <=> to \in HoldsList,
           \/ AcquireHeap(t, from, to) /\ to \in HoldsHeap
           \/ ReleaseHeap(t, from, to) /\ from \in HoldsHeap /\ to \notin HoldsHeap
    PROVE  LocksAgree' /\ kheapLock' \in Threads \cup {NULL} /\ listLock' = listLock
  <1>1. /\ point[t] = from /\ point'[t] = to
        /\ \A u \in Threads : u # t => point'[u] = point[u]
    BY AtMoves DEF AcquireHeap, ReleaseHeap, SchedInv
  <1>2. listLock' = listLock
    BY DEF AcquireHeap, ReleaseHeap
  <1>3. CASE AcquireHeap(t, from, to) /\ to \in HoldsHeap
    BY <1>1, <1>2, <1>3, ThreadsAssumption DEF AcquireHeap, SchedInv, LocksAgree
  <1>4. CASE ReleaseHeap(t, from, to) /\ from \in HoldsHeap /\ to \notin HoldsHeap
    BY <1>1, <1>2, <1>4, ThreadsAssumption DEF ReleaseHeap, SchedInv, LocksAgree
  <1>. QED BY <1>2, <1>3, <1>4

\* A system call that enters or leaves the heap.
LEMMA HeapKeeps ==
    ASSUME SchedInv, NEW t \in Threads, HeapCall(t) \/ AllocNode(t) \/ FreeKernelStack(t)
    PROVE  SchedInv'
  <1>1. ASSUME NEW from \in Points, NEW to \in Points,
               \/ AcquireHeap(t, from, to) /\ to \in HoldsHeap
               \/ ReleaseHeap(t, from, to) /\ from \in HoldsHeap /\ to \notin HoldsHeap,
               from \in HoldsList <=> to \in HoldsList, from \in Adding <=> to \in Adding,
               from \notin {"terminate", "dead"}, to \notin {"terminate", "dead"},
               to \in {"freeing", "exiting"} => t # InitThread
        PROVE  SchedInv'
    <2>1. LocksAgree' /\ kheapLock' \in Threads \cup {NULL} /\ listLock' = listLock
      BY <1>1, HeapLockAgrees
    <2>2. listLock' \in Threads \cup {NULL}
      BY <2>1 DEF SchedInv, SchedTypeOK
    <2>3. /\ At(t, from, to) /\ UNCHANGED <<links, status, child>>
          /\ currentThreadNode' = currentThreadNode
      BY <1>1 DEF AcquireHeap, ReleaseHeap
    <2>. QED BY <1>1, <2>1, <2>2, <2>3, PassKeeps
  <1>. USE DEF Points, HoldsList, HoldsHeap, Adding
  <1>2. CASE HeapCall(t)
    BY <1>1, <1>2 DEF HeapCall
  <1>3. CASE AllocNode(t)
    BY <1>1, <1>3 DEF AllocNode
  <1>4. CASE FreeKernelStack(t)
    BY <1>1, <1>4 DEF FreeKernelStack
  <1>. QED BY <1>2, <1>3, <1>4

\* The list's lock, and the test and the store of currentThreadNode.
LEMMA ListLockKeeps ==
    ASSUME SchedInv, NEW t \in Threads,
           AcquireList(t) \/ ReleaseList(t) \/ TestCurrentNode(t) \/ RewindCurrentNode(t)
    PROVE  SchedInv'
  <1>. USE ThreadsAssumption DEF Points, HoldsList, HoldsHeap, Adding
  <1>1. CASE AcquireList(t)
    <2>1. /\ point[t] = "insert" /\ point'[t] = "link"
          /\ \A u \in Threads : u # t => point'[u] = point[u]
      BY <1>1, AtMoves DEF AcquireList, SchedInv
    <2>2. LocksAgree'
      BY <1>1, <2>1 DEF AcquireList, SchedInv, LocksAgree
    <2>. QED BY <1>1, <2>2, PassKeeps DEF AcquireList, SchedInv, SchedTypeOK
  <1>2. CASE ReleaseList(t)
    <2>1. /\ point[t] = "unlock" /\ point'[t] = "added"
          /\ \A u \in Threads : u # t => point'[u] = point[u]
      BY <1>2, AtMoves DEF ReleaseList, SchedInv
    <2>2. LocksAgree'
      BY <1>2, <2>1 DEF ReleaseList, SchedInv, LocksAgree
    <2>. QED BY <1>2, <2>2, PassKeeps DEF ReleaseList, SchedInv, SchedTypeOK
  <1>3. CASE TestCurrentNode(t)
    <2>. DEFINE to == IF currentThreadNode = NULL THEN "rewind" ELSE "user"
    <2>1. to \in {"rewind", "user"} /\ to \in Points
      OBVIOUS
    <2>. HIDE DEF to
    <2>2. At(t, "added", to)
      BY <1>3 DEF TestCurrentNode, to
    <2>3. /\ point[t] = "added" /\ point'[t] = to
          /\ \A u \in Threads : u # t => point'[u] = point[u]
      BY <2>1, <2>2, AtMoves DEF SchedInv
    <2>4. LocksAgree'
      BY <1>3, <2>1, <2>3 DEF TestCurrentNode, SchedInv, LocksAgree
    <2>. QED BY <1>3, <2>1, <2>2, <2>4, PassKeeps DEF TestCurrentNode, SchedInv, SchedTypeOK
  <1>4. CASE RewindCurrentNode(t)
    <2>1. /\ point[t] = "rewind" /\ point'[t] = "user"
          /\ \A u \in Threads : u # t => point'[u] = point[u]
      BY <1>4, AtMoves DEF RewindCurrentNode, SchedInv
    <2>2. LocksAgree'
      BY <1>4, <2>1 DEF RewindCurrentNode, SchedInv, LocksAgree
    <2>. QED BY <1>4, <2>2, PassKeeps DEF RewindCurrentNode, SchedInv, SchedTypeOK
  <1>. QED BY <1>1, <1>2, <1>3, <1>4

\* sched_add_thread takes a thread in hand: it is ready and not yet added.
LEMMA AddThreadKeeps ==
    ASSUME SchedInv, NEW t \in Threads, NEW c \in Threads, AddThread(t, c) PROVE SchedInv'
  <1>. USE DEF SchedInv
  <1>1. /\ point' \in [Threads -> Points] /\ point[t] = "user" /\ point'[t] = "alloc"
        /\ \A u \in Threads : u # t => point'[u] = point[u]
        /\ currentThread = t /\ currentThread' = t /\ ~stuck /\ stuck' = stuck /\ wild' = wild
    BY AtMoves DEF AddThread, Points
  <1>2. /\ next' = next /\ head' = head /\ tail' = tail /\ nodeCount' = nodeCount
        /\ listLock' = listLock /\ kheapLock' = kheapLock
        /\ currentThreadNode' = currentThreadNode
    BY DEF AddThread, links
  <1>3. /\ status' \in [Threads -> {"none", "ready", "destroyed"}]
        /\ status[c] = "none" /\ status'[c] = "ready"
        /\ \A x \in Threads : x # c => status'[x] = status[x]
        /\ child' \in [Threads -> Threads \cup {NULL}] /\ child'[t] = c
        /\ \A u \in Threads : u # t => child'[u] = child[u]
    BY SMTT(30) DEF AddThread, SchedTypeOK
  <1>4. IsAdded(t) /\ status[t] # "none" /\ c # t
    BY <1>1, <1>3, AddedIs, SMTT(30) DEF PositionRight, IsAdded
  <1>5. \A u \in Threads : point[u] \in Adding => u # t /\ child[u] # c
    BY <1>1, <1>3 DEF ChildrenInHand, Adding
  <1>6. \A u \in Threads : u # t => (point'[u] \in Adding <=> point[u] \in Adding)
    BY <1>1
  <1>7. Added' = Added
    <2>1. ASSUME NEW x PROVE IsAdded(x)' <=> IsAdded(x)
      <3>1. CASE x = c
        BY <1>1, <1>3, <3>1 DEF IsAdded, Adding
      <3>2. CASE x # c
        BY <1>1, <1>3, <1>5, <1>6, <3>2 DEF IsAdded
      <3>. QED BY <3>1, <3>2
    <2>. QED BY <2>1, AddedIs
  <1>8. SchedTypeOK'
    BY <1>1, <1>2, <1>3, SMTT(30) DEF SchedTypeOK
  <1>9. LocksAgree'
    BY <1>1, <1>2 DEF LocksAgree, HoldsList, HoldsHeap
  <1>10. StatusAgrees'
    BY <1>1, <1>3, <1>4, ThreadsAssumption DEF StatusAgrees
  <1>11. ChildrenInHand'
    <2>1. ASSUME NEW u \in Threads, u # t, point'[u] \in Adding
          PROVE  /\ child'[u] \in Threads /\ status'[child'[u]] = "ready"
                 /\ child'[u] # c
                 /\ \A v \in Threads :
                       v # t /\ point'[v] \in Adding /\ child'[v] = child'[u] => v = u
      BY <1>3, <1>5, <1>6, <2>1, SMTT(30) DEF ChildrenInHand
    <2>2. \A u \in Threads : u # t /\ point'[u] \in Adding \cup {"terminate"} => child'[u] # u
      BY <1>1, <1>3 DEF ChildrenInHand
    <2>. QED BY <1>3, <1>4, <2>1, <2>2 DEF ChildrenInHand
  <1>12. \A u \in Threads : /\ point'[u] = "terminate" <=> point[u] = "terminate"
                            /\ point[u] = "terminate" => child'[u] = child[u]
    BY <1>1, <1>3
  <1>13. ListRight'
    BY <1>2, <1>7, <1>12 DEF ListRight
  <1>14. PositionRight'
    BY <1>1, <1>2, <1>7, <1>12 DEF PositionRight
  <1>. QED BY <1>1, <1>8, <1>9, <1>10, <1>11, <1>13, <1>14 DEF StuckOnlyOnExit

\* sched_remove_thread marks the current thread, which stays in the list.
LEMMA MarkKeeps ==
    ASSUME SchedInv, NEW t \in Threads, MarkDestroyed(t) PROVE SchedInv'
  <1>. USE DEF SchedInv
  <1>1. /\ point' \in [Threads -> Points] /\ point[t] = "exiting" /\ point'[t] = "dead"
        /\ \A u \in Threads : u # t => point'[u] = point[u]
        /\ currentThread = t /\ currentThread' = t /\ ~stuck /\ stuck' = stuck /\ wild' = wild
    BY AtMoves DEF MarkDestroyed, Points
  <1>2. /\ next' = next /\ head' = head /\ tail' = tail /\ nodeCount' = nodeCount
        /\ listLock' = listLock /\ kheapLock' = kheapLock /\ child' = child
        /\ currentThreadNode' = currentThreadNode
    BY DEF MarkDestroyed, links
  <1>3. /\ status' \in [Threads -> {"none", "ready", "destroyed"}] /\ status'[t] = "destroyed"
        /\ \A x \in Threads : x # t => status'[x] = status[x]
    BY SMTT(30) DEF MarkDestroyed, SchedTypeOK
  <1>4. \A u \in Threads : /\ point'[u] \in Adding <=> point[u] \in Adding
                           /\ point'[u] = "terminate" <=> point[u] = "terminate"
    BY <1>1 DEF Adding
  <1>5. IsAdded(t) /\ \A u \in Threads : point[u] \in Adding => child[u] # t
    BY <1>1, AddedIs DEF PositionRight, IsAdded
  <1>6. Added' = Added
    <2>1. ASSUME NEW x PROVE IsAdded(x)' <=> IsAdded(x)
      <3>1. CASE x = t
        BY <1>1, <1>2, <1>3, <1>4, <1>5, <3>1 DEF IsAdded
      <3>2. CASE x # t
        BY <1>1, <1>2, <1>3, <1>4, <3>2 DEF IsAdded
      <3>. QED BY <3>1, <3>2
    <2>. QED BY <2>1, AddedIs
  <1>7. SchedTypeOK'
    BY <1>1, <1>2, <1>3, SMTT(30) DEF SchedTypeOK
  <1>8. LocksAgree'
    BY <1>1, <1>2 DEF LocksAgree, HoldsList, HoldsHeap
  <1>9. StatusAgrees'
    BY <1>1, <1>3, ThreadsAssumption DEF StatusAgrees
  <1>10. ChildrenInHand'
    BY <1>1, <1>2, <1>3, <1>4, <1>5 DEF ChildrenInHand
  <1>11. ListRight'
    BY <1>2, <1>4, <1>6 DEF ListRight
  <1>12. PositionRight'
    BY <1>1, <1>2, <1>4, <1>6 DEF PositionRight
  <1>. QED BY <1>1, <1>7, <1>8, <1>9, <1>10, <1>11, <1>12 DEF StuckOnlyOnExit

\* The threads on the list are finitely many.
LEMMA AddedFinite == ASSUME ListRight PROVE IsFiniteSet(Added) /\ Cardinality(Added) \in Nat
  <1>1. IsFiniteSet(Added)
    BY ThreadsAssumption, FS_Subset DEF ListRight, Chain
  <1>. QED BY <1>1, FS_CardinalityType

\* Only the holder of the list's lock changes the list.
LEMMA OneAtWork ==
    ASSUME SchedInv, NEW t \in Threads, point[t] \in HoldsList
    PROVE  \A u \in Threads : point[u] \in HoldsList => u = t
  BY DEF SchedInv, LocksAgree

\* list_insert links the child behind the tail.
LEMMA LinkKeeps == ASSUME SchedInv, NEW t \in Threads, LinkNode(t) PROVE SchedInv'
  <1>. USE ThreadsAssumption DEF SchedInv
  <1>. DEFINE c == child[t]
  <1>1. /\ point' \in [Threads -> Points] /\ point[t] = "link" /\ point'[t] = "terminate"
        /\ \A u \in Threads : u # t => point'[u] = point[u]
        /\ currentThread = t /\ currentThread' = t /\ ~stuck /\ stuck' = stuck /\ wild' = wild
    BY AtMoves DEF LinkNode, Points
  <1>2. /\ nodeCount' = nodeCount /\ listLock' = listLock /\ kheapLock' = kheapLock
        /\ status' = status /\ child' = child /\ currentThreadNode' = currentThreadNode
        /\ tail' = c /\ head' = head /\ next' = [next EXCEPT ![tail] = c]
    BY DEF LinkNode, SchedTypeOK
  <1>3. \A u \in Threads : point[u] \in HoldsList => u = t
    BY <1>1, OneAtWork DEF HoldsList
  <1>4. /\ \A u \in Threads : point[u] # "terminate"
        /\ \A u \in Threads : point'[u] = "terminate" => u = t
    BY <1>1, <1>3 DEF HoldsList
  <1>5. /\ c \in Threads /\ c # t /\ status[c] = "ready" /\ c \notin Added
        /\ \A u \in Threads : point[u] \in Adding /\ child[u] = c => u = t
    <2>1. point[t] \in Adding
      BY <1>1 DEF Adding
    <2>. QED BY <2>1, AddedIs DEF ChildrenInHand, IsAdded
  <1>6. \A u \in Threads : point'[u] \in Adding <=> u # t /\ point[u] \in Adding
    BY <1>1 DEF Adding
  <1>. HIDE DEF c
  <1>7. Added' = Added \cup {c}
    <2>1. ASSUME NEW x PROVE IsAdded(x)' <=> IsAdded(x) \/ x = c
      <3>1. CASE x = c
        BY <1>2, <1>5, <1>6, <3>1 DEF IsAdded
      <3>2. CASE x # c
        BY <1>1, <1>2, <1>6, <3>2 DEF IsAdded, c
      <3>. QED BY <3>1, <3>2
    <2>. QED BY <2>1, AddedIs
  <1>8. /\ tail \in Threads /\ tail \in Added /\ next[tail] = NULL /\ c # tail
        /\ next[c] = GARBAGE /\ nodeCount = Cardinality(Added)
    BY <1>4, <1>5 DEF ListRight, Chain
  <1>9. /\ next' \in [Threads -> Threads \cup {NULL, GARBAGE}]
        /\ next'[tail] = c /\ \A x \in Threads : x # tail => next'[x] = next[x]
    BY <1>2, <1>5, <1>8, SMTT(30) DEF SchedTypeOK
  <1>10. Chain(Threads, next', Added', InitThread)
    <2>1. Chain(Threads, next, Added, InitThread) /\ Added \subseteq Threads
      BY DEF ListRight, Chain
    <2>2. next'[c] \notin Threads /\ next[tail] \notin Threads
      BY <1>5, <1>8, <1>9
    <2>. QED BY <1>5, <1>7, <1>8, <1>9, <2>1, <2>2, ChainInsert, SMTT(30)
  <1>11. nodeCount' + 1 = Cardinality(Added')
    <2>1. Cardinality(Added \cup {c}) = Cardinality(Added) + 1
      BY <1>5, AddedFinite, FS_AddElement
    <2>. QED BY <1>2, <1>7, <1>8, <2>1
  <1>12. ListRight'
    <2>1. \A x \in Threads \ Added' : next'[x] = GARBAGE
      BY <1>7, <1>8, <1>9 DEF ListRight
    <2>2. \A x \in Added' : next'[x] \notin Threads => x = c
      BY <1>5, <1>7, <1>9 DEF ListRight, Chain
    <2>3. next'[c] = GARBAGE /\ c \in Added'
      BY <1>5, <1>7, <1>8, <1>9
    <2>4. child'[t] = c
      BY <1>2 DEF c
    <2>5. head' = InitThread
      BY <1>2 DEF ListRight
    <2>. QED BY <1>1, <1>2, <1>4, <1>10, <1>11, <2>1, <2>2, <2>3, <2>4, <2>5 DEF ListRight
  <1>13. PositionRight'
    BY <1>1, <1>2, <1>4, <1>7 DEF PositionRight
  <1>14. SchedTypeOK'
    BY <1>1, <1>2, <1>5, <1>9, SMTT(30) DEF SchedTypeOK
  <1>15. LocksAgree'
    BY <1>1, <1>2 DEF LocksAgree, HoldsList, HoldsHeap
  <1>16. StatusAgrees'
    BY <1>1, <1>2 DEF StatusAgrees
  <1>17. ChildrenInHand'
    BY <1>1, <1>2, <1>5, <1>6 DEF ChildrenInHand, c
  <1>. QED BY <1>1, <1>12, <1>13, <1>14, <1>15, <1>16, <1>17 DEF StuckOnlyOnExit

\* ...and then writes its next pointer and counts it.
LEMMA TerminateKeeps == ASSUME SchedInv, NEW t \in Threads, TerminateNode(t) PROVE SchedInv'
  <1>. USE ThreadsAssumption DEF SchedInv
  <1>1. /\ point' \in [Threads -> Points] /\ point[t] = "terminate" /\ point'[t] = "unlock"
        /\ \A u \in Threads : u # t => point'[u] = point[u]
        /\ currentThread = t /\ currentThread' = t /\ ~stuck /\ stuck' = stuck /\ wild' = wild
    BY AtMoves DEF TerminateNode, Points
  <1>2. child[t] = tail /\ tail # t /\ nodeCount + 1 = Cardinality(Added)
    BY <1>1 DEF ListRight, ChildrenInHand
  <1>3. /\ nodeCount' = nodeCount + 1 /\ listLock' = listLock /\ kheapLock' = kheapLock
        /\ status' = status /\ child' = child /\ currentThreadNode' = currentThreadNode
        /\ tail' = tail /\ head' = head /\ next' = [next EXCEPT ![tail] = NULL]
    BY <1>2 DEF TerminateNode
  <1>4. \A u \in Threads : point[u] \in HoldsList => u = t
    BY <1>1, OneAtWork DEF HoldsList
  <1>5. /\ \A u \in Threads : point'[u] # "terminate"
        /\ \A u \in Threads : point'[u] \in Adding <=> point[u] \in Adding
    BY <1>1, <1>4 DEF HoldsList, Adding
  <1>6. Added' = Added
    <2>1. \A x : IsAdded(x)' <=> IsAdded(x)
      BY <1>1, <1>3, <1>5 DEF IsAdded
    <2>. QED BY <2>1, AddedIs
  <1>7. tail \in Added /\ tail \in Threads /\ next[tail] \notin Threads
    BY DEF ListRight, Chain
  <1>8. /\ next' \in [Threads -> Threads \cup {NULL, GARBAGE}]
        /\ next'[tail] = NULL /\ \A x \in Threads : x # tail => next'[x] = next[x]
    BY <1>3, <1>7, SMTT(30) DEF SchedTypeOK
  <1>9. Chain(Threads, next', Added, InitThread)
    <2>1. Chain(Threads, next, Added, InitThread) /\ Added \subseteq Threads
      BY DEF ListRight, Chain
    <2>. QED BY <1>7, <1>8, <2>1, ChainSame
  <1>10. ListRight'
    <2>1. \A x \in Threads \ Added : next'[x] = GARBAGE
      BY <1>7, <1>8 DEF ListRight
    <2>2. \A x \in Added : next'[x] \notin Threads => x = tail
      BY <1>8 DEF ListRight, Chain
    <2>. QED BY <1>2, <1>3, <1>5, <1>6, <1>7, <1>8, <1>9, <2>1, <2>2 DEF ListRight
  <1>11. PositionRight'
    <2>1. currentThreadNode \in Added \cup {NULL}
      BY <1>1, <1>2, <1>4 DEF PositionRight, HoldsList
    <2>. QED BY <1>1, <1>3, <1>6, <2>1 DEF PositionRight
  <1>12. SchedTypeOK'
    <2>1. nodeCount' \in Nat \ {0}
      BY <1>3, SMTT(30) DEF SchedTypeOK
    <2>. QED BY <1>1, <1>3, <1>8, <2>1, SMTT(30) DEF SchedTypeOK
  <1>13. LocksAgree'
    BY <1>1, <1>3 DEF LocksAgree, HoldsList, HoldsHeap
  <1>14. StatusAgrees'
    BY <1>1, <1>3 DEF StatusAgrees
  <1>15. ChildrenInHand'
    BY <1>1, <1>3, <1>5 DEF ChildrenInHand
  <1>. QED BY <1>1, <1>10, <1>11, <1>12, <1>13, <1>14, <1>15 DEF StuckOnlyOnExit

\* The node that the tick looks at, when it is a thread at all, is on the list and is not
\* the current thread's when that has exited.
LEMMA NodeFound ==
    ASSUME SchedInv, NEW node \in Threads,
           node = IF currentThreadNode = NULL THEN head ELSE currentThreadNode
    PROVE  /\ node \in Added
           /\ node # currentThread => status[node] = "ready"
           /\ status[currentThread] = "destroyed" => node # currentThread
  <1>1. node \in Added
    BY ThreadsAssumption DEF SchedInv, PositionRight, ListRight, Chain
  <1>2. node # currentThread => status[node] = "ready"
    BY <1>1, AddedIs DEF IsAdded
  <1>3. node = currentThread => node = InitThread
    BY ThreadsAssumption DEF SchedInv, PositionRight, ListRight
  <1>. QED BY <1>1, <1>2, <1>3 DEF SchedInv, StatusAgrees

\* The tick that switches threads leaves the list alone.
LEMMA SwitchKeeps == ASSUME SchedInv, Tick, TickSwitch PROVE SchedInv'
  <1>. USE ThreadsAssumption DEF SchedInv
  <1>. DEFINE node == IF currentThreadNode = NULL THEN head ELSE currentThreadNode
  <1>1. /\ next' = next /\ head' = head /\ tail' = tail /\ nodeCount' = nodeCount
        /\ listLock' = listLock /\ kheapLock' = kheapLock /\ status' = status
        /\ point' = point /\ child' = child /\ stuck' = stuck /\ ~stuck
        /\ status[currentThread] # "destroyed"
    BY DEF Tick, TickSwitch, links
  <1>2. IF node \in Threads
        THEN currentThread' = node /\ currentThreadNode' = next[node] /\ wild' = wild
        ELSE wild' = TRUE /\ currentThread' = currentThread
                /\ currentThreadNode' = currentThreadNode
    BY <1>1 DEF TickSwitch, SelectNext
  <1>3. /\ currentThread' \in Added
        /\ currentThread' # currentThread => status[currentThread'] = "ready"
    BY <1>2, NodeFound DEF PositionRight
  <1>. HIDE DEF node
  <1>4. Added' = Added
    <2>1. currentThread' \in Threads /\ status[currentThread'] # "destroyed"
      BY <1>1, <1>3, AddedIs DEF IsAdded
    <2>2. \A x : IsAdded(x)' <=> IsAdded(x)
      BY <1>1, <2>1 DEF IsAdded
    <2>. QED BY <2>2, AddedIs
  <1>5. ListRight'
    BY <1>1, <1>4 DEF ListRight
  <1>6. PositionRight'
    <2>1. CASE node \in Threads
      <3>1. node \in Added /\ next[node] # node
        BY <1>2, <1>3, <2>1, ChainSelfLess DEF ListRight
      <3>2. next[node] \in Threads => next[node] \in Added
        BY <3>1 DEF ListRight, Chain, NoWayOut
      <3>3. next[node] \notin Threads =>
               \/ next[node] = NULL
               \/ next[node] = GARBAGE /\ \E t \in Threads : point[t] = "terminate" /\ node = child[t]
        BY <3>1 DEF ListRight
      <3>. QED BY <1>1, <1>2, <1>4, <2>1, <3>1, <3>2, <3>3 DEF PositionRight
    <2>2. CASE node \notin Threads
      BY <1>1, <1>2, <1>4, <2>2 DEF PositionRight
    <2>. QED BY <2>1, <2>2
  <1>7. SchedTypeOK'
    <2>1. currentThread' \in Threads /\ currentThreadNode' \in Threads \cup {NULL, GARBAGE}
      BY <1>2 DEF SchedTypeOK
    <2>2. wild' \in BOOLEAN
      BY <1>2 DEF SchedTypeOK
    <2>. QED BY <1>1, <2>1, <2>2 DEF SchedTypeOK
  <1>8. LocksAgree' /\ StatusAgrees' /\ ChildrenInHand' /\ StuckOnlyOnExit'
    BY <1>1 DEF LocksAgree, StatusAgrees, ChildrenInHand, StuckOnlyOnExit
  <1>. QED BY <1>5, <1>6, <1>7, <1>8

\* The tick that hangs changes nothing; the holder of the lock has not exited.
LEMMA SpinKeeps == ASSUME SchedInv, Tick, TickRemove, HandlerSpins PROVE SchedInv'
  <1>. USE ThreadsAssumption DEF SchedInv
  <1>1. /\ next' = next /\ head' = head /\ tail' = tail /\ nodeCount' = nodeCount
        /\ listLock' = listLock /\ kheapLock' = kheapLock /\ status' = status
        /\ point' = point /\ child' = child /\ stuck' = TRUE /\ wild' = wild
        /\ currentThread' = currentThread /\ currentThreadNode' = currentThreadNode
        /\ status[currentThread] = "destroyed"
    BY DEF Tick, TickRemove, links
  <1>2. SchedTypeOK' /\ LocksAgree' /\ StatusAgrees' /\ ChildrenInHand'
    BY <1>1 DEF SchedTypeOK, LocksAgree, StatusAgrees, ChildrenInHand
  <1>3. Added' = Added
    <2>1. \A x : IsAdded(x)' <=> IsAdded(x)
      BY <1>1 DEF IsAdded
    <2>. QED BY <2>1, AddedIs
  <1>4. ListRight' /\ PositionRight'
    BY <1>1, <1>3 DEF ListRight, PositionRight
  <1>5. currentThread \in Threads /\ point[currentThread] = "dead"
    BY <1>1 DEF SchedTypeOK, StatusAgrees
  <1>6. \E t \in Threads \ {currentThread} : t \in {listLock, kheapLock}
    <2>1. listLock # currentThread /\ kheapLock # currentThread
      BY <1>5 DEF LocksAgree, HoldsList, HoldsHeap
    <2>. QED BY <2>1 DEF HandlerSpins, SchedTypeOK
  <1>7. StuckOnlyOnExit'
    BY <1>1, <1>6 DEF StuckOnlyOnExit
  <1>. QED BY <1>2, <1>4, <1>7

\* The tick removes the node of the thread that has exited, and goes on with another.
LEMMA RemoveKeeps == ASSUME SchedInv, Tick, TickRemove, ~HandlerSpins PROVE SchedInv'
  <1>. USE ThreadsAssumption DEF SchedInv
  <1>. DEFINE x == currentThread
              node == IF currentThreadNode = NULL THEN head ELSE currentThreadNode
  <1>1. /\ listLock' = listLock /\ kheapLock' = kheapLock /\ status' = status
        /\ point' = point /\ child' = child /\ stuck' = stuck /\ ~stuck
        /\ status[x] = "destroyed" /\ list_remove(x) /\ SelectNext
    BY DEF Tick, TickRemove
  <1>2. x \in Threads /\ x \in Added /\ x # InitThread /\ head = InitThread
    BY <1>1, AddedIs DEF SchedTypeOK, StatusAgrees, PositionRight, ListRight
  <1>3. \A t \in Threads : point[t] \notin HoldsList
    BY DEF HandlerSpins, LocksAgree
  <1>4. \A t \in Threads : point[t] # "terminate"
    BY <1>3 DEF HoldsList
  <1>5. /\ Chain(Threads, next, Added, InitThread) /\ next[tail] = NULL
        /\ nodeCount = Cardinality(Added)
    BY <1>4 DEF ListRight
  <1>6. head' = head
    BY <1>1, <1>2 DEF list_remove
  <1>7. node \in Threads
    BY <1>2, <1>4 DEF PositionRight, Added
  <1>8. currentThread' = node /\ currentThreadNode' = next'[node] /\ wild' = wild
    BY <1>1, <1>6, <1>7 DEF SelectNext
  <1>9. node \in Added /\ node # x /\ status[node] = "ready"
    BY <1>1, <1>7, NodeFound
  <1>. HIDE DEF node, x
  <1>10. PICK p \in Added : next[p] = x
    BY <1>2, <1>5, ChainPredecessor, SMTT(30)
  <1>11. next[x] # x /\ p # x /\ p \in Threads
    BY <1>2, <1>5, <1>10, ChainSelfLess, SMTT(30) DEF Chain
  <1>12. \A q \in Threads : next[q] = x <=> q = p
    <2>1. \A q \in Added : next[q] = x => q = p
      BY <1>2, <1>5, <1>10 DEF Chain
    <2>2. \A q \in Threads : q \notin Added => next[q] # x
      BY <1>2 DEF ListRight
    <2>. QED BY <1>10, <2>1, <2>2
  <1>13. Predecessor(x) = {p}
    BY <1>11, <1>12 DEF Predecessor
  <1>14. /\ next' \in [Threads -> Threads \cup {NULL, GARBAGE}]
         /\ next'[p] = next[x] /\ next'[x] = GARBAGE
         /\ \A q \in Threads : q # p /\ q # x => next'[q] = next[q]
    <2>1. next' = [n \in Threads |-> IF n \in {p} THEN next[x]
                                     ELSE IF n = x THEN GARBAGE ELSE next[n]]
      BY <1>1, <1>13 DEF list_remove
    <2>. QED BY <1>2, <1>11, <2>1, SMTT(30) DEF SchedTypeOK
  <1>15. tail' = IF tail # x THEN tail ELSE p
    BY <1>1, <1>13 DEF list_remove
  <1>16. Added' = Added \ {x}
    <2>1. ASSUME NEW y PROVE IsAdded(y)' <=> IsAdded(y) /\ y # x
      BY <1>1, <1>8, <1>9 DEF IsAdded, x
    <2>. QED BY <2>1, AddedIs
  <1>17. Chain(Threads, next', Added', InitThread)
    <2>1. Added \subseteq Threads
      BY <1>5 DEF Chain
    <2>2. \A q \in Added : q # x => next'[q] = IF next[q] = x THEN next[x] ELSE next[q]
      BY <1>12, <1>14, <2>1
    <2>. QED BY <1>2, <1>5, <1>16, <2>2, ChainUnlink
  <1>18. nodeCount' = Cardinality(Added') /\ nodeCount' \in Nat \ {0}
    <2>1. IsFiniteSet(Added) /\ Cardinality(Added) \in Nat
      BY AddedFinite
    <2>2. IsFiniteSet(Added') /\ Cardinality(Added') = Cardinality(Added) - 1
      BY <1>2, <1>16, <2>1, FS_RemoveElement
    <2>3. Cardinality(Added') \in Nat /\ Cardinality(Added') # 0
      BY <1>17, <2>2, FS_CardinalityType, FS_EmptySet DEF Chain
    <2>4. nodeCount' = nodeCount - 1
      BY <1>1 DEF list_remove
    <2>. QED BY <1>5, <2>2, <2>3, <2>4
  <1>19. /\ tail' \in Added' /\ next'[tail'] = NULL
         /\ \A y \in Added' : next'[y] \notin Threads => y = tail'
    <2>1. /\ tail \in Added /\ Added \subseteq Threads
          /\ \A y \in Added : next[y] \notin Threads => y = tail
      BY DEF ListRight, Chain
    <2>2. CASE tail = x
      <3>1. next'[p] = NULL /\ tail' = p /\ p \in Added'
        BY <1>5, <1>10, <1>11, <1>14, <1>15, <1>16, <2>2
      <3>2. \A y \in Added' : next'[y] \notin Threads => y = p
        BY <1>14, <1>16, <2>1, <2>2
      <3>. QED BY <3>1, <3>2
    <2>3. CASE tail # x
      <3>1. tail' = tail /\ tail # p /\ next'[tail] = NULL /\ tail \in Added'
        BY <1>2, <1>5, <1>10, <1>14, <1>15, <1>16, <2>1, <2>3
      <3>2. next[x] \in Threads
        BY <1>2, <2>1, <2>3
      <3>3. \A y \in Added' : next'[y] \notin Threads => y = tail
        BY <1>14, <1>16, <2>1, <3>2
      <3>. QED BY <3>1, <3>3
    <2>. QED BY <2>2, <2>3
  <1>20. \A y \in Threads \ Added' : next'[y] = GARBAGE
    BY <1>10, <1>14, <1>16 DEF ListRight
  <1>21. ListRight'
    BY <1>1, <1>2, <1>4, <1>6, <1>17, <1>18, <1>19, <1>20 DEF ListRight
  <1>22. PositionRight'
    <2>1. node \in Added' /\ next'[node] # node
      BY <1>9, <1>16, <1>17, ChainSelfLess
    <2>2. next'[node] \in Added' \cup {NULL}
      BY <1>17, <1>19, <2>1 DEF Chain, NoWayOut
    <2>. QED BY <1>8, <2>1, <2>2 DEF PositionRight
  <1>23. SchedTypeOK'
    <2>1. tail' \in Threads /\ head' \in Threads /\ currentThread' \in Threads
      BY <1>2, <1>6, <1>7, <1>8, <1>11, <1>15 DEF SchedTypeOK
    <2>2. currentThreadNode' \in Threads \cup {NULL, GARBAGE}
      BY <1>7, <1>8, <1>14
    <2>. QED BY <1>1, <1>8, <1>14, <1>18, <2>1, <2>2 DEF SchedTypeOK
  <1>24. LocksAgree' /\ StatusAgrees' /\ ChildrenInHand' /\ StuckOnlyOnExit'
    BY <1>1 DEF LocksAgree, StatusAgrees, ChildrenInHand, StuckOnlyOnExit
  <1>. QED BY <1>21, <1>22, <1>23, <1>24

\* Every step keeps the invariant.
LEMMA SchedStepInv == SchedInv /\ [SchedNext]_schedVars => SchedInv'
  <1>. SUFFICES ASSUME SchedInv, [SchedNext]_schedVars PROVE SchedInv'
    OBVIOUS
  <1>1. CASE UNCHANGED schedVars
    <2>1. /\ next' = next /\ head' = head /\ tail' = tail /\ nodeCount' = nodeCount
          /\ listLock' = listLock /\ kheapLock' = kheapLock /\ status' = status
          /\ point' = point /\ child' = child /\ stuck' = stuck /\ wild' = wild
          /\ currentThread' = currentThread /\ currentThreadNode' = currentThreadNode
      BY <1>1 DEF schedVars, links
    <2>2. Added' = Added
      BY <2>1 DEF Added, InHand
    <2>. QED BY <2>1, <2>2 DEF SchedInv, SchedTypeOK, LocksAgree, StatusAgrees, ChildrenInHand,
                  ListRight, PositionRight, StuckOnlyOnExit
  <1>2. CASE Tick
    BY <1>2, SwitchKeeps, SpinKeeps, RemoveKeeps DEF Tick
  <1>3. ASSUME NEW t \in Threads, Step(t) PROVE SchedInv'
    BY <1>3, HeapKeeps, ListLockKeeps, AddThreadKeeps, MarkKeeps, LinkKeeps, TerminateKeeps DEF Step
  <1>. QED BY <1>1, <1>2, <1>3 DEF SchedNext

\* The invariant holds in every reachable state, for any finite set of threads.
THEOREM SchedInvariant == SchedSpec => []SchedInv
  BY SchedInitInv, SchedStepInv, PTL DEF SchedSpec

\* However the ticks divide sched_add_thread and sys_exit, the thread list is a proper
\* list outside an insertion, the scheduler's position is on it, and the tick hangs only
\* on the removal of a thread that has exited.
THEOREM SchedThreadListSound == SchedSpec => []ThreadListSound
  <1>1. SchedInv => ThreadListSound
    <2>. SUFFICES ASSUME SchedInv PROVE ThreadListSound
      OBVIOUS
    <2>. USE DEF SchedInv
    <2>1. Reach = Added
      BY ThreadsAssumption, ChainReached DEF Reach, ListRight
    <2>2. Linking = {} => \A t \in Threads : point[t] # "terminate"
      BY DEF Linking
    <2>3. ListIntact
      <3>1. \A t \in Added : next[t] = NULL => t = tail
        BY ThreadsAssumption DEF ListRight
      <3>. QED BY <2>1, <2>2, <3>1 DEF ListIntact, ListRight
    <2>4. NextNodeValid
      BY <2>1 DEF NextNodeValid, PositionRight
    <2>. QED BY <2>3, <2>4 DEF ThreadListSound
  <1>. QED BY <1>1, SchedInvariant, PTL

\* A thread that has exited is never given the processor again, and a tick only selects
\* threads of the list that are ready.
THEOREM SchedDestroyedNeverResumes == SchedSpec => DestroyedNeverResumes
  <1>. DEFINE Resumes == currentThread # currentThread' =>
                            status'[currentThread'] = "ready" /\ currentThread' \in Reach
  <1>1. SchedInv /\ [SchedNext]_schedVars => [Resumes]_schedVars
    <2>. SUFFICES ASSUME SchedInv, SchedNext, currentThread # currentThread' PROVE Resumes
      OBVIOUS
    <2>1. Reach = Added
      BY ThreadsAssumption, ChainReached DEF Reach, SchedInv, ListRight
    <2>2. Tick
      BY DEF SchedNext, Step, HeapCall, AllocNode, FreeKernelStack, AcquireHeap, ReleaseHeap,
           AddThread, AcquireList, LinkNode, TerminateNode, ReleaseList, TestCurrentNode,
           RewindCurrentNode, MarkDestroyed, At
    <2>3. status' = status /\ SelectNext
      BY <2>2 DEF Tick, TickSwitch, TickRemove
    <2>4. head' = head
      <3>1. status[currentThread] = "destroyed" => head # currentThread
        BY DEF SchedInv, ListRight, StatusAgrees
      <3>. QED BY <2>2, <3>1 DEF Tick, TickSwitch, TickRemove, links, list_remove
    <2>5. /\ currentThread' \in Threads
          /\ currentThread' = IF currentThreadNode = NULL THEN head ELSE currentThreadNode
      BY <2>3, <2>4 DEF SelectNext
    <2>. QED BY <2>1, <2>3, <2>5, NodeFound
  <1>. QED BY <1>1, SchedInvariant, PTL DEF SchedSpec, DestroyedNeverResumes
=============================================================================

# GarnOS in TLA+

TLA+ models of the GarnOS kernel, its drivers and the ACPI implementation it
contains (uACPI), with TLC runs that check them on small instances and TLAPS
proofs that hold for all instances. Every definition is translated from the C
source; `PROJECT.json` maps each one to the lines it stands for, and lists the
hazards with the lines where they bite.

## The system

GarnOS is a small x86-64 kernel with loadable driver modules. After boot,
everything happens in system calls, exceptions and interrupts.

* **One processor schedules.** The others are started and halted.
* **System calls are preemptible.** They run with interrupts enabled
  (`sys/syscall.c:73` and `:94`), so the timer tick can come between any two
  statements of kernel code. Every tenth tick calls `sched_preempt`.
* **Handlers are not.** Interrupt and exception handlers run with interrupts off.
* **Spinlocks do not mask interrupts.** A thread can be preempted with a lock
  held. Other threads then spin until it runs again; a handler spins forever.
* **Much shared state has no lock at all**: the process list, the keyboard ring,
  the list and reference counts of vnodes, the registers and lists of ACPI events.

These facts decide the grain of the models. Code under a lock that no handler
takes is one step, unless it is itself of interest step by step. Code without a
lock is split at each access to shared state.

### Parts and how they interact

* **Memory.** The page allocator (`mem/pmm`) serves the kernel heap (`mem/kheap`)
  and the page tables and pages of address spaces (`mem/vmm`, `arch/x86_64/mm.c`).
* **Execution.** The tick walks the thread list (`process/sched`, `ds/list.c`)
  that fork and exit change (`process/process.c`); both allocate on the heap.
* **Files.** A descriptor refers to a vnode (`sys/fal`), a read of it goes through
  the FAT driver (`modules/fat`) to the buffer cache (`sys/dal/stor/bcache.c`) and
  to a drive.
* **Devices.** Buses add devices, drivers are offered them (`sys/dal/dev`). The
  keyboard interrupt fills a ring that programs read through the terminal
  (`sys/term`), the clock's interrupt sets the kernel's time (`modules/rtc`).
* **ACPI.** `kernel/acpi` brings uACPI up: tables, namespace, interpreter, events,
  operation regions, resources. Its hooks (`uacpi-hooks.c`) supply locks, events,
  mappings and work queues, and decide some of its behaviour: scheduled work runs
  at once, inside the interrupt; a wait for an event never ends.

## Modules

Variables carry the names of the C variables they stand for, and an action that is
a whole function carries the function's name. A function that is divided has one
action for each stretch between two points where something else may happen; `pc`
(`point` in `Sched`, `stage` in `Vaspace`, `reader` in `InputRing`) names the points. The header of each module says what its state is and what is
abstracted.

| Module | Models | Source |
|---|---|---|
| `Pmm` | `pmm_init` (as `Init`), `pmm_allocate`, `pmm_allocate32`, `pmm_free`, the searches page by page | `mem/pmm/pmm.c` |
| `Kheap` | `kheap_init`, `kmalloc`, `kmfree`, splitting, extending, merging | `mem/kheap/kheap.c` |
| `Vaspace` | mmap, munmap, clone, exit, execve and the loader, page by page and table by table, on page tables made of allocated pages; `VMMlock` | `mem/vmm`, `arch/x86_64/mm.c`, `elf.c`, `process.c` |
| `Sched` | `sched_add_thread` and `list_insert` statement by statement, the tick with removal | `sched.c`, `list.c`, `timer.c` |
| `Process` | fork, exit, waitpid and `process_free` statement by statement, saved contexts | `process.c` |
| `InputRing` | ring buffer with an interrupt-time writer | `term/input.c` |
| `LossyQueue` | what the ring promises: the abstract specification `InputRing` implements | |
| `Bcache` | `bcache_get` with the read inside, `bcache_release` | `bcache.c` |
| `FatRead` | reading along a cluster chain, from a disk that may fail | `modules/fat/file.c` |
| `Vnode` | vnode list, open, close, descriptor tables, and what fork, exit, execve do to them | `vnode.c`, `process.c`, FAT lookup |
| `Dal` | devices and drivers, the two attach loops nested | `device.c`, `driver.c` |
| `Rtc` | update handler, BCD and 12-hour formats, calendar arithmetic | `rtc.c`, `time.c` |
| `Term` | lock, cursor, escape parser with its arguments, the backspace outside the lock, exception report; proofs at the end | `term.c`, `cursor.c`, `kputchar.c` |
| `Gpe` | general purpose events: blocks, users, masks, handlers, dispatch, sleep and wake; interrupt handlers without their context | `uacpi/event.c`, hooks, `cpu/irq.c` |
| `Pm1` | fixed events and the global lock shared with the firmware | `uacpi/event.c`, `registers.c`, `mutex.c`, hooks |
| `AcpiInit` | table array, loading of definition blocks, Load and LoadTable, `_STA` and `_INI` | `uacpi/tables.c`, `uacpi.c`, `acpi-init.c` |
| `Opregion` | address space handlers, regions, attaching, `_REG` | `uacpi/opregion.c`, `default_handlers.c` |
| `Notify` | handler lists and `do_notify`, whose callbacks change them | `uacpi/notify.c` |
| `Osi` | the interface list and `_OSI` | `uacpi/osi.c` |
| `Sleep` | preparing, entering, waking, on full and reduced hardware; shutdown and reboot | `uacpi/sleep.c`, `power.c` |
| `Namespace` | tree, references, path lookup, depth first walk | `uacpi/namespace.c` |
| `AmlControl` | block stack, If, While, Break, Continue, Return, loop timeout | `uacpi/interpreter.c` |
| `AmlCalls` | frames, serialized methods, sync levels, mutexes, unwinding | `uacpi/interpreter.c`, `mutex.c` |
| `AmlObjects` | reference counts, references, packages, buffers, copies and stores | `uacpi/types.c`, `shareable.c`, `interpreter.c` |
| `AmlDecode` | the byte code of every opcode, `exec_op`, the items every handler reads | `uacpi/opcodes.*`, `interpreter.c` |
| `AmlNames` | name strings, search rules, creation of nodes | `uacpi/interpreter.c` |
| `FieldIo` | field units and buffer fields bit by bit | `uacpi/io.c` |
| `Registers` | fixed registers, generic addresses, raw accesses | `uacpi/registers.c`, `io.c`, `tables.c`, hooks |
| `AmlData` | arithmetic, BCD, conversions, concatenation, Match, each with a reference definition | `uacpi/interpreter.c`, `utilities.c`, `stdlib.c` |
| `Printf` | `uacpi_vsnprintf` | `uacpi/stdlib.c` |
| `DeviceInfo` | identifiers, power states, search for devices, PCI routing | `uacpi/utilities.c` |
| `Resources` | resource templates to native form and back, and their sizes | `uacpi/resources.c` |
| `KernelProof` | theorems about `Pmm` and `Sched` | |
| `InterruptsProof` | theorems about `InputRing`, `Gpe` and `Pm1` | |
| `KheapProof`, `VaspaceProof`, `ProcessProof`, `BcacheProof` | theorems about the module they are named after | |
| `Induction` | what a walk along pointers reaches (used by `Kheap`, `Sched` and `Process`), lemmas about it, and induction in the form the proofs use | |

The `MC` modules compose components that belong together. A variable `part` chooses
in the initial state which component a behaviour exercises; the others rest. A run
therefore checks the union of its components' state spaces, each with the constants
that the `MC` module or its `.cfg` gives. Components with theorems are extended rather
than instantiated, so that a run and a theorem are about the
same definition of the property. `Process` is run by itself, and `Sched` also is in one
run.

### How the models treat undefined behaviour

Several parts of the code do reach states in which C says nothing, such as the use
of freed memory. The models do not guess what follows. They do one of two things,
always visibly:

* a **sink**: `wild` (`Sched`, `Process`, `Vnode`), `stuck` (`Sched`), `hung`
  (`Term`, `Resources`), `overrun` (`Term`: a store past `escArgs`), `stopped`
  (`Bcache`), `lost` (`Dal`), `stale` (`Notify`), `sink` (`AmlObjects`), `orphaned`
  (`Namespace`), `raced` (`AmlCalls`), `oob`, `freed` and `foreign` (`Gpe`) record that
  the machine is beyond the model, and no action follows, or none is claimed about;
* a **history flag**: `overlapped` (`Process`), `tailReleased` (`Bcache`), `full`
  (`InputRing`), `freed`, `wrapped`, `raced` (`Term`), `readded`, `torn` (`Vnode`),
  `stolen`, `failed` (`FatRead`: a table entry changed, a read of the disk failed),
  `reattached` (`Dal`), `lost` (`Vaspace`: pages whose only mapping was overwritten),
  `lapsed` (`Gpe`: masked across a wake), `untouched` (`Pm1`: enable bits as the firmware
  left them), `stale` (`Sleep`), `slack` (`AmlCalls`: the sync level may be off), `undef`
  (`Resources`: a count that was never returned) record the one event after which a
  property no longer holds.

A property with such a condition says two things: it holds up to the event, and the
event is the only way to lose it. Sinks are pinned down the other way round where
possible: `StuckOnlyOnExit`, `FreedOnlyInsideExit`, `ExclusiveWriters`,
`PanicMeansNoneAvailable` and `NodeIsDriver` say in which states they can be entered.

### Abstractions worth knowing

* **Pmm**: addresses are page numbers. Callers free pages they own, in whole or in part.
* **Kheap**: addresses and header fields are kept, contents are not. Callers free what
  they hold, once.
* **Vaspace**: an entry is named by its level and index; the kernel's half is left out. Every
  call of the page allocator is a step, and so is what lies between two; of the page it
  gives the proofs know only that it is a free one. Once execve has disabled interrupts no
  other process steps until the image is loaded. `MAP_32BIT`, which ends the search of mmap
  earlier, is left out.
* **Sched**, **Process**: a node is named by its thread, one thread per process. The
  heap appears in `Sched` as its lock; in `Process` the thread list is a set.
* **InputRing**: keys are numbered as typed; one reader.
* **Vnode**: files of the root directory. A search, an insertion and a removal are entered
  and completed in two steps; once one completes inside another the links are not
  followed. A freed vnode is never allocated again, so that its use can be seen. `sys_close` gives back no reference, so `MaxRefs` bounds them.
* **FatRead**, **FieldIo**, **Registers**: a byte or a bit is its place, so one run over
  the shapes stands for all contents.
* **Rtc**: the chip moves from day to day by the Gregorian rule and jumps between a
  few times of day.
* **Gpe**, **Pm1**: one kernel thread calls the API, the interrupt comes at any point,
  the firmware acts at any time. A read-modify-write of a register is two steps. The
  interrupt handler finds in `r14`, which it takes for the list of blocks, nothing, any
  installed block, or something else; the last ends the model.
* **Namespace**: nodes that hang below a method's temporary ones when it ends are not followed.
* **AmlDecode**: opcodes built by one macro are represented by one of them.
* **AmlData**, **Printf**: narrow integers with the widths as parameters.

## Runs

Passing runs. "States" is the number of distinct states.

| Run | Instance, and why it is enough | What it shows | States |
|---|---|---|---|
| `memory` | Allocator: two callers, nine pages with two reserved holes, bitmap bytes of 2 bits so that the last page is beyond the last whole byte, the 4 GiB boundary after two bytes, runs of up to 3 pages. Heap: three pages, the first in the middle, requests of 0, of odd size and of more than a page. Address spaces: two processes, 18 pages of memory, four virtual pages, two levels of tables of two entries, four system calls, an image whose segments share a page | No page has two owners (`NoSharedPage`), counters agree with the bitmap (`CountersExact`), the search is first fit (`FirstFit`), the lock is given back (`LockReleased`); `IndInv` is the invariant of the proof. Blocks are well linked, tile the heap, are backed and merged (`HeapSound`), the heap grows only when nothing fits (`GrowsOnlyWhenNeeded`). A page has one use in one address space, clones are whole, nothing is left behind (`AddressSpacesApart`) | 506,694 |
| `process` | Init and three processes: a parent, a child and a third that changes the list | The list is complete and parents exist until two updates overlap (`ListSound`); a freed process is scheduled, and a child misses its result, only in one window each (`ProcessesSound`); only a parent reaps (`ReapedByParent`) | 1,386,310 |
| `files` | Cache: three buffers, three callers, three blocks and one that cannot be read: the cache can be exhausted and a buffer shared. FAT: three clusters of two sectors of two bytes, any chain, file size, count and offset up to 10, a disk read that fails at any sector or table entry | Reference counts are exact (`RefCountExact`); list, copies and panic (`CacheSound`); a held buffer is not taken over (`HeldStays`). The bytes asked for come in order; what is copied beyond them is the rest of the last cluster, if the request passes the end of the file, and a byte per sector of a cluster (`ReadCorrect`) | 765,312 |
| `devices` | A disk, its partition and a timer, three drivers with overlapping identifiers, loops nested four deep. A BCD clock day by day from 1999 to 2101, the other formats over two years, around midnight, noon and the overflow of `int`. Two writers on a screen of 2 by 3 glyphs and a remainder, coordinates modulo 12, arguments up to 2, one separator more than the array holds. Vnodes: two processes, two names, tables that grow | A device's driver is registered, and nothing that fits is passed over (`DriversBound`). The kernel's time is exact until `int` overflows where the format allows it: a 24-hour clock with a century register; conversions are inverse (`ClockExact`). The cursor stays on the screen until it wraps or two writers move it at once (`CursorOnScreen`), the lock is given back and excludes (`ExclusiveWriters`). A file with a descriptor is never freed, and the list is in order until it is torn or a vnode linked again (`OpenFilesSound`) | 2,106,455 |
| `interrupts` | Three events in the two registers of a FADT block and one of a block device; scenarios that combine the calls that interact. Three fixed events, one of them left out by the initialisation, a firmware that takes and releases the lock at any time, counters that end at 2. A ring of 4, 11 keys (positions wrap twice), reads of up to 3. Four threads: init, two that act on the list at once, one to be created | An event with users that nothing holds back is enabled (`ArmedIsEnabled`), a masked one never gets enabled (`MaskedStaysOff`). Firmware and kernel never both own the lock (`OneOwner`), an enabled fixed event has a handler unless uACPI never wrote its bit (`EnabledHasHandler`). The ring implements `LossyQueue` (`KeysInOrder`), loses nothing unless full (`NothingLost`), delivers in the end (`EventuallyDelivered`). The thread list and the position in it stay valid and a hang only has the one named cause (`ThreadListSound`), an exited thread never runs (`DestroyedNeverResumes`), round robin is fair (`EveryReadyRuns`) | 232,427 |
| `acpi_namespace` | A table array with a null entry, a wrong checksum, overrides and denial; three nested devices, three regions and up to two handlers; two callbacks on a device and the root; six interface strings; S3 and S5 with every kind of package; three nodes, two names, two nested calls | Each definition block runs once, installed tables are mapped, `_INI` runs from the top down (`TablesLoaded`). Regions have the closest handler and exact counts, notifications reach every handler that stays once (twice for the root), the interface list implements a set, the machine sleeps with the types prepared last (`ServicesSound`). The tree, paths and the walk are right under removals (`NamespaceSound`) | 430,052 |
| `acpi_aml` | All programs of up to five operations; one context with deep calls and two mutexes, two contexts that share one; three statements over integers and packages | Control flow follows the program and loops end at their own time (`ControlFollows`). Held mutexes, sync levels and depths agree (`HeldExact`), an error unwinds no further than it must (`UnwindStops`). Counts equal references, copies share nothing (`ObjectsSound`) | 1,343,771 |
| `acpi_data` | Fields that start, end and cross anywhere; firmware tables with and without B blocks; operands from small sets at narrow widths; every opcode; templates of every descriptor | Each computation gives what its reference definition says (`ValuesExact`, `DevicesExact`), handlers read the items their byte code collects and names denote the nodes the search rules give (`CodeRead`) | 602,832 |

The type invariant of a module is a conjunct of one of its structural invariants.
Each property has a mutant in `PROJECT.json`: a version of one mapped definition with
a plausible mistake, under which TLC finds the property violated. The mutated forms
stand in the modules, marked "Variant", before the definitions they change.

`CHECK_DEADLOCK FALSE` is set where the system may stop: after a panic or in a sink,
at the end of a computation, or when a bound is used up. Symmetry is used in `process`,
`files` and `devices` for callers, blocks, names, writers and processes other than
init; no liveness property is checked in those runs.

### Runs that end in a violation

* `sched_exit`: `sys_exit` ends in `while(1) arch_no_op(); //wait for reschedule`
  (process.c:221), stated as `ExitIsRescheduled`. The tick that removes the exited
  thread takes the list's spinlock, and through `kmfree` the heap's, inside the
  interrupt handler. If another thread was preempted with one of them, the handler
  spins for ever with interrupts off.
* `gpe_unmask`: "The only way to enable a masked event is by a call to unmask."
  (uacpi/event.h:230), stated as `UnmaskEnables`. An event that was masked across a
  sleep and a wake has been left out of `current_mask`, and unmasking does not enable it.
* `fixed_lost`: `PM1_STS` is declared write-to-clear (registers.c:30), stated as
  `FixedEventNotLost`. `uacpi_write_register_field` tests the wrong member
  (registers.c:395), writes back what it read, and so clears every pending event.
* `clock_12h`: "if 12 hour format, convert to 24 hour format" (rtc.c:87), stated as
  `HoursConverted`. The kernel's hour is not the hour of the day: 12 PM becomes 0, 12 AM
  stays 12, and in BCD the flag of the afternoon has become part of the number
  before it is tested.

### Other disagreements met while modelling

The models contain the following, and the passing properties are delimited by it.

| The source says | The code does | In the model |
|---|---|---|
| "No available bcache buffers!" (bcache.c:51) | Releasing the tail buffer in place makes it its own predecessor; later releases cut buffers off the list, and the panic comes with one available | `tailReleased` |
| "is this buffer actually loaded with the block?" (bcache.h:11) | A buffer stays valid after its read failed | `loaded` against `valid` |
| "it doesnt need a lock as the wrapped function (term_putchar) already has one" (kputchar.c:4-5) | A backspace gives the lock up early, a second writer enters, and the lock is released under it | `freed` |
| "no available fd found, try to realloc fd table" (vnode.c:361) | The enlarged table is dropped; the process keeps the one that was freed | `capacity` becomes 0 |
| "'ctx' is passed to the provided handler for every invocation." (uacpi/kernel_api.h:226) | The hook drops it (uacpi-hooks.c:222), `irq_handler` passes the interrupted registers, and `handle_gpes` walks from the saved `r14` | `foreign`; most interrupts end the model there |
| `UACPI_FIXED_EVENT_MAX` is the last event (event.c:63 adds 1) | The loops end before it (event.c:69): the real time clock's event is neither disabled at the start nor dispatched | `untouched` |

Further behaviour that the models have, or that lies just outside them.

Kernel:

* The TLB is stale after execve clears an address space (process.c:289); overlapping ELF
  segments remap a page and lose the first (elf.c:398); munmap frees a page before it
  unmaps it (vaspace.c:143).
* execve disables interrupts and then waits for `VMMlock`, which a process preempted inside
  `vmm_map` may hold, and so for ever (process.c:291).
* The vnode list has no lock, and `vnode_close` gives back the lock of a vnode it has freed.
* `fat_read` compares the end of the file with the bytes copied (file.c:252, :264), so that a
  request that starts inside a file and passes its end returns bytes beyond it; it does not
  look at what the drive's read returned.
* Without a century register the year begins with the constant 19, which a BCD clock has
  converted to 13.
* A backspace moves the cursor without the lock; more arguments of an escape sequence than
  `escArgs` holds are stored past it.
* `irq_remove_handler` looks for a function in a list of entries, and removes nothing
  (irq.c:39); a refusal of `irq_add_handler` is not reported to uACPI.
* module.c:34 returns with its lock held; AHCI waits on port 0 (ahci-ata-io.c:109).

ACPI hooks:

* `wait_for_event` never returns (uacpi-hooks.c:319); every thread has the id NULL
  (uacpi-hooks.c:288), so that two contexts that meet at a mutex may both own it.
* A memory write stores eight bytes before it looks at the width (uacpi-hooks.c:33).

uACPI:

* A denied table aborts the bring-up; event blocks in memory are accessed in ports; units of
  24 bits are accessed as other widths.
* Runtime events stay disabled when entering a sleep state fails.
* A Notify on the root calls every handler of the root twice (notify.c:41).
* Nodes of a table loaded by a method below its own temporary nodes are orphaned when it ends.
* The lock of an INDEX field is never released (io.c:284).
* A While loop's time is compared with an expiration that was not assigned
  (interpreter.c:1940). A Return in a While that ends together with its method starts
  another round (interpreter.c:4087).
* A method that returns keeps the mutexes it acquired, and a call that fails after it took the
  mutex of its method keeps that and the sync level.
* A package freed as an element of another is left behind when its storage is shared
  (types.c:369); a `_CID` that is refused, or finds no memory for the list, leaves its object
  behind (utilities.c:487, :518).
* `uacpi_popcount` (stdlib.c:648) shifts only after a set bit: it never returns for an IRQ or
  DMA mask with a gap, which most are, and returns no value for the others.
* The native form of a clock input whose name is a byte longer than a multiple of eight is
  measured a byte short (resources.c:281); half of `device_selection` of an SPI connection is
  copied to padding (resources.c:1017).

### Fairness

Safety properties assume none. The liveness properties assume:

* `LockReleased`: weak fairness of a caller's steps inside a call of `Pmm`. A preempted
  caller is scheduled again by round robin, and none of these steps can be disabled by
  another caller, because it holds the lock.
* `EveryReadyRuns` (and the violated `ExitIsRescheduled`): weak fairness of the tick (the
  timer is periodic and never masked for long) and of each thread's next statement. This
  does not assume what is shown: a thread's statement is enabled only while it has the
  processor, and which thread has it is decided by the model of the scheduler.
* `EventuallyDelivered`: weak fairness of the reader: a shell keeps reading the terminal.
  No fairness of the keyboard.

## Proofs

Eight modules hold theorems; each holds for every value of the constants that satisfies
the named assumptions, which TLC evaluates on the runs' instances.

| Theorem | States |
|---|---|
| `PmmNoSharedPage` | No page has two owners, however calls interleave |
| `PmmCountersExact` | `freePages` and `usedPages` describe the bitmap, though bits are set and cleared without a test |
| `PmmSearchCorrect` | The search is first fit and prefers high memory; the panic comes only when nothing fits |
| `PmmBitmapExact` | A managed page is marked exactly while somebody has it or a call is moving it; reserved pages are never handed out |
| `PmmInvariant` | `Spec => []IndInv`, which the four above follow from |
| `BcacheRefCountExact` | A buffer's reference count is the number of its users on every path |
| `BcacheHeldStays` | No `bcache_get` takes over a buffer that is held |
| `BcacheCacheSound` | Until the tail is released in place: the list holds every buffer once, linked both ways; a block has one copy; the panic means that all buffers are in use and no search runs for ever |
| `KheapHeapSound` | Whatever is allocated and freed in whatever order, the list of blocks is linked both ways and ends at `end`, the blocks tile the heap's pages, what callers hold is backed and aligned, and free neighbours are joined but at a seam between two extensions |
| `KheapGrowsOnlyWhenNeeded` | The heap takes pages only when no free block of the whole list fits, the new block does, and no page is given back |
| `KheapInvariant` | `KheapSpec => []KheapInv`, which `KheapHeapSound` follows from |
| `VaspaceAddressSpacesApart` | However mmap, munmap, fork, execve, exit and waitpid interleave, every page of memory has one use: free, in one place of one address space, or in the hand of one call; a child has its own copy of every page of its parent, and waitpid gives back everything. Excepted are the page munmap gives back too early and pages of images that overlap |
| `VaspaceInvariant` | `VaspaceSpec => []VaspaceInv`, which it follows from |
| `SchedThreadListSound` | Wherever ticks divide `list_insert`, the heap's calls and `sys_exit`: outside an insertion the list links exactly the threads added and not removed, tail and count are right, the scheduler's position is one of its nodes or the pointer not yet written, and the handler hangs only on a lock of an interrupted thread |
| `SchedDestroyedNeverResumes` | A tick gives the processor only to ready threads of the list |
| `SchedInvariant` | `SchedSpec => []SchedInv`, which the two above follow from |
| `InputRingRefinement` | The unlocked ring implements `LossyQueue` (initial states and every step) |
| `InputRingNothingLost` | While the ring has not overrun, every key has been read once or waits |
| `ProcessProcessesSound` | What a tick can find in the middle of fork and exit, and no more |
| `ProcessListSound` | Until two updates of `processList` overlap, it holds exactly the processes that exist, and none of them has a freed parent, however ticks divide the walks of `process_free` |
| `ProcessReapedByParent` | A process is freed by its parent of that moment, after its end |
| `TermExclusiveWriters` | The terminal's lock excludes and is given back, until a backspace breaks it; an exception report hangs only on a writer inside |
| `TermCursorOnScreen` | The cursor stays on the screen after any text, until it wraps or a backspace, which moves it without the lock, may have overlapped another move |
| `Pm1OneOwner` | The firmware and the kernel never both own the global lock |
| `Pm1EnabledHasHandler` | After the initialisation an enabled fixed event has a handler, although the SCI comes between the read and the write of `PM1_EN`; the only exception is the event the initialisation leaves out, until a handler is installed or removed for it |
| `GpeArmedIsEnabled` | No interleaving of the unlocked read-modify-writes with the interrupt, handlers, blocks, sleep and wake leaves an event with users disabled, as long as interrupts find a block or nothing in `r14` |
| `GpeMaskedStaysOff` | No step enables a masked event, except arming the wake events; handlers the kernel could not remove and the other blocks' handlers included |

### Assumptions

* `Pmm`: `CallersAssumption` (the mark for "not held" is not a caller), `SizesAssumption`
  (sizes are natural numbers, page size and bits per byte positive), `MapAssumption`:
  usable memory lies below the highest usable address, and the entry chosen for the bitmap
  has room for all pages the initialisation loop reserves, one more than needed when the
  bitmap fills its last page (the loop's comparison is `<=`).
* `Bcache`: `BcacheAssumption`: at least one buffer, finitely many callers, NULL is none
  of them.
* `Kheap`: `HeapAssumption`: header and page size are multiples of the alignment, a header fits
  a page, the initial heap lies in memory, sizes are natural numbers.
* `Vaspace`: `VaspaceAssumption`: init is a process, memory has a page and page 0 is not one, the
  stack fits the user's half and so do the segments of every image.
* `Sched`: `ThreadsAssumption`: finitely many threads, init is one, NULL and the contents of
  unwritten memory are not.
* `InputRing`: `SizeAssumption`: a ring of at least two cells.
* `Process`: `ProcsAssumption`: finitely many processes, init is one and NULL is not.
* `Term`: `TermAssumption`: a screen that holds a glyph, coordinates that fit the unsigned
  type with room for another line and width.
* `Gpe`: `GpeAssumption`: the FADT describes blocks.
* `Pm1`: `FixedAssumption`: the enable bits the firmware may leave set are fixed events'.

### Arguments

The properties are not inductive as they stand. Each invariant below was checked by TLC
before it was proved; there is one lemma for each action or group of actions and, in it,
one step for each conjunct.

* **`IndInv` (Pmm).** Whether a page that is handed out is free depends on what the search
  knows, which depends on nobody else changing the bitmap meanwhile. `LockInv`: a caller is
  inside a call exactly if it has the lock. `ScanInv`, the loop invariant: the last `found`
  pages are free, the one before them is used, no run of the length wanted ends before here.
  `MoveInv`: pages of a run being marked are free from the current one on, pages in flight
  belong to nobody. `BitmapExact`, `ReservedMarked`, `ReservedNeverOwned`: bits match ownership.
* **`RefInv`, `CacheInv` (Bcache).** `RefInv` ties the counts to the pointers held and to the
  buffer being loaded; the work is in the cardinalities of the sets of holders. `ListInv`: some
  order of all buffers is described by the links in both directions; moving a buffer to the tail
  gives another such order. That the bounded walk of the searches follows the order is shown by
  induction over its steps, so that a search finds a buffer if there is one.
* **`KheapInv` (Kheap).** `MemoryRight` says of the headers in memory, taken as a value, that they
  are a chain from `start` to `end` with the back links to match, that everything is aligned, that
  no block reaches into another, and which addresses they cover. A split, a merge and an extension
  are each shown to take such a memory to such a memory, and kmfree is followed through its three
  changes: after the first, free neighbours may be apart on both sides of the block (`FreeFlag`),
  after the second only in front of it (`FreeUp`), after the third nowhere (`FreeDown`). Alignment
  is part of the invariant because the place of a new header depends on the size requested. That
  kmalloc's search of the list looks at every block is the closure argument of `Reached`.
* **`VaspaceInv` (Vaspace).** `Held` says which page is in which place: the root, an entry, or the
  hand of a call; entries of pages that have been given back count as empty. `Apart` says that
  these places, the free pages and the lost ones divide memory. A step changes one place or moves
  a page between two, and four lemmas on such changes do the work for all actions. What they need
  of a place (empty, or in use) follows from what the loops have still to do: `CallFits` (the
  pages mmap is about to map are not mapped; what the loader has mapped are earlier items; execve
  clears all that is present), `ClonesFit` (a child has what its parent has but for what fork has
  not come to), `DestroysFit`, `OneCaller` (no two calls work on the same process), `NoneIsEmpty`.
* **`SchedInv` (Sched).** `LocksAgree` and `StatusAgrees` tie the locks and the states of the
  threads to the points they have reached, `ChildrenInHand` gives each thread that is not linked
  yet one parent at work on it. `ListRight` describes the list in the middle of an insertion too:
  it is a chain of the threads added, whose last pointer is not written while one of them is
  between link and termination. `PositionRight`: the next node to look at is in the chain, and is
  the current thread only if that is init, so that a tick that removes the current thread's node
  does not go on to use it.
* **`RingInv` (InputRing).** The cells between the two positions hold the keys of the abstract
  queue in order, for each point at which the interrupt can divide a read. Remainders are turned
  into sums first. The refinement mapping is the one of the run's `KeysInOrder`.
* **`ProcInv` (Process).** What each process inside fork, exit or waitpid has in hand: a child
  with one parent at work on it and no thread yet (`ChildInHand`), a zombie child of the caller
  (`ZombieInHand`); and how the thread of a process follows its progress (`ThreadAgrees`).
* **`ListInv` (Process).** The list is the least set that has init and is closed under the
  links, and no two processes have the same successor (`ChainSound`): appending and unlinking
  keep that, with the tail as `LastSound` says for each half of an update. The walk that hands
  children to init may stand on a process another call has unlinked, so `ParentSound` does not
  say where it stands: every closed set that has its position has the children still to be
  handed over.
* **`LockInv`, `CursorOnScreen` (Term).** A lock that is taken has a writer inside, whatever was
  released before; while no two moves overlap each one starts where the last ended. That an escape sequence that moves the cursor `arg0` times stays on the screen
  is an induction over the moves.
* **`Pm1Inv` (Pm1).** Whoever believes to own the lock has the word marked owned; a release is on
  its way only for a thread that owns it (`OwnerInv`). A write of `PM1_EN` in progress restores
  only bits of events with handlers, or bits nobody has written yet (`EnableInv`); the handler of the global lock is never removed.
* **`GpeInv` (Gpe).** A call between its read and its write of an enable register holds a value
  that may be stale. The interrupt in between only clears bits, so none that must be set is missing
  from the value (`RmwInv`), and the call's own event comes out right for a reason that depends on
  the call. `UsersInv` and `AwakeInv` tie `runtime_mask` to users and linked blocks, `current_mask`
  to `runtime_mask`, and say that masked events are off while awake.

`Induction` states induction over the naturals for a set in place of a property, and that a
function can be iterated; both are proved from the well-foundedness of the order. `Reached` is
the bounded walk along the pointers of a list. It reaches the least closed set that has its
start, which is shown by counting: each of its steps finds a new node or has found them all.
`Chain` says that pointers make one list of a set of nodes; lemmas say that a walk reaches
exactly those, and that inserting and unlinking a node give a chain again.

### Only model-checked

* Liveness (`LockReleased`, `EveryReadyRuns`, `EventuallyDelivered`): beyond the prover.
* The `Vnode` and `Dal` invariants, which are about descriptor tables and nested attach loops:
  not attempted.
* The computations (`Rtc`, `FatRead`, `FieldIo`, `Registers`, `AmlData`, `Printf`, `DeviceInfo`,
  `Resources`, `AmlDecode`, `AmlNames`): checked against reference definitions over bounded
  inputs; several use recursive operators, with which the prover cannot work.
* The AML interpreter's control flow, calls and objects, and the namespace and services of ACPI.

## What is not modelled

* **Interrupt lines, VFS and devfs, drives and GPT**: built at boot, then read only; what they
  answer is an input of the modules above.
* **FAT directories and long names, FAT12 and FAT16**: only reading is modelled.
* **Transfers through descriptors and their offsets**, paths below the root.
* **The argument and stack layout of execve**, **ELF relocation and module symbols**, **initial
  ramdisk**: computation on file contents.
* **AHCI and IDE**: a drive is a read that succeeds or fails. **PS/2 initialisation, PIT, buses,
  IOAPIC, traps, SMP start, framebuffer, serial port**: register programming or pure output, in
  one sequence.
* **ACPI hooks for memory, ports and PCI**: single calls without state.
* **Printing, console, boot, panic, user programs, utilities**: no shared state of their own.
* The font and the boot protocol headers are third-party data.

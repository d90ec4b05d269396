----------------------------- MODULE MCDevices -----------------------------
(***************************************************************************)
(* Instances for TLC of devices and their drivers, the wall clock, the     *)
(* terminal, and the vnodes through which processes open files. `part'     *)
(* chooses which component a behaviour exercises; the others rest, the     *)
(* terminal in its initial state.                                          *)
(***************************************************************************)
EXTENDS Term, TLC

CONSTANTS disk, volume, timer, ahci, fat, pit, NULL
CONSTANTS Procs, InitProc, Names, InitName

VARIABLES deviceList, driverList, loaded, node, stack, added, drives, offered, reattached,
          lost
dvars == <<deviceList, driverList, loaded, node, stack, added, drives, offered, reattached,
          lost>>
VARIABLES fmt, year, month, day, daysSinceEpoch, tod, kernelTime, attached
rvars == <<fmt, year, month, day, daysSinceEpoch, tod, kernelTime, attached>>
tvars == vars
VARIABLES v_next, v_prev, v_head, v_tail, state, filename, v_refCount, running, fdTable,
          fdMax, capacity, v_pc, cand, wanted, readded, torn, wild
vvars == <<v_next, v_prev, v_head, v_tail, state, filename, v_refCount, running, fdTable,
          fdMax, capacity, v_pc, cand, wanted, readded, torn, wild>>
VARIABLE part

(* Dal: two drivers know the partition's identifier *)
SomeMatches == {<<ahci, disk>>, <<fat, volume>>, <<ahci, volume>>, <<pit, timer>>, <<pit, disk>>}
D == INSTANCE Dal WITH Devices <- {disk, volume, timer}, Partitions <- {volume},
       Drivers <- {ahci, fat, pit}, Matches <- SomeMatches, MaxDepth <- 4

ASSUME DalConfigured == D!DalOK

(* Rtc: a BCD clock in 24-hour format, day by day from 1999 to 2101, and the other formats over two years; the first and the last second of a day, those before and after the int overflow on 2038-01-19, noon, and an hour of the afternoon *)
Chip(b, h, c, y) == [binary |-> b, hour24 |-> h, century |-> c, lastYear |-> y]
Chips == {Chip(b, h, c, 2000) : b \in BOOLEAN, h \in BOOLEAN, c \in BOOLEAN} \cup {Chip(FALSE, TRUE, TRUE, 2101)}
TimesOfDay == {0, 11647, 11648, 43200, 50400, 86399}
R == INSTANCE Rtc WITH Formats <- Chips, FirstYear <- 1999, Tods <- TimesOfDay

(* Vnode: two processes and two files; descriptor tables that grow *)
V == INSTANCE Vnode WITH PROCESS_INIT_FD <- 2, PROCESS_MAX_FD <- 12, MaxVnodes <- 4,
       MaxRefs <- 2, next <- v_next, prev <- v_prev, head <- v_head, tail <- v_tail,
       refCount <- v_refCount, pc <- v_pc

(* Term: a screen that is not a whole number of glyphs wide or high *)
\* Writers are interchangeable.
Alike == Permutations(Writers)

DRests ==
    /\ deviceList = 0 /\ driverList = 0 /\ loaded = 0 /\ node = 0 /\ stack = 0 /\ added = 0
    /\ drives = 0 /\ offered = 0 /\ reattached = 0 /\ lost = 0
RRests ==
    /\ fmt = 0 /\ year = 0 /\ month = 0 /\ day = 0 /\ daysSinceEpoch = 0 /\ tod = 0
    /\ kernelTime = 0 /\ attached = 0
TRests == Init
VRests ==
    /\ v_next = 0 /\ v_prev = 0 /\ v_head = 0 /\ v_tail = 0 /\ state = 0 /\ filename = 0
    /\ v_refCount = 0 /\ running = 0 /\ fdTable = 0 /\ fdMax = 0 /\ capacity = 0 /\ v_pc = 0
    /\ cand = 0 /\ wanted = 0 /\ readded = 0 /\ torn = 0 /\ wild = 0

AllInit ==
    \/ part = "dal" /\ D!Init /\ RRests /\ TRests /\ VRests
    \/ part = "clock" /\ R!Init /\ DRests /\ TRests /\ VRests
    \/ part = "term" /\ Init /\ DRests /\ RRests /\ VRests
    \/ part = "vnode" /\ V!Init /\ DRests /\ RRests /\ TRests
AllNext ==
    \/ part = "dal" /\ D!Next /\ UNCHANGED <<part, rvars, tvars, vvars>>
    \/ part = "clock" /\ R!Next /\ UNCHANGED <<part, dvars, tvars, vvars>>
    \/ part = "term" /\ Next /\ UNCHANGED <<part, dvars, rvars, vvars>>
    \/ part = "vnode" /\ V!Next /\ UNCHANGED <<part, dvars, rvars, tvars>>
AllSpec == AllInit /\ [][AllNext]_<<part, dvars, rvars, tvars, vvars>>

(* A device's driver is one that is loaded and registered, and every device has been
   offered to every driver that matches it, up to the first that took it
   (device_attach_to_driver, device_driver_attach). *)
DriversBound == part = "dal" => D!NodeIsDriver /\ D!Offered
(* Until the int arithmetic overflows, the time the kernel reads from a chip in 24-hour
   format with a century register is the chip's (of the other chips, where
   Rtc!KernelTimeExact says so), and the calendar conversions are inverses on every day
   (rtc_handler, time.c). *)
ClockExact == part = "clock" => R!KernelTimeExact /\ R!RoundTrip
(* rtc.c:87, "if 12 hour format, convert to 24 hour format": the hour that rtc_handler
   passes on is the hour of the day. *)
HoursConverted == part = "clock" => R!HoursAre24
(* An open file is never freed, and the vnode list is intact until a listed vnode is
   listed again or two processes are in the list at once, which has no lock (vnode_open,
   vnode_close, sys_fork, process_free). *)
OpenFilesSound == part = "vnode" => V!OpenFilesAlive /\ V!ListIntact
=============================================================================

-------------------------------- MODULE Dal ---------------------------------
(***************************************************************************)
(* Devices and drivers, src/kernel/sys/dal/dev/device.c and driver.c: a    *)
(* new device is offered to the registered drivers, a new driver the       *)
(* devices. What a driver does to attach a device may add devices (the     *)
(* controller its drives, the drive its partitions), register drivers      *)
(* (mounting the system partition) or remove the device (the FAT driver,   *)
(* of a partition), so that these loops nest; the stack is the machine's.  *)
(***************************************************************************)
EXTENDS Integers, Sequences, FiniteSets, SequencesExt

CONSTANTS
    Devices,
    Partitions,      \* the devices that stand for a partition
    Drivers,         \* the driver files
    Matches,         \* pairs of a driver and a device with a common identifier
    MaxDepth,        \* bound: nested loops
    NULL

\* What is assumed of the devices and the drivers.
DalOK ==
    /\ Partitions \subseteq Devices /\ Matches \subseteq Drivers \X Devices
    /\ MaxDepth \in Nat /\ NULL \notin Devices \cup Drivers

VARIABLES
    deviceList, driverList,
    loaded,          \* the drivers whose file has been loaded
    node,            \* device->node: the driver of a device
    stack,           \* the loops that run: the one on top last
    added,           \* the devices ever added
    drives,          \* pairs of a driver and a device it attached
    offered,         \* pairs of a driver and a device the driver was tried on
    reattached,      \* a device with a driver has been given to another
    lost             \* a loop went on from an item that is not in its list

lists == <<deviceList, driverList>>
ghosts == <<added, drives, offered, reattached>>
vars == <<lists, loaded, node, stack, ghosts, lost>>

Init ==
    /\ deviceList = <<>> /\ driverList = <<>>
    /\ loaded = {} /\ node = [d \in Devices |-> NULL]
    /\ stack = <<>> /\ added = {} /\ drives = {} /\ offered = {}
    /\ reattached = FALSE /\ lost = FALSE

----------------------------------------------------------------------------
\* A loop over drivers for a device, or over devices for a driver.
top == stack[Len(stack)]
driverOf(f) == IF f.over = "drivers" THEN f.item ELSE f.for
deviceOf(f) == IF f.over = "drivers" THEN f.for ELSE f.item
TopDriver == driverOf(top)
TopDevice == deviceOf(top)

ListOf(f) == IF f.over = "drivers" THEN driverList ELSE deviceList

Loop(over, for, list) ==
    IF list = <<>> THEN stack
    ELSE Append(stack, [over |-> over, for |-> for, item |-> list[1], at |-> "offer"])

\* The next item of the loop on top, which ends after the last.
Advance ==
    LET list == ListOf(top)
        at == {i \in DOMAIN list : list[i] = top.item}
    IN  IF at = {} THEN lost' = TRUE /\ UNCHANGED stack
        ELSE LET i == CHOOSE i \in at : TRUE
             IN  /\ stack' = IF i = Len(list) THEN Front(stack)
                             ELSE [stack EXCEPT ![Len(stack)].item = list[i+1],
                                                ![Len(stack)].at = "offer"]
                 /\ UNCHANGED lost

\* Devices are added and drivers registered by the boot thread and, during an
\* attach, by the driver.
CanCall ==
    /\ ~lost
    /\ stack # <<>> => top.at = "attach" /\ Len(stack) < MaxDepth

device_add(d) ==
    /\ CanCall /\ d \notin added
    /\ deviceList' = Append(deviceList, d)
    /\ added' = added \cup {d}
    /\ stack' = Loop("drivers", d, driverList)
    /\ UNCHANGED <<driverList, loaded, node, drives, offered, reattached, lost>>

\* A file that is registered already is refused.
device_driver_register(n) ==
    /\ CanCall /\ n \notin ToSet(driverList)
    /\ driverList' = Append(driverList, n)
    /\ stack' = Loop("devices", n, deviceList)
    /\ UNCHANGED <<deviceList, loaded, node, ghosts, lost>>

\* A loaded driver stays.
device_driver_unregister(n) ==
    /\ stack = <<>> /\ ~lost
    /\ n \in ToSet(driverList) /\ n \notin loaded
    /\ driverList' = SelectSeq(driverList, LAMBDA m : m # n)
    /\ UNCHANGED <<deviceList, loaded, node, stack, ghosts, lost>>

----------------------------------------------------------------------------
\* One turn of device_driver_attach or device_attach_to_driver.

\* A variant: the first item alone is tried.
MatchFirst == <<TopDriver, TopDevice>> \in Matches /\ top.item = ListOf(top)[1]

Match == <<TopDriver, TopDevice>> \in Matches

\* No common identifier, a file that cannot be loaded, or a driver that does
\* not want the device.
Pass ==
    /\ stack # <<>> /\ ~lost /\ top.at = "offer"
    /\ offered' = IF Match THEN offered \cup {<<TopDriver, TopDevice>>} ELSE offered
    /\ loaded' \in IF Match THEN {loaded, loaded \cup {TopDriver}} ELSE {loaded}
    /\ Advance
    /\ UNCHANGED <<lists, node, added, drives, reattached>>

\* The driver is loaded, if it was not, and its probe accepts the device.
Probe ==
    /\ stack # <<>> /\ ~lost /\ top.at = "offer"
    /\ Match
    /\ loaded' = loaded \cup {TopDriver}
    /\ offered' = offered \cup {<<TopDriver, TopDevice>>}
    /\ reattached' = (reattached \/ node[TopDevice] # NULL)
    /\ node' = [node EXCEPT ![TopDevice] = TopDriver]
    /\ stack' = [stack EXCEPT ![Len(stack)].at = "attach"]
    /\ UNCHANGED <<lists, added, drives, lost>>

Attached ==
    /\ stack # <<>> /\ ~lost /\ top.at = "attach"
    /\ drives' = drives \cup {<<TopDriver, TopDevice>>}
    /\ stack' = Front(stack)
    /\ UNCHANGED <<lists, loaded, node, added, offered, reattached, lost>>

AttachFailed ==
    /\ stack # <<>> /\ ~lost /\ top.at = "attach"
    /\ node' = [node EXCEPT ![TopDevice] = NULL]
    /\ Advance
    /\ UNCHANGED <<lists, loaded, ghosts>>

\* The FAT driver removes the partition it attaches, before it mounts it.
device_remove ==
    /\ stack # <<>> /\ ~lost /\ top.at = "attach"
    /\ TopDevice \in Partitions \cap ToSet(deviceList)
    /\ deviceList' = SelectSeq(deviceList, LAMBDA d : d # TopDevice)
    /\ UNCHANGED <<driverList, loaded, node, stack, ghosts, lost>>

Next ==
    \/ \E d \in Devices : device_add(d)
    \/ \E n \in Drivers : device_driver_register(n) \/ device_driver_unregister(n)
    \/ Pass \/ Probe \/ Attached \/ AttachFailed \/ device_remove

Spec == Init /\ [][Next]_vars

----------------------------------------------------------------------------
\* Properties.

TypeOK ==
    /\ ToSet(deviceList) \subseteq added /\ ToSet(driverList) \subseteq Drivers
    /\ loaded \subseteq Drivers /\ node \in [Devices -> Drivers \cup {NULL}]
    /\ \A f \in ToSet(stack) : driverOf(f) \in Drivers /\ deviceOf(f) \in Devices

\* A device's driver is registered and loaded, through any nesting of the two
\* loops. Between calls it is the driver that attached the device, unless a
\* device was attached twice (device_attach_to_driver does not look whether a
\* device has a driver). A loop is lost only at a partition that was removed
\* from the list it goes over, by a driver that then failed.
NodeIsDriver ==
    /\ TypeOK
    /\ \A d \in Devices : node[d] # NULL => node[d] \in loaded \cap ToSet(driverList)
    /\ stack = <<>> /\ ~reattached =>
         \A d \in Devices, n \in Drivers : node[d] = n <=> <<n, d>> \in drives
    /\ lost => top.over = "devices" /\ top.item \in Partitions \ ToSet(deviceList)

\* Between calls, every device of the list has been tried with every registered
\* driver it has an identifier of, except that a device which got a driver is
\* tried no further, and a driver which got a device is tried on no other that
\* was there before it (both loops return at the first success).
Offered ==
    stack = <<>> /\ ~lost =>
        \A d \in ToSet(deviceList), n \in ToSet(driverList) :
            <<n, d>> \in Matches =>
                \/ <<n, d>> \in offered
                \/ \E m \in Drivers : <<m, d>> \in drives
                \/ \E e \in Devices : <<n, e>> \in drives
=============================================================================

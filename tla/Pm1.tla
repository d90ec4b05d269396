--------------------------------- MODULE Pm1 ---------------------------------
(***************************************************************************)
(* The fixed ACPI events and the global lock: the fixed half of event.c,    *)
(* the PM1 registers of registers.c, mutex.c, and the event, mutex and      *)
(* spinlock hooks of uacpi-hooks.c.                                         *)
(*                                                                          *)
(* One kernel thread uses uACPI; the SCI runs on top of it on the same CPU, *)
(* so that while `sci' is not idle the thread does not step; the firmware   *)
(* takes and releases its side of the global lock at any time.              *)
(*                                                                          *)
(* Two things the hooks do decide the control: kernel_signal_event moves a  *)
(* pointer and leaves the counter at 0, so a wait without timeout spins for *)
(* ever with eventLock held; and every thread id is NULL, so an AML mutex   *)
(* that is held at all counts as the caller's own.                          *)
(***************************************************************************)
EXTENDS Naturals, FiniteSets

CONSTANTS Served,     \* the events below UACPI_FIXED_EVENT_MAX
          Unserved,   \* UACPI_FIXED_EVENT_RTC, the MAX itself
          Sticky,     \* the events whose enable bit the platform implements
          SpinMax,    \* 0xFFFF attempts
          DepthMax,   \* 0xFFFF recursive acquires
          SeqMax      \* 0xFFFFFFFF

VARIABLES sts, en, handlers,      \* PM1_STS, PM1_EN, fixed_event_handlers
          untouched,              \* events whose enable bit uACPI has never written
          rmw,                    \* the thread's write of PM1_EN in progress
          sci,                    \* the SCI handler: masks it read, events to go
          word, fw, os,           \* FACS global_lock; who believes it owns it
          waiting,                \* global_lock_pending
          spin, evLock,           \* global_lock_spinlock, eventLock
          taken, owner, depth,    \* global_lock_mutex; the AML mutex over it
          seq, acquired, mine,    \* global_lock_seq_num, global_lock_acquired, *out_seq
          pc, spins, seen, by,    \* the thread in mutex.c; by: "api" or "aml"
          inited

thread == <<pc, spins, seen, by>>
locks == <<word, fw, os, waiting, spin, evLock, taken, owner, depth, seq, acquired, mine>>
fixedVars == <<sts, en, handlers, untouched, rmw, sci, locks, thread, inited>>

GL == "GLOBAL_LOCK"
All == Served \cup Unserved
(* what is assumed of the platform: it implements bits of fixed events only *)
ASSUME FixedAssumption == Sticky \subseteq All

NoSci == [on |-> FALSE, status |-> {}, enable |-> {}, todo |-> {}]
NoRmw == [to |-> "none"]
Free == [owned |-> FALSE, pending |-> FALSE]

FixedInit ==
    /\ sts = {} /\ en \in SUBSET Sticky /\ handlers = {} /\ untouched = All /\ rmw = NoRmw
    /\ sci = NoSci
    /\ word = Free /\ fw = FALSE /\ os = FALSE /\ waiting = FALSE
    /\ spin = "none" /\ evLock = "none" /\ taken = FALSE /\ owner = "none" /\ depth = 0
    /\ seq = 0 /\ acquired = FALSE /\ mine = 0
    /\ pc = "idle" /\ spins = 0 /\ seen = Free /\ by = "api" /\ inited = FALSE

ThreadRuns == ~sci.on

-----------------------------------------------------------------------------
(* registers.c *)

(* uacpi_write_register_field on PM1_STS.  It tests reg->kind where access_kind is
   meant, so the status register takes the read-modify-write path, and writing back
   the bits that were read clears every pending event. *)
ClearStatus(e) == sts \ (sts \cup {e})

(* uacpi_write_register_field on PM1_EN: read, then in SetEventWrite the write and
   set_event's read back, which fails where the platform has no such bit *)
SetEvent(e, value, to) == rmw' = [to |-> to, e |-> e, value |-> value, seen |-> en]

Enabled(e, value, was) == IF value THEN was \cup ({e} \cap Sticky) ELSE was \ {e}

-----------------------------------------------------------------------------
(* event.c: the fixed events *)

(* Variant: the enable bits are left as the firmware set them. *)
initialize_fixed_eventsVariant ==
    /\ ~inited /\ inited' = TRUE
    /\ UNCHANGED en /\ handlers' = handlers \cup ({GL} \cap Sticky)
    /\ untouched' = untouched \ Served
    /\ UNCHANGED <<sts, rmw, sci, locks, thread>>

(* initialize_fixed_events, and uacpi_initialize_events' installation of the global
   lock's handler; the events from UACPI_FIXED_EVENT_MAX on keep what the firmware left *)
initialize_fixed_events ==
    /\ ~inited /\ inited' = TRUE
    /\ en' = (en \ Served) \cup ({GL} \cap Sticky)
    /\ handlers' = handlers \cup ({GL} \cap Sticky) /\ untouched' = untouched \ Served
    /\ UNCHANGED <<sts, rmw, sci, locks, thread>>

FixedCall == inited /\ ThreadRuns /\ rmw = NoRmw /\ pc = "idle"

uacpi_install_fixed_event_handler(e) ==
    /\ FixedCall /\ e \notin handlers
    /\ handlers' = handlers \cup {e}
    /\ SetEvent(e, TRUE, "install")
    /\ UNCHANGED <<sts, en, untouched, sci, locks, thread, inited>>
uacpi_uninstall_fixed_event_handler(e) ==
    /\ FixedCall /\ e # GL
    /\ SetEvent(e, FALSE, "uninstall")
    /\ UNCHANGED <<sts, en, handlers, untouched, sci, locks, thread, inited>>
uacpi_enable_fixed_event(e) ==
    /\ FixedCall /\ e \in handlers
    /\ SetEvent(e, TRUE, "set")
    /\ UNCHANGED <<sts, en, handlers, untouched, sci, locks, thread, inited>>
uacpi_disable_fixed_event(e) ==
    /\ FixedCall
    /\ SetEvent(e, FALSE, "set")
    /\ UNCHANGED <<sts, en, handlers, untouched, sci, locks, thread, inited>>
uacpi_clear_fixed_event(e) ==
    /\ FixedCall
    /\ sts' = ClearStatus(e)
    /\ UNCHANGED <<en, handlers, untouched, rmw, sci, locks, thread, inited>>
uacpi_clear_all_events ==
    /\ FixedCall /\ sts' = {}
    /\ UNCHANGED <<en, handlers, untouched, rmw, sci, locks, thread, inited>>

(* the write, the read back and what the caller does with the answer *)
set_event ==
    /\ ThreadRuns /\ rmw # NoRmw
    /\ en' = Enabled(rmw.e, rmw.value, rmw.seen)
    /\ handlers' = IF \/ rmw.to = "install" /\ rmw.e \notin en'
                      \/ rmw.to = "uninstall"
                   THEN handlers \ {rmw.e} ELSE handlers
    /\ rmw' = NoRmw /\ untouched' = untouched \ {rmw.e}
    /\ UNCHANGED <<sts, sci, locks, thread, inited>>

(* handle_fixed_events: both masks are read once *)
handle_fixed_events ==
    /\ inited /\ ~sci.on /\ sts \cap en # {}
    /\ sci' = [on |-> TRUE, status |-> sts, enable |-> en, todo |-> sts \cap en \cap Served]
    /\ UNCHANGED <<sts, en, handlers, untouched, rmw, locks, thread, inited>>

(* handle_global_lock: the spinlock, then signal_event's eventLock.  An interrupt
   that finds either held by the thread below it spins for ever. *)
GlobalLockNotified ==
    /\ spin = "none" /\ (waiting => evLock = "none")
    /\ waiting' = FALSE
    /\ UNCHANGED <<word, fw, os, spin, evLock, taken, owner, depth, seq, acquired, mine>>

(* dispatch_fixed_event, in the order of the array *)
dispatch_fixed_event(e) ==
    /\ sci.on /\ e \in sci.todo
    /\ sts' = ClearStatus(e)
    /\ sci' = [sci EXCEPT !.todo = @ \ {e}]
    /\ en' = IF e \in handlers THEN en ELSE en \ {e}
    /\ IF e = GL /\ e \in handlers THEN GlobalLockNotified ELSE UNCHANGED locks
    /\ UNCHANGED <<handlers, untouched, rmw, thread, inited>>
sci_done ==
    /\ sci.on /\ sci.todo = {}
    /\ sci' = NoSci
    /\ UNCHANGED <<sts, en, handlers, untouched, rmw, locks, thread, inited>>

-----------------------------------------------------------------------------
(* mutex.c *)

HasGlobalLock == GL \in handlers
go(p) == pc' = p
rest == <<sts, en, handlers, untouched, rmw, sci, inited>>

(* uacpi_acquire_global_lock, and uacpi_acquire_aml_mutex of a mutex nobody holds;
   a timeout below 0xFFFF fails when the mutex stays taken, and at once when 0 *)
acquire(who) ==
    /\ FixedCall
    /\ who = "aml" => owner = "none"
    /\ \/ /\ ~taken /\ taken' = TRUE /\ by' = who /\ spins' = 0
          /\ go(IF HasGlobalLock THEN "lock" ELSE "got")
       \/ UNCHANGED <<taken, by, spins, pc>>    \* timeout
    /\ UNCHANGED <<rest, word, fw, os, waiting, spin, evLock, owner, depth, seq, acquired,
                   mine, seen>>

(* the mutex is held, so it is "this thread's": one level deeper *)
acquire_again ==
    /\ FixedCall /\ owner # "none" /\ depth < DepthMax
    /\ depth' = depth + 1
    /\ UNCHANGED <<rest, word, fw, os, waiting, spin, evLock, taken, owner, seq, acquired,
                   mine, thread>>

(* uacpi_acquire_global_lock_from_firmware: one turn of its loop *)
lock_spin ==
    /\ ThreadRuns /\ pc = "lock" /\ spin = "none"
    /\ spin' = "thread" /\ spins' = spins + 1 /\ seen' = word /\ go("cmpxchg")
    /\ UNCHANGED <<rest, word, fw, os, waiting, evLock, taken, owner, depth, seq, acquired,
                   mine, by>>
(* Variant: the word is written without comparing it with the one read. *)
try_acquireVariant ==
    /\ ThreadRuns /\ pc = "cmpxchg"
    /\ word' = [owned |-> TRUE, pending |-> seen.owned]
    /\ os' = (os \/ ~seen.owned) /\ go(IF seen.owned THEN "failed" ELSE "got")
    /\ IF seen.owned THEN UNCHANGED <<spin, waiting>> ELSE spin' = "none" /\ waiting' = FALSE
    /\ UNCHANGED <<rest, fw, evLock, taken, owner, depth, seq, acquired, mine, seen, spins, by>>

(* try_acquire_global_lock_from_firmware: owned always, pending if it was owned *)
try_acquire ==
    /\ ThreadRuns /\ pc = "cmpxchg"
    /\ IF word # seen
         THEN seen' = word /\ UNCHANGED <<word, os, spin, waiting, pc>>
         ELSE /\ word' = [owned |-> TRUE, pending |-> seen.owned]
              /\ os' = (os \/ ~seen.owned)
              /\ go(IF seen.owned THEN "failed" ELSE "got")
              /\ IF seen.owned THEN UNCHANGED <<spin, waiting>>
                               ELSE spin' = "none" /\ waiting' = FALSE
              /\ UNCHANGED seen
    /\ UNCHANGED <<rest, fw, evLock, taken, owner, depth, seq, acquired, mine, spins, by>>
(* not acquired: give up after 0xFFFF attempts, or wait for the notification *)
try_failed ==
    /\ ThreadRuns /\ pc = "failed" /\ spin' = "none"
    /\ waiting' = (spins # SpinMax)
    /\ taken' = (spins # SpinMax)
    /\ go(IF spins = SpinMax THEN "idle" ELSE "wait")
    /\ UNCHANGED <<rest, word, fw, os, evLock, owner, depth, seq, acquired, mine, spins,
                   seen, by>>
(* wait_for_event takes eventLock and never sees the counter rise *)
wait_for_event ==
    /\ ThreadRuns /\ pc = "wait" /\ evLock = "none"
    /\ evLock' = "thread" /\ go("spinning")
    /\ UNCHANGED <<rest, word, fw, os, waiting, spin, taken, owner, depth, seq, acquired,
                   mine, spins, seen, by>>

acquired_now ==
    /\ ThreadRuns /\ pc = "got" /\ go("idle")
    /\ \/ /\ by = "api" /\ acquired' = TRUE
          /\ mine' = (IF seq = SeqMax THEN 0 ELSE seq)
          /\ seq' = mine' + 1 /\ UNCHANGED <<owner, depth>>
       \/ /\ by = "aml" /\ owner' = "NULL" /\ depth' = 1
          /\ UNCHANGED <<seq, acquired, mine>>
    /\ UNCHANGED <<rest, word, fw, os, waiting, spin, evLock, taken, spins, seen, by>>

(* uacpi_release_global_lock with the number the acquire returned: it is compared with
   the number already advanced past it, so that the call is refused *)
uacpi_release_global_lock ==
    /\ FixedCall /\ acquired
    /\ IF mine # seq THEN UNCHANGED <<acquired, thread>>
       ELSE /\ acquired' = FALSE /\ by' = "api" /\ seen' = word /\ UNCHANGED spins
            /\ go(IF HasGlobalLock THEN "release" ELSE "released")
    /\ UNCHANGED <<rest, word, fw, os, waiting, spin, evLock, taken, owner, depth, seq, mine>>
uacpi_release_aml_mutex ==
    /\ FixedCall /\ owner # "none"
    /\ depth' = depth - 1
    /\ IF depth > 1 THEN UNCHANGED <<thread>>
       ELSE /\ go(IF HasGlobalLock THEN "release" ELSE "released")
            /\ by' = "aml" /\ seen' = word /\ UNCHANGED spins
    /\ UNCHANGED <<rest, word, fw, os, waiting, spin, evLock, taken, owner, seq, acquired, mine>>
(* do_release_global_lock_to_firmware; a pending firmware is told through GBL_RLS *)
do_release ==
    /\ ThreadRuns /\ pc = "release"
    /\ IF word # seen THEN seen' = word /\ UNCHANGED <<word, os, pc>>
       ELSE word' = Free /\ os' = FALSE /\ go("released") /\ UNCHANGED seen
    /\ UNCHANGED <<rest, fw, waiting, spin, evLock, taken, owner, depth, seq, acquired, mine,
                   spins, by>>
released ==
    /\ ThreadRuns /\ pc = "released" /\ go("idle") /\ taken' = FALSE
    /\ owner' = IF by = "aml" THEN "none" ELSE owner
    /\ UNCHANGED <<rest, word, fw, os, waiting, spin, evLock, depth, seq, acquired, mine,
                   spins, seen, by>>

-----------------------------------------------------------------------------
(* The hardware and the firmware (external) *)
Fires(e) ==
    /\ e # GL /\ e \notin sts /\ sts' = sts \cup {e}
    /\ UNCHANGED <<en, handlers, untouched, rmw, sci, locks, thread, inited>>
FirmwareTries ==
    /\ ~fw /\ Sticky \cap {GL} # {}
    /\ word' = [owned |-> TRUE, pending |-> word.owned]
    /\ fw' = ~word.owned
    /\ UNCHANGED <<rest, os, waiting, spin, evLock, taken, owner, depth, seq, acquired, mine,
                   thread>>
FirmwareReleases ==
    /\ fw /\ fw' = FALSE /\ word' = Free
    /\ sts' = IF word.pending THEN sts \cup {GL} ELSE sts
    /\ UNCHANGED <<en, handlers, untouched, rmw, sci, inited, os, waiting, spin, evLock,
                   taken, owner, depth, seq, acquired, mine, thread>>

FixedEvents ==
    \/ \E e \in All : \/ uacpi_install_fixed_event_handler(e)
                      \/ uacpi_uninstall_fixed_event_handler(e)
                      \/ uacpi_enable_fixed_event(e) \/ uacpi_disable_fixed_event(e)
                      \/ uacpi_clear_fixed_event(e)
    \/ uacpi_clear_all_events \/ set_event
SciStep == handle_fixed_events \/ (\E e \in Served : dispatch_fixed_event(e)) \/ sci_done
Lock ==
    \/ \E who \in {"api", "aml"} : acquire(who)
    \/ acquire_again \/ lock_spin \/ try_acquire \/ try_failed \/ wait_for_event
    \/ acquired_now \/ uacpi_release_global_lock \/ uacpi_release_aml_mutex
    \/ do_release \/ released
Outside == (\E e \in All : Fires(e)) \/ FirmwareTries \/ FirmwareReleases
FixedNext == initialize_fixed_events \/ FixedEvents \/ SciStep \/ Lock \/ Outside
FixedSpec == FixedInit /\ [][FixedNext]_fixedVars

-----------------------------------------------------------------------------
(* The firmware and the operating system never both own the global lock: the
   cmpxchg loops of mutex.c against a firmware that changes the word in between. *)
OneOwner == ~(fw /\ os)

(* A fixed event's enable bit is set only while a handler is installed, or the
   firmware set it and uACPI never wrote it: the SCI never keeps firing for an event
   that was uninstalled, disabled or not taken.  initialize_fixed_events clears the
   bits below UACPI_FIXED_EVENT_MAX, which is the RTC itself, so that the RTC's stays
   as the firmware left it until a call names it; handle_fixed_events has the same
   bound, so that the RTC is not dispatched even with a handler. *)
EnabledHasHandler ==
    inited => \A e \in en : e \in handlers \/ e \in untouched \cap Unserved

(* A pending event whose bit is enabled and that has a handler leaves the status
   register only when it is dispatched: registers[] declares PM1_STS
   REGISTER_ACCESS_KIND_WRITE_TO_CLEAR, so clearing one event must leave the others. *)
FixedEventNotLost ==
    [][\A e \in sts \cap en \cap handlers :
          sci.on /\ e \notin sts' => e \in sci.todo]_fixedVars
==============================================================================

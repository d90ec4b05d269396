--------------------------------- MODULE Gpe ---------------------------------
(***************************************************************************)
(* uACPI's general purpose events: event.c, with the interrupt and work    *)
(* hooks of the kernel (uacpi-hooks.c runs scheduled work at once, inside   *)
(* the interrupt handler).                                                  *)
(*                                                                          *)
(* An event is a pair <<block, i>>.  The 8-bit masks of a gpe_register are  *)
(* sets of events, so runtime_mask of every register together is `runtime'  *)
(* and one register's part of it is runtime \cap RegOf(e).  The registers   *)
(* of an installed block are 8 bits wide in a supported address space, so   *)
(* their reads and writes do not fail; the only failing write is the first  *)
(* one of create_gpe_block.                                                 *)
(*                                                                          *)
(* One kernel thread calls the API; the interrupt may arrive at any point   *)
(* of a call.  set_gpe_state reads the enable register, and writes it back  *)
(* with one bit changed: the two halves are two steps (`call' holds the     *)
(* value read), everything else of a call is in one of them.                *)
(*                                                                          *)
(* The kernel's install hook keeps the handler and drops its context:       *)
(* irq_handler calls the handler with the frame of the interrupted code,    *)
(* and handle_gpes takes the register saved at gpe_head's offset (r14) for  *)
(* the list of blocks.  What the code had there is any value (`foreign'     *)
(* once it was neither null nor a block).                                   *)
(***************************************************************************)
EXTENDS Integers, Sequences, FiniteSets, Functions

CONSTANTS Blocks,     \* the GPE blocks: of the FADT, and of GPE block devices
          Fadt,       \* <<GPE1, GPE0>>: the blocks the FADT describes, the last made first;
                      \* their interrupt is Sci
          Sci,        \* the FADT's interrupt
          IrqOf,      \* [Blocks -> interrupts]
          DeviceOf,   \* [Blocks -> devices]: \_GPE or the block's own device
          Base,       \* [Blocks -> Nat]: base_idx
          Count,      \* [Blocks -> Nat]: num_events
          PerReg,     \* EVENTS_PER_GPE_REGISTER
          Pulse,      \* events wired as pulses; the others hold a level line
          Methods,    \* the _Lxx and _Exx methods a device's walk meets: <<device, idx, triggering>>
          Dynamic,    \* those of them that only a dynamically loaded table brings
          WakeDevices,\* devices whose _PRW names a GPE
          MaxUsers,   \* 0xFF
          Scenarios   \* bound: sets of <<call, device, idx>> the kernel may make

VARIABLES enable, latch, line,        \* hardware: enable bits, status latch, level lines
          ctxs, list, freed,          \* gpe_interrupt_head, gpe_head of each irq, freed ctxs
          hooked, foreign,            \* irqs whose handler irq.c took; a register walked as blocks
          runtime, wake, masked, current,           \* the masks of the registers
          htype, trig, users, wakeable, blocked,    \* struct gp_event
          notify, saved,              \* implicit_handler, native_handler->previous_*
          methods, started, fin,      \* namespace; uacpi_initialize_events, finalize
          asleep, lapsed, suspended,  \* sleep.c's position; events masked across a wake, suspended
          calls,                      \* the scenario of this behaviour
          call, oob                   \* the API call in progress; an access past events[]

vars == <<enable, latch, line, ctxs, list, freed, hooked, foreign, runtime, wake, masked, current,
          htype, trig, users, wakeable, blocked, notify, saved, methods, started,
          fin, asleep, lapsed, suspended, calls, call, oob>>
hw == <<enable, latch, line>>
lists == <<ctxs, list, freed, hooked, foreign>>
masks == <<runtime, wake, masked, current>>
events == <<htype, trig, users, wakeable, blocked, notify, saved>>
setup == <<methods, started, fin, asleep, lapsed, suspended, calls>>

(* what is assumed of the FADT: it describes blocks *)
ASSUME GpeAssumption == Fadt \in Seq(Blocks)

Events == UNION {{b} \X (0 .. Count[b] - 1) : b \in Blocks}
EventsOf(b) == {e \in Events : e[1] = b}
RegOf(e) == {f \in EventsOf(e[1]) : f[2] \div PerReg = e[2] \div PerReg}
Irqs == {Sci} \cup {IrqOf[b] : b \in Blocks}
Then(op) == [op |-> op]
Idle == [k |-> Then("idle")]
NoSaved == [type |-> "none", trig |-> "level", enabled |-> FALSE, on |-> FALSE]
Status == latch \cup line

Init ==
    /\ enable = {} /\ latch = {} /\ line = {}
    /\ ctxs = <<>> /\ list = [q \in Irqs |-> <<>>] /\ freed = {}
    /\ hooked = {} /\ foreign = FALSE
    /\ runtime = {} /\ wake = {} /\ masked = {} /\ current = {}
    /\ htype = [e \in Events |-> "none"] /\ trig = [e \in Events |-> "level"]
    /\ users = [e \in Events |-> 0] /\ wakeable = {} /\ blocked = {}
    /\ notify = [e \in Events |-> {}] /\ saved = [e \in Events |-> NoSaved]
    /\ methods = Methods \ Dynamic /\ started = FALSE /\ fin = [stage |-> "no", todo |-> {}, poll |-> FALSE]
    /\ asleep = FALSE /\ lapsed = {} /\ suspended = {} /\ calls \in Scenarios /\ call = Idle /\ oob = FALSE

-----------------------------------------------------------------------------
(* Finding an event *)

(* for_each_gpe_block: the contexts from gpe_interrupt_head, each one's blocks *)
Places == UNION {{i} \X DOMAIN list[ctxs[i]] : i \in DOMAIN ctxs}
BlockAt(p) == list[ctxs[p[1]]][p[2]]
Before(p, q) == p[1] < q[1] \/ (p[1] = q[1] /\ p[2] < q[2])

(* gpe_from_block lets idx = base + num_events pass, one past the array *)
gpe_from_block(b, idx) == idx >= Base[b] /\ idx - Base[b] <= Count[b]

(* get_gpe: the first block of the device that has the index, as <<block, offset>> *)
get_gpe(dev, idx) ==
    LET hits == {p \in Places : DeviceOf[BlockAt(p)] = dev /\ gpe_from_block(BlockAt(p), idx)}
        first == {p \in hits : \A q \in hits : ~Before(q, p)}
    IN  {<<BlockAt(p), idx - Base[BlockAt(p)]>> : p \in first}

-----------------------------------------------------------------------------
(* Dispatching: the interrupt side *)

Level(S) == {e \in S : trig[e] = "level"}
Typed(S, types) == {e \in S : htype[e] \in types}
Restored(P, R) == Typed(P, {"aml", "implicit"}) \cup (Typed(P, {"native"}) \cap R)

(* set_gpe_state(ENABLED_CONDITIONALLY) for every event of S *)
EnableConditionally(S) == (S \cap current) \ masked

(* dispatch_gpe, async_run_gpe_handler and restore_gpe for every event of P; R are
   the events whose native handler answers UACPI_GPE_REENABLE.  The handler that
   runs makes the device release its line; a raw handler also clears the latch. *)
dispatch_gpe(P, R) ==
    LET managed == P \ Typed(P, {"raw"})
        restored == Restored(P, R)
    IN /\ enable' = (enable \ (managed \ masked)) \cup EnableConditionally(restored)
       /\ latch' = latch \ ((managed \ Level(managed)) \cup Level(restored)
                              \cup Typed(P, {"raw"}))
       /\ line' = line \ (P \ Typed(P, {"none"}))
       /\ blocked' = (blocked \cup managed) \ restored

(* detect_gpes: a register with neither a runtime nor a wake event is skipped *)
Detected(bs) ==
    {e \in UNION {EventsOf(b) : b \in bs} :
        /\ RegOf(e) \cap (runtime \cup wake) # {}
        /\ e \in enable \cap Status}

Installed == UNION {Range(list[q]) : q \in Range(ctxs)}

(* the walk of detect_gpes from a block: it and the ones linked after it *)
From(b) == UNION {{list[q][j] : j \in {k \in DOMAIN list[q] :
                      \E i \in 1..k : list[q][i] = b}} : q \in Range(ctxs)}

(* handle_gpes for an interrupt whose handler was taken: gpe_head is what the
   interrupted code had in r14, a block or a value that is none (with null nothing
   is walked) *)
handle_gpes(q) ==
    /\ started /\ q \in hooked /\ ~oob
    /\ \/ /\ \E b \in Installed : LET P == Detected(From(b)) IN
               /\ P # {}
               /\ \E R \in SUBSET Typed(P, {"native"}) : dispatch_gpe(P, R)
          /\ UNCHANGED foreign
       \/ foreign' = TRUE /\ UNCHANGED <<hw, blocked>>
    /\ UNCHANGED <<ctxs, list, freed, hooked, masks, htype, trig, users, wakeable, notify,
                   saved, setup, call, oob>>

-----------------------------------------------------------------------------
(* set_gpe_state: read now, write back in Finish *)

\* Variant: the mask is not looked at.
RefusedVariant(e) == FALSE
(* the early return for a masked event *)
Refused(e) == e \in masked
Rmw(e, on, k, skip) ==
    [k |-> k, e |-> e, on |-> on, seen |-> enable \cap RegOf(e), skip |-> skip]

Written == IF call.skip THEN enable
           ELSE (enable \ RegOf(call.e)) \cup
                (IF call.on THEN call.seen \cup {call.e} ELSE call.seen \ {call.e})

(* the mask of the register of e follows runtime_mask *)
Follow(e, run) == (current \ RegOf(e)) \cup (run \cap RegOf(e))

(* gpe_add_user up to its write *)
gpe_add_user(e, clear, k) ==
    /\ users' = [users EXCEPT ![e] = @ + 1]
    /\ IF users[e] = 0
         THEN /\ latch' = IF clear THEN latch \ {e} ELSE latch
              /\ runtime' = runtime \cup {e}
              /\ current' = Follow(e, runtime \cup {e})
              /\ call' = Rmw(e, TRUE, k, Refused(e))
         ELSE /\ call' = Rmw(e, TRUE, k, TRUE)
              /\ UNCHANGED <<latch, runtime, current>>

(* gpe_remove_user up to its write *)
gpe_remove_user(e, k) ==
    /\ users' = [users EXCEPT ![e] = @ - 1]
    /\ IF users[e] = 1
         THEN /\ runtime' = runtime \ {e}
              /\ current' = Follow(e, runtime \ {e})
              /\ call' = Rmw(e, FALSE, k, Refused(e))
         ELSE /\ call' = Rmw(e, FALSE, k, TRUE)
              /\ UNCHANGED <<runtime, current>>

-----------------------------------------------------------------------------
(* Building the blocks *)

(* the scenario has such a call *)
Does(name) == \E c \in calls : c[1] = name
Quiet == started /\ ~asleep /\ call = Idle /\ freed = {} /\ ~oob
(* no other call is made inside uacpi_finalize_gpe_initialization *)
Ready == Quiet /\ fin.stage # "users"

(* do_match_gpe_methods over the methods below the device of each block of bs:
   an event without a handler, or with implicit notifications, takes the method *)
MatchTo(bs, ms) ==
    LET of(e) == {m \in ms : /\ e[1] \in bs /\ m[1] = DeviceOf[e[1]]
                             /\ m[2] = Base[e[1]] + e[2]}
        hit == {e \in Events : of(e) # {} /\ htype[e] \in {"none", "implicit"}}
    IN /\ htype' = [e \in Events |-> IF e \in hit THEN "aml" ELSE htype[e]]
       /\ notify' = [e \in Events |-> IF e \in hit THEN {} ELSE notify[e]]
       /\ \E t \in [hit -> {"edge", "level"}] :
            /\ \A e \in hit : \E m \in of(e) : m[3] = t[e]
            /\ trig' = [e \in Events |-> IF e \in hit THEN t[e] ELSE trig[e]]
       /\ oob' = (oob \/ \E b \in bs, m \in ms : /\ m[1] = DeviceOf[b]
                                                 /\ m[2] = Base[b] + Count[b])

(* find_or_create_gpe_interrupt_ctx and the linking of the blocks of s, newest first *)
LinkBlocks(s, q) ==
    /\ ctxs' = IF q \in Range(ctxs) THEN ctxs ELSE <<q>> \o ctxs
    /\ list' = [list EXCEPT ![q] = s \o @]

(* uacpi_kernel_install_interrupt_handler: irq_add_handler refuses an interrupt that
   has a handler, and the hook reports success all the same *)
Hook(q) == hooked' \in {hooked, hooked \cup {q}}

(* create_gpe_block disables and clears every event, and links and matches the block *)
create_gpe_blocks(s, q) ==
    LET es == UNION {EventsOf(b) : b \in Range(s)}
    IN /\ LinkBlocks(s, q)
       /\ MatchTo(Range(s), methods)
       /\ enable' = enable \ es /\ latch' = latch \ es

(* the nonempty subsequences of s *)
Parts(s) ==
    UNION {{[i \in 1..n |-> s[f[i]]] :
              f \in {g \in [1..n -> DOMAIN s] : \A i, j \in 1..n : i < j => g[i] < g[j]}}
             : n \in 1 .. Len(s)}

(* uacpi_initialize_events: initialize_gpes makes the FADT's blocks (one that
   collides or cannot be written is left out), then the SCI handler is installed *)
uacpi_initialize_events ==
    /\ ~started /\ started' = TRUE
    /\ \E s \in Parts(Fadt) : create_gpe_blocks(s, Sci)
    /\ Hook(Sci)
    /\ UNCHANGED <<line, freed, foreign, masks, users, wakeable, blocked, saved, methods, fin,
                   asleep, lapsed, suspended, calls, call>>

uacpi_gpe_install_block(b) ==
    /\ Ready /\ Does("block") /\ b \notin Range(Fadt) /\ b \notin Installed
    /\ create_gpe_blocks(<<b>>, IrqOf[b])
    /\ IF IrqOf[b] = Sci \/ IrqOf[b] \in Range(ctxs) THEN UNCHANGED hooked ELSE Hook(IrqOf[b])
    /\ UNCHANGED <<line, freed, foreign, masks, users, wakeable, blocked, saved, setup, call>>

Unlinked(s, b) ==
    LET at == CHOOSE i \in DOMAIN s : s[i] = b
    IN  [j \in 1 .. Len(s) - 1 |-> IF j < at THEN s[j] ELSE s[j + 1]]

(* uacpi_gpe_uninstall_block: the block that do_find_gpe meets last for index 0.
   The context whose last block goes is freed and stays linked (no prev is ever
   set), so the next walk of gpe_interrupt_head reads freed memory.  Its handler stays
   too: irq_remove_handler looks for the function in a list that holds irq_t entries. *)
uacpi_gpe_uninstall_block(b) ==
    /\ Ready /\ Does("block") /\ b \notin Range(Fadt) /\ b \in Range(list[IrqOf[b]])
    /\ list' = [list EXCEPT ![IrqOf[b]] = Unlinked(@, b)]
    /\ freed' = IF list'[IrqOf[b]] = <<>> THEN freed \cup {IrqOf[b]} ELSE freed
    /\ enable' = enable \ UNION {RegOf(e) : e \in EventsOf(b) \cap current}
    /\ runtime' = runtime \ EventsOf(b) /\ wake' = wake \ EventsOf(b)
    /\ masked' = masked \ EventsOf(b) /\ current' = current \ EventsOf(b)
    /\ LET fresh(f, v) == [e \in Events |-> IF e[1] = b THEN v ELSE f[e]]
       IN /\ htype' = fresh(htype, "none") /\ trig' = fresh(trig, "level")
          /\ users' = fresh(users, 0) /\ notify' = fresh(notify, {})
          /\ saved' = fresh(saved, NoSaved)
    /\ wakeable' = wakeable \ EventsOf(b) /\ blocked' = blocked \ EventsOf(b)
    /\ UNCHANGED <<latch, line, ctxs, hooked, foreign, setup, call, oob>>

(* uacpi_events_match_post_dynamic_table_load, after a table brought methods *)
uacpi_events_match_post_dynamic_table_load ==
    /\ Ready /\ Does("load") /\ methods # Methods
    /\ methods' = Methods
    /\ MatchTo(Installed, Methods)
    /\ UNCHANGED <<hw, lists, masks, users, wakeable, blocked, saved, started, fin,
                   asleep, lapsed, suspended, calls, call>>

-----------------------------------------------------------------------------
(* The API: one action per call, up to the read of set_gpe_state *)

Call(name, e) == /\ Ready
                 /\ \E c \in calls : c[1] = name /\ e \in get_gpe(c[2], c[3])

(* a call for the index one past the last event *)
PastEnd ==
    /\ Ready /\ \E c \in calls : ~(get_gpe(c[2], c[3]) \subseteq Events)
    /\ oob' = TRUE
    /\ UNCHANGED <<hw, lists, masks, events, setup, call>>

uacpi_enable_gpe(e) ==
    /\ Call("enable", e) /\ htype[e] # "none" /\ users[e] < MaxUsers
    /\ gpe_add_user(e, TRUE, Then("poll"))
    /\ UNCHANGED <<enable, line, lists, wake, masked, htype, trig, wakeable, blocked,
                   notify, saved, setup, oob>>

uacpi_disable_gpe(e) ==
    /\ Call("disable", e) /\ users[e] # 0
    /\ gpe_remove_user(e, Then("none"))
    /\ UNCHANGED <<hw, lists, wake, masked, htype, trig, wakeable, blocked, notify,
                   saved, setup, oob>>

uacpi_clear_gpe(e) ==
    /\ Call("clear", e)
    /\ latch' = latch \ {e}
    /\ UNCHANGED <<enable, line, lists, masks, events, setup, call, oob>>

(* gpe_suspend_resume *)
uacpi_suspend_gpe(e) ==
    /\ Call("suspend", e)
    /\ blocked' = blocked \cup {e} /\ suspended' = suspended \cup {e}
    /\ call' = Rmw(e, FALSE, Then("none"), Refused(e))
    /\ UNCHANGED <<hw, lists, masks, htype, trig, users, wakeable, notify, saved,
                   methods, started, fin, asleep, lapsed, calls, oob>>
uacpi_resume_gpe(e) ==
    /\ Call("suspend", e)
    /\ blocked' = blocked \ {e} /\ suspended' = suspended \ {e}
    /\ call' = Rmw(e, TRUE, Then("none"), Refused(e))
    /\ UNCHANGED <<hw, lists, masks, htype, trig, users, wakeable, notify, saved,
                   methods, started, fin, asleep, lapsed, calls, oob>>

uacpi_finish_handling_gpe(e) ==
    /\ Call("finish", e)
    /\ latch' = IF trig[e] = "level" THEN latch \ {e} ELSE latch
    /\ call' = Rmw(e, TRUE, Then("unblock"), Refused(e) \/ e \notin current)
    /\ suspended' = suspended \ {e}
    /\ UNCHANGED <<enable, line, lists, masks, events, methods, started, fin, asleep,
                   lapsed, calls, oob>>

uacpi_mask_gpe(e) ==
    /\ Call("mask", e) /\ e \notin masked
    /\ call' = Rmw(e, FALSE, Then("mask"), Refused(e))
    /\ UNCHANGED <<hw, lists, masks, events, setup, oob>>
uacpi_unmask_gpe(e) ==
    /\ Call("mask", e) /\ e \in masked
    /\ masked' = masked \ {e}
    /\ call' = Rmw(e, TRUE, Then("none"), e \notin current \/ e \in blocked \/ users[e] = 0)
    /\ UNCHANGED <<hw, lists, runtime, wake, current, events, setup, oob>>


(* do_install_gpe_handler: the handler it replaces is kept for the uninstallation,
   and the event loses one user if the old handler had any *)
install_gpe_handler(e, type, tr) ==
    LET was == htype[e] \in {"aml", "implicit"} /\ users[e] # 0
        old == [type |-> htype[e], trig |-> trig[e], enabled |-> was, on |-> TRUE]
        then == [op |-> "native", type |-> type, trig |-> tr, old |-> old]
    IN /\ Call("handler", e) /\ htype[e] \notin {"native", "raw"}
       /\ \/ was /\ gpe_remove_user(e, then)
          \/ /\ ~was
             /\ call' = Rmw(e, FALSE, then, TRUE)
             /\ UNCHANGED <<users, runtime, current>>
       /\ UNCHANGED <<hw, lists, wake, masked, htype, trig, wakeable, blocked, notify,
                      saved, setup, oob>>

(* uacpi_uninstall_gpe_handler: the old handler is back before its user is *)
uacpi_uninstall_gpe_handler(e) ==
    /\ Call("handler", e) /\ htype[e] \in {"native", "raw"}
    /\ htype' = [htype EXCEPT ![e] = saved[e].type]
    /\ trig' = [trig EXCEPT ![e] = saved[e].trig]
    /\ saved' = [saved EXCEPT ![e] = NoSaved]
    /\ \/ saved[e].enabled /\ gpe_add_user(e, FALSE, Then("poll"))
       \/ ~saved[e].enabled /\ UNCHANGED <<users, latch, runtime, current, call>>
    /\ UNCHANGED <<enable, line, lists, wake, masked, wakeable, blocked, notify, setup, oob>>

(* uacpi_setup_gpe_for_wake: a method's event loses a user, an event with nothing
   gets implicit notifications; the allocation of the notification may fail *)
setup_aml_for_wake(e) ==
    /\ Call("wake", e) /\ htype[e] = "aml" /\ users[e] # 0
    /\ gpe_remove_user(e, Then("wake"))
    /\ UNCHANGED <<hw, lists, wake, masked, htype, trig, wakeable, blocked, notify,
                   saved, setup, oob>>
uacpi_setup_gpe_for_wake(e, dev) ==
    /\ Call("wake", e) /\ ~(htype[e] = "aml" /\ users[e] # 0)
    /\ htype[e] = "implicit" => dev \notin notify[e]
    /\ htype' = [htype EXCEPT ![e] = IF @ = "none" THEN "implicit" ELSE @]
    /\ trig' = [trig EXCEPT ![e] = IF htype[e] = "none" THEN "level" ELSE @]
    /\ \E got \in SUBSET {dev} :
         notify' = [notify EXCEPT ![e] = IF htype'[e] = "implicit" THEN @ \cup got ELSE @]
    /\ wakeable' = wakeable \cup {e}
    /\ UNCHANGED <<hw, lists, masks, users, blocked, saved, setup, call, oob>>

(* gpe_enable_disable_for_wake; disabling keeps this event's bit and drops the
   others of its register *)
uacpi_enable_gpe_for_wake(e) ==
    /\ Call("wake", e) /\ e \in wakeable
    /\ wake' = wake \cup {e}
    /\ UNCHANGED <<hw, lists, runtime, masked, current, events, setup, call, oob>>
uacpi_disable_gpe_for_wake(e) ==
    /\ Call("wake", e) /\ e \in wakeable
    /\ wake' = wake \ (RegOf(e) \ {e})
    /\ UNCHANGED <<hw, lists, runtime, masked, current, events, setup, call, oob>>

(* the write of set_gpe_state and the rest of the call *)
Finish ==
    /\ call # Idle /\ call.k.op # "polling"
    /\ LET e == call.e  k == call.k
       IN /\ enable' = Written
          /\ masked' = IF k.op = "mask" THEN masked \cup {e} ELSE masked
          /\ blocked' = IF k.op = "unblock" THEN blocked \ {e} ELSE blocked
          /\ wakeable' = IF k.op = "wake" THEN wakeable \cup {e} ELSE wakeable
          /\ IF k.op = "native"
               THEN /\ htype' = [htype EXCEPT ![e] = k.type]
                    /\ trig' = [trig EXCEPT ![e] = k.trig]
                    /\ saved' = [saved EXCEPT ![e] = k.old]
               ELSE UNCHANGED <<htype, trig, saved>>
          /\ call' = IF k.op = "poll" /\ users[e] # 0 /\ trig[e] = "edge"
                       THEN [k |-> Then("polling"), e |-> e] ELSE Idle
    /\ UNCHANGED <<latch, line, lists, runtime, wake, current, users, notify, setup, oob>>

(* maybe_dispatch_gpe *)
maybe_dispatch_gpe ==
    /\ call # Idle /\ call.k.op = "polling"
    /\ \E R \in SUBSET {call.e} : dispatch_gpe(Status \cap {call.e}, R)
    /\ call' = Idle
    /\ UNCHANGED <<lists, masks, htype, trig, users, wakeable, notify, saved, setup, oob>>

-----------------------------------------------------------------------------
(* uacpi_finalize_gpe_initialization: a user for every event with a method *)

AutoEnabled == {e \in UNION {EventsOf(b) : b \in Installed} :
            e \notin wakeable /\ htype[e] = "aml" /\ users[e] < MaxUsers}
finalize_begin ==
    /\ Ready /\ fin.stage = "no"
    /\ fin' = [stage |-> "users", todo |-> AutoEnabled, poll |-> \E e \in AutoEnabled : trig[e] = "edge"]
    /\ UNCHANGED <<hw, lists, masks, events, methods, started, asleep, lapsed, suspended, calls, call, oob>>
finalize_next ==
    /\ Quiet /\ fin.stage = "users" /\ fin.todo # {}
    /\ LET e == CHOOSE x \in fin.todo : TRUE
       IN /\ fin' = [stage |-> "users", todo |-> fin.todo \ {e}, poll |-> fin.poll]
          /\ gpe_add_user(e, FALSE, Then("none"))
    /\ UNCHANGED <<enable, line, lists, wake, masked, htype, trig, wakeable, blocked,
                   notify, saved, methods, started, asleep, lapsed, suspended, calls, oob>>
finalize_end ==
    /\ Quiet /\ fin.stage = "users" /\ fin.todo = {}
    /\ fin' = [stage |-> "done", todo |-> {}, poll |-> fin.poll]
    /\ LET P == IF fin.poll THEN Detected(Range(list[ctxs[1]])) ELSE {}
       IN \E R \in SUBSET Typed(P, {"native"}) : dispatch_gpe(P, R)
    /\ UNCHANGED <<lists, masks, htype, trig, users, wakeable, notify, saved, methods,
                   started, asleep, lapsed, suspended, calls, call, oob>>

-----------------------------------------------------------------------------
(* do_for_all_gpes, in the order sleep.c calls it *)

InstalledEvents == UNION {EventsOf(b) : b \in Installed}

(* enter_sleep_state_hw_full: disable all, clear all, enable all for wake *)
enter_sleep_state ==
    /\ Ready /\ Does("sleep") /\ fin.stage = "done" /\ asleep' = TRUE
    /\ enable' = wake \cap InstalledEvents /\ current' = wake \cap InstalledEvents
    /\ latch' = latch \ InstalledEvents
    /\ UNCHANGED <<line, lists, runtime, wake, masked, events, methods, started, fin,
                   lapsed, suspended, calls, call, oob>>

\* Variant: the wake events stay enabled.
wake_from_sleep_stateVariant ==
    /\ asleep /\ asleep' = FALSE
    /\ enable' = wake \cap InstalledEvents /\ current' = enable'
    /\ UNCHANGED <<latch, line, lists, runtime, wake, masked, events, methods, started,
                   fin, lapsed, suspended, calls, call, oob>>
(* wake_from_sleep_state_hw_full: disable all, enable all for runtime *)
wake_from_sleep_state ==
    /\ asleep /\ asleep' = FALSE
    /\ enable' = (runtime \ masked) \cap InstalledEvents /\ current' = enable'
    /\ lapsed' = lapsed \cup (runtime \cap masked)
    /\ suspended' = {}
    /\ UNCHANGED <<latch, line, lists, runtime, wake, masked, events, methods, started,
                   fin, calls, call, oob>>

-----------------------------------------------------------------------------
(* The devices *)
Raise(e) ==
    /\ e \notin Status /\ \E c \in calls : <<c[2], c[3]>> = <<DeviceOf[e[1]], Base[e[1]] + e[2]>>
    /\ IF e \in Pulse THEN latch' = latch \cup {e} /\ UNCHANGED line
                       ELSE line' = line \cup {e} /\ UNCHANGED latch
    /\ UNCHANGED <<enable, lists, masks, events, setup, call, oob>>

Interrupt == \E q \in Irqs : handle_gpes(q)
Api ==
    \/ \E e \in Events :
         \/ uacpi_enable_gpe(e) \/ uacpi_disable_gpe(e) \/ uacpi_clear_gpe(e)
         \/ uacpi_suspend_gpe(e) \/ uacpi_resume_gpe(e) \/ uacpi_finish_handling_gpe(e)
         \/ uacpi_mask_gpe(e) \/ uacpi_unmask_gpe(e)
         \/ \E type \in {"native", "raw"}, tr \in {"edge", "level"} :
               install_gpe_handler(e, type, tr)
         \/ uacpi_uninstall_gpe_handler(e)
         \/ setup_aml_for_wake(e)
         \/ \E dev \in WakeDevices : uacpi_setup_gpe_for_wake(e, dev)
         \/ uacpi_enable_gpe_for_wake(e) \/ uacpi_disable_gpe_for_wake(e)
    \/ \E b \in Blocks : uacpi_gpe_install_block(b) \/ uacpi_gpe_uninstall_block(b)
    \/ uacpi_events_match_post_dynamic_table_load \/ PastEnd
    \/ finalize_begin \/ enter_sleep_state \/ wake_from_sleep_state
Thread == Finish \/ maybe_dispatch_gpe \/ finalize_next \/ finalize_end
Next == /\ ~foreign
        /\ \/ uacpi_initialize_events \/ Interrupt \/ Api \/ Thread
           \/ \E e \in Events : Raise(e)

Spec == Init /\ [][Next]_vars

-----------------------------------------------------------------------------
(* Properties *)

(* An event that has users, and that neither a mask, a suspension nor a handler
   that did not ask for re-enabling holds back, has its enable bit set whenever no
   call is in progress: no interleaving of the unlocked read-modify-writes with the
   interrupt, of handler changes, block changes, sleep and wake loses it.  The
   exception are the events that were masked across a wake: current_mask lost them.
   All this until an interrupt has taken what is in r14 for a block, and it was none
   (foreign). *)
ArmedIsEnabled ==
    call = Idle /\ ~asleep /\ freed = {} /\ ~oob /\ ~foreign
        => runtime \ (masked \cup blocked \cup suspended \cup lapsed) \subseteq enable

(* event.h: "The only way to enable a masked event is by a call to unmask."  After
   an unmask an event with users is enabled again: the same, without the exception. *)
UnmaskEnables ==
    call = Idle /\ ~asleep /\ freed = {} /\ ~oob /\ ~foreign
        => runtime \ (masked \cup blocked \cup suspended) \subseteq enable

(* No step of uACPI sets the enable bit of a masked event, except arming the wake events:
   not finishing, suspending, resuming, adding users, nor an interrupt that finds a block
   in r14.  (One that does not ends the model.) *)
MaskedStaysOff ==
    [][\A e \in masked : e \in enable' \ enable => e \in wake /\ asleep']_vars
=============================================================================

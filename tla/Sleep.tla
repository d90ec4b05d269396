-------------------------------- MODULE Sleep --------------------------------
(***************************************************************************)
(* Sleep states, wake-up, reset and shutdown: uACPI's sleep.c with its two  *)
(* register models (PM1 control blocks, or the sleep control register of    *)
(* hardware-reduced machines), called by the host and by power.c.           *)
(*                                                                          *)
(* A sleep type is a pair of bytes taken from the firmware's \_Sx package.  *)
(* Register writes and firmware methods may fail; every error return of the *)
(* code is a step here.  The machine may ignore SLP_EN.                     *)
(***************************************************************************)
EXTENDS Naturals, Sequences, FiniteSets

CONSTANTS States,      \* the sleep states the host uses, of 0 .. 5
          Firmwares    \* set of [States -> package]: kind and the values in it

INVALID == 255
SLP_TYP_MAX == 7
None == <<INVALID, INVALID>>

VARIABLES fw, reduced,     \* the machine: its packages, hardware-reduced or not
          hook,            \* power.shutdown
          irqs,            \* interrupts are enabled
          call,            \* the call in progress: [op, s, at]
          typ, s0,         \* last_sleep_typ_a/b, s0_sleep_typ_a/b
          cnt,             \* SLP_TYP of the PM1a and PM1b control registers
          latched,         \* ghost: what the machine saw with SLP_EN
          power,           \* "on", "asleep", "off", "reset"
          wak,             \* WAK_STS
          gpes,            \* GPEs enabled: "runtime", "none", "wake"
          clean,           \* event status cleared since
          sst,             \* the status indicator
          want, stale      \* ghosts: state asked for; a package left the types as they were

vars == <<fw, reduced, hook, irqs, call, typ, s0, cnt, latched, power, wak, gpes, clean, sst,
          want, stale>>
machine == <<fw, reduced>>
hw == <<cnt, latched, power, wak, gpes, clean>>

Idle == [op |-> "idle", s |-> 0, at |-> 0]

Init ==
    /\ fw \in Firmwares /\ reduced \in BOOLEAN
    /\ hook = "default" /\ irqs = TRUE /\ call = Idle /\ typ = None /\ s0 = None
    /\ cnt = <<0, 0>> /\ latched = <<>> /\ power = "on" /\ wak = 0 /\ gpes = "runtime"
    /\ clean = FALSE /\ sst = 1 /\ want = 0 /\ stale = FALSE

-----------------------------------------------------------------------------
(* uacpi_prepare_for_sleep_state *)

(* get_slp_type_for_state: the types left in the context.  A package of one element
   that is not an integer is reported as success and leaves them as they were. *)
get_slp_type_for_state(s, old) ==
    CASE fw[s].kind = "one" -> <<fw[s].v[1] % 256, (fw[s].v[1] \div 256) % 256>>
      [] fw[s].kind = "two" -> <<fw[s].v[1] % 256, fw[s].v[2] % 256>>
      [] fw[s].kind = "onebad" -> old
      [] OTHER -> None                     \* not found, error, empty, wrong types
Found(s) == fw[s].kind \in {"one", "two", "onebad"}

eval_sst_for_state(s) == CASE s = 0 -> 1 [] s \in 1 .. 3 -> 3 [] s = 4 -> 4 [] s = 5 -> 0

prepare(s, next) ==
    /\ typ' = get_slp_type_for_state(s, typ)
    /\ want' = s /\ stale' = (fw[s].kind = "onebad")
    /\ IF ~Found(s) THEN UNCHANGED <<s0, sst>>
       ELSE /\ s0' = get_slp_type_for_state(0, s0)
            /\ sst' \in {sst, eval_sst_for_state(s)}     \* _PTS fails, or _SST follows
    /\ call' = next
    /\ UNCHANGED <<machine, hw, hook, irqs>>

uacpi_prepare_for_sleep_state(s) == call = Idle /\ irqs /\ prepare(s, Idle)

-----------------------------------------------------------------------------
(* uacpi_enter_sleep_state: at counts the register accesses of
   enter_sleep_state_hw_full; each may return an error *)

enter_sleep_state(s) ==
    /\ IF typ[1] > SLP_TYP_MAX \/ typ[2] > SLP_TYP_MAX THEN call' = Idle
       ELSE call' = [op |-> "enter", s |-> s, at |-> IF reduced THEN 11 ELSE 1]
    /\ irqs' = FALSE
    /\ UNCHANGED <<machine, hw, hook, typ, s0, sst, want, stale>>
uacpi_enter_sleep_state(s) == call = Idle /\ want = s /\ enter_sleep_state(s)

At(n) == call.op = "enter" /\ call.at = n /\ power = "on"
Go(n) == call' = [call EXCEPT !.at = n]
Rest == UNCHANGED <<machine, hook, irqs, typ, s0, sst, want, stale>>

(* the machine takes SLP_EN, or does not *)
SleepEn ==
    /\ latched' = <<cnt, gpes, clean>>
    /\ power' \in {"on", IF call.s = 5 THEN "off" ELSE "asleep"}

(* the first write of the types may reach PM1a and fail for PM1b *)
EnterError ==
    /\ call.op = "enter" /\ call.at \notin {7, 13} /\ power = "on" /\ call' = Idle
    /\ cnt' \in {cnt} \cup {<<typ[1], cnt[2]>> : n \in {call.at} \cap {5}}
    /\ Rest /\ UNCHANGED <<latched, power, wak, gpes, clean>>

(* after an entry that failed, the caller goes on with interrupts, and so with events *)
host_resumes ==
    /\ call = Idle /\ ~irqs /\ power = "on" /\ irqs' = TRUE /\ clean' = FALSE
    /\ UNCHANGED <<machine, hook, call, typ, s0, cnt, latched, power, wak, gpes, sst, want, stale>>

EnterFull ==
    /\ \/ At(1) /\ wak' = 0 /\ Go(2) /\ UNCHANGED <<cnt, latched, power, gpes, clean>>
       \/ At(2) /\ gpes' = "none" /\ Go(3) /\ UNCHANGED <<cnt, latched, power, wak, clean>>
       \/ At(3) /\ clean' = TRUE /\ Go(4) /\ UNCHANGED <<cnt, latched, power, wak, gpes>>
       \/ At(4) /\ gpes' = "wake" /\ Go(5) /\ UNCHANGED <<cnt, latched, power, wak, clean>>
       \/ At(5) /\ cnt' = typ /\ Go(6) /\ UNCHANGED <<latched, power, wak, gpes, clean>>
       \/ At(6) /\ SleepEn /\ Go(7) /\ UNCHANGED <<cnt, wak, gpes, clean>>
       (* S4 and S5: ten seconds of uacpi_kernel_stall, one more try, HARDWARE_TIMEOUT; the
          kernel's stall waits for timer ticks, which need interrupts *)
       \/ /\ At(7) /\ call' = Idle /\ UNCHANGED <<cnt, wak, gpes, clean>>
          /\ IF call.s > 3 THEN irqs /\ SleepEn ELSE wak = 1 /\ UNCHANGED <<latched, power>>
    /\ Rest

(* the sleep control register holds type and enable bit together *)
EnterReduced ==
    /\ \/ At(11) /\ wak' = 0 /\ Go(12) /\ UNCHANGED <<cnt, latched, power, gpes, clean>>
       \/ /\ At(12) /\ cnt' = <<typ[1], typ[1]>> /\ Go(13)
          /\ latched' = <<cnt', gpes, clean>>
          /\ power' \in {"on", IF call.s = 5 THEN "off" ELSE "asleep"}
          /\ UNCHANGED <<wak, gpes, clean>>
       \/ At(13) /\ wak = 1 /\ call' = Idle /\ UNCHANGED hw
    /\ Rest

(* the wake event *)
Wake ==
    /\ power = "asleep" /\ power' = "on" /\ wak' = 1
    /\ UNCHANGED <<machine, hook, irqs, call, typ, s0, cnt, latched, gpes, clean, sst, want, stale>>

-----------------------------------------------------------------------------
uacpi_prepare_for_wake_from_sleep_state ==
    /\ call = Idle /\ ~irqs /\ power = "on" /\ wak = 1
    /\ cnt' = IF s0[1] = INVALID THEN cnt
              ELSE IF reduced THEN <<s0[1], s0[1]>> ELSE s0
    /\ irqs' = TRUE /\ call' = [op |-> "wake", s |-> want, at |-> 1]
    /\ UNCHANGED <<machine, hook, typ, s0, latched, power, wak, gpes, clean, sst, want, stale>>

(* enabling the GPEs may fail, and ends the call before _WAK *)
uacpi_wake_from_sleep_state ==
    /\ call.op = "wake" /\ power = "on"
    /\ typ' = None
    /\ \/ /\ ~reduced /\ sst' = 2 /\ gpes' = "none" /\ UNCHANGED <<wak, clean>>
       \/ /\ sst' = 1 /\ gpes' = "runtime" /\ wak' = 0 /\ clean' = FALSE
    /\ call' = Idle
    /\ UNCHANGED <<machine, hook, irqs, s0, cnt, latched, power, want, stale>>

-----------------------------------------------------------------------------
(* power.c and the hooks acpi_init installs *)

power_set_shutdown ==
    /\ hook = "default" /\ call = Idle /\ hook' = "acpi"
    /\ UNCHANGED <<machine, hw, irqs, call, typ, s0, sst, want, stale>>

power_shutdown ==
    /\ call = Idle /\ irqs /\ power = "on"
    /\ IF hook = "default"
         THEN /\ irqs' = FALSE /\ call' = [op |-> "halted", s |-> 0, at |-> 0]
              /\ UNCHANGED <<machine, hw, hook, typ, s0, sst, want, stale>>
         ELSE prepare(5, [op |-> "shutdown", s |-> 5, at |-> 0])

(* uacpi_shutdown goes on when the preparation failed *)
uacpi_shutdown == call.op = "shutdown" /\ enter_sleep_state(5)

(* the reset register is written, or there is none; the machine may ignore it *)
uacpi_reboot ==
    /\ call = Idle /\ irqs /\ power = "on" /\ hook = "acpi"
    /\ power' = "reset"
    /\ UNCHANGED <<machine, hook, irqs, call, typ, s0, cnt, latched, wak, gpes, clean, sst, want, stale>>

Next ==
    \/ power = "on" /\ \E s \in States : uacpi_prepare_for_sleep_state(s) \/ uacpi_enter_sleep_state(s)
    \/ EnterError \/ host_resumes \/ EnterFull \/ EnterReduced \/ Wake
    \/ uacpi_prepare_for_wake_from_sleep_state \/ uacpi_wake_from_sleep_state
    \/ power_set_shutdown \/ power_shutdown \/ uacpi_shutdown \/ uacpi_reboot
Spec == Init /\ [][Next]_vars

-----------------------------------------------------------------------------
TypeOf(s) ==
    IF fw[s].kind = "one" THEN <<fw[s].v[1] % 256, (fw[s].v[1] \div 256) % 256>>
                          ELSE <<fw[s].v[1] % 256, fw[s].v[2] % 256>>

(* The machine is sent to sleep only in the state that was prepared last: the types it
   latches with SLP_EN are those the firmware gives for that state, both are in range,
   and on full hardware only wake GPEs are armed and all old events were cleared
   before.  Failed preparations, error returns half way and earlier sleeps never leave
   types behind that a later call uses (a one-element package of the wrong type does,
   and is left out here). *)
SleepEntry ==
    power \in {"asleep", "off"} /\ ~stale =>
        /\ fw[want].kind \in {"one", "two"}
        /\ latched[1] = IF reduced THEN <<TypeOf(want)[1], TypeOf(want)[1]>> ELSE TypeOf(want)
        /\ latched[1][1] <= SLP_TYP_MAX /\ latched[1][2] <= SLP_TYP_MAX
        /\ ~reduced => latched[2] = "wake" /\ latched[3]
=============================================================================

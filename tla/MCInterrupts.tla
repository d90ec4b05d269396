---------------------------- MODULE MCInterrupts ----------------------------
(***************************************************************************)
(* Instances of what an interrupt shares with the code it interrupts:      *)
(* uACPI's event machinery, the keyboard ring and the list of threads.     *)
(* `part' chooses which component a behaviour exercises; the others rest.  *)
(***************************************************************************)
EXTENDS Gpe, Pm1, InputRing, Sched

VARIABLE part

(* Gpe: a FADT block with three events in two registers, and a block device with one *)
MCBlocks == {"gpe0", "dev"}
MCFadt == <<"gpe0">>
MCIrqOf == [b \in MCBlocks |-> IF b = "gpe0" THEN 9 ELSE 5]
MCDeviceOf == [b \in MCBlocks |-> IF b = "gpe0" THEN "GPE" ELSE "GPEB"]
MCBase == [b \in MCBlocks |-> 0]
MCCount == [b \in MCBlocks |-> IF b = "gpe0" THEN 3 ELSE 1]
MCPulse == {<<"gpe0", 0>>}
MCMethods == {<<"GPE", 0, "edge">>, <<"GPE", 1, "level">>, <<"GPE", 2, "level">>, <<"GPEB", 0, "level">>}
MCDynamic == {<<"GPE", 1, "level">>}
On(dev, idx, names) == {<<c, dev, idx>> : c \in names}
MCScenarios ==
    {On("GPE", 0, {"enable", "disable", "handler", "finish", "load"}) \cup On("GPE", 1, {"disable"}),
     On("GPE", 1, {"mask", "wake", "sleep"}) \cup On("GPE", 0, {"enable", "disable"}),
     On("GPE", 0, {"mask", "suspend", "finish", "sleep", "clear"}),
     On("GPE", 1, {"handler", "wake", "load", "enable"}),
     On("GPEB", 0, {"block", "suspend", "enable", "mask"}),
     On("GPE", 1, {"suspend", "enable"}) \cup On("GPE", 2, {"mask", "disable", "finish"}),
     On("GPE", 3, {"clear"})}

(* the components that rest *)
GRests == Init /\ calls = CHOOSE c \in Scenarios : TRUE
PRests == FixedInit /\ en = {}

AllInit == \/ part = "gpe" /\ Init /\ PRests /\ InputInit /\ SchedInit
           \/ part = "pm1" /\ FixedInit /\ GRests /\ InputInit /\ SchedInit
           \/ part = "input" /\ InputInit /\ GRests /\ PRests /\ SchedInit
           \/ part = "sched" /\ SchedInit /\ GRests /\ PRests /\ InputInit
AllNext == \/ part = "gpe" /\ Next /\ UNCHANGED <<part, fixedVars, inputVars, schedVars>>
           \/ part = "pm1" /\ FixedNext /\ UNCHANGED <<part, vars, inputVars, schedVars>>
           \/ part = "input" /\ InputNext /\ UNCHANGED <<part, vars, fixedVars, schedVars>>
           \/ part = "sched" /\ SchedNext /\ UNCHANGED <<part, vars, fixedVars, inputVars>>
\* A program keeps reading the terminal, and a read that has begun goes on; the timer
\* keeps ticking and the processor keeps executing the current thread.
InterruptsSpec ==
    /\ AllInit /\ [][AllNext]_<<part, vars, fixedVars, inputVars, schedVars>>
    /\ WF_inputVars(part = "input" /\ \E n \in 1..MaxRead : input_rb_read(n))
    /\ WF_inputVars(part = "input" /\ ReadStep)
    /\ WF_schedVars(part = "sched" /\ Tick)
    /\ \A t \in Threads : WF_schedVars(part = "sched" /\ Step(t))
=============================================================================

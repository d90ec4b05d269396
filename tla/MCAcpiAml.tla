----------------------------- MODULE MCAcpiAml -----------------------------
(***************************************************************************)
(* Instances of uACPI's AML interpreter for TLC. `part' chooses which      *)
(* component a behaviour exercises; the others rest.                       *)
(***************************************************************************)
EXTENDS Naturals, Sequences, FiniteSets

VARIABLES prog, size, off, blocks, slots, last_while, prev_off, prev_exp, skip_else, now,
          pc, want, entered
kvars == <<prog, size, off, blocks, slots, last_while, prev_off, prev_exp, skip_else, now,
          pc, want, entered>>
VARIABLES scen, stack, held, sync, c_depth, owner, status, pend, slack, raced
cvars == <<scen, stack, held, sync, c_depth, owner, status, pend, slack, raced>>
VARIABLES obj, storage, slot, o_depth, pending, left, sink
ovars == <<obj, storage, slot, o_depth, pending, left, sink>>
VARIABLE part

(* AmlControl: every program of up to five operations *)
K == INSTANCE AmlControl WITH ProgramSize <- 5, LoopTimeout <- 1, MaxTime <- 2

(* AmlCalls: one context with deep calls, one with two mutexes, two contexts that share one *)
MCLevel == [m \in {"S1", "S2", "X", "Y"} |-> IF m \in {"S1", "X"} THEN 1 ELSE 2]
Frames(a, b) == [c \in {"a", "b"} |-> IF c = "a" THEN a ELSE b]
MCScenarios ==
    {[ctx |-> {"a"}, code |-> {"S1", "S2", "N", "T"}, objects |-> {"X"}, frames |-> Frames(3, 0)],
     [ctx |-> {"a"}, code |-> {"S1", "T"}, objects |-> {"X", "Y"}, frames |-> Frames(3, 0)],
     [ctx |-> {"a", "b"}, code |-> {"S1", "N"}, objects |-> {"X"}, frames |-> Frames(2, 1)]}
C == INSTANCE AmlCalls WITH Ctx <- {"a", "b"}, Methods <- {"S1", "S2", "N"},
       Tables <- {"T"}, Serialized <- {"S1", "S2"}, Objects <- {"X", "Y"}, Level <- MCLevel,
       InlineHeld <- 2, MaxDepth <- 2, Scenarios <- MCScenarios, depth <- c_depth

(* AmlObjects: programs of three statements over integers and packages *)
O == INSTANCE AmlObjects WITH MaxObjects <- 9, MaxStorages <- 3, MaxStatements <- 3,
       Literals <- {"int1", "package"}, depth <- o_depth

KRests ==
    /\ prog = 0 /\ size = 0 /\ off = 0 /\ blocks = 0 /\ slots = 0 /\ last_while = 0
    /\ prev_off = 0 /\ prev_exp = 0 /\ skip_else = 0 /\ now = 0 /\ pc = 0 /\ want = 0
    /\ entered = 0
CRests ==
    /\ scen = 0 /\ stack = 0 /\ held = 0 /\ sync = 0 /\ c_depth = 0 /\ owner = 0
    /\ status = 0 /\ pend = 0 /\ slack = 0 /\ raced = 0
ORests ==
    /\ obj = 0 /\ storage = 0 /\ slot = 0 /\ o_depth = 0 /\ pending = 0 /\ left = 0
    /\ sink = 0

Init ==
    \/ part = "control" /\ K!Init /\ CRests /\ ORests
    \/ part = "calls" /\ C!Init /\ KRests /\ ORests
    \/ part = "objects" /\ O!Init /\ KRests /\ CRests
Next ==
    \/ part = "control" /\ K!Next /\ UNCHANGED <<part, cvars, ovars>>
    \/ part = "calls" /\ C!Next /\ UNCHANGED <<part, kvars, ovars>>
    \/ part = "objects" /\ O!Next /\ UNCHANGED <<part, kvars, cvars>>
Spec == Init /\ [][Next]_<<part, kvars, cvars, ovars>>

(* AmlControl!FollowsProgram and !TimeoutExact: If, Else, While, Break, Continue and
   Return run the program the bytes stand for, except that a Return in a While that ends
   the method acts as a Continue, and a loop is stopped exactly when it would begin a
   round after its own time is over. *)
ControlFollows == part = "control" => K!FollowsProgram /\ K!TimeoutExact
(* AmlCalls!HeldExact: the mutexes a context lists, their owner and depth and, but for the
   returns named there, the sync level agree, through calls, returns and unwinding, until
   two contexts race between the test of a mutex and its use. *)
HeldExact == part = "calls" => C!HeldExact
(* AmlCalls!UnwindStops: an error unwinds to the innermost frame that survives it and
   no further. *)
UnwindStops == [][part = "calls" => C!UnwindStopsStep]_cvars
(* AmlObjects!RefCountExact and !CopiesIsolated: reference counts equal the references,
   nothing dangles, only a package object with shared storage that was an element of a
   freed package is leaked, and a copy shares nothing with its source. *)
ObjectsSound == part = "objects" => O!RefCountExact /\ O!CopiesIsolated
=============================================================================

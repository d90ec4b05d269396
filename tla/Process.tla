------------------------------ MODULE Process ------------------------------
(***************************************************************************)
(* Processes: fork, exit and waitpid of src/kernel/process/process.c, the  *)
(* singly linked processList they share, and the register contexts that a  *)
(* preemption saves.                                                       *)
(*                                                                         *)
(* No lock protects processList, and system calls run with interrupts      *)
(* enabled, so a tick may come between any two statements.  A process has  *)
(* one thread.  The thread list is a set here: Sched has its details.      *)
(*                                                                         *)
(* When the kernel uses memory it has freed, or starts a thread on another *)
(* thread's kernel stack, nothing is claimed about what follows: wild      *)
(* names the cause.                                                        *)
(***************************************************************************)
EXTENDS Integers, FiniteSets, TLC, Induction

CONSTANTS
    Procs,
    InitProc,     \* the init process, which never exits
    NULL

ASSUME ProcsAssumption == IsFiniteSet(Procs) /\ InitProc \in Procs /\ NULL \notin Procs

VARIABLES
    nextProc, processListLast,   \* processList itself is always InitProc
    status,       \* none, running, zombie, freed
    parent,
    thread,       \* of the main thread: none, ready, destroyed, gone
    regs,         \* mainThread->regs: user, kernel (saved inside a system call)
    rax,          \* a child's fork returns this: zero, or the number of the call
    current,      \* the process of currentThread
    pc, it, prev, \* the point reached in the kernel; the walk along processList
    target,       \* the process being forked, or freed
    overlapped,   \* two updates of processList have overlapped
    wild

list == <<nextProc, processListLast>>
walk == <<it, prev, target>>
context == <<regs, rax>>
vars == <<list, status, parent, thread, context, current, pc, walk, overlapped, wild>>

\* process_create_init.
Init ==
    /\ nextProc = [p \in Procs |-> NULL] /\ processListLast = InitProc
    /\ status = [p \in Procs |-> IF p = InitProc THEN "running" ELSE "none"]
    /\ parent = [p \in Procs |-> NULL]
    /\ thread = [p \in Procs |-> IF p = InitProc THEN "ready" ELSE "none"]
    /\ regs = [p \in Procs |-> "user"] /\ rax = [p \in Procs |-> "zero"]
    /\ current = InitProc
    /\ pc = [p \in Procs |-> "user"]
    /\ it = [p \in Procs |-> NULL] /\ prev = [p \in Procs |-> NULL]
    /\ target = [p \in Procs |-> NULL]
    /\ overlapped = FALSE /\ wild = "no"

At(p, from) == wild = "no" /\ current = p /\ pc[p] = from

Goto(p, to) == pc' = [pc EXCEPT ![p] = to] /\ UNCHANGED current

\* The points at which a thread is in the middle of changing processList.
Updating == {"last", "find", "unlink"}

UpdateList(p) ==
    overlapped' = (overlapped \/ \E q \in Procs \ {p} : pc[q] \in Updating)

-----------------------------------------------------------------------------
(* sys_fork                                                                *)

\* syscall_handler saves the user's registers; the child is allocated.
sys_fork(p, c) ==
    /\ At(p, "user") /\ Goto(p, "copy")
    /\ status[c] = "none"
    /\ status' = [status EXCEPT ![c] = "running"]
    /\ parent' = [parent EXCEPT ![c] = p]
    /\ target' = [target EXCEPT ![p] = c]
    /\ regs' = [regs EXCEPT ![p] = "user"]
    /\ UNCHANGED <<list, thread, rax, it, prev, overlapped, wild>>

ForkCopyRegs(p) ==
    /\ At(p, "copy") /\ Goto(p, "append")
    /\ regs' = [regs EXCEPT ![target[p]] = regs[p]]
    /\ rax' = [rax EXCEPT ![target[p]] = "number"]
    /\ UNCHANGED <<list, status, parent, thread, walk, overlapped, wild>>

ForkAppend(p) ==
    /\ At(p, "append") /\ Goto(p, "last")
    /\ nextProc' = [nextProc EXCEPT ![processListLast] = target[p]]
    /\ UpdateList(p)
    /\ wild' = IF status[processListLast] = "freed" THEN "walk" ELSE wild
    /\ UNCHANGED <<processListLast, status, parent, thread, context, walk>>

ForkSetLast(p) ==
    /\ At(p, "last") /\ Goto(p, "add")
    /\ processListLast' = target[p]
    /\ UpdateList(p)
    /\ UNCHANGED <<nextProc, status, parent, thread, context, walk, wild>>

\* sched_add_thread: from here on a tick may run the child.
ForkAddThread(p) ==
    /\ At(p, "add") /\ Goto(p, "rax")
    /\ thread' = [thread EXCEPT ![target[p]] = "ready"]
    /\ UNCHANGED <<list, status, parent, context, walk, overlapped, wild>>

\* Variant: the child keeps the registers of the call.
ForkReturnSame(p) ==
    /\ At(p, "rax") /\ Goto(p, "user")
    /\ target' = [target EXCEPT ![p] = NULL]
    /\ UNCHANGED <<list, status, parent, thread, context, it, prev, overlapped, wild>>

ForkReturn(p) ==
    /\ At(p, "rax") /\ Goto(p, "user")
    /\ rax' = [rax EXCEPT ![target[p]] = "zero"]
    /\ target' = [target EXCEPT ![p] = NULL]
    /\ UNCHANGED <<list, status, parent, thread, regs, it, prev, overlapped, wild>>

-----------------------------------------------------------------------------
(* sys_exit                                                                *)

sys_exit(p) ==
    /\ p # InitProc
    /\ At(p, "user") /\ Goto(p, "terminate")
    /\ it' = [it EXCEPT ![p] = InitProc]
    /\ regs' = [regs EXCEPT ![p] = "user"]
    /\ UNCHANGED <<list, status, parent, thread, rax, prev, target, overlapped, wild>>

\* process_terminate looks for the process and makes it a zombie.
TerminateStep(p) ==
    /\ At(p, "terminate")
    /\ IF it[p] = p
       THEN status' = [status EXCEPT ![p] = "zombie"] /\ Goto(p, "destroy")
            /\ it' = [it EXCEPT ![p] = NULL] /\ UNCHANGED wild
       ELSE IF it[p] = NULL
       THEN Goto(p, "spin") /\ UNCHANGED <<status, it, wild>>
       ELSE IF status[it[p]] = "freed"
       THEN wild' = "walk" /\ UNCHANGED <<status, it, pc, current>>
       ELSE it' = [it EXCEPT ![p] = nextProc[it[p]]] /\ UNCHANGED <<status, pc, current, wild>>
    /\ UNCHANGED <<list, parent, thread, context, prev, target, overlapped>>

\* sched_remove_thread; then the thread spins until the tick removes it.
TerminateThread(p) ==
    /\ At(p, "destroy") /\ Goto(p, "spin")
    /\ thread' = [thread EXCEPT ![p] = "destroyed"]
    /\ UNCHANGED <<list, status, parent, context, walk, overlapped, wild>>

-----------------------------------------------------------------------------
(* sys_waitpid(-1, ...) and process_free                                   *)

sys_waitpid(p) ==
    /\ At(p, "user") /\ Goto(p, "wait")
    /\ it' = [it EXCEPT ![p] = InitProc]
    /\ regs' = [regs EXCEPT ![p] = "user"]
    /\ UNCHANGED <<list, status, parent, thread, rax, prev, target, overlapped, wild>>

\* Variant: the search accepts the zombies of other parents.
ReapsAny(p, c) == status[c] = "zombie"

Reaps(p, c) == status[c] = "zombie" /\ parent[c] = p

\* One process of the list; at its end the search starts again.
WaitStep(p) ==
    /\ At(p, "wait")
    /\ IF it[p] = NULL
       THEN it' = [it EXCEPT ![p] = InitProc] /\ UNCHANGED <<pc, current, target, prev, wild>>
       ELSE IF status[it[p]] = "freed"
       THEN wild' = "walk" /\ UNCHANGED <<pc, current, it, target, prev>>
       ELSE IF Reaps(p, it[p])
       THEN /\ Goto(p, "find")
            /\ target' = [target EXCEPT ![p] = it[p]]
            /\ prev' = [prev EXCEPT ![p] = NULL]
            /\ it' = [it EXCEPT ![p] = InitProc]
            /\ UNCHANGED wild
       ELSE /\ it' = [it EXCEPT ![p] = nextProc[it[p]]]
            /\ UNCHANGED <<pc, current, target, prev, wild>>
    /\ UNCHANGED <<list, status, parent, thread, context, overlapped>>

\* process_free finds the process and its predecessor, and moves the tail...
FreeFind(p) ==
    /\ At(p, "find")
    /\ IF it[p] = NULL
       THEN /\ Goto(p, "user") /\ target' = [target EXCEPT ![p] = NULL]
            /\ UNCHANGED <<list, it, prev, overlapped, wild>>
       ELSE IF status[it[p]] = "freed"
       THEN wild' = "walk" /\ UNCHANGED <<list, pc, current, it, prev, target, overlapped>>
       ELSE IF it[p] = target[p]
       THEN /\ Goto(p, "unlink")
            /\ processListLast' = IF processListLast = target[p] THEN prev[p]
                                  ELSE processListLast
            /\ UpdateList(p)
            /\ UNCHANGED <<nextProc, it, prev, target, wild>>
       ELSE /\ prev' = [prev EXCEPT ![p] = it[p]]
            /\ it' = [it EXCEPT ![p] = nextProc[it[p]]]
            /\ UNCHANGED <<list, pc, current, target, overlapped, wild>>
    /\ UNCHANGED <<status, parent, thread, context>>

\* ...then takes the process out of the list and destroys its address space.
FreeUnlink(p) ==
    /\ At(p, "unlink") /\ Goto(p, "reparent")
    /\ nextProc' = [nextProc EXCEPT ![prev[p]] = nextProc[target[p]]]
    /\ wild' = IF status[prev[p]] = "freed" THEN "walk" ELSE wild
    /\ it' = [it EXCEPT ![p] = InitProc]
    /\ prev' = [prev EXCEPT ![p] = NULL]
    /\ UpdateList(p)
    /\ UNCHANGED <<processListLast, status, parent, thread, context, target>>

\* Variant: the children keep the parent that is being freed.
FreeReparentSkips(p) ==
    /\ At(p, "reparent")
    /\ status' = [status EXCEPT ![target[p]] = "freed"]
    /\ target' = [target EXCEPT ![p] = NULL]
    /\ it' = [it EXCEPT ![p] = NULL]
    /\ Goto(p, "user")
    /\ UNCHANGED <<list, parent, thread, context, prev, overlapped, wild>>

\* The children of the process go to init, one per step; then it is freed.
FreeReparent(p) ==
    /\ At(p, "reparent")
    /\ IF it[p] = NULL
       THEN /\ status' = [status EXCEPT ![target[p]] = "freed"]
            /\ target' = [target EXCEPT ![p] = NULL]
            /\ Goto(p, "user")
            /\ UNCHANGED <<parent, it, wild>>
       ELSE IF status[it[p]] = "freed"
       THEN wild' = "walk" /\ UNCHANGED <<status, parent, it, target, pc, current>>
       ELSE /\ parent' = [parent EXCEPT ![it[p]] = IF @ = target[p] THEN InitProc ELSE @]
            /\ it' = [it EXCEPT ![p] = nextProc[it[p]]]
            /\ UNCHANGED <<status, target, pc, current, wild>>
    /\ UNCHANGED <<list, thread, context, prev, overlapped>>

Step(p) ==
    \/ \E c \in Procs : sys_fork(p, c)
    \/ ForkCopyRegs(p) \/ ForkAppend(p) \/ ForkSetLast(p) \/ ForkAddThread(p) \/ ForkReturn(p)
    \/ sys_exit(p) \/ TerminateStep(p) \/ TerminateThread(p)
    \/ sys_waitpid(p) \/ WaitStep(p) \/ FreeFind(p) \/ FreeUnlink(p) \/ FreeReparent(p)

-----------------------------------------------------------------------------

\* The address space of a process is destroyed before its structure is freed.
Destroyed(p) ==
    status[p] = "freed" \/ \E q \in Procs : pc[q] = "reparent" /\ target[q] = p

\* arch_store_context: what is saved is the interrupted context.
StoredRegs(p) == IF pc[p] = "user" THEN "user" ELSE "kernel"

\* A child that has never run was given a context of its parent inside the kernel.
StartsInKernel(q) == pc[q] = "user" /\ regs[q] = "kernel"

\* sched_preempt: save the context, drop the thread if it has exited, go on with
\* another thread in its address space.
SwitchTo(q) ==
    /\ wild = "no"
    /\ q # current /\ thread[q] = "ready"
    /\ regs' = [regs EXCEPT ![current] = StoredRegs(current)]
    /\ thread' = [thread EXCEPT ![current] = IF @ = "destroyed" THEN "gone" ELSE @]
    /\ current' = q
    /\ wild' = IF Destroyed(q) THEN "freed"
               ELSE IF StartsInKernel(q) THEN "context" ELSE wild
    /\ UNCHANGED <<list, status, parent, rax, pc, walk, overlapped>>

Next == \E p \in Procs : Step(p) \/ SwitchTo(p)

Spec == Init /\ [][Next]_vars

-----------------------------------------------------------------------------

Points == {"user", "copy", "append", "last", "add", "rax", "terminate", "destroy",
           "spin", "wait", "find", "unlink", "reparent"}

TypeOK ==
    /\ nextProc \in [Procs -> Procs \cup {NULL}] /\ processListLast \in Procs
    /\ status \in [Procs -> {"none", "running", "zombie", "freed"}]
    /\ parent \in [Procs -> Procs \cup {NULL}]
    /\ thread \in [Procs -> {"none", "ready", "destroyed", "gone"}]
    /\ regs \in [Procs -> {"user", "kernel"}] /\ rax \in [Procs -> {"zero", "number"}]
    /\ current \in Procs /\ pc \in [Procs -> Points]
    /\ it \in [Procs -> Procs \cup {NULL}] /\ prev \in [Procs -> Procs \cup {NULL}]
    /\ target \in [Procs -> Procs \cup {NULL}]
    /\ overlapped \in BOOLEAN /\ wild \in {"no", "walk", "freed", "context"}

\* The processes a walk from the first one reaches.
Listed == Reached(Procs, nextProc, InitProc)

\* The process a system call in progress is adding or taking out.
InHand == {target[p] : p \in {q \in Procs : pc[q] \in {"copy", "append", "reparent"}}}

\* As long as no two updates of processList overlap, it holds exactly the
\* processes that exist, and a process the kernel may still free or wake is
\* found by the walks of process_terminate and sys_waitpid.
ListComplete ==
    /\ TypeOK
    /\ ~overlapped /\ wild = "no" =>
          Listed = {p \in Procs : status[p] \in {"running", "zombie"}} \ InHand

\* A listed process never has a freed parent: process_free hands the children to
\* init before the memory goes away, also when ticks interrupt it.
ParentsExist ==
    ~overlapped /\ wild = "no" =>
        \A p \in Listed \ {InitProc} : status[parent[p]] # "freed"

\* A process is reaped by the process that is its parent then, and only after it
\* has become a zombie.
ReapedByParent ==
    [][\A c \in Procs :
          status[c] # "freed" /\ status'[c] = "freed" =>
              status[c] = "zombie" /\ parent[c] = current]_vars

\* The one window in which a freed process can still be scheduled is between the
\* two assignments of process_terminate: outside it, a process that has been
\* freed has no thread in the thread list.
FreedOnlyInsideExit ==
    \A p \in Procs :
        status[p] = "freed" =>
            \/ thread[p] = "gone"
            \/ thread[p] = "destroyed" /\ current = p
            \/ thread[p] = "ready" /\ pc[p] = "destroy"

\* A child that may be scheduled finds zero as the result of fork, except between
\* sched_add_thread and the statement of sys_fork after it.
ChildResultSet ==
    wild = "no" =>
        \A c \in Procs :
            thread[c] = "ready" /\ rax[c] # "zero" =>
                \E p \in Procs : pc[p] = "rax" /\ target[p] = c

\* processList serves its purpose, as long as no two of its updates overlap.
ListSound == ListComplete /\ ParentsExist

\* What a tick can find in the middle of fork and exit, and no more.
ProcessesSound == FreedOnlyInsideExit /\ ChildResultSet

\* All processes but init are alike.
Alike == Permutations(Procs \ {InitProc})
=============================================================================

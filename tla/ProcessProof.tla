---------------------------- MODULE ProcessProof ----------------------------
(***************************************************************************)
(* Proofs about the processes of Process: however the ticks interleave     *)
(* fork, exit and waitpid, a process is freed by its parent and after its  *)
(* end, what a tick can find in the middle of fork and exit is what        *)
(* ProcessesSound says, and processList is what ListSound says.            *)
(***************************************************************************)
EXTENDS Process, TLAPS

\* A leaf that names no backend is one for Zenon; SMTT marks those that need more theory.
USE ZenonT(30)

\* Where a process is inside sys_fork, inside process_free, and when it has ended.
Forking == {"copy", "append", "last", "add"}
Freeing == {"find", "unlink", "reparent"}
Ended == {"zombie", "freed"}

\* The walk of process_free has a predecessor once it has left the first process.
WalkSound ==
    \A p \in Procs :
        /\ pc[p] = "find" /\ prev[p] = NULL => it[p] = InitProc
        /\ pc[p] = "unlink" => prev[p] \in Procs

\* A process whose fork is not over has no thread, and one parent at work on it.
ChildInHand ==
    \A p \in Procs :
        /\ pc[p] \in Forking =>
              /\ target[p] \in Procs /\ status[target[p]] = "running"
              /\ thread[target[p]] = "none"
              /\ \A q \in Procs : pc[q] \in Forking /\ target[q] = target[p] => q = p
        /\ pc[p] = "rax" => target[p] \in Procs

\* The process that process_free works on is a zombie and the caller's child.
ZombieInHand ==
    \A p \in Procs :
        pc[p] \in Freeing => /\ target[p] \in Procs /\ status[target[p]] = "zombie"
                             /\ parent[target[p]] = p

\* How far a process has come says what its thread is.
ThreadAgrees ==
    /\ status[InitProc] = "running" /\ pc[InitProc] # "terminate"
    /\ thread[current] \in {"ready", "destroyed"}
    /\ \A p \in Procs :
          /\ status[p] = "none" => thread[p] = "none"
          /\ thread[p] = "destroyed" => pc[p] = "spin"
          /\ status[p] \in Ended =>
                \/ pc[p] = "destroy" /\ thread[p] = "ready"
                \/ pc[p] = "spin" /\ thread[p] = "gone"
                \/ pc[p] = "spin" /\ thread[p] = "destroyed" /\ current = p

\* A child that may run has its result of fork, but while its parent is about to set it.
ResultSet ==
    \A c \in Procs :
        thread[c] = "ready" /\ rax[c] # "zero" =>
            \E p \in Procs : pc[p] = "rax" /\ target[p] = c

\* The inductive invariant.
ProcInv == TypeOK /\ WalkSound /\ ChildInHand /\ ZombieInHand /\ ThreadAgrees /\ ResultSet

\* The processes that are on processList.
OnList == {x \in Procs :
              /\ status[x] \in {"running", "zombie"}
              /\ \A p \in Procs : pc[p] \in {"copy", "append", "reparent"} => target[p] # x}

\* A walk along the links does not leave the set.
Closed(S) == \A m \in S : nextProc[m] \in S \cup {NULL}

\* The links make one chain of the processes on the list: no set that has the first
\* process and is closed leaves one out, and no two have the same successor.
ChainSound ==
    /\ InitProc \in OnList /\ Closed(OnList)
    /\ \A S \in SUBSET Procs : InitProc \in S /\ Closed(S) => OnList \subseteq S
    /\ \A m, n \in OnList : nextProc[m] = nextProc[n] /\ nextProc[m] # NULL => m = n

\* A process that is not on the list yet has no successor, and is the child of the
\* process that makes it.
FreshSound ==
    /\ \A x \in Procs : status[x] = "none" => nextProc[x] = NULL
    /\ \A p \in Procs : pc[p] \in {"copy", "append"} =>
          nextProc[target[p]] = NULL /\ parent[target[p]] = p

\* processListLast is the end of the chain, but for the half of an update that is done;
\* only one process is half-way.
LastSound ==
    /\ processListLast \in OnList
    /\ \A p \in Procs : pc[p] = "last" =>
          nextProc[processListLast] = target[p] /\ nextProc[target[p]] = NULL
    /\ \A p \in Procs : pc[p] = "unlink" =>
          /\ prev[p] \in OnList /\ nextProc[prev[p]] = target[p]
          /\ processListLast # target[p]
          /\ \/ nextProc[processListLast] = NULL
             \/ processListLast = prev[p] /\ nextProc[target[p]] = NULL
    /\ (\A p \in Procs : pc[p] \notin {"last", "unlink"}) => nextProc[processListLast] = NULL
    /\ \A p, q \in Procs : pc[p] \in {"last", "unlink"} /\ pc[q] \in {"last", "unlink"} => p = q

\* The search of process_free has the predecessor of the process it looks at.
SearchSound ==
    \A p \in Procs : pc[p] = "find" /\ prev[p] # NULL =>
        prev[p] \in OnList /\ nextProc[prev[p]] = it[p]

\* Nobody on the list has a freed parent; and the children that process_free has yet to
\* hand to init are ahead of its walk, even if what it looks at has left the list.
ParentSound ==
    /\ \A x \in Procs \ {InitProc} : status[x] \in {"running", "zombie"} => parent[x] \in Procs
    /\ \A x \in OnList \ {InitProc} : status[parent[x]] # "freed"
    /\ \A p \in Procs : pc[p] = "reparent" =>
          \A S \in SUBSET Procs : Closed(S) /\ it[p] \in S \cup {NULL} =>
              \A c \in OnList : parent[c] = target[p] => c \in S

\* processList is right...
ListRight == ChainSound /\ FreshSound /\ LastSound /\ SearchSound /\ ParentSound

\* ...as long as no two of its updates overlap.
ListInv == ~overlapped /\ wild = "no" => ListRight

-----------------------------------------------------------------------------

\* process_create_init establishes the invariant.
LEMMA InitInv == Init => ProcInv
  <1>. SUFFICES ASSUME Init PROVE ProcInv
    OBVIOUS
  <1>1. TypeOK
    BY ProcsAssumption DEF Init, TypeOK, Points
  <1>. QED BY <1>1, ProcsAssumption DEF Init, ProcInv, WalkSound, ChildInHand, ZombieInHand,
         ThreadAgrees, ResultSet, Forking, Freeing, Ended

\* sys_fork and the statements it is divided into keep the invariant.
LEMMA ForkKeeps ==
    ASSUME ProcInv, NEW p \in Procs,
           \/ \E c \in Procs : sys_fork(p, c)
           \/ ForkCopyRegs(p) \/ ForkAppend(p) \/ ForkSetLast(p) \/ ForkAddThread(p)
           \/ ForkReturn(p)
    PROVE  ProcInv'
  <1>. USE ProcsAssumption DEF ProcInv, At, Goto, UpdateList, list, walk, context,
        TypeOK, Points, WalkSound, ChildInHand, ZombieInHand,
        ThreadAgrees, ResultSet, Forking, Freeing, Ended
  <1>1. CASE \E c \in Procs : sys_fork(p, c)
    BY <1>1, SMTT(30) DEF sys_fork
  <1>2. CASE ForkCopyRegs(p)
    BY <1>2, SMTT(30) DEF ForkCopyRegs
  <1>3. CASE ForkAppend(p)
    BY <1>3, SMTT(30) DEF ForkAppend
  <1>4. CASE ForkSetLast(p)
    BY <1>4, SMTT(30) DEF ForkSetLast
  <1>5. CASE ForkAddThread(p)
    BY <1>5, SMTT(30) DEF ForkAddThread
  <1>6. CASE ForkReturn(p)
    BY <1>6, SMTT(30) DEF ForkReturn
  <1>. QED BY <1>1, <1>2, <1>3, <1>4, <1>5, <1>6

\* sys_exit keeps it: the zombie is the process that runs, and its thread is ready
\* until TerminateThread.
LEMMA ExitKeeps ==
    ASSUME ProcInv, NEW p \in Procs, sys_exit(p) \/ TerminateStep(p) \/ TerminateThread(p)
    PROVE  ProcInv'
  <1>. USE ProcsAssumption DEF ProcInv, At, Goto, list, walk, context
  <1>1. CASE sys_exit(p)
    BY <1>1, SMTT(30) DEF sys_exit, TypeOK, Points, WalkSound, ChildInHand, ZombieInHand,
        ThreadAgrees, ResultSet, Forking, Freeing, Ended
  <1>2. CASE TerminateStep(p)
    <2>. USE <1>2 DEF TerminateStep
    <2>1. TypeOK'
      BY SMTT(30) DEF TypeOK, Points
    <2>2. WalkSound' /\ ResultSet'
      BY SMTT(30) DEF TypeOK, WalkSound, ResultSet
    <2>3. ChildInHand'
      BY SMTT(30) DEF TypeOK, ChildInHand, ThreadAgrees, Forking
    <2>4. ZombieInHand'
      BY SMTT(30) DEF TypeOK, ZombieInHand, ThreadAgrees, Freeing, Ended
    <2>5. ThreadAgrees'
      <3>1. CASE it[p] = p
        <4>1. thread[p] = "ready" /\ p # InitProc
          BY <3>1 DEF TypeOK, ThreadAgrees, Ended
        <4>. QED BY <3>1, <4>1, SMTT(30) DEF TypeOK, ThreadAgrees, Ended
      <3>2. CASE it[p] # p
        BY <3>2 DEF TypeOK, ThreadAgrees, Ended
      <3>. QED BY <3>1, <3>2
    <2>. QED BY <2>1, <2>2, <2>3, <2>4, <2>5
  <1>3. CASE TerminateThread(p)
    BY <1>3, SMTT(30) DEF TerminateThread, TypeOK, Points, WalkSound, ChildInHand, ZombieInHand,
        ThreadAgrees, ResultSet, Forking, Freeing, Ended
  <1>. QED BY <1>1, <1>2, <1>3

\* sys_waitpid and process_free keep it: nobody else frees the zombie, because only
\* its parent looks for it, and a parent that waits is not a zombie itself.
LEMMA WaitKeeps ==
    ASSUME ProcInv, NEW p \in Procs,
           sys_waitpid(p) \/ WaitStep(p) \/ FreeFind(p) \/ FreeUnlink(p) \/ FreeReparent(p)
    PROVE  ProcInv'
  <1>. USE ProcsAssumption DEF ProcInv, At, Goto, UpdateList, Reaps, list, walk, context
  <1>1. CASE sys_waitpid(p)
    BY <1>1, SMTT(30) DEF sys_waitpid, TypeOK, Points, WalkSound, ChildInHand, ZombieInHand,
        ThreadAgrees, ResultSet, Forking, Freeing, Ended
  <1>2. CASE WaitStep(p)
    BY <1>2, SMTT(30) DEF WaitStep, TypeOK, Points, WalkSound, ChildInHand, ZombieInHand,
        ThreadAgrees, ResultSet, Forking, Freeing, Ended
  <1>3. CASE FreeFind(p)
    <2>. USE <1>3 DEF FreeFind
    <2>1. it[p] = target[p] => prev[p] \in Procs
      BY SMTT(30) DEF TypeOK, WalkSound, ZombieInHand, ThreadAgrees, Freeing
    <2>2. TypeOK'
      <3>1. processListLast' \in Procs /\ nextProc' = nextProc
        BY <2>1 DEF TypeOK
      <3>2. pc' \in [Procs -> Points] /\ current' = current
        BY DEF TypeOK, Points
      <3>3. overlapped' \in BOOLEAN /\ wild' \in {"no", "walk", "freed", "context"}
        BY DEF TypeOK
      <3>4. /\ it' \in [Procs -> Procs \cup {NULL}] /\ prev' \in [Procs -> Procs \cup {NULL}]
            /\ target' \in [Procs -> Procs \cup {NULL}]
        BY SMTT(30) DEF TypeOK
      <3>. QED BY <3>1, <3>2, <3>3, <3>4 DEF TypeOK
    <2>3. WalkSound'
      BY <2>1, SMTT(30) DEF TypeOK, WalkSound
    <2>4. ChildInHand' /\ ResultSet'
      BY SMTT(30) DEF TypeOK, ChildInHand, ResultSet, Forking
    <2>5. ZombieInHand' /\ ThreadAgrees'
      BY SMTT(30) DEF TypeOK, ZombieInHand, ThreadAgrees, Freeing, Ended
    <2>. QED BY <2>2, <2>3, <2>4, <2>5
  <1>4. CASE FreeUnlink(p)
    BY <1>4, SMTT(30) DEF FreeUnlink, TypeOK, Points, WalkSound, ChildInHand, ZombieInHand,
        ThreadAgrees, ResultSet, Forking, Freeing, Ended
  <1>5. CASE FreeReparent(p)
    <2>. USE <1>5 DEF FreeReparent
    <2>1. TypeOK'
      BY SMTT(30) DEF TypeOK, Points
    <2>2. WalkSound'
      BY SMTT(30) DEF TypeOK, WalkSound
    <2>3. ChildInHand' /\ ResultSet'
      BY SMTT(30) DEF TypeOK, ChildInHand, ZombieInHand, ResultSet, Forking, Freeing
    <2>4. ZombieInHand'
      BY SMTT(30) DEF TypeOK, ZombieInHand, ThreadAgrees, Freeing, Ended
    <2>5. ThreadAgrees'
      BY SMTT(30) DEF TypeOK, ZombieInHand, ThreadAgrees, Freeing, Ended
    <2>. QED BY <2>1, <2>2, <2>3, <2>4, <2>5
  <1>. QED BY <1>1, <1>2, <1>3, <1>4, <1>5

\* A tick keeps it: sched_preempt drops the thread of the process that ended.
LEMMA SwitchKeeps == ASSUME ProcInv, NEW q \in Procs, SwitchTo(q) PROVE ProcInv'
  BY SMTT(30) DEF ProcInv, SwitchTo, StoredRegs, list, walk, context,
        TypeOK, Points, WalkSound, ChildInHand, ZombieInHand,
        ThreadAgrees, ResultSet, Forking, Freeing, Ended

\* Every step keeps the invariant.
LEMMA StepInv == ProcInv /\ [Next]_vars => ProcInv'
  <1>. SUFFICES ASSUME ProcInv, [Next]_vars PROVE ProcInv'
    OBVIOUS
  <1>1. CASE UNCHANGED vars
    BY <1>1, SMTT(30) DEF vars, list, walk, context, ProcInv,
        TypeOK, Points, WalkSound, ChildInHand, ZombieInHand,
        ThreadAgrees, ResultSet, Forking, Freeing, Ended
  <1>2. CASE Next
    BY <1>2, ForkKeeps, ExitKeeps, WaitKeeps, SwitchKeeps DEF Next, Step
  <1>. QED BY <1>1, <1>2

\* The invariant holds in every reachable state, for any set of processes.
THEOREM ProcessInvariant == Spec => []ProcInv
  BY InitInv, StepInv, PTL DEF Spec

\* A freed process has no thread left but inside the two assignments of
\* process_terminate, and a child that may run has its result of fork.
THEOREM ProcessProcessesSound == Spec => []ProcessesSound
  <1>1. ProcInv => ProcessesSound
    BY DEF ProcInv, TypeOK, ThreadAgrees, ResultSet, Ended, ProcessesSound,
           FreedOnlyInsideExit, ChildResultSet
  <1>. QED BY <1>1, ProcessInvariant, PTL

\* process_free frees a process only on behalf of its parent and after its end.
THEOREM ProcessReapedByParent == Spec => ReapedByParent
  <1>. DEFINE Reaped == \A c \in Procs :
                          status[c] # "freed" /\ status'[c] = "freed" =>
                              status[c] = "zombie" /\ parent[c] = current
  <1>1. ProcInv /\ Next => Reaped
    <2>. SUFFICES ASSUME ProcInv, NEW p \in Procs, Step(p) \/ SwitchTo(p) PROVE Reaped
      BY DEF Next
    <2>1. CASE FreeReparent(p)
      BY <2>1, SMTT(30) DEF FreeReparent, At, ProcInv, TypeOK, ZombieInHand, Freeing
    <2>2. CASE TerminateStep(p)
      BY <2>2 DEF TerminateStep, ProcInv, TypeOK
    <2>3. CASE \E c \in Procs : sys_fork(p, c)
      BY <2>3 DEF sys_fork, ProcInv, TypeOK
    <2>4. ASSUME ~FreeReparent(p), ~TerminateStep(p), ~\E c \in Procs : sys_fork(p, c)
          PROVE  status' = status
      BY <2>4 DEF Step, SwitchTo, ForkCopyRegs, ForkAppend, ForkSetLast, ForkAddThread,
           ForkReturn, sys_exit, TerminateThread, sys_waitpid, WaitStep, FreeFind, FreeUnlink
    <2>. QED BY <2>1, <2>2, <2>3, <2>4
  <1>2. ProcInv /\ [Next]_vars => [Reaped]_vars
    BY <1>1
  <1>. QED BY <1>2, ProcessInvariant, PTL DEF Spec, ReapedByParent

-----------------------------------------------------------------------------
(* The list                                                                *)

\* The list holds the processes that exist and are in nobody's hand.
LEMMA ListedIsOnList == ASSUME TypeOK, ChainSound PROVE Listed = OnList
  <1>1. OnList \in SUBSET Procs /\ InitProc \in OnList /\ NoWayOut(Procs, nextProc, OnList)
    BY ProcsAssumption DEF OnList, ChainSound, Closed, NoWayOut
  <1>2. Listed \subseteq OnList
    BY <1>1, ProcsAssumption, ReachedWithin DEF Listed
  <1>3. Listed \in SUBSET Procs /\ InitProc \in Listed /\ Closed(Listed)
    BY ProcsAssumption, ReachedClosed DEF Listed, TypeOK, Closed, NoWayOut
  <1>. QED BY <1>2, <1>3 DEF ChainSound

-----------------------------------------------------------------------------
(* The steps that leave the list as it is                                  *)

\* A process does not move, or moves between points that are not half-way through an
\* update.
Still(q) == pc'[q] = pc[q] /\ it'[q] = it[q] /\ prev'[q] = prev[q] /\ target'[q] = target[q]

Moves(q) ==
    /\ pc[q] \notin {"last", "unlink", "reparent"} /\ pc'[q] \notin {"last", "unlink", "reparent"}
    /\ pc'[q] = "find" /\ prev'[q] # NULL => prev'[q] \in OnList /\ nextProc[prev'[q]] = it'[q]
    /\ pc'[q] \in {"copy", "append"} => nextProc[target'[q]] = NULL /\ parent'[target'[q]] = q

\* A step that changes neither the list nor the family of a process on it.
Quiet ==
    /\ UNCHANGED <<nextProc, processListLast>> /\ OnList' = OnList
    /\ \A q \in Procs : Still(q) \/ Moves(q)
    /\ \A q \in Procs : Still(q) /\ pc[q] \in {"copy", "append"} =>
                            parent'[target[q]] = parent[target[q]]
    /\ \A x \in OnList : parent'[x] = parent[x]
    /\ \A x \in Procs : /\ status'[x] = "none" => status[x] = "none"
                        /\ status'[x] = "freed" => status[x] = "freed"
    /\ \A x \in Procs \ {InitProc} :
          status'[x] \in {"running", "zombie"} => parent'[x] \in Procs

\* A quiet step keeps the list right.
LEMMA QuietKeeps == ASSUME TypeOK, ListRight, Quiet PROVE ListRight'
  <1>. USE DEF ListRight, Quiet
  <1>1. ChainSound'
    BY DEF ChainSound, Closed
  <1>2. FreshSound'
    BY SMTT(30) DEF FreshSound, Still, Moves
  <1>3. LastSound'
    BY SMTT(30) DEF LastSound, Still, Moves
  <1>4. SearchSound'
    BY SMTT(30) DEF SearchSound, Still, Moves
  <1>5. ParentSound'
    <2>1. \A x \in OnList' \ {InitProc} : status'[parent'[x]] # "freed"
      BY SMTT(30) DEF ParentSound, OnList
    <2>2. ASSUME NEW q \in Procs, pc'[q] = "reparent"
          PROVE  \A S \in SUBSET Procs : Closed(S)' /\ it'[q] \in S \cup {NULL} =>
                    \A c \in OnList' : parent'[c] = target'[q] => c \in S
      <3>1. pc[q] = "reparent" /\ it'[q] = it[q] /\ target'[q] = target[q]
        BY <2>2 DEF Still, Moves
      <3>. QED BY <3>1 DEF ParentSound, Closed
    <2>. QED BY <2>1, <2>2 DEF ParentSound
  <1>. QED BY <1>1, <1>2, <1>3, <1>4, <1>5

\* The parts of sys_fork that do not touch the list.
LEMMA ForkQuiet ==
    ASSUME ProcInv, ListRight, NEW p \in Procs,
           (\E c \in Procs : sys_fork(p, c)) \/ ForkCopyRegs(p) \/ ForkAddThread(p) \/ ForkReturn(p)
    PROVE  Quiet
  <1>. USE ProcsAssumption DEF At, Goto, list, walk, context, ProcInv, TypeOK, Points,
            ListRight, ParentSound, FreshSound, OnList, Quiet, Still, Moves
  <1>1. ASSUME NEW c \in Procs, sys_fork(p, c) PROVE Quiet
    BY <1>1, SMTT(30) DEF sys_fork, ChildInHand, Forking
  <1>2. CASE ForkCopyRegs(p)
    BY <1>2, SMTT(30) DEF ForkCopyRegs
  <1>3. CASE ForkAddThread(p)
    BY <1>3, SMTT(30) DEF ForkAddThread
  <1>4. CASE ForkReturn(p)
    BY <1>4, SMTT(30) DEF ForkReturn
  <1>. QED BY <1>1, <1>2, <1>3, <1>4

\* sys_exit and process_terminate.
LEMMA ExitQuiet ==
    ASSUME ProcInv, ListRight, NEW p \in Procs, sys_exit(p) \/ TerminateStep(p) \/ TerminateThread(p)
    PROVE  Quiet
  <1>. USE ProcsAssumption DEF At, Goto, list, walk, context, ProcInv, TypeOK, Points,
            ListRight, ParentSound, FreshSound, OnList, Quiet, Still, Moves
  <1>1. CASE sys_exit(p)
    BY <1>1, SMTT(30) DEF sys_exit
  <1>2. CASE TerminateStep(p)
    <2>1. status[p] = "running"
      BY <1>2, SMTT(30) DEF TerminateStep, ThreadAgrees, Ended
    <2>. QED BY <1>2, <2>1, SMTT(30) DEF TerminateStep
  <1>3. CASE TerminateThread(p)
    BY <1>3, SMTT(30) DEF TerminateThread
  <1>. QED BY <1>1, <1>2, <1>3

\* sys_waitpid and the search of process_free.
LEMMA WaitQuiet ==
    ASSUME ProcInv, ListRight, NEW p \in Procs,
           sys_waitpid(p) \/ WaitStep(p) \/ (FreeFind(p) /\ pc'[p] # "unlink")
    PROVE  Quiet
  <1>. USE ProcsAssumption DEF At, Goto, list, walk, context, ProcInv, TypeOK, Points,
            ListRight, ParentSound, FreshSound, OnList, Quiet, Still, Moves
  <1>1. CASE sys_waitpid(p)
    BY <1>1, SMTT(30) DEF sys_waitpid
  <1>2. CASE WaitStep(p)
    BY <1>2, SMTT(30) DEF WaitStep
  <1>3. CASE FreeFind(p) /\ pc'[p] # "unlink"
    <2>1. it[p] # NULL => it[p] \in OnList
      BY <1>3, SMTT(30) DEF FreeFind, WalkSound, SearchSound, ChainSound, Closed
    <2>. QED BY <1>3, <2>1, SMTT(30) DEF FreeFind
  <1>. QED BY <1>1, <1>2, <1>3

\* A tick.
LEMMA SwitchQuiet == ASSUME ProcInv, ListRight, NEW q \in Procs, SwitchTo(q) PROVE Quiet
  BY SMTT(30) DEF SwitchTo, list, walk, ProcInv, TypeOK, ListRight, ParentSound, OnList, Quiet, Still

-----------------------------------------------------------------------------
(* The steps that change the list                                          *)

\* Nobody else is in the middle of an update.
Alone(p) == \A q \in Procs \ {p} : pc[q] \notin Updating

\* No process on the list is its own successor.
LEMMA SelfLess ==
    ASSUME ChainSound, NEW x \in OnList, x # InitProc PROVE nextProc[x] # x
  <1>. SUFFICES ASSUME nextProc[x] = x PROVE FALSE
    OBVIOUS
  <1>. DEFINE S == OnList \ {x}
  <1>1. S \in SUBSET Procs /\ InitProc \in S /\ x \in Procs
    BY DEF ChainSound, OnList
  <1>2. Closed(S)
    BY <1>1, ProcsAssumption DEF ChainSound, Closed
  <1>. QED BY <1>1, <1>2 DEF ChainSound

\* sys_fork links the child behind the last process.
LEMMA AppendKeeps ==
    ASSUME ProcInv, ListRight, NEW p \in Procs, ForkAppend(p), Alone(p) PROVE ListRight'
  <1>. DEFINE n == target[p]
              l == processListLast
  <1>1. /\ n \in Procs /\ status[n] = "running" /\ n \notin OnList
        /\ nextProc[n] = NULL /\ parent[n] = p /\ p \in Procs /\ status[p] \notin Ended
    BY DEF ForkAppend, At, ProcInv, TypeOK, ChildInHand, ThreadAgrees, Forking, Ended, OnList,
           ListRight, FreshSound
  <1>2. l \in OnList /\ l \in Procs /\ nextProc[l] = NULL /\ l # n
    BY <1>1 DEF ForkAppend, At, Alone, Updating, ListRight, LastSound, OnList
  <1>3. OnList' = OnList \cup {n}
    BY <1>1, SMTT(30) DEF ForkAppend, At, Goto, walk, OnList, ProcInv, TypeOK, ChildInHand, ZombieInHand,
           Forking, Freeing
  <1>4. /\ nextProc'[l] = n /\ \A m \in Procs \ {l} : nextProc'[m] = nextProc[m]
        /\ processListLast' = l /\ UNCHANGED <<status, parent, it, prev, target>>
        /\ pc[p] = "append" /\ pc'[p] = "last" /\ \A q \in Procs \ {p} : pc'[q] = pc[q]
    BY <1>2 DEF ForkAppend, At, Goto, walk, ProcInv, TypeOK
  <1>5. \A S \in SUBSET Procs : Closed(S)' => Closed(S)
    BY <1>2, <1>4 DEF Closed
  <1>6. OnList \subseteq Procs /\ NULL \notin Procs
    BY ProcsAssumption DEF OnList
  <1>. HIDE DEF n, l
  <1>7. ChainSound'
    <2>1. InitProc \in OnList' /\ Closed(OnList)'
      BY <1>1, <1>2, <1>3, <1>4, <1>6, SMTT(30) DEF ListRight, ChainSound, Closed
    <2>2. ASSUME NEW S \in SUBSET Procs, InitProc \in S, Closed(S)' PROVE OnList' \subseteq S
      <3>1. OnList \subseteq S
        BY <1>5, <2>2 DEF ListRight, ChainSound
      <3>2. n \in S
        BY <1>1, <1>2, <1>4, <1>6, <2>2, <3>1 DEF Closed
      <3>. QED BY <1>3, <3>1, <3>2
    <2>3. \A x, y \in OnList' : nextProc'[x] = nextProc'[y] /\ nextProc'[x] # NULL => x = y
      BY <1>1, <1>2, <1>3, <1>4, <1>6, SMTT(30) DEF ListRight, ChainSound, Closed
    <2>. QED BY <2>1, <2>2, <2>3 DEF ChainSound
  <1>8. FreshSound'
    BY <1>2, <1>4, SMTT(30) DEF ListRight, FreshSound, OnList, ProcInv, ChildInHand, Forking
  <1>9. LastSound'
    BY <1>1, <1>2, <1>3, <1>4, SMTT(30) DEF LastSound, Alone, Updating, n
  <1>10. SearchSound'
    BY <1>4 DEF SearchSound, Alone, Updating
  <1>11. ParentSound'
    <2>1. \A x \in Procs \ {InitProc} : status'[x] \in {"running", "zombie"} => parent'[x] \in Procs
      BY <1>4 DEF ListRight, ParentSound
    <2>2. \A x \in OnList' \ {InitProc} : status'[parent'[x]] # "freed"
      BY <1>1, <1>3, <1>4 DEF ListRight, ParentSound, Ended
    <2>3. ASSUME NEW q \in Procs, pc'[q] = "reparent", NEW S \in SUBSET Procs, Closed(S)',
                 it'[q] \in S \cup {NULL}, NEW c \in OnList', parent'[c] = target'[q]
          PROVE  c \in S
      <3>1. q # p /\ pc[q] = "reparent" /\ parent[c] = target[q] /\ it[q] \in S \cup {NULL}
        BY <1>4, <2>3
      <3>2. status[target[q]] = "zombie"
        BY <3>1 DEF ProcInv, ZombieInHand, Freeing
      <3>3. c \in OnList
        BY <1>1, <1>3, <2>3, <3>1, <3>2 DEF Ended
      <3>. QED BY <1>5, <2>3, <3>1, <3>3 DEF ListRight, ParentSound
    <2>. QED BY <2>1, <2>2, <2>3 DEF ParentSound
  <1>. QED BY <1>7, <1>8, <1>9, <1>10, <1>11 DEF ListRight

\* sys_fork makes the child the last process.
LEMMA SetLastKeeps ==
    ASSUME ProcInv, ListRight, NEW p \in Procs, ForkSetLast(p), Alone(p) PROVE ListRight'
  <1>1. /\ processListLast' = target[p] /\ UNCHANGED <<nextProc, status, parent, it, prev, target>>
        /\ pc[p] = "last" /\ pc'[p] = "add" /\ \A q \in Procs \ {p} : pc'[q] = pc[q]
    BY DEF ForkSetLast, At, Goto, walk, ProcInv, TypeOK
  <1>2. OnList' = OnList
    BY <1>1 DEF OnList
  <1>3. target[p] \in OnList /\ nextProc[target[p]] = NULL
    BY <1>1, ProcsAssumption, SMTT(30) DEF ListRight, LastSound, ChainSound, Closed, ProcInv, ChildInHand,
           Forking
  <1>4. ChainSound'
    BY <1>1, <1>2 DEF ListRight, ChainSound, Closed
  <1>5. FreshSound'
    BY <1>1 DEF ListRight, FreshSound
  <1>6. LastSound'
    BY <1>1, <1>2, <1>3 DEF LastSound, Alone, Updating
  <1>7. SearchSound'
    BY <1>1, <1>2 DEF ListRight, SearchSound
  <1>8. ParentSound'
    <2>1. \A q \in Procs : pc'[q] = "reparent" => pc[q] = "reparent"
      BY <1>1
    <2>. QED BY <1>1, <1>2, <2>1 DEF ListRight, ParentSound, Closed
  <1>. QED BY <1>4, <1>5, <1>6, <1>7, <1>8 DEF ListRight

\* process_free has found the process and moves the tail off it.
LEMMA FoundKeeps ==
    ASSUME ProcInv, ListRight, NEW p \in Procs, FreeFind(p), pc'[p] = "unlink", Alone(p)
    PROVE  ListRight'
  <1>. DEFINE t == target[p]
              l == processListLast
  <1>1. /\ processListLast' = IF l = t THEN prev[p] ELSE l
        /\ UNCHANGED <<nextProc, status, parent, it, prev, target>>
        /\ pc[p] = "find" /\ it[p] = t /\ it[p] # NULL /\ \A q \in Procs \ {p} : pc'[q] = pc[q]
    BY DEF FreeFind, At, Goto, ProcInv, TypeOK
  <1>2. OnList' = OnList
    BY <1>1 DEF OnList
  <1>3. t \in Procs /\ status[t] = "zombie" /\ t # InitProc
    BY <1>1 DEF ProcInv, ZombieInHand, Freeing, ThreadAgrees
  <1>4. prev[p] \in OnList /\ nextProc[prev[p]] = t
    BY <1>1, <1>3 DEF ProcInv, WalkSound, ListRight, SearchSound
  <1>5. l \in OnList /\ nextProc[l] = NULL
    BY <1>1 DEF ListRight, LastSound, Alone, Updating
  <1>6. prev[p] # t
    BY <1>3, <1>4, <1>5, ProcsAssumption, SelfLess DEF ProcInv, ListRight
  <1>7. ChainSound'
    BY <1>1, <1>2 DEF ListRight, ChainSound, Closed
  <1>8. FreshSound'
    BY <1>1 DEF ListRight, FreshSound
  <1>9. LastSound'
    <2>1. processListLast' \in OnList /\ processListLast' # t
      BY <1>1, <1>4, <1>5, <1>6
    <2>2. \/ nextProc[processListLast'] = NULL
          \/ processListLast' = prev[p] /\ nextProc[t] = NULL
      BY <1>1, <1>5
    <2>. QED BY <1>1, <1>2, <1>4, <2>1, <2>2 DEF LastSound, Alone, Updating
  <1>10. SearchSound'
    BY <1>1, <1>2 DEF ListRight, SearchSound
  <1>11. ParentSound'
    <2>1. \A q \in Procs : pc'[q] = "reparent" => pc[q] = "reparent"
      BY <1>1
    <2>. QED BY <1>1, <1>2, <2>1 DEF ListRight, ParentSound, Closed
  <1>. QED BY <1>7, <1>8, <1>9, <1>10, <1>11 DEF ListRight

\* process_free takes the process out of the list.
LEMMA UnlinkKeeps ==
    ASSUME ProcInv, ListRight, NEW p \in Procs, FreeUnlink(p), Alone(p) PROVE ListRight'
  <1>. DEFINE t == target[p]
              b == prev[p]
              l == processListLast
  <1>1. /\ t \in Procs /\ status[t] = "zombie" /\ parent[t] = p /\ t # InitProc
        /\ b \in OnList /\ b \in Procs /\ nextProc[b] = t
    BY DEF FreeUnlink, At, ProcInv, ZombieInHand, Freeing, ThreadAgrees, ListRight, LastSound,
           OnList
  <1>2. /\ nextProc'[b] = nextProc[t] /\ \A m \in Procs \ {b} : nextProc'[m] = nextProc[m]
        /\ processListLast' = l /\ UNCHANGED <<status, parent, target>>
        /\ it'[p] = InitProc /\ \A q \in Procs \ {p} : it'[q] = it[q] /\ prev'[q] = prev[q]
        /\ pc[p] = "unlink" /\ pc'[p] = "reparent" /\ \A q \in Procs \ {p} : pc'[q] = pc[q]
    BY <1>1 DEF FreeUnlink, At, Goto, ProcInv, TypeOK
  <1>3. t \in OnList /\ OnList' = OnList \ {t}
    <2>1. t \in OnList
      BY <1>1, ProcsAssumption DEF ListRight, ChainSound, Closed
    <2>2. ASSUME NEW x \in Procs PROVE x \in OnList' <=> x \in OnList /\ x # t
      BY <1>2 DEF OnList
    <2>. QED BY <2>1, <2>2, SMTT(30) DEF OnList
  <1>4. OnList \subseteq Procs /\ NULL \notin Procs
    BY ProcsAssumption DEF OnList
  <1>5. b # t /\ nextProc[t] # t
    BY <1>1, <1>3, SelfLess DEF ListRight
  <1>6. /\ l \in OnList /\ l # t
        /\ nextProc[l] = NULL \/ (l = b /\ nextProc[t] = NULL)
    BY <1>2 DEF ListRight, LastSound
  <1>. HIDE DEF t, b, l
  <1>7. ASSUME NEW S \in SUBSET Procs, Closed(S)' PROVE Closed(S) \/ Closed(S \cup {t})
    <2>1. CASE b \in S
      BY <1>1, <1>2, <1>4, <1>5, <1>7, <2>1 DEF Closed
    <2>2. CASE b \notin S
      BY <1>1, <1>2, <1>4, <1>5, <1>7, <2>2 DEF Closed
    <2>. QED BY <2>1, <2>2
  <1>8. ChainSound'
    <2>1. InitProc \in OnList' /\ Closed(OnList)'
      <3>1. \A m \in OnList \ {t, b} : nextProc[m] # t
        BY <1>1, <1>4 DEF ListRight, ChainSound
      <3>. QED BY <1>1, <1>2, <1>3, <1>4, <1>5, <3>1, SMTT(30) DEF ListRight, ChainSound, Closed
    <2>2. ASSUME NEW S \in SUBSET Procs, InitProc \in S, Closed(S)' PROVE OnList' \subseteq S
      <3>1. S \cup {t} \in SUBSET Procs /\ InitProc \in S \cup {t}
        BY <1>1, <2>2
      <3>2. OnList \subseteq S \/ OnList \subseteq S \cup {t}
        BY <1>7, <2>2, <3>1 DEF ListRight, ChainSound
      <3>. QED BY <1>3, <3>2
    <2>3. \A x, y \in OnList' : nextProc'[x] = nextProc'[y] /\ nextProc'[x] # NULL => x = y
      <3>1. ASSUME NEW x \in OnList', NEW y \in OnList', nextProc'[x] = nextProc'[y],
                   nextProc'[x] # NULL
            PROVE  x = y
        <4>1. x \in OnList /\ y \in OnList /\ x # t /\ y # t /\ x \in Procs /\ y \in Procs
          BY <1>3, <1>4, <3>1
        <4>2. \A m, n \in OnList : nextProc[m] = nextProc[n] /\ nextProc[m] # NULL => m = n
          BY DEF ListRight, ChainSound
        <4>3. \A m \in {x, y} : nextProc'[m] = nextProc[IF m = b THEN t ELSE m]
          BY <1>2, <4>1
        <4>. QED BY <1>3, <3>1, <4>1, <4>2, <4>3
      <3>. QED BY <3>1
    <2>. QED BY <2>1, <2>2, <2>3 DEF ChainSound
  <1>9. FreshSound'
    BY <1>1, <1>2, SMTT(30) DEF ListRight, FreshSound, OnList, ProcInv, ChildInHand, Forking
  <1>10. LastSound'
    <2>1. l \in OnList' /\ nextProc'[l] = NULL
      BY <1>1, <1>2, <1>3, <1>4, <1>6
    <2>. QED BY <1>2, <2>1, SMTT(30) DEF LastSound, Alone, Updating
  <1>11. SearchSound'
    BY <1>2 DEF SearchSound, Alone, Updating
  <1>12. ParentSound'
    <2>1. \A x \in Procs \ {InitProc} : status'[x] \in {"running", "zombie"} => parent'[x] \in Procs
      BY <1>2 DEF ListRight, ParentSound
    <2>2. \A x \in OnList' \ {InitProc} : status'[parent'[x]] # "freed"
      BY <1>2, <1>3 DEF ListRight, ParentSound
    <2>3. ASSUME NEW q \in Procs, pc'[q] = "reparent", NEW S \in SUBSET Procs, Closed(S)',
                 it'[q] \in S \cup {NULL}, NEW c \in OnList', parent'[c] = target'[q]
          PROVE  c \in S
      <3>1. CASE q = p
        <4>1. InitProc \in S
          BY <1>2, <2>3, <3>1, ProcsAssumption
        <4>. QED BY <1>8, <2>3, <4>1 DEF ChainSound
      <3>2. CASE q # p
        <4>1. /\ pc[q] = "reparent" /\ it[q] \in S \cup {NULL} /\ parent[c] = target[q]
              /\ c \in OnList /\ c # t /\ S \cup {t} \in SUBSET Procs
          BY <1>1, <1>2, <1>3, <2>3, <3>2
        <4>. QED BY <1>7, <2>3, <4>1 DEF ListRight, ParentSound
      <3>. QED BY <3>1, <3>2
    <2>. QED BY <2>1, <2>2, <2>3 DEF ParentSound
  <1>. QED BY <1>8, <1>9, <1>10, <1>11, <1>12 DEF ListRight

\* process_free gives a child to init and goes on to the next process, and frees the
\* process when it has seen them all.
LEMMA ReparentKeeps ==
    ASSUME ProcInv, ListRight, NEW p \in Procs, FreeReparent(p), wild' = "no" PROVE ListRight'
  <1>. DEFINE t == target[p]
  <1>1. /\ t \in Procs /\ status[t] = "zombie" /\ t # InitProc /\ parent[t] = p
        /\ pc[p] = "reparent" /\ t \notin OnList
    BY DEF FreeReparent, At, ProcInv, ZombieInHand, Freeing, ThreadAgrees, OnList
  <1>2. nextProc' = nextProc /\ processListLast' = processListLast /\ prev' = prev
    BY DEF FreeReparent, list
  <1>3. CASE it[p] = NULL
    <2>1. /\ status'[t] = "freed" /\ \A x \in Procs \ {t} : status'[x] = status[x]
          /\ parent' = parent /\ it' = it
          /\ \A q \in Procs \ {p} : target'[q] = target[q] /\ pc'[q] = pc[q]
          /\ pc'[p] = "user"
      BY <1>1, <1>3, SMTT(30) DEF FreeReparent, At, Goto, ProcInv, TypeOK
    <2>2. OnList' = OnList
      <3>1. ASSUME NEW x \in Procs, x \in OnList' PROVE x \in OnList
        BY <1>1, <2>1, <3>1 DEF OnList
      <3>2. ASSUME NEW x \in OnList PROVE x \in OnList'
        BY <1>1, <2>1, <3>2 DEF OnList
      <3>. QED BY <3>1, <3>2 DEF OnList
    <2>. HIDE DEF t
    <2>3. \A c \in OnList : parent[c] # t
      <3>1. Closed({}) /\ it[p] \in {} \cup {NULL}
        BY <1>3 DEF Closed
      <3>. QED BY <1>1, <3>1, SMTT(30) DEF ListRight, ParentSound, t
    <2>4. ChainSound'
      BY <1>2, <2>2 DEF ListRight, ChainSound, Closed
    <2>5. FreshSound'
      BY <1>1, <1>2, <2>1 DEF ListRight, FreshSound
    <2>6. LastSound' /\ SearchSound'
      BY <1>1, <1>2, <2>1, <2>2, SMTT(30) DEF ListRight, LastSound, SearchSound
    <2>7. ParentSound'
      <3>1. \A x \in Procs \ {InitProc} :
               status'[x] \in {"running", "zombie"} => parent'[x] \in Procs
        BY <2>1 DEF ListRight, ParentSound
      <3>2. \A x \in OnList' \ {InitProc} : status'[parent'[x]] # "freed"
        BY <2>1, <2>2, <2>3, SMTT(30) DEF ListRight, ParentSound, OnList
      <3>3. \A q \in Procs : pc'[q] = "reparent" =>
               pc[q] = "reparent" /\ target'[q] = target[q] /\ it'[q] = it[q]
        BY <2>1
      <3>. QED BY <1>2, <2>1, <2>2, <3>1, <3>2, <3>3 DEF ListRight, ParentSound, Closed
    <2>. QED BY <2>4, <2>5, <2>6, <2>7 DEF ListRight
  <1>4. CASE it[p] # NULL
    <2>1. /\ it[p] \in Procs
          /\ parent'[it[p]] = (IF parent[it[p]] = t THEN InitProc ELSE parent[it[p]])
          /\ \A x \in Procs \ {it[p]} : parent'[x] = parent[x]
          /\ it'[p] = nextProc[it[p]] /\ \A q \in Procs \ {p} : it'[q] = it[q]
          /\ UNCHANGED <<status, target, pc>>
      BY <1>4 DEF FreeReparent, At, ProcInv, TypeOK
    <2>2. OnList' = OnList
      BY <2>1 DEF OnList
    <2>3. ChainSound'
      BY <1>2, <2>2 DEF ListRight, ChainSound, Closed
    <2>4. FreshSound'
      <3>1. \A q \in Procs : pc[q] \in {"copy", "append"} => target[q] \in Procs /\ q # t
        BY <1>1 DEF ProcInv, ChildInHand, Forking, ThreadAgrees, Ended
      <3>. QED BY <1>2, <2>1, <3>1, SMTT(30) DEF ListRight, FreshSound
    <2>5. LastSound'
      BY <1>2, <2>1, <2>2 DEF ListRight, LastSound
    <2>6. SearchSound'
      BY <1>1, <1>2, <2>1, <2>2 DEF ListRight, SearchSound
    <2>7. ParentSound'
      <3>1. \A x \in Procs \ {InitProc} :
               status'[x] \in {"running", "zombie"} => parent'[x] \in Procs
        BY <2>1, ProcsAssumption DEF ListRight, ParentSound
      <3>2. \A x \in OnList' \ {InitProc} : status'[parent'[x]] # "freed"
        <4>1. status[InitProc] # "freed"
          BY DEF ProcInv, ThreadAgrees
        <4>2. \A x \in OnList \ {InitProc} : x \in Procs /\ status[parent[x]] # "freed"
          BY DEF ListRight, ParentSound, OnList
        <4>3. \A x \in OnList \ {InitProc} : parent'[x] \in {parent[x], InitProc}
          BY <2>1, <4>2
        <4>. QED BY <2>1, <2>2, <4>1, <4>2, <4>3
      <3>3. ASSUME NEW q \in Procs, pc'[q] = "reparent", NEW S \in SUBSET Procs, Closed(S)',
                   it'[q] \in S \cup {NULL}, NEW c \in OnList', parent'[c] = target'[q]
            PROVE  c \in S
        <4>1. /\ pc[q] = "reparent" /\ c \in OnList /\ c \in Procs /\ Closed(S)
              /\ parent'[c] = target[q] /\ target[q] # InitProc /\ parent[c] = target[q]
          <5>1. pc[q] = "reparent" /\ c \in OnList /\ c \in Procs /\ parent'[c] = target[q]
            BY <2>1, <2>2, <3>3 DEF OnList
          <5>2. Closed(S)
            BY <1>2, <3>3 DEF Closed
          <5>3. target[q] # InitProc
            BY <5>1 DEF ProcInv, ZombieInHand, Freeing, ThreadAgrees
          <5>. QED BY <2>1, <5>1, <5>2, <5>3
        <4>2. CASE q = p
          <5>1. c # it[p]
            BY <1>1, <2>1, <4>1, <4>2
          <5>2. S \cup {it[p]} \in SUBSET Procs /\ Closed(S \cup {it[p]})
            BY <2>1, <3>3, <4>1, <4>2 DEF Closed
          <5>. QED BY <4>1, <4>2, <5>1, <5>2 DEF ListRight, ParentSound
        <4>3. CASE q # p
          BY <2>1, <3>3, <4>1, <4>3 DEF ListRight, ParentSound
        <4>. QED BY <4>2, <4>3
      <3>. QED BY <3>1, <3>2, <3>3 DEF ParentSound
    <2>. QED BY <2>3, <2>4, <2>5, <2>6, <2>7 DEF ListRight
  <1>. QED BY <1>3, <1>4

-----------------------------------------------------------------------------

\* At the start the list is the init process.
LEMMA InitList == Init => ListInv
  <1>. SUFFICES ASSUME Init PROVE ListRight
    BY DEF ListInv
  <1>1. OnList = {InitProc}
    BY ProcsAssumption DEF Init, OnList
  <1>2. ChainSound
    BY <1>1, ProcsAssumption DEF Init, ChainSound, Closed
  <1>3. FreshSound /\ LastSound /\ SearchSound
    BY <1>1, ProcsAssumption DEF Init, FreshSound, LastSound, SearchSound
  <1>4. ParentSound
    BY <1>1, ProcsAssumption DEF Init, ParentSound
  <1>. QED BY <1>2, <1>3, <1>4 DEF ListRight

\* Every step keeps the list right, unless it overlaps an update or runs wild.
LEMMA StepList == ProcInv /\ ListInv /\ [Next]_vars => ListInv'
  <1>. SUFFICES ASSUME ProcInv, ListInv, [Next]_vars, ~overlapped', wild' = "no"
                PROVE  ListRight'
    BY DEF ListInv
  <1>1. CASE UNCHANGED vars
    <2>1. ListRight
      BY <1>1 DEF vars, ListInv
    <2>2. Quiet
      BY <1>1, <2>1 DEF vars, list, walk, Quiet, Still, OnList, ListRight, ParentSound
    <2>. QED BY <2>1, <2>2, QuietKeeps DEF ProcInv
  <1>2. CASE \E p \in Procs : SwitchTo(p)
    <2>1. ListRight
      BY <1>2, SMTT(30) DEF SwitchTo, ListInv
    <2>. QED BY <1>2, <2>1, SwitchQuiet, QuietKeeps DEF ProcInv
  <1>3. ASSUME NEW p \in Procs, Step(p) PROVE ListRight'
    <2>. USE <1>3 DEF Step, sys_fork, ForkCopyRegs, ForkAppend, ForkSetLast,
             ForkAddThread, ForkReturn, sys_exit, TerminateStep, TerminateThread, sys_waitpid,
             WaitStep, FreeFind, FreeUnlink, FreeReparent
    <2>0. wild = "no"
      BY DEF At
    <2>1. ~overlapped
      BY DEF UpdateList
    <2>. HIDE DEF Step, sys_fork, ForkCopyRegs, ForkAppend, ForkSetLast,
             ForkAddThread, ForkReturn, sys_exit, TerminateStep, TerminateThread, sys_waitpid,
             WaitStep, FreeFind, FreeUnlink, FreeReparent
    <2>2. ListRight
      BY <2>0, <2>1 DEF ListInv
    <2>3. UpdateList(p) => Alone(p)
      BY DEF UpdateList, Alone
    <2>4. \/ (\E c \in Procs : sys_fork(p, c)) \/ ForkCopyRegs(p) \/ ForkAddThread(p) \/ ForkReturn(p)
          \/ sys_exit(p) \/ TerminateStep(p) \/ TerminateThread(p)
          \/ sys_waitpid(p) \/ WaitStep(p) \/ (FreeFind(p) /\ pc'[p] # "unlink")
          => ListRight'
      BY <2>2, ForkQuiet, ExitQuiet, WaitQuiet, QuietKeeps DEF ProcInv
    <2>5. CASE ForkAppend(p)
      BY <2>2, <2>3, <2>5, AppendKeeps DEF ForkAppend
    <2>6. CASE ForkSetLast(p)
      BY <2>2, <2>3, <2>6, SetLastKeeps DEF ForkSetLast
    <2>7. CASE FreeFind(p) /\ pc'[p] = "unlink"
      <3>1. UpdateList(p)
        BY <2>7 DEF FreeFind, At, Goto, ProcInv, TypeOK
      <3>. QED BY <2>2, <2>3, <2>7, <3>1, FoundKeeps
    <2>8. CASE FreeUnlink(p)
      BY <2>2, <2>3, <2>8, UnlinkKeeps DEF FreeUnlink
    <2>9. CASE FreeReparent(p)
      BY <2>2, <2>9, ReparentKeeps
    <2>. QED BY <1>3, <2>4, <2>5, <2>6, <2>7, <2>8, <2>9 DEF Step
  <1>. QED BY <1>1, <1>2, <1>3 DEF Next

\* Unless two updates overlap, processList holds exactly the processes that exist, and
\* none of them has a freed parent, for any set of processes.
THEOREM ProcessListSound == Spec => []ListSound
  <1>1. Spec => []ListInv
    BY InitList, StepList, ProcessInvariant, PTL DEF Spec
  <1>2. ProcInv /\ ListInv => ListSound
    <2>. SUFFICES ASSUME ProcInv, ListInv PROVE ListSound
      OBVIOUS
    <2>1. TypeOK
      BY DEF ProcInv
    <2>2. ASSUME ~overlapped, wild = "no"
          PROVE  /\ Listed = {p \in Procs : status[p] \in {"running", "zombie"}} \ InHand
                 /\ \A p \in Listed \ {InitProc} : status[parent[p]] # "freed"
      <3>1. ListRight
        BY <2>2 DEF ListInv
      <3>2. Listed = OnList
        BY <2>1, <3>1, ListedIsOnList DEF ListRight
      <3>3. OnList = {p \in Procs : status[p] \in {"running", "zombie"}} \ InHand
        BY DEF OnList, InHand
      <3>. QED BY <3>1, <3>2, <3>3 DEF ListRight, ParentSound
    <2>. QED BY <2>1, <2>2 DEF ListSound, ListComplete, ParentsExist
  <1>. QED BY <1>1, <1>2, ProcessInvariant, PTL
=============================================================================

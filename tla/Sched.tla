------------------------------- MODULE Sched -------------------------------
(***************************************************************************)
(* The scheduler, src/kernel/process/sched/sched.c, and the list of        *)
(* threads it works on, src/kernel/ds/list.c.                              *)
(*                                                                         *)
(* One processor runs threads.  The timer interrupt calls sched_preempt at *)
(* any point of a system call, because system calls run with interrupts    *)
(* enabled and spinlocks do not mask them; the interrupt handler itself    *)
(* runs to its end.  Every thread has at most one list node, which is      *)
(* named by the thread.                                                    *)
(*                                                                         *)
(* Two things can end the model: the handler spins on a lock that a        *)
(* preempted thread holds (stuck), and the handler follows a pointer that  *)
(* was never written (wild).                                               *)
(***************************************************************************)
EXTENDS Integers, FiniteSets, Induction

CONSTANTS
    Threads,
    InitThread,   \* the thread of the init process, which never exits
    NULL,
    GARBAGE       \* the contents of memory that kmalloc returned

ASSUME ThreadsAssumption ==
    /\ IsFiniteSet(Threads) /\ InitThread \in Threads
    /\ NULL \notin Threads /\ GARBAGE \notin Threads /\ NULL # GARBAGE

VARIABLES
    next,               \* node->next
    head, tail, nodeCount,
    listLock, kheapLock,  \* the thread that holds the spinlock, or NULL
    status,             \* thread->status: none (no thread yet), ready, destroyed
    currentThread, currentThreadNode,
    point,              \* the point a thread has reached in the kernel
    child,              \* the thread it is adding to the list
    stuck, wild

links == <<next, head, tail, nodeCount>>
schedVars == <<links, listLock, kheapLock, status, currentThread, currentThreadNode,
               point, child, stuck, wild>>

\* sched_init and process_create_init: the init thread is running.
SchedInit ==
    /\ next = [t \in Threads |-> IF t = InitThread THEN NULL ELSE GARBAGE]
    /\ head = InitThread /\ tail = InitThread /\ nodeCount = 1
    /\ listLock = NULL /\ kheapLock = NULL
    /\ status = [t \in Threads |-> IF t = InitThread THEN "ready" ELSE "none"]
    /\ currentThread = InitThread /\ currentThreadNode = InitThread
    /\ point = [t \in Threads |-> "user"]
    /\ child = [t \in Threads |-> NULL]
    /\ stuck = FALSE /\ wild = FALSE

\* The current thread moves from one point of the kernel to the next.
At(t, from, to) ==
    /\ ~stuck /\ ~wild
    /\ currentThread = t
    /\ point[t] = from
    /\ point' = [point EXCEPT ![t] = to]
    /\ UNCHANGED <<currentThread, stuck, wild>>

\* A system call enters and leaves kmalloc or kmfree.
AcquireHeap(t, from, to) ==
    /\ At(t, from, to)
    /\ kheapLock = NULL
    /\ kheapLock' = t
    /\ UNCHANGED <<links, listLock, status, currentThreadNode, child>>

ReleaseHeap(t, from, to) ==
    /\ At(t, from, to)
    /\ kheapLock' = NULL
    /\ UNCHANGED <<links, listLock, status, currentThreadNode, child>>

HeapCall(t) == AcquireHeap(t, "user", "heap") \/ ReleaseHeap(t, "heap", "user")

\* sched_add_thread, from sys_fork: the thread becomes ready, list_insert
\* allocates its node...
AddThread(t, c) ==
    /\ At(t, "user", "alloc")
    /\ status[c] = "none"
    /\ status' = [status EXCEPT ![c] = "ready"]
    /\ child' = [child EXCEPT ![t] = c]
    /\ UNCHANGED <<links, listLock, kheapLock, currentThreadNode>>

AllocNode(t) ==
    AcquireHeap(t, "alloc", "allocated") \/ ReleaseHeap(t, "allocated", "insert")

AcquireList(t) ==
    /\ At(t, "insert", "link")
    /\ listLock = NULL
    /\ listLock' = t
    /\ UNCHANGED <<links, kheapLock, status, currentThreadNode, child>>

\* ...and links it behind the tail before its own next pointer is written.
LinkNode(t) ==
    /\ At(t, "link", "terminate")
    /\ IF nodeCount = 0
       THEN head' = child[t] /\ UNCHANGED next
       ELSE next' = [next EXCEPT ![tail] = child[t]] /\ UNCHANGED head
    /\ tail' = child[t]
    /\ UNCHANGED <<nodeCount, listLock, kheapLock, status, currentThreadNode, child>>

TerminateNode(t) ==
    /\ At(t, "terminate", "unlock")
    /\ next' = [next EXCEPT ![child[t]] = NULL]
    /\ nodeCount' = nodeCount + 1
    /\ UNCHANGED <<head, tail, listLock, kheapLock, status, currentThreadNode, child>>

ReleaseList(t) ==
    /\ At(t, "unlock", "added")
    /\ listLock' = NULL
    /\ UNCHANGED <<links, kheapLock, status, currentThreadNode, child>>

\* if(!currentThreadNode) currentThreadNode = threadList->head; the test and the
\* store are two steps.
TestCurrentNode(t) ==
    /\ At(t, "added", IF currentThreadNode = NULL THEN "rewind" ELSE "user")
    /\ UNCHANGED <<links, listLock, kheapLock, status, currentThreadNode, child>>

RewindCurrentNode(t) ==
    /\ At(t, "rewind", "user")
    /\ currentThreadNode' = head
    /\ UNCHANGED <<links, listLock, kheapLock, status, child>>

\* sys_exit: sched_remove_thread frees the kernel stack, then marks the thread;
\* it spins until the next tick.
FreeKernelStack(t) ==
    /\ t # InitThread
    /\ AcquireHeap(t, "user", "freeing") \/ ReleaseHeap(t, "freeing", "exiting")

MarkDestroyed(t) ==
    /\ At(t, "exiting", "dead")
    /\ status' = [status EXCEPT ![t] = "destroyed"]
    /\ UNCHANGED <<links, listLock, kheapLock, currentThreadNode, child>>

Step(t) ==
    \/ HeapCall(t)
    \/ \E c \in Threads : AddThread(t, c)
    \/ AllocNode(t) \/ AcquireList(t) \/ LinkNode(t) \/ TerminateNode(t) \/ ReleaseList(t)
    \/ TestCurrentNode(t) \/ RewindCurrentNode(t)
    \/ FreeKernelStack(t) \/ MarkDestroyed(t)

-----------------------------------------------------------------------------

Predecessor(t) == {p \in Threads : next[p] = t}

\* Variant: a removed tail stays the tail.
ListRemoveKeepsTail(t) ==
    /\ next' = [n \in Threads |-> IF n \in Predecessor(t) THEN next[t]
                                  ELSE IF n = t THEN GARBAGE ELSE next[n]]
    /\ head' = IF head = t THEN next[t] ELSE head
    /\ tail' = tail
    /\ nodeCount' = nodeCount - 1

\* list_remove(threadList, t); the freed node keeps nothing.
list_remove(t) ==
    /\ next' = [n \in Threads |-> IF n \in Predecessor(t) THEN next[t]
                                  ELSE IF n = t THEN GARBAGE ELSE next[n]]
    /\ head' = IF head = t THEN next[t] ELSE head
    /\ tail' = IF tail # t THEN tail
               ELSE IF Predecessor(t) = {} THEN NULL ELSE CHOOSE p \in Predecessor(t) : TRUE
    /\ nodeCount' = nodeCount - 1

OnlyOneThread == next[head] = NULL

\* Variant: the search starts from the head every time.
SelectHead ==
    /\ currentThread' = head'
    /\ currentThreadNode' = next'[head']
    /\ UNCHANGED wild

\* _sched_get_next_thread after the current thread has been dealt with.
SelectNext ==
    LET node == IF currentThreadNode = NULL THEN head' ELSE currentThreadNode
    IN  IF node \in Threads
        THEN /\ currentThread' = node
             /\ currentThreadNode' = next'[node]
             /\ UNCHANGED wild
        ELSE /\ wild' = TRUE
             /\ UNCHANGED <<currentThread, currentThreadNode>>

\* The tick finds a current thread that goes on being ready; with one thread in
\* the list it changes nothing.
TickSwitch ==
    /\ ~OnlyOneThread
    /\ status[currentThread] # "destroyed"
    /\ UNCHANGED <<links, status>>
    /\ SelectNext
    /\ UNCHANGED stuck

\* list_remove and the kmfree inside it wait for locks that nobody can release
\* while the handler runs.
HandlerSpins == listLock # NULL \/ kheapLock # NULL

\* Variant: the node of the exited thread stays in the list.
TickRemoveKeepsNode ==
    /\ ~OnlyOneThread
    /\ status[currentThread] = "destroyed"
    /\ UNCHANGED links
    /\ SelectNext
    /\ UNCHANGED <<stuck, status>>

\* The tick removes the node of a thread that has exited.
TickRemove ==
    /\ ~OnlyOneThread
    /\ status[currentThread] = "destroyed"
    /\ IF HandlerSpins
       THEN /\ stuck' = TRUE
            /\ UNCHANGED <<links, currentThread, currentThreadNode, wild>>
       ELSE /\ list_remove(currentThread)
            /\ SelectNext
            /\ UNCHANGED stuck
    /\ UNCHANGED status

\* timer_tick: sched_preempt.
Tick ==
    /\ ~stuck /\ ~wild
    /\ TickSwitch \/ TickRemove
    /\ UNCHANGED <<listLock, kheapLock, point, child>>

SchedNext == Tick \/ \E t \in Threads : Step(t)

\* The timer keeps ticking and the processor keeps executing the current thread.
SchedSpec ==
    /\ SchedInit /\ [][SchedNext]_schedVars
    /\ WF_schedVars(Tick) /\ \A t \in Threads : WF_schedVars(Step(t))

-----------------------------------------------------------------------------

Points == {"user", "heap", "alloc", "allocated", "insert", "link", "terminate",
           "unlock", "added", "rewind", "freeing", "exiting", "dead"}

SchedTypeOK ==
    /\ next \in [Threads -> Threads \cup {NULL, GARBAGE}]
    /\ head \in Threads /\ tail \in Threads /\ nodeCount \in Nat \ {0}
    /\ listLock \in Threads \cup {NULL} /\ kheapLock \in Threads \cup {NULL}
    /\ status \in [Threads -> {"none", "ready", "destroyed"}]
    /\ currentThread \in Threads
    /\ currentThreadNode \in Threads \cup {NULL, GARBAGE}
    /\ point \in [Threads -> Points] /\ child \in [Threads -> Threads \cup {NULL}]
    /\ stuck \in BOOLEAN /\ wild \in BOOLEAN

\* The nodes that the list's next pointers reach.
Reach == Reached(Threads, next, head)

\* The threads that have been added to the list and not removed from it: those that
\* are ready, but for the ones sched_add_thread has not linked yet, and the one whose
\* end the next tick will notice.
InHand == {child[t] : t \in {u \in Threads : point[u] \in {"alloc", "allocated", "insert", "link"}}}

Added == {t \in Threads : status[t] = "ready" \/ (status[t] = "destroyed" /\ t = currentThread)}
             \ InHand

Linking == {t \in Threads : point[t] \in {"link", "terminate"}}

\* Outside an insertion, the list is a proper list: its nodes are exactly those
\* added and not removed, the tail is the last, the count is right.  At all times
\* its pointers are nodes, NULL or the next pointer list_insert has not written.
ListIntact ==
    SchedTypeOK /\ (Linking = {} /\ ~wild =>
        /\ Reach = Added /\ nodeCount = Cardinality(Added)
        /\ tail \in Added /\ next[tail] = NULL
        /\ \A t \in Added : next[t] = NULL => t = tail)

\* The node the scheduler will look at next is a node of the list, also after the
\* tick has freed the node of a thread that exited: the only other value it can
\* have is the unwritten next pointer of a node that list_insert has linked and
\* not yet terminated.
NextNodeValid ==
    \/ currentThreadNode \in Reach \cup {NULL}
    \/ /\ currentThreadNode = GARBAGE
       /\ \E t \in Threads : point[t] = "terminate" /\ currentThread = child[t]

\* The handler can only hang when it removes a thread that has exited while another
\* thread was interrupted inside the heap or the thread list.
StuckOnlyOnExit ==
    stuck =>
        /\ status[currentThread] = "destroyed"
        /\ \E t \in Threads \ {currentThread} : t \in {listLock, kheapLock}

\* Outside an insertion the thread list is a proper list, the scheduler's position in
\* it is one of its nodes, and the tick hangs only when it removes a thread that has
\* exited while another was interrupted with the heap's or the list's lock (sched.c,
\* list.c).
ThreadListSound == ListIntact /\ NextNodeValid /\ StuckOnlyOnExit

\* A thread that has exited is never given the processor again, and a tick only
\* selects threads that are ready.
DestroyedNeverResumes ==
    [][currentThread # currentThread' =>
          status'[currentThread'] = "ready" /\ currentThread' \in Reach]_schedVars

\* Round robin: every thread that is ready gets the processor, unless the handler
\* hangs or runs wild.
EveryReadyRuns ==
    \A t \in Threads \ {InitThread} :
        (status[t] = "ready" /\ t \in Reach) ~> (currentThread = t \/ stuck \/ wild)

\* sys_exit says of its final loop "wait for reschedule" (process.c:221): a thread
\* that has exited loses the processor.
ExitIsRescheduled ==
    \A t \in Threads :
        (currentThread = t /\ status[t] = "destroyed") ~> (currentThread # t \/ wild)
=============================================================================

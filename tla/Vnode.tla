------------------------------- MODULE Vnode --------------------------------
(***************************************************************************)
(* Open files, src/kernel/sys/fal/vnode.c: the global list of vnodes, their *)
(* reference counts, and the descriptor tables of processes, with what     *)
(* fork, exit and execve in src/kernel/process/process.c do to them.        *)
(*                                                                         *)
(* A system call can be preempted anywhere.  vnode_open and vnode_close hold *)
(* the lock of their vnode and a lookup that of the root directory's, but   *)
(* the list itself has no lock.  Each of its operations is entered in one   *)
(* step and completed in another; when it completes while another process   *)
(* is inside one, and either of them changes links, the links can be        *)
(* anything from then on (`torn'): they are no longer followed, and what a  *)
(* search finds is a choice.                                                *)
(*                                                                          *)
(* The files are regular files of the root directory of the system's FAT    *)
(* filesystem, whose lookup returns the listed vnode of that name or makes  *)
(* one. A vnode is never reused after it is freed, so that a use of a freed *)
(* one can be told; the lock that vnode_close releases in the memory it has *)
(* freed is left out with the reuse.                                        *)
(***************************************************************************)
EXTENDS Integers, Sequences, FiniteSets, FiniteSetsExt

CONSTANTS
    Procs, InitProc,
    Names,             \* names of files in the root directory
    InitName,          \* the name of the first process's image
    PROCESS_INIT_FD,   \* 128
    PROCESS_MAX_FD,    \* 2048
    MaxVnodes,         \* bound: vnodes allocated
    MaxRefs            \* bound: references to one vnode, which calls leak

Vnodes == 1..MaxVnodes
NIL == 0

VARIABLES
    next, prev, head, tail,      \* the vnode list
    state,      \* of a vnode's memory: "none", "used" or "freed"
    filename, refCount,
    running,    \* the processes that exist
    fdTable,    \* their descriptors
    fdMax,
    capacity,   \* entries of the block fdTable points to; 0 when it is freed
    pc,         \* where a process is in a call
    cand,       \* the vnode it has looked up
    wanted,     \* the name it is looking up, in a sequence
    readded,    \* vnode_list_add has been given a vnode of the list
    torn,       \* two processes were in the list at once
    wild        \* "no", or how it ended: a freed vnode was used in the "window"
                \* after a lookup or by following a link of the "list", or elf_exec_load
                \* spins for a lock with interrupts disabled ("hang")

links == <<next, prev, head, tail>>
procs == <<running, fdTable, fdMax, capacity>>
flags == <<readded, torn, wild>>
vars == <<links, state, filename, refCount, procs, pc, cand, wanted, flags>>

\* An absolute path, and the name a FAT vnode has: the names of the directories
\* below the root (here none) and its own, without the leading "/".
Path(n) == <<"/", n>>
Filename(n) == <<n>>

\* process_init has opened the terminal, whose vnode has no name, and
\* elf_exec_load the image of the first process. The tables are without the
\* descriptors of the terminal.
Init ==
    /\ next = [v \in Vnodes |-> IF v = 1 THEN 2 ELSE NIL]
    /\ prev = [v \in Vnodes |-> IF v = 2 THEN 1 ELSE NIL]
    /\ head = 1 /\ tail = 2
    /\ state = [v \in Vnodes |-> IF v <= 2 THEN "used" ELSE "none"]
    /\ filename = [v \in Vnodes |-> IF v = 2 THEN Filename(InitName) ELSE <<>>]
    /\ refCount = [v \in Vnodes |-> IF v <= 2 THEN 1 ELSE 0]
    /\ running = {InitProc}
    /\ fdTable = [p \in Procs |-> [i \in 0..(PROCESS_INIT_FD - 1) |-> NIL]]
    /\ fdMax = [p \in Procs |-> PROCESS_INIT_FD - 1]
    /\ capacity = [p \in Procs |-> PROCESS_INIT_FD]
    /\ pc = [p \in Procs |-> "idle"] /\ cand = [p \in Procs |-> NIL]
    /\ wanted = [p \in Procs |-> <<>>]
    /\ readded = FALSE /\ torn = FALSE /\ wild = "no"

----------------------------------------------------------------------------
\* The list.

\* The vnodes from the head on, up to a freed one, whose next is no link; more
\* than there are when the links have become a cycle.
ListSeq ==
    LET w[n \in 0..MaxVnodes] ==
            IF n = 0 THEN <<head>>
            ELSE LET s == w[n-1]
                     v == s[Len(s)]
                 IN  IF v = NIL \/ (v # NIL /\ state[v] = "freed") THEN s
                     ELSE Append(s, next[v])
    IN  SelectSeq(w[MaxVnodes], LAMBDA v : v # NIL)

FREED == -1       \* a search that comes to a freed vnode, or to no end

\* The first match, NIL, or FREED; once the list is torn, any of these.
vnode_list_search_by_filename(name, broken) ==
    LET s == ListSeq
        hits == {i \in DOMAIN s : state[s[i]] = "freed" \/ filename[s[i]] = name}
        named == {v \in Vnodes : state[v] = "used" /\ filename[v] = name}
    IN  IF broken THEN named \cup {NIL, FREED}
        ELSE IF hits = {} THEN {IF Len(s) > MaxVnodes THEN FREED ELSE NIL}
        ELSE LET v == s[Min(hits)] IN {IF state[v] = "freed" THEN FREED ELSE v}

\* The links are no longer followed.
Unfollowed ==
    /\ head' = NIL /\ tail' = NIL
    /\ next' = [v \in Vnodes |-> NIL] /\ prev' = [v \in Vnodes |-> NIL]

vnode_list_add(v) ==
    IF head = NIL
    THEN /\ head' = v /\ tail' = v
         /\ next' = [next EXCEPT ![v] = NIL] /\ prev' = [prev EXCEPT ![v] = NIL]
    ELSE /\ next' = [next EXCEPT ![tail] = v, ![v] = NIL]
         /\ prev' = [prev EXCEPT ![v] = tail]
         /\ tail' = v /\ head' = head

vnode_list_remove(v) ==
    /\ tail' = IF tail = v THEN prev[v] ELSE tail
    /\ head' = IF head = v THEN next[v] ELSE head
    /\ prev' = [u \in Vnodes |-> IF u = next[v] THEN prev[v] ELSE prev[u]]
    /\ next' = [u \in Vnodes |-> IF u = prev[v] THEN next[v] ELSE next[u]]

Freed(v) == v # NIL /\ state[v] = "freed"

Listed(v) == \E i \in DOMAIN ListSeq : ListSeq[i] = v

\* The processes inside a search only, and those inside an operation that ends with
\* a change of the links.
Searching == {q \in Procs : pc[q] \in {"lookup_open", "lookup_exec"}}
Changing == {q \in Procs : pc[q] \in {"list_open", "list_exec", "remove"}}

\* What becomes of the list when p completes an operation.
Tears(p, changes) ==
    torn \/ (Changing \cup (IF changes THEN Searching ELSE {})) \ {p} # {}

\* The vnode's lock and the root directory's are taken.
Locked(v) == \E q \in Changing : cand[q] = v
RootLocked == Searching # {}

----------------------------------------------------------------------------
\* Opening.

Running(p) == p \in running /\ wild = "no" /\ capacity[p] > 0

FreeSlots(p) == {i \in 0..(fdMax[p] - 1) : fdTable[p][i] = NIL}

Goto(p, l) == pc' = [pc EXCEPT ![p] = l]

\* The beginning of sys_open and of sys_execve's check of its path: vnode_lookup
\* takes the lock of the root directory.
BeginLookup(p, n, call) ==
    /\ Running(p) /\ pc[p] = "idle" /\ ~RootLocked
    /\ call = "lookup_open" => FreeSlots(p) # {}
    /\ Goto(p, call) /\ wanted' = [wanted EXCEPT ![p] = <<n>>]
    /\ UNCHANGED <<links, state, filename, refCount, procs, cand, flags>>

\* The filesystem's lookup after its search of the list: the vnode v it returns, and
\* the memory of the vnodes after it.
LookedUp(n, found, v) ==
    IF found = NIL
    THEN /\ state[v] = "none" /\ \A u \in Vnodes : u < v => state[u] # "none"
         /\ state' = [state EXCEPT ![v] = "used"]
         /\ filename' = [filename EXCEPT ![v] = Filename(n)]
    ELSE v = found /\ UNCHANGED <<state, filename>>

vnode_lookup(p) ==
    LET n == wanted[p][1]
    IN  /\ Running(p) /\ p \in Searching
        /\ torn' = Tears(p, FALSE)
        /\ IF torn' THEN Unfollowed ELSE UNCHANGED links
        /\ \E found \in vnode_list_search_by_filename(Filename(n), torn') :
             IF found = FREED
             THEN wild' = "list" /\ UNCHANGED <<state, filename, pc, cand>>
             ELSE \E v \in Vnodes :
                    /\ LookedUp(n, found, v)
                    /\ cand' = [cand EXCEPT ![p] = v]
                    /\ Goto(p, IF pc[p] = "lookup_open" THEN "open" ELSE "exec")
                    /\ UNCHANGED wild
        /\ wanted' = [wanted EXCEPT ![p] = <<>>]
        /\ UNCHANGED <<refCount, procs, readded>>

\* vnode_open takes the lock of the vnode and counts the reference. The vnode may
\* have been freed by its last user since the lookup.
Count(p) ==
    LET v == cand[p]
    IN  /\ Running(p) /\ pc[p] \in {"open", "exec"}
        /\ IF Freed(v)
           THEN wild' = "window" /\ UNCHANGED <<refCount, pc>>
           ELSE /\ ~Locked(v) /\ refCount[v] < MaxRefs
                /\ refCount' = [refCount EXCEPT ![v] = @ + 1]
                /\ Goto(p, IF pc[p] = "open" THEN "list_open" ELSE "list_exec")
                /\ UNCHANGED wild
        /\ UNCHANGED <<links, state, filename, procs, cand, wanted, readded, torn>>

\* The rest of vnode_open: the vnode is listed unless one with the PATH as its name
\* is listed; broken says that the list is torn.
vnode_open_locked(v, n, broken) ==
    \E found \in vnode_list_search_by_filename(Path(n), broken) :
       IF found = FREED \/ (found = NIL /\ ~broken /\ Freed(tail))
       THEN wild' = "list" /\ UNCHANGED <<links, readded>>
       ELSE /\ UNCHANGED wild
            /\ IF found # NIL THEN UNCHANGED <<links, readded>>
               ELSE IF broken THEN Unfollowed /\ UNCHANGED readded
               ELSE vnode_list_add(v) /\ readded' = (readded \/ Listed(v))

\* The rest of sys_open: the lowest free descriptor.
sys_open(p) ==
    /\ Running(p) /\ pc[p] = "list_open"
    /\ torn' = Tears(p, TRUE)
    /\ vnode_open_locked(cand[p], filename[cand[p]][1], torn')
    /\ fdTable' = [fdTable EXCEPT ![p][Min(FreeSlots(p))] = cand[p]]
    /\ Goto(p, "idle") /\ cand' = [cand EXCEPT ![p] = NIL]
    /\ UNCHANGED <<state, filename, refCount, running, fdMax, capacity, wanted>>

\* All descriptors taken: the table is copied into a larger one and freed, the
\* pointer to the larger one is dropped, and the search goes on in the old one,
\* where this process's part of the model ends. At the limit the call fails.
OpenGrowsTable(p) ==
    /\ Running(p) /\ pc[p] = "idle" /\ FreeSlots(p) = {}
    /\ fdMax[p] + 1 < PROCESS_MAX_FD
    /\ capacity' = [capacity EXCEPT ![p] = 0]
    /\ fdMax' = [fdMax EXCEPT ![p] = (@ + 1) * 2 - 1]
    /\ UNCHANGED <<links, state, filename, refCount, running, fdTable, pc, cand, wanted, flags>>

sys_close(p, i) ==
    /\ Running(p) /\ pc[p] = "idle"
    /\ fdTable[p][i] # NIL
    /\ fdTable' = [fdTable EXCEPT ![p][i] = NIL]
    /\ UNCHANGED <<links, state, filename, refCount, running, fdMax, capacity, pc, cand,
                   wanted, flags>>

----------------------------------------------------------------------------
\* execve: open and close the file, then, interrupts disabled, open it again to
\* load it. Nothing closes it a second time.

ExecOpen(p) ==
    /\ Running(p) /\ pc[p] = "list_exec"
    /\ torn' = Tears(p, TRUE)
    /\ vnode_open_locked(cand[p], filename[cand[p]][1], torn')
    /\ Goto(p, "close")
    /\ UNCHANGED <<state, filename, refCount, procs, cand, wanted>>

vnode_close(p) ==
    LET v == cand[p]
    IN  /\ Running(p) /\ pc[p] = "close" /\ ~Locked(v)
        /\ refCount' = [refCount EXCEPT ![v] = @ - 1]
        /\ Goto(p, IF refCount[v] = 1 THEN "remove" ELSE "load")
        /\ UNCHANGED <<links, state, filename, procs, cand, wanted, flags>>

\* The last reference: the vnode leaves the list and is freed.
CloseLast(p) ==
    LET v == cand[p]
    IN  /\ Running(p) /\ pc[p] = "remove"
        /\ torn' = Tears(p, TRUE)
        /\ \/ /\ torn' \/ Freed(next[v]) \/ Freed(prev[v])
              /\ wild' = "list" /\ UNCHANGED <<links, state>>
           \/ /\ torn' \/ ~(Freed(next[v]) \/ Freed(prev[v]))
              /\ IF torn' THEN Unfollowed ELSE vnode_list_remove(v)
              /\ state' = [state EXCEPT ![v] = "freed"]
              /\ UNCHANGED wild
        /\ Goto(p, "load")
        /\ UNCHANGED <<filename, refCount, procs, cand, wanted, readded>>

\* Interrupts are disabled: a lock that is taken is never released.
elf_exec_load(p) ==
    LET n == filename[cand[p]][1]
        broken == Tears(p, TRUE)
        Ends(how) == /\ wild' = how
                     /\ UNCHANGED <<links, state, filename, refCount, readded>>
    IN  /\ Running(p) /\ pc[p] = "load"
        /\ torn' = broken
        /\ IF RootLocked THEN Ends("hang")
           ELSE \E found \in vnode_list_search_by_filename(Filename(n), broken) :
                  IF found = FREED THEN Ends("list")
                  ELSE \E v \in Vnodes :
                         IF v = found /\ Locked(v) THEN Ends("hang")
                         ELSE /\ LookedUp(n, found, v) /\ refCount[v] < MaxRefs
                              /\ refCount' = [refCount EXCEPT ![v] = @ + 1]
                              /\ vnode_open_locked(v, n, broken)
        /\ Goto(p, "idle") /\ cand' = [cand EXCEPT ![p] = NIL]
        /\ UNCHANGED <<procs, wanted>>

----------------------------------------------------------------------------
\* fork and exit.

\* How many descriptors below fdMax of p's table are of vnode v.
References(p, v) ==
    Cardinality({i \in DOMAIN fdTable[p] : i < fdMax[p] /\ fdTable[p][i] = v})

\* A variant: the child's descriptors are not counted.
sys_forkUncounted(p, q) ==
    /\ Running(p) /\ pc[p] = "idle" /\ q \notin running
    /\ running' = running \cup {q}
    /\ fdTable' = [fdTable EXCEPT ![q] = fdTable[p]]
    /\ fdMax' = [fdMax EXCEPT ![q] = fdMax[p]]
    /\ capacity' = [capacity EXCEPT ![q] = fdMax[p] + 1]
    /\ UNCHANGED <<links, state, filename, refCount, pc, cand, wanted, flags>>

sys_fork(p, q) ==
    /\ Running(p) /\ pc[p] = "idle" /\ q \notin running
    /\ running' = running \cup {q}
    /\ fdTable' = [fdTable EXCEPT ![q] = fdTable[p]]
    /\ fdMax' = [fdMax EXCEPT ![q] = fdMax[p]]
    /\ capacity' = [capacity EXCEPT ![q] = fdMax[p] + 1]
    /\ refCount' = [v \in Vnodes |-> refCount[v] + References(p, v)]
    /\ \A v \in Vnodes : refCount'[v] <= MaxRefs
    /\ UNCHANGED <<links, state, filename, pc, cand, wanted, flags>>

\* The references are given back, but no vnode is closed.
process_free(p) ==
    /\ Running(p) /\ pc[p] = "idle" /\ p # InitProc
    /\ running' = running \ {p}
    /\ refCount' = [v \in Vnodes |-> refCount[v] - References(p, v)]
    /\ fdTable' = [fdTable EXCEPT ![p] = [i \in DOMAIN @ |-> NIL]]
    /\ UNCHANGED <<links, state, filename, fdMax, capacity, pc, cand, wanted, flags>>

Next ==
    \E p \in Procs :
        \/ \E n \in Names, call \in {"lookup_open", "lookup_exec"} : BeginLookup(p, n, call)
        \/ vnode_lookup(p) \/ Count(p) \/ sys_open(p) \/ OpenGrowsTable(p)
        \/ \E i \in 0..(PROCESS_INIT_FD - 1) : sys_close(p, i)
        \/ ExecOpen(p) \/ vnode_close(p) \/ CloseLast(p) \/ elf_exec_load(p)
        \/ \E q \in Procs : sys_fork(p, q)
        \/ process_free(p)

Spec == Init /\ [][Next]_vars

----------------------------------------------------------------------------
\* Properties.

TypeOK ==
    /\ state \in [Vnodes -> {"none", "used", "freed"}]
    /\ refCount \in [Vnodes -> Nat]
    /\ next \in [Vnodes -> Vnodes \cup {NIL}] /\ prev \in [Vnodes -> Vnodes \cup {NIL}]
    /\ {head, tail} \subseteq Vnodes \cup {NIL}
    /\ fdTable \in [Procs -> [0..(PROCESS_INIT_FD - 1) -> Vnodes \cup {NIL}]]
    /\ wild \in {"no", "window", "list", "hang"}

\* A vnode some process has a descriptor of is allocated and counts at least
\* those descriptors, through any order of open, close, fork, exit and execve,
\* even after the list is torn (vnode_close frees on the last reference; sys_close
\* gives none back).
OpenFilesAlive ==
    /\ TypeOK
    /\ wild = "no" =>
         \A v \in Vnodes :
            LET users == MapThenSumSet(LAMBDA p : References(p, v), running)
            IN  users > 0 => state[v] = "used" /\ refCount[v] >= users

\* Until a listed vnode is listed again (readded) or two processes are in the list at
\* once, one of them changing it (torn), the links of the list agree in both
\* directions, every vnode with a reference is on it or about to be put there, none
\* that is freed, and no search or removal comes to freed memory (vnode_list_add,
\* vnode_list_remove). Neither exception is rare: every second open of a file lists it
\* again, and nothing keeps two opens of different files apart.
ListIntact ==
    ~readded /\ ~torn =>
        /\ wild # "list"
        /\ wild = "no" =>
             LET s == ListSeq
             IN  /\ IsInjective(s)
                 /\ \A i \in DOMAIN s :
                       state[s[i]] = "used" /\ prev[s[i]] = IF i = 1 THEN NIL ELSE s[i-1]
                 /\ s # <<>> => tail = s[Len(s)]
                 /\ \A v \in Vnodes : refCount[v] > 0 => v \in Range(s) \/ Locked(v)
=============================================================================

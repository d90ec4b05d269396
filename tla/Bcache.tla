------------------------------- MODULE Bcache -------------------------------
(***************************************************************************)
(* The buffer cache, src/kernel/sys/dal/stor/bcache.c: a fixed array of    *)
(* buffers on a doubly linked list, searched from the head, to whose tail  *)
(* a buffer moves when its last user releases it.                          *)
(*                                                                         *)
(* bcache_get holds the cache's spinlock while it searches and while the   *)
(* drive is read; other callers wait, holding the buffers they have.       *)
(***************************************************************************)
EXTENDS Integers, Sequences, FiniteSets, FiniteSetsExt

CONSTANTS
    N,            \* BCACHE_BUF_COUNT: 30
    Callers,
    Blocks,       \* the blocks of drives that can be read
    DeadBlocks,   \* the blocks of drives without a read operation
    MaxHeld,      \* bound: buffers one caller holds at a time
    NULL

ASSUME BcacheAssumption ==
    /\ N \in Nat \ {0} /\ MaxHeld \in Nat /\ IsFiniteSet(Callers)
    /\ NULL \notin Callers \cup Blocks \cup DeadBlocks

Bufs == 1..N
Pointers == 1..MaxHeld
NIL == 0          \* a null buffer pointer

VARIABLES
    next, prev, head, tail,
    valid, refCount, block,
    loaded,       \* the data is that of the block
    lock,         \* the caller inside bcache_get, or NULL
    loading,      \* the buffer it is reading into
    held,         \* the buffer pointers each caller has
    tailReleased, \* a buffer has been released while it was the tail
    stopped       \* no; panic: "No available bcache buffers!"; hang: a search
                  \* that does not end

links == <<next, prev, head, tail>>
vars == <<links, valid, refCount, block, loaded, lock, loading, held, tailReleased, stopped>>

\* bcache_init; the buffers are zero.
Init ==
    /\ next = [i \in Bufs |-> IF i = N THEN NIL ELSE i + 1]
    /\ prev = [i \in Bufs |-> i - 1]
    /\ head = 1 /\ tail = N
    /\ valid = [i \in Bufs |-> FALSE] /\ refCount = [i \in Bufs |-> 0]
    /\ block = [i \in Bufs |-> NULL] /\ loaded = [i \in Bufs |-> FALSE]
    /\ lock = NULL /\ loading = NIL
    /\ held = [c \in Callers |-> [k \in Pointers |-> NIL]]
    /\ tailReleased = FALSE /\ stopped = "no"

\* One step of a walk along the list.
Longer(q) == IF next[q[Len(q)]] = NIL THEN q ELSE Append(q, next[q[Len(q)]])

\* The buffers a walk from the head visits, in order; more than N of them when
\* the links have become a cycle.
Walk ==
    LET w[n \in 0..N] == IF n = 0 THEN <<head>> ELSE Longer(w[n-1]) IN w[N]

\* The first buffer of the walk that is in a set, or NIL.
FirstOf(S) ==
    LET hits == {n \in 1 .. N+1 : n <= Len(Walk) /\ Walk[n] \in S}
    IN  IF hits = {} THEN NIL ELSE Walk[Min(hits)]

Holds(i, b) == valid[i] /\ block[i] = b

\* Variant: a buffer in use may be taken.
AvailableAlways(i) == TRUE

Available(i) == refCount[i] = 0

Unused(c) == {k \in Pointers : held[c][k] = NIL}

\* The pointer that bcache_get returns.
Give(c, i) == held' = [held EXCEPT ![c][CHOOSE k \in Unused(c) : TRUE] = i]

\* bcache_get up to the call of bcache_read: a hit, a buffer to load, or none.
bcache_get(c, b) ==
    /\ stopped = "no" /\ lock = NULL
    /\ Unused(c) # {}
    /\ LET hit == FirstOf({i \in Bufs : Holds(i, b)})
           free == FirstOf({i \in Bufs : Available(i)})
       IN  IF hit # NIL
           THEN /\ refCount' = [refCount EXCEPT ![hit] = @ + 1]
                /\ Give(c, hit)
                /\ UNCHANGED <<valid, block, loaded, lock, loading, stopped>>
           ELSE IF free # NIL /\ Len(Walk) <= N
           THEN /\ refCount' = [refCount EXCEPT ![free] = @ + 1]
                /\ block' = [block EXCEPT ![free] = b]
                /\ valid' = [valid EXCEPT ![free] = TRUE]
                /\ loaded' = [loaded EXCEPT ![free] = FALSE]
                /\ lock' = c /\ loading' = free
                /\ UNCHANGED <<held, stopped>>
           ELSE /\ stopped' = IF Len(Walk) > N THEN "hang" ELSE "panic"
                /\ UNCHANGED <<valid, refCount, block, loaded, lock, loading, held>>
    /\ UNCHANGED <<links, tailReleased>>

\* bcache_read asks the drive for the block; what the drive returns is ignored, so
\* a read that fails leaves the data of an earlier block.
LoadDone(c) ==
    /\ stopped = "no" /\ lock = c /\ block[loading] \in Blocks
    /\ \E ok \in BOOLEAN : loaded' = [loaded EXCEPT ![loading] = ok]
    /\ Give(c, loading)
    /\ lock' = NULL /\ loading' = NIL
    /\ UNCHANGED <<links, valid, refCount, block, tailReleased, stopped>>

\* Variant: the buffer of a drive without a read operation stays marked in use.
LoadImpossibleKeeps(c) ==
    /\ stopped = "no" /\ lock = c /\ block[loading] \in DeadBlocks
    /\ valid' = [valid EXCEPT ![loading] = FALSE]
    /\ lock' = NULL /\ loading' = NIL
    /\ UNCHANGED <<links, refCount, block, loaded, held, tailReleased, stopped>>

\* The drive has no read operation: bcache_get returns NULL.
LoadImpossible(c) ==
    /\ stopped = "no" /\ lock = c /\ block[loading] \in DeadBlocks
    /\ refCount' = [refCount EXCEPT ![loading] = 0]
    /\ valid' = [valid EXCEPT ![loading] = FALSE]
    /\ lock' = NULL /\ loading' = NIL
    /\ UNCHANGED <<links, block, loaded, held, tailReleased, stopped>>

\* Variant: the head is not moved.
MoveToTailKeepsHead(b) ==
    LET n1 == [next EXCEPT ![tail] = b]
        p1 == IF n1[b] = NIL THEN prev ELSE [prev EXCEPT ![n1[b]] = prev[b]]
        n2 == IF p1[b] = NIL THEN n1 ELSE [n1 EXCEPT ![p1[b]] = n1[b]]
    IN  /\ next' = [n2 EXCEPT ![b] = NIL]
        /\ prev' = [p1 EXCEPT ![b] = tail]
        /\ head' = head
        /\ tail' = b

\* The pointer assignments of bcache_release, in their order.
MoveToTail(b) ==
    LET n1 == [next EXCEPT ![tail] = b]
        p1 == IF n1[b] = NIL THEN prev ELSE [prev EXCEPT ![n1[b]] = prev[b]]
        n2 == IF p1[b] = NIL THEN n1 ELSE [n1 EXCEPT ![p1[b]] = n1[b]]
    IN  /\ next' = [n2 EXCEPT ![b] = NIL]
        /\ prev' = [p1 EXCEPT ![b] = tail]
        /\ head' = IF b = head THEN n1[b] ELSE head
        /\ tail' = b

\* The last release of a buffer moves it to the tail and forgets its block.
bcache_release(c, k) ==
    LET b == held[c][k]
    IN  /\ stopped = "no" /\ lock = NULL
        /\ b # NIL
        /\ held' = [held EXCEPT ![c][k] = NIL]
        /\ refCount' = [refCount EXCEPT ![b] = @ - 1]
        /\ IF refCount[b] = 1
           THEN /\ MoveToTail(b)
                /\ valid' = [valid EXCEPT ![b] = FALSE]
                /\ tailReleased' = (tailReleased \/ b = tail)
           ELSE UNCHANGED <<links, valid, tailReleased>>
        /\ UNCHANGED <<block, loaded, lock, loading, stopped>>

Next ==
    \E c \in Callers :
        \/ \E b \in Blocks \cup DeadBlocks : bcache_get(c, b)
        \/ LoadDone(c) \/ LoadImpossible(c)
        \/ \E k \in Pointers : bcache_release(c, k)

Spec == Init /\ [][Next]_vars

-----------------------------------------------------------------------------

TypeOK ==
    /\ next \in [Bufs -> Bufs \cup {NIL}] /\ prev \in [Bufs -> Bufs \cup {NIL}]
    /\ head \in Bufs /\ tail \in Bufs
    /\ valid \in [Bufs -> BOOLEAN] /\ refCount \in [Bufs -> Nat]
    /\ block \in [Bufs -> Blocks \cup DeadBlocks \cup {NULL}]
    /\ loaded \in [Bufs -> BOOLEAN]
    /\ lock \in Callers \cup {NULL} /\ loading \in Bufs \cup {NIL}
    /\ held \in [Callers -> [Pointers -> Bufs \cup {NIL}]]
    /\ tailReleased \in BOOLEAN /\ stopped \in {"no", "panic", "hang"}

Holders(i) == {u \in Callers \X Pointers : held[u[1]][u[2]] = i}

Users(i) == Cardinality(Holders(i)) + (IF loading = i THEN 1 ELSE 0)

\* The reference count of a buffer is the number of its users, on every path
\* through bcache_get and bcache_release: none leaks and none is released early.
RefCountExact == \A i \in Bufs : refCount[i] = Users(i)

\* Until the buffer at the tail is released in place, the list holds every buffer
\* once, linked consistently in both directions.
ListIntact ==
    ~tailReleased =>
        /\ Len(Walk) = N /\ Walk[N] = tail
        /\ \A n \in 1..N : prev[Walk[n]] = IF n = 1 THEN NIL ELSE Walk[n-1]

\* A block is in at most one buffer while callers use it, so that they share it.
OneCopy ==
    ~tailReleased =>
        \A i, j \in Bufs : valid[i] /\ valid[j] /\ block[i] = block[j] => i = j

\* What a caller holds stays the block it asked for until it releases it: no other
\* caller's bcache_get takes the buffer over.
HeldStays ==
    [][\A c \in Callers, k \in Pointers :
          LET i == held[c][k]
          IN  i # NIL /\ held'[c][k] = i =>
                  block'[i] = block[i] /\ loaded'[i] = loaded[i] /\ valid'[i]]_vars

\* Until the buffer at the tail is released in place, the panic "No available bcache
\* buffers!" (bcache.c:51) means that every buffer is in use, and no search of the
\* list runs for ever.
PanicMeansNoneAvailable ==
    stopped # "no" /\ ~tailReleased =>
        stopped = "panic" /\ \A i \in Bufs : refCount[i] > 0

\* The list of the cache serves its purpose, until the tail is released in place.
CacheSound == TypeOK /\ ListIntact /\ OneCopy /\ PanicMeansNoneAvailable
=============================================================================

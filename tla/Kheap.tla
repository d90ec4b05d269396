------------------------------- MODULE Kheap -------------------------------
(***************************************************************************)
(* The kernel heap, src/kernel/mem/kheap/kheap.c: a doubly linked list of  *)
(* block headers laid out in memory obtained from the page allocator.      *)
(*                                                                         *)
(* kmalloc and kmfree work on the list under kheapLock, so an attempt to   *)
(* allocate is one step; but a kmalloc that finds no block extends the     *)
(* heap, releases the lock and tries again, and another caller may take    *)
(* the new block in between.                                               *)
(***************************************************************************)
EXTENDS Integers, FiniteSets, Induction

CONSTANTS
    Clients,      \* the callers of kmalloc and kmfree
    HDR,          \* sizeof(kheap_block_header_t): 32
    ALIGN,        \* 16
    PAGE,         \* PAGE_SIZE: 4096
    INIT_PAGES,   \* KHEAP_INIT_PAGES
    InitPage,     \* where pmm_allocate places the initial heap
    NPages,       \* bound: pages of physical memory
    Sizes,        \* bound: the sizes requested
    NULL,
    OUTSIDE       \* a caller that is not inside kmalloc

ASSUME HeapAssumption ==
    /\ ALIGN \in Nat \ {0} /\ HDR \in Nat \ {0} /\ PAGE \in Nat /\ HDR <= PAGE
    /\ HDR % ALIGN = 0 /\ PAGE % ALIGN = 0
    /\ INIT_PAGES \in Nat \ {0} /\ InitPage \in Nat /\ NPages \in Nat
    /\ InitPage + INIT_PAGES <= NPages
    /\ Sizes \subseteq Nat /\ NULL \notin Nat /\ OUTSIDE \notin Nat

VARIABLES
    hdr,          \* the headers in memory: address -> [size, free, prev, next]
    start, end,
    kheapSize,
    pages,        \* the pages the heap has taken from the page allocator
    seams,        \* the addresses where an extension begins
    live,         \* what callers hold: [ptr, size]
    want,         \* the aligned size a caller inside kmalloc asks for, or OUTSIDE
    exhausted     \* the page allocator ran out of memory

kheapVars == <<hdr, start, end, kheapSize, pages, seams, live, want, exhausted>>

ALIGN_UP(x, a) == IF x % a = 0 THEN x ELSE x + (a - (x % a))

PageAddr(p) == p * PAGE

\* The header that follows h in memory.
After(h) == h + HDR + hdr[h].size

\* kheap_init.
KheapInit ==
    /\ hdr = [h \in {PageAddr(InitPage)} |->
                  [size |-> INIT_PAGES * PAGE - HDR, free |-> TRUE, prev |-> NULL, next |-> NULL]]
    /\ start = PageAddr(InitPage) /\ end = PageAddr(InitPage)
    /\ kheapSize = INIT_PAGES * PAGE
    /\ pages = InitPage .. InitPage + INIT_PAGES - 1
    /\ seams = {PageAddr(InitPage)}
    /\ live = {}
    /\ want = [c \in Clients |-> OUTSIDE]
    /\ exhausted = FALSE

\* Variant: a block of exactly the right size is passed over.
FitsStrictly(h, size) == hdr[h].free /\ hdr[h].size > size

Fits(h, size) == hdr[h].free /\ hdr[h].size >= size

\* The block the search loop of kmalloc stops at, NULL if it runs off the list.
Search(size) ==
    LET onward == [h \in DOMAIN hdr |-> IF Fits(h, size) THEN NULL ELSE hdr[h].next]
        found == {h \in Reached(DOMAIN hdr, onward, start) : Fits(h, size)}
    IN  IF found = {} THEN NULL ELSE CHOOSE h \in found : TRUE

\* Memory with a header written at a.
Written(m, a, header) == [x \in DOMAIN m \cup {a} |-> IF x = a THEN header ELSE m[x]]

\* Variant: the new block's successor keeps pointing back at h.
CreateBlockNoBackLink(m, h, size) ==
    LET newh == h + HDR + size
    IN  Written([m EXCEPT ![h].size = size, ![h].next = newh], newh,
                [size |-> m[h].size - (size + HDR), free |-> TRUE, prev |-> h, next |-> m[h].next])

kheap_create_block(m, h, size) ==
    LET newh == h + HDR + size
        next == m[h].next
        m1 == Written([m EXCEPT ![h].size = size, ![h].next = newh], newh,
                      [size |-> m[h].size - (size + HDR), free |-> TRUE, prev |-> h, next |-> next])
    IN  IF next = NULL THEN m1 ELSE [m1 EXCEPT ![next].prev = newh]

\* A caller enters kmalloc; the size is rounded up to a multiple of 16.
kmalloc(c, size) ==
    /\ ~exhausted
    /\ want[c] = OUTSIDE
    /\ want' = [want EXCEPT ![c] = ALIGN_UP(size, ALIGN)]
    /\ UNCHANGED <<hdr, start, end, kheapSize, pages, seams, live, exhausted>>

Splits(h, size) == hdr[h].size > size + HDR

\* The search finds a block: it is taken whole, or split when the rest has room
\* for more than a header.
Take(c) ==
    LET size == want[c]
        h == Search(size)
        m == IF Splits(h, size) THEN kheap_create_block(hdr, h, size) ELSE hdr
    IN  /\ ~exhausted
        /\ want[c] # OUTSIDE
        /\ h # NULL
        /\ hdr' = [m EXCEPT ![h].free = FALSE]
        /\ end' = IF Splits(h, size) /\ h = end THEN h + HDR + size ELSE end
        /\ live' = live \cup {[ptr |-> h + HDR, size |-> size]}
        /\ want' = [want EXCEPT ![c] = OUTSIDE]
        /\ UNCHANGED <<start, kheapSize, pages, seams, exhausted>>

ExtendAt(p, n) ==
    LET newh == PageAddr(p)
    IN  /\ hdr' = Written([hdr EXCEPT ![end].next = newh], newh,
                          [size |-> n * PAGE - HDR, free |-> TRUE, prev |-> end, next |-> NULL])
        /\ end' = newh
        /\ kheapSize' = kheapSize + n * PAGE
        /\ pages' = pages \cup (p .. p + n - 1)
        /\ seams' = seams \cup {newh}

ExtendPages(size) == ALIGN_UP(size + HDR, PAGE) \div PAGE

\* kheap_extend: pmm_allocate returns some free run of pages, which becomes the
\* last block of the list; the caller then calls kmalloc again.
kheap_extend(c) ==
    LET n == ExtendPages(want[c])
        runs == {p \in 0 .. NPages - n : (p .. p + n - 1) \cap pages = {}}
    IN  /\ ~exhausted
        /\ want[c] # OUTSIDE
        /\ Search(want[c]) = NULL
        /\ \/ /\ runs # {}
              /\ \E p \in runs : ExtendAt(p, n)
              /\ UNCHANGED <<start, live, want, exhausted>>
           \/ /\ runs = {}
              /\ exhausted' = TRUE
              /\ UNCHANGED <<hdr, start, end, kheapSize, pages, seams, live, want>>

\* h and the block after it in the list are free and adjacent in memory.
MergesWith(m, h, next) ==
    next # NULL /\ m[next].free /\ h + m[h].size + HDR = next

\* Joins next to h; the header at next is no longer a header.
Absorb(m, h, next) ==
    [a \in DOMAIN m \ {next} |->
        IF a = h THEN [m[h] EXCEPT !.size = @ + m[next].size + HDR,
                                   !.next = m[next].next]
        ELSE IF a = m[next].next THEN [m[a] EXCEPT !.prev = h]
        ELSE m[a]]

\* kmfree: joins the block with its successor, then with its predecessor.
kmfree(b) ==
    LET h == b.ptr - HDR
        m0 == [hdr EXCEPT ![h].free = TRUE]
        next == m0[h].next
        up == MergesWith(m0, h, next)
        m1 == IF up THEN Absorb(m0, h, next) ELSE m0
        e1 == IF up /\ next = end THEN h ELSE end
        prev == m1[h].prev
        down == prev # NULL /\ m1[prev].free /\ MergesWith(m1, prev, h)
    IN  /\ ~exhausted
        /\ b \in live
        /\ hdr' = IF down THEN Absorb(m1, prev, h) ELSE m1
        /\ end' = IF down /\ h = e1 THEN prev ELSE e1
        /\ live' = live \ {b}
        /\ UNCHANGED <<start, kheapSize, pages, seams, want, exhausted>>

KheapNext ==
    \/ \E c \in Clients, s \in Sizes : kmalloc(c, s)
    \/ \E c \in Clients : Take(c) \/ kheap_extend(c)
    \/ \E b \in live : kmfree(b)

KheapSpec == KheapInit /\ [][KheapNext]_kheapVars

-----------------------------------------------------------------------------

Addr == 0 .. NPages * PAGE

KheapTypeOK ==
    /\ DOMAIN hdr \subseteq Addr
    /\ \A h \in DOMAIN hdr :
          hdr[h] \in [size : Nat, free : BOOLEAN,
                      prev : Addr \cup {NULL}, next : Addr \cup {NULL}]
    /\ start \in DOMAIN hdr /\ end \in DOMAIN hdr
    /\ kheapSize \in Nat /\ pages \subseteq 0 .. NPages - 1
    /\ live \subseteq [ptr : Addr, size : Nat]
    /\ want \in [Clients -> Nat \cup {OUTSIDE}]
    /\ exhausted \in BOOLEAN

Space(h) == h .. After(h) - 1
HeapSpace == UNION {PageAddr(p) .. PageAddr(p + 1) - 1 : p \in pages}

\* The headers are well formed, and the list that kmalloc walks holds every block
\* once, ends at `end`, and can be walked backwards by kmfree: split, extend and
\* both merges keep the links and the end pointer consistent.
ListIntact ==
    /\ KheapTypeOK
    /\ hdr[start].prev = NULL /\ hdr[end].next = NULL
    /\ \A h \in DOMAIN hdr :
          /\ hdr[h].next # NULL => hdr[h].next \in DOMAIN hdr /\ hdr[hdr[h].next].prev = h
          /\ hdr[h].next = NULL => h = end
    /\ Reached(DOMAIN hdr, [h \in DOMAIN hdr |-> hdr[h].next], start) = DOMAIN hdr

\* The blocks with their headers cover the heap's pages exactly: no byte belongs
\* to two blocks and none is lost by a split, a merge or an extension.
BlocksTileHeap ==
    /\ UNION {Space(h) : h \in DOMAIN hdr} = HeapSpace
    /\ \A g, h \in DOMAIN hdr : g # h => Space(g) \cap Space(h) = {}
    /\ kheapSize = Cardinality(HeapSpace)

\* What callers hold is backed by blocks that are not free, one block each, large
\* enough for the request, at an aligned address (process.c relies on it:
\* "addresses returned by kmalloc() are already 16-byte aligned"); every such
\* block is held by a caller (nothing leaks).
LiveBacked ==
    /\ \A b \in live : /\ b.ptr - HDR \in DOMAIN hdr
                       /\ ~hdr[b.ptr - HDR].free
                       /\ hdr[b.ptr - HDR].size >= b.size
                       /\ b.ptr % ALIGN = 0
    /\ \A h \in DOMAIN hdr : ~hdr[h].free => \E b \in live : b.ptr = h + HDR
    /\ \A a, b \in live : a.ptr = b.ptr => a = b

\* Free neighbours in memory that follow each other in the list are joined, except
\* where a later extension happens to begin right behind the last block.
Coalesced ==
    \A h \in DOMAIN hdr :
        LET next == hdr[h].next
        IN  /\ next # NULL
            /\ hdr[h].free /\ hdr[next].free
            /\ After(h) = next
            => next \in seams

\* kmalloc and kmfree keep the block list a doubly linked list of blocks that tile the
\* heap, what callers hold is backed by pages and disjoint, and no two free neighbours
\* stay apart.
HeapSound == ListIntact /\ BlocksTileHeap /\ LiveBacked /\ Coalesced

\* The heap takes pages from the page allocator only for a request that no free
\* block can hold, and never gives a page back; the block it adds can hold that
\* request, so the retry succeeds unless another caller gets in first.
GrowsOnlyWhenNeeded ==
    [][pages # pages' =>
          /\ pages \subseteq pages'
          /\ \E c \in Clients : want[c] # OUTSIDE
                /\ \A h \in DOMAIN hdr : hdr[h].free => hdr[h].size < want[c]
                /\ hdr'[end'].free /\ hdr'[end'].size >= want[c]]_kheapVars
=============================================================================

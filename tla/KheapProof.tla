----------------------------- MODULE KheapProof -----------------------------
(***************************************************************************)
(* Proofs about the kernel heap of Kheap, for every alignment, page size,  *)
(* number of pages and callers, and every size requested: a split, a merge *)
(* in either direction and an extension each take a proper list of blocks  *)
(* to a proper list of blocks.  They are followed on the memory as a value *)
(* (m before, w after), because kmfree makes up to three such changes in   *)
(* one step.                                                               *)
(***************************************************************************)
EXTENDS Kheap, TLAPS

\* A leaf that names no backend is one for Zenon; SMTT marks those that need more theory.
USE ZenonT(30)

\* A header's fields, the list's pointers and where a block ends, in the memory m.
Header == [size : Nat, free : BOOLEAN, prev : Addr \cup {NULL}, next : Addr \cup {NULL}]
Links(m) == [h \in DOMAIN m |-> m[h].next]
Fin(m, h) == h + HDR + m[h].size

\* Multiples of the alignment.
Aligned(x) == \E k \in Int : x = k * ALIGN

\* The headers are well formed and aligned.
HeadersRight(m) ==
    /\ DOMAIN m \subseteq Addr
    /\ \A h \in DOMAIN m : m[h] \in Header /\ Aligned(h) /\ Aligned(m[h].size)

\* The list from s to e is a chain of all blocks, and can be walked backwards.
ListRight(m, s, e) ==
    /\ Chain(Addr, Links(m), DOMAIN m, s) /\ e \in DOMAIN m /\ m[s].prev = NULL
    /\ \A h \in DOMAIN m : m[h].next = NULL <=> h = e
    /\ \A h \in DOMAIN m :
          m[h].next # NULL => m[h].next \in DOMAIN m /\ m[m[h].next].prev = h

\* The blocks do not overlap, and cover the addresses A.
TilesRight(m, A) ==
    /\ \A g, h \in DOMAIN m : g < h => Fin(m, g) <= h
    /\ \A x \in Int : x \in A <=> \E h \in DOMAIN m : h <= x /\ x < Fin(m, h)

MemoryRight(m, s, e, A) == HeadersRight(m) /\ ListRight(m, s, e) /\ TilesRight(m, A)

\* The callers hold the blocks that are not free, each one once.
LiveRight(m, l) ==
    /\ \A b \in l : /\ b.ptr - HDR \in DOMAIN m /\ ~m[b.ptr - HDR].free
                    /\ m[b.ptr - HDR].size >= b.size
    /\ \A h \in DOMAIN m : ~m[h].free => \E b \in l : b.ptr = h + HDR
    /\ \A a, b \in l : a.ptr = b.ptr => a = b

\* A block and its successor in the list have been joined when both are free.
Joined(m, h, S) ==
    m[h].next # NULL /\ m[h].free /\ m[m[h].next].free /\ Fin(m, h) = m[h].next => m[h].next \in S

\* The inductive invariant.
KheapInv ==
    /\ KheapTypeOK /\ MemoryRight(hdr, start, end, HeapSpace) /\ LiveRight(hdr, live)
    /\ \A h \in DOMAIN hdr : Joined(hdr, h, seams)
    /\ HeapSpace \subseteq 0 .. NPages * PAGE - 1 /\ kheapSize = Cardinality(HeapSpace)
    /\ \A c \in Clients : want[c] # OUTSIDE => Aligned(want[c])

-----------------------------------------------------------------------------
(* Arithmetic                                                              *)

\* Multiplication by a natural number keeps the order.
LEMMA TimesOrder ==
    ASSUME NEW n \in Nat, NEW i \in Int, NEW j \in Int, i <= j PROVE i * n <= j * n
  BY SMTT(30)

\* The next multiple.
LEMMA TimesNext == ASSUME NEW n \in Int, NEW i \in Int PROVE (i + 1) * n = i * n + n
  BY SMTT(30)

\* A number is its quotient times the divisor and the remainder.
LEMMA Division ==
    ASSUME NEW n \in Nat \ {0}, NEW x \in Nat
    PROVE  \E q \in Nat, r \in 0 .. n-1 : x = q * n + r /\ r = x % n
  <1>1. x \div n \in Nat /\ x % n \in 0 .. n-1
    BY SMTT(30)
  <1>2. PICK q \in Nat, r \in 0 .. n-1 : q = x \div n /\ r = x % n
    BY <1>1
  <1>3. x = q * n + r
    BY <1>2, SMTT(30)
  <1>. QED BY <1>2, <1>3

\* ALIGN_UP returns a multiple that is not less than its argument.
LEMMA AlignUp ==
    ASSUME NEW n \in Nat \ {0}, NEW x \in Nat
    PROVE  \E k \in Nat : ALIGN_UP(x, n) = k * n /\ k * n >= x
  <1>1. PICK q \in Nat, r \in 0 .. n-1 : x = q * n + r /\ r = x % n
    BY Division
  <1>2. CASE r = 0
    BY <1>1, <1>2, SMTT(30) DEF ALIGN_UP
  <1>3. CASE r # 0
    <2>1. ALIGN_UP(x, n) = q * n + n
      BY <1>1, <1>3, SMTT(30) DEF ALIGN_UP
    <2>2. (q + 1) * n = q * n + n
      BY TimesNext, SMTT(30)
    <2>3. q + 1 \in Nat /\ q * n \in Int /\ q * n + n >= x
      BY <1>1, SMTT(30)
    <2>. QED BY <2>1, <2>2, <2>3
  <1>. QED BY <1>2, <1>3

\* A multiple divided by the number it is a multiple of.
LEMMA TimesDiv == ASSUME NEW n \in Nat \ {0}, NEW k \in Nat PROVE (k * n) \div n = k
  BY SMTT(30)

\* Multiples are the numbers without a remainder.
LEMMA AlignedMod ==
    ASSUME NEW x \in Nat PROVE Aligned(x) <=> x % ALIGN = 0
  <1>. USE HeapAssumption
  <1>1. ASSUME Aligned(x) PROVE x % ALIGN = 0
    <2>1. PICK k \in Int : x = k * ALIGN
      BY <1>1 DEF Aligned
    <2>2. (k * ALIGN) % ALIGN = 0
      BY SMTT(30)
    <2>. QED BY <2>1, <2>2
  <1>2. ASSUME x % ALIGN = 0 PROVE Aligned(x)
    <2>1. x = (x \div ALIGN) * ALIGN /\ x \div ALIGN \in Int
      BY <1>2, SMTT(30)
    <2>. QED BY <2>1 DEF Aligned
  <1>. QED BY <1>1, <1>2

\* Sums and differences of multiples are multiples.
LEMMA AlignedSum ==
    ASSUME NEW x \in Int, NEW y \in Int, Aligned(x), Aligned(y)
    PROVE  Aligned(x + y) /\ Aligned(x - y)
  <1>1. PICK i \in Int : x = i * ALIGN
    BY DEF Aligned
  <1>2. PICK j \in Int : y = j * ALIGN
    BY DEF Aligned
  <1>3. x + y = (i + j) * ALIGN /\ x - y = (i - j) * ALIGN /\ i + j \in Int /\ i - j \in Int
    BY <1>1, <1>2, HeapAssumption, SMTT(30)
  <1>. QED BY <1>3 DEF Aligned

\* Headers and pages keep the alignment.
LEMMA AlignedSizes == Aligned(HDR) /\ \A n \in Nat : Aligned(n * PAGE)
  <1>. USE HeapAssumption
  <1>1. Aligned(HDR) /\ Aligned(PAGE)
    BY AlignedMod
  <1>2. ASSUME NEW n \in Nat PROVE Aligned(n * PAGE)
    <2>1. PICK k \in Int : PAGE = k * ALIGN
      BY <1>1 DEF Aligned
    <2>2. n * PAGE = (n * k) * ALIGN /\ n * k \in Int
      BY <2>1, SMTT(30)
    <2>. QED BY <2>2 DEF Aligned
  <1>. QED BY <1>1, <1>2

-----------------------------------------------------------------------------
(* Pages                                                                   *)

\* The addresses of a set of pages.
SpaceOf(P) == UNION {PageAddr(p) .. PageAddr(p + 1) - 1 : p \in P}

\* An address is in the space of the page it lies in.
LEMMA InSpace ==
    ASSUME NEW P \in SUBSET Nat, NEW x \in Int
    PROVE  x \in SpaceOf(P) <=> \E p \in P : p * PAGE <= x /\ x < (p + 1) * PAGE
  <1>1. \A p \in P : p * PAGE \in Int /\ (p + 1) * PAGE \in Int
    BY HeapAssumption, SMTT(30)
  <1>2. \A p \in P : x \in PageAddr(p) .. PageAddr(p + 1) - 1
                       <=> p * PAGE <= x /\ x < (p + 1) * PAGE
    BY <1>1, SMTT(30) DEF PageAddr
  <1>. QED BY <1>2 DEF SpaceOf

\* Every address is in one page.
LEMMA PageOfAddress ==
    ASSUME NEW x \in Nat
    PROVE  /\ \E p \in Nat : p * PAGE <= x /\ x < (p + 1) * PAGE
           /\ \A p, q \in Nat : (/\ p * PAGE <= x /\ x < (p + 1) * PAGE
                                 /\ q * PAGE <= x /\ x < (q + 1) * PAGE) => p = q
  <1>0. PAGE \in Nat \ {0}
    BY HeapAssumption, SMTT(30)
  <1>1. PICK q \in Nat, r \in 0 .. PAGE-1 : x = q * PAGE + r /\ r = x % PAGE
    BY <1>0, Division
  <1>2. (q + 1) * PAGE = q * PAGE + PAGE
    BY <1>0, TimesNext, SMTT(30)
  <1>3. q * PAGE <= x /\ x < (q + 1) * PAGE
    BY <1>0, <1>1, <1>2, SMTT(30)
  <1>4. ASSUME NEW i \in Nat, NEW j \in Nat, i < j, j * PAGE <= x, x < (i + 1) * PAGE PROVE FALSE
    <2>1. (i + 1) * PAGE <= j * PAGE
      BY <1>0, <1>4, TimesOrder, SMTT(30)
    <2>2. (i + 1) * PAGE \in Int /\ j * PAGE \in Int
      BY <1>0, SMTT(30)
    <2>. QED BY <1>4, <2>1, <2>2, SMTT(30)
  <1>5. ASSUME NEW i \in Nat, NEW j \in Nat, i * PAGE <= x, x < (i + 1) * PAGE,
               j * PAGE <= x, x < (j + 1) * PAGE
        PROVE  i = j
    BY <1>4, <1>5, SMTT(30)
  <1>6. \E p \in Nat : p * PAGE <= x /\ x < (p + 1) * PAGE
    BY <1>3
  <1>. QED BY <1>5, <1>6

\* The addresses of a run of pages are an interval.
LEMMA RunSpace ==
    ASSUME NEW p \in Nat, NEW n \in Nat \ {0}
    PROVE  SpaceOf(p .. p + n - 1) = p * PAGE .. (p + n) * PAGE - 1
  <1>. DEFINE P == p .. p + n - 1
              A == p * PAGE .. (p + n) * PAGE - 1
  <1>0. PAGE \in Nat /\ p + n \in Nat /\ P \in SUBSET Nat
    BY HeapAssumption, SMTT(30)
  <1>00. p * PAGE \in Nat /\ (p + n) * PAGE \in Nat
    BY <1>0, SMTT(30)
  <1>1. ASSUME NEW x \in Int, x \in SpaceOf(P) PROVE x \in A
    <2>1. PICK q \in P : q * PAGE <= x /\ x < (q + 1) * PAGE
      BY <1>0, <1>1, InSpace
    <2>2. p * PAGE <= q * PAGE /\ (q + 1) * PAGE <= (p + n) * PAGE
      BY <1>0, TimesOrder, SMTT(30)
    <2>3. q * PAGE \in Int /\ (q + 1) * PAGE \in Int
      BY <1>0, SMTT(30)
    <2>. QED BY <1>00, <2>1, <2>2, <2>3, SMTT(30)
  <1>2. ASSUME NEW x \in A PROVE x \in SpaceOf(P)
    <2>1. x \in Nat /\ x \in Int /\ p * PAGE <= x /\ x < (p + n) * PAGE
      BY <1>00, SMTT(30)
    <2>2. PICK q \in Nat : q * PAGE <= x /\ x < (q + 1) * PAGE
      BY <2>1, PageOfAddress
    <2>3. (q + 1) * PAGE \in Int /\ q * PAGE \in Int
      BY <1>0, SMTT(30)
    <2>4. ~(q + 1 <= p)
      BY <1>0, <1>00, <2>1, <2>2, <2>3, TimesOrder, SMTT(30)
    <2>5. ~(p + n <= q)
      BY <1>0, <1>00, <2>1, <2>2, <2>3, TimesOrder, SMTT(30)
    <2>6. q \in P
      BY <2>4, <2>5, SMTT(30)
    <2>. QED BY <1>0, <2>1, <2>2, <2>6, InSpace
  <1>3. \A x : x \in SpaceOf(P) => x \in Int
    <2>1. \A q \in P : \A x \in PageAddr(q) .. PageAddr(q + 1) - 1 : x \in Int
      BY SMTT(30)
    <2>. QED BY <2>1 DEF SpaceOf
  <1>4. \A x : x \in SpaceOf(P) <=> x \in A
    BY <1>1, <1>2, <1>3
  <1>. QED BY <1>4

-----------------------------------------------------------------------------
(* The search                                                              *)

\* There are finitely many addresses, and NULL is none of them.
LEMMA AddrFinite == IsFiniteSet(Addr) /\ Addr \subseteq Nat /\ NULL \notin Addr
  <1>1. 0 \in Int /\ NPages * PAGE \in Int
    BY HeapAssumption, SMTT(30)
  <1>2. Addr \subseteq Nat
    BY <1>1, SMTT(30) DEF Addr
  <1>. QED BY <1>1, <1>2, FS_Interval, HeapAssumption DEF Addr

\* The loop of kmalloc stops at a block that fits, or has seen that there is none.
LEMMA SearchFinds ==
    ASSUME MemoryRight(hdr, start, end, HeapSpace), NEW size
    PROVE  \/ Search(size) \in DOMAIN hdr /\ Search(size) # NULL /\ Fits(Search(size), size)
           \/ Search(size) = NULL /\ \A h \in DOMAIN hdr : ~Fits(h, size)
  <1>. DEFINE D == DOMAIN hdr
              onward == [h \in D |-> IF Fits(h, size) THEN NULL ELSE hdr[h].next]
              W == Reached(D, onward, start)
              hits == {h \in W : Fits(h, size)}
  <1>1. D \subseteq Addr /\ IsFiniteSet(D) /\ start \in D
    BY AddrFinite, FS_Subset DEF MemoryRight, HeadersRight, ListRight, Chain
  <1>2. W \in SUBSET D /\ start \in W /\ NoWayOut(D, onward, W)
    <2>. HIDE DEF onward
    <2>. QED BY <1>1, ReachedClosed, SMTT(30)
  <1>3. Search(size) = IF hits = {} THEN NULL ELSE CHOOSE h \in hits : TRUE
    BY DEF Search
  <1>4. CASE hits # {}
    <2>1. Search(size) \in hits
      BY <1>3, <1>4
    <2>. QED BY <1>1, <1>2, <2>1, AddrFinite
  <1>5. CASE hits = {}
    <2>. HIDE DEF W
    <2>1. \A h \in W : ~Fits(h, size) /\ h \in D /\ onward[h] = hdr[h].next
      BY <1>2, <1>5
    <2>2. \A h \in D : hdr[h].next \in Addr => hdr[h].next \in D
      BY AddrFinite DEF MemoryRight, ListRight
    <2>3. NoWayOut(Addr, Links(hdr), W)
      BY <1>2, <2>1, <2>2 DEF NoWayOut, Links
    <2>4. W = D
      BY <1>2, <2>3 DEF MemoryRight, ListRight, Chain
    <2>. QED BY <1>3, <1>5, <2>1, <2>4
  <1>. QED BY <1>4, <1>5

-----------------------------------------------------------------------------
(* What happens to the list                                                *)

\* The fields of a header that the list depends on.
SameShape(m, w, h) == w[h].size = m[h].size /\ w[h].prev = m[h].prev /\ w[h].next = m[h].next

\* What can be said of a block from the list it is in.
LEMMA BlockFacts ==
    ASSUME NEW m, NEW s, NEW e, NEW A, MemoryRight(m, s, e, A), NEW h \in DOMAIN m
    PROVE  /\ h \in Nat /\ m[h].size \in Nat /\ m[h].free \in BOOLEAN
           /\ m[h].prev \in Addr \cup {NULL} /\ m[h].next \in Addr \cup {NULL}
           /\ m[h].next # h /\ Fin(m, h) \in Nat /\ Fin(m, h) > h /\ h \in A
  <1>1. h \in Addr /\ h \in Nat /\ m[h] \in Header
    BY AddrFinite DEF MemoryRight, HeadersRight
  <1>2. /\ m[h].size \in Nat /\ m[h].free \in BOOLEAN
        /\ m[h].prev \in Addr \cup {NULL} /\ m[h].next \in Addr \cup {NULL}
    BY <1>1, SMTT(30) DEF Header
  <1>3. Fin(m, h) \in Nat /\ Fin(m, h) > h /\ h \in Int
    BY <1>1, <1>2, HeapAssumption, SMTT(30) DEF Fin
  <1>4. m[h].next # h
    <2>1. Links(m)[h] # h
      BY ChainSelfLess, SMTT(30) DEF MemoryRight, ListRight
    <2>. QED BY <2>1 DEF Links
  <1>5. h \in A
    <2>1. h <= h /\ h < Fin(m, h)
      BY <1>3, SMTT(30)
    <2>. QED BY <1>3, <2>1 DEF MemoryRight, TilesRight
  <1>. QED BY <1>1, <1>2, <1>3, <1>4, <1>5

\* The memory with another flag at h.
Flag(m, h, b) == [m EXCEPT ![h].free = b]

Flagged(m, w, h, b) ==
    /\ DOMAIN w = DOMAIN m /\ w[h].free = b
    /\ \A x \in DOMAIN m : SameShape(m, w, x) /\ (x # h => w[x].free = m[x].free)

\* A change of flags changes nothing else.
LEMMA FlagKeeps ==
    ASSUME NEW m, NEW s, NEW e, NEW A, MemoryRight(m, s, e, A),
           NEW h \in DOMAIN m, NEW b \in BOOLEAN
    PROVE  MemoryRight(Flag(m, h, b), s, e, A) /\ Flagged(m, Flag(m, h, b), h, b)
  <1>. DEFINE w == Flag(m, h, b)
  <1>1. /\ DOMAIN w = DOMAIN m
        /\ \A x \in DOMAIN m : w[x] = IF x = h THEN [m[h] EXCEPT !.free = b] ELSE m[x]
    BY SMTT(30) DEF Flag
  <1>2. \A x \in DOMAIN m : m[x] \in Header
    BY DEF MemoryRight, HeadersRight
  <1>3. /\ [m[h] EXCEPT !.free = b] \in Header
        /\ [m[h] EXCEPT !.free = b].free = b
        /\ [m[h] EXCEPT !.free = b].size = m[h].size
        /\ [m[h] EXCEPT !.free = b].prev = m[h].prev
        /\ [m[h] EXCEPT !.free = b].next = m[h].next
    BY <1>2, SMTT(30) DEF Header
  <1>. HIDE DEF w
  <1>4. w[h].free = b /\ \A x \in DOMAIN m : /\ w[x] \in Header /\ SameShape(m, w, x)
                                             /\ x # h => w[x].free = m[x].free
    BY <1>1, <1>2, <1>3 DEF SameShape
  <1>5. HeadersRight(w)
    BY <1>1, <1>4 DEF MemoryRight, HeadersRight, SameShape
  <1>6. \A x \in DOMAIN m : Links(w)[x] = Links(m)[x] /\ Fin(w, x) = Fin(m, x)
    BY <1>1, <1>4 DEF Links, SameShape, Fin
  <1>7. ListRight(w, s, e)
    <2>1. Chain(Addr, Links(w), DOMAIN m, s)
      BY <1>6, ChainSame, SMTT(30) DEF MemoryRight, ListRight
    <2>2. s \in DOMAIN m
      BY DEF MemoryRight, ListRight, Chain
    <2>3. \A x \in DOMAIN m : w[x].next = m[x].next /\ w[x].prev = m[x].prev
      BY <1>4 DEF SameShape
    <2>4. \A x \in DOMAIN m :
             m[x].next # NULL => m[x].next \in DOMAIN m /\ w[m[x].next].prev = x
      BY <2>3 DEF MemoryRight, ListRight
    <2>. QED BY <1>1, <2>1, <2>2, <2>3, <2>4 DEF MemoryRight, ListRight
  <1>8. TilesRight(w, A)
    BY <1>1, <1>6 DEF MemoryRight, TilesRight
  <1>. QED BY <1>1, <1>4, <1>5, <1>7, <1>8 DEF MemoryRight, Flagged, w

\* An assignment to the pointer back leaves the other fields of a header alone.
LEMMA SetPrev ==
    ASSUME NEW r \in Header, NEW p \in Addr \cup {NULL}, NEW t, t = [r EXCEPT !.prev = p]
    PROVE  t \in Header /\ t.size = r.size /\ t.free = r.free /\ t.prev = p /\ t.next = r.next
  BY SMTT(30) DEF Header

\* The same for the pointer to the next block.
LEMMA SetNext ==
    ASSUME NEW r \in Header, NEW n \in Addr \cup {NULL}, NEW t, t = [r EXCEPT !.next = n]
    PROVE  t \in Header /\ t.size = r.size /\ t.free = r.free /\ t.prev = r.prev /\ t.next = n
  BY SMTT(30) DEF Header

\* The block h of m keeps size bytes in w, and a new block at newh has the rest.
Divided(m, w, h, newh, size) ==
    /\ newh \notin DOMAIN m /\ newh \in Addr /\ newh < Fin(m, h) /\ h < newh
    /\ DOMAIN w = DOMAIN m \cup {newh}
    /\ w[newh].size = m[h].size - (size + HDR) /\ w[newh].free = TRUE
    /\ w[newh].prev = h /\ w[newh].next = m[h].next
    /\ w[h].size = size /\ w[h].next = newh
    /\ w[h].prev = m[h].prev /\ w[h].free = m[h].free
    /\ \A x \in DOMAIN m :
          x # h => /\ w[x].size = m[x].size /\ w[x].next = m[x].next
                   /\ w[x].free = m[x].free
                   /\ w[x].prev = IF x = m[h].next THEN newh ELSE m[x].prev
    /\ \A x \in DOMAIN w : w[x] \in Header

\* kheap_create_block: what is written where.
LEMMA SplitWrites ==
    ASSUME NEW m, NEW s, NEW e, NEW A, A \subseteq Addr, MemoryRight(m, s, e, A),
           NEW h \in DOMAIN m, NEW size \in Nat, m[h].size > size + HDR
    PROVE  Divided(m, kheap_create_block(m, h, size), h, h + HDR + size, size)
  <1>. DEFINE newh == h + HDR + size
              next == m[h].next
              r == [size |-> m[h].size - (size + HDR), free |-> TRUE, prev |-> h, next |-> next]
              m0 == [m EXCEPT ![h].size = size, ![h].next = newh]
              m1 == Written(m0, newh, r)
              w == kheap_create_block(m, h, size)
  <1>1. /\ h \in Nat /\ m[h].size \in Nat /\ m[h].next # h
        /\ h \in Addr /\ Fin(m, h) \in Nat
    BY BlockFacts DEF MemoryRight, HeadersRight
  <1>2. newh \in Nat /\ newh < Fin(m, h) /\ h < newh /\ m[h].size - (size + HDR) \in Nat
    BY <1>1, HeapAssumption, SMTT(30) DEF Fin
  <1>3. newh \notin DOMAIN m /\ newh \in Addr
    <2>1. \A g \in DOMAIN m : h < g => Fin(m, h) <= g
      BY DEF MemoryRight, TilesRight
    <2>2. newh \in Int /\ h <= newh
      BY <1>1, <1>2, SMTT(30)
    <2>3. newh \in A
      BY <1>2, <2>2 DEF MemoryRight, TilesRight
    <2>. QED BY <1>1, <1>2, <2>1, <2>3, SMTT(30)
  <1>4. next \in Addr \cup {NULL} /\ (next # NULL => next \in DOMAIN m /\ next # newh)
    <2>. HIDE DEF newh
    <2>1. next # NULL => next \in DOMAIN m
      BY DEF MemoryRight, ListRight
    <2>2. next \in Addr \cup {NULL}
      BY BlockFacts
    <2>. QED BY <1>3, <2>1, <2>2
  <1>5. \A x \in DOMAIN m : m[x] \in Header
    BY DEF MemoryRight, HeadersRight
  <1>6. w = IF next = NULL THEN m1 ELSE [m1 EXCEPT ![next].prev = newh]
    BY DEF kheap_create_block
  <1>. HIDE DEF w, newh
  <1>7. /\ DOMAIN m0 = DOMAIN m /\ \A x \in DOMAIN m : x # h => m0[x] = m[x]
        /\ m0[h] = [m[h] EXCEPT !.size = size, !.next = newh]
    BY SMTT(30)
  <1>8. /\ DOMAIN m1 = DOMAIN m \cup {newh} /\ m1[newh] = r
        /\ m1[h] = [m[h] EXCEPT !.size = size, !.next = newh]
        /\ \A x \in DOMAIN m : x # h => m1[x] = m[x]
    BY <1>3, <1>7 DEF Written
  <1>. HIDE DEF m1
  <1>9. /\ DOMAIN w = DOMAIN m \cup {newh} /\ w[newh] = r
        /\ w[h] = [m[h] EXCEPT !.size = size, !.next = newh]
        /\ \A x \in DOMAIN m : x # h =>
              w[x] = IF x = next THEN [m[x] EXCEPT !.prev = newh] ELSE m[x]
    <2>1. CASE next = NULL
      <3>1. \A x \in DOMAIN m : x # next
        BY <2>1, AddrFinite DEF MemoryRight, HeadersRight
      <3>. QED BY <1>6, <1>8, <2>1, <3>1
    <2>2. CASE next # NULL
      <3>1. next \in DOMAIN m1 /\ next # newh /\ next # h
        BY <1>1, <1>4, <1>8, <2>2
      <3>2. w = [m1 EXCEPT ![next].prev = newh]
        BY <1>6, <2>2
      <3>3. DOMAIN w = DOMAIN m1 /\ w[next] = [m1[next] EXCEPT !.prev = newh]
            /\ \A x \in DOMAIN m1 : x # next => w[x] = m1[x]
        BY <3>1, <3>2, SMTT(30)
      <3>. QED BY <1>8, <3>1, <3>3
    <2>. QED BY <2>1, <2>2
  <1>10. /\ w[h] \in Header /\ w[h].size = size /\ w[h].next = newh
         /\ w[h].prev = m[h].prev /\ w[h].free = m[h].free
    <2>1. m[h] \in Header /\ newh \in Addr \cup {NULL} /\ size \in Nat
      BY <1>3, <1>5
    <2>. DEFINE t == [m[h] EXCEPT !.size = size, !.next = newh]
    <2>2. w[h] = t
      BY <1>9
    <2>3. t \in Header
      BY <2>1 DEF Header
    <2>4. t.size = size
      BY <2>1 DEF Header
    <2>5. t.free = m[h].free
      BY <2>1 DEF Header
    <2>6. t.prev = m[h].prev
      BY <2>1 DEF Header
    <2>7. t.next = newh
      BY <2>1 DEF Header
    <2>. HIDE DEF t
    <2>. QED BY <2>2, <2>3, <2>4, <2>5, <2>6, <2>7
  <1>11. ASSUME NEW x \in DOMAIN m, x # h
         PROVE  /\ w[x].size = m[x].size /\ w[x].next = m[x].next /\ w[x].free = m[x].free
                /\ w[x].prev = IF x = next THEN newh ELSE m[x].prev
                /\ w[x] \in Header
    <2>1. CASE x = next
      <3>1. w[x] = [m[x] EXCEPT !.prev = newh] /\ m[x] \in Header
        BY <1>5, <1>9, <1>11, <2>1
      <3>. QED BY <1>3, <2>1, <3>1, SetPrev, SMTT(30)
    <2>2. CASE x # next
      BY <1>5, <1>9, <1>11, <2>2
    <2>. QED BY <2>1, <2>2
  <1>12. r \in Header /\ r.size = m[h].size - (size + HDR) /\ r.free = TRUE
         /\ r.prev = h /\ r.next = next
    BY <1>1, <1>2, <1>4, SMTT(30) DEF Header
  <1>. HIDE DEF r
  <1>13. \A x \in DOMAIN w : w[x] \in Header
    BY <1>9, <1>10, <1>11, <1>12
  <1>14. /\ w[newh].size = m[h].size - (size + HDR) /\ w[newh].free = TRUE
         /\ w[newh].prev = h /\ w[newh].next = m[h].next
    BY <1>9, <1>12
  <1>15. Divided(m, w, h, newh, size)
    BY <1>2, <1>3, <1>9, <1>10, <1>11, <1>13, <1>14 DEF Divided
  <1>. QED BY <1>15 DEF w, newh

\* kheap_create_block leaves a list of all blocks.
LEMMA SplitList ==
    ASSUME NEW m, NEW s, NEW e, NEW A, A \subseteq Addr, MemoryRight(m, s, e, A),
           NEW h \in DOMAIN m, NEW size \in Nat, m[h].size > size + HDR
    PROVE  ListRight(kheap_create_block(m, h, size), s, IF h = e THEN h + HDR + size ELSE e)
  <1>. DEFINE newh == h + HDR + size
              w == kheap_create_block(m, h, size)
              f == IF h = e THEN newh ELSE e
  <1>0. Divided(m, w, h, newh, size)
    BY SplitWrites
  <1>. HIDE DEF w, newh
  <1>1. /\ newh \notin DOMAIN m /\ newh \in Addr
        /\ DOMAIN w = DOMAIN m \cup {newh}
        /\ w[newh].prev = h /\ w[newh].next = m[h].next
        /\ w[h].next = newh /\ w[h].prev = m[h].prev
        /\ \A x \in DOMAIN m :
              x # h => /\ w[x].next = m[x].next
                       /\ w[x].prev = IF x = m[h].next THEN newh ELSE m[x].prev
    BY <1>0 DEF Divided
  <1>2. /\ Chain(Addr, Links(m), DOMAIN m, s) /\ e \in DOMAIN m /\ m[s].prev = NULL
        /\ s \in DOMAIN m /\ DOMAIN m \subseteq Addr
        /\ \A x \in DOMAIN m : m[x].next = NULL <=> x = e
        /\ \A x \in DOMAIN m :
              m[x].next # NULL => m[x].next \in DOMAIN m /\ m[m[x].next].prev = x
    BY DEF MemoryRight, ListRight, Chain
  <1>3. NULL \notin Addr
    BY AddrFinite
  <1>4. \A x \in DOMAIN m : m[x].next # s /\ m[x].next # newh
    <2>1. \A x \in DOMAIN m : Links(m)[x] # s
      BY <1>2 DEF Chain
    <2>2. \A x \in DOMAIN m : m[x].next # s
      BY <2>1 DEF Links
    <2>3. ASSUME NEW x \in DOMAIN m PROVE m[x].next # newh
      <3>1. m[x].next = NULL \/ m[x].next \in DOMAIN m
        BY <1>2
      <3>2. newh # NULL /\ newh \notin DOMAIN m
        BY <1>1, <1>3
      <3>. QED BY <3>1, <3>2
    <2>. QED BY <2>2, <2>3
  <1>5. Chain(Addr, Links(w), DOMAIN m \cup {newh}, s)
    <2>1. /\ Links(w)[h] = newh /\ Links(w)[newh] = Links(m)[h]
          /\ \A x \in DOMAIN m : x # h => Links(w)[x] = Links(m)[x]
      BY <1>1 DEF Links
    <2>. QED BY <1>1, <1>2, <2>1, ChainInsert, SMTT(30)
  <1>6. w[s].prev = NULL
    BY <1>1, <1>2, <1>4
  <1>7. f \in DOMAIN w /\ \A x \in DOMAIN w : w[x].next = NULL <=> x = f
    <2>1. w[h].next # NULL
      <3>1. w[h].next = newh
        BY <1>1
      <3>2. newh \in Addr
        BY <1>1
      <3>. QED BY <1>3, <3>1, <3>2
    <2>2. w[newh].next = NULL <=> h = e
      BY <1>1, <1>2
    <2>3. \A x \in DOMAIN m : x # h => (w[x].next = NULL <=> x = e)
      BY <1>1, <1>2, SMTT(30)
    <2>4. CASE h = e
      <3>1. f = newh
        BY <2>4
      <3>. HIDE DEF f
      <3>. QED BY <1>1, <2>1, <2>2, <2>3, <2>4, <3>1
    <2>5. CASE h # e
      <3>1. f = e
        BY <2>5
      <3>. HIDE DEF f
      <3>. QED BY <1>1, <1>2, <2>1, <2>2, <2>3, <2>5, <3>1
    <2>. QED BY <2>4, <2>5
  <1>8. ASSUME NEW x \in DOMAIN w, w[x].next # NULL
        PROVE  w[x].next \in DOMAIN w /\ w[w[x].next].prev = x
    <2>1. CASE x = h
      BY <1>1, <2>1
    <2>2. CASE x = newh
      <3>1. w[x].next = m[h].next /\ m[h].next \in DOMAIN m /\ m[h].next # h
        <4>1. m[h].next # h
          BY BlockFacts
        <4>2. w[x].next = m[h].next
          BY <1>1, <2>2
        <4>. QED BY <1>2, <1>8, <4>1, <4>2
      <3>2. w[m[h].next].prev = newh /\ m[h].next \in DOMAIN w
        BY <1>1, <3>1
      <3>. QED BY <2>2, <3>1, <3>2
    <2>3. CASE x \in DOMAIN m /\ x # h
      <3>1. w[x].next = m[x].next /\ m[x].next \in DOMAIN m /\ m[m[x].next].prev = x
        BY <1>1, <1>2, <1>8, <2>3
      <3>2. m[x].next # m[h].next
        BY <1>2, <2>3, <3>1
      <3>3. CASE m[x].next = h
        BY <1>1, <3>1, <3>3
      <3>4. CASE m[x].next # h
        BY <1>1, <3>1, <3>2, <3>4
      <3>. QED BY <3>3, <3>4
    <2>. QED BY <1>1, <2>1, <2>2, <2>3
  <1>. QED BY <1>1, <1>5, <1>6, <1>7, <1>8 DEF ListRight, w, newh

\* kheap_create_block divides a block in two.
LEMMA SplitKeeps ==
    ASSUME NEW m, NEW s, NEW e, NEW A, A \subseteq Addr, MemoryRight(m, s, e, A),
           NEW h \in DOMAIN m, NEW size \in Nat, m[h].size > size + HDR, Aligned(size)
    PROVE  MemoryRight(kheap_create_block(m, h, size), s,
                       IF h = e THEN h + HDR + size ELSE e, A)
  <1>. DEFINE newh == h + HDR + size
              w == kheap_create_block(m, h, size)
              rest == m[h].size - (size + HDR)
  <1>0. Divided(m, w, h, newh, size)
    BY SplitWrites
  <1>. HIDE DEF w
  <1>1. /\ newh \notin DOMAIN m /\ newh \in Addr /\ newh < Fin(m, h) /\ h < newh
        /\ DOMAIN w = DOMAIN m \cup {newh} /\ w[newh].size = rest /\ w[h].size = size
        /\ \A x \in DOMAIN m : x # h => w[x].size = m[x].size
        /\ \A x \in DOMAIN w : w[x] \in Header
    BY <1>0 DEF Divided
  <1>2. /\ h \in Nat /\ HDR \in Nat \ {0} /\ m[h].size \in Nat /\ DOMAIN m \subseteq Addr
        /\ Aligned(h) /\ Aligned(m[h].size) /\ Aligned(HDR) /\ Fin(m, h) \in Nat
    BY BlockFacts, AlignedSizes, HeapAssumption DEF MemoryRight, HeadersRight
  <1>3. Aligned(newh) /\ Aligned(rest)
    <2>1. h \in Int /\ HDR \in Int /\ size \in Int /\ m[h].size \in Int
          /\ h + HDR \in Int /\ size + HDR \in Int
      BY <1>2, SMTT(30)
    <2>2. Aligned(h + HDR) /\ Aligned(size + HDR)
      BY <1>2, <2>1, AlignedSum
    <2>. QED BY <1>2, <2>1, <2>2, AlignedSum
  <1>4. HeadersRight(w)
    <2>1. DOMAIN w \subseteq Addr
      BY <1>1, <1>2
    <2>2. ASSUME NEW x \in DOMAIN w PROVE Aligned(x) /\ Aligned(w[x].size)
      <3>. HIDE DEF w, newh, rest
      <3>1. CASE x = newh
        BY <1>1, <1>3, <3>1
      <3>2. CASE x = h
        BY <1>1, <1>2, <3>2
      <3>3. CASE x \in DOMAIN m /\ x # h
        BY <1>1, <3>3 DEF MemoryRight, HeadersRight
      <3>. QED BY <1>1, <3>1, <3>2, <3>3
    <2>. QED BY <1>1, <2>1, <2>2 DEF HeadersRight
  <1>5. /\ Fin(w, h) = newh /\ Fin(w, newh) = Fin(m, h)
        /\ \A x \in DOMAIN m : x # h => Fin(w, x) = Fin(m, x)
    <2>1. Fin(w, h) = newh /\ Fin(w, newh) = Fin(m, h)
      BY <1>1, <1>2, SMTT(30) DEF Fin
    <2>. QED BY <1>1, <2>1 DEF Fin
  <1>6. /\ \A g, x \in DOMAIN m : g < x => Fin(m, g) <= x
        /\ \A x \in Int : x \in A <=> \E g \in DOMAIN m : g <= x /\ x < Fin(m, g)
        /\ \A g \in DOMAIN m : g \in Nat /\ Fin(m, g) \in Nat /\ g < Fin(m, g)
    BY BlockFacts DEF MemoryRight, TilesRight
  <1>. HIDE DEF w, newh, rest
  <1>7. newh \in Nat
    BY <1>1, AddrFinite
  <1>8. ASSUME NEW g \in DOMAIN w, NEW x \in DOMAIN w, g < x PROVE Fin(w, g) <= x
    <2>1. CASE g = h /\ x = newh
      BY <1>5, <1>7, <2>1, SMTT(30)
    <2>2. CASE g = h /\ x # newh
      <3>1. Fin(m, h) <= x /\ x \in Nat
        BY <1>1, <1>6, <1>8, <2>2
      <3>. QED BY <1>1, <1>2, <1>5, <1>7, <2>2, <3>1, SMTT(30)
    <2>3. CASE g = newh
      <3>1. x \in DOMAIN m /\ x \in Nat /\ x # newh
        BY <1>1, <1>6, <1>7, <1>8, <2>3, SMTT(30)
      <3>2. h < x
        BY <1>1, <1>2, <1>7, <1>8, <2>3, <3>1, SMTT(30)
      <3>3. Fin(m, h) <= x
        BY <1>6, <3>1, <3>2
      <3>. QED BY <1>5, <2>3, <3>3
    <2>4. CASE g \in DOMAIN m /\ g # h /\ x \in DOMAIN m
      BY <1>5, <1>6, <1>8, <2>4
    <2>5. CASE g \in DOMAIN m /\ g # h /\ x = newh
      <3>1. g \in Nat /\ Fin(m, g) \in Nat /\ Fin(w, g) = Fin(m, g)
        BY <1>5, <1>6, <2>5
      <3>2. g < h \/ h < g
        BY <1>2, <2>5, <3>1, SMTT(30)
      <3>3. CASE g < h
        <4>1. Fin(m, g) <= h
          BY <1>6, <2>5, <3>3
        <4>. QED BY <1>1, <1>2, <1>7, <2>5, <3>1, <4>1, SMTT(30)
      <3>4. CASE h < g
        <4>1. Fin(m, h) <= g
          BY <1>6, <2>5, <3>4
        <4>. QED BY <1>1, <1>2, <1>7, <1>8, <2>5, <3>1, <4>1, SMTT(30)
      <3>. QED BY <3>2, <3>3, <3>4
    <2>. QED BY <1>1, <2>1, <2>2, <2>3, <2>4, <2>5
  <1>9. ASSUME NEW x \in Int
        PROVE  x \in A <=> \E g \in DOMAIN w : g <= x /\ x < Fin(w, g)
    <2>1. h <= x /\ x < Fin(m, h) <=>
              \/ h <= x /\ x < Fin(w, h)
              \/ newh <= x /\ x < Fin(w, newh)
      BY <1>1, <1>2, <1>5, <1>7, SMTT(30)
    <2>2. \A g \in DOMAIN m : g # h => Fin(w, g) = Fin(m, g)
      BY <1>5
    <2>. HIDE DEF Fin
    <2>3. x \in A <=> \E g \in DOMAIN m : g <= x /\ x < Fin(m, g)
      BY <1>6
    <2>. QED BY <1>1, <2>1, <2>2, <2>3
  <1>10. ListRight(w, s, IF h = e THEN h + HDR + size ELSE e)
    BY SplitList DEF w
  <1>. QED BY <1>4, <1>8, <1>9, <1>10 DEF MemoryRight, TilesRight, w

\* The block h of m has the block n, which follows it, as a part of itself in w.
United(m, w, h, n) ==
    /\ n \in DOMAIN m /\ h # n
    /\ DOMAIN w = DOMAIN m \ {n}
    /\ w[h].size = m[h].size + m[n].size + HDR /\ w[h].next = m[n].next
    /\ w[h].prev = m[h].prev /\ w[h].free = m[h].free
    /\ \A x \in DOMAIN w :
          x # h => /\ w[x].size = m[x].size /\ w[x].next = m[x].next
                   /\ w[x].free = m[x].free
                   /\ w[x].prev = IF x = m[n].next THEN h ELSE m[x].prev
    /\ \A x \in DOMAIN w : w[x] \in Header

\* Absorb: what is written where.
LEMMA AbsorbWrites ==
    ASSUME NEW m, NEW s, NEW e, NEW A, MemoryRight(m, s, e, A),
           NEW h \in DOMAIN m, m[h].next # NULL
    PROVE  United(m, Absorb(m, h, m[h].next), h, m[h].next)
  <1>. DEFINE n == m[h].next
              w == Absorb(m, h, n)
              z == m[h].size + m[n].size + HDR
              t == [m[h] EXCEPT !.size = @ + m[n].size + HDR, !.next = m[n].next]
  <1>1. n \in DOMAIN m /\ h # n
    <2>1. n # h
      BY BlockFacts
    <2>. QED BY <2>1 DEF MemoryRight, ListRight
  <1>2. \A x \in DOMAIN m : m[x] \in Header
    BY DEF MemoryRight, HeadersRight
  <1>3. /\ DOMAIN w = DOMAIN m \ {n} /\ w[h] = t
        /\ \A x \in DOMAIN w :
              x # h => w[x] = IF x = m[n].next THEN [m[x] EXCEPT !.prev = h] ELSE m[x]
    <2>. HIDE DEF n, t
    <2>1. w = [a \in DOMAIN m \ {n} |->
                  IF a = h THEN t
                  ELSE IF a = m[n].next THEN [m[a] EXCEPT !.prev = h] ELSE m[a]]
      BY DEF Absorb, t
    <2>. HIDE DEF w
    <2>. QED BY <1>1, <2>1
  <1>4. /\ m[h].size \in Nat /\ m[n].size \in Nat /\ m[n].next \in Addr \cup {NULL}
        /\ z \in Nat /\ h \in Addr
    <2>1. /\ m[h].size \in Nat /\ m[n].size \in Nat /\ m[n].next \in Addr \cup {NULL}
          /\ h \in Addr
      BY <1>1, BlockFacts DEF MemoryRight, HeadersRight
    <2>. QED BY <2>1, HeapAssumption, SMTT(30)
  <1>5. t = [m[h] EXCEPT !.size = z, !.next = m[n].next]
    OBVIOUS
  <1>. HIDE DEF w, n, z
  <1>6. t \in Header /\ t.size = z /\ t.free = m[h].free /\ t.prev = m[h].prev
        /\ t.next = m[n].next
    <2>1. m[h] \in Header /\ z \in Nat /\ m[n].next \in Addr \cup {NULL}
      BY <1>2, <1>4
    <2>. DEFINE u == [m[h] EXCEPT !.size = z, !.next = m[n].next]
    <2>2. u \in Header
      BY <2>1 DEF Header
    <2>3. u.size = z
      BY <2>1 DEF Header
    <2>4. u.free = m[h].free
      BY <2>1 DEF Header
    <2>5. u.prev = m[h].prev
      BY <2>1 DEF Header
    <2>6. u.next = m[n].next
      BY <2>1 DEF Header
    <2>7. t = u
      BY <1>5
    <2>. HIDE DEF t, u
    <2>. QED BY <2>2, <2>3, <2>4, <2>5, <2>6, <2>7
  <1>. HIDE DEF t
  <1>7. ASSUME NEW x \in DOMAIN w, x # h
        PROVE  /\ w[x].size = m[x].size /\ w[x].next = m[x].next /\ w[x].free = m[x].free
               /\ w[x].prev = IF x = m[n].next THEN h ELSE m[x].prev
               /\ w[x] \in Header
    <2>0. m[x] \in Header
      BY <1>2, <1>3
    <2>1. CASE x = m[n].next
      <3>1. w[x] = [m[x] EXCEPT !.prev = h]
        BY <1>3, <1>7, <2>1
      <3>. QED BY <1>4, <2>0, <2>1, <3>1, SetPrev, SMTT(30)
    <2>2. CASE x # m[n].next
      BY <1>3, <1>7, <2>0, <2>2
    <2>. QED BY <2>1, <2>2
  <1>8. United(m, w, h, n)
    BY <1>1, <1>3, <1>6, <1>7 DEF United, z
  <1>. QED BY <1>8 DEF w, n

\* Absorb leaves a list of all blocks.
LEMMA AbsorbList ==
    ASSUME NEW m, NEW s, NEW e, NEW A, MemoryRight(m, s, e, A),
           NEW h \in DOMAIN m, NEW n, n = m[h].next, n # NULL, NEW w, United(m, w, h, n)
    PROVE  ListRight(w, s, IF n = e THEN h ELSE e)
  <1>. DEFINE f == IF n = e THEN h ELSE e
  <1>1. /\ n \in DOMAIN m /\ h # n /\ DOMAIN w = DOMAIN m \ {n}
        /\ w[h].next = m[n].next /\ w[h].prev = m[h].prev
        /\ \A x \in DOMAIN w :
              x # h => /\ w[x].next = m[x].next
                       /\ w[x].prev = IF x = m[n].next THEN h ELSE m[x].prev
    BY DEF United
  <1>2. /\ Chain(Addr, Links(m), DOMAIN m, s) /\ e \in DOMAIN m /\ m[s].prev = NULL
        /\ s \in DOMAIN m /\ DOMAIN m \subseteq Addr
        /\ \A x \in DOMAIN m : m[x].next = NULL <=> x = e
        /\ \A x \in DOMAIN m :
              m[x].next # NULL => m[x].next \in DOMAIN m /\ m[m[x].next].prev = x
    BY DEF MemoryRight, ListRight, Chain
  <1>3. NULL \notin Addr
    BY AddrFinite
  <1>4. \A x \in DOMAIN m : m[x].next # s
    <2>1. \A x \in DOMAIN m : Links(m)[x] # s
      BY <1>2 DEF Chain
    <2>. QED BY <2>1 DEF Links
  <1>5. n # s /\ m[n].prev = h /\ e # h
    <2>1. n # s
      BY <1>4
    <2>2. m[n].prev = h
      BY <1>2
    <2>3. e # h
      BY <1>2
    <2>. QED BY <2>1, <2>2, <2>3
  <1>6. \A x \in DOMAIN m : x # h => m[x].next # n
    <2>. SUFFICES ASSUME NEW x \in DOMAIN m, x # h, m[x].next = n PROVE FALSE
      OBVIOUS
    <2>1. m[m[x].next].prev = x
      BY <1>2
    <2>. QED BY <1>5, <2>1
  <1>7. Chain(Addr, Links(w), DOMAIN w, s)
    <2>1. ASSUME NEW x \in DOMAIN m, x # n
          PROVE  Links(w)[x] = IF Links(m)[x] = n THEN Links(m)[n] ELSE Links(m)[x]
      <3>1. Links(m)[x] = m[x].next /\ Links(m)[n] = m[n].next /\ Links(w)[x] = w[x].next
        BY <1>1, <2>1 DEF Links
      <3>2. CASE x = h
        BY <1>1, <3>1, <3>2
      <3>3. CASE x # h
        BY <1>1, <1>6, <2>1, <3>1, <3>3
      <3>. QED BY <3>2, <3>3
    <2>2. Chain(Addr, Links(w), DOMAIN m \ {n}, s)
      BY <1>1, <1>2, <1>5, <2>1, ChainUnlink, SMTT(30)
    <2>. QED BY <1>1, <2>2
  <1>8. m[n].next # h
    <2>1. h \in DOMAIN w
      BY <1>1
    <2>2. Links(w)[h] # h
      BY <1>7, <2>1, ChainSelfLess, SMTT(30)
    <2>. QED BY <1>1, <2>1, <2>2 DEF Links
  <1>9. w[s].prev = NULL
    <2>1. CASE s = h
      BY <1>1, <1>2, <2>1
    <2>2. CASE s # h
      BY <1>1, <1>2, <1>4, <1>5, <2>2
    <2>. QED BY <2>1, <2>2
  <1>10. f \in DOMAIN w /\ \A x \in DOMAIN w : w[x].next = NULL <=> x = f
    <2>1. w[h].next = NULL <=> n = e
      BY <1>1, <1>2
    <2>2. \A x \in DOMAIN w : x # h => (w[x].next = NULL <=> x = e)
      BY <1>1, <1>2, SMTT(30)
    <2>3. CASE n = e
      <3>1. f = h
        BY <2>3
      <3>. HIDE DEF f
      <3>. QED BY <1>1, <2>1, <2>2, <2>3, <3>1
    <2>4. CASE n # e
      <3>1. f = e
        BY <2>4
      <3>. HIDE DEF f
      <3>. QED BY <1>1, <1>2, <1>5, <2>1, <2>2, <2>4, <3>1
    <2>. QED BY <2>3, <2>4
  <1>11. ASSUME NEW x \in DOMAIN w, w[x].next # NULL
         PROVE  w[x].next \in DOMAIN w /\ w[w[x].next].prev = x
    <2>1. CASE x = h
      <3>1. w[x].next = m[n].next /\ m[n].next \in DOMAIN m /\ m[n].next # n
        <4>1. m[n].next # n
          <5>1. n \in DOMAIN m
            BY <1>1
          <5>. QED BY <5>1, BlockFacts
        <4>. QED BY <1>1, <1>2, <1>11, <2>1, <4>1
      <3>. QED BY <1>1, <1>8, <2>1, <3>1
    <2>2. CASE x # h
      <3>1. /\ w[x].next = m[x].next /\ m[x].next \in DOMAIN m /\ m[m[x].next].prev = x
            /\ x \in DOMAIN m /\ x # n
        BY <1>1, <1>2, <1>11, <2>2
      <3>2. m[x].next # n /\ m[x].next \in DOMAIN w
        BY <1>1, <1>6, <2>2, <3>1
      <3>3. CASE m[x].next = h
        BY <1>1, <3>1, <3>3
      <3>4. CASE m[x].next # h
        <4>1. m[x].next # m[n].next
          <5>1. m[n].next = m[x].next => m[m[n].next].prev = n
            BY <1>1, <1>2, <1>11, <3>1
          <5>. QED BY <3>1, <5>1
        <4>. QED BY <1>1, <3>1, <3>2, <3>4, <4>1
      <3>. QED BY <3>3, <3>4
    <2>. QED BY <2>1, <2>2
  <1>. QED BY <1>7, <1>9, <1>10, <1>11 DEF ListRight

\* Absorb makes one block of two that are neighbours in memory.
LEMMA AbsorbKeeps ==
    ASSUME NEW m, NEW s, NEW e, NEW A, MemoryRight(m, s, e, A), NEW h \in DOMAIN m,
           NEW n, n = m[h].next, n # NULL, Fin(m, h) = n, NEW w, United(m, w, h, n)
    PROVE  MemoryRight(w, s, IF n = e THEN h ELSE e, A)
  <1>1. /\ n \in DOMAIN m /\ h # n /\ DOMAIN w = DOMAIN m \ {n}
        /\ w[h].size = m[h].size + m[n].size + HDR
        /\ \A x \in DOMAIN w : x # h => w[x].size = m[x].size
        /\ \A x \in DOMAIN w : w[x] \in Header
    BY DEF United
  <1>2. /\ h \in Nat /\ HDR \in Nat \ {0} /\ m[h].size \in Nat /\ m[n].size \in Nat
        /\ n \in Nat /\ Fin(m, n) \in Nat /\ h < n /\ n < Fin(m, n)
        /\ DOMAIN m \subseteq Addr
        /\ Aligned(m[n].size) /\ Aligned(m[h].size) /\ Aligned(HDR)
    <2>1. h \in Nat /\ m[h].size \in Nat /\ h < Fin(m, h)
      BY BlockFacts
    <2>2. n \in Nat /\ m[n].size \in Nat /\ Fin(m, n) \in Nat /\ n < Fin(m, n)
      BY <1>1, BlockFacts
    <2>. QED BY <1>1, <2>1, <2>2, AlignedSizes, HeapAssumption DEF MemoryRight, HeadersRight
  <1>3. HeadersRight(w)
    <2>1. Aligned(w[h].size)
      <3>1. m[h].size \in Int /\ m[n].size \in Int /\ HDR \in Int
            /\ m[h].size + m[n].size \in Int
        BY <1>2, SMTT(30)
      <3>2. Aligned(m[h].size + m[n].size)
        BY <1>2, <3>1, AlignedSum
      <3>3. Aligned(m[h].size + m[n].size + HDR)
        BY <1>2, <3>1, <3>2, AlignedSum
      <3>. QED BY <1>1, <3>3
    <2>2. ASSUME NEW x \in DOMAIN w PROVE Aligned(x) /\ Aligned(w[x].size)
      <3>1. CASE x = h
        BY <2>1, <3>1 DEF MemoryRight, HeadersRight
      <3>2. CASE x # h
        BY <1>1, <3>2 DEF MemoryRight, HeadersRight
      <3>. QED BY <3>1, <3>2
    <2>. QED BY <1>1, <1>2, <2>2 DEF HeadersRight
  <1>4. Fin(w, h) = Fin(m, n) /\ \A x \in DOMAIN w : x # h => Fin(w, x) = Fin(m, x)
    <2>1. Fin(w, h) = Fin(m, n)
      BY <1>1, <1>2, SMTT(30) DEF Fin
    <2>. QED BY <1>1, <2>1 DEF Fin
  <1>5. /\ \A g, x \in DOMAIN m : g < x => Fin(m, g) <= x
        /\ \A x \in Int : x \in A <=> \E g \in DOMAIN m : g <= x /\ x < Fin(m, g)
        /\ \A g \in DOMAIN m : g \in Nat /\ Fin(m, g) \in Nat /\ g < Fin(m, g)
    BY BlockFacts DEF MemoryRight, TilesRight
  <1>6. ASSUME NEW g \in DOMAIN w, NEW x \in DOMAIN w, g < x PROVE Fin(w, g) <= x
    <2>1. CASE g = h
      <3>1. n <= x /\ x \in DOMAIN m /\ x # n /\ x \in Nat
        BY <1>1, <1>5, <1>6, <2>1
      <3>2. n < x
        BY <1>2, <3>1, SMTT(30)
      <3>. QED BY <1>1, <1>4, <1>5, <2>1, <3>1, <3>2
    <2>2. CASE g # h
      BY <1>1, <1>4, <1>5, <1>6, <2>2
    <2>. QED BY <2>1, <2>2
  <1>7. ASSUME NEW x \in Int
        PROVE  x \in A <=> \E g \in DOMAIN w : g <= x /\ x < Fin(w, g)
    <2>1. h <= x /\ x < Fin(w, h) <=>
              \/ h <= x /\ x < Fin(m, h)
              \/ n <= x /\ x < Fin(m, n)
      <3>1. Fin(w, h) = Fin(m, n) /\ Fin(m, h) = n
        BY <1>4
      <3>. QED BY <1>2, <3>1, SMTT(30)
    <2>2. x \in A <=> \E g \in DOMAIN m : g <= x /\ x < Fin(m, g)
      BY <1>5
    <2>3. \A g \in DOMAIN w : g # h => Fin(w, g) = Fin(m, g)
      BY <1>4
    <2>. QED BY <1>1, <2>1, <2>2, <2>3
  <1>8. ListRight(w, s, IF n = e THEN h ELSE e)
    BY AbsorbList
  <1>. QED BY <1>3, <1>6, <1>7, <1>8 DEF MemoryRight, TilesRight

\* A block of the given size at newh is the last one of the list.
Appended(m, w, e, newh, size) ==
    /\ newh \notin DOMAIN m
    /\ DOMAIN w = DOMAIN m \cup {newh}
    /\ w[newh].size = size /\ w[newh].free = TRUE
    /\ w[newh].prev = e /\ w[newh].next = NULL
    /\ w[e].size = m[e].size /\ w[e].free = m[e].free /\ w[e].prev = m[e].prev
    /\ w[e].next = newh
    /\ \A x \in DOMAIN m : x # e => w[x] = m[x]
    /\ \A x \in DOMAIN w : w[x] \in Header

\* kheap_extend: what is written where.
LEMMA AppendWrites ==
    ASSUME NEW m, NEW s, NEW e, NEW A, MemoryRight(m, s, e, A),
           NEW newh \in Addr, newh \notin DOMAIN m, NEW size \in Nat
    PROVE  Appended(m, Written([m EXCEPT ![e].next = newh], newh,
                               [size |-> size, free |-> TRUE, prev |-> e, next |-> NULL]),
                    e, newh, size)
  <1>. DEFINE r == [size |-> size, free |-> TRUE, prev |-> e, next |-> NULL]
              m0 == [m EXCEPT ![e].next = newh]
              w == Written(m0, newh, r)
  <1>1. e \in DOMAIN m /\ e \in Addr /\ \A x \in DOMAIN m : m[x] \in Header
    BY DEF MemoryRight, HeadersRight, ListRight
  <1>2. /\ DOMAIN m0 = DOMAIN m /\ m0[e] = [m[e] EXCEPT !.next = newh]
        /\ \A x \in DOMAIN m : x # e => m0[x] = m[x]
    BY <1>1, SMTT(30)
  <1>3. /\ m0[e] \in Header /\ m0[e].size = m[e].size /\ m0[e].free = m[e].free
        /\ m0[e].prev = m[e].prev /\ m0[e].next = newh
    <2>. HIDE DEF m0
    <2>. QED BY <1>1, <1>2, SetNext, SMTT(30)
  <1>4. r \in Header /\ r.size = size /\ r.free = TRUE /\ r.prev = e /\ r.next = NULL
    BY <1>1, SMTT(30) DEF Header
  <1>. HIDE DEF m0, r
  <1>5. /\ DOMAIN w = DOMAIN m \cup {newh} /\ w[newh] = r
        /\ \A x \in DOMAIN m : w[x] = m0[x]
    BY <1>2 DEF Written
  <1>. HIDE DEF w
  <1>6. Appended(m, w, e, newh, size)
    <2>1. w[e] = m0[e] /\ \A x \in DOMAIN m : x # e => w[x] = m[x]
      BY <1>1, <1>2, <1>5
    <2>2. /\ w[e].size = m[e].size /\ w[e].free = m[e].free /\ w[e].prev = m[e].prev
          /\ w[e].next = newh
      BY <1>3, <2>1
    <2>3. /\ w[newh].size = size /\ w[newh].free = TRUE
          /\ w[newh].prev = e /\ w[newh].next = NULL
      BY <1>4, <1>5
    <2>4. ASSUME NEW x \in DOMAIN w PROVE w[x] \in Header
      <3>1. CASE x = newh
        BY <1>4, <1>5, <3>1
      <3>2. CASE x = e
        BY <1>3, <2>1, <3>2
      <3>3. CASE x \in DOMAIN m /\ x # e
        BY <1>1, <2>1, <3>3
      <3>. QED BY <1>5, <3>1, <3>2, <3>3
    <2>. QED BY <1>5, <2>1, <2>2, <2>3, <2>4 DEF Appended
  <1>. QED BY <1>6 DEF w, m0, r

\* A new block outside of the heap makes the heap larger by its bytes.
LEMMA AppendKeeps ==
    ASSUME NEW m, NEW s, NEW e, NEW A, MemoryRight(m, s, e, A), NEW B,
           NEW newh \in Addr, NEW size \in Nat, Aligned(newh), Aligned(size),
           \A x \in Int : x \in B <=> newh <= x /\ x < newh + HDR + size, A \cap B = {},
           NEW w, Appended(m, w, e, newh, size)
    PROVE  MemoryRight(w, s, newh, A \cup B)
  <1>1. /\ newh \notin DOMAIN m /\ DOMAIN w = DOMAIN m \cup {newh}
        /\ w[newh].size = size /\ w[newh].prev = e /\ w[newh].next = NULL
        /\ w[e].size = m[e].size /\ w[e].prev = m[e].prev /\ w[e].next = newh
        /\ \A x \in DOMAIN m : x # e => w[x] = m[x]
        /\ \A x \in DOMAIN w : w[x] \in Header
    BY DEF Appended
  <1>2. /\ Chain(Addr, Links(m), DOMAIN m, s) /\ e \in DOMAIN m /\ m[s].prev = NULL
        /\ s \in DOMAIN m /\ DOMAIN m \subseteq Addr
        /\ \A x \in DOMAIN m : m[x].next = NULL <=> x = e
        /\ \A x \in DOMAIN m :
              m[x].next # NULL => m[x].next \in DOMAIN m /\ m[m[x].next].prev = x
        /\ \A x \in DOMAIN m : Aligned(x) /\ Aligned(m[x].size)
    BY DEF MemoryRight, HeadersRight, ListRight, Chain
  <1>3. NULL \notin Addr /\ newh \in Nat /\ HDR \in Nat \ {0}
    BY AddrFinite, HeapAssumption
  <1>4. HeadersRight(w)
    <2>1. ASSUME NEW x \in DOMAIN w PROVE Aligned(x) /\ Aligned(w[x].size)
      <3>1. CASE x = newh
        BY <1>1, <3>1
      <3>2. CASE x = e
        BY <1>1, <1>2, <3>2
      <3>3. CASE x \in DOMAIN m /\ x # e
        BY <1>1, <1>2, <3>3
      <3>. QED BY <1>1, <3>1, <3>2, <3>3
    <2>. QED BY <1>1, <1>2, <2>1 DEF HeadersRight
  <1>5. ListRight(w, s, newh)
    <2>1. /\ Links(w)[e] = newh /\ Links(w)[newh] = NULL /\ Links(m)[e] = NULL
          /\ \A x \in DOMAIN m : x # e => Links(w)[x] = Links(m)[x]
      BY <1>1, <1>2 DEF Links
    <2>2. Chain(Addr, Links(w), DOMAIN m \cup {newh}, s)
      BY <1>1, <1>2, <1>3, <2>1, ChainInsert, SMTT(30)
    <2>3. w[s].prev = NULL
      <3>1. CASE s = e
        BY <1>1, <1>2, <3>1
      <3>2. CASE s # e
        BY <1>1, <1>2, <3>2
      <3>. QED BY <3>1, <3>2
    <2>4. ASSUME NEW x \in DOMAIN w PROVE w[x].next = NULL <=> x = newh
      <3>1. CASE x = newh
        BY <1>1, <3>1
      <3>2. CASE x = e
        <4>1. w[e].next = newh /\ newh # NULL /\ e # newh
          BY <1>1, <1>2, <1>3
        <4>. QED BY <3>2, <4>1
      <3>3. CASE x \in DOMAIN m /\ x # e
        BY <1>1, <1>2, <3>3
      <3>. QED BY <1>1, <3>1, <3>2, <3>3
    <2>5. ASSUME NEW x \in DOMAIN w, w[x].next # NULL
          PROVE  w[x].next \in DOMAIN w /\ w[w[x].next].prev = x
      <3>1. CASE x = e
        BY <1>1, <3>1
      <3>2. CASE x \in DOMAIN m /\ x # e
        <4>1. w[x].next = m[x].next /\ m[x].next \in DOMAIN m /\ m[m[x].next].prev = x
          BY <1>1, <1>2, <3>2
        <4>2. CASE m[x].next = e
          BY <1>1, <4>1, <4>2
        <4>3. CASE m[x].next # e
          BY <1>1, <4>1, <4>3
        <4>. QED BY <4>2, <4>3
      <3>. QED BY <1>1, <2>5, <3>1, <3>2
    <2>. QED BY <1>1, <2>2, <2>3, <2>4, <2>5 DEF ListRight
  <1>6. /\ Fin(w, newh) = newh + HDR + size
        /\ \A x \in DOMAIN m : Fin(w, x) = Fin(m, x)
    <2>1. \A x \in DOMAIN m : w[x].size = m[x].size
      BY <1>1
    <2>. QED BY <1>1, <2>1 DEF Fin
  <1>7. /\ \A g, x \in DOMAIN m : g < x => Fin(m, g) <= x
        /\ \A x \in Int : x \in A <=> \E g \in DOMAIN m : g <= x /\ x < Fin(m, g)
        /\ \A g \in DOMAIN m : g \in Nat /\ Fin(m, g) \in Nat /\ g < Fin(m, g) /\ g \in A
    BY BlockFacts DEF MemoryRight, TilesRight
  <1>8. newh \in B /\ newh \notin A /\ newh + HDR + size \in Nat
    <2>1. newh \in Int /\ newh <= newh /\ newh < newh + HDR + size /\ newh + HDR + size \in Nat
      BY <1>3, SMTT(30)
    <2>. QED BY <2>1
  <1>9. ASSUME NEW g \in DOMAIN w, NEW x \in DOMAIN w, g < x PROVE Fin(w, g) <= x
    <2>1. CASE g = newh
      <3>1. x \in DOMAIN m /\ x \in Nat /\ x \notin B
        <4>1. x # newh
          BY <1>3, <1>9, <2>1, SMTT(30)
        <4>. QED BY <1>1, <1>7, <4>1
      <3>2. x \in Int /\ newh <= x
        BY <1>3, <1>9, <2>1, <3>1, SMTT(30)
      <3>3. ~(x < newh + HDR + size)
        BY <3>1, <3>2
      <3>. QED BY <1>6, <1>8, <2>1, <3>1, <3>3, SMTT(30)
    <2>2. CASE g \in DOMAIN m /\ x = newh
      <3>1. g \in Nat /\ Fin(m, g) \in Nat /\ newh \in Int /\ g <= newh
        BY <1>3, <1>7, <1>9, <2>2, SMTT(30)
      <3>2. ~(newh < Fin(m, g))
        BY <1>7, <1>8, <2>2, <3>1
      <3>. QED BY <1>3, <1>6, <2>2, <3>1, <3>2, SMTT(30)
    <2>3. CASE g \in DOMAIN m /\ x \in DOMAIN m
      BY <1>6, <1>7, <1>9, <2>3
    <2>. QED BY <1>1, <2>1, <2>2, <2>3
  <1>10. ASSUME NEW x \in Int
         PROVE  x \in A \cup B <=> \E g \in DOMAIN w : g <= x /\ x < Fin(w, g)
    <2>1. x \in B <=> newh <= x /\ x < Fin(w, newh)
      BY <1>6
    <2>2. x \in A <=> \E g \in DOMAIN m : g <= x /\ x < Fin(w, g)
      BY <1>6, <1>7
    <2>. QED BY <1>1, <2>1, <2>2
  <1>. QED BY <1>4, <1>5, <1>9, <1>10 DEF MemoryRight, TilesRight

-----------------------------------------------------------------------------
(* Taking a block                                                          *)

\* The block h of m is taken for size bytes in w; what it has more is a free block of
\* its own, or stays with it.
Reserved(m, w, h, size) ==
    /\ DOMAIN m \subseteq DOMAIN w /\ w[h].free = FALSE /\ w[h].size >= size
    /\ \A x \in DOMAIN m : x # h => w[x].free = m[x].free /\ w[x].size = m[x].size
    /\ \A x \in DOMAIN w : x \notin DOMAIN m => w[x].free = TRUE
    /\ \A x \in DOMAIN w :
          x # h => \E y \in DOMAIN m : /\ Fin(w, x) = Fin(m, y) /\ w[x].next = m[y].next
                                       /\ w[x].free => m[y].free

\* A block that is split is taken for the size it keeps.
LEMMA TakeSplit ==
    ASSUME NEW m, NEW s, NEW e, NEW A, MemoryRight(m, s, e, A), NEW h \in DOMAIN m,
           m[h].free, NEW size \in Nat, NEW newh, newh = h + HDR + size,
           NEW k, Divided(m, k, h, newh, size), NEW f, MemoryRight(k, s, f, A)
    PROVE  MemoryRight(Flag(k, h, FALSE), s, f, A) /\ Reserved(m, Flag(k, h, FALSE), h, size)
  <1>1. /\ newh \notin DOMAIN m /\ DOMAIN k = DOMAIN m \cup {newh}
        /\ k[newh].size = m[h].size - (size + HDR) /\ k[newh].free = TRUE
        /\ k[newh].next = m[h].next /\ k[h].size = size
        /\ \A x \in DOMAIN m :
              x # h => k[x].size = m[x].size /\ k[x].next = m[x].next /\ k[x].free = m[x].free
    BY DEF Divided
  <1>2. h \in DOMAIN k /\ FALSE \in BOOLEAN
    BY <1>1
  <1>. DEFINE w == Flag(k, h, FALSE)
  <1>. HIDE DEF w
  <1>3. /\ MemoryRight(w, s, f, A) /\ DOMAIN w = DOMAIN k /\ w[h].free = FALSE
        /\ \A x \in DOMAIN k : SameShape(k, w, x) /\ (x # h => w[x].free = k[x].free)
    <2>1. MemoryRight(w, s, f, A) /\ Flagged(k, w, h, FALSE)
      BY <1>2, FlagKeeps DEF w
    <2>. QED BY <2>1 DEF Flagged
  <1>4. size >= size /\ h \in Nat /\ m[h].size \in Nat /\ HDR \in Nat /\ newh # h
    <2>1. h \in Nat /\ m[h].size \in Nat /\ HDR \in Nat \ {0}
      BY BlockFacts, HeapAssumption
    <2>. QED BY <2>1, SMTT(30)
  <1>5. \A x \in DOMAIN k : /\ w[x].size = k[x].size /\ w[x].next = k[x].next
                            /\ x # h => w[x].free = k[x].free
    BY <1>3 DEF SameShape
  <1>6. \A x \in DOMAIN m : x # h => /\ w[x].free = m[x].free /\ w[x].size = m[x].size
                                     /\ w[x].next = m[x].next
    BY <1>1, <1>5
  <1>7. /\ w[newh].free = TRUE /\ w[newh].size = m[h].size - (size + HDR)
        /\ w[newh].next = m[h].next /\ w[h].size = size
    BY <1>1, <1>2, <1>4, <1>5
  <1>8. Fin(w, newh) = Fin(m, h)
    BY <1>4, <1>7, SMTT(30) DEF Fin
  <1>9. ASSUME NEW x \in DOMAIN w, x # h
        PROVE  \E y \in DOMAIN m : /\ Fin(w, x) = Fin(m, y) /\ w[x].next = m[y].next
                                   /\ w[x].free => m[y].free
    <2>1. CASE x = newh
      BY <1>7, <1>8, <2>1
    <2>2. CASE x \in DOMAIN m
      BY <1>6, <1>9, <2>2 DEF Fin
    <2>. QED BY <1>1, <1>3, <2>1, <2>2
  <1>10. DOMAIN m \subseteq DOMAIN w /\ w[h].size >= size
         /\ \A x \in DOMAIN w : x \notin DOMAIN m => w[x].free = TRUE
    BY <1>1, <1>3, <1>4, <1>7
  <1>11. Reserved(m, w, h, size)
    BY <1>3, <1>6, <1>9, <1>10 DEF Reserved
  <1>. QED BY <1>3, <1>11 DEF w

\* A block that is too small to be split is taken whole.
LEMMA TakeWhole ==
    ASSUME NEW m, NEW s, NEW e, NEW A, MemoryRight(m, s, e, A), NEW h \in DOMAIN m,
           NEW size, m[h].size >= size
    PROVE  MemoryRight(Flag(m, h, FALSE), s, e, A) /\ Reserved(m, Flag(m, h, FALSE), h, size)
  <1>. DEFINE w == Flag(m, h, FALSE)
  <1>1. FALSE \in BOOLEAN
    OBVIOUS
  <1>2. MemoryRight(w, s, e, A) /\ Flagged(m, w, h, FALSE)
    BY <1>1, FlagKeeps
  <1>. HIDE DEF w
  <1>3. Reserved(m, w, h, size)
    BY <1>2 DEF Flagged, Reserved, SameShape, Fin
  <1>. QED BY <1>2, <1>3 DEF w

\* What the successful part of kmalloc does to the memory.
LEMMA TakeReserves ==
    ASSUME NEW m, NEW s, NEW e, NEW A, A \subseteq Addr, MemoryRight(m, s, e, A),
           NEW h \in DOMAIN m, NEW size \in Nat, Aligned(size), m[h].free, m[h].size >= size,
           NEW k, k = IF m[h].size > size + HDR THEN kheap_create_block(m, h, size) ELSE m,
           NEW f, f = IF m[h].size > size + HDR /\ h = e THEN h + HDR + size ELSE e
    PROVE  MemoryRight(Flag(k, h, FALSE), s, f, A) /\ Reserved(m, Flag(k, h, FALSE), h, size)
  <1>1. CASE m[h].size > size + HDR
    <2>1. MemoryRight(kheap_create_block(m, h, size), s, IF h = e THEN h + HDR + size ELSE e, A)
      BY <1>1, SplitKeeps, SMTT(30)
    <2>2. Divided(m, kheap_create_block(m, h, size), h, h + HDR + size, size)
      BY <1>1, SplitWrites, SMTT(30)
    <2>3. k = kheap_create_block(m, h, size) /\ f = IF h = e THEN h + HDR + size ELSE e
      BY <1>1
    <2>4. Divided(m, k, h, h + HDR + size, size) /\ MemoryRight(k, s, f, A)
      BY <2>1, <2>2, <2>3
    <2>. QED BY <2>4, TakeSplit
  <1>2. CASE ~(m[h].size > size + HDR)
    <2>1. k = m /\ f = e
      BY <1>2
    <2>. QED BY <2>1, TakeWhole
  <1>. QED BY <1>1, <1>2

\* The caller holds the block, and no free neighbours come to be.
LEMMA ReservedRight ==
    ASSUME NEW m, NEW s, NEW e, NEW A, MemoryRight(m, s, e, A), NEW l, LiveRight(m, l),
           NEW S, \A x \in DOMAIN m : Joined(m, x, S), l \subseteq [ptr : Addr, size : Nat],
           NEW h \in DOMAIN m, NEW size \in Nat, m[h].free, NEW w, Reserved(m, w, h, size)
    PROVE  /\ LiveRight(w, l \cup {[ptr |-> h + HDR, size |-> size]})
           /\ \A x \in DOMAIN w : Joined(w, x, S)
  <1>. DEFINE b0 == [ptr |-> h + HDR, size |-> size]
  <1>1. /\ DOMAIN m \subseteq DOMAIN w /\ w[h].free = FALSE /\ w[h].size >= size
        /\ \A x \in DOMAIN m : x # h => w[x].free = m[x].free /\ w[x].size = m[x].size
        /\ \A x \in DOMAIN w : x \notin DOMAIN m => w[x].free = TRUE
        /\ \A x \in DOMAIN w :
              x # h => \E y \in DOMAIN m : /\ Fin(w, x) = Fin(m, y) /\ w[x].next = m[y].next
                                           /\ w[x].free => m[y].free
    BY DEF Reserved
  <1>2. b0.ptr = h + HDR /\ b0.size = size /\ b0.ptr - HDR = h
    <2>1. h \in Nat /\ HDR \in Nat
      BY BlockFacts, HeapAssumption
    <2>. QED BY <2>1, SMTT(30)
  <1>. HIDE DEF b0
  <1>3. \A b \in l : /\ b.ptr - HDR \in DOMAIN m /\ ~m[b.ptr - HDR].free
                     /\ m[b.ptr - HDR].size >= b.size /\ b.ptr - HDR # h
    BY DEF LiveRight
  <1>4. LiveRight(w, l \cup {b0})
    <2>1. \A b \in l \cup {b0} : /\ b.ptr - HDR \in DOMAIN w /\ ~w[b.ptr - HDR].free
                                 /\ w[b.ptr - HDR].size >= b.size
      BY <1>1, <1>2, <1>3
    <2>2. ASSUME NEW x \in DOMAIN w, ~w[x].free PROVE \E b \in l \cup {b0} : b.ptr = x + HDR
      <3>1. CASE x = h
        BY <1>2, <3>1
      <3>2. CASE x # h
        <4>1. x \in DOMAIN m /\ ~m[x].free
          BY <1>1, <2>2, <3>2
        <4>. QED BY <4>1 DEF LiveRight
      <3>. QED BY <3>1, <3>2
    <2>3. ASSUME NEW a \in l \cup {b0}, NEW b \in l \cup {b0}, a.ptr = b.ptr PROVE a = b
      BY <1>2, <1>3, <2>3 DEF LiveRight
    <2>. QED BY <2>1, <2>2, <2>3 DEF LiveRight
  <1>5. ASSUME NEW x \in DOMAIN w PROVE Joined(w, x, S)
    <2>1. CASE x = h
      BY <1>1, <2>1 DEF Joined
    <2>2. CASE x # h
      <3>1. PICK y \in DOMAIN m : /\ Fin(w, x) = Fin(m, y) /\ w[x].next = m[y].next
                                  /\ w[x].free => m[y].free
        BY <1>1, <2>2
      <3>2. m[y].next # NULL => m[y].next \in DOMAIN m
        BY DEF MemoryRight, ListRight
      <3>3. m[y].next # NULL /\ w[m[y].next].free => m[m[y].next].free
        BY <1>1, <3>2
      <3>. QED BY <3>1, <3>3 DEF Joined
    <2>. QED BY <2>1, <2>2
  <1>. QED BY <1>4, <1>5 DEF b0

-----------------------------------------------------------------------------
(* Freeing a block                                                         *)

\* The blocks in use, but for h, are the same in w, and h is not one of them.
Kept(m, w, h) ==
    /\ \A x \in DOMAIN m : x # h /\ ~m[x].free => /\ x \in DOMAIN w /\ ~w[x].free
                                                  /\ w[x].size = m[x].size
    /\ \A x \in DOMAIN w : ~w[x].free => x \in DOMAIN m /\ x # h /\ ~m[x].free

\* Free neighbours are joined, but for the pair whose second one is z.
JoinedBut(m, z, S) == \A x \in DOMAIN m : m[x].next # z => Joined(m, x, S)

\* Free neighbours are joined, but for the block h with its successor, and for that pair.
JoinedBeside(m, h, z, S) ==
    \A x \in DOMAIN m : x # h /\ m[x].next # z => Joined(m, x, S)

\* What kmfree does with the block h and its successor: the headers are w then, the last block is f.
MergedUp(m, h, e, w, f) ==
    LET up == MergesWith(m, h, m[h].next) IN
    /\ w = IF up THEN Absorb(m, h, m[h].next) ELSE m
    /\ f = IF up /\ m[h].next = e THEN h ELSE e

\* What kmfree does with the predecessor p of the block h.
MergedDown(m, p, h, e, w, f) ==
    LET down == p # NULL /\ m[p].free /\ MergesWith(m, p, h) IN
    /\ w = IF down THEN Absorb(m, p, h) ELSE m
    /\ f = IF down /\ h = e THEN p ELSE e

\* A block that is marked free may have free neighbours on both sides.
LEMMA FreeFlag ==
    ASSUME NEW m, NEW s, NEW e, NEW A, MemoryRight(m, s, e, A), NEW h \in DOMAIN m,
           NEW S, \A x \in DOMAIN m : Joined(m, x, S), NEW w, Flagged(m, w, h, TRUE)
    PROVE  Kept(m, w, h) /\ w[h].free /\ JoinedBeside(w, h, h, S)
  <1>1. /\ DOMAIN w = DOMAIN m /\ w[h].free = TRUE
        /\ \A x \in DOMAIN m : /\ w[x].size = m[x].size /\ w[x].next = m[x].next
                               /\ x # h => w[x].free = m[x].free
    BY DEF Flagged, SameShape
  <1>2. Kept(m, w, h)
    BY <1>1 DEF Kept
  <1>3. ASSUME NEW x \in DOMAIN w, x # h, w[x].next # h PROVE Joined(w, x, S)
    <2>1. w[x].next = m[x].next /\ w[x].free = m[x].free /\ Fin(w, x) = Fin(m, x)
      BY <1>1, <1>3 DEF Fin
    <2>2. m[x].next # NULL => m[x].next \in DOMAIN m
      BY <1>1 DEF MemoryRight, ListRight
    <2>3. m[x].next # NULL => w[m[x].next].free = m[m[x].next].free
      BY <1>1, <1>3, <2>1, <2>2
    <2>4. Joined(m, x, S)
      BY <1>1
    <2>. QED BY <2>1, <2>3, <2>4 DEF Joined
  <1>. QED BY <1>1, <1>2, <1>3 DEF JoinedBeside

\* Joining two free blocks leaves the blocks in use alone.
LEMMA AbsorbKept ==
    ASSUME NEW m, NEW k, NEW w, NEW h, Kept(m, k, h), NEW g, NEW n, United(k, w, g, n),
           k[g].free, k[n].free
    PROVE  Kept(m, w, h)
  <1>1. /\ DOMAIN w = DOMAIN k \ {n} /\ w[g].free = k[g].free
        /\ \A x \in DOMAIN w : x # g => w[x].size = k[x].size /\ w[x].free = k[x].free
    BY DEF United
  <1>2. /\ \A x \in DOMAIN m : x # h /\ ~m[x].free => /\ x \in DOMAIN k /\ ~k[x].free
                                                      /\ k[x].size = m[x].size
        /\ \A x \in DOMAIN k : ~k[x].free => x \in DOMAIN m /\ x # h /\ ~m[x].free
    BY DEF Kept
  <1>3. ASSUME NEW x \in DOMAIN m, x # h, ~m[x].free
        PROVE  x \in DOMAIN w /\ ~w[x].free /\ w[x].size = m[x].size
    <2>1. x \in DOMAIN k /\ ~k[x].free /\ k[x].size = m[x].size
      BY <1>2, <1>3
    <2>2. x # g /\ x # n
      BY <2>1
    <2>. QED BY <1>1, <2>1, <2>2
  <1>4. ASSUME NEW x \in DOMAIN w, ~w[x].free PROVE x \in DOMAIN m /\ x # h /\ ~m[x].free
    <2>1. x # g
      BY <1>1, <1>4
    <2>2. x \in DOMAIN k /\ ~k[x].free
      BY <1>1, <1>4, <2>1
    <2>. QED BY <1>2, <2>2
  <1>. QED BY <1>3, <1>4 DEF Kept

\* The block that two free neighbours have become inherits the second one's neighbour.
LEMMA AbsorbJoined ==
    ASSUME NEW m, NEW s, NEW e, NEW A, MemoryRight(m, s, e, A), NEW h \in DOMAIN m,
           NEW n, n = m[h].next, n # NULL, Fin(m, h) = n, m[n].free, NEW w, United(m, w, h, n),
           NEW z, NEW S, m[n].next # z, JoinedBeside(m, h, z, S)
    PROVE  JoinedBut(w, z, S)
  <1>1. /\ n \in DOMAIN m /\ h # n /\ DOMAIN w = DOMAIN m \ {n}
        /\ w[h].size = m[h].size + m[n].size + HDR
        /\ w[h].next = m[n].next /\ w[h].free = m[h].free
        /\ \A x \in DOMAIN w :
              x # h => /\ w[x].size = m[x].size /\ w[x].next = m[x].next
                       /\ w[x].free = m[x].free
    BY DEF United
  <1>2. \A x \in DOMAIN w : w[x].free = m[x].free
    BY <1>1
  <1>3. \A x \in DOMAIN m :
           m[x].next # NULL => m[x].next \in DOMAIN m /\ m[m[x].next].prev = x
    BY DEF MemoryRight, ListRight
  <1>4. Joined(w, h, S)
    <2>1. Fin(w, h) = Fin(m, n)
      <3>1. h \in Nat /\ m[h].size \in Nat /\ n \in Nat /\ m[n].size \in Nat /\ HDR \in Nat
        <4>1. h \in Nat /\ m[h].size \in Nat
          BY BlockFacts
        <4>2. n \in Nat /\ m[n].size \in Nat
          BY <1>1, BlockFacts
        <4>. QED BY <4>1, <4>2, HeapAssumption
      <3>. QED BY <1>1, <3>1, SMTT(30) DEF Fin
    <2>2. Joined(m, n, S)
      BY <1>1 DEF JoinedBeside
    <2>3. m[n].next # NULL => m[n].next \in DOMAIN w
      <3>1. m[n].next # n
        BY <1>1, BlockFacts
      <3>. QED BY <1>1, <1>3, <3>1
    <2>4. m[n].next # NULL => w[m[n].next].free = m[m[n].next].free
      BY <1>2, <2>3
    <2>. QED BY <1>1, <2>1, <2>2, <2>4 DEF Joined
  <1>5. ASSUME NEW x \in DOMAIN w, x # h, w[x].next # z PROVE Joined(w, x, S)
    <2>1. x \in DOMAIN m /\ w[x].next = m[x].next /\ Fin(w, x) = Fin(m, x)
      BY <1>1, <1>5 DEF Fin
    <2>2. m[x].next # n
      <3>1. m[x].next = n => m[n].prev = x
        BY <1>3, <2>1
      <3>2. m[n].prev = h
        BY <1>3
      <3>. QED BY <1>5, <3>1, <3>2
    <2>3. m[x].next # NULL => w[m[x].next].free = m[m[x].next].free
      BY <1>1, <1>2, <1>3, <2>1, <2>2
    <2>4. Joined(m, x, S)
      BY <1>5, <2>1 DEF JoinedBeside
    <2>. QED BY <1>2, <2>1, <2>3, <2>4 DEF Joined
  <1>. QED BY <1>4, <1>5 DEF JoinedBut

\* When the code finds two blocks to be neighbours.
LEMMA MergesExactly ==
    ASSUME NEW m, NEW s, NEW e, NEW A, MemoryRight(m, s, e, A), NEW h \in DOMAIN m, NEW n
    PROVE  MergesWith(m, h, n) <=> n # NULL /\ m[n].free /\ Fin(m, h) = n
  <1>1. h \in Nat /\ m[h].size \in Nat /\ HDR \in Nat
    BY BlockFacts, HeapAssumption
  <1>2. h + m[h].size + HDR = Fin(m, h)
    BY <1>1, SMTT(30) DEF Fin
  <1>. QED BY <1>2 DEF MergesWith

\* The first half of kmfree: the block is joined with its successor.
LEMMA FreeUp ==
    ASSUME NEW k, NEW s, NEW e, NEW A, MemoryRight(k, s, e, A), NEW h \in DOMAIN k, k[h].free,
           NEW m, Kept(m, k, h), NEW S, JoinedBeside(k, h, h, S),
           NEW w, NEW f, MergedUp(k, h, e, w, f)
    PROVE  /\ MemoryRight(w, s, f, A) /\ h \in DOMAIN w /\ w[h].free
           /\ Kept(m, w, h) /\ JoinedBut(w, h, S)
  <1>. DEFINE n == k[h].next
  <1>1. CASE MergesWith(k, h, n)
    <2>1. n # NULL /\ k[n].free /\ Fin(k, h) = n
      BY <1>1, MergesExactly
    <2>2. w = Absorb(k, h, k[h].next) /\ f = IF n = e THEN h ELSE e
      BY <1>1 DEF MergedUp
    <2>3. United(k, w, h, n)
      BY <2>1, <2>2, AbsorbWrites
    <2>4. MemoryRight(w, s, IF n = e THEN h ELSE e, A)
      BY <2>1, <2>3, AbsorbKeeps
    <2>5. h \in DOMAIN w /\ w[h].free = k[h].free /\ w[h].next = k[n].next
      BY <2>3 DEF United
    <2>6. Kept(m, w, h)
      BY <2>1, <2>3, AbsorbKept
    <2>7. k[n].next # h
      <3>1. w[h].next # h
        BY <2>4, <2>5, BlockFacts
      <3>. QED BY <2>5, <3>1
    <2>8. JoinedBut(w, h, S)
      BY <2>1, <2>3, <2>7, AbsorbJoined
    <2>. QED BY <2>2, <2>4, <2>5, <2>6, <2>8
  <1>2. CASE ~MergesWith(k, h, n)
    <2>1. w = k /\ f = e
      BY <1>2 DEF MergedUp
    <2>2. ~(n # NULL /\ k[n].free /\ Fin(k, h) = n)
      BY <1>2, MergesExactly
    <2>3. Joined(k, h, S)
      BY <2>2 DEF Joined
    <2>4. JoinedBut(k, h, S)
      BY <2>3 DEF JoinedBut, JoinedBeside
    <2>. QED BY <2>1, <2>4
  <1>. QED BY <1>1, <1>2

\* A block that has a predecessor is that one's successor.
LEMMA BackLink ==
    ASSUME NEW m, NEW s, NEW e, NEW A, MemoryRight(m, s, e, A), NEW h \in DOMAIN m,
           m[h].prev # NULL
    PROVE  m[h].prev \in DOMAIN m /\ m[m[h].prev].next = h
  <1>1. /\ Chain(Addr, Links(m), DOMAIN m, s) /\ m[s].prev = NULL
        /\ DOMAIN m \subseteq Addr /\ NULL \notin Addr
        /\ \A x \in DOMAIN m :
              m[x].next # NULL => m[x].next \in DOMAIN m /\ m[m[x].next].prev = x
    BY AddrFinite DEF MemoryRight, HeadersRight, ListRight
  <1>2. h # s
    BY <1>1
  <1>3. PICK p \in DOMAIN m : Links(m)[p] = h
    BY <1>1, <1>2, ChainPredecessor, SMTT(30)
  <1>4. m[p].next = h
    BY <1>3 DEF Links
  <1>5. m[h].prev = p
    BY <1>1, <1>4
  <1>. QED BY <1>4, <1>5

\* The second half of kmfree: the predecessor is joined with the block.
LEMMA FreeDown ==
    ASSUME NEW k, NEW s, NEW e, NEW A, MemoryRight(k, s, e, A), NEW h \in DOMAIN k, k[h].free,
           NEW m, Kept(m, k, h), NEW S, JoinedBut(k, h, S), NEW p, p = k[h].prev,
           NEW w, NEW f, MergedDown(k, p, h, e, w, f)
    PROVE  /\ MemoryRight(w, s, f, A)
           /\ Kept(m, w, h) /\ \A x \in DOMAIN w : Joined(w, x, S)
  <1>1. CASE p # NULL /\ k[p].free /\ MergesWith(k, p, h)
    <2>1. p \in DOMAIN k /\ k[p].next = h
      BY <1>1, BackLink
    <2>2. h # NULL /\ Fin(k, p) = h
      BY <1>1, <2>1, MergesExactly
    <2>3. w = Absorb(k, p, k[p].next) /\ f = IF h = e THEN p ELSE e
      BY <1>1, <2>1 DEF MergedDown
    <2>4. United(k, w, p, h)
      BY <2>1, <2>2, <2>3, AbsorbWrites
    <2>5. MemoryRight(w, s, IF h = e THEN p ELSE e, A)
      BY <2>1, <2>2, <2>4, AbsorbKeeps
    <2>6. Kept(m, w, h)
      BY <1>1, <2>4, AbsorbKept
    <2>7. JoinedBut(w, h, S)
      <3>1. k[h].next # h
        BY BlockFacts
      <3>2. JoinedBeside(k, p, h, S)
        BY DEF JoinedBut, JoinedBeside
      <3>. QED BY <2>1, <2>2, <2>4, <3>1, <3>2, AbsorbJoined
    <2>8. ASSUME NEW x \in DOMAIN w PROVE Joined(w, x, S)
      <3>1. h \notin DOMAIN w /\ h # NULL
        BY <2>2, <2>4 DEF United
      <3>2. w[x].next = NULL \/ w[x].next \in DOMAIN w
        BY <2>5 DEF MemoryRight, ListRight
      <3>3. w[x].next # h
        BY <3>1, <3>2
      <3>. QED BY <2>7, <3>3 DEF JoinedBut
    <2>. QED BY <2>3, <2>5, <2>6, <2>8
  <1>2. CASE ~(p # NULL /\ k[p].free /\ MergesWith(k, p, h))
    <2>1. w = k /\ f = e
      BY <1>2 DEF MergedDown
    <2>2. ASSUME NEW x \in DOMAIN k, k[x].next = h PROVE Joined(k, x, S)
      <3>0. h # NULL
        BY AddrFinite DEF MemoryRight, HeadersRight
      <3>1. x = p
        BY <2>2, <3>0 DEF MemoryRight, ListRight
      <3>2. p # NULL
        BY <3>1, AddrFinite DEF MemoryRight, HeadersRight
      <3>3. MergesWith(k, p, h) <=> h # NULL /\ k[h].free /\ Fin(k, p) = h
        BY <3>1, MergesExactly
      <3>4. ~(k[p].free /\ Fin(k, p) = h)
        BY <1>2, <3>0, <3>2, <3>3
      <3>. QED BY <2>2, <3>1, <3>4 DEF Joined
    <2>3. \A x \in DOMAIN k : Joined(k, x, S)
      BY <2>2 DEF JoinedBut
    <2>. QED BY <2>1, <2>3
  <1>. QED BY <1>1, <1>2

-----------------------------------------------------------------------------
(* The invariant                                                           *)

\* What the type invariant takes from the list.
LEMMA MemoryTyped ==
    ASSUME NEW m, NEW s, NEW e, NEW A, MemoryRight(m, s, e, A)
    PROVE  /\ DOMAIN m \subseteq Addr /\ s \in DOMAIN m /\ e \in DOMAIN m
           /\ \A h \in DOMAIN m : m[h] \in [size : Nat, free : BOOLEAN,
                                            prev : Addr \cup {NULL}, next : Addr \cup {NULL}]
  BY DEF MemoryRight, HeadersRight, ListRight, Chain, Header

\* The heap does not reach beyond the memory.
LEMMA HeapWithin ==
    ASSUME KheapInv
    PROVE  /\ HeapSpace \subseteq Addr
           /\ \A h \in DOMAIN hdr : h + HDR \in Addr
  <1>. USE HeapAssumption
  <1>0. NPages * PAGE \in Nat
    BY SMTT(30)
  <1>1. HeapSpace \subseteq 0 .. NPages * PAGE - 1 /\ MemoryRight(hdr, start, end, HeapSpace)
    BY DEF KheapInv
  <1>2. HeapSpace \subseteq Addr
    <2>. HIDE DEF HeapSpace
    <2>. QED BY <1>0, <1>1, SMTT(30) DEF Addr
  <1>3. ASSUME NEW h \in DOMAIN hdr PROVE h + HDR \in Addr
    <2>. HIDE DEF HeapSpace
    <2>1. h \in Nat /\ hdr[h].size \in Nat
      BY <1>1, BlockFacts
    <2>2. h + HDR - 1 \in Int /\ h <= h + HDR - 1 /\ h + HDR - 1 < Fin(hdr, h)
      BY <2>1, SMTT(30) DEF Fin
    <2>3. h + HDR - 1 \in HeapSpace
      BY <1>1, <2>2 DEF MemoryRight, TilesRight
    <2>. QED BY <1>0, <1>1, <2>1, <2>3, SMTT(30) DEF Addr
  <1>. QED BY <1>2, <1>3

\* The invariant implies what the heap promises.
LEMMA KheapInvSound == ASSUME KheapInv PROVE HeapSound
  <1>0. /\ KheapTypeOK /\ MemoryRight(hdr, start, end, HeapSpace) /\ LiveRight(hdr, live)
        /\ \A h \in DOMAIN hdr : Joined(hdr, h, seams)
        /\ kheapSize = Cardinality(HeapSpace)
    BY DEF KheapInv
  <1>1. \A h \in DOMAIN hdr : /\ h \in Nat /\ hdr[h].size \in Nat /\ Fin(hdr, h) \in Nat
                              /\ After(h) = Fin(hdr, h) /\ h < Fin(hdr, h) /\ Aligned(h)
    <2>1. \A h \in DOMAIN hdr : /\ h \in Nat /\ hdr[h].size \in Nat /\ Fin(hdr, h) \in Nat
                                /\ h < Fin(hdr, h)
      BY <1>0, BlockFacts
    <2>. QED BY <1>0, <2>1 DEF MemoryRight, HeadersRight, After, Fin
  <1>2. ListIntact
    <2>1. /\ hdr[start].prev = NULL /\ hdr[end].next = NULL
          /\ \A h \in DOMAIN hdr :
                /\ hdr[h].next # NULL => hdr[h].next \in DOMAIN hdr /\ hdr[hdr[h].next].prev = h
                /\ hdr[h].next = NULL => h = end
      BY <1>0 DEF MemoryRight, ListRight
    <2>2. Reached(DOMAIN hdr, Links(hdr), start) = DOMAIN hdr
      <3>1. Chain(Addr, Links(hdr), DOMAIN hdr, start)
        BY <1>0 DEF MemoryRight, ListRight
      <3>2. Chain(DOMAIN hdr, Links(hdr), DOMAIN hdr, start)
        BY <3>1 DEF Chain, NoWayOut
      <3>3. IsFiniteSet(DOMAIN hdr)
        BY <1>0, AddrFinite, FS_Subset DEF MemoryRight, HeadersRight
      <3>. QED BY <3>2, <3>3, ChainReached
    <2>. QED BY <1>0, <2>1, <2>2 DEF ListIntact, Links
  <1>3. BlocksTileHeap
    <2>1. \A h \in DOMAIN hdr : \A x : x \in Space(h) <=> x \in Int /\ h <= x /\ x < Fin(hdr, h)
      BY <1>1, SMTT(30) DEF Space
    <2>2. HeapSpace \subseteq Int
      <3>1. Addr \subseteq Int
        BY SMTT(30) DEF Addr
      <3>. QED BY <3>1, HeapWithin
    <2>. HIDE DEF HeapSpace
    <2>3. \A x \in Int : x \in HeapSpace <=> \E h \in DOMAIN hdr : h <= x /\ x < Fin(hdr, h)
      BY <1>0 DEF MemoryRight, TilesRight
    <2>4. UNION {Space(h) : h \in DOMAIN hdr} = HeapSpace
      <3>1. ASSUME NEW x PROVE x \in UNION {Space(h) : h \in DOMAIN hdr} <=> x \in HeapSpace
        BY <2>1, <2>2, <2>3
      <3>. QED BY <3>1
    <2>5. ASSUME NEW g \in DOMAIN hdr, NEW h \in DOMAIN hdr, g # h
          PROVE  Space(g) \cap Space(h) = {}
      <3>1. \A i, j \in DOMAIN hdr : i < j => Fin(hdr, i) <= j
        BY <1>0 DEF MemoryRight, TilesRight
      <3>2. Fin(hdr, g) <= h \/ Fin(hdr, h) <= g
        <4>1. g < h \/ h < g
          BY <1>1, <2>5, SMTT(30)
        <4>. QED BY <3>1, <4>1
      <3>3. ASSUME NEW x, x \in Space(g), x \in Space(h) PROVE FALSE
        <4>1. x \in Int /\ g <= x /\ x < Fin(hdr, g) /\ h <= x /\ x < Fin(hdr, h)
          BY <2>1, <3>3
        <4>2. g \in Nat /\ h \in Nat /\ Fin(hdr, g) \in Nat /\ Fin(hdr, h) \in Nat
          BY <1>1
        <4>. QED BY <3>2, <4>1, <4>2, SMTT(30)
      <3>. QED BY <3>3
    <2>. QED BY <1>0, <2>4, <2>5 DEF BlocksTileHeap
  <1>4. LiveBacked
    <2>1. ASSUME NEW b \in live PROVE b.ptr % ALIGN = 0
      <3>1. b.ptr \in Nat
        <4>1. b \in [ptr : Addr, size : Nat]
          BY <1>0 DEF KheapTypeOK
        <4>2. b.ptr \in Addr
          BY <4>1, SMTT(30)
        <4>. QED BY <4>2, AddrFinite
      <3>2. b.ptr - HDR \in DOMAIN hdr
        BY <1>0 DEF LiveRight
      <3>3. Aligned(b.ptr - HDR) /\ Aligned(HDR)
        BY <1>1, <3>2, AlignedSizes
      <3>4. b.ptr - HDR \in Int /\ HDR \in Int /\ (b.ptr - HDR) + HDR = b.ptr
        BY <3>1, HeapAssumption, SMTT(30)
      <3>5. Aligned(b.ptr)
        BY <3>3, <3>4, AlignedSum
      <3>. QED BY <3>1, <3>5, AlignedMod
    <2>. QED BY <1>0, <2>1 DEF LiveBacked, LiveRight
  <1>5. Coalesced
    BY <1>0, <1>1 DEF Coalesced, Joined
  <1>. QED BY <1>2, <1>3, <1>4, <1>5 DEF HeapSound

\* kheap_extend asks for at least one page, and for enough.
LEMMA ExtendSize ==
    ASSUME NEW size \in Nat
    PROVE  /\ ExtendPages(size) \in Nat \ {0} /\ ExtendPages(size) * PAGE \in Nat
           /\ ExtendPages(size) * PAGE >= size + HDR
  <1>. USE HeapAssumption
  <1>0. PAGE \in Nat \ {0} /\ size + HDR \in Nat /\ size + HDR > 0
    BY SMTT(30)
  <1>1. PICK k \in Nat : ALIGN_UP(size + HDR, PAGE) = k * PAGE /\ k * PAGE >= size + HDR
    BY <1>0, AlignUp
  <1>2. ExtendPages(size) = k
    BY <1>0, <1>1, TimesDiv DEF ExtendPages
  <1>3. k * PAGE \in Nat /\ k # 0
    <2>1. k * PAGE \in Nat /\ 0 * PAGE = 0
      BY <1>0, SMTT(30)
    <2>2. k = 0 => k * PAGE = 0
      BY <2>1
    <2>. QED BY <1>0, <1>1, <2>1, <2>2, SMTT(30)
  <1>. QED BY <1>1, <1>2, <1>3

\* A run of pages is an interval of as many bytes, all of them below the end of memory.
LEMMA RunFacts ==
    ASSUME NEW p \in Nat, NEW n \in Nat \ {0}, p + n <= NPages
    PROVE  /\ p * PAGE \in Addr /\ Aligned(p * PAGE) /\ n * PAGE - HDR \in Nat
           /\ Aligned(n * PAGE - HDR)
           /\ p .. p + n - 1 \subseteq 0 .. NPages - 1
           /\ SpaceOf(p .. p + n - 1) \subseteq 0 .. NPages * PAGE - 1
           /\ \A x \in Int : x \in SpaceOf(p .. p + n - 1)
                                <=> p * PAGE <= x /\ x < p * PAGE + HDR + (n * PAGE - HDR)
           /\ IsFiniteSet(SpaceOf(p .. p + n - 1))
           /\ Cardinality(SpaceOf(p .. p + n - 1)) = n * PAGE
  <1>. USE HeapAssumption
  <1>1. /\ p * PAGE \in Nat /\ n * PAGE \in Nat /\ (p + n) * PAGE \in Nat
        /\ NPages * PAGE \in Nat /\ (p + n) * PAGE = p * PAGE + n * PAGE
    BY SMTT(30)
  <1>2. (p + n) * PAGE <= NPages * PAGE /\ 1 * PAGE <= n * PAGE /\ 1 * PAGE = PAGE
    BY TimesOrder, SMTT(30)
  <1>3. p * PAGE \in Addr /\ n * PAGE - HDR \in Nat /\ n * PAGE > 0
    BY <1>1, <1>2, SMTT(30) DEF Addr
  <1>4. Aligned(p * PAGE) /\ Aligned(n * PAGE - HDR)
    <2>1. Aligned(p * PAGE) /\ Aligned(n * PAGE) /\ Aligned(HDR)
      BY AlignedSizes
    <2>2. n * PAGE \in Int /\ HDR \in Int
      BY <1>1, SMTT(30)
    <2>. QED BY <2>1, <2>2, AlignedSum
  <1>5. p .. p + n - 1 \subseteq 0 .. NPages - 1
    BY SMTT(30)
  <1>. DEFINE a == p * PAGE
              z == (p + n) * PAGE - 1
  <1>6. SpaceOf(p .. p + n - 1) = a .. z
    BY RunSpace
  <1>7. a \in Int /\ z \in Int /\ ~(a > z) /\ z - a + 1 = n * PAGE
    BY <1>1, <1>3, SMTT(30)
  <1>8. IsFiniteSet(a .. z) /\ Cardinality(a .. z) = n * PAGE
    <2>. HIDE DEF a, z
    <2>. QED BY <1>7, FS_Interval
  <1>9. a .. z \subseteq 0 .. NPages * PAGE - 1
    BY <1>1, <1>2, SMTT(30)
  <1>10. \A x \in Int : x \in a .. z <=> a <= x /\ x < a + HDR + (n * PAGE - HDR)
    BY <1>1, SMTT(30)
  <1>. QED BY <1>3, <1>4, <1>5, <1>6, <1>8, <1>9, <1>10

\* Different pages have no address in common.
LEMMA SpacesApart ==
    ASSUME NEW P \in SUBSET Nat, NEW Q \in SUBSET Nat, P \cap Q = {}
    PROVE  SpaceOf(P) \cap SpaceOf(Q) = {} /\ SpaceOf(P \cup Q) = SpaceOf(P) \cup SpaceOf(Q)
  <1>1. ASSUME NEW x, x \in SpaceOf(P), x \in SpaceOf(Q) PROVE FALSE
    <2>1. PICK p \in P : x \in PageAddr(p) .. PageAddr(p + 1) - 1
      BY <1>1 DEF SpaceOf
    <2>2. x \in Int /\ x \in Nat
      <3>1. p * PAGE \in Nat
        BY HeapAssumption, SMTT(30)
      <3>. QED BY <2>1, <3>1, SMTT(30) DEF PageAddr
    <2>3. PICK i \in P : i * PAGE <= x /\ x < (i + 1) * PAGE
      BY <1>1, <2>2, InSpace
    <2>4. PICK j \in Q : j * PAGE <= x /\ x < (j + 1) * PAGE
      BY <1>1, <2>2, InSpace
    <2>5. i \in Nat /\ j \in Nat
      OBVIOUS
    <2>6. i = j
      BY <2>2, <2>3, <2>4, <2>5, PageOfAddress
    <2>. QED BY <2>6
  <1>2. SpaceOf(P \cup Q) = SpaceOf(P) \cup SpaceOf(Q)
    BY DEF SpaceOf
  <1>. QED BY <1>1, <1>2

\* The initial heap is one free block.
LEMMA KheapInitRight == ASSUME KheapInit PROVE KheapInv
  <1>. USE HeapAssumption
  <1>. DEFINE a == InitPage * PAGE
              z == INIT_PAGES * PAGE - HDR
              A == SpaceOf(InitPage .. InitPage + INIT_PAGES - 1)
  <1>1. /\ a \in Addr /\ Aligned(a) /\ z \in Nat /\ Aligned(z) /\ pages \subseteq 0 .. NPages - 1
        /\ A \subseteq 0 .. NPages * PAGE - 1
        /\ \A x \in Int : x \in A <=> a <= x /\ x < a + HDR + z
        /\ Cardinality(A) = INIT_PAGES * PAGE
    BY RunFacts DEF KheapInit
  <1>2. HeapSpace = A
    BY DEF HeapSpace, SpaceOf, KheapInit
  <1>3. /\ hdr = [h \in {a} |-> [size |-> z, free |-> TRUE, prev |-> NULL, next |-> NULL]]
        /\ start = a /\ end = a /\ kheapSize = INIT_PAGES * PAGE
        /\ live = {} /\ want = [c \in Clients |-> OUTSIDE] /\ exhausted = FALSE
    BY DEF KheapInit, PageAddr
  <1>. HIDE DEF a, z, A
  <1>4. /\ DOMAIN hdr = {a} /\ hdr[a] \in Header /\ hdr[a].size = z /\ hdr[a].free = TRUE
        /\ hdr[a].prev = NULL /\ hdr[a].next = NULL
    <2>1. DOMAIN hdr = {a}
          /\ hdr[a] = [size |-> z, free |-> TRUE, prev |-> NULL, next |-> NULL]
      BY <1>3
    <2>. QED BY <1>1, <2>1, SMTT(30) DEF Header
  <1>5. NULL \notin Addr /\ Addr \subseteq Nat
    BY AddrFinite
  <1>6. HeadersRight(hdr)
    BY <1>1, <1>4 DEF HeadersRight
  <1>7. ListRight(hdr, a, a)
    <2>1. Links(hdr)[a] = NULL
      BY <1>4 DEF Links
    <2>2. Chain(Addr, Links(hdr), {a}, a)
      BY <1>1, <1>5, <2>1 DEF Chain, NoWayOut
    <2>. QED BY <1>4, <2>2 DEF ListRight
  <1>8. TilesRight(hdr, A)
    <2>1. Fin(hdr, a) = a + HDR + z /\ ~(a < a)
      BY <1>1, <1>4, <1>5, SMTT(30) DEF Fin
    <2>. QED BY <1>1, <1>4, <2>1 DEF TilesRight
  <1>9. LiveRight(hdr, live) /\ \A h \in DOMAIN hdr : Joined(hdr, h, seams)
    BY <1>3, <1>4 DEF LiveRight, Joined
  <1>10. KheapTypeOK
    <2>1. kheapSize \in Nat
      BY <1>3, SMTT(30)
    <2>. QED BY <1>1, <1>3, <1>4, <2>1 DEF KheapTypeOK, Header
  <1>. QED BY <1>1, <1>2, <1>3, <1>6, <1>7, <1>8, <1>9, <1>10 DEF KheapInv, MemoryRight

\* Entering kmalloc rounds the size up to the alignment.
LEMMA KmallocRight ==
    ASSUME KheapInv, NEW c \in Clients, NEW size \in Sizes, kmalloc(c, size) PROVE KheapInv'
  <1>. USE HeapAssumption
  <1>1. UNCHANGED <<hdr, start, end, kheapSize, pages, seams, live, exhausted>>
        /\ want' = [want EXCEPT ![c] = ALIGN_UP(size, ALIGN)]
    BY DEF kmalloc
  <1>2. PICK k \in Nat : ALIGN_UP(size, ALIGN) = k * ALIGN /\ k * ALIGN >= size
    <2>1. size \in Nat
      OBVIOUS
    <2>. QED BY <2>1, AlignUp
  <1>3. k * ALIGN \in Nat /\ k \in Int
    BY SMTT(30)
  <1>. DEFINE v == ALIGN_UP(size, ALIGN)
  <1>4. v \in Nat /\ Aligned(v)
    BY <1>2, <1>3 DEF Aligned
  <1>. HIDE DEF v
  <1>5. want \in [Clients -> Nat \cup {OUTSIDE}]
        /\ \A d \in Clients : want[d] # OUTSIDE => Aligned(want[d])
    BY DEF KheapInv, KheapTypeOK
  <1>6. want' \in [Clients -> Nat \cup {OUTSIDE}]
        /\ \A d \in Clients : want'[d] # OUTSIDE => Aligned(want'[d])
    <2>1. want' = [want EXCEPT ![c] = v]
      BY <1>1 DEF v
    <2>. QED BY <1>4, <1>5, <2>1
  <1>7. HeapSpace' = HeapSpace /\ KheapTypeOK'
    BY <1>1, <1>6 DEF HeapSpace, KheapInv, KheapTypeOK
  <1>. QED BY <1>1, <1>6, <1>7 DEF KheapInv

\* A step that returns the block the search has found.
LEMMA TakeRight == ASSUME KheapInv, NEW c \in Clients, Take(c) PROVE KheapInv'
  <1>. DEFINE size == want[c]
              h == Search(size)
              k == IF hdr[h].size > size + HDR THEN kheap_create_block(hdr, h, size) ELSE hdr
              b0 == [ptr |-> h + HDR, size |-> size]
  <1>1. /\ KheapTypeOK /\ MemoryRight(hdr, start, end, HeapSpace) /\ LiveRight(hdr, live)
        /\ \A x \in DOMAIN hdr : Joined(hdr, x, seams)
        /\ HeapSpace \subseteq 0 .. NPages * PAGE - 1 /\ kheapSize = Cardinality(HeapSpace)
        /\ \A d \in Clients : want[d] # OUTSIDE => Aligned(want[d])
    BY DEF KheapInv
  <1>2. size \in Nat /\ Aligned(size) /\ want \in [Clients -> Nat \cup {OUTSIDE}]
        /\ live \subseteq [ptr : Addr, size : Nat]
    BY <1>1 DEF Take, KheapTypeOK
  <1>3. h \in DOMAIN hdr /\ hdr[h].free /\ hdr[h].size >= size
    BY <1>1, SearchFinds DEF Take, Fits
  <1>4. /\ hdr' = Flag(k, h, FALSE)
        /\ end' = IF hdr[h].size > size + HDR /\ h = end THEN h + HDR + size ELSE end
        /\ live' = live \cup {b0}
        /\ want' = [want EXCEPT ![c] = OUTSIDE]
        /\ UNCHANGED <<start, kheapSize, pages, seams, exhausted>>
    BY DEF Take, Splits, Flag
  <1>5. HeapSpace' = HeapSpace /\ HeapSpace \subseteq Addr /\ h + HDR \in Addr
    <2>1. HeapSpace \subseteq Addr /\ h + HDR \in Addr
      BY <1>3, HeapWithin
    <2>. QED BY <1>4, <2>1 DEF HeapSpace
  <1>. HIDE DEF h, HeapSpace
  <1>. DEFINE f == IF hdr[h].size > size + HDR /\ h = end THEN h + HDR + size ELSE end
  <1>6. MemoryRight(Flag(k, h, FALSE), start, f, HeapSpace)
        /\ Reserved(hdr, Flag(k, h, FALSE), h, size)
    <2>1. /\ k = IF hdr[h].size > size + HDR THEN kheap_create_block(hdr, h, size) ELSE hdr
          /\ f = IF hdr[h].size > size + HDR /\ h = end THEN h + HDR + size ELSE end
      OBVIOUS
    <2>. HIDE DEF size, k, f
    <2>. QED BY <1>1, <1>2, <1>3, <1>5, <2>1, TakeReserves
  <1>7. LiveRight(Flag(k, h, FALSE), live \cup {b0})
        /\ \A x \in DOMAIN Flag(k, h, FALSE) : Joined(Flag(k, h, FALSE), x, seams)
    <2>. HIDE DEF size, k
    <2>. QED BY <1>1, <1>2, <1>3, <1>6, ReservedRight
  <1>. HIDE DEF k, size
  <1>8. MemoryRight(hdr', start', end', HeapSpace') /\ LiveRight(hdr', live')
        /\ \A x \in DOMAIN hdr' : Joined(hdr', x, seams')
    BY <1>4, <1>5, <1>6, <1>7
  <1>9. want' \in [Clients -> Nat \cup {OUTSIDE}]
        /\ \A d \in Clients : want'[d] # OUTSIDE => Aligned(want'[d])
    BY <1>1, <1>2, <1>4
  <1>10. live' \subseteq [ptr : Addr, size : Nat]
    <2>1. b0 \in [ptr : Addr, size : Nat]
      BY <1>2, <1>5
    <2>. QED BY <1>2, <1>4, <2>1
  <1>11. KheapTypeOK'
    <2>1. /\ DOMAIN hdr' \subseteq Addr /\ start' \in DOMAIN hdr' /\ end' \in DOMAIN hdr'
          /\ \A x \in DOMAIN hdr' : hdr'[x] \in [size : Nat, free : BOOLEAN,
                                         prev : Addr \cup {NULL}, next : Addr \cup {NULL}]
      BY <1>8, MemoryTyped
    <2>2. kheapSize' \in Nat /\ pages' \subseteq 0 .. NPages - 1 /\ exhausted' \in BOOLEAN
      BY <1>1, <1>4 DEF KheapTypeOK
    <2>. QED BY <1>9, <1>10, <2>1, <2>2 DEF KheapTypeOK
  <1>. QED BY <1>1, <1>4, <1>5, <1>8, <1>9, <1>11 DEF KheapInv

\* A step that frees a block.
LEMMA KmfreeRight == ASSUME KheapInv, NEW b \in live, kmfree(b) PROVE KheapInv'
  <1>. DEFINE h == b.ptr - HDR
              m0 == Flag(hdr, h, TRUE)
              up == MergesWith(m0, h, m0[h].next)
              m1 == IF up THEN Absorb(m0, h, m0[h].next) ELSE m0
              e1 == IF up /\ m0[h].next = end THEN h ELSE end
              p == m1[h].prev
              down == p # NULL /\ m1[p].free /\ MergesWith(m1, p, h)
  <1>1. /\ KheapTypeOK /\ MemoryRight(hdr, start, end, HeapSpace) /\ LiveRight(hdr, live)
        /\ \A x \in DOMAIN hdr : Joined(hdr, x, seams)
        /\ HeapSpace \subseteq 0 .. NPages * PAGE - 1 /\ kheapSize = Cardinality(HeapSpace)
        /\ \A d \in Clients : want[d] # OUTSIDE => Aligned(want[d])
    BY DEF KheapInv
  <1>2. /\ hdr' = IF down THEN Absorb(m1, p, h) ELSE m1
        /\ end' = IF down /\ h = e1 THEN p ELSE e1
        /\ live' = live \ {b} /\ UNCHANGED <<start, kheapSize, pages, seams, want, exhausted>>
    BY DEF kmfree, Flag
  <1>3. h \in DOMAIN hdr /\ HeapSpace' = HeapSpace
    <2>1. h \in DOMAIN hdr
      BY <1>1 DEF LiveRight
    <2>. QED BY <1>2, <2>1 DEF HeapSpace
  <1>. HIDE DEF HeapSpace, h
  <1>4. MemoryRight(m0, start, end, HeapSpace) /\ Flagged(hdr, m0, h, TRUE)
    <2>1. TRUE \in BOOLEAN
      OBVIOUS
    <2>. QED BY <1>1, <1>3, <2>1, FlagKeeps
  <1>. HIDE DEF m0
  <1>5. /\ Kept(hdr, m0, h) /\ m0[h].free /\ h \in DOMAIN m0
        /\ JoinedBeside(m0, h, h, seams)
    <2>1. h \in DOMAIN m0
      BY <1>3, <1>4 DEF Flagged
    <2>. QED BY <1>1, <1>3, <1>4, <2>1, FreeFlag
  <1>6. /\ MemoryRight(m1, start, e1, HeapSpace) /\ h \in DOMAIN m1 /\ m1[h].free
        /\ Kept(hdr, m1, h) /\ JoinedBut(m1, h, seams)
    <2>1. MergedUp(m0, h, end, m1, e1)
      BY DEF MergedUp
    <2>. HIDE DEF m1, e1
    <2>. QED BY <1>4, <1>5, <2>1, FreeUp
  <1>7. /\ MemoryRight(hdr', start, end', HeapSpace) /\ Kept(hdr, hdr', h)
        /\ \A x \in DOMAIN hdr' : Joined(hdr', x, seams)
    <2>1. MergedDown(m1, p, h, e1, hdr', end')
      BY <1>2 DEF MergedDown
    <2>. HIDE DEF m1, e1
    <2>. QED BY <1>6, <2>1, FreeDown
  <1>. HIDE DEF m1, e1
  <1>8. LiveRight(hdr', live')
    <2>1. \A a \in live : a.ptr - HDR \in Int /\ a.ptr \in Int
      <3>1. \A a \in live : a.ptr \in Addr
        BY <1>1, SMTT(30) DEF KheapTypeOK
      <3>2. Addr \subseteq Nat
        BY AddrFinite
      <3>3. \A a \in live : a.ptr \in Nat
        BY <3>1, <3>2
      <3>. QED BY <3>3, HeapAssumption, SMTT(30)
    <2>2. \A a \in live' : a \in live /\ a.ptr - HDR # h
      <3>1. ASSUME NEW a \in live, a.ptr - HDR = h PROVE a = b
        <4>1. a.ptr = b.ptr
          BY <2>1, <3>1, HeapAssumption, SMTT(30) DEF h
        <4>. QED BY <1>1, <4>1 DEF LiveRight
      <3>. QED BY <1>2, <3>1
    <2>3. ASSUME NEW a \in live'
          PROVE  /\ a.ptr - HDR \in DOMAIN hdr' /\ ~hdr'[a.ptr - HDR].free
                 /\ hdr'[a.ptr - HDR].size >= a.size
      <3>1. /\ a.ptr - HDR \in DOMAIN hdr /\ ~hdr[a.ptr - HDR].free
            /\ hdr[a.ptr - HDR].size >= a.size /\ a.ptr - HDR # h
        BY <1>1, <2>2 DEF LiveRight
      <3>. QED BY <1>7, <3>1 DEF Kept
    <2>4. ASSUME NEW x \in DOMAIN hdr', ~hdr'[x].free PROVE \E a \in live' : a.ptr = x + HDR
      <3>1. x \in DOMAIN hdr /\ x # h /\ ~hdr[x].free
        BY <1>7, <2>4 DEF Kept
      <3>2. PICK a \in live : a.ptr = x + HDR
        BY <1>1, <3>1 DEF LiveRight
      <3>3. x \in Nat
        BY <1>1, <3>1, BlockFacts
      <3>4. a.ptr # b.ptr
        BY <2>1, <3>1, <3>2, <3>3, HeapAssumption, SMTT(30) DEF h
      <3>. QED BY <1>2, <3>2, <3>4
    <2>5. \A a, d \in live' : a.ptr = d.ptr => a = d
      BY <1>1, <2>2 DEF LiveRight
    <2>. QED BY <2>3, <2>4, <2>5 DEF LiveRight
  <1>9. KheapTypeOK'
    <2>1. /\ DOMAIN hdr' \subseteq Addr /\ start \in DOMAIN hdr' /\ end' \in DOMAIN hdr'
          /\ \A x \in DOMAIN hdr' : hdr'[x] \in [size : Nat, free : BOOLEAN,
                                         prev : Addr \cup {NULL}, next : Addr \cup {NULL}]
      BY <1>7, MemoryTyped
    <2>. QED BY <1>1, <1>2, <2>1 DEF KheapTypeOK
  <1>. QED BY <1>1, <1>2, <1>3, <1>7, <1>8, <1>9 DEF KheapInv

\* The new block is free, and where it begins two free neighbours may meet.
LEMMA AppendedRight ==
    ASSUME NEW m, NEW s, NEW e, NEW A, MemoryRight(m, s, e, A), NEW l, LiveRight(m, l),
           NEW S, \A x \in DOMAIN m : Joined(m, x, S), NEW newh, NEW size, NEW w,
           Appended(m, w, e, newh, size)
    PROVE  LiveRight(w, l) /\ \A x \in DOMAIN w : Joined(w, x, S \cup {newh})
  <1>1. /\ newh \notin DOMAIN m /\ DOMAIN w = DOMAIN m \cup {newh}
        /\ w[newh].free = TRUE /\ w[newh].next = NULL
        /\ w[e].size = m[e].size /\ w[e].free = m[e].free /\ w[e].next = newh
        /\ \A x \in DOMAIN m : x # e => w[x] = m[x]
    BY DEF Appended
  <1>2. \A x \in DOMAIN m : w[x].size = m[x].size /\ w[x].free = m[x].free
    BY <1>1
  <1>3. LiveRight(w, l)
    <2>1. \A b \in l : /\ b.ptr - HDR \in DOMAIN w /\ ~w[b.ptr - HDR].free
                       /\ w[b.ptr - HDR].size >= b.size
      BY <1>1, <1>2 DEF LiveRight
    <2>2. ASSUME NEW x \in DOMAIN w, ~w[x].free PROVE \E b \in l : b.ptr = x + HDR
      <3>1. x \in DOMAIN m /\ ~m[x].free
        BY <1>1, <1>2, <2>2
      <3>. QED BY <3>1 DEF LiveRight
    <2>. QED BY <2>1, <2>2 DEF LiveRight
  <1>4. ASSUME NEW x \in DOMAIN w PROVE Joined(w, x, S \cup {newh})
    <2>1. CASE x = newh
      BY <1>1, <2>1 DEF Joined
    <2>2. CASE x = e
      BY <1>1, <2>2 DEF Joined
    <2>3. CASE x \in DOMAIN m /\ x # e
      <3>1. w[x] = m[x] /\ Fin(w, x) = Fin(m, x) /\ Joined(m, x, S)
        BY <1>1, <2>3 DEF Fin
      <3>2. m[x].next # NULL => m[x].next \in DOMAIN m
        BY <2>3 DEF MemoryRight, ListRight
      <3>3. m[x].next # NULL => w[m[x].next].free = m[m[x].next].free
        BY <1>2, <3>2
      <3>. QED BY <3>1, <3>3 DEF Joined
    <2>. QED BY <1>1, <2>1, <2>2, <2>3
  <1>. QED BY <1>3, <1>4

\* The memory after an extension by a free run of pages.
LEMMA ExtendAtRight ==
    ASSUME KheapInv, NEW n \in Nat \ {0}, NEW p \in 0 .. NPages - n,
           (p .. p + n - 1) \cap pages = {}, ExtendAt(p, n),
           UNCHANGED <<start, live, want, exhausted>>
    PROVE  /\ KheapInv' /\ hdr'[end'].free /\ hdr'[end'].size = n * PAGE - HDR
           /\ pages \subseteq pages'
  <1>. DEFINE P == p .. p + n - 1
              newh == p * PAGE
              size == n * PAGE - HDR
              B == SpaceOf(P)
  <1>1. /\ KheapTypeOK /\ MemoryRight(hdr, start, end, HeapSpace) /\ LiveRight(hdr, live)
        /\ \A x \in DOMAIN hdr : Joined(hdr, x, seams)
        /\ HeapSpace \subseteq 0 .. NPages * PAGE - 1 /\ kheapSize = Cardinality(HeapSpace)
        /\ \A d \in Clients : want[d] # OUTSIDE => Aligned(want[d])
    BY DEF KheapInv
  <1>2. p \in Nat /\ p + n <= NPages
    BY HeapAssumption, SMTT(30)
  <1>3. /\ newh \in Addr /\ Aligned(newh) /\ size \in Nat /\ Aligned(size)
        /\ P \subseteq 0 .. NPages - 1 /\ B \subseteq 0 .. NPages * PAGE - 1
        /\ \A x \in Int : x \in B <=> newh <= x /\ x < newh + HDR + size
        /\ IsFiniteSet(B) /\ Cardinality(B) = n * PAGE
    BY <1>2, RunFacts
  <1>4. /\ hdr' = Written([hdr EXCEPT ![end].next = newh], newh,
                          [size |-> size, free |-> TRUE, prev |-> end, next |-> NULL])
        /\ end' = newh /\ kheapSize' = kheapSize + n * PAGE
        /\ pages' = pages \cup P /\ seams' = seams \cup {newh}
    BY DEF ExtendAt, PageAddr
  <1>5. pages \subseteq 0 .. NPages - 1 /\ kheapSize \in Nat /\ 0 .. NPages - 1 \subseteq Nat
    <2>1. 0 .. NPages - 1 \subseteq Nat
      BY HeapAssumption, SMTT(30)
    <2>. QED BY <1>1, <2>1 DEF KheapTypeOK
  <1>. HIDE DEF P
  <1>6. HeapSpace \cap B = {} /\ HeapSpace' = HeapSpace \cup B
    <2>1. pages \in SUBSET Nat /\ P \in SUBSET Nat /\ pages \cap P = {}
      BY <1>3, <1>5 DEF P
    <2>2. SpaceOf(pages) \cap B = {} /\ SpaceOf(pages \cup P) = SpaceOf(pages) \cup B
      BY <2>1, SpacesApart
    <2>3. HeapSpace = SpaceOf(pages) /\ HeapSpace' = SpaceOf(pages')
      BY DEF HeapSpace, SpaceOf
    <2>. QED BY <1>4, <2>2, <2>3
  <1>. HIDE DEF newh, size, B, HeapSpace
  <1>7. newh \notin DOMAIN hdr
    <2>1. newh \in B
      <3>1. newh \in Int /\ newh <= newh /\ newh < newh + HDR + size
        <4>1. newh \in Nat
          BY <1>3, AddrFinite
        <4>. QED BY <1>3, <4>1, HeapAssumption, SMTT(30)
      <3>. QED BY <1>3, <3>1
    <2>2. newh \in DOMAIN hdr => newh \in HeapSpace
      BY <1>1, BlockFacts
    <2>. QED BY <1>6, <2>1, <2>2
  <1>8. Appended(hdr, hdr', end, newh, size)
    <2>1. Appended(hdr, Written([hdr EXCEPT ![end].next = newh], newh,
                                [size |-> size, free |-> TRUE, prev |-> end, next |-> NULL]),
                   end, newh, size)
      BY <1>1, <1>3, <1>7, AppendWrites
    <2>. QED BY <1>4, <2>1
  <1>9. MemoryRight(hdr', start', end', HeapSpace')
    <2>1. MemoryRight(hdr', start, newh, HeapSpace \cup B)
      BY <1>1, <1>3, <1>6, <1>8, AppendKeeps
    <2>. QED BY <1>4, <1>6, <2>1
  <1>10. LiveRight(hdr', live') /\ \A x \in DOMAIN hdr' : Joined(hdr', x, seams')
    <2>1. LiveRight(hdr', live) /\ \A x \in DOMAIN hdr' : Joined(hdr', x, seams \cup {newh})
      BY <1>1, <1>8, AppendedRight
    <2>. QED BY <1>4, <2>1
  <1>11. kheapSize' = Cardinality(HeapSpace') /\ kheapSize' \in Nat
    <2>1. 0 \in Int /\ NPages * PAGE - 1 \in Int /\ n * PAGE \in Nat
      BY HeapAssumption, SMTT(30)
    <2>2. IsFiniteSet(HeapSpace)
      BY <1>1, <2>1, FS_Interval, FS_Subset
    <2>3. Cardinality(HeapSpace \cup B)
             = Cardinality(HeapSpace) + Cardinality(B) - Cardinality(HeapSpace \cap B)
      BY <1>3, <2>2, FS_Union
    <2>4. Cardinality(HeapSpace \cap B) = 0
      BY <1>6, FS_EmptySet
    <2>5. Cardinality(HeapSpace \cup B) = kheapSize + n * PAGE - 0
      BY <1>1, <1>3, <2>3, <2>4
    <2>6. kheapSize + n * PAGE - 0 = kheapSize + n * PAGE /\ kheapSize + n * PAGE \in Nat
      BY <1>5, <2>1, SMTT(30)
    <2>. QED BY <1>4, <1>6, <2>5, <2>6
  <1>12. KheapTypeOK'
    <2>1. /\ DOMAIN hdr' \subseteq Addr /\ start' \in DOMAIN hdr' /\ end' \in DOMAIN hdr'
          /\ \A x \in DOMAIN hdr' : hdr'[x] \in [size : Nat, free : BOOLEAN,
                                         prev : Addr \cup {NULL}, next : Addr \cup {NULL}]
      BY <1>9, MemoryTyped
    <2>2. pages' \subseteq 0 .. NPages - 1
      BY <1>3, <1>4, <1>5
    <2>. QED BY <1>1, <1>11, <2>1, <2>2 DEF KheapTypeOK
  <1>13. HeapSpace' \subseteq 0 .. NPages * PAGE - 1
    BY <1>1, <1>3, <1>6
  <1>14. KheapInv'
    BY <1>1, <1>9, <1>10, <1>11, <1>12, <1>13 DEF KheapInv
  <1>15. hdr'[end'].free /\ hdr'[end'].size = size /\ pages \subseteq pages'
    BY <1>4, <1>8 DEF Appended
  <1>. QED BY <1>14, <1>15 DEF size

\* kheap_extend either adds a block that is large enough, or finds no memory.
LEMMA ExtendRight ==
    ASSUME KheapInv, NEW c \in Clients, kheap_extend(c)
    PROVE  /\ KheapInv'
           /\ pages # pages' => /\ pages \subseteq pages' /\ hdr'[end'].free
                                /\ hdr'[end'].size >= want[c]
  <1>. DEFINE n == ExtendPages(want[c])
              runs == {p \in 0 .. NPages - n : (p .. p + n - 1) \cap pages = {}}
  <1>1. want[c] \in Nat
    BY DEF kheap_extend, KheapInv, KheapTypeOK
  <1>2. n \in Nat \ {0} /\ n * PAGE \in Nat /\ n * PAGE >= want[c] + HDR
    BY <1>1, ExtendSize
  <1>3. CASE \E p \in runs : ExtendAt(p, n) /\ UNCHANGED <<start, live, want, exhausted>>
    <2>1. PICK p \in 0 .. NPages - n : /\ (p .. p + n - 1) \cap pages = {} /\ ExtendAt(p, n)
                                       /\ UNCHANGED <<start, live, want, exhausted>>
      BY <1>3
    <2>. HIDE DEF n
    <2>2. /\ KheapInv' /\ hdr'[end'].free /\ hdr'[end'].size = n * PAGE - HDR
          /\ pages \subseteq pages'
      BY <1>2, <2>1, ExtendAtRight
    <2>3. hdr'[end'].size >= want[c]
      BY <1>1, <1>2, <2>2, HeapAssumption, SMTT(30)
    <2>. QED BY <2>2, <2>3
  <1>4. CASE /\ exhausted' = TRUE
             /\ UNCHANGED <<hdr, start, end, kheapSize, pages, seams, live, want>>
    <2>1. HeapSpace' = HeapSpace /\ KheapTypeOK'
      BY <1>4 DEF HeapSpace, KheapInv, KheapTypeOK
    <2>. QED BY <1>4, <2>1 DEF KheapInv
  <1>. QED BY <1>3, <1>4 DEF kheap_extend

\* Every step of the heap keeps the invariant.
LEMMA KheapStep == ASSUME KheapInv, [KheapNext]_kheapVars PROVE KheapInv'
  <1>1. CASE UNCHANGED kheapVars
    <2>1. HeapSpace' = HeapSpace /\ KheapTypeOK'
      BY <1>1 DEF kheapVars, HeapSpace, KheapInv, KheapTypeOK
    <2>. QED BY <1>1, <2>1 DEF kheapVars, KheapInv
  <1>2. ASSUME NEW c \in Clients, NEW size \in Sizes, kmalloc(c, size) PROVE KheapInv'
    BY <1>2, KmallocRight
  <1>3. ASSUME NEW c \in Clients, Take(c) PROVE KheapInv'
    BY <1>3, TakeRight
  <1>4. ASSUME NEW c \in Clients, kheap_extend(c) PROVE KheapInv'
    BY <1>4, ExtendRight
  <1>5. ASSUME NEW b \in live, kmfree(b) PROVE KheapInv'
    BY <1>5, KmfreeRight
  <1>. QED BY <1>1, <1>2, <1>3, <1>4, <1>5 DEF KheapNext

\* The inductive invariant of the heap holds in every reachable state.
THEOREM KheapInvariant == KheapSpec => []KheapInv
  <1>1. KheapInit => KheapInv
    BY KheapInitRight
  <1>2. KheapInv /\ [KheapNext]_kheapVars => KheapInv'
    BY KheapStep
  <1>. QED BY <1>1, <1>2, PTL DEF KheapSpec

\* kmalloc and kmfree (kheap.c:64-121) keep the block list a doubly linked list of all
\* blocks that ends at `end', the blocks tile the heap's pages, what callers hold is backed
\* by one block each, large enough and aligned, and free neighbours have been joined.
THEOREM KheapHeapSound == KheapSpec => []HeapSound
  <1>1. KheapInv => HeapSound
    BY KheapInvSound
  <1>. QED BY <1>1, KheapInvariant, PTL

\* kheap_extend is called only for a request that no free block can hold, and the block
\* it adds can hold it; pages are never given back.
THEOREM KheapGrowsOnlyWhenNeeded == KheapSpec => GrowsOnlyWhenNeeded
  <1>. DEFINE Needed == pages # pages' =>
                  /\ pages \subseteq pages'
                  /\ \E c \in Clients : want[c] # OUTSIDE
                        /\ \A h \in DOMAIN hdr : hdr[h].free => hdr[h].size < want[c]
                        /\ hdr'[end'].free /\ hdr'[end'].size >= want[c]
  <1>1. ASSUME KheapInv, [KheapNext]_kheapVars PROVE [Needed]_kheapVars
    <2>1. CASE UNCHANGED kheapVars
      BY <2>1
    <2>2. ASSUME NEW c \in Clients, kheap_extend(c) PROVE Needed
      <3>1. pages # pages' => /\ pages \subseteq pages' /\ hdr'[end'].free
                              /\ hdr'[end'].size >= want[c]
        BY <1>1, <2>2, ExtendRight
      <3>2. want[c] # OUTSIDE /\ want[c] \in Nat /\ Search(want[c]) = NULL
        BY <1>1, <2>2 DEF kheap_extend, KheapInv, KheapTypeOK
      <3>3. \A h \in DOMAIN hdr : ~Fits(h, want[c])
        BY <1>1, <3>2, SearchFinds DEF KheapInv
      <3>4. ASSUME NEW h \in DOMAIN hdr, hdr[h].free PROVE hdr[h].size < want[c]
        <4>1. ~(hdr[h].size >= want[c])
          BY <3>3, <3>4 DEF Fits
        <4>2. hdr[h].size \in Nat
          BY <1>1, BlockFacts DEF KheapInv
        <4>. QED BY <3>2, <4>1, <4>2, SMTT(30)
      <3>. QED BY <3>1, <3>2, <3>4
    <2>3. ASSUME NEW c \in Clients, NEW size \in Sizes, kmalloc(c, size) PROVE Needed
      BY <2>3 DEF kmalloc
    <2>4. ASSUME NEW c \in Clients, Take(c) PROVE Needed
      BY <2>4 DEF Take
    <2>5. ASSUME NEW b \in live, kmfree(b) PROVE Needed
      BY <2>5 DEF kmfree
    <2>. QED BY <1>1, <2>1, <2>2, <2>3, <2>4, <2>5 DEF KheapNext
  <1>. QED BY <1>1, KheapInvariant, PTL DEF KheapSpec, GrowsOnlyWhenNeeded
=============================================================================

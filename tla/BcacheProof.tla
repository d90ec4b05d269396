---------------------------- MODULE BcacheProof ----------------------------
(***************************************************************************)
(* Proofs about the buffer cache of Bcache, for every number of buffers,   *)
(* callers and blocks.                                                     *)
(*                                                                         *)
(* RefInv ties the reference counts to the pointers that callers hold and  *)
(* to the buffer being loaded.  ListInv says that the links describe an    *)
(* order of all buffers until the tail is released in place; that a walk   *)
(* along the links follows the order is shown by induction over its steps. *)
(***************************************************************************)
EXTENDS Bcache, Induction, FiniteSetTheorems, SequenceTheorems

\* A leaf that names no backend is one for Zenon; SMTT marks those that need more theory.
USE ZenonT(30)

\* A search of the list ends at a buffer of the set searched for, or at none.
LEMMA FirstOfIn == ASSUME NEW S PROVE FirstOf(S) \in S \cup {NIL}
  <1>. DEFINE hits == {n \in 1 .. N+1 : n <= Len(Walk) /\ Walk[n] \in S}
  <1>1. hits \in SUBSET Nat
    BY BcacheAssumption, SMTT(30)
  <1>2. ASSUME hits # {} PROVE Min(hits) \in hits
    BY <1>1, <1>2, MinExists DEF Min
  <1>. QED BY <1>2 DEF FirstOf

\* Finitely many pointers refer to a buffer.
LEMMA HoldersFinite == \A i : IsFiniteSet(Holders(i)) /\ Cardinality(Holders(i)) \in Nat
  <1>1. IsFiniteSet(Pointers)
    BY BcacheAssumption, FS_Interval, SMTT(30) DEF Pointers
  <1>2. IsFiniteSet(Callers \X Pointers)
    BY <1>1, BcacheAssumption, FS_Product
  <1>. QED BY <1>2, FS_Subset, FS_CardinalityType DEF Holders

\* The pointers are null or refer to a buffer.
HeldType == held \in [Callers -> [Pointers -> Bufs \cup {NIL}]]

\* A pointer that bcache_get returns adds one holder to its buffer and none to the
\* others.
LEMMA GiveAdds ==
    ASSUME HeldType, NEW c \in Callers, Unused(c) # {}, NEW i \in Bufs, Give(c, i)
    PROVE  /\ HeldType'
           /\ \A j \in Bufs : /\ IsFiniteSet(Holders(j)')
                              /\ Cardinality(Holders(j)') =
                                    Cardinality(Holders(j)) + (IF j = i THEN 1 ELSE 0)
           /\ \A d \in Callers, k \in Pointers : held'[d][k] \in {held[d][k], i}
  <1>. DEFINE m == CHOOSE k \in Unused(c) : TRUE
              u == <<c, m>>
  <1>1. m \in Pointers /\ held[c][m] = NIL
    BY DEF Unused
  <1>2. held' = [held EXCEPT ![c][m] = i]
    BY DEF Give
  <1>. HIDE DEF m
  <1>3. HeldType'
    BY <1>1, <1>2 DEF HeldType
  <1>4. NIL \notin Bufs
    BY SMTT(30) DEF NIL, Bufs
  <1>5. ASSUME NEW d \in Callers, NEW k \in Pointers
        PROVE  held'[d][k] = IF <<d, k>> = u THEN i ELSE held[d][k]
    BY <1>1, <1>2 DEF HeldType
  <1>6. \A j \in Bufs : j # i => Holders(j)' = Holders(j)
    BY <1>1, <1>4, <1>5 DEF Holders
  <1>7. Holders(i)' = Holders(i) \cup {u} /\ u \notin Holders(i)
    BY <1>1, <1>4, <1>5, SMTT(30) DEF Holders
  <1>8. IsFiniteSet(Holders(i)') /\ Cardinality(Holders(i)') = Cardinality(Holders(i)) + 1
    <2>. DEFINE H == Holders(i)
    <2>1. IsFiniteSet(H) /\ u \notin H
      BY <1>7, HoldersFinite
    <2>2. IsFiniteSet(H \cup {u}) /\ Cardinality(H \cup {u}) = Cardinality(H) + 1
      <3>. HIDE DEF H, u
      <3>. QED BY <2>1, FS_AddElement
    <2>. QED BY <1>7, <2>2
  <1>9. \A d \in Callers, k \in Pointers : held'[d][k] \in {held[d][k], i}
    BY <1>5
  <1>10. \A j \in Bufs : /\ IsFiniteSet(Holders(j)')
                         /\ Cardinality(Holders(j)') =
                                    Cardinality(Holders(j)) + (IF j = i THEN 1 ELSE 0)
    BY <1>6, <1>8, HoldersFinite, SMTT(30)
  <1>. QED BY <1>3, <1>9, <1>10

\* The invariant of the reference counts: the caller inside bcache_get has room for
\* the pointer, nobody else has one to the buffer it loads, and what is held is valid.
RefInv ==
    /\ HeldType
    /\ valid \in [Bufs -> BOOLEAN] /\ refCount \in [Bufs -> Nat]
    /\ block \in [Bufs -> Blocks \cup DeadBlocks \cup {NULL}]
    /\ loaded \in [Bufs -> BOOLEAN]
    /\ lock \in Callers \cup {NULL} /\ loading \in Bufs \cup {NIL}
    /\ lock = NULL <=> loading = NIL
    /\ lock # NULL => Unused(lock) # {} /\ Holders(loading) = {} /\ valid[loading]
    /\ \A c \in Callers, k \in Pointers : held[c][k] # NIL => valid[held[c][k]]
    /\ RefCountExact

\* A released pointer takes one holder from its buffer and none from the others.
LEMMA ReleaseRemoves ==
    ASSUME HeldType, NEW c \in Callers, NEW k \in Pointers, NEW i \in Bufs, held[c][k] = i,
           held' = [held EXCEPT ![c][k] = NIL]
    PROVE  /\ HeldType'
           /\ \A j \in Bufs : Cardinality(Holders(j)') =
                                 Cardinality(Holders(j)) - (IF j = i THEN 1 ELSE 0)
           /\ \A d \in Callers, l \in Pointers :
                 held'[d][l] \in {held[d][l], NIL}
           /\ Cardinality(Holders(i)) > 0
  <1>. DEFINE u == <<c, k>>
  <1>1. HeldType'
    BY DEF HeldType
  <1>4. NIL \notin Bufs /\ i \in Bufs
    BY SMTT(30) DEF NIL, Bufs, HeldType
  <1>5. ASSUME NEW d \in Callers, NEW l \in Pointers
        PROVE  held'[d][l] = IF <<d, l>> = u THEN NIL ELSE held[d][l]
    BY DEF HeldType
  <1>6. \A j \in Bufs : j # i => Holders(j)' = Holders(j)
    BY <1>4, <1>5, SMTT(30) DEF Holders
  <1>7. {v \in Callers \X Pointers : held'[v[1]][v[2]] = i} = Holders(i) \ {u} /\ u \in Holders(i)
    BY <1>4, <1>5, SMTT(30) DEF Holders
  <1>8. Cardinality(Holders(i) \ {u}) = Cardinality(Holders(i)) - 1 /\ Cardinality(Holders(i)) > 0
    <2>. DEFINE H == Holders(i)
    <2>1. IsFiniteSet(H) /\ u \in H /\ Cardinality(H) \in Nat
      BY <1>7, HoldersFinite
    <2>2. Cardinality(H \ {u}) = Cardinality(H) - 1 /\ Cardinality(H) # 0
      <3>. HIDE DEF H, u
      <3>. QED BY <2>1, FS_RemoveElement, FS_EmptySet
    <2>. QED BY <2>1, <2>2, SMTT(30)
  <1>9. ASSUME NEW j \in Bufs
        PROVE  Cardinality(Holders(j)') = Cardinality(Holders(j)) - (IF j = i THEN 1 ELSE 0)
    <2>1. CASE j = i
      <3>1. Holders(j)' = Holders(i) \ {u}
        BY <1>7, <2>1 DEF Holders
      <3>. QED BY <3>1, <2>1, <1>8
    <2>2. CASE j # i
      BY <2>2, <1>6, HoldersFinite, SMTT(30)
    <2>. QED BY <2>1, <2>2
  <1>. QED BY <1>1, <1>5, <1>8, <1>9, SMTT(30)

\* bcache_get, the end of a read and bcache_release preserve the counts.
LEMMA RefStep == ASSUME RefInv, Next PROVE RefInv'
  <1>0. NIL \notin Bufs /\ NULL \notin Callers
    BY BcacheAssumption, SMTT(30) DEF NIL, Bufs
  <1>1. ASSUME NEW c \in Callers, NEW b \in Blocks \cup DeadBlocks, bcache_get(c, b)
        PROVE  RefInv'
    <2>. DEFINE hit == FirstOf({i \in Bufs : Holds(i, b)})
                free == FirstOf({i \in Bufs : Available(i)})
    <2>1. /\ hit \in {i \in Bufs : Holds(i, b)} \cup {NIL}
          /\ free \in {i \in Bufs : Available(i)} \cup {NIL}
      BY FirstOfIn
    <2>2. CASE hit # NIL
      <3>1. /\ hit \in Bufs /\ valid[hit]
            /\ refCount' = [refCount EXCEPT ![hit] = @ + 1] /\ Give(c, hit)
            /\ UNCHANGED <<valid, block, loaded, lock, loading>> /\ lock = NULL
            /\ Unused(c) # {}
        BY <1>1, <2>1, <2>2 DEF bcache_get, Holds
      <3>. HIDE DEF hit
      <3>2. RefCountExact'
        BY <3>1, GiveAdds, HoldersFinite, SMTT(30) DEF RefInv, RefCountExact, Users
      <3>. QED BY <1>0, <3>1, <3>2, GiveAdds, SMTT(30) DEF RefInv
    <2>3. CASE hit = NIL /\ free # NIL /\ Len(Walk) <= N
      <3>1. /\ free \in Bufs /\ refCount[free] = 0
            /\ refCount' = [refCount EXCEPT ![free] = @ + 1]
            /\ block' = [block EXCEPT ![free] = b] /\ valid' = [valid EXCEPT ![free] = TRUE]
            /\ loaded' = [loaded EXCEPT ![free] = FALSE]
            /\ lock' = c /\ loading' = free /\ held' = held /\ lock = NULL /\ Unused(c) # {}
        BY <1>1, <2>1, <2>3 DEF bcache_get, Available
      <3>. HIDE DEF free, hit
      <3>2. Holders(free) = {}
        BY <1>0, <3>1, HoldersFinite, FS_EmptySet, SMTT(30) DEF RefInv, RefCountExact, Users
      <3>3. \A i : Holders(i)' = Holders(i)
        BY <3>1 DEF Holders
      <3>4. RefCountExact'
        BY <1>0, <3>1, <3>3, HoldersFinite, SMTT(30) DEF RefInv, RefCountExact, Users
      <3>5. Unused(lock)' # {} /\ Holders(loading)' = {}
        BY <3>1, <3>2 DEF Unused, Holders
      <3>. QED BY <1>0, <3>1, <3>4, <3>5, SMTT(30) DEF RefInv, HeldType
    <2>4. CASE hit = NIL /\ ~(free # NIL /\ Len(Walk) <= N)
      <3>1. UNCHANGED <<valid, refCount, block, loaded, lock, loading, held>>
        BY <1>1, <2>4 DEF bcache_get
      <3>. QED BY <3>1, SMTT(30) DEF RefInv, HeldType, RefCountExact, Users, Holders, Unused
    <2>. QED BY <2>2, <2>3, <2>4
  <1>2. ASSUME NEW c \in Callers, LoadDone(c) PROVE RefInv'
    <2>1. /\ lock = c /\ loading \in Bufs /\ Unused(c) # {} /\ valid[loading] /\ Give(c, loading)
          /\ lock' = NULL /\ loading' = NIL
          /\ UNCHANGED <<valid, refCount, block>>
      BY <1>0, <1>2 DEF LoadDone, RefInv
    <2>2. RefCountExact'
      BY <1>0, <2>1, GiveAdds, HoldersFinite, SMTT(30) DEF RefInv, RefCountExact, Users
    <2>3. loaded' \in [Bufs -> BOOLEAN]
      BY <1>2 DEF LoadDone, RefInv
    <2>. QED BY <1>0, <2>1, <2>2, <2>3, GiveAdds, SMTT(30) DEF RefInv
  <1>3. ASSUME NEW c \in Callers, LoadImpossible(c) PROVE RefInv'
    <2>1. \A i : Holders(i)' = Holders(i)
      BY <1>3 DEF LoadImpossible, Holders
    <2>2. loading \in Bufs /\ Holders(loading) = {}
      BY <1>0, <1>3 DEF LoadImpossible, RefInv
    <2>3. RefCountExact'
      BY <1>0, <1>3, <2>1, <2>2, HoldersFinite, FS_EmptySet, SMTT(30)
      DEF LoadImpossible, RefInv, RefCountExact, Users
    <2>4. \A d \in Callers, k \in Pointers : held[d][k] # loading
      <3>. SUFFICES ASSUME NEW d \in Callers, NEW k \in Pointers, held[d][k] = loading
                    PROVE  <<d, k>> \in Holders(loading)
        BY <2>2
      <3>. QED BY DEF Holders
    <2>5. \A d \in Callers, k \in Pointers : held'[d][k] # NIL => valid'[held'[d][k]]
      BY <1>3, <2>4, <2>2, SMTT(30) DEF LoadImpossible, RefInv, HeldType
    <2>. QED BY <1>0, <1>3, <2>2, <2>3, <2>5 DEF LoadImpossible, RefInv, HeldType
  <1>4. ASSUME NEW c \in Callers, NEW k \in Pointers, bcache_release(c, k) PROVE RefInv'
    <2>0. held[c][k] \in Bufs
      BY <1>4, SMTT(30) DEF bcache_release, RefInv, HeldType
    <2>b. PICK b \in Bufs : b = held[c][k]
      BY <2>0
    <2>1. /\ held[c][k] # NIL /\ held' = [held EXCEPT ![c][k] = NIL] /\ lock = NULL
          /\ loading = NIL /\ refCount' = [refCount EXCEPT ![b] = @ - 1]
          /\ UNCHANGED <<block, loaded, lock, loading>>
          /\ IF refCount[b] = 1 THEN valid' = [valid EXCEPT ![b] = FALSE] ELSE UNCHANGED valid
      BY <1>4, <2>b DEF bcache_release, RefInv, HeldType
    <2>2. /\ HeldType'
          /\ \A j \in Bufs : Cardinality(Holders(j)') =
                                Cardinality(Holders(j)) - (IF j = b THEN 1 ELSE 0)
          /\ \A d \in Callers, l \in Pointers : held'[d][l] \in {held[d][l], NIL}
          /\ Cardinality(Holders(b)) > 0
      <3>1. HeldType /\ held[c][k] = b /\ held' = [held EXCEPT ![c][k] = NIL]
        BY <2>b, <2>1 DEF RefInv
      <3>. QED BY <3>1, ReleaseRemoves
    <2>3. \A j \in Bufs : refCount[j] = Cardinality(Holders(j)) /\ Cardinality(Holders(j)) \in Nat
      BY <1>0, <2>1, HoldersFinite, SMTT(30) DEF RefInv, RefCountExact, Users
    <2>4. \A j \in Bufs : refCount'[j] = Cardinality(Holders(j)')
      BY <2>1, <2>2, <2>3, SMTT(30) DEF RefInv
    <2>5. RefCountExact'
      BY <1>0, <2>1, <2>2, <2>3, <2>4, SMTT(30) DEF RefCountExact, Users, RefInv
    <2>6. ASSUME refCount[b] = 1, NEW d \in Callers, NEW l \in Pointers PROVE held'[d][l] # b
      <3>1. Cardinality(Holders(b)') = 0
        BY <2>2, <2>3, <2>6, SMTT(30)
      <3>2. IsFiniteSet(Holders(b)')
        <4>1. IsFiniteSet(Pointers)
          BY BcacheAssumption, FS_Interval, SMTT(30) DEF Pointers
        <4>2. IsFiniteSet(Callers \X Pointers)
          BY <4>1, BcacheAssumption, FS_Product
        <4>. QED BY <4>2, FS_Subset DEF Holders
      <3>3. Holders(b)' = {}
        BY <3>1, <3>2, FS_EmptySet
      <3>4. <<d, l>> \in Callers \X Pointers /\ <<d, l>> \notin Holders(b)'
        BY <3>3
      <3>. QED BY <3>4 DEF Holders
    <2>7. \A d \in Callers, l \in Pointers : held'[d][l] # NIL => valid'[held'[d][l]]
      BY <1>0, <2>b, <2>1, <2>2, <2>6, SMTT(30) DEF RefInv, HeldType
    <2>8. valid' \in [Bufs -> BOOLEAN] /\ refCount' \in [Bufs -> Nat]
      <3>1. valid' \in [Bufs -> BOOLEAN]
        BY <2>1 DEF RefInv
      <3>2. refCount[b] - 1 \in Nat
        BY <2>2, <2>3, SMTT(30)
      <3>. QED BY <3>1, <3>2, <2>1 DEF RefInv
    <2>. QED BY <1>0, <2>1, <2>2, <2>5, <2>7, <2>8 DEF RefInv
  <1>. QED BY <1>1, <1>2, <1>3, <1>4 DEF Next

\* After bcache_init nobody holds a buffer.
LEMMA RefInit == Init => RefInv
  <1>. SUFFICES ASSUME Init PROVE RefInv
    OBVIOUS
  <1>1. HeldType /\ \A c \in Callers, k \in Pointers : held[c][k] = NIL
    BY DEF Init, HeldType
  <1>2. \A i \in Bufs : i # NIL
    BY SMTT(30) DEF Bufs, NIL
  <1>3. \A i \in Bufs : Holders(i) = {}
    BY <1>1, <1>2 DEF Holders
  <1>4. \A i \in Bufs : Users(i) = 0
    BY <1>2, <1>3, FS_EmptySet, SMTT(30) DEF Users, Init
  <1>5. RefCountExact
    BY <1>4 DEF RefCountExact, Init
  <1>6. valid \in [Bufs -> BOOLEAN] /\ loaded \in [Bufs -> BOOLEAN]
    BY DEF Init
  <1>. QED BY <1>1, <1>5, <1>6 DEF RefInv, Init

\* The invariant of the reference counts holds in every reachable state.
THEOREM BcacheRefInvariant == Spec => []RefInv
  <1>1. RefInv /\ [Next]_vars => RefInv'
    <2>1. RefInv /\ UNCHANGED vars => RefInv'
      BY SMTT(30) DEF RefInv, HeldType, RefCountExact, Users, Holders, Unused, vars
    <2>. QED BY <2>1, RefStep
  <1>. QED BY <1>1, RefInit, PTL DEF Spec

\* The reference count of a buffer is the number of its users, on every path through
\* bcache_get and bcache_release.
THEOREM BcacheRefCountExact == Spec => []RefCountExact
  <1>1. RefInv => RefCountExact
    BY DEF RefInv
  <1>. QED BY <1>1, BcacheRefInvariant, PTL

\* No bcache_get takes over a buffer that a caller holds, and no release forgets its
\* block.
THEOREM BcacheHeldStays == Spec => HeldStays
  <1>. DEFINE Stays == \A c \in Callers, k \in Pointers :
                          LET i == held[c][k]
                          IN  i # NIL /\ held'[c][k] = i =>
                                  block'[i] = block[i] /\ loaded'[i] = loaded[i] /\ valid'[i]
  <1>1. RefInv /\ RefInv' /\ Next => Stays
    <2>. SUFFICES ASSUME RefInv, RefInv', Next, NEW c \in Callers, NEW k \in Pointers,
                         NEW i \in Bufs, held[c][k] = i, held'[c][k] = i, i # NIL
                  PROVE  block'[i] = block[i] /\ loaded'[i] = loaded[i] /\ valid'[i]
      BY SMTT(30) DEF RefInv, HeldType
    <2>1. valid'[i]
      BY SMTT(30) DEF RefInv
    <2>2. <<c, k>> \in Holders(i)
      BY DEF Holders
    <2>3. refCount[i] # 0
      BY <2>2, HoldersFinite, FS_EmptySet, SMTT(30) DEF RefInv, RefCountExact, Users
    <2>4. lock # NULL => loading # i
      BY <2>2 DEF RefInv
    <2>5. ASSUME NEW d \in Callers, NEW b \in Blocks \cup DeadBlocks, bcache_get(d, b)
          PROVE  block'[i] = block[i] /\ loaded'[i] = loaded[i]
      <3>. DEFINE hit == FirstOf({j \in Bufs : Holds(j, b)})
                  free == FirstOf({j \in Bufs : Available(j)})
      <3>1. free \in {j \in Bufs : Available(j)} \cup {NIL}
        BY FirstOfIn
      <3>2. CASE hit = NIL /\ free # NIL /\ Len(Walk) <= N
        <4>1. free # i
          BY <2>3, <3>1 DEF Available
        <4>2. /\ block' = [block EXCEPT ![free] = b]
              /\ loaded' = [loaded EXCEPT ![free] = FALSE]
          BY <2>5, <3>2 DEF bcache_get
        <4>. HIDE DEF free
        <4>. QED BY <4>1, <4>2 DEF RefInv
      <3>3. CASE ~(hit = NIL /\ free # NIL /\ Len(Walk) <= N)
        <4>1. UNCHANGED <<block, loaded>>
          BY <2>5, <3>3 DEF bcache_get
        <4>. QED BY <4>1
      <3>. QED BY <3>2, <3>3
    <2>6. ASSUME NEW d \in Callers, LoadDone(d) \/ LoadImpossible(d)
          PROVE  block'[i] = block[i] /\ loaded'[i] = loaded[i]
      BY <2>4, <2>6, BcacheAssumption, SMTT(30) DEF LoadDone, LoadImpossible, RefInv
    <2>7. ASSUME NEW d \in Callers, NEW l \in Pointers, bcache_release(d, l)
          PROVE  block'[i] = block[i] /\ loaded'[i] = loaded[i]
      BY <2>7 DEF bcache_release
    <2>. QED BY <2>1, <2>5, <2>6, <2>7 DEF Next
  <1>2. RefInv /\ RefInv' /\ [Next]_vars => [Stays]_vars
    BY <1>1
  <1>. QED BY <1>2, BcacheRefInvariant, PTL DEF Spec, HeldStays

-----------------------------------------------------------------------------
(* The list *)

\* The links lead to buffers, also after the tail has been released in place: only the
\* tail has no successor, so that the head moves on to a buffer.
LinkTypes ==
    /\ next \in [Bufs -> Bufs \cup {NIL}] /\ prev \in [Bufs -> Bufs \cup {NIL}]
    /\ head \in Bufs /\ tail \in Bufs
    /\ \A i \in Bufs : next[i] = NIL => i = tail

\* The links follow the order s of all buffers.
Order(s) ==
    /\ \A m, n \in 1..N : s[m] = s[n] => m = n
    /\ \A i \in Bufs : \E n \in 1..N : s[n] = i
    /\ head = s[1] /\ tail = s[N]
    /\ \A n \in 1..N : next[s[n]] = IF n = N THEN NIL ELSE s[n+1]
    /\ \A n \in 1..N : prev[s[n]] = IF n = 1 THEN NIL ELSE s[n-1]

\* A walk stays among the buffers.
LEMMA LongerType ==
    ASSUME LinkTypes, NEW q \in Seq(Bufs), q # <<>>
    PROVE  Longer(q) \in Seq(Bufs) /\ Longer(q) # <<>>
  <1>1. q[Len(q)] \in Bufs
    BY LenProperties, EmptySeq, SMTT(30)
  <1>. QED BY <1>1, AppendProperties, SMTT(30) DEF LinkTypes, Longer

\* The walk from the head is made of N steps along the links.
LEMMA WalkSteps ==
    ASSUME LinkTypes
    PROVE  \E w : /\ w[0] = <<head>>
                  /\ \A n \in 1..N : w[n] = Longer(w[n-1])
                  /\ Walk = w[N]
  <1>. DEFINE S == {q \in Seq(Bufs) : q # <<>>}
              w[n \in 0..N] ==
                  IF n = 0 THEN <<head>>
                  ELSE Longer(w[n-1])
              G == [q \in S |-> Longer(q)]
  <1>1. <<head>> \in S /\ G \in [S -> S] /\ N \in Nat
    BY LongerType, BcacheAssumption, SMTT(30) DEF LinkTypes
  <1>. HIDE DEF S
  <1>2. PICK f \in [0..N -> S] : Iterates(f, N, <<head>>, G)
    BY <1>1, IterationExists
  <1>3. ASSUME NEW i \in 1..N PROVE f[i] = Longer(f[i-1])
    <2>1. i - 1 \in 0..N /\ f[i - 1] \in S
      BY <1>1, SMTT(30)
    <2>. QED BY <1>2, <2>1 DEF Iterates
  <1>4. f = [n \in 0..N |-> IF n = 0 THEN <<head>>
                  ELSE Longer(f[n-1])]
    BY <1>1, <1>2, <1>3, SMTT(30) DEF Iterates
  <1>5. w = [n \in 0..N |-> IF n = 0 THEN <<head>>
                  ELSE Longer(w[n-1])]
    BY <1>4
  <1>6. Walk = w[N]
    BY DEF Walk
  <1>. HIDE DEF w
  <1>7. w[0] = <<head>> /\ \A n \in 1..N : w[n] = Longer(w[n-1])
    BY <1>1, <1>5, SMTT(30)
  <1>. QED BY <1>6, <1>7

\* The walk visits the buffers in their order, each once; by induction over its steps.
LEMMA WalkIs ==
    ASSUME LinkTypes, NEW s \in [1..N -> Bufs], Order(s)
    PROVE  Walk \in Seq(Bufs) /\ Len(Walk) = N /\ \A n \in 1..N : Walk[n] = s[n]
  <1>. DEFINE Min2(n) == IF n + 1 < N THEN n + 1 ELSE N
              Prefix(q, n) == /\ q \in Seq(Bufs) /\ Len(q) = Min2(n)
                              /\ \A k \in 1 .. Min2(n) : q[k] = s[k]
  <1>1. PICK w : /\ w[0] = <<head>> /\ \A n \in 1..N : w[n] = Longer(w[n-1])
                 /\ Walk = w[N]
    BY WalkSteps
  <1>. DEFINE M == {n \in Nat : n <= N => Prefix(w[n], n)}
  <1>2. 0 \in M
    <2>1. Min2(0) = 1 /\ s[1] = head /\ head \in Bufs
      BY BcacheAssumption, SMTT(30) DEF LinkTypes, Order
    <2>2. w[0] \in Seq(Bufs) /\ Len(w[0]) = 1 /\ w[0][1] = head
      BY <1>1, <2>1, SMTT(30)
    <2>3. \A k \in 1 .. Min2(0) : w[0][k] = s[k]
      <3>. HIDE DEF Min2
      <3>. QED BY <2>1, <2>2, SMTT(30)
    <2>4. Prefix(w[0], 0)
      <3>. HIDE DEF Min2
      <3>. QED BY <2>1, <2>2, <2>3
    <2>. HIDE DEF Prefix
    <2>. QED BY <2>4
  <1>3. ASSUME NEW n \in Nat, n \in M PROVE n + 1 \in M
    <2>. SUFFICES ASSUME n + 1 <= N PROVE Prefix(w[n+1], n+1)
      BY SMTT(30)
    <2>1. Prefix(w[n], n) /\ w[n+1] = Longer(w[n])
      BY <1>1, <1>3, BcacheAssumption, SMTT(30)
    <2>2. CASE n + 1 = N
      <3>1. w[n][Len(w[n])] = s[N] /\ next[s[N]] = NIL
        BY <2>1, <2>2, BcacheAssumption, SMTT(30) DEF Order
      <3>. QED BY <2>1, <2>2, <3>1, SMTT(30) DEF Longer
    <2>3. CASE n + 1 < N
      <3>1. w[n][Len(w[n])] = s[n+1] /\ next[s[n+1]] = s[n+2] /\ s[n+2] \in Bufs
        BY <2>1, <2>3, BcacheAssumption, SMTT(30) DEF Order
      <3>2. w[n+1] = Append(w[n], s[n+2])
        BY <2>1, <3>1, SMTT(30) DEF Longer, Bufs, NIL
      <3>3. /\ w[n+1] \in Seq(Bufs) /\ Len(w[n+1]) = n + 2
            /\ \A k \in 1 .. n+1 : w[n+1][k] = s[k]
            /\ w[n+1][n+2] = s[n+2]
        BY <2>1, <2>3, <3>1, <3>2, AppendProperties, SMTT(30)
      <3>4. Min2(n+1) = n + 2 /\ \A k \in 1 .. n+2 : k \in 1 .. n+1 \/ k = n + 2
        BY <2>3, BcacheAssumption, SMTT(30)
      <3>. QED BY <3>3, <3>4
    <2>. QED BY <2>2, <2>3, BcacheAssumption, SMTT(30)
  <1>. HIDE DEF M
  <1>4. N \in M
    BY <1>2, <1>3, SetInduction, BcacheAssumption
  <1>. QED BY <1>1, <1>4, BcacheAssumption, SMTT(30) DEF M

\* A search that finds nothing has seen every buffer.
LEMMA FirstOfNil ==
    ASSUME LinkTypes, NEW s \in [1..N -> Bufs], Order(s), NEW S \in SUBSET Bufs,
           FirstOf(S) = NIL
    PROVE  S = {}
  <1>. DEFINE hits == {n \in 1 .. N+1 : n <= Len(Walk) /\ Walk[n] \in S}
  <1>1. hits = {}
    <2>. SUFFICES ASSUME hits # {} PROVE FALSE
      OBVIOUS
    <2>1. Min(hits) \in hits
      <3>1. hits \in SUBSET Nat
        BY BcacheAssumption, SMTT(30)
      <3>. HIDE DEF hits
      <3>. QED BY <3>1, MinExists DEF Min
    <2>2. FirstOf(S) = Walk[Min(hits)]
      BY DEF FirstOf
    <2>. QED BY <2>1, <2>2, SMTT(30) DEF Bufs, NIL
  <1>2. \A n \in 1..N : s[n] \notin S
    <2>. SUFFICES ASSUME NEW n \in 1..N, s[n] \in S PROVE n \in hits
      BY <1>1
    <2>. QED BY WalkIs, BcacheAssumption, SMTT(30)
  <1>. QED BY <1>2, SMTT(30) DEF Order

\* The pointer assignments of bcache_release take a buffer that is not the tail out of
\* the order and put it at the end.
LEMMA MoveKeepsOrder ==
    ASSUME LinkTypes, NEW s \in [1..N -> Bufs], Order(s), NEW b \in Bufs, b # tail,
           MoveToTail(b)
    PROVE  \E t \in [1..N -> Bufs] : Order(t)'
  <1>0. N \in Nat \ {0} /\ NIL \notin Bufs
    BY BcacheAssumption, SMTT(30) DEF Bufs, NIL
  <1>1. PICK m \in 1..N : s[m] = b
    BY DEF Order
  <1>2. m # N
    BY <1>0, <1>1 DEF Order
  <1>d. \A p, q \in 1..N : p # q => s[p] # s[q]
    BY DEF Order
  <1>l. /\ \A n \in 1..N : n # N => n + 1 \in 1..N /\ next[s[n]] = s[n+1]
        /\ \A n \in 1..N : n # 1 => n - 1 \in 1..N /\ prev[s[n]] = s[n-1]
        /\ next[s[N]] = NIL /\ prev[s[1]] = NIL /\ head = s[1] /\ tail = s[N]
        /\ N \in 1..N /\ 1 \in 1..N
    BY <1>0, SMTT(30) DEF Order
  <1>. DEFINE t == [n \in 1..N |-> IF n < m THEN s[n] ELSE IF n < N THEN s[n+1] ELSE b]
  <1>3. t \in [1..N -> Bufs]
    BY <1>0, <1>1, SMTT(30)
  <1>4. /\ next' = [i \in Bufs |-> IF i = b THEN NIL ELSE
                                    IF m > 1 /\ i = s[m-1] THEN s[m+1] ELSE
                                    IF i = tail THEN b ELSE next[i]]
        /\ prev' = [i \in Bufs |-> IF i = b THEN tail ELSE
                                    IF i = s[m+1] THEN prev[b] ELSE prev[i]]
        /\ head' = IF m = 1 THEN s[2] ELSE head
        /\ tail' = b
    <2>a. /\ m + 1 \in 1..N /\ m # m + 1
          /\ m > 1 => m - 1 \in 1..N /\ m - 1 # m /\ m - 1 # N /\ m - 1 # m + 1
      BY <1>0, <1>1, <1>2, SMTT(30)
    <2>b. /\ next[b] = s[m+1] /\ s[m+1] \in Bufs /\ s[m+1] # b /\ s[m+1] # NIL
          /\ m = 1 => prev[b] = NIL /\ head = b
      <3>1. s[m+1] \in Bufs /\ s[m+1] # b /\ s[m+1] # NIL
        BY <1>0, <1>1, <1>d, <2>a
      <3>2. next[b] = s[m+1]
        BY <1>1, <1>2, <1>l
      <3>3. m = 1 => prev[b] = NIL /\ head = b
        BY <1>1, <1>l
      <3>. QED BY <3>1, <3>2, <3>3
    <2>c. ASSUME m > 1
          PROVE  /\ prev[b] = s[m-1] /\ s[m-1] \in Bufs /\ s[m-1] # b
                 /\ s[m-1] # NIL /\ s[m-1] # tail /\ s[m-1] # s[m+1] /\ head # b
      <3>1. /\ s[m-1] \in Bufs /\ s[m-1] # b /\ s[m-1] # NIL
            /\ s[m-1] # s[N] /\ s[m-1] # s[m+1]
        BY <1>0, <1>1, <1>d, <1>l, <2>a, <2>c, SMTT(30)
      <3>2. prev[b] = s[m-1] /\ head # b
        BY <1>1, <1>d, <1>l, <2>c, SMTT(30)
      <3>. QED BY <1>l, <3>1, <3>2
    <2>1. /\ m + 1 \in 1..N /\ next[b] = s[m+1] /\ s[m+1] \in Bufs /\ s[m+1] # b /\ s[m+1] # NIL
          /\ m = 1 => prev[b] = NIL /\ head = b
          /\ m > 1 => /\ m - 1 \in 1..N /\ prev[b] = s[m-1] /\ s[m-1] \in Bufs /\ s[m-1] # b
                      /\ s[m-1] # NIL /\ s[m-1] # tail /\ s[m-1] # s[m+1] /\ head # b
      BY <2>a, <2>b, <2>c
    <2>. DEFINE n1 == [next EXCEPT ![tail] = b]
                p1 == [prev EXCEPT ![s[m+1]] = prev[b]]
                n2 == IF m = 1 THEN n1 ELSE [n1 EXCEPT ![s[m-1]] = s[m+1]]
    <2>2. n1[b] = s[m+1] /\ n1 \in [Bufs -> Bufs \cup {NIL}]
      BY <2>1 DEF LinkTypes
    <2>3. p1[b] = prev[b] /\ p1 \in [Bufs -> Bufs \cup {NIL}]
      BY <2>1 DEF LinkTypes
    <2>4. p1[b] = NIL <=> m = 1
      BY <1>1, <2>1, <2>3, SMTT(30)
    <2>5. /\ next' = [n2 EXCEPT ![b] = NIL] /\ prev' = [p1 EXCEPT ![b] = tail]
          /\ head' = (IF b = head THEN s[m+1] ELSE head) /\ tail' = b
      <3>1. CASE m = 1
        <4>. HIDE DEF n1, p1
        <4>1. n2 = n1
          BY <3>1
        <4>. HIDE DEF n2
        <4>. QED BY <3>1, <4>1, <2>1, <2>2, <2>3, <2>4 DEF MoveToTail, n1, p1
      <3>2. CASE m # 1
        <4>1. n2 = [n1 EXCEPT ![s[m-1]] = s[m+1]]
          BY <3>2
        <4>2. p1[b] = s[m-1] /\ p1[b] # NIL
          BY <1>1, <3>2, <2>1, <2>3, SMTT(30)
        <4>. HIDE DEF n2
        <4>. QED BY <3>2, <4>1, <4>2, <2>1, <2>2, <2>3, <2>4 DEF MoveToTail
      <3>. QED BY <3>1, <3>2
    <2>6. head' = IF m = 1 THEN s[2] ELSE head
      BY <1>1, <2>1, <2>5, SMTT(30)
    <2>7. next' = [i \in Bufs |-> IF i = b THEN NIL ELSE
                                    IF m > 1 /\ i = s[m-1] THEN s[m+1] ELSE
                                    IF i = tail THEN b ELSE next[i]]
      <3>1. CASE m = 1
        BY <3>1, <2>1, <2>5 DEF LinkTypes
      <3>2. CASE m # 1
        <4>1. m > 1
          BY <1>1, <3>2, SMTT(30)
        <4>. QED BY <3>2, <4>1, <2>1, <2>5 DEF LinkTypes
      <3>. QED BY <3>1, <3>2
    <2>8. prev' = [i \in Bufs |-> IF i = b THEN tail ELSE
                                    IF i = s[m+1] THEN prev[b] ELSE prev[i]]
      BY <2>5 DEF LinkTypes
    <2>. QED BY <2>5, <2>6, <2>7, <2>8
  <1>5. \A p, q \in 1..N : t[p] = t[q] => p = q
    <2>. DEFINE was(n) == IF n < m THEN n ELSE IF n = N THEN m ELSE n + 1
    <2>1. \A n \in 1..N : was(n) \in 1..N /\ t[n] = s[was(n)]
      BY <1>0, <1>1, <1>2, SMTT(30)
    <2>2. \A p, q \in 1..N : was(p) = was(q) => p = q
      BY <1>0, <1>1, SMTT(30)
    <2>. HIDE DEF was, t
    <2>. QED BY <1>d, <2>1, <2>2
  <1>6. \A i \in Bufs : \E n \in 1..N : t[n] = i
    <2>. SUFFICES ASSUME NEW n \in 1..N PROVE \E q \in 1..N : t[q] = s[n]
      BY DEF Order
    <2>1. CASE n < m
      BY <2>1
    <2>2. CASE n = m
      BY <1>0, <1>1, <1>2, <2>2, SMTT(30)
    <2>3. CASE n > m
      <3>1. n - 1 \in 1..N /\ ~(n - 1 < m) /\ n - 1 < N /\ t[n - 1] = s[(n - 1) + 1] /\ (n - 1) + 1 = n
        BY <1>0, <1>1, <2>3, SMTT(30)
      <3>. QED BY <3>1
    <2>. QED BY <2>1, <2>2, <2>3, SMTT(30)
  <1>7. head' = t[1] /\ tail' = t[N]
    BY <1>0, <1>1, <1>2, <1>4, SMTT(30) DEF Order
  <1>8. \A n \in 1..N : next'[t[n]] = IF n = N THEN NIL ELSE t[n+1]
    <2>. SUFFICES ASSUME NEW n \in 1..N PROVE next'[t[n]] = IF n = N THEN NIL ELSE t[n+1]
      OBVIOUS
    <2>0. t[n] \in Bufs
      BY <1>3
    <2>1. CASE n < m - 1
      <3>0. n # N /\ n + 1 \in 1..N /\ n < m /\ n + 1 < m
        BY <1>0, <1>1, <2>1, SMTT(30)
      <3>1. t[n] = s[n] /\ t[n+1] = s[n+1] /\ next[s[n]] = s[n+1] /\ n # N
        BY <1>l, <3>0
      <3>a. n # m /\ n # N /\ (m > 1 => m - 1 \in 1..N /\ n # m - 1)
        BY <1>0, <1>1, <1>2, <2>1, SMTT(30)
      <3>2. s[n] # b /\ s[n] # tail /\ (m > 1 => s[n] # s[m-1])
        BY <1>1, <1>d, <1>l, <3>a
      <3>. HIDE DEF t
      <3>. QED BY <1>4, <2>0, <3>1, <3>2
    <2>2. CASE n = m - 1
      <3>0. n # N /\ n + 1 = m /\ n < m /\ ~(m < m) /\ m < N /\ m - 1 \in 1..N /\ m - 1 # m /\ m > 1
        BY <1>0, <1>1, <1>2, <2>2, SMTT(30)
      <3>1. t[n] = s[m-1] /\ t[n+1] = s[m+1] /\ s[m-1] # b /\ n # N /\ m > 1
        BY <1>1, <1>d, <2>2, <3>0
      <3>. HIDE DEF t
      <3>. QED BY <1>4, <2>0, <3>1
    <2>3. CASE n >= m /\ n < N - 1
      <3>1. t[n] = s[n+1] /\ t[n+1] = s[n+2] /\ next[s[n+1]] = s[n+2] /\ n # N
        <4>1. n + 1 \in 1..N /\ n + 1 # N /\ ~(n < m) /\ ~(n + 1 < m) /\ n < N /\ n + 1 < N /\ n # N
              /\ (n + 1) + 1 = n + 2
          BY <1>0, <1>1, <2>3, SMTT(30)
        <4>2. t[n] = s[n+1] /\ t[n+1] = s[(n+1)+1]
          BY <4>1
        <4>. QED BY <1>l, <4>1, <4>2
      <3>a. n + 1 \in 1..N /\ n + 1 # m /\ n + 1 # N /\ (m > 1 => m - 1 \in 1..N /\ n + 1 # m - 1)
        BY <1>0, <1>1, <1>2, <2>3, SMTT(30)
      <3>2. s[n+1] # b /\ s[n+1] # tail /\ (m > 1 => s[n+1] # s[m-1])
        BY <1>1, <1>d, <1>l, <3>a
      <3>. HIDE DEF t
      <3>. QED BY <1>4, <2>0, <3>1, <3>2
    <2>4. CASE n >= m /\ n = N - 1
      <3>1. t[n] = tail /\ t[n+1] = b /\ n # N
        <4>1. ~(n < m) /\ n < N /\ n + 1 = N /\ ~(N < m) /\ ~(N < N) /\ n # N
          BY <1>0, <1>1, <2>4, SMTT(30)
        <4>. QED BY <1>l, <4>1
      <3>a. N # m /\ (m > 1 => m - 1 \in 1..N /\ N # m - 1)
        BY <1>0, <1>1, <1>2, SMTT(30)
      <3>2. tail # b /\ (m > 1 => tail # s[m-1])
        BY <1>1, <1>d, <1>l, <3>a
      <3>. HIDE DEF t
      <3>. QED BY <1>4, <2>0, <3>1, <3>2
    <2>5. CASE n = N
      <3>1. t[n] = b
        BY <1>0, <1>1, <1>2, <2>5, SMTT(30)
      <3>. HIDE DEF t
      <3>. QED BY <1>4, <2>0, <2>5, <3>1
    <2>6. n < m - 1 \/ n = m - 1 \/ (n >= m /\ n < N - 1) \/ (n >= m /\ n = N - 1) \/ n = N
      BY <1>0, <1>1, <1>2, SMTT(30)
    <2>. HIDE DEF t
    <2>. QED BY <2>1, <2>2, <2>3, <2>4, <2>5, <2>6
  <1>9. \A n \in 1..N : prev'[t[n]] = IF n = 1 THEN NIL ELSE t[n-1]
    <2>. SUFFICES ASSUME NEW n \in 1..N PROVE prev'[t[n]] = IF n = 1 THEN NIL ELSE t[n-1]
      OBVIOUS
    <2>0. t[n] \in Bufs
      BY <1>3
    <2>1. CASE n < m
      <3>0. n # 1 => n - 1 \in 1..N /\ n - 1 < m
        BY <1>0, <1>1, <2>1, SMTT(30)
      <3>1. t[n] = s[n] /\ (n > 1 => t[n-1] = s[n-1]) /\ prev[s[n]] = IF n = 1 THEN NIL ELSE s[n-1]
        BY <1>l, <2>1, <3>0, SMTT(30)
      <3>a. n # m /\ m + 1 \in 1..N /\ n # m + 1
        BY <1>0, <1>1, <1>2, <2>1, SMTT(30)
      <3>2. s[n] # b /\ s[n] # s[m+1]
        BY <1>1, <1>d, <3>a
      <3>. HIDE DEF t
      <3>. QED BY <1>4, <2>0, <3>1, <3>2, SMTT(30)
    <2>2. CASE n = m
      <3>0. /\ ~(m < m) /\ m < N /\ m + 1 \in 1..N /\ m # m + 1
            /\ m > 1 => m - 1 \in 1..N /\ m - 1 < m
        BY <1>0, <1>1, <1>2, SMTT(30)
      <3>1. t[n] = s[m+1] /\ (m > 1 => t[n-1] = s[m-1]) /\ prev[b] = IF m = 1 THEN NIL ELSE s[m-1]
        BY <1>1, <1>l, <2>2, <3>0
      <3>2. s[m+1] # b
        BY <1>1, <1>d, <3>0
      <3>. HIDE DEF t
      <3>. QED BY <1>1, <1>4, <2>0, <2>2, <3>1, <3>2, SMTT(30)
    <2>3. CASE n > m /\ n < N
      <3>0. /\ n - 1 \in 1..N /\ n + 1 \in 1..N /\ n # 1 /\ n + 1 # 1 /\ ~(n < m) /\ ~(n - 1 < m)
            /\ n - 1 < N /\ (n - 1) + 1 = n /\ (n + 1) - 1 = n
        BY <1>0, <1>1, <2>3, SMTT(30)
      <3>1. t[n] = s[n+1] /\ t[n-1] = s[n] /\ prev[s[n+1]] = s[n] /\ n # 1
        <4>1. t[n] = s[n+1] /\ t[n-1] = s[(n-1)+1] /\ prev[s[n+1]] = s[(n+1)-1]
          BY <1>l, <2>3, <3>0
        <4>. QED BY <3>0, <4>1
      <3>a. n + 1 # m /\ n + 1 \in 1..N /\ m + 1 \in 1..N /\ n + 1 # m + 1
        BY <1>0, <1>1, <1>2, <2>3, SMTT(30)
      <3>2. s[n+1] # b /\ s[n+1] # s[m+1]
        BY <1>1, <1>d, <3>a
      <3>. HIDE DEF t
      <3>. QED BY <1>4, <2>0, <3>1, <3>2
    <2>4. CASE n = N
      <3>1. t[n] = b /\ t[n-1] = tail /\ n # 1
        <4>1. /\ ~(N < m) /\ ~(N < N) /\ N - 1 \in 1..N /\ ~(N - 1 < m) /\ N - 1 < N
              /\ (N - 1) + 1 = N /\ N # 1
          BY <1>0, <1>1, <1>2, SMTT(30)
        <4>2. t[n] = b /\ t[n-1] = s[(N-1)+1]
          BY <2>4, <4>1
        <4>. QED BY <1>l, <2>4, <4>1, <4>2
      <3>. HIDE DEF t
      <3>. QED BY <1>4, <2>0, <3>1
    <2>. QED BY <1>0, <1>1, <1>2, <2>1, <2>2, <2>3, <2>4, SMTT(30)
  <1>. HIDE DEF t
  <1>. QED BY <1>3, <1>5, <1>6, <1>7, <1>8, <1>9 DEF Order

\* The invariant of the links.
ListInv ==
    /\ LinkTypes
    /\ tailReleased \in BOOLEAN /\ stopped \in {"no", "panic", "hang"}
    /\ ~tailReleased => \E s \in [1..N -> Bufs] : Order(s)

\* The inductive invariant of the cache.
CacheInv == RefInv /\ ListInv /\ OneCopy /\ PanicMeansNoneAvailable

\* The pointer assignments of bcache_release lead to buffers, whichever buffer moves.
LEMMA MoveTypes ==
    ASSUME LinkTypes, NEW b \in Bufs, MoveToTail(b)
    PROVE  LinkTypes'
  <1>. DEFINE n1 == [next EXCEPT ![tail] = b]
              p1 == [prev EXCEPT ![n1[b]] = prev[b]]
              n2 == IF p1[b] = NIL THEN n1 ELSE [n1 EXCEPT ![p1[b]] = n1[b]]
  <1>0. NIL \notin Bufs
    BY SMTT(30) DEF NIL, Bufs
  <1>1. /\ n1 \in [Bufs -> Bufs \cup {NIL}] /\ n1[b] \in Bufs
        /\ \A i \in Bufs : n1[i] = NIL => i = b
    BY <1>0 DEF LinkTypes
  <1>2. p1 \in [Bufs -> Bufs \cup {NIL}]
    BY <1>1 DEF LinkTypes
  <1>3. /\ next' = [n2 EXCEPT ![b] = NIL] /\ prev' = [p1 EXCEPT ![b] = tail]
        /\ head' = (IF b = head THEN n1[b] ELSE head) /\ tail' = b
    <2>1. n1[b] # NIL
      BY <1>0, <1>1
    <2>. QED BY <2>1, SMTT(30) DEF MoveToTail
  <1>. HIDE DEF n1, p1
  <1>4. n2 \in [Bufs -> Bufs \cup {NIL}] /\ \A i \in Bufs : n2[i] = NIL => i = b
    BY <1>0, <1>1, <1>2
  <1>. HIDE DEF n2
  <1>. QED BY <1>1, <1>2, <1>3, <1>4 DEF LinkTypes

\* Every step keeps the links sound.
LEMMA ListStep == ASSUME RefInv, ListInv, Next PROVE ListInv'
  <1>1. CASE UNCHANGED <<links, tailReleased>>
    <2>1. LinkTypes' /\ \A s : Order(s)' = Order(s)
      BY <1>1 DEF links, LinkTypes, Order, ListInv
    <2>2. stopped' \in {"no", "panic", "hang"}
      BY DEF Next, bcache_get, LoadDone, LoadImpossible, bcache_release, ListInv
    <2>. QED BY <1>1, <2>1, <2>2 DEF ListInv
  <1>2. CASE ~UNCHANGED <<links, tailReleased>>
    <2>1. PICK c \in Callers, k \in Pointers : bcache_release(c, k)
      BY <1>2 DEF Next, bcache_get, LoadDone, LoadImpossible
    <2>2. held[c][k] \in Bufs
      BY <2>1, SMTT(30) DEF bcache_release, RefInv, HeldType
    <2>b. PICK b \in Bufs : b = held[c][k]
      BY <2>2
    <2>3. MoveToTail(b) /\ stopped' = stopped
      BY <1>2, <2>1, <2>b DEF bcache_release
    <2>4. tailReleased' = (tailReleased \/ b = tail)
      BY <1>2, <2>1, <2>b DEF bcache_release
    <2>5. LinkTypes'
      BY <2>3, MoveTypes DEF ListInv
    <2>6. ASSUME ~tailReleased' PROVE \E s \in [1..N -> Bufs] : Order(s)'
      <3>1. ~tailReleased /\ b # tail
        BY <2>4, <2>6
      <3>2. PICK s \in [1..N -> Bufs] : Order(s)
        BY <3>1 DEF ListInv
      <3>. QED BY <2>3, <3>1, <3>2, MoveKeepsOrder DEF ListInv
    <2>7. tailReleased' \in BOOLEAN
      BY <2>4 DEF ListInv
    <2>. QED BY <2>3, <2>5, <2>6, <2>7 DEF ListInv
  <1>. QED BY <1>1, <1>2

\* bcache_get takes a buffer only after a search that has seen every copy, and panics
\* only after one that has seen every buffer in use.
LEMMA CopyStep ==
    ASSUME RefInv, ListInv, OneCopy, PanicMeansNoneAvailable, Next
    PROVE  OneCopy' /\ PanicMeansNoneAvailable'
  <1>1. ASSUME NEW c \in Callers, NEW b \in Blocks \cup DeadBlocks, bcache_get(c, b)
        PROVE  OneCopy' /\ PanicMeansNoneAvailable'
    <2>. DEFINE Copies == {i \in Bufs : Holds(i, b)}
                Idle == {i \in Bufs : Available(i)}
                hit == FirstOf(Copies)
                free == FirstOf(Idle)
    <2>0. tailReleased' = tailReleased /\ stopped = "no"
      BY <1>1 DEF bcache_get
    <2>. SUFFICES ASSUME ~tailReleased PROVE OneCopy' /\ PanicMeansNoneAvailable'
      BY <2>0 DEF OneCopy, PanicMeansNoneAvailable
    <2>1. PICK s \in [1..N -> Bufs] : Order(s)
      BY DEF ListInv
    <2>2. Len(Walk) = N /\ N \in Nat
      BY <2>1, WalkIs, BcacheAssumption DEF ListInv
    <2>3. hit = NIL => Copies = {}
      <3>1. Copies \in SUBSET Bufs
        OBVIOUS
      <3>. HIDE DEF Copies
      <3>. QED BY <2>1, <3>1, FirstOfNil DEF ListInv
    <2>4. free = NIL => Idle = {}
      <3>1. Idle \in SUBSET Bufs
        OBVIOUS
      <3>. HIDE DEF Idle
      <3>. QED BY <2>1, <3>1, FirstOfNil DEF ListInv
    <2>5. CASE hit # NIL
      <3>1. UNCHANGED <<valid, block, stopped>>
        BY <1>1, <2>5 DEF bcache_get
      <3>. QED BY <2>0, <3>1 DEF OneCopy, PanicMeansNoneAvailable
    <2>6. CASE hit = NIL /\ free # NIL
      <3>1. /\ block' = [block EXCEPT ![free] = b] /\ valid' = [valid EXCEPT ![free] = TRUE]
            /\ stopped' = stopped
        BY <1>1, <2>2, <2>6, SMTT(30) DEF bcache_get
      <3>2. \A i \in Bufs : ~(valid[i] /\ block[i] = b)
        BY <2>3, <2>6 DEF Holds
      <3>3. free \in Bufs
        BY <2>6, FirstOfIn
      <3>. HIDE DEF free
      <3>4. OneCopy'
        BY <2>0, <3>1, <3>2, <3>3, SMTT(30) DEF OneCopy, RefInv
      <3>. QED BY <2>0, <3>1, <3>4 DEF PanicMeansNoneAvailable
    <2>7. CASE hit = NIL /\ free = NIL
      <3>1. /\ stopped' = IF Len(Walk) > N THEN "hang" ELSE "panic"
            /\ UNCHANGED <<valid, refCount, block>>
        BY <1>1, <2>7 DEF bcache_get
      <3>2. stopped' = "panic"
        BY <2>2, <3>1, SMTT(30)
      <3>3. \A i \in Bufs : refCount[i] # 0 /\ refCount[i] \in Nat
        BY <2>4, <2>7 DEF Available, RefInv
      <3>. QED BY <2>0, <3>1, <3>2, <3>3, SMTT(30) DEF OneCopy, PanicMeansNoneAvailable
    <2>. QED BY <2>5, <2>6, <2>7
  <1>2. ASSUME NEW c \in Callers, LoadDone(c)
        PROVE  OneCopy' /\ PanicMeansNoneAvailable'
    BY <1>2 DEF LoadDone, OneCopy, PanicMeansNoneAvailable
  <1>3. ASSUME NEW c \in Callers, LoadImpossible(c)
        PROVE  OneCopy' /\ PanicMeansNoneAvailable'
    BY <1>3 DEF LoadImpossible, OneCopy, PanicMeansNoneAvailable, RefInv
  <1>4. ASSUME NEW c \in Callers, NEW k \in Pointers, bcache_release(c, k)
        PROVE  OneCopy' /\ PanicMeansNoneAvailable'
    <2>1. stopped' = "no" /\ block' = block
      BY <1>4 DEF bcache_release
    <2>2. \A i \in Bufs : valid'[i] => valid[i]
      BY <1>4 DEF bcache_release, RefInv, HeldType
    <2>3. tailReleased => tailReleased'
      BY <1>4 DEF bcache_release, ListInv
    <2>. QED BY <2>1, <2>2, <2>3 DEF OneCopy, PanicMeansNoneAvailable
  <1>. QED BY <1>1, <1>2, <1>3, <1>4 DEF Next

\* bcache_init links the buffers by their index.
LEMMA CacheInit == Init => CacheInv
  <1>. SUFFICES ASSUME Init PROVE CacheInv
    OBVIOUS
  <1>0. N \in Nat \ {0}
    BY BcacheAssumption
  <1>. DEFINE s == [n \in 1..N |-> n]
  <1>1. LinkTypes
    BY <1>0, SMTT(30) DEF Init, LinkTypes, Bufs, NIL
  <1>2. s \in [1..N -> Bufs] /\ Order(s)
    BY <1>0, SMTT(30) DEF Init, Order, Bufs, NIL
  <1>. HIDE DEF s
  <1>3. ListInv
    BY <1>1, <1>2 DEF ListInv, Init
  <1>4. OneCopy /\ PanicMeansNoneAvailable
    BY DEF Init, OneCopy, PanicMeansNoneAvailable
  <1>. QED BY <1>3, <1>4, RefInit DEF CacheInv

\* The inductive invariant of the cache holds in every reachable state.
THEOREM BcacheInvariant == Spec => []CacheInv
  <1>1. CacheInv /\ [Next]_vars => CacheInv'
    <2>1. CASE Next
      BY <2>1, RefStep, ListStep, CopyStep DEF CacheInv
    <2>2. CASE UNCHANGED vars
      <3>1. RefInv => RefInv'
        BY <2>2 DEF RefInv, HeldType, RefCountExact, Users, Holders, Unused, vars
      <3>2. \A s : Order(s)' = Order(s)
        BY <2>2 DEF Order, vars, links
      <3>3. ListInv => ListInv'
        BY <2>2, <3>2 DEF ListInv, LinkTypes, vars, links
      <3>. QED BY <2>2, <3>1, <3>3 DEF CacheInv, OneCopy, PanicMeansNoneAvailable, vars
    <2>. QED BY <2>1, <2>2
  <1>. QED BY <1>1, CacheInit, PTL DEF Spec

\* Until the tail is released in place the list holds every buffer once, a block is in
\* at most one buffer, and the panic means that every buffer is in use.
THEOREM BcacheCacheSound == Spec => []CacheSound
  <1>1. CacheInv => CacheSound
    <2>. SUFFICES ASSUME CacheInv PROVE CacheSound
      OBVIOUS
    <2>1. TypeOK
      BY DEF CacheInv, RefInv, HeldType, ListInv, LinkTypes, TypeOK
    <2>2. ListIntact
      <3>. SUFFICES ASSUME ~tailReleased
                    PROVE  /\ Len(Walk) = N /\ Walk[N] = tail
                           /\ \A n \in 1..N : prev[Walk[n]] = IF n = 1 THEN NIL ELSE Walk[n-1]
        BY DEF ListIntact
      <3>1. PICK s \in [1..N -> Bufs] : Order(s)
        BY DEF CacheInv, ListInv
      <3>2. Len(Walk) = N /\ \A n \in 1..N : Walk[n] = s[n]
        BY <3>1, WalkIs DEF CacheInv, ListInv
      <3>3. /\ tail = s[N]
            /\ \A n \in 1..N : prev[s[n]] = IF n = 1 THEN NIL ELSE s[n-1]
        BY <3>1 DEF Order
      <3>4. Walk[N] = tail
        BY <3>2, <3>3, BcacheAssumption, SMTT(30)
      <3>5. ASSUME NEW n \in 1..N PROVE prev[Walk[n]] = IF n = 1 THEN NIL ELSE Walk[n-1]
        <4>1. Walk[n] = s[n] /\ (n # 1 => Walk[n-1] = s[n-1])
          BY <3>2, BcacheAssumption, SMTT(30)
        <4>. QED BY <3>3, <4>1
      <3>. QED BY <3>2, <3>4, <3>5
    <2>. QED BY <2>1, <2>2 DEF CacheInv, CacheSound
  <1>. QED BY <1>1, BcacheInvariant, PTL
=============================================================================

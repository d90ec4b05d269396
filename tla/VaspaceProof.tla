---------------------------- MODULE VaspaceProof ----------------------------
(***************************************************************************)
(* Proofs about the address spaces of Vaspace, for any number of processes *)
(* and pages of memory, any levels of tables and any images.               *)
(*                                                                         *)
(* A step takes a free page into one slot, gives back the page of one slot *)
(* or moves it to another; the first lemmas say that each keeps the pages  *)
(* apart, for the holders as a value (h before, g after).  What a call has *)
(* still to do fits the address spaces it works on, its own or that of the *)
(* child it fills or takes apart (VaspaceInv).                             *)
(***************************************************************************)
EXTENDS Vaspace, TLAPS

\* A leaf that names no backend is one for Zenon; SMTT marks those that need more theory.
USE ZenonT(30)

\* The process p is being filled by fork, or taken apart by waitpid, of c.
Clones(c, p) == stage[c] = "clone" /\ other[c] = p
Destroys(c, p) == stage[c] = "destroy" /\ other[c] = p

\* What a call of p still has to do fits the address space of p.
CallFits(p) ==
    /\ page[p] # 0 => stage[p] \in {"map", "load", "unmap"} /\ todo[p] # {}
    /\ stage[p] \in {"map", "unmap"} => todo[p] \subseteq {<<0, v>> : v \in Virt}
    /\ stage[p] = "map" => \A a \in todo[p] : entry[p][Leaf(a)] = 0
    /\ stage[p] = "load" =>
         /\ todo[p] \subseteq Items(image[p])
         /\ \A v \in Virt : entry[p][<<0, v>>] # 0 =>
              \E a \in Items(image[p]) \ todo[p] : a[2] = v
    /\ stage[p] = "clear" => todo[p] = Present(p)
    /\ stage[p] # "none" => root[p] # 0

\* A process that does not exist has no page, unless a fork makes it.
NoneIsEmpty(q) ==
    stage[q] = "none" /\ (\A p \in Procs : ~Clones(p, q)) => root[q] = 0 /\ entry[q] = Empty

\* A child has what its parent has, but for what fork has not come to.
ClonesFit(p, q) ==
    Clones(p, q) =>
        /\ stage[q] = "none" /\ root[q] # 0
        /\ Present(q) \cup todo[p] = Present(p)
        /\ Present(q) \cap todo[p] = {}

\* What waitpid has still to give back is there.
DestroysFit(p, q) ==
    Destroys(p, q) => stage[q] = "zombie" /\ todo[p] \subseteq Present(q)

\* No two calls fill, or take apart, the same process.
OneCaller(p, q) ==
    \A r \in Procs :
        /\ Clones(p, q) /\ Clones(r, q) => r = p
        /\ Destroys(p, q) /\ Destroys(r, q) => r = p

\* Pages are lost only if an image overlaps itself or the stack.
LostFit == lost # {} => \E im \in Images : Overlaps(im)

\* The inductive invariant.
VaspaceInv ==
    /\ VaspaceTypeOK
    /\ Apart(Held, free, lost)
    /\ LostFit
    /\ \A p \in Procs : CallFits(p) /\ NoneIsEmpty(p)
    /\ \A p, q \in Procs : ClonesFit(p, q) /\ DestroysFit(p, q) /\ OneCaller(p, q)

-----------------------------------------------------------------------------
\* Slots and items.

\* The root and the hand of a call are no entries.
LEMMA SlotsApart == ROOT \notin PTEs /\ HAND \notin PTEs /\ ROOT # HAND
  BY VaspaceAssumption, SMTT(30) DEF ROOT, HAND, PTEs, Index

\* The way to a page leads through entries of tables, and ends in one of a page.
LEMMA LeafIs ==
    /\ \A v \in Virt : <<0, v>> \in PTEs
    /\ \A v \in Virt, k \in 1..LEVELS : Index(k, v) \in PTEs /\ \A w : Index(k, v) # <<0, w>>
  BY VaspaceAssumption, SMTT(30) DEF PTEs, Index

\* An item of the loader is the number of a segment and a page of the user's half.
LEMMA ItemsTyped ==
    ASSUME NEW im \in Images \cup {<<>>}
    PROVE  Items(im) \subseteq Nat \X Virt
  BY VaspaceAssumption, SMTT(30) DEF Items, Virt

\* The entry that maps an item's page.
LEMMA ItemIs ==
    ASSUME NEW a \in Nat \X Virt
    PROVE  a[2] \in Virt /\ Leaf(a) \in PTEs
  BY LeafIs, SMTT(30) DEF Leaf

\* The stack alone overlaps nothing.
LEMMA StackAlone == ~Overlaps(<<>>)
  BY SMTT(30) DEF Overlaps, Items

-----------------------------------------------------------------------------
\* What may happen to the holders of pages.

\* g is h with x in the slot s of q.
Sets(g, h, q, s, x) ==
    /\ g[q][s] = x
    /\ \A p \in Procs, t \in Slots : (p = q /\ t = s) \/ g[p][t] = h[p][t]

\* g and h are the same.
Same(g, h) == \A p \in Procs, t \in Slots : g[p][t] = h[p][t]

\* A step that moves no page, ...
LEMMA SameApart ==
    ASSUME NEW g, NEW h, NEW f, NEW l, Apart(h, f, l), Same(g, h)
    PROVE  Apart(g, f, l)
  BY SMTT(30) DEF Apart, Same

\* ... one that takes a free page into an empty slot, ...
LEMMA TakeApart ==
    ASSUME NEW g, NEW h, NEW f, NEW l, NEW q \in Procs, NEW s \in Slots, NEW x \in f,
           Apart(h, f, l), h[q][s] = 0, Sets(g, h, q, s, x), 0 \notin f, 0 \notin Frames
    PROVE  Apart(g, f \ {x}, l)
  BY SMTT(30) DEF Apart, Sets

\* ... one that gives back the page of a slot, ...
LEMMA GiveApart ==
    ASSUME NEW g, NEW h, NEW f, NEW l, NEW q \in Procs, NEW s \in Slots,
           Apart(h, f, l), h[q][s] # 0, Sets(g, h, q, s, 0), 0 \notin Frames
    PROVE  Apart(g, f \cup {h[q][s]}, l)
  BY SMTT(30) DEF Apart, Sets

\* The page in the slot t of q goes to s; what was there is lost.
Moves(g, h, q, t, s) ==
    /\ g[q][s] = h[q][t] /\ g[q][t] = 0
    /\ \A p \in Procs, u \in Slots : (p = q /\ u \in {s, t}) \/ g[p][u] = h[p][u]

\* ... and one that moves a page keep pages apart.
LEMMA MoveApart ==
    ASSUME NEW g, NEW h, NEW f, NEW l, NEW q \in Procs, NEW t \in Slots, NEW s \in Slots, s # t,
           Apart(h, f, l), h[q][t] # 0, Moves(g, h, q, t, s), 0 \notin Frames
    PROVE  Apart(g, f, l \cup ({h[q][s]} \ {0}))
  BY SMTT(30) DEF Apart, Moves

-----------------------------------------------------------------------------
\* Who holds what.

\* Nobody takes p apart.
NotDestroyed(p) == \A r \in Procs : ~Destroys(r, p)

\* What p holds unless it is being taken apart or sys_munmap has given back a page.
Plain(p, s) == IF s = ROOT THEN root[p] ELSE IF s = HAND THEN page[p] ELSE entry[p][s]

\* Then it holds its root, its entries and the page in its hand, ...
LEMMA PlainHeld ==
    ASSUME NEW p \in Procs, NotDestroyed(p), stage[p] # "unmap" \/ page[p] = 0
    PROVE  \A s \in Slots : Held[p][s] = Plain(p, s)
  BY DEF Held, InSlot, GivenBack, Plain, NotDestroyed, Destroys

\* ... and so after a step.
LEMMA PlainHeldNext ==
    ASSUME NEW p \in Procs, NotDestroyed(p)', stage'[p] # "unmap" \/ page'[p] = 0
    PROVE  \A s \in Slots : Held'[p][s] = Plain(p, s)'
  BY DEF Held, InSlot, GivenBack, Plain, NotDestroyed, Destroys

\* sys_munmap has given back the page of the item a.
Windowed(p, a, s) == IF s \in {HAND, Leaf(a)} THEN 0 ELSE Plain(p, s)

\* The loop of p comes to a next, and to nothing else.
OnlyNext(p, a) == a \in todo[p] /\ IsNext(p, a) /\ \A b \in todo[p] : IsNext(p, b) => b = a

\* Then it holds everything else, ...
LEMMA WindowHeld ==
    ASSUME NEW p \in Procs, NotDestroyed(p), stage[p] = "unmap", page[p] # 0,
           NEW a, OnlyNext(p, a), Leaf(a) \in PTEs
    PROVE  \A s \in Slots : Held[p][s] = Windowed(p, a, s)
  BY SlotsApart DEF Held, InSlot, GivenBack, Plain, NotDestroyed, Destroys, Windowed, OnlyNext, Slots

\* ... and so after a step.
LEMMA WindowHeldNext ==
    ASSUME NEW p \in Procs, NotDestroyed(p)', stage'[p] = "unmap", page'[p] # 0,
           NEW a, OnlyNext(p, a)', Leaf(a) \in PTEs
    PROVE  \A s \in Slots : Held'[p][s] = Windowed(p, a, s)'
  BY SlotsApart DEF Held, InSlot, GivenBack, Plain, NotDestroyed, Destroys, Windowed, OnlyNext, Slots

\* A step that changes nothing of another process.
Local(p) ==
    \A q \in Procs \ {p} :
        /\ root'[q] = root[q] /\ entry'[q] = entry[q] /\ stage'[q] = stage[q]
        /\ todo'[q] = todo[q] /\ other'[q] = other[q] /\ page'[q] = page[q]
        /\ image'[q] = image[q]

\* Nothing changes in what q holds.
Untouched(q) ==
    /\ root'[q] = root[q] /\ entry'[q] = entry[q] /\ stage'[q] = stage[q]
    /\ todo'[q] = todo[q] /\ page'[q] = page[q]

\* What a step leaves alone is held as before.
LEMMA HeldKept ==
    ASSUME NEW q \in Procs, Untouched(q),
           \A r \in Procs : Destroys(r, q)' <=> Destroys(r, q),
           \A r \in Procs : Destroys(r, q) => todo'[r] = todo[r]
    PROVE  \A s \in Slots : Held'[q][s] = Held[q][s]
  <1>1. \A s \in Slots : GivenBack(q, s)' <=> GivenBack(q, s)
    <2>1. \A a : IsNext(q, a)' <=> IsNext(q, a)
      BY DEF IsNext, Untouched
    <2> QED
      BY <2>1 DEF GivenBack, Untouched, Destroys
  <1>2. \A s \in Slots : InSlot(q, s)' = InSlot(q, s)
    BY <1>1 DEF InSlot, Untouched
  <1> QED
    BY <1>2 DEF Held

\* What the others hold stays.
OthersKeep(p) == \A q \in Procs \ {p}, s \in Slots : Held'[q][s] = Held[q][s]

\* A step of p alone leaves what the other processes hold.
LEMMA LocalHeld ==
    ASSUME NEW p \in Procs, Local(p), stage[p] # "destroy", stage'[p] # "destroy"
    PROVE  OthersKeep(p)
  <1>1. ASSUME NEW q \in Procs, q # p
        PROVE  \A s \in Slots : Held'[q][s] = Held[q][s]
    <2>1. \A r \in Procs : Destroys(r, q)' <=> Destroys(r, q)
      BY <1>1 DEF Local, Destroys
    <2>2. \A r \in Procs : Destroys(r, q) => todo'[r] = todo[r]
      BY <1>1 DEF Local, Destroys
    <2>3. Untouched(q)
      BY <1>1 DEF Local, Untouched
    <2> QED
      BY <2>1, <2>2, <2>3, HeldKept
  <1> QED
    BY <1>1 DEF OthersKeep

\* Only a zombie is taken apart, ...
LEMMA NobodyDestroys ==
    ASSUME VaspaceInv, NEW p \in Procs, stage[p] # "zombie"
    PROVE  NotDestroyed(p)
  BY DEF VaspaceInv, DestroysFit, NotDestroyed

\* ... and so after a step.
LEMMA NobodyDestroysNext ==
    ASSUME NEW p \in Procs, NotDestroyed(p), Local(p), stage'[p] # "destroy"
    PROVE  NotDestroyed(p)'
  BY DEF NotDestroyed, Destroys, Local

\* What is left of q while p takes it apart.
Torn(p, q, s) ==
    IF s = ROOT THEN root[q] ELSE IF s = HAND THEN page[q]
    ELSE IF s \in todo[p] THEN entry[q][s] ELSE 0

\* What is left of a process that p takes apart, ...
LEMMA TornHeld ==
    ASSUME NEW p \in Procs, NEW q \in Procs, Destroys(p, q), stage[q] # "unmap",
           \A r \in Procs : Destroys(r, q) => r = p
    PROVE  \A s \in Slots : Held[q][s] = Torn(p, q, s)
  BY DEF Held, InSlot, GivenBack, Torn, Destroys

\* ... and so after a step.
LEMMA TornHeldNext ==
    ASSUME NEW p \in Procs, NEW q \in Procs, Destroys(p, q)', stage'[q] # "unmap",
           \A r \in Procs : Destroys(r, q)' => r = p
    PROVE  \A s \in Slots : Held'[q][s] = Torn(p, q, s)'
  BY DEF Held, InSlot, GivenBack, Torn, Destroys

\* In sys_munmap and sys_mmap there is only one next page.
LEMMA NextUnique ==
    ASSUME NEW p \in Procs, stage[p] \in {"map", "unmap"}, CallFits(p),
           NEW a \in todo[p], IsNext(p, a)
    PROVE  OnlyNext(p, a)
  <1>1. \A b \in todo[p] : b = <<0, b[2]>> /\ b[2] \in Int
    BY SMTT(30) DEF CallFits, Virt
  <1>2. ASSUME NEW b \in todo[p], IsNext(p, b), b # a
        PROVE  FALSE
    <2>1. Mapping(a, b) /\ Mapping(b, a)
      BY <1>2, SMTT(30) DEF IsNext
    <2>2. a[1] = 0 /\ b[1] = 0 /\ a[2] \in Int /\ b[2] \in Int
      BY <1>1, <1>2, SMTT(30)
    <2> QED
      BY <2>1, <2>2, SMTT(30) DEF Mapping
  <1> QED
    BY <1>2 DEF OnlyNext

-----------------------------------------------------------------------------
\* Steps of a process that concern itself alone.

\* What the invariant says of other processes, and of two.
RelationsKept(p) ==
    /\ \A q \in Procs \ {p} : CallFits(q)'
    /\ \A q \in Procs : NoneIsEmpty(q)'
    /\ \A q, r \in Procs : ClonesFit(q, r)' /\ DestroysFit(q, r)' /\ OneCaller(q, r)'

\* The stages in which a call concerns its own process only.
Alone == {"run", "map", "unmap", "clear", "load", "doomed"}

\* A step of p alone leaves the calls of the others fitting, ...
LEMMA LocalCallFits ==
    ASSUME VaspaceInv, NEW p \in Procs, Local(p), NEW q \in Procs, q # p
    PROVE  CallFits(q)'
  <1>1. /\ root'[q] = root[q] /\ entry'[q] = entry[q] /\ stage'[q] = stage[q]
        /\ todo'[q] = todo[q] /\ page'[q] = page[q] /\ image'[q] = image[q]
    BY DEF Local
  <1>2. Present(q)' = Present(q)
    BY <1>1 DEF Present
  <1>3. CallFits(q)
    BY DEF VaspaceInv
  <1> QED
    BY <1>1, <1>2, <1>3, SMTT(30) DEF CallFits

\* ... and all that relates two processes, ...
LEMMA LocalKeeps ==
    ASSUME VaspaceInv, NEW p \in Procs, Local(p), stage[p] \in Alone,
           stage'[p] \in Alone \cup {"zombie"}
    PROVE  RelationsKept(p)
  <1>1. \A q \in Procs : ~Clones(p, q) /\ ~Clones(p, q)' /\ ~Destroys(p, q) /\ ~Destroys(p, q)'
    BY DEF Clones, Destroys, Alone
  <1>2. \A q, r \in Procs : (Clones(r, q)' <=> Clones(r, q)) /\ (Destroys(r, q)' <=> Destroys(r, q))
    BY <1>1 DEF Clones, Destroys, Local
  <1>3. \A r \in Procs : ~Clones(r, p) /\ ~Destroys(r, p)
    BY DEF VaspaceInv, ClonesFit, DestroysFit, Alone
  <1>4. ASSUME NEW q \in Procs, NEW r \in Procs
        PROVE  ClonesFit(q, r)' /\ DestroysFit(q, r)' /\ OneCaller(q, r)'
    <2>1. OneCaller(q, r)'
      BY <1>2 DEF VaspaceInv, OneCaller
    <2>2. CASE q = p \/ r = p
      BY <1>1, <1>2, <1>3, <2>1, <2>2 DEF ClonesFit, DestroysFit
    <2>3. CASE q # p /\ r # p
      <3>1. ClonesFit(q, r) /\ DestroysFit(q, r)
        BY DEF VaspaceInv
      <3>2. stage'[r] = stage[r] /\ root'[r] = root[r] /\ entry'[r] = entry[r]
            /\ entry'[q] = entry[q] /\ todo'[q] = todo[q]
        BY <2>3 DEF Local
      <3>3. Present(q)' = Present(q) /\ Present(r)' = Present(r)
        BY <3>2 DEF Present
      <3> QED
        BY <1>2, <2>1, <3>1, <3>2, <3>3 DEF ClonesFit, DestroysFit
    <2> QED
      BY <2>2, <2>3
  <1>5. ASSUME NEW q \in Procs
        PROVE  NoneIsEmpty(q)'
    <2>1. CASE q = p
      BY <2>1 DEF NoneIsEmpty, Alone
    <2>2. CASE q # p
      BY <1>2, <2>2 DEF VaspaceInv, NoneIsEmpty, Local
    <2> QED
      BY <2>1, <2>2
  <1> QED
    BY <1>4, <1>5, LocalCallFits DEF RelationsKept

\* ... so that only what concerns p and the pages remains to be shown.
LEMMA LocalInv ==
    ASSUME VaspaceInv, NEW p \in Procs, Local(p), stage[p] \in Alone,
           stage'[p] \in Alone \cup {"zombie"},
           VaspaceTypeOK', Apart(Held', free', lost'), LostFit', CallFits(p)'
    PROVE  VaspaceInv'
  BY LocalKeeps DEF VaspaceInv, RelationsKept

\* Such a step that moves no page.
LEMMA LocalSame ==
    ASSUME VaspaceInv, NEW p \in Procs, Local(p), stage[p] \in Alone,
           stage'[p] \in Alone \cup {"zombie"},
           stage[p] # "unmap" \/ page[p] = 0, stage'[p] # "unmap" \/ page'[p] = 0,
           \A s \in Slots : Plain(p, s)' = Plain(p, s), UNCHANGED <<free, lost>>
    PROVE  Apart(Held', free', lost')
  <1>1. NotDestroyed(p)
    BY NobodyDestroys DEF Alone
  <1>2. NotDestroyed(p)'
    BY <1>1, NobodyDestroysNext DEF Alone
  <1>3. OthersKeep(p)
    BY LocalHeld DEF Alone
  <1>4. \A s \in Slots : Held'[p][s] = Held[p][s]
    BY <1>1, <1>2, PlainHeld, PlainHeldNext
  <1>5. Same(Held', Held)
    BY <1>3, <1>4 DEF Same, OthersKeep
  <1>6. Apart(Held, free, lost)
    BY DEF VaspaceInv
  <1> QED
    BY <1>5, <1>6, SameApart

\* Such a step that takes a free page.
LEMMA LocalTake ==
    ASSUME VaspaceInv, NEW p \in Procs, Local(p), stage[p] \in Alone \ {"unmap"},
           stage'[p] \in Alone \ {"unmap"}, NEW x \in free, NEW e \in Slots,
           Plain(p, e) = 0, Plain(p, e)' = x,
           \A s \in Slots : s = e \/ Plain(p, s)' = Plain(p, s),
           free' = free \ {x}, lost' = lost
    PROVE  Apart(Held', free', lost')
  <1>1. NotDestroyed(p)
    BY NobodyDestroys DEF Alone
  <1>2. NotDestroyed(p)'
    BY <1>1, NobodyDestroysNext DEF Alone
  <1>3. OthersKeep(p)
    BY LocalHeld DEF Alone
  <1>4. \A s \in Slots : Held[p][s] = Plain(p, s) /\ Held'[p][s] = Plain(p, s)'
    BY <1>1, <1>2, PlainHeld, PlainHeldNext
  <1>5. Sets(Held', Held, p, e, x)
    BY <1>3, <1>4 DEF Sets, OthersKeep
  <1>6. Apart(Held, free, lost) /\ 0 \notin free /\ 0 \notin Frames
    BY VaspaceAssumption DEF VaspaceInv, VaspaceTypeOK
  <1> QED
    BY <1>4, <1>5, <1>6, TakeApart

\* Such a step that gives a page back.
LEMMA LocalGive ==
    ASSUME VaspaceInv, NEW p \in Procs, Local(p), stage[p] \in Alone \ {"unmap"},
           stage'[p] \in Alone \ {"unmap"}, NEW e \in Slots,
           Plain(p, e) # 0, Plain(p, e)' = 0,
           \A s \in Slots : s = e \/ Plain(p, s)' = Plain(p, s),
           free' = free \cup {Plain(p, e)}, lost' = lost
    PROVE  Apart(Held', free', lost')
  <1>1. NotDestroyed(p)
    BY NobodyDestroys DEF Alone
  <1>2. NotDestroyed(p)'
    BY <1>1, NobodyDestroysNext DEF Alone
  <1>3. OthersKeep(p)
    BY LocalHeld DEF Alone
  <1>4. \A s \in Slots : Held[p][s] = Plain(p, s) /\ Held'[p][s] = Plain(p, s)'
    BY <1>1, <1>2, PlainHeld, PlainHeldNext
  <1>5. Sets(Held', Held, p, e, 0)
    BY <1>3, <1>4 DEF Sets, OthersKeep
  <1>6. Apart(Held, free, lost) /\ 0 \notin Frames
    BY VaspaceAssumption DEF VaspaceInv
  <1>7. Apart(Held', free \cup {Held[p][e]}, lost)
    BY <1>4, <1>5, <1>6, GiveApart
  <1> QED
    BY <1>4, <1>7

-----------------------------------------------------------------------------
\* The system calls, action by action.

\* pmm_allocate gives a free page.
LEMMA AllocatedIn ==
    ASSUME VaspaceInv, free # {}
    PROVE  Allocated \in free /\ Allocated \in Frames /\ Allocated # 0
  <1>1. Allocated \in free
    BY DEF Allocated
  <1> QED
    BY <1>1, VaspaceAssumption DEF VaspaceInv, VaspaceTypeOK

\* An entry that is present refers to a page of memory.
LEMMA EntryTyped ==
    ASSUME VaspaceTypeOK, NEW p \in Procs, NEW e \in PTEs, entry[p][e] # 0
    PROVE  entry[p][e] \in Frames
  BY SMTT(30) DEF VaspaceTypeOK

\* The entry e of p has become x.
Wrote(p, e, x) ==
    /\ entry' \in [Procs -> [PTEs -> Frames \cup {0}]]
    /\ entry'[p][e] = x
    /\ \A f \in PTEs : f = e \/ entry'[p][f] = entry[p][f]
    /\ \A q \in Procs : q = p \/ entry'[q] = entry[q]

\* What writing an entry does.
LEMMA EntryWritten ==
    ASSUME VaspaceTypeOK, NEW p \in Procs, NEW e \in PTEs, NEW x \in Frames \cup {0},
           entry' = [entry EXCEPT ![p][e] = x]
    PROVE  Wrote(p, e, x)
  BY SMTT(30) DEF VaspaceTypeOK, Wrote

\* A call begins.
LEMMA BeginKeeps ==
    ASSUME VaspaceInv, NEW p \in Procs, NEW name \in {"map", "unmap", "clear"},
           NEW items \in SUBSET (PTEs \cup (Nat \X Virt)), Begin(p, name, items),
           UNCHANGED <<free, root, entry, other, page, image, vmm, lost>>, CallFits(p)'
    PROVE  VaspaceInv'
  <1>1. VaspaceTypeOK /\ CallFits(p) /\ LostFit
    BY DEF VaspaceInv
  <1>2. stage[p] = "run" /\ stage'[p] = name /\ page[p] = 0 /\ page'[p] = 0
    BY <1>1 DEF Begin, VaspaceTypeOK, CallFits
  <1>3. Local(p)
    BY <1>1 DEF Begin, Local, VaspaceTypeOK
  <1>4. VaspaceTypeOK'
    BY <1>1, SMTT(30) DEF Begin, VaspaceTypeOK, Stages
  <1>5. \A s \in Slots : Plain(p, s)' = Plain(p, s)
    BY DEF Plain
  <1>6. stage[p] \in Alone /\ stage'[p] \in Alone
    BY <1>2 DEF Alone
  <1>7. Apart(Held', free', lost')
    BY <1>2, <1>3, <1>5, <1>6, LocalSame
  <1> QED
    BY <1>1, <1>3, <1>4, <1>6, <1>7, LocalInv DEF LostFit

\* sys_mmap finds pages that are not mapped.
LEMMA MmapStep ==
    ASSUME VaspaceInv, NEW p \in Procs, NEW hint \in Virt, NEW n \in 1 .. MaxMapped,
           sys_mmap(p, hint, n)
    PROVE  VaspaceInv'
  <1>1. PICK v \in hint .. USER_END - n :
           /\ \A j \in 0 .. n - 1 : entry[p][<<0, v + j>>] = 0
           /\ Begin(p, "map", {<<0, u>> : u \in v .. v + n - 1})
    BY DEF sys_mmap
  <1>2. \A u \in v .. v + n - 1 : u \in Virt /\ entry[p][<<0, u>>] = 0
    <2>1. ASSUME NEW u \in v .. v + n - 1
          PROVE  u - v \in 0 .. n - 1 /\ v + (u - v) = u /\ u \in Virt
      BY VaspaceAssumption, SMTT(30) DEF Virt
    <2> QED
      BY <1>1, <2>1
  <1>3. UNCHANGED <<free, root, entry, other, page, image, vmm, lost>>
    BY DEF sys_mmap
  <1>4. stage'[p] = "map" /\ page'[p] = 0 /\ root'[p] # 0
        /\ todo'[p] = {<<0, u>> : u \in v .. v + n - 1}
    BY <1>1, <1>3 DEF VaspaceInv, VaspaceTypeOK, CallFits, Begin
  <1>5. CallFits(p)'
    BY <1>2, <1>3, <1>4, SMTT(30) DEF CallFits, Leaf
  <1>6. {<<0, u>> : u \in v .. v + n - 1} \in SUBSET (PTEs \cup (Nat \X Virt))
    BY <1>2, SMTT(30)
  <1> QED
    BY <1>1, <1>3, <1>5, <1>6, BeginKeeps

\* sys_munmap begins.
LEMMA MunmapStep ==
    ASSUME VaspaceInv, NEW p \in Procs, NEW v \in Virt, NEW n \in 1 .. MaxMapped,
           sys_munmap(p, v, n)
    PROVE  VaspaceInv'
  <1>1. Begin(p, "unmap", {<<0, u>> : u \in v .. v + n - 1})
    BY DEF sys_munmap
  <1>2. \A u \in v .. v + n - 1 : u \in Virt
    BY VaspaceAssumption, SMTT(30) DEF Virt, sys_munmap
  <1>3. UNCHANGED <<free, root, entry, other, page, image, vmm, lost>>
    BY DEF sys_munmap
  <1>4. stage'[p] = "unmap" /\ page'[p] = 0 /\ root'[p] # 0
        /\ todo'[p] = {<<0, u>> : u \in v .. v + n - 1}
    BY <1>1, <1>3 DEF VaspaceInv, VaspaceTypeOK, CallFits, Begin
  <1>5. CallFits(p)'
    BY <1>2, <1>4, SMTT(30) DEF CallFits
  <1>6. {<<0, u>> : u \in v .. v + n - 1} \in SUBSET (PTEs \cup (Nat \X Virt))
    BY <1>2, SMTT(30)
  <1> QED
    BY <1>1, <1>3, <1>5, <1>6, BeginKeeps

\* sys_execve begins.
LEMMA ExecveStep ==
    ASSUME VaspaceInv, NEW p \in Procs, sys_execve(p)
    PROVE  VaspaceInv'
  <1>1. Begin(p, "clear", Present(p))
    BY DEF sys_execve
  <1>3. UNCHANGED <<free, root, entry, other, page, image, vmm, lost>>
    BY DEF sys_execve
  <1>4. stage'[p] = "clear" /\ page'[p] = 0 /\ root'[p] # 0 /\ todo'[p] = Present(p)
    BY <1>1, <1>3 DEF VaspaceInv, VaspaceTypeOK, CallFits, Begin
  <1>5. CallFits(p)'
    BY <1>3, <1>4 DEF CallFits, Present
  <1>6. Present(p) \in SUBSET (PTEs \cup (Nat \X Virt))
    BY DEF Present
  <1> QED
    BY <1>1, <1>3, <1>5, <1>6, BeginKeeps

\* A call ends, or the process does.
LEMMA ReturnKeeps ==
    ASSUME VaspaceInv, NEW p \in Procs, stage[p] \in Alone, page[p] = 0,
           NEW name \in {"run", "doomed", "zombie"}, stage' = [stage EXCEPT ![p] = name],
           NEW im \in Images \cup {<<>>}, image' = [image EXCEPT ![p] = im],
           UNCHANGED <<free, root, entry, todo, other, page, vmm, lost>>
    PROVE  VaspaceInv'
  <1>1. VaspaceTypeOK /\ CallFits(p) /\ LostFit
    BY DEF VaspaceInv
  <1>2. stage'[p] = name /\ page'[p] = 0
    BY <1>1 DEF VaspaceTypeOK
  <1>3. Local(p)
    BY <1>1 DEF Local, VaspaceTypeOK
  <1>4. VaspaceTypeOK'
    BY <1>1, SMTT(30) DEF VaspaceTypeOK, Stages
  <1>5. \A s \in Slots : Plain(p, s)' = Plain(p, s)
    BY DEF Plain
  <1>6. stage'[p] \in Alone \cup {"zombie"} /\ stage'[p] # "unmap"
    BY <1>2 DEF Alone
  <1>7. Apart(Held', free', lost')
    BY <1>3, <1>5, <1>6, LocalSame
  <1>8. CallFits(p)'
    BY <1>1, <1>2 DEF CallFits, Alone
  <1> QED
    BY <1>1, <1>3, <1>4, <1>6, <1>7, <1>8, LocalInv DEF LostFit

\* The returns, and the end of a process.
LEMMA ReturnStep ==
    ASSUME VaspaceInv, NEW p \in Procs,
           MapReturn(p) \/ UnmapReturn(p) \/ LoadReturn(p) \/ sys_exit(p)
    PROVE  VaspaceInv'
  <1>1. image = [image EXCEPT ![p] = image[p]] /\ image[p] \in Images \cup {<<>>}
    BY DEF VaspaceInv, VaspaceTypeOK
  <1>2. CallFits(p)
    BY DEF VaspaceInv
  <1>3. CASE MapReturn(p)
    BY <1>1, <1>2, <1>3, ReturnKeeps DEF MapReturn, CallFits, Alone
  <1>4. CASE UnmapReturn(p)
    BY <1>1, <1>2, <1>4, ReturnKeeps DEF UnmapReturn, CallFits, Alone
  <1>5. CASE LoadReturn(p)
    BY <1>2, <1>5, ReturnKeeps DEF LoadReturn, CallFits, Alone
  <1>6. CASE sys_exit(p)
    BY <1>1, <1>2, <1>6, ReturnKeeps DEF sys_exit, CallFits, Alone
  <1> QED
    BY <1>3, <1>4, <1>5, <1>6

\* A page is allocated for the mapping.
LEMMA MapAllocateStep ==
    ASSUME VaspaceInv, NEW p \in Procs, MapAllocate(p)
    PROVE  VaspaceInv'
  <1>1. VaspaceTypeOK /\ CallFits(p) /\ LostFit
    BY DEF VaspaceInv
  <1>2. Allocated \in free /\ Allocated \in Frames /\ Allocated # 0
    BY AllocatedIn DEF MapAllocate
  <1>3. page' = [page EXCEPT ![p] = Allocated] /\ page[p] = 0 /\ page'[p] = Allocated
    BY <1>1 DEF MapAllocate, VaspaceTypeOK
  <1>4. UNCHANGED <<root, entry, stage, todo, other, image, lost>> /\ free' = free \ {Allocated}
    BY DEF MapAllocate
  <1>5. Local(p)
    BY <1>1, <1>3, <1>4 DEF Local, VaspaceTypeOK
  <1>6. VaspaceTypeOK'
    BY <1>1, <1>2, <1>3, <1>4, SMTT(30) DEF VaspaceTypeOK
  <1>7. /\ Plain(p, HAND) = 0 /\ Plain(p, HAND)' = Allocated
        /\ \A s \in Slots : s = HAND \/ Plain(p, s)' = Plain(p, s)
    BY <1>3, <1>4, SlotsApart DEF Plain
  <1>8. stage[p] \in Alone \ {"unmap"} /\ stage'[p] \in Alone \ {"unmap"}
    BY <1>4 DEF MapAllocate, Alone
  <1>9. Apart(Held', free', lost')
    BY <1>2, <1>4, <1>5, <1>7, <1>8, LocalTake DEF Slots
  <1>10. CallFits(p)'
    BY <1>1, <1>4 DEF CallFits, MapAllocate, Present
  <1> QED
    BY <1>1, <1>4, <1>5, <1>6, <1>8, <1>9, <1>10, LocalInv DEF LostFit

\* A table is added where there was none.
LEMMA AddTableStep ==
    ASSUME VaspaceInv, NEW p \in Procs, AddTable(p)
    PROVE  VaspaceInv'
  <1>1. VaspaceTypeOK /\ CallFits(p) /\ LostFit
    BY DEF VaspaceInv
  <1>2. Allocated \in free /\ Allocated \in Frames /\ Allocated # 0
    BY AllocatedIn DEF AddTable
  <1>3. PICK a \in todo[p], k \in 1..LEVELS :
           entry[p][Index(k, a[2])] = 0 /\ entry' = [entry EXCEPT ![p][Index(k, a[2])] = Allocated]
    BY DEF AddTable, Missing
  <1>4. UNCHANGED <<root, stage, todo, other, page, image, lost>> /\ free' = free \ {Allocated}
    BY DEF AddTable
  <1>5. stage[p] \in {"map", "load"} /\ page[p] # 0
    BY DEF AddTable
  <1>6. a[2] \in Virt
    <2>1. CASE stage[p] = "map"
      <3>1. a \in {<<0, v>> : v \in Virt}
        BY <1>1, <2>1 DEF CallFits
      <3> QED
        BY <3>1, SMTT(30)
    <2>2. CASE stage[p] = "load"
      <3>1. a \in Nat \X Virt
        BY <1>1, <2>2, ItemsTyped DEF CallFits, VaspaceTypeOK
      <3> QED
        BY <3>1, ItemIs
    <2> QED
      BY <1>5, <2>1, <2>2
  <1> DEFINE e == Index(k, a[2])
  <1>7. e \in PTEs /\ \A w : e # <<0, w>>
    BY <1>6, LeafIs
  <1> HIDE DEF e
  <1>8. entry[p][e] = 0 /\ Wrote(p, e, Allocated)
    BY <1>1, <1>2, <1>3, <1>7, EntryWritten DEF e
  <1>9. Local(p)
    BY <1>4, <1>8 DEF Local, Wrote
  <1>10. VaspaceTypeOK'
    BY <1>1, <1>4, <1>8 DEF VaspaceTypeOK, Wrote
  <1>11. /\ Plain(p, e) = 0 /\ Plain(p, e)' = Allocated
         /\ \A s \in Slots : s = e \/ Plain(p, s)' = Plain(p, s)
    BY <1>4, <1>7, <1>8, SlotsApart DEF Plain, Wrote, Slots
  <1>12. stage[p] \in Alone \ {"unmap"} /\ stage'[p] \in Alone \ {"unmap"}
    BY <1>4, <1>5 DEF Alone
  <1>13. Apart(Held', free', lost')
    BY <1>2, <1>4, <1>7, <1>9, <1>11, <1>12, LocalTake DEF Slots
  <1>14. \A v \in Virt : entry'[p][<<0, v>>] = entry[p][<<0, v>>]
    BY <1>7, <1>8, LeafIs DEF Wrote
  <1>15. CallFits(p)'
    <2>1. CASE stage[p] = "map"
      <3>1. \A b \in todo[p] : b[2] \in Virt
        BY <1>1, <2>1, SMTT(30) DEF CallFits
      <3> QED
        BY <1>1, <1>4, <1>5, <1>14, <2>1, <3>1 DEF CallFits, Leaf
    <2>2. CASE stage[p] = "load"
      BY <1>1, <1>4, <1>5, <1>14, <2>2 DEF CallFits
    <2> QED
      BY <1>5, <2>1, <2>2
  <1> QED
    BY <1>1, <1>4, <1>9, <1>10, <1>12, <1>13, <1>15, LocalInv DEF LostFit

\* sys_munmap gives up.
LEMMA UnmapGiveUpStep ==
    ASSUME VaspaceInv, NEW p \in Procs, UnmapGiveUp(p)
    PROVE  VaspaceInv'
  <1>1. VaspaceTypeOK /\ CallFits(p) /\ LostFit
    BY DEF VaspaceInv
  <1>2. UNCHANGED <<free, root, entry, stage, other, page, image, vmm, lost>>
    BY DEF UnmapGiveUp
  <1>3. stage[p] = "unmap" /\ page[p] = 0 /\ todo'[p] = {}
    BY <1>1 DEF UnmapGiveUp, VaspaceTypeOK
  <1>4. Local(p)
    BY <1>1, <1>2 DEF Local, VaspaceTypeOK, UnmapGiveUp
  <1>5. VaspaceTypeOK'
    BY <1>1, <1>2, SMTT(30) DEF VaspaceTypeOK, UnmapGiveUp
  <1>6. \A s \in Slots : Plain(p, s)' = Plain(p, s)
    BY <1>2 DEF Plain
  <1>7. stage[p] \in Alone /\ stage'[p] \in Alone
    BY <1>2, <1>3 DEF Alone
  <1>8. Apart(Held', free', lost')
    BY <1>2, <1>3, <1>4, <1>6, <1>7, LocalSame
  <1>9. CallFits(p)'
    BY <1>1, <1>2, <1>3 DEF CallFits
  <1> QED
    BY <1>1, <1>2, <1>4, <1>5, <1>7, <1>8, <1>9, LocalInv DEF LostFit

\* The page in hand is mapped for the item a.
MapsItem(p, a) ==
    /\ a \in todo[p]
    /\ lost' = lost \cup ({entry[p][Leaf(a)]} \ {0})
    /\ entry' = [entry EXCEPT ![p][Leaf(a)] = page[p]]
    /\ todo' = [todo EXCEPT ![p] = @ \ {a}]
    /\ page' = [page EXCEPT ![p] = 0]
    /\ UNCHANGED <<free, root, stage, other, image>>

\* A mapping moves the page from the hand of the call to the entry.
LEMMA MapApart ==
    ASSUME VaspaceInv, NEW p \in Procs, Local(p), stage[p] \in Alone \ {"unmap"},
           stage'[p] = stage[p], NEW e \in PTEs, page[p] # 0, Wrote(p, e, page[p]),
           page'[p] = 0, root'[p] = root[p], free' = free,
           lost' = lost \cup ({entry[p][e]} \ {0})
    PROVE  Apart(Held', free', lost')
  <1>1. NotDestroyed(p)
    BY NobodyDestroys DEF Alone
  <1>2. NotDestroyed(p)'
    BY <1>1, NobodyDestroysNext DEF Alone
  <1>3. OthersKeep(p)
    BY LocalHeld DEF Alone
  <1>4. \A s \in Slots : Held[p][s] = Plain(p, s) /\ Held'[p][s] = Plain(p, s)'
    BY <1>1, <1>2, PlainHeld, PlainHeldNext
  <1>5. HAND \in Slots /\ e \in Slots /\ e # HAND /\ e # ROOT
    BY SlotsApart DEF Slots
  <1>6. Held[p][HAND] = page[p] /\ Held'[p][HAND] = 0
    BY <1>4, <1>5, SlotsApart DEF Plain
  <1>7. Held[p][e] = entry[p][e] /\ Held'[p][e] = page[p]
    BY <1>4, <1>5 DEF Plain, Wrote
  <1>8. \A s \in Slots : s \in {HAND, e} \/ Held'[p][s] = Held[p][s]
    BY <1>4 DEF Plain, Wrote, Slots
  <1>9. Moves(Held', Held, p, HAND, e)
    BY <1>3, <1>6, <1>7, <1>8 DEF Moves, OthersKeep
  <1>10. Apart(Held, free, lost) /\ 0 \notin Frames
    BY VaspaceAssumption DEF VaspaceInv
  <1>11. Apart(Held', free, lost \cup ({Held[p][e]} \ {0}))
    BY <1>5, <1>6, <1>9, <1>10, MoveApart
  <1> QED
    BY <1>7, <1>11

\* Only the loader may find a page mapped already, and only if the image overlaps.
LEMMA MapItemStep ==
    ASSUME VaspaceInv, NEW p \in Procs, NEW a, MapsItem(p, a),
           stage[p] \in {"map", "load"}, page[p] # 0
    PROVE  VaspaceInv'
  <1>1. VaspaceTypeOK /\ CallFits(p) /\ LostFit
    BY DEF VaspaceInv
  <1>2. /\ UNCHANGED <<free, root, stage, other, image>> /\ a \in todo[p]
        /\ lost' = lost \cup ({entry[p][Leaf(a)]} \ {0})
    BY DEF MapsItem
  <1>3. page'[p] = 0 /\ todo'[p] = todo[p] \ {a}
    BY <1>1 DEF MapsItem, VaspaceTypeOK
  <1>4. \A b \in todo[p] : b \in Nat \X Virt /\ (stage[p] = "map" => b = <<0, b[2]>>)
    <2>1. CASE stage[p] = "map"
      <3>1. todo[p] \subseteq {<<0, v>> : v \in Virt}
        BY <1>1, <2>1 DEF CallFits
      <3> QED
        BY <3>1, SMTT(30)
    <2>2. CASE stage[p] = "load"
      BY <1>1, <2>2, ItemsTyped DEF CallFits, VaspaceTypeOK
    <2> QED
      BY <2>1, <2>2
  <1>5. a[2] \in Virt /\ Leaf(a) \in PTEs
    BY <1>2, <1>4, ItemIs
  <1>6. Wrote(p, Leaf(a), page[p])
    <2>1. page[p] \in Frames \cup {0} /\ entry' = [entry EXCEPT ![p][Leaf(a)] = page[p]]
      BY <1>1 DEF VaspaceTypeOK, MapsItem
    <2> QED
      BY <1>1, <1>5, <2>1, EntryWritten
  <1>7. Local(p)
    BY <1>1, <1>2, <1>6 DEF Local, Wrote, MapsItem, VaspaceTypeOK
  <1>8. VaspaceTypeOK'
    <2>1. page' \in [Procs -> Frames \cup {0}]
          /\ todo' \in [Procs -> SUBSET (PTEs \cup (Nat \X Virt))]
      BY <1>1, SMTT(30) DEF MapsItem, VaspaceTypeOK
    <2>2. lost' \subseteq Frames
      <3>1. entry[p][Leaf(a)] \in Frames \cup {0} /\ lost \subseteq Frames
        BY <1>1, <1>5 DEF VaspaceTypeOK
      <3> QED
        BY <1>2, <3>1
    <2> QED
      BY <1>1, <1>2, <1>6, <2>1, <2>2 DEF VaspaceTypeOK, Wrote
  <1>9. stage[p] \in Alone \ {"unmap"} /\ stage'[p] = stage[p] /\ root'[p] = root[p]
    BY <1>2 DEF Alone
  <1>10. Apart(Held', free', lost')
    BY <1>2, <1>3, <1>5, <1>6, <1>7, <1>9, MapApart
  <1>11. LostFit'
    <2>1. CASE entry[p][Leaf(a)] = 0
      BY <1>1, <1>2, <2>1 DEF LostFit
    <2>2. CASE entry[p][Leaf(a)] # 0
      <3>1. stage[p] = "load"
        BY <1>1, <1>2, <2>2 DEF CallFits
      <3>2. PICK b \in Items(image[p]) \ todo[p] : b[2] = a[2]
        BY <1>1, <1>5, <2>2, <3>1 DEF CallFits, Leaf
      <3>3. a \in Items(image[p]) /\ a # b
        BY <1>1, <1>2, <3>1, <3>2 DEF CallFits
      <3>4. Overlaps(image[p])
        BY <3>2, <3>3 DEF Overlaps
      <3>5. image[p] \in Images
        BY <1>1, <3>4, StackAlone DEF VaspaceTypeOK
      <3> QED
        BY <3>4, <3>5 DEF LostFit
    <2> QED
      BY <2>1, <2>2
  <1>12. CallFits(p)'
    <2>1. CASE stage[p] = "map"
      <3>1. \A b \in todo'[p] : Leaf(b) # Leaf(a) /\ Leaf(b) \in PTEs
        <4>1. ASSUME NEW b \in todo'[p]
              PROVE  b # a /\ b = <<0, b[2]>> /\ a = <<0, a[2]>> /\ b \in Nat \X Virt
          BY <1>2, <1>3, <1>4, <2>1
        <4>2. ASSUME NEW b \in todo'[p]
              PROVE  Leaf(b) # Leaf(a)
          BY <4>1 DEF Leaf
        <4> QED
          BY <4>1, <4>2, ItemIs
      <3>2. \A b \in todo'[p] : entry'[p][Leaf(b)] = entry[p][Leaf(b)]
        BY <1>6, <3>1 DEF Wrote
      <3> QED
        BY <1>1, <1>2, <1>3, <2>1, <3>2 DEF CallFits
    <2>2. CASE stage[p] = "load"
      <3>1. ASSUME NEW v \in Virt, entry'[p][<<0, v>>] # 0
            PROVE  \E b \in Items(image[p]) \ todo'[p] : b[2] = v
        <4>1. CASE v = a[2]
          BY <1>1, <1>2, <1>3, <2>2, <4>1 DEF CallFits
        <4>2. CASE v # a[2]
          <5>1. <<0, v>> # Leaf(a)
            BY <4>2, SMTT(30) DEF Leaf
          <5>2. entry[p][<<0, v>>] # 0
            BY <1>6, <3>1, <5>1, LeafIs DEF Wrote
          <5> QED
            BY <1>1, <1>3, <2>2, <5>2 DEF CallFits
        <4> QED
          BY <4>1, <4>2
      <3> QED
        BY <1>1, <1>2, <1>3, <2>2, <3>1 DEF CallFits
    <2> QED
      BY <2>1, <2>2
  <1> QED
    BY <1>7, <1>8, <1>9, <1>10, <1>11, <1>12, LocalInv

\* vmm_map.
LEMMA MapStep ==
    ASSUME VaspaceInv, NEW p \in Procs, vmm_map(p)
    PROVE  VaspaceInv'
  <1>1. PICK a \in todo[p] : MapsItem(p, a)
    BY DEF vmm_map, MapsItem
  <1> QED
    BY <1>1, MapItemStep DEF vmm_map

\* A page is given back; from here on its entry does not count.
LEMMA UnmapFreeStep ==
    ASSUME VaspaceInv, NEW p \in Procs, UnmapFree(p)
    PROVE  VaspaceInv'
  <1>1. VaspaceTypeOK /\ CallFits(p) /\ LostFit
    BY DEF VaspaceInv
  <1>2. PICK a \in todo[p] :
           /\ IsNext(p, a) /\ entry[p][Leaf(a)] # 0
           /\ page' = [page EXCEPT ![p] = entry[p][Leaf(a)]]
           /\ free' = free \cup {entry[p][Leaf(a)]}
    BY DEF UnmapFree
  <1>3. UNCHANGED <<root, entry, stage, todo, other, image, lost>>
        /\ stage[p] = "unmap" /\ page[p] = 0
    BY DEF UnmapFree
  <1>4. a \in Nat \X Virt
    <2>1. a \in {<<0, v>> : v \in Virt}
      BY <1>1, <1>3 DEF CallFits
    <2> QED
      BY <2>1, SMTT(30)
  <1>5. Leaf(a) \in PTEs
    BY <1>4, ItemIs
  <1>6. entry[p][Leaf(a)] \in Frames
    BY <1>1, <1>2, <1>5, EntryTyped
  <1>7. Local(p)
    BY <1>1, <1>2, <1>3 DEF Local, VaspaceTypeOK
  <1>8. VaspaceTypeOK'
    BY <1>1, <1>2, <1>3, <1>6, SMTT(30) DEF VaspaceTypeOK
  <1>9. page'[p] = entry[p][Leaf(a)]
    BY <1>1, <1>2 DEF VaspaceTypeOK
  <1>10. stage[p] \in Alone /\ stage'[p] \in Alone
    BY <1>3 DEF Alone
  <1>11. NotDestroyed(p)
    BY <1>3, NobodyDestroys
  <1>12. NotDestroyed(p)'
    BY <1>3, <1>7, <1>11, NobodyDestroysNext
  <1>13. OnlyNext(p, a)'
    <2>1. OnlyNext(p, a)
      BY <1>1, <1>2, <1>3, NextUnique
    <2> QED
      BY <1>3, <2>1 DEF OnlyNext, IsNext
  <1>14. \A s \in Slots : Held[p][s] = Plain(p, s)
    BY <1>3, <1>11, PlainHeld
  <1>15. \A s \in Slots : Held'[p][s] = Windowed(p, a, s)'
    BY <1>2, <1>3, <1>5, <1>9, <1>12, <1>13, WindowHeldNext
  <1>16. Leaf(a) \in Slots /\ Leaf(a) # HAND /\ Leaf(a) # ROOT /\ ROOT # HAND
    BY <1>5, SlotsApart DEF Slots
  <1>17. Held[p][Leaf(a)] = entry[p][Leaf(a)]
    BY <1>14, <1>16 DEF Plain
  <1>18. Sets(Held', Held, p, Leaf(a), 0)
    <2>1. \A s \in Slots : s = Leaf(a) \/ Held'[p][s] = Held[p][s]
      BY <1>3, <1>14, <1>15, <1>16 DEF Windowed, Plain
    <2>2. OthersKeep(p)
      BY <1>3, <1>7, LocalHeld
    <2>3. Held'[p][Leaf(a)] = 0
      BY <1>15, <1>16 DEF Windowed
    <2> QED
      BY <2>1, <2>2, <2>3 DEF Sets, OthersKeep
  <1>19. Apart(Held', free \cup {Held[p][Leaf(a)]}, lost)
    <2>1. Apart(Held, free, lost) /\ 0 \notin Frames
      BY VaspaceAssumption DEF VaspaceInv
    <2> QED
      BY <1>2, <1>16, <1>17, <1>18, <2>1, GiveApart
  <1>20. Apart(Held', free', lost')
    BY <1>2, <1>3, <1>17, <1>19
  <1>21. CallFits(p)'
    BY <1>1, <1>2, <1>3 DEF CallFits
  <1> QED
    BY <1>1, <1>3, <1>7, <1>8, <1>10, <1>20, <1>21, LocalInv DEF LostFit

\* vmm_unmap clears the entry that did not count.
LEMMA UnmapStep ==
    ASSUME VaspaceInv, NEW p \in Procs, vmm_unmap(p)
    PROVE  VaspaceInv'
  <1>1. VaspaceTypeOK /\ CallFits(p) /\ LostFit
    BY DEF VaspaceInv
  <1>2. PICK a \in todo[p] :
           /\ IsNext(p, a)
           /\ entry' = [entry EXCEPT ![p][Leaf(a)] = 0]
           /\ todo' = [todo EXCEPT ![p] = @ \ {a}]
    BY DEF vmm_unmap
  <1>3. UNCHANGED <<free, root, stage, other, image, lost>>
        /\ stage[p] = "unmap" /\ page[p] # 0 /\ page' = [page EXCEPT ![p] = 0]
    BY DEF vmm_unmap
  <1>4. a \in Nat \X Virt
    <2>1. a \in {<<0, v>> : v \in Virt}
      BY <1>1, <1>3 DEF CallFits
    <2> QED
      BY <2>1, SMTT(30)
  <1>5. Leaf(a) \in PTEs
    BY <1>4, ItemIs
  <1>6. Wrote(p, Leaf(a), 0)
    BY <1>1, <1>2, <1>5, EntryWritten
  <1>7. Local(p)
    BY <1>1, <1>2, <1>3, <1>6 DEF Local, VaspaceTypeOK, Wrote
  <1>8. VaspaceTypeOK'
    <2>1. page' \in [Procs -> Frames \cup {0}]
          /\ todo' \in [Procs -> SUBSET (PTEs \cup (Nat \X Virt))]
      BY <1>1, <1>2, <1>3, SMTT(30) DEF VaspaceTypeOK
    <2> QED
      BY <1>1, <1>3, <1>6, <2>1 DEF VaspaceTypeOK, Wrote
  <1>9. page'[p] = 0 /\ todo'[p] = todo[p] \ {a}
    BY <1>1, <1>2, <1>3 DEF VaspaceTypeOK
  <1>10. stage[p] \in Alone /\ stage'[p] \in Alone
    BY <1>3 DEF Alone
  <1>11. NotDestroyed(p)
    BY <1>3, NobodyDestroys
  <1>12. NotDestroyed(p)'
    BY <1>3, <1>7, <1>11, NobodyDestroysNext
  <1>13. OnlyNext(p, a)
    BY <1>1, <1>2, <1>3, NextUnique
  <1>14. \A s \in Slots : Held[p][s] = Windowed(p, a, s)
    BY <1>3, <1>5, <1>11, <1>13, WindowHeld
  <1>15. \A s \in Slots : Held'[p][s] = Plain(p, s)'
    BY <1>9, <1>12, PlainHeldNext
  <1>16. Leaf(a) # HAND /\ Leaf(a) # ROOT /\ ROOT # HAND
    BY <1>5, SlotsApart
  <1>17. \A s \in Slots : Held'[p][s] = Held[p][s]
    BY <1>3, <1>6, <1>9, <1>14, <1>15, <1>16 DEF Windowed, Plain, Wrote, Slots
  <1>18. Same(Held', Held)
    <2>1. OthersKeep(p)
      BY <1>3, <1>7, LocalHeld
    <2> QED
      BY <1>17, <2>1 DEF Same, OthersKeep
  <1>19. Apart(Held', free', lost')
    BY <1>3, <1>18, SameApart DEF VaspaceInv
  <1>20. CallFits(p)'
    BY <1>1, <1>3, <1>9 DEF CallFits
  <1> QED
    BY <1>1, <1>3, <1>7, <1>8, <1>10, <1>19, <1>20, LocalInv DEF LostFit

\* execve gives back a page of the old image.
LEMMA ClearStep ==
    ASSUME VaspaceInv, NEW p \in Procs, arch_vaspace_clear(p)
    PROVE  VaspaceInv'
  <1>1. VaspaceTypeOK /\ CallFits(p) /\ LostFit
    BY DEF VaspaceInv
  <1>2. PICK e \in todo[p] :
           /\ entry' = [entry EXCEPT ![p][e] = 0]
           /\ free' = free \cup {entry[p][e]}
           /\ todo' = [todo EXCEPT ![p] = @ \ {e}]
    BY DEF arch_vaspace_clear
  <1>3. UNCHANGED <<root, stage, other, page, image, lost>> /\ stage[p] = "clear"
    BY DEF arch_vaspace_clear
  <1>4. e \in PTEs /\ entry[p][e] # 0 /\ todo[p] = Present(p)
    BY <1>1, <1>2, <1>3 DEF CallFits, Present
  <1>5. Wrote(p, e, 0)
    BY <1>1, <1>2, <1>4, EntryWritten
  <1>6. Local(p)
    BY <1>1, <1>2, <1>3, <1>5 DEF Local, VaspaceTypeOK, Wrote
  <1>7. VaspaceTypeOK'
    <2>1. todo' \in [Procs -> SUBSET (PTEs \cup (Nat \X Virt))]
      BY <1>1, <1>2, SMTT(30) DEF VaspaceTypeOK
    <2>2. entry[p][e] \in Frames
      BY <1>1, <1>4, EntryTyped
    <2> QED
      BY <1>1, <1>2, <1>3, <1>5, <2>1, <2>2 DEF VaspaceTypeOK, Wrote
  <1>8. stage[p] \in Alone \ {"unmap"} /\ stage'[p] \in Alone \ {"unmap"}
    BY <1>3 DEF Alone
  <1>9. e \in Slots /\ e # HAND /\ e # ROOT
    BY <1>4, SlotsApart DEF Slots
  <1>10. Plain(p, e) = entry[p][e] /\ Plain(p, e)' = 0
    BY <1>5, <1>9 DEF Plain, Wrote
  <1>11. \A s \in Slots : s = e \/ Plain(p, s)' = Plain(p, s)
    BY <1>3, <1>5 DEF Plain, Wrote, Slots
  <1>12. Apart(Held', free', lost')
    BY <1>2, <1>3, <1>4, <1>6, <1>8, <1>9, <1>10, <1>11, LocalGive
  <1>13. CallFits(p)'
    <2>1. todo'[p] = todo[p] \ {e}
      BY <1>1, <1>2 DEF VaspaceTypeOK
    <2>2. Present(p)' = Present(p) \ {e}
      BY <1>4, <1>5 DEF Present, Wrote
    <2> QED
      BY <1>1, <1>3, <1>4, <2>1, <2>2 DEF CallFits
  <1> QED
    BY <1>1, <1>3, <1>6, <1>7, <1>8, <1>12, <1>13, LocalInv DEF LostFit

\* The loader begins in an empty address space.
LEMMA LoadStep ==
    ASSUME VaspaceInv, NEW p \in Procs, elf_exec_load(p)
    PROVE  VaspaceInv'
  <1>1. VaspaceTypeOK /\ CallFits(p) /\ LostFit
    BY DEF VaspaceInv
  <1>2. PICK im \in Images \cup {<<>>} :
           /\ image' = [image EXCEPT ![p] = im]
           /\ todo' = [todo EXCEPT ![p] = Items(im)]
    BY DEF elf_exec_load
  <1>3. /\ UNCHANGED <<free, root, entry, other, page, lost>>
        /\ stage[p] = "clear" /\ todo[p] = {} /\ stage' = [stage EXCEPT ![p] = "load"]
    BY DEF elf_exec_load
  <1>4. Local(p)
    BY <1>1, <1>2, <1>3 DEF Local, VaspaceTypeOK
  <1>5. VaspaceTypeOK'
    <2>1. Items(im) \subseteq Nat \X Virt
      BY ItemsTyped
    <2>2. todo' \in [Procs -> SUBSET (PTEs \cup (Nat \X Virt))]
      BY <1>1, <1>2, <2>1, SMTT(30) DEF VaspaceTypeOK
    <2>3. stage' \in [Procs -> Stages] /\ image' \in [Procs -> Images \cup {<<>>}]
      BY <1>1, <1>2, <1>3, SMTT(30) DEF VaspaceTypeOK, Stages
    <2> QED
      BY <1>1, <1>3, <2>2, <2>3 DEF VaspaceTypeOK
  <1>6. stage'[p] = "load" /\ image'[p] = im /\ todo'[p] = Items(im)
    BY <1>1, <1>2, <1>3 DEF VaspaceTypeOK
  <1>7. page[p] = 0 /\ root[p] # 0
    BY <1>1, <1>3 DEF CallFits
  <1>8. stage[p] \in Alone /\ stage'[p] \in Alone
    BY <1>3, <1>6 DEF Alone
  <1>9. \A s \in Slots : Plain(p, s)' = Plain(p, s)
    BY <1>3 DEF Plain
  <1>10. Apart(Held', free', lost')
    BY <1>3, <1>4, <1>6, <1>7, <1>8, <1>9, LocalSame
  <1>11. \A v \in Virt : entry'[p][<<0, v>>] = 0
    BY <1>1, <1>3, LeafIs DEF CallFits, Present
  <1>12. CallFits(p)'
    BY <1>3, <1>6, <1>7, <1>11 DEF CallFits
  <1> QED
    BY <1>1, <1>3, <1>4, <1>5, <1>8, <1>10, <1>12, LocalInv DEF LostFit

-----------------------------------------------------------------------------
\* Steps that concern two processes.

\* A call fits as long as nothing touches its process, ...
LEMMA CallKept ==
    ASSUME NEW r \in Procs, CallFits(r), Untouched(r), image'[r] = image[r]
    PROVE  CallFits(r)'
  <1>1. Present(r)' = Present(r)
    BY DEF Present, Untouched
  <1> QED
    BY <1>1, SMTT(30) DEF CallFits, Untouched

\* ... and so does a fork, ...
LEMMA ClonesKept ==
    ASSUME NEW r \in Procs, NEW s \in Procs, ClonesFit(r, s), Clones(r, s)' => Clones(r, s),
           stage'[s] = stage[s], root'[s] = root[s], entry'[r] = entry[r], entry'[s] = entry[s],
           todo'[r] = todo[r]
    PROVE  ClonesFit(r, s)'
  <1>1. Present(r)' = Present(r) /\ Present(s)' = Present(s)
    BY DEF Present
  <1> QED
    BY <1>1 DEF ClonesFit

\* ... and the freeing of a process.
LEMMA DestroysKept ==
    ASSUME NEW r \in Procs, NEW s \in Procs, DestroysFit(r, s), Destroys(r, s)' => Destroys(r, s),
           stage'[s] = stage[s], entry'[s] = entry[s], todo'[r] = todo[r]
    PROVE  DestroysFit(r, s)'
  <1>1. Present(s)' = Present(s)
    BY DEF Present
  <1> QED
    BY <1>1 DEF DestroysFit

\* p forks: q gets a root.
LEMMA NewStep ==
    ASSUME VaspaceInv, NEW p \in Procs, NEW q \in Procs, arch_vaspace_new(p, q)
    PROVE  VaspaceInv'
  <1>1. /\ VaspaceTypeOK /\ LostFit /\ Apart(Held, free, lost)
        /\ \A r \in Procs : CallFits(r) /\ NoneIsEmpty(r)
        /\ \A r, s \in Procs : ClonesFit(r, s) /\ DestroysFit(r, s) /\ OneCaller(r, s)
    BY DEF VaspaceInv
  <1>2. Allocated \in free /\ Allocated \in Frames /\ Allocated # 0
    BY AllocatedIn DEF arch_vaspace_new
  <1>3. /\ stage[p] = "run" /\ stage[q] = "none" /\ root[q] = 0 /\ p # q
        /\ free' = free \ {Allocated} /\ UNCHANGED <<entry, page, image, lost>>
    BY DEF arch_vaspace_new, Begin
  <1>4. /\ stage'[p] = "clone" /\ todo'[p] = Present(p) /\ other'[p] = q /\ root'[q] = Allocated
        /\ \A r \in Procs : r = p \/ (stage'[r] = stage[r] /\ todo'[r] = todo[r] /\ other'[r] = other[r])
        /\ \A r \in Procs : r = q \/ root'[r] = root[r]
    BY <1>1 DEF arch_vaspace_new, Begin, VaspaceTypeOK
  <1>5. VaspaceTypeOK'
    <2>1. Present(p) \subseteq PTEs
      BY DEF Present
    <2>2. todo' \in [Procs -> SUBSET (PTEs \cup (Nat \X Virt))]
      BY <1>1, <2>1, SMTT(30) DEF VaspaceTypeOK, arch_vaspace_new, Begin
    <2>3. /\ stage' \in [Procs -> Stages] /\ other' \in [Procs -> Procs]
          /\ root' \in [Procs -> Frames \cup {0}] /\ free' \subseteq Frames
      BY <1>1, <1>2, SMTT(30) DEF VaspaceTypeOK, arch_vaspace_new, Begin, Stages
    <2> QED
      BY <1>1, <1>3, <2>2, <2>3 DEF VaspaceTypeOK
  <1>6. \A r, s \in Procs : Destroys(r, s)' <=> Destroys(r, s)
    BY <1>3, <1>4 DEF Destroys
  <1>7. \A r, s \in Procs : Destroys(r, s) => r # p /\ s # p /\ s # q
    BY <1>1, <1>3 DEF DestroysFit, Destroys
  <1>8. /\ \A r \in Procs : ~Clones(r, q) /\ ~Clones(r, p)
        /\ Clones(p, q)' /\ \A s \in Procs : Clones(p, s)' => s = q
    BY <1>1, <1>3, <1>4 DEF ClonesFit, Clones
  <1>9. \A r, s \in Procs : r = p \/ (Clones(r, s)' <=> Clones(r, s))
    BY <1>4 DEF Clones
  <1>10. \A s \in Procs : ~Clones(p, s)
    BY <1>3 DEF Clones
  <1>11. root[q] = 0 /\ entry[q] = Empty /\ page[q] = 0 /\ page[p] = 0
    BY <1>1, <1>3, <1>8 DEF NoneIsEmpty, CallFits
  <1>12. Apart(Held', free', lost')
    <2>1. ASSUME NEW r \in Procs, r # q
          PROVE  \A s \in Slots : Held'[r][s] = Held[r][s]
      <3>1. CASE r = p
        <4>1. NotDestroyed(p) /\ NotDestroyed(p)'
          BY <1>6, <1>7 DEF NotDestroyed
        <4>2. \A s \in Slots : Held[p][s] = Plain(p, s) /\ Held'[p][s] = Plain(p, s)'
          BY <1>3, <1>4, <4>1, PlainHeld, PlainHeldNext
        <4> QED
          BY <1>3, <1>4, <2>1, <3>1, <4>2 DEF Plain
      <3>2. CASE r # p
        <4>1. Untouched(r)
          BY <1>3, <1>4, <2>1, <3>2 DEF Untouched
        <4>2. \A d \in Procs : Destroys(d, r) => todo'[d] = todo[d]
          BY <1>4, <1>7
        <4> QED
          BY <1>6, <4>1, <4>2, HeldKept
      <3> QED
        BY <3>1, <3>2
    <2>2. NotDestroyed(q) /\ NotDestroyed(q)'
      BY <1>6, <1>7 DEF NotDestroyed
    <2>3. stage[q] # "unmap" /\ stage'[q] # "unmap"
      BY <1>3, <1>4
    <2>4. \A s \in Slots : Held[q][s] = Plain(q, s) /\ Held'[q][s] = Plain(q, s)'
      BY <2>2, <2>3, PlainHeld, PlainHeldNext
    <2>5. ROOT \in Slots
      BY DEF Slots
    <2>6. Sets(Held', Held, q, ROOT, Allocated) /\ Held[q][ROOT] = 0
      <3>1. \A s \in Slots : s = ROOT \/ Plain(q, s)' = Plain(q, s)
        BY <1>3 DEF Plain
      <3>2. Plain(q, ROOT) = 0 /\ Plain(q, ROOT)' = Allocated
        BY <1>3, <1>4 DEF Plain
      <3> QED
        BY <2>1, <2>4, <2>5, <3>1, <3>2 DEF Sets
    <2>7. 0 \notin free /\ 0 \notin Frames
      BY <1>1, VaspaceAssumption DEF VaspaceTypeOK
    <2> QED
      BY <1>1, <1>2, <1>3, <2>5, <2>6, <2>7, TakeApart
  <1>13. ASSUME NEW r \in Procs
         PROVE  CallFits(r)' /\ NoneIsEmpty(r)'
    <2>1. CASE r = p
      <3>1. root[p] # 0
        BY <1>1, <1>3 DEF CallFits
      <3> QED
        BY <1>3, <1>4, <1>11, <2>1, <3>1 DEF CallFits, NoneIsEmpty
    <2>2. CASE r = q
      BY <1>3, <1>4, <1>8, <1>11, <2>2 DEF CallFits, NoneIsEmpty
    <2>3. CASE r # p /\ r # q
      <3>1. CallFits(r)'
        <4>1. CallFits(r)
          BY <1>1
        <4>2. Present(r)' = Present(r)
          BY <1>3 DEF Present
        <4>3. stage'[r] = stage[r] /\ todo'[r] = todo[r] /\ root'[r] = root[r]
          BY <1>4, <2>3
        <4> QED
          BY <1>3, <4>1, <4>2, <4>3 DEF CallFits
      <3>2. NoneIsEmpty(r)'
        <4>1. NoneIsEmpty(r) /\ \A s \in Procs : Clones(s, r)' <=> Clones(s, r)
          BY <1>1, <1>8, <1>9, <1>10, <2>3
        <4> QED
          BY <1>3, <1>4, <2>3, <4>1 DEF NoneIsEmpty
      <3> QED
        BY <3>1, <3>2
    <2> QED
      BY <2>1, <2>2, <2>3
  <1>14. ASSUME NEW r \in Procs, NEW s \in Procs
         PROVE  ClonesFit(r, s)' /\ DestroysFit(r, s)' /\ OneCaller(r, s)'
    <2>1. OneCaller(r, s)'
      <3>1. ASSUME NEW d \in Procs, Clones(r, s)', Clones(d, s)'
            PROVE  d = r
        <4>1. OneCaller(r, s)
          BY <1>1
        <4>2. s = q => r = p /\ d = p
          BY <1>8, <1>9, <3>1
        <4>3. s # q => r # p /\ d # p
          BY <1>8, <3>1
        <4> QED
          BY <1>9, <3>1, <4>1, <4>2, <4>3 DEF OneCaller
      <3>2. \A d \in Procs : Destroys(r, s)' /\ Destroys(d, s)' => d = r
        BY <1>1, <1>6 DEF OneCaller
      <3> QED
        BY <3>1, <3>2 DEF OneCaller
    <2>2. DestroysFit(r, s)'
      <3>1. ASSUME Destroys(r, s)
            PROVE  DestroysFit(r, s)'
        <4>1. DestroysFit(r, s) /\ r # p /\ s # p
          BY <1>1, <1>7, <3>1
        <4>2. stage'[s] = stage[s] /\ todo'[r] = todo[r]
          BY <1>4, <4>1
        <4>3. Present(s)' = Present(s)
          BY <1>3 DEF Present
        <4> QED
          BY <3>1, <4>1, <4>2, <4>3 DEF DestroysFit
      <3> QED
        BY <1>6, <3>1 DEF DestroysFit
    <2>3. ClonesFit(r, s)'
      <3>1. CASE r = p
        <4>1. Present(q)' = {} /\ Present(p)' = Present(p)
          BY <1>3, <1>11 DEF Present, Empty
        <4>2. stage'[q] = "none" /\ root'[q] # 0
          BY <1>2, <1>3, <1>4
        <4> QED
          BY <1>4, <1>8, <3>1, <4>1, <4>2 DEF ClonesFit
      <3>2. CASE r # p
        <4>1. ASSUME Clones(r, s)
              PROVE  ClonesFit(r, s)'
          <5>1. s # p /\ s # q /\ ClonesFit(r, s)
            BY <1>1, <1>8, <4>1
          <5>2. Present(r)' = Present(r) /\ Present(s)' = Present(s)
            BY <1>3 DEF Present
          <5> QED
            BY <1>4, <3>2, <4>1, <5>1, <5>2 DEF ClonesFit
        <4> QED
          BY <1>9, <3>2, <4>1 DEF ClonesFit
      <3> QED
        BY <3>1, <3>2
    <2> QED
      BY <2>1, <2>2, <2>3
  <1> QED
    BY <1>1, <1>3, <1>5, <1>12, <1>13, <1>14 DEF VaspaceInv, LostFit

\* p copies an entry to its child.
LEMMA CloneStep ==
    ASSUME VaspaceInv, NEW p \in Procs, NEW q \in Procs, other[p] = q, arch_vaspace_clone(p)
    PROVE  VaspaceInv'
  <1>1. /\ VaspaceTypeOK /\ LostFit /\ Apart(Held, free, lost)
        /\ \A r \in Procs : CallFits(r) /\ NoneIsEmpty(r)
        /\ \A r, s \in Procs : ClonesFit(r, s) /\ DestroysFit(r, s) /\ OneCaller(r, s)
    BY DEF VaspaceInv
  <1>2. Allocated \in free /\ Allocated \in Frames /\ Allocated # 0
    BY AllocatedIn DEF arch_vaspace_clone
  <1>3. PICK e \in todo[p] :
           /\ entry' = [entry EXCEPT ![q][e] = Allocated]
           /\ todo' = [todo EXCEPT ![p] = @ \ {e}]
    BY DEF arch_vaspace_clone
  <1>4. /\ UNCHANGED <<root, stage, other, page, image, lost>> /\ stage[p] = "clone"
        /\ free' = free \ {Allocated}
    BY DEF arch_vaspace_clone
  <1>5. Clones(p, q)
    BY <1>4 DEF Clones
  <1>6. /\ stage[q] = "none" /\ root[q] # 0 /\ p # q
        /\ Present(q) \cup todo[p] = Present(p) /\ Present(q) \cap todo[p] = {}
    BY <1>1, <1>4, <1>5 DEF ClonesFit
  <1>7. e \in PTEs /\ entry[q][e] = 0
    BY <1>6 DEF Present
  <1>8. Wrote(q, e, Allocated)
    BY <1>1, <1>2, <1>3, <1>5, <1>7, EntryWritten
  <1>9. todo'[p] = todo[p] \ {e} /\ \A r \in Procs : r = p \/ todo'[r] = todo[r]
    BY <1>1, <1>3 DEF VaspaceTypeOK
  <1>10. VaspaceTypeOK'
    <2>1. todo' \in [Procs -> SUBSET (PTEs \cup (Nat \X Virt))]
      BY <1>1, <1>3, SMTT(30) DEF VaspaceTypeOK
    <2> QED
      BY <1>1, <1>4, <1>8, <2>1 DEF VaspaceTypeOK, Wrote
  <1>11. \A r, s \in Procs : (Destroys(r, s)' <=> Destroys(r, s)) /\ (Clones(r, s)' <=> Clones(r, s))
    BY <1>4 DEF Destroys, Clones
  <1>12. \A r, s \in Procs : Destroys(r, s) => r # p /\ s # p /\ s # q
    BY <1>1, <1>4, <1>6 DEF DestroysFit, Destroys
  <1>13. page[q] = 0 /\ page[p] = 0 /\ root[p] # 0
    BY <1>1, <1>4, <1>5, <1>6 DEF CallFits
  <1>14. Apart(Held', free', lost')
    <2>1. ASSUME NEW r \in Procs, r # q
          PROVE  \A s \in Slots : Held'[r][s] = Held[r][s]
      <3>1. CASE r = p
        <4>1. NotDestroyed(p) /\ NotDestroyed(p)'
          BY <1>11, <1>12 DEF NotDestroyed
        <4>2. \A s \in Slots : Held[p][s] = Plain(p, s) /\ Held'[p][s] = Plain(p, s)'
          BY <1>4, <4>1, PlainHeld, PlainHeldNext
        <4>3. entry'[p] = entry[p]
          BY <1>6, <1>8 DEF Wrote
        <4>4. \A s \in Slots : Plain(p, s)' = Plain(p, s)
          BY <1>4, <4>3 DEF Plain
        <4> QED
          BY <3>1, <4>2, <4>4
      <3>2. CASE r # p
        <4>1. Untouched(r)
          BY <1>4, <1>8, <1>9, <2>1, <3>2 DEF Untouched, Wrote
        <4>2. \A d \in Procs : Destroys(d, r) => todo'[d] = todo[d]
          BY <1>9, <1>12
        <4> QED
          BY <1>11, <4>1, <4>2, HeldKept
      <3> QED
        BY <3>1, <3>2
    <2>2. NotDestroyed(q) /\ NotDestroyed(q)'
      BY <1>5, <1>11, <1>12 DEF NotDestroyed
    <2>3. \A s \in Slots : Held[q][s] = Plain(q, s) /\ Held'[q][s] = Plain(q, s)'
      BY <1>4, <1>5, <1>6, <2>2, PlainHeld, PlainHeldNext
    <2>4. e \in Slots /\ e # ROOT /\ e # HAND
      BY <1>7, SlotsApart DEF Slots
    <2>5. Sets(Held', Held, q, e, Allocated) /\ Held[q][e] = 0
      <3>1. \A s \in Slots : s = e \/ Plain(q, s)' = Plain(q, s)
        BY <1>4, <1>8 DEF Plain, Wrote, Slots
      <3>2. Plain(q, e) = 0 /\ Plain(q, e)' = Allocated
        BY <1>7, <1>8, <2>4 DEF Plain, Wrote
      <3> QED
        BY <2>1, <2>3, <2>4, <3>1, <3>2 DEF Sets
    <2>6. 0 \notin free /\ 0 \notin Frames
      BY <1>1, VaspaceAssumption DEF VaspaceTypeOK
    <2> QED
      BY <1>1, <1>2, <1>4, <1>5, <2>4, <2>5, <2>6, TakeApart
  <1>15. ASSUME NEW r \in Procs
         PROVE  CallFits(r)' /\ NoneIsEmpty(r)'
    <2>1. CASE r = p
      BY <1>4, <1>13, <2>1 DEF CallFits, NoneIsEmpty
    <2>2. CASE r = q
      BY <1>4, <1>5, <1>6, <1>11, <1>13, <2>2 DEF CallFits, NoneIsEmpty
    <2>3. CASE r # p /\ r # q
      <3>1. Untouched(r) /\ image'[r] = image[r]
        BY <1>4, <1>8, <1>9, <2>3 DEF Untouched, Wrote
      <3>2. CallFits(r)'
        BY <1>1, <3>1, CallKept
      <3>3. NoneIsEmpty(r)'
        BY <1>1, <1>11, <3>1 DEF NoneIsEmpty, Untouched
      <3> QED
        BY <3>2, <3>3
    <2> QED
      BY <2>1, <2>2, <2>3
  <1>16. ASSUME NEW r \in Procs, NEW s \in Procs
         PROVE  ClonesFit(r, s)' /\ DestroysFit(r, s)' /\ OneCaller(r, s)'
    <2>1. OneCaller(r, s)'
      BY <1>1, <1>11 DEF OneCaller
    <2>2. DestroysFit(r, s)'
      <3>1. CASE Destroys(r, s)
        <4>1. entry'[s] = entry[s] /\ stage'[s] = stage[s] /\ todo'[r] = todo[r]
          BY <1>4, <1>8, <1>9, <1>12, <3>1 DEF Wrote
        <4> QED
          BY <1>1, <1>11, <4>1, DestroysKept
      <3>2. CASE ~Destroys(r, s)
        BY <1>11, <3>2 DEF DestroysFit
      <3> QED
        BY <3>1, <3>2
    <2>3. ClonesFit(r, s)'
      <3>1. CASE Clones(r, s) /\ r = p
        <4>1. s = q
          BY <1>5, <3>1 DEF Clones
        <4>2. Present(q)' = Present(q) \cup {e}
          BY <1>2, <1>7, <1>8 DEF Present, Wrote
        <4>3. Present(p)' = Present(p)
          BY <1>6, <1>8 DEF Present, Wrote
        <4>4. Present(q)' \cup todo'[p] = Present(p)' /\ Present(q)' \cap todo'[p] = {}
          BY <1>6, <1>9, <4>2, <4>3
        <4> QED
          BY <1>4, <1>6, <3>1, <4>1, <4>4 DEF ClonesFit
      <3>2. CASE Clones(r, s) /\ r # p
        <4>1. s # q
          BY <1>1, <1>5, <3>2 DEF OneCaller
        <4>2. r # q
          BY <1>6, <3>2 DEF Clones
        <4>3. entry'[s] = entry[s] /\ entry'[r] = entry[r] /\ todo'[r] = todo[r]
          BY <1>8, <1>9, <3>2, <4>1, <4>2 DEF Wrote
        <4> QED
          BY <1>1, <1>4, <1>11, <4>3, ClonesKept
      <3>3. CASE ~Clones(r, s)
        BY <1>11, <3>3 DEF ClonesFit
      <3> QED
        BY <3>1, <3>2, <3>3
    <2> QED
      BY <2>1, <2>2, <2>3
  <1> QED
    BY <1>1, <1>4, <1>10, <1>14, <1>15, <1>16 DEF VaspaceInv, LostFit

\* fork returns, and the child runs.
LEMMA ForkReturnStep ==
    ASSUME VaspaceInv, NEW p \in Procs, NEW q \in Procs, other[p] = q, ForkReturn(p)
    PROVE  VaspaceInv'
  <1>1. /\ VaspaceTypeOK /\ LostFit /\ Apart(Held, free, lost)
        /\ \A r \in Procs : CallFits(r) /\ NoneIsEmpty(r)
        /\ \A r, s \in Procs : ClonesFit(r, s) /\ DestroysFit(r, s) /\ OneCaller(r, s)
    BY DEF VaspaceInv
  <1>2. UNCHANGED <<free, root, entry, todo, other, page, image, lost>> /\ stage[p] = "clone"
    BY DEF ForkReturn
  <1>3. Clones(p, q) /\ stage[q] = "none" /\ root[q] # 0 /\ p # q
    BY <1>1, <1>2 DEF Clones, ClonesFit
  <1>4. /\ stage'[p] = "run" /\ stage'[q] = "run"
        /\ \A r \in Procs : r \in {p, q} \/ stage'[r] = stage[r]
    BY <1>1, <1>3 DEF ForkReturn, VaspaceTypeOK
  <1>5. VaspaceTypeOK'
    <2>1. stage' \in [Procs -> Stages]
      BY <1>1, SMTT(30) DEF ForkReturn, VaspaceTypeOK, Stages
    <2> QED
      BY <1>1, <1>2, <2>1 DEF VaspaceTypeOK
  <1>6. \A r, s \in Procs : Destroys(r, s)' <=> Destroys(r, s)
    BY <1>2, <1>3, <1>4 DEF Destroys
  <1>7. \A r, s \in Procs : Destroys(r, s) => s # p /\ s # q
    BY <1>1, <1>2, <1>3 DEF DestroysFit
  <1>8. \A r, s \in Procs : Clones(r, s) => s # p /\ (s = q <=> r = p)
    <2>1. \A r, s \in Procs : Clones(r, s) => s # p
      BY <1>1, <1>2 DEF ClonesFit
    <2>2. \A r \in Procs : Clones(r, q) => r = p
      BY <1>1, <1>3 DEF OneCaller
    <2> QED
      BY <1>3, <2>1, <2>2 DEF Clones
  <1>9. \A r, s \in Procs : Clones(r, s)' <=> Clones(r, s) /\ r # p
    BY <1>2, <1>3, <1>4 DEF Clones
  <1>10. page[q] = 0 /\ page[p] = 0 /\ root[p] # 0
    BY <1>1, <1>2, <1>3 DEF CallFits
  <1>11. Apart(Held', free', lost')
    <2>1. ASSUME NEW r \in Procs
          PROVE  \A s \in Slots : Held'[r][s] = Held[r][s]
      <3>1. CASE r \in {p, q}
        <4>1. NotDestroyed(r) /\ NotDestroyed(r)'
          BY <1>6, <1>7, <3>1 DEF NotDestroyed
        <4>2. stage[r] # "unmap" /\ stage'[r] # "unmap"
          BY <1>2, <1>3, <1>4, <3>1
        <4>3. \A s \in Slots : Held[r][s] = Plain(r, s) /\ Held'[r][s] = Plain(r, s)'
          BY <4>1, <4>2, PlainHeld, PlainHeldNext
        <4>4. \A s \in Slots : Plain(r, s)' = Plain(r, s)
          BY <1>2 DEF Plain
        <4> QED
          BY <4>3, <4>4
      <3>2. CASE r \notin {p, q}
        <4>1. Untouched(r)
          BY <1>2, <1>4, <3>2 DEF Untouched
        <4> QED
          BY <1>2, <1>6, <4>1, HeldKept
      <3> QED
        BY <3>1, <3>2
    <2>2. Same(Held', Held)
      BY <2>1 DEF Same
    <2> QED
      BY <1>1, <1>2, <2>2, SameApart
  <1>12. ASSUME NEW r \in Procs
         PROVE  CallFits(r)' /\ NoneIsEmpty(r)'
    <2>1. CASE r \in {p, q}
      BY <1>2, <1>3, <1>4, <1>10, <2>1 DEF CallFits, NoneIsEmpty
    <2>2. CASE r \notin {p, q}
      <3>1. Untouched(r) /\ image'[r] = image[r]
        BY <1>2, <1>4, <2>2 DEF Untouched
      <3>2. CallFits(r)'
        BY <1>1, <3>1, CallKept
      <3>3. \A s \in Procs : Clones(s, r)' <=> Clones(s, r)
        BY <1>8, <1>9, <2>2
      <3>4. NoneIsEmpty(r)'
        BY <1>1, <3>1, <3>3 DEF NoneIsEmpty, Untouched
      <3> QED
        BY <3>2, <3>4
    <2> QED
      BY <2>1, <2>2
  <1>13. ASSUME NEW r \in Procs, NEW s \in Procs
         PROVE  ClonesFit(r, s)' /\ DestroysFit(r, s)' /\ OneCaller(r, s)'
    <2>1. OneCaller(r, s)'
      BY <1>1, <1>6, <1>9 DEF OneCaller
    <2>2. DestroysFit(r, s)'
      <3>1. CASE Destroys(r, s)
        <4>1. stage'[s] = stage[s]
          BY <1>4, <1>7, <3>1
        <4> QED
          BY <1>1, <1>2, <1>6, <4>1, DestroysKept
      <3>2. CASE ~Destroys(r, s)
        BY <1>6, <3>2 DEF DestroysFit
      <3> QED
        BY <3>1, <3>2
    <2>3. ClonesFit(r, s)'
      <3>1. CASE Clones(r, s)'
        <4>1. stage'[s] = stage[s] /\ Clones(r, s)
          BY <1>4, <1>8, <1>9, <3>1
        <4> QED
          BY <1>1, <1>2, <4>1, ClonesKept
      <3>2. CASE ~Clones(r, s)'
        BY <3>2 DEF ClonesFit
      <3> QED
        BY <3>1, <3>2
    <2> QED
      BY <2>1, <2>2, <2>3
  <1> QED
    BY <1>1, <1>2, <1>5, <1>11, <1>12, <1>13 DEF VaspaceInv, LostFit

\* p begins to take apart q.
LEMMA ProcessFreeStep ==
    ASSUME VaspaceInv, NEW p \in Procs, NEW q \in Procs, process_free(p, q)
    PROVE  VaspaceInv'
  <1>1. /\ VaspaceTypeOK /\ LostFit /\ Apart(Held, free, lost)
        /\ \A r \in Procs : CallFits(r) /\ NoneIsEmpty(r)
        /\ \A r, s \in Procs : ClonesFit(r, s) /\ DestroysFit(r, s) /\ OneCaller(r, s)
    BY DEF VaspaceInv
  <1>2. /\ UNCHANGED <<free, root, entry, page, image, lost>>
        /\ stage[p] = "run" /\ stage[q] = "zombie" /\ p # q
        /\ NotDestroyed(q)
    BY DEF process_free, Begin, NotDestroyed, Destroys
  <1>3. /\ stage'[p] = "destroy" /\ todo'[p] = Present(q) /\ other'[p] = q
        /\ \A r \in Procs : r = p \/ (stage'[r] = stage[r] /\ todo'[r] = todo[r] /\ other'[r] = other[r])
    BY <1>1 DEF process_free, Begin, VaspaceTypeOK
  <1>4. VaspaceTypeOK'
    <2>1. Present(q) \subseteq PTEs
      BY DEF Present
    <2>2. todo' \in [Procs -> SUBSET (PTEs \cup (Nat \X Virt))]
      BY <1>1, <2>1, SMTT(30) DEF VaspaceTypeOK, process_free, Begin
    <2>3. stage' \in [Procs -> Stages] /\ other' \in [Procs -> Procs]
      BY <1>1, SMTT(30) DEF VaspaceTypeOK, process_free, Begin, Stages
    <2> QED
      BY <1>1, <1>2, <2>2, <2>3 DEF VaspaceTypeOK
  <1>5. \A r, s \in Procs : Clones(r, s)' <=> Clones(r, s)
    BY <1>2, <1>3 DEF Clones
  <1>6. \A r, s \in Procs : Clones(r, s) => r # p /\ s # p
    BY <1>1, <1>2 DEF ClonesFit, Clones
  <1>7. \A r, s \in Procs : r = p \/ (Destroys(r, s)' <=> Destroys(r, s))
    BY <1>3 DEF Destroys
  <1>8. \A s \in Procs : ~Destroys(p, s) /\ (Destroys(p, s)' <=> s = q)
    BY <1>2, <1>3 DEF Destroys
  <1>9. \A r, s \in Procs : Destroys(r, s) => s # p /\ s # q
    BY <1>1, <1>2 DEF DestroysFit, NotDestroyed
  <1>10. page[q] = 0 /\ page[p] = 0 /\ root[p] # 0
    BY <1>1, <1>2 DEF CallFits
  <1>11. Apart(Held', free', lost')
    <2>1. \A s \in Slots : Held'[q][s] = Held[q][s]
      <3>1. Destroys(p, q)' /\ stage'[q] # "unmap" /\ \A r \in Procs : Destroys(r, q)' => r = p
        BY <1>2, <1>3, <1>7, <1>8, <1>9
      <3>2. \A s \in Slots : Held'[q][s] = Torn(p, q, s)'
        BY <3>1, TornHeldNext
      <3>3. \A s \in Slots : Held[q][s] = Plain(q, s)
        BY <1>2, PlainHeld
      <3>4. \A s \in Slots : Torn(p, q, s)' = Plain(q, s)
        BY <1>2, <1>3 DEF Torn, Plain, Present, Slots
      <3> QED
        BY <3>2, <3>3, <3>4
    <2>2. \A s \in Slots : Held'[p][s] = Held[p][s]
      <3>1. NotDestroyed(p) /\ NotDestroyed(p)'
        BY <1>2, <1>7, <1>8, <1>9 DEF NotDestroyed
      <3>2. \A s \in Slots : Held[p][s] = Plain(p, s) /\ Held'[p][s] = Plain(p, s)'
        BY <1>2, <1>3, <3>1, PlainHeld, PlainHeldNext
      <3>3. \A s \in Slots : Plain(p, s)' = Plain(p, s)
        BY <1>2 DEF Plain
      <3> QED
        BY <3>2, <3>3
    <2>3. ASSUME NEW r \in Procs, r \notin {p, q}
          PROVE  \A s \in Slots : Held'[r][s] = Held[r][s]
      <3>1. Untouched(r)
        BY <1>2, <1>3, <2>3 DEF Untouched
      <3>2. \A d \in Procs : Destroys(d, r)' <=> Destroys(d, r)
        BY <1>7, <1>8, <2>3
      <3>3. \A d \in Procs : Destroys(d, r) => todo'[d] = todo[d]
        BY <1>3, <1>8
      <3> QED
        BY <3>1, <3>2, <3>3, HeldKept
    <2>4. Same(Held', Held)
      BY <2>1, <2>2, <2>3 DEF Same
    <2> QED
      BY <1>1, <1>2, <2>4, SameApart
  <1>12. ASSUME NEW r \in Procs
         PROVE  CallFits(r)' /\ NoneIsEmpty(r)'
    <2>1. CASE r = p
      BY <1>2, <1>3, <1>10, <2>1 DEF CallFits, NoneIsEmpty
    <2>2. CASE r # p
      <3>1. Untouched(r) /\ image'[r] = image[r]
        BY <1>2, <1>3, <2>2 DEF Untouched
      <3>2. CallFits(r)'
        BY <1>1, <3>1, CallKept
      <3>3. NoneIsEmpty(r)'
        BY <1>1, <1>5, <3>1 DEF NoneIsEmpty, Untouched
      <3> QED
        BY <3>2, <3>3
    <2> QED
      BY <2>1, <2>2
  <1>13. ASSUME NEW r \in Procs, NEW s \in Procs
         PROVE  ClonesFit(r, s)' /\ DestroysFit(r, s)' /\ OneCaller(r, s)'
    <2>1. OneCaller(r, s)'
      <3>1. \A d \in Procs : Clones(r, s)' /\ Clones(d, s)' => d = r
        BY <1>1, <1>5 DEF OneCaller
      <3>2. ASSUME NEW d \in Procs, Destroys(r, s)', Destroys(d, s)'
            PROVE  d = r
        <4>1. OneCaller(r, s)
          BY <1>1
        <4>2. s = q => r = p /\ d = p
          BY <1>7, <1>9, <3>2
        <4>3. s # q => r # p /\ d # p
          BY <1>8, <3>2
        <4> QED
          BY <1>7, <3>2, <4>1, <4>2, <4>3 DEF OneCaller
      <3> QED
        BY <3>1, <3>2 DEF OneCaller
    <2>2. DestroysFit(r, s)'
      <3>1. CASE r = p
        <4>1. Present(q)' = Present(q)
          BY <1>2 DEF Present
        <4> QED
          BY <1>2, <1>3, <1>8, <3>1, <4>1 DEF DestroysFit
      <3>2. CASE r # p /\ Destroys(r, s)
        <4>1. stage'[s] = stage[s] /\ todo'[r] = todo[r] /\ entry'[s] = entry[s]
          BY <1>2, <1>3, <1>9, <3>2
        <4> QED
          BY <1>1, <3>2, <4>1, DestroysKept
      <3>3. CASE r # p /\ ~Destroys(r, s)
        BY <1>7, <3>3 DEF DestroysFit
      <3> QED
        BY <3>1, <3>2, <3>3
    <2>3. ClonesFit(r, s)'
      <3>1. CASE Clones(r, s)
        <4>1. stage'[s] = stage[s] /\ todo'[r] = todo[r]
          BY <1>3, <1>6, <3>1
        <4> QED
          BY <1>1, <1>2, <3>1, <4>1, ClonesKept
      <3>2. CASE ~Clones(r, s)
        BY <1>5, <3>2 DEF ClonesFit
      <3> QED
        BY <3>1, <3>2
    <2> QED
      BY <2>1, <2>2, <2>3
  <1> QED
    BY <1>1, <1>2, <1>4, <1>11, <1>12, <1>13 DEF VaspaceInv, LostFit

\* p gives back an entry of q.
LEMMA DestroyStep ==
    ASSUME VaspaceInv, NEW p \in Procs, NEW q \in Procs, other[p] = q, arch_vaspace_destroy(p)
    PROVE  VaspaceInv'
  <1>1. /\ VaspaceTypeOK /\ LostFit /\ Apart(Held, free, lost)
        /\ \A r \in Procs : CallFits(r) /\ NoneIsEmpty(r)
        /\ \A r, s \in Procs : ClonesFit(r, s) /\ DestroysFit(r, s) /\ OneCaller(r, s)
    BY DEF VaspaceInv
  <1>2. PICK e \in todo[p] :
           free' = free \cup {entry[q][e]} /\ todo' = [todo EXCEPT ![p] = @ \ {e}]
    BY DEF arch_vaspace_destroy
  <1>3. UNCHANGED <<root, entry, stage, other, page, image, lost>> /\ stage[p] = "destroy"
    BY DEF arch_vaspace_destroy
  <1>4. /\ Destroys(p, q) /\ stage[q] = "zombie" /\ p # q /\ todo[p] \subseteq Present(q)
        /\ \A s \in Procs : Destroys(p, s) => s = q
    BY <1>1, <1>3 DEF Destroys, DestroysFit
  <1>5. e \in PTEs /\ entry[q][e] # 0
    BY <1>4 DEF Present
  <1>6. todo'[p] = todo[p] \ {e} /\ \A r \in Procs : r = p \/ todo'[r] = todo[r]
    BY <1>1, <1>2 DEF VaspaceTypeOK
  <1>7. VaspaceTypeOK'
    <2>1. todo' \in [Procs -> SUBSET (PTEs \cup (Nat \X Virt))]
      BY <1>1, <1>2, SMTT(30) DEF VaspaceTypeOK
    <2>2. entry[q][e] \in Frames
      BY <1>1, <1>5, EntryTyped
    <2> QED
      BY <1>1, <1>2, <1>3, <2>1, <2>2 DEF VaspaceTypeOK
  <1>8. \A r, s \in Procs : (Destroys(r, s)' <=> Destroys(r, s)) /\ (Clones(r, s)' <=> Clones(r, s))
    BY <1>3 DEF Destroys, Clones
  <1>9. \A r \in Procs : Destroys(r, q) => r = p
    BY <1>1, <1>4 DEF OneCaller
  <1>10. \A r \in Procs : ~Destroys(r, p) /\ ~Clones(p, r)
    BY <1>1, <1>3 DEF DestroysFit, Clones
  <1>11. page[p] = 0 /\ root[p] # 0
    BY <1>1, <1>3 DEF CallFits
  <1>12. Apart(Held', free', lost')
    <2>1. \A s \in Slots : Held[q][s] = Torn(p, q, s) /\ Held'[q][s] = Torn(p, q, s)'
      <3>1. stage[q] # "unmap" /\ stage'[q] # "unmap" /\ Destroys(p, q)'
        BY <1>3, <1>4, <1>8
      <3> QED
        BY <1>4, <1>8, <1>9, <3>1, TornHeld, TornHeldNext
    <2>2. e \in Slots /\ e # ROOT /\ e # HAND
      BY <1>5, SlotsApart DEF Slots
    <2>3. Held[q][e] = entry[q][e] /\ Held'[q][e] = 0
      BY <1>6, <2>1, <2>2 DEF Torn
    <2>4. \A s \in Slots : s = e \/ Held'[q][s] = Held[q][s]
      BY <1>3, <1>6, <2>1 DEF Torn
    <2>5. \A s \in Slots : Held'[p][s] = Held[p][s]
      <3>1. NotDestroyed(p) /\ NotDestroyed(p)'
        BY <1>8, <1>10 DEF NotDestroyed
      <3>2. \A s \in Slots : Held[p][s] = Plain(p, s) /\ Held'[p][s] = Plain(p, s)'
        BY <1>3, <3>1, PlainHeld, PlainHeldNext
      <3>3. \A s \in Slots : Plain(p, s)' = Plain(p, s)
        BY <1>3 DEF Plain
      <3> QED
        BY <3>2, <3>3
    <2>6. ASSUME NEW r \in Procs, r \notin {p, q}
          PROVE  \A s \in Slots : Held'[r][s] = Held[r][s]
      <3>1. Untouched(r)
        BY <1>3, <1>6, <2>6 DEF Untouched
      <3>2. \A d \in Procs : Destroys(d, r) => todo'[d] = todo[d]
        BY <1>4, <1>6, <2>6
      <3> QED
        BY <1>8, <3>1, <3>2, HeldKept
    <2>7. Sets(Held', Held, q, e, 0)
      BY <2>3, <2>4, <2>5, <2>6 DEF Sets
    <2>8. Apart(Held', free \cup {Held[q][e]}, lost)
      BY <1>1, <1>5, <2>2, <2>3, <2>7, GiveApart, VaspaceAssumption
    <2> QED
      BY <1>2, <1>3, <2>3, <2>8
  <1>13. ASSUME NEW r \in Procs
         PROVE  CallFits(r)' /\ NoneIsEmpty(r)'
    <2>1. CASE r = p
      BY <1>3, <1>11, <2>1 DEF CallFits, NoneIsEmpty
    <2>2. CASE r # p
      <3>1. Untouched(r) /\ image'[r] = image[r]
        BY <1>3, <1>6, <2>2 DEF Untouched
      <3>2. CallFits(r)'
        BY <1>1, <3>1, CallKept
      <3>3. NoneIsEmpty(r)'
        BY <1>1, <1>8, <3>1 DEF NoneIsEmpty, Untouched
      <3> QED
        BY <3>2, <3>3
    <2> QED
      BY <2>1, <2>2
  <1>14. ASSUME NEW r \in Procs, NEW s \in Procs
         PROVE  ClonesFit(r, s)' /\ DestroysFit(r, s)' /\ OneCaller(r, s)'
    <2>1. OneCaller(r, s)'
      BY <1>1, <1>8 DEF OneCaller
    <2>2. DestroysFit(r, s)'
      <3>1. CASE r = p
        <4>1. Present(s)' = Present(s) /\ DestroysFit(p, s)
          BY <1>1, <1>3 DEF Present
        <4> QED
          BY <1>3, <1>6, <1>8, <3>1, <4>1 DEF DestroysFit
      <3>2. CASE r # p
        BY <1>1, <1>3, <1>6, <1>8, <3>2, DestroysKept
      <3> QED
        BY <3>1, <3>2
    <2>3. ClonesFit(r, s)'
      <3>1. CASE r = p
        BY <1>8, <1>10, <3>1 DEF ClonesFit
      <3>2. CASE r # p
        BY <1>1, <1>3, <1>6, <1>8, <3>2, ClonesKept
      <3> QED
        BY <3>1, <3>2
    <2> QED
      BY <2>1, <2>2, <2>3
  <1> QED
    BY <1>1, <1>3, <1>7, <1>12, <1>13, <1>14 DEF VaspaceInv, LostFit

\* p gives back the root of q, which is gone then.
LEMMA DestroyReturnStep ==
    ASSUME VaspaceInv, NEW p \in Procs, NEW q \in Procs, other[p] = q, DestroyReturn(p)
    PROVE  VaspaceInv'
  <1>1. /\ VaspaceTypeOK /\ LostFit /\ Apart(Held, free, lost)
        /\ \A r \in Procs : CallFits(r) /\ NoneIsEmpty(r)
        /\ \A r, s \in Procs : ClonesFit(r, s) /\ DestroysFit(r, s) /\ OneCaller(r, s)
    BY DEF VaspaceInv
  <1>2. /\ UNCHANGED <<todo, other, page, image, lost>> /\ stage[p] = "destroy" /\ todo[p] = {}
        /\ free' = free \cup {root[q]}
    BY DEF DestroyReturn
  <1>3. /\ Destroys(p, q) /\ stage[q] = "zombie" /\ p # q
        /\ \A s \in Procs : Destroys(p, s) => s = q
    BY <1>1, <1>2 DEF Destroys, DestroysFit
  <1>4. /\ stage'[p] = "run" /\ stage'[q] = "none" /\ root'[q] = 0 /\ entry'[q] = Empty
        /\ \A r \in Procs : r \in {p, q} \/ stage'[r] = stage[r]
        /\ \A r \in Procs : r = q \/ (root'[r] = root[r] /\ entry'[r] = entry[r])
    BY <1>1, <1>3 DEF DestroyReturn, VaspaceTypeOK
  <1>5. root[q] # 0 /\ page[q] = 0 /\ page[p] = 0 /\ root[p] # 0
    BY <1>1, <1>2, <1>3 DEF CallFits
  <1>6. VaspaceTypeOK'
    <2>1. Empty \in [PTEs -> Frames \cup {0}]
      BY DEF Empty
    <2>2. stage' \in [Procs -> Stages] /\ root' \in [Procs -> Frames \cup {0}]
      BY <1>1, SMTT(30) DEF DestroyReturn, VaspaceTypeOK, Stages
    <2>3. entry' \in [Procs -> [PTEs -> Frames \cup {0}]]
      BY <1>1, <2>1, SMTT(30) DEF DestroyReturn, VaspaceTypeOK
    <2>4. root[q] \in Frames
      BY <1>1, <1>5 DEF VaspaceTypeOK
    <2> QED
      BY <1>1, <1>2, <2>2, <2>3, <2>4 DEF VaspaceTypeOK
  <1>7. \A r \in Procs : Destroys(r, q) => r = p
    BY <1>1, <1>3 DEF OneCaller
  <1>8. \A r, s \in Procs : Destroys(r, s)' <=> Destroys(r, s) /\ r # p
    BY <1>2, <1>3, <1>4 DEF Destroys
  <1>9. \A r, s \in Procs : (Clones(r, s)' <=> Clones(r, s)) /\ (Clones(r, s) => r \notin {p, q})
    BY <1>2, <1>3, <1>4 DEF Clones
  <1>10. \A r, s \in Procs : (Clones(r, s) => s \notin {p, q}) /\ (Destroys(r, s) => s # p)
    BY <1>1, <1>2, <1>3 DEF ClonesFit, DestroysFit
  <1>11. Apart(Held', free', lost')
    <2>1. \A s \in Slots : Held[q][s] = Torn(p, q, s)
      BY <1>3, <1>7, TornHeld
    <2>2. NotDestroyed(q)' /\ NotDestroyed(p)' /\ NotDestroyed(p)
      BY <1>7, <1>8, <1>10 DEF NotDestroyed
    <2>3. \A s \in Slots : Held'[q][s] = Plain(q, s)'
      BY <1>4, <2>2, PlainHeldNext
    <2>4. ROOT \in Slots /\ ROOT # HAND
      BY SlotsApart DEF Slots
    <2>5. Held[q][ROOT] = root[q] /\ Held'[q][ROOT] = 0
      BY <1>4, <2>1, <2>3, <2>4 DEF Torn, Plain
    <2>6. \A s \in Slots : s = ROOT \/ Held'[q][s] = Held[q][s]
      <3>1. \A s \in PTEs : entry'[q][s] = 0
        BY <1>4 DEF Empty
      <3>2. \A s \in Slots : s = ROOT \/ Plain(q, s)' = 0
        BY <1>2, <1>5, <3>1 DEF Plain, Slots
      <3>3. \A s \in Slots : s = ROOT \/ Torn(p, q, s) = 0
        BY <1>2, <1>5 DEF Torn
      <3> QED
        BY <2>1, <2>3, <3>2, <3>3
    <2>7. \A s \in Slots : Held'[p][s] = Held[p][s]
      <3>1. \A s \in Slots : Held[p][s] = Plain(p, s) /\ Held'[p][s] = Plain(p, s)'
        BY <1>2, <1>4, <2>2, PlainHeld, PlainHeldNext
      <3>2. \A s \in Slots : Plain(p, s)' = Plain(p, s)
        BY <1>2, <1>3, <1>4 DEF Plain
      <3> QED
        BY <3>1, <3>2
    <2>8. ASSUME NEW r \in Procs, r \notin {p, q}
          PROVE  \A s \in Slots : Held'[r][s] = Held[r][s]
      <3>1. Untouched(r)
        BY <1>2, <1>4, <2>8 DEF Untouched
      <3>2. \A d \in Procs : Destroys(d, r)' <=> Destroys(d, r)
        BY <1>3, <1>8, <2>8
      <3> QED
        BY <1>2, <3>1, <3>2, HeldKept
    <2>9. Sets(Held', Held, q, ROOT, 0)
      BY <2>5, <2>6, <2>7, <2>8 DEF Sets
    <2>10. Apart(Held', free \cup {Held[q][ROOT]}, lost)
      BY <1>1, <1>5, <2>4, <2>5, <2>9, GiveApart, VaspaceAssumption
    <2> QED
      BY <1>2, <2>5, <2>10
  <1>12. ASSUME NEW r \in Procs
         PROVE  CallFits(r)' /\ NoneIsEmpty(r)'
    <2>1. CASE r = p
      BY <1>2, <1>3, <1>4, <1>5, <2>1 DEF CallFits, NoneIsEmpty
    <2>2. CASE r = q
      BY <1>2, <1>4, <1>5, <2>2 DEF CallFits, NoneIsEmpty
    <2>3. CASE r \notin {p, q}
      <3>1. Untouched(r) /\ image'[r] = image[r]
        BY <1>2, <1>4, <2>3 DEF Untouched
      <3>2. CallFits(r)'
        BY <1>1, <3>1, CallKept
      <3>3. NoneIsEmpty(r)'
        BY <1>1, <1>9, <3>1 DEF NoneIsEmpty, Untouched
      <3> QED
        BY <3>2, <3>3
    <2> QED
      BY <2>1, <2>2, <2>3
  <1>13. ASSUME NEW r \in Procs, NEW s \in Procs
         PROVE  ClonesFit(r, s)' /\ DestroysFit(r, s)' /\ OneCaller(r, s)'
    <2>1. OneCaller(r, s)'
      BY <1>1, <1>8, <1>9 DEF OneCaller
    <2>2. DestroysFit(r, s)'
      <3>1. CASE Destroys(r, s)'
        <4>1. Destroys(r, s) /\ r # p /\ s \notin {p, q}
          BY <1>7, <1>8, <1>10, <3>1
        <4>2. stage'[s] = stage[s] /\ entry'[s] = entry[s] /\ todo'[r] = todo[r]
          BY <1>2, <1>4, <4>1
        <4> QED
          BY <1>1, <4>1, <4>2, DestroysKept
      <3>2. CASE ~Destroys(r, s)'
        BY <3>2 DEF DestroysFit
      <3> QED
        BY <3>1, <3>2
    <2>3. ClonesFit(r, s)'
      <3>1. CASE Clones(r, s)
        <4>1. r \notin {p, q} /\ s \notin {p, q}
          BY <1>9, <1>10, <3>1
        <4>2. /\ stage'[s] = stage[s] /\ root'[s] = root[s] /\ entry'[s] = entry[s]
              /\ entry'[r] = entry[r] /\ todo'[r] = todo[r]
          BY <1>2, <1>4, <4>1
        <4> QED
          BY <1>1, <3>1, <4>2, ClonesKept
      <3>2. CASE ~Clones(r, s)
        BY <1>9, <3>2 DEF ClonesFit
      <3> QED
        BY <3>1, <3>2
    <2> QED
      BY <2>1, <2>2, <2>3
  <1> QED
    BY <1>1, <1>2, <1>6, <1>11, <1>12, <1>13 DEF VaspaceInv, LostFit

-----------------------------------------------------------------------------

\* The state process_create_init makes satisfies the invariant.
LEMMA VaspaceInitInv ==
    ASSUME VaspaceInit
    PROVE  VaspaceInv
  <1> DEFINE pt == CHOOSE x \in Frames : TRUE
  <1>1. pt \in Frames /\ pt # 0
    BY VaspaceAssumption
  <1> HIDE DEF pt
  <1>2. PICK im \in Images :
           /\ free = Frames \ {pt}
           /\ root = [p \in Procs |-> IF p = InitProc THEN pt ELSE 0]
           /\ entry = [p \in Procs |-> Empty]
           /\ stage = [p \in Procs |-> IF p = InitProc THEN "load" ELSE "none"]
           /\ todo = [p \in Procs |-> IF p = InitProc THEN Items(im) ELSE {}]
           /\ other = [p \in Procs |-> InitProc] /\ page = [p \in Procs |-> 0]
           /\ image = [p \in Procs |-> IF p = InitProc THEN im ELSE <<>>]
           /\ lost = {}
    BY DEF VaspaceInit, pt
  <1>3. InitProc \in Procs
    BY VaspaceAssumption
  <1>4. \A p \in Procs, e \in PTEs : entry[p][e] = 0
    BY <1>2 DEF Empty
  <1>5. Items(im) \subseteq Nat \X Virt
    BY ItemsTyped
  <1>6. VaspaceTypeOK
    <2>1. Empty \in [PTEs -> Frames \cup {0}]
      BY DEF Empty
    <2>2. entry \in [Procs -> [PTEs -> Frames \cup {0}]]
      BY <1>2, <2>1
    <2>3. todo \in [Procs -> SUBSET (PTEs \cup (Nat \X Virt))]
      BY <1>2, <1>5, SMTT(30)
    <2>4. /\ root \in [Procs -> Frames \cup {0}] /\ stage \in [Procs -> Stages]
          /\ page \in [Procs -> Frames \cup {0}] /\ other \in [Procs -> Procs]
          /\ image \in [Procs -> Images \cup {<<>>}]
      BY <1>1, <1>2, <1>3, SMTT(30) DEF Stages
    <2> QED
      BY <1>2, <2>2, <2>3, <2>4 DEF VaspaceTypeOK
  <1>7. \A p, q \in Procs : ~Clones(p, q) /\ ~Destroys(p, q)
    BY <1>2 DEF Clones, Destroys
  <1>8. Apart(Held, free, lost)
    <2>1. \A p \in Procs, s \in Slots : Held[p][s] = Plain(p, s)
      <3>1. \A p \in Procs : NotDestroyed(p) /\ page[p] = 0
        BY <1>2, <1>7 DEF NotDestroyed
      <3> QED
        BY <3>1, PlainHeld
    <2>2. \A p \in Procs, s \in Slots : Held[p][s] # 0 => p = InitProc /\ s = ROOT /\ Held[p][s] = pt
      BY <1>2, <1>4, <2>1 DEF Plain, Slots
    <2>3. Held[InitProc][ROOT] = pt /\ ROOT \in Slots
      BY <1>2, <1>3, <2>1 DEF Plain, Slots
    <2> QED
      BY <1>1, <1>2, <1>3, <2>2, <2>3, SMTT(30) DEF Apart
  <1>9. \A p \in Procs : CallFits(p)
    <2>1. ASSUME NEW p \in Procs, p # InitProc
          PROVE  CallFits(p)
      BY <1>2, <2>1 DEF CallFits
    <2>2. /\ stage[InitProc] = "load" /\ page[InitProc] = 0 /\ root[InitProc] = pt
          /\ image[InitProc] = im /\ todo[InitProc] = Items(im)
      BY <1>2, <1>3
    <2>3. \A v \in Virt : entry[InitProc][<<0, v>>] = 0
      BY <1>3, <1>4, LeafIs
    <2>4. CallFits(InitProc)
      BY <1>1, <2>2, <2>3 DEF CallFits
    <2> QED
      BY <2>1, <2>4
  <1>10. \A p \in Procs : NoneIsEmpty(p)
    BY <1>2 DEF NoneIsEmpty
  <1>11. \A p, q \in Procs : ClonesFit(p, q) /\ DestroysFit(p, q) /\ OneCaller(p, q)
    BY <1>7 DEF ClonesFit, DestroysFit, OneCaller
  <1> QED
    BY <1>2, <1>6, <1>8, <1>9, <1>10, <1>11 DEF VaspaceInv, LostFit

\* Every step keeps the invariant.
LEMMA VaspaceStepInv ==
    ASSUME VaspaceInv, [VaspaceNext]_vaspaceVars
    PROVE  VaspaceInv'
  <1>1. CASE UNCHANGED vaspaceVars
    <2>1. UNCHANGED <<free, root, entry, stage, todo, other, page, image, lost>>
      BY <1>1 DEF vaspaceVars
    <2>2. \A p, q \in Procs : (Clones(p, q)' <=> Clones(p, q)) /\ (Destroys(p, q)' <=> Destroys(p, q))
      BY <2>1 DEF Clones, Destroys
    <2>3. \A p \in Procs : Untouched(p) /\ image'[p] = image[p]
      BY <2>1 DEF Untouched
    <2>4. \A p \in Procs : CallFits(p)' /\ NoneIsEmpty(p)'
      <3>1. \A p \in Procs : CallFits(p)'
        BY <2>3, CallKept DEF VaspaceInv
      <3> QED
        BY <2>1, <2>2, <3>1 DEF VaspaceInv, NoneIsEmpty
    <2>5. \A p, q \in Procs : ClonesFit(p, q)' /\ DestroysFit(p, q)' /\ OneCaller(p, q)'
      <3>1. \A p, q \in Procs : ClonesFit(p, q)' /\ DestroysFit(p, q)'
        BY <2>1, <2>2, ClonesKept, DestroysKept DEF VaspaceInv
      <3> QED
        BY <2>2, <3>1 DEF VaspaceInv, OneCaller
    <2>6. Same(Held', Held)
      BY <2>1, <2>2, <2>3, HeldKept DEF Same
    <2>7. Apart(Held', free', lost')
      BY <2>1, <2>6, SameApart DEF VaspaceInv
    <2> QED
      BY <2>1, <2>4, <2>5, <2>7 DEF VaspaceInv, VaspaceTypeOK, LostFit
  <1>2. ASSUME NEW p \in Procs, NEW v \in Virt, NEW n \in 1..MaxMapped,
               sys_mmap(p, v, n) \/ sys_munmap(p, v, n)
        PROVE  VaspaceInv'
    BY <1>2, MmapStep, MunmapStep
  <1>3. ASSUME NEW p \in Procs,
               \/ MapAllocate(p) \/ AddTable(p) \/ vmm_map(p) \/ MapReturn(p)
               \/ UnmapGiveUp(p) \/ UnmapFree(p) \/ vmm_unmap(p) \/ UnmapReturn(p) \/ sys_exit(p)
        PROVE  VaspaceInv'
    BY <1>3, MapAllocateStep, AddTableStep, MapStep, ReturnStep, UnmapGiveUpStep, UnmapFreeStep,
       UnmapStep
  <1>4. ASSUME NEW p \in Procs, NEW q \in Procs, arch_vaspace_new(p, q) \/ process_free(p, q)
        PROVE  VaspaceInv'
    BY <1>4, NewStep, ProcessFreeStep
  <1>5. ASSUME NEW p \in Procs,
               \/ arch_vaspace_clone(p) \/ ForkReturn(p) \/ arch_vaspace_destroy(p) \/ DestroyReturn(p)
        PROVE  VaspaceInv'
    <2>1. PICK q \in Procs : other[p] = q
      BY DEF VaspaceInv, VaspaceTypeOK
    <2> QED
      BY <1>5, <2>1, CloneStep, ForkReturnStep, DestroyStep, DestroyReturnStep
  <1>6. ASSUME NEW p \in Procs,
               \/ sys_execve(p) \/ arch_vaspace_clear(p) \/ elf_exec_load(p) \/ LoadReturn(p)
        PROVE  VaspaceInv'
    BY <1>6, ExecveStep, ClearStep, LoadStep, ReturnStep
  <1> QED
    BY <1>1, <1>2, <1>3, <1>4, <1>5, <1>6 DEF VaspaceNext

\* What is held are pages of memory.
LEMMA HeldTyped ==
    ASSUME VaspaceTypeOK
    PROVE  Held \in [Procs -> [Slots -> Frames \cup {0}]]
  <1>1. ASSUME NEW p \in Procs, NEW s \in Slots
        PROVE  InSlot(p, s) \in Frames \cup {0}
    <2>1. root[p] \in Frames \cup {0} /\ page[p] \in Frames \cup {0}
      BY DEF VaspaceTypeOK
    <2>2. s \in PTEs => entry[p][s] \in Frames \cup {0}
      BY SMTT(30) DEF VaspaceTypeOK
    <2> QED
      BY <2>1, <2>2 DEF InSlot, Slots
  <1> QED
    BY <1>1 DEF Held

\* The invariant implies that children and freed processes are complete.
LEMMA InvWhole ==
    ASSUME VaspaceInv
    PROVE  SpacesWhole
  <1>1. /\ VaspaceTypeOK /\ Apart(Held, free, lost)
        /\ \A r \in Procs : CallFits(r) /\ NoneIsEmpty(r)
        /\ \A r, s \in Procs : ClonesFit(r, s)
    BY DEF VaspaceInv
  <1>2. ASSUME NEW p \in Procs, stage[p] = "clone", todo[p] = {}
        PROVE  Present(other[p]) = Present(p)
    <2>1. PICK q \in Procs : other[p] = q
      BY <1>1 DEF VaspaceTypeOK
    <2>2. Clones(p, q) /\ ClonesFit(p, q)
      BY <1>1, <1>2, <2>1 DEF Clones
    <2> QED
      BY <1>2, <2>1, <2>2 DEF ClonesFit
  <1>3. ASSUME \A p \in Procs \ {InitProc} : stage[p] = "none", stage[InitProc] = "run"
        PROVE  Frames = free \cup lost \cup {root[InitProc]}
                          \cup {entry[InitProc][e] : e \in Present(InitProc)}
    <2>1. InitProc \in Procs /\ 0 \notin Frames
      BY VaspaceAssumption
    <2>2. \A p, q \in Procs : ~Clones(p, q) /\ ~Destroys(p, q)
      BY <1>3 DEF Clones, Destroys
    <2>3. \A p \in Procs : page[p] = 0 /\ stage[p] # "unmap"
      BY <1>1, <1>3 DEF CallFits
    <2>4. \A p \in Procs, s \in Slots : Held[p][s] = Plain(p, s)
      BY <2>2, <2>3, PlainHeld DEF NotDestroyed
    <2>5. \A p \in Procs \ {InitProc} : root[p] = 0 /\ \A e \in PTEs : entry[p][e] = 0
      BY <1>1, <1>3, <2>2 DEF NoneIsEmpty, Empty
    <2>6. \A p \in Procs \ {InitProc}, s \in Slots : Held[p][s] = 0
      <3>1. ASSUME NEW p \in Procs, p # InitProc, NEW s \in Slots
            PROVE  Plain(p, s) = 0
        BY <2>3, <2>5, <3>1 DEF Plain, Slots
      <3> QED
        BY <2>4, <3>1
    <2>7. ASSUME NEW x \in Frames, x \notin free, x \notin lost
          PROVE  x = root[InitProc] \/ \E e \in Present(InitProc) : entry[InitProc][e] = x
      <3>1. PICK p \in Procs, s \in Slots : Held[p][s] = x
        BY <1>1, <2>7 DEF Apart
      <3>2. x # 0 /\ p = InitProc
        BY <2>1, <2>6, <3>1
      <3> QED
        BY <2>3, <2>4, <3>1, <3>2 DEF Plain, Slots, Present
    <2>8. root[InitProc] \in Frames /\ free \subseteq Frames /\ lost \subseteq Frames
      BY <1>1, <1>3, <2>1 DEF CallFits, VaspaceTypeOK
    <2>9. \A e \in Present(InitProc) : entry[InitProc][e] \in Frames
      BY <1>1, <2>1, EntryTyped DEF Present
    <2> QED
      BY <2>7, <2>8, <2>9, SMTT(30)
  <1> QED
    BY <1>2, <1>3 DEF SpacesWhole

\* The inductive invariant holds of every behaviour of address spaces, for any
\* number of processes, pages, levels of tables and images.
THEOREM VaspaceInvariant == VaspaceSpec => []VaspaceInv
  <1>1. VaspaceInit => VaspaceInv
    BY VaspaceInitInv
  <1>2. VaspaceInv /\ [VaspaceNext]_vaspaceVars => VaspaceInv'
    BY VaspaceStepInv
  <1> QED
    BY <1>1, <1>2, PTL DEF VaspaceSpec

\* Every page of memory has one use in one address space, however mmap, munmap,
\* fork, execve, exit and waitpid of processes interleave, but for the page
\* sys_munmap gives back early; fork copies all pages and waitpid frees them all.
THEOREM VaspaceAddressSpacesApart == VaspaceSpec => []AddressSpacesApart
  <1>1. VaspaceInv => AddressSpacesApart
    BY InvWhole, HeldTyped DEF VaspaceInv, AddressSpacesApart, PagesApart, LostFit
  <1> QED
    BY <1>1, VaspaceInvariant, PTL
=============================================================================

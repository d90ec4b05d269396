------------------------------- MODULE Vaspace -------------------------------
(***************************************************************************)
(* Address spaces: src/kernel/mem/vmm/vaspace.c and paging.c, and the page *)
(* tables of src/kernel/arch/x86_64/mm.c.  A process maps and unmaps pages,*)
(* forks, executes an image and exits; a parent frees what is left of a    *)
(* child.  A tick may come between any two calls of the page allocator,    *)
(* except inside execve once interrupts are off; VMMlock does not mask it. *)
(*                                                                         *)
(* A page table entry is named by its level and index: <<0, v>> maps the   *)
(* virtual page v, <<1, i>> refers to a PT, and so on up to the entries of *)
(* the root.  Page 0 is never allocated and means "not present".  The      *)
(* kernel's half, which all roots share, is left out.                      *)
(***************************************************************************)
EXTENDS Integers, Sequences

CONSTANTS
    Procs, InitProc,
    FAN,         \* entries of a table: 512
    LEVELS,      \* levels of tables below the root: 3
    USER_END,    \* VMM_USER_END, in pages
    STACK,       \* the pages of the initial user stack, the last ones
    Images,      \* the programs: sequences of segments <<first page, pages>>
    Frames,      \* the pages of memory
    MaxMapped,   \* bound: pages mapped or unmapped by one call
    MaxCalls     \* bound: system calls in a behaviour

VARIABLES
    free,        \* the pages the allocator has
    root,        \* process->pt; 0 when there is no such process
    entry,       \* its page table entries
    stage,       \* where a process is: "none", "run", "zombie", or in a call
    todo,        \* what the loop of the call still has to go through
    other,       \* the child being cloned, or the process being freed
    page,        \* the page a call has in hand, or 0
    image,       \* the program that is being loaded
    vmm,         \* VMMlock: the set of its holders
    calls,       \* how many calls have been made
    lost         \* pages whose only mapping was overwritten

vaspaceVars ==
    <<free, root, entry, stage, todo, other, page, image, vmm, calls, lost>>

Virt == 0 .. USER_END - 1

\* The entry of level k on the way to virtual page v (mm_indexer).
Index(k, v) == <<k, v \div FAN^k>>

PTEs == {<<0, v>> : v \in Virt} \cup {Index(k, v) : k \in 1..LEVELS, v \in Virt}

Empty == [e \in PTEs |-> 0]

Present(p) == {e \in PTEs : entry[p][e] # 0}

\* What the loader maps: the stack, then the segments of an image in their order.
Segment(s) == s[1] .. s[1] + s[2] - 1

Items(im) ==
    {<<0, v>> : v \in (USER_END - STACK) .. USER_END - 1}
      \cup UNION {{<<i, v>> : v \in Segment(im[i])} : i \in DOMAIN im}

Overlaps(im) == \E a, b \in Items(im) : a # b /\ a[2] = b[2]

\* Programs are linked into the user's half, which has room for the stack.
ASSUME VaspaceAssumption ==
    /\ InitProc \in Procs /\ 0 \notin Frames /\ Frames # {}
    /\ LEVELS \in Nat /\ USER_END \in Nat /\ STACK \in 0 .. USER_END
    /\ \A im \in Images :
         /\ im # <<>>
         /\ \A i \in DOMAIN im : i \in Nat \ {0} /\ Segment(im[i]) \subseteq Virt

----------------------------------------------------------------------------
\* Loops.

\* The order in which the loops over tables come to an entry, ...
FirstPage(e) == e[2] * FAN^e[1]
Entering(e, f) == FirstPage(e) < FirstPage(f) \/ (FirstPage(e) = FirstPage(f) /\ e[1] > f[1])

\* ... and to the end of the loop over the table it refers to.
EndPage(e) == (e[2] + 1) * FAN^e[1]
Leaving(e, f) == EndPage(e) < EndPage(f) \/ (EndPage(e) = EndPage(f) /\ e[1] < f[1])

\* The order of pages, segment by segment.
Mapping(a, b) == a[1] < b[1] \/ (a[1] = b[1] /\ a[2] < b[2])

\* What the loop of p comes to next.
IsNext(p, a) ==
    /\ a \in todo[p]
    /\ \A b \in todo[p] \ {a} :
         CASE stage[p] = "clone" -> Entering(a, b)
           [] stage[p] \in {"destroy", "clear"} -> Leaving(a, b)
           [] OTHER -> Mapping(a, b)

\* The entry that maps the page of an item.
Leaf(a) == <<0, a[2]>>

\* pmm_allocate: which of the free pages it gives is the business of Pmm.  It
\* panics when there is none.
Allocated == CHOOSE x \in free : TRUE

----------------------------------------------------------------------------

\* process_create_init, which no other process disturbs.
VaspaceInit ==
    \E im \in Images :
      LET pt == CHOOSE x \in Frames : TRUE
      IN  /\ free = Frames \ {pt}
          /\ root = [p \in Procs |-> IF p = InitProc THEN pt ELSE 0]
          /\ entry = [p \in Procs |-> Empty]
          /\ stage = [p \in Procs |-> IF p = InitProc THEN "load" ELSE "none"]
          /\ todo = [p \in Procs |-> IF p = InitProc THEN Items(im) ELSE {}]
          /\ other = [p \in Procs |-> InitProc] /\ page = [p \in Procs |-> 0]
          /\ image = [p \in Procs |-> IF p = InitProc THEN im ELSE <<>>]
          /\ vmm = {} /\ calls = 0 /\ lost = {}

Begin(p, name, items) ==
    /\ stage[p] = "run" /\ calls < MaxCalls
    /\ calls' = calls + 1
    /\ stage' = [stage EXCEPT ![p] = name]
    /\ todo' = [todo EXCEPT ![p] = items]

----------------------------------------------------------------------------
\* mmap and munmap.

\* sys_mmap: the first run of n free virtual pages from the hint on (page 1 when
\* it is NULL; an address that is not aligned may be on page 0).  n is the length
\* divided by the size of a page: lengths are not rounded up, and one below a page
\* finds nothing.  The search takes VMMlock for each page, and nobody else changes
\* the tables of p.
sys_mmap(p, hint, n) ==
    LET fits == {v \in hint .. USER_END - n : \A j \in 0 .. n - 1 : entry[p][<<0, v + j>>] = 0}
    IN  /\ vmm = {}
        /\ \E v \in fits :
             /\ \A w \in fits : v <= w
             /\ Begin(p, "map", {<<0, u>> : u \in v .. v + n - 1})
        /\ UNCHANGED <<free, root, entry, other, page, image, vmm, lost>>

\* One page of sys_mmap or of vaspace_create_area, in the loader.
MapAllocate(p) ==
    /\ stage[p] \in {"map", "load"} /\ todo[p] # {} /\ page[p] = 0 /\ free # {}
    /\ page' = [page EXCEPT ![p] = Allocated]
    /\ free' = free \ {Allocated}
    /\ UNCHANGED <<root, entry, stage, todo, other, image, vmm, calls, lost>>

\* The levels on the way to v that have no table yet.
Missing(p, v) == {k \in 1..LEVELS : entry[p][Index(k, v)] = 0}

\* vmm_map takes VMMlock, and arch_mm_map adds the tables that are missing from
\* the root down ...
AddTable(p) ==
    /\ stage[p] \in {"map", "load"} /\ page[p] # 0 /\ vmm \subseteq {p} /\ free # {}
    /\ \E a \in todo[p] :
         /\ IsNext(p, a)
         /\ \E k \in Missing(p, a[2]) :
              /\ \A j \in Missing(p, a[2]) : j <= k
              /\ entry' = [entry EXCEPT ![p][Index(k, a[2])] = Allocated]
    /\ free' = free \ {Allocated}
    /\ vmm' = {p}
    /\ UNCHANGED <<root, stage, todo, other, page, image, calls, lost>>

\* ... and then maps the page, whatever was mapped there.
vmm_map(p) ==
    /\ stage[p] \in {"map", "load"} /\ page[p] # 0 /\ vmm \subseteq {p}
    /\ \E a \in todo[p] :
         /\ IsNext(p, a) /\ Missing(p, a[2]) = {}
         /\ lost' = lost \cup ({entry[p][Leaf(a)]} \ {0})
         /\ entry' = [entry EXCEPT ![p][Leaf(a)] = page[p]]
         /\ todo' = [todo EXCEPT ![p] = @ \ {a}]
    /\ page' = [page EXCEPT ![p] = 0]
    /\ vmm' = {}
    /\ UNCHANGED <<free, root, stage, other, image, calls>>

MapReturn(p) ==
    /\ stage[p] = "map" /\ todo[p] = {}
    /\ stage' = [stage EXCEPT ![p] = "run"]
    /\ UNCHANGED <<free, root, entry, todo, other, page, image, vmm, calls, lost>>

\* sys_munmap goes page by page and gives up at one that is not mapped.  The range
\* is one of the user's half.
sys_munmap(p, v, n) ==
    /\ v + n <= USER_END
    /\ Begin(p, "unmap", {<<0, u>> : u \in v .. v + n - 1})
    /\ UNCHANGED <<free, root, entry, other, page, image, vmm, lost>>

UnmapGiveUp(p) ==
    /\ stage[p] = "unmap" /\ page[p] = 0 /\ vmm = {}
    /\ \E a \in todo[p] : IsNext(p, a) /\ entry[p][Leaf(a)] = 0
    /\ todo' = [todo EXCEPT ![p] = {}]
    /\ UNCHANGED <<free, root, entry, stage, other, page, image, vmm, calls, lost>>

\* A page is given back while it is still mapped, ...
UnmapFree(p) ==
    /\ stage[p] = "unmap" /\ page[p] = 0 /\ vmm = {}
    /\ \E a \in todo[p] :
         /\ IsNext(p, a) /\ entry[p][Leaf(a)] # 0
         /\ page' = [page EXCEPT ![p] = entry[p][Leaf(a)]]
         /\ free' = free \cup {entry[p][Leaf(a)]}
    /\ UNCHANGED <<root, entry, stage, todo, other, image, vmm, calls, lost>>

\* ... and then unmapped; the tables stay.
vmm_unmap(p) ==
    /\ stage[p] = "unmap" /\ page[p] # 0 /\ vmm = {}
    /\ \E a \in todo[p] :
         /\ IsNext(p, a)
         /\ entry' = [entry EXCEPT ![p][Leaf(a)] = 0]
         /\ todo' = [todo EXCEPT ![p] = @ \ {a}]
    /\ page' = [page EXCEPT ![p] = 0]
    /\ UNCHANGED <<free, root, stage, other, image, vmm, calls, lost>>

UnmapReturn(p) ==
    /\ stage[p] = "unmap" /\ todo[p] = {}
    /\ stage' = [stage EXCEPT ![p] = "run"]
    /\ UNCHANGED <<free, root, entry, todo, other, page, image, vmm, calls, lost>>

----------------------------------------------------------------------------
\* fork, exit and the freeing of a process.

\* sys_fork up to the new root; the child does not run before it is complete.
arch_vaspace_new(p, q) ==
    /\ stage[q] = "none" /\ root[q] = 0 /\ free # {}
    /\ Begin(p, "clone", Present(p))
    /\ root' = [root EXCEPT ![q] = Allocated]
    /\ free' = free \ {Allocated}
    /\ other' = [other EXCEPT ![p] = q]
    /\ UNCHANGED <<entry, page, image, vmm, lost>>

\* arch_vaspace_clone: a table or a page of its own for every one of the parent.
arch_vaspace_clone(p) ==
    /\ stage[p] = "clone" /\ free # {}
    /\ \E e \in todo[p] :
         /\ IsNext(p, e)
         /\ entry' = [entry EXCEPT ![other[p]][e] = Allocated]
         /\ todo' = [todo EXCEPT ![p] = @ \ {e}]
    /\ free' = free \ {Allocated}
    /\ UNCHANGED <<root, stage, other, page, image, vmm, calls, lost>>

ForkReturn(p) ==
    /\ stage[p] = "clone" /\ todo[p] = {}
    /\ stage' = [stage EXCEPT ![p] = "run", ![other[p]] = "run"]
    /\ UNCHANGED <<free, root, entry, todo, other, page, image, vmm, calls, lost>>

\* sys_exit, or an exception that ends the process.
sys_exit(p) ==
    /\ stage[p] \in {"run", "doomed"} /\ p # InitProc
    /\ stage' = [stage EXCEPT ![p] = "zombie"]
    /\ UNCHANGED <<free, root, entry, todo, other, page, image, vmm, calls, lost>>

\* process_free, inside waitpid of another process.
process_free(p, q) ==
    /\ stage[q] = "zombie"
    /\ \A r \in Procs : stage[r] # "destroy" \/ other[r] # q
    /\ Begin(p, "destroy", Present(q))
    /\ other' = [other EXCEPT ![p] = q]
    /\ UNCHANGED <<free, root, entry, page, image, vmm, lost>>

\* arch_vaspace_destroy gives back pages before their table and leaves the
\* entries as they are.
arch_vaspace_destroy(p) ==
    /\ stage[p] = "destroy"
    /\ \E e \in todo[p] :
         /\ IsNext(p, e)
         /\ free' = free \cup {entry[other[p]][e]}
         /\ todo' = [todo EXCEPT ![p] = @ \ {e}]
    /\ UNCHANGED <<root, entry, stage, other, page, image, vmm, calls, lost>>

\* The root is given back last, and the process is gone.
DestroyReturn(p) ==
    /\ stage[p] = "destroy" /\ todo[p] = {}
    /\ free' = free \cup {root[other[p]]}
    /\ root' = [root EXCEPT ![other[p]] = 0]
    /\ entry' = [entry EXCEPT ![other[p]] = Empty]
    /\ stage' = [stage EXCEPT ![p] = "run", ![other[p]] = "none"]
    /\ UNCHANGED <<todo, other, page, image, vmm, calls, lost>>

----------------------------------------------------------------------------
\* execve.

sys_execve(p) ==
    /\ Begin(p, "clear", Present(p))
    /\ UNCHANGED <<free, root, entry, other, page, image, vmm, lost>>

\* A variant: the page is given back and its entry kept.
arch_vaspace_clearKeeps(p) ==
    /\ stage[p] = "clear"
    /\ \E e \in todo[p] :
         /\ IsNext(p, e)
         /\ free' = free \cup {entry[p][e]}
         /\ todo' = [todo EXCEPT ![p] = @ \ {e}]
    /\ UNCHANGED <<root, entry, stage, other, page, image, vmm, calls, lost>>

arch_vaspace_clear(p) ==
    /\ stage[p] = "clear"
    /\ \E e \in todo[p] :
         /\ IsNext(p, e)
         /\ entry' = [entry EXCEPT ![p][e] = 0]
         /\ free' = free \cup {entry[p][e]}
         /\ todo' = [todo EXCEPT ![p] = @ \ {e}]
    /\ UNCHANGED <<root, stage, other, page, image, vmm, calls, lost>>

\* Interrupts are off from here on.  An image that turns out not to be one leaves
\* the process with its stack only.
elf_exec_load(p) ==
    /\ stage[p] = "clear" /\ todo[p] = {}
    /\ \E im \in Images \cup {<<>>} :
         /\ image' = [image EXCEPT ![p] = im]
         /\ todo' = [todo EXCEPT ![p] = Items(im)]
    /\ stage' = [stage EXCEPT ![p] = "load"]
    /\ UNCHANGED <<free, root, entry, other, page, vmm, calls, lost>>

LoadReturn(p) ==
    /\ stage[p] = "load" /\ todo[p] = {}
    /\ stage' = [stage EXCEPT ![p] = IF image[p] = <<>> THEN "doomed" ELSE "run"]
    /\ image' = [image EXCEPT ![p] = <<>>]
    /\ UNCHANGED <<free, root, entry, todo, other, page, vmm, calls, lost>>

Runs(p) == \A q \in Procs \ {p} : stage[q] # "load"

VaspaceNext ==
    \E p \in Procs :
        /\ Runs(p)
        /\ \/ \E v \in Virt, n \in 1..MaxMapped :
                 sys_mmap(p, v, n) \/ sys_munmap(p, v, n)
           \/ MapAllocate(p) \/ AddTable(p) \/ vmm_map(p) \/ MapReturn(p)
           \/ UnmapGiveUp(p) \/ UnmapFree(p) \/ vmm_unmap(p) \/ UnmapReturn(p)
           \/ \E q \in Procs : arch_vaspace_new(p, q) \/ process_free(p, q)
           \/ arch_vaspace_clone(p) \/ ForkReturn(p) \/ sys_exit(p)
           \/ arch_vaspace_destroy(p) \/ DestroyReturn(p)
           \/ sys_execve(p) \/ arch_vaspace_clear(p) \/ elf_exec_load(p) \/ LoadReturn(p)

VaspaceSpec == VaspaceInit /\ [][VaspaceNext]_vaspaceVars

----------------------------------------------------------------------------

Stages ==
    {"none", "run", "map", "unmap", "clone", "destroy", "clear", "load", "doomed", "zombie"}

VaspaceTypeOK ==
    /\ free \subseteq Frames /\ lost \subseteq Frames
    /\ stage \in [Procs -> Stages] /\ todo \in [Procs -> SUBSET (PTEs \cup (Nat \X Virt))]
    /\ root \in [Procs -> Frames \cup {0}]
    /\ entry \in [Procs -> [PTEs -> Frames \cup {0}]]
    /\ page \in [Procs -> Frames \cup {0}]
    /\ other \in [Procs -> Procs] /\ image \in [Procs -> Images \cup {<<>>}]

\* Where a page may be held: as the root, in an entry, or in the hands of a call.
ROOT == <<LEVELS + 1, 0>>
HAND == <<-1, 0>>
Slots == PTEs \cup {ROOT, HAND}

\* The entries that refer to a page which has been given back already: those
\* arch_vaspace_destroy is done with, and the one of sys_munmap, which gives the
\* page back before it unmaps it (vaspace.c:143).
GivenBack(q, e) ==
    \/ \E p \in Procs : stage[p] = "destroy" /\ other[p] = q /\ e \notin todo[p]
    \/ stage[q] = "unmap" /\ page[q] # 0 /\ \E a \in todo[q] : IsNext(q, a) /\ e = Leaf(a)

InSlot(q, s) ==
    IF s = ROOT THEN root[q]
    ELSE IF s = HAND THEN (IF stage[q] = "unmap" THEN 0 ELSE page[q])
    ELSE IF GivenBack(q, s) THEN 0 ELSE entry[q][s]

Held == [q \in Procs |-> [s \in Slots |-> InSlot(q, s)]]

\* No page is held twice, none of those held is free or lost, and every page is
\* accounted for.
Apart(h, f, l) ==
    /\ \A p \in Procs, s \in Slots : h[p][s] # 0 =>
         /\ h[p][s] \notin f /\ h[p][s] \notin l
         /\ \A q \in Procs, t \in Slots : h[q][t] = h[p][s] => q = p /\ t = s
    /\ \A x \in f : x \notin l
    /\ \A x \in Frames : x \in f \/ x \in l \/ \E p \in Procs, s \in Slots : h[p][s] = x

\* Every page of memory has exactly one use, as free memory, as a table or mapped
\* page of one address space, or in the hands of a call, however the system calls
\* of processes interleave; the only exceptions are the page that sys_munmap gives
\* back before it unmaps it, which may be somebody else's already, and pages that
\* the loader maps over (vaspace_create_area).
PagesApart ==
    LET h == Held
    IN  /\ VaspaceTypeOK /\ h \in [Procs -> [Slots -> Frames \cup {0}]]
        /\ Apart(h, free, lost)
        /\ lost # {} => \E im \in Images : Overlaps(im)

\* A child's address space has the pages of its parent when fork returns, and its
\* own copy of each (arch_vaspace_clone); a process that has been freed leaves
\* nothing behind, whoever ran in between.
SpacesWhole ==
    /\ \A p \in Procs : stage[p] = "clone" /\ todo[p] = {} => Present(other[p]) = Present(p)
    /\ (\A p \in Procs \ {InitProc} : stage[p] = "none") /\ stage[InitProc] = "run" =>
          Frames = free \cup lost \cup {root[InitProc]}
                     \cup {entry[InitProc][e] : e \in Present(InitProc)}

\* Every page of memory has one use in one address space, except the page sys_munmap
\* gives back before it unmaps it; a clone has all pages of its parent, and a process
\* that has been freed leaves none behind (vaspace.c, mm.c).
AddressSpacesApart == PagesApart /\ SpacesWhole
=============================================================================

------------------------------ MODULE MCMemory ------------------------------
(***************************************************************************)
(* Instances of memory management for TLC: the page allocator, the kernel  *)
(* heap and address spaces. `part' chooses which component a behaviour     *)
(* exercises; the others rest in their initial state.                      *)
(***************************************************************************)
EXTENDS Pmm, Kheap, Vaspace

VARIABLE part

(* Pmm: nine pages, two of them reserved; the bitmap of four bytes takes page 1, and page 8 is beyond its last whole byte *)
SmallMap ==
    << [base |-> 0, length |-> 1, usable |-> FALSE],
       [base |-> 1, length |-> 3, usable |-> TRUE],
       [base |-> 4, length |-> 1, usable |-> FALSE],
       [base |-> 5, length |-> 4, usable |-> TRUE] >>

(* Vaspace: two processes with four virtual pages each, two levels of tables of two entries; an image, and one whose segments share a page *)
Plain == << <<0, 1>> >>
SomeImages == {Plain, << <<0, 2>>, <<1, 1>> >>}
Memory == 1..18

AllInit ==
    /\ part \in {"pmm", "heap", "vaspace"} /\ Init /\ KheapInit /\ VaspaceInit
    /\ part # "vaspace" => image[InitProc] = Plain
AllNext ==
    \/ part = "pmm" /\ Next /\ UNCHANGED <<part, kheapVars, vaspaceVars>>
    \/ part = "heap" /\ KheapNext /\ UNCHANGED <<part, vars, vaspaceVars>>
    \/ part = "vaspace" /\ VaspaceNext /\ UNCHANGED <<part, vars, kheapVars>>
AllSpec == AllInit /\ [][AllNext]_<<part, vars, kheapVars, vaspaceVars>>
MemorySpec == AllSpec /\ \A c \in Callers : WF_vars(part = "pmm" /\ CallStep(c))
=============================================================================

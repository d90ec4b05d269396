----------------------------- MODULE AmlObjects -----------------------------
(***************************************************************************)
(* The AML objects of uACPI (types.c, shareable.c) and the statements of   *)
(* the interpreter that move them between locals, arguments and names.     *)
(*                                                                         *)
(* A reference object counts for everything below it: taking a reference   *)
(* to it raises the count of every object on its chain of inner objects.   *)
(* Packages and buffers keep their contents in a storage that has a count  *)
(* of its own and may be shared by several objects.                        *)
(*                                                                         *)
(* A statement is one action: the interpreter evaluates its operands, runs *)
(* the handler and drops the operands' items before the next statement of  *)
(* the same method starts.  The memory a statement works on is the record  *)
(* Mem, which the operators below take and return.                         *)
(***************************************************************************)
EXTENDS Integers, Sequences, FiniteSets, FiniteSetsExt, SequencesExt

CONSTANTS MaxObjects,    \* objects alive at a time (bound)
          MaxStorages,   \* buffers and packages alive at a time (bound)
          Literals,      \* the literals of the program: "int0", "int1", "buffer", "package"
          MaxStatements  \* length of the program (bound)

VARIABLES obj,      \* object -> [type, flags, inner, storage, value, count]
          storage,  \* storage -> [count, value, elements]
          slot,     \* locals, arguments, names and call items -> object or 0
          depth,    \* number of call frames
          pending,  \* where the caller puts the result of the call: "drop" or "Local"
          left,     \* statements the program still has
          sink      \* "" or what went wrong: "bugged", "endless"

vars == <<obj, storage, slot, depth, pending, left, sink>>

NULL == 0
\* a statement may use more for its operands than it leaves behind
Objects == 1 .. MaxObjects + 7
Storages == 1 .. MaxStorages + 3
Slots == {<<"Named", 0>>, <<"Local", 1>>, <<"Local", 2>>, <<"Arg", 2>>,
          <<"argument", 2>>, <<"result", 2>>}
Names == {"Local", "Arg", "Named"}

NoObject == [type |-> "free", flags |-> "RefOf", inner |-> NULL, storage |-> NULL,
             value |-> 0, count |-> 0]
NoStorage == [count |-> 0, value |-> 0, elements |-> <<>>]

Mem == [o |-> obj, s |-> storage, l |-> slot, bad |-> sink]

NewObject(m) == Min({x \in Objects : m.o[x].type = "free"})
NewStorage(m) == Min({x \in Storages : m.s[x].count = 0})

Spoil(m, how) == [m EXCEPT !.bad = IF m.bad = "" THEN how ELSE @]

-----------------------------------------------------------------------------
(* Chains of references                                                    *)

IsReference(m, x) == m.o[x].type = "reference"

RECURSIVE ChainFrom(_, _, _)
ChainFrom(m, x, seen) ==
    IF ~IsReference(m, x) \/ m.o[x].inner \in {NULL} \cup {seen[i] : i \in DOMAIN seen}
    THEN seen
    ELSE ChainFrom(m, m.o[x].inner, Append(seen, m.o[x].inner))
Chain(m, x) == ChainFrom(m, x, <<x>>)

\* a chain that comes back to itself is walked for ever
Endless(m, c) == IsReference(m, Last(c)) /\ m.o[Last(c)].inner # NULL

Count(m, S, n) ==
    [m EXCEPT !.o = [y \in S |-> [m.o[y] EXCEPT !.count = @ + n]] @@ m.o]

RefChain(m, c, n) ==
    IF Endless(m, c) THEN Spoil(m, "endless")
    ELSE IF \E y \in Range(c) : m.o[y].count = 0 THEN Spoil(m, "bugged")
    ELSE Count(m, Range(c), n)

\* n times uacpi_object_ref
uacpi_object_ref(m, x, n) == RefChain(m, Chain(m, x), n)

-----------------------------------------------------------------------------
(* Freeing                                                                 *)

FreeObjects(m, S) ==
    [m EXCEPT !.o = [y \in S |-> NoObject] @@ m.o]

\* The chain S has just lost a reference: the objects that lost the last one
\* are freed.  The storage of a package at its end is queued, unless somebody
\* shares it: then the object itself stays behind.
FreeLast(m, S, last) ==
    LET dead == {y \in S : m.o[y].count = 0}
        st == m.o[last].storage
    IN  IF last \notin dead \/ st = NULL THEN [m |-> FreeObjects(m, dead), queue |-> {}]
        ELSE IF m.s[st].count > 1
        THEN [m |-> FreeObjects([m EXCEPT !.s[st].count = @ - 1],
                                IF m.o[last].type = "package" THEN dead \ {last} ELSE dead),
              queue |-> {}]
        ELSE [m |-> FreeObjects([m EXCEPT !.s[st].count = 0], dead), queue |-> {st}]

\* the work of free_package for one element
UnrefElement(m, c) ==
    IF \E y \in Range(c) : m.o[y].count = 0 THEN [m |-> Spoil(m, "bugged"), queue |-> {}]
    ELSE FreeLast(Count(m, Range(c), -1), Range(c), Last(c))
unref_object_no_recurse(m, x) == UnrefElement(m, Chain(m, x))

FreeElement(r, queue) == [m |-> r.m, queue |-> queue \cup r.queue]
RECURSIVE free_elements(_, _)
free_elements(r, elements) ==
    IF elements = <<>> THEN r
    ELSE free_elements(FreeElement(unref_object_no_recurse(r.m, Head(elements)), r.queue),
                       Tail(elements))

FreeStorage(r, st) == [r EXCEPT !.m.s[st] = NoStorage]
RECURSIVE free_package(_)
free_package(r) ==
    IF r.queue = {} THEN r.m
    ELSE LET st == Min(r.queue) IN
         free_package(FreeStorage(free_elements([r EXCEPT !.queue = @ \ {st}],
                                                r.m.s[st].elements), st))

\* uacpi_shareable_unref_and_delete_if_last on a buffer or a package
free_object_storage(m, x) ==
    LET st == m.o[x].storage IN
    IF st = NULL THEN m
    ELSE IF m.s[st].count > 1 THEN [m EXCEPT !.s[st].count = @ - 1]
    ELSE free_package([m |-> [m EXCEPT !.s[st].count = 0], queue |-> {st}])

free_chain(m, c) ==
    LET dead == {y \in Range(c) : m.o[y].count = 0}
    IN  FreeObjects(IF Last(c) \in dead THEN free_object_storage(m, Last(c)) ELSE m, dead)

Released(m, c) == IF m.o[c[1]].count = 0 THEN free_chain(m, c) ELSE m

\* an object on the chain with fewer references than the one above it is a
\* counting error
UnrefChain(m, c, n) ==
    IF Endless(m, c) THEN Spoil(m, "endless")
    ELSE IF \/ m.o[c[1]].count < n
            \/ \E i \in 2 .. Len(c) : m.o[c[i]].count < m.o[c[i - 1]].count
         THEN Spoil(m, "bugged")
    ELSE Released(Count(m, Range(c), 0 - n), c)

\* n times uacpi_object_unref
uacpi_object_unref(m, x, n) == UnrefChain(m, Chain(m, x), n)

-----------------------------------------------------------------------------
(* Making and copying objects                                              *)

create_object(m, rec) == [m EXCEPT !.o[NewObject(m)] = rec]
Plain(type, value) == [NoObject EXCEPT !.type = type, !.value = value, !.count = 1]

uacpi_object_attach_child(m, parent, child) ==
    uacpi_object_ref([m EXCEPT !.o[parent].inner = child], child, m.o[parent].count)

uacpi_object_detach_child(m, parent) ==
    uacpi_object_unref([m EXCEPT !.o[parent].inner = NULL],
                       m.o[parent].inner, m.o[parent].count)

uacpi_create_internal_reference(m, kind, child) ==
    LET x == NewObject(m) IN
    uacpi_object_attach_child(
        create_object(m, [Plain("reference", 0) EXCEPT !.flags = kind]), x, child)

RECURSIVE unwrap(_, _)
unwrap(m, x) ==
    IF ~IsReference(m, x) \/ m.o[x].flags \in {"RefOf", "PkgIndex"} THEN x
    ELSE unwrap(m, m.o[x].inner)

\* the last reference of the chain; the object itself if it is none
OneBeforeLast(c) == IF Len(c) = 1 THEN c[1] ELSE c[Len(c) - 1]
reference_unwind(m, x) == OneBeforeLast(Chain(m, x))

\* package_alloc: a package of one element, which nobody has initialized yet
package_alloc(m, x) ==
    LET e == NewObject(m)
        st == NewStorage(m)
        m1 == create_object(m, Plain("uninitialized", 0))
    IN  [m1 EXCEPT !.s[st] = [count |-> 1, value |-> 0, elements |-> <<e>>],
                   !.o[x].type = "package", !.o[x].storage = st]

buffer_alloc(m, x, value) ==
    LET st == NewStorage(m) IN
    [m EXCEPT !.s[st] = [count |-> 1, value |-> value, elements |-> <<>>],
              !.o[x].type = "buffer", !.o[x].storage = st]

Share(m, dst, src) ==
    [m EXCEPT !.o[dst].storage = m.o[src].storage, !.o[dst].type = m.o[src].type,
              !.s[m.o[src].storage].count = @ + 1]

\* a copy of everything but a package into an object that holds nothing
AssignPlain(m, dst, src, deep) ==
    CASE m.o[src].type = "buffer" /\ deep ->
             buffer_alloc(m, dst, m.s[m.o[src].storage].value)
      [] m.o[src].type \in {"buffer", "package", "bufindex"} -> Share(m, dst, src)
      [] m.o[src].type = "reference" ->
             [uacpi_object_attach_child(m, dst, m.o[src].inner) EXCEPT !.o[dst].type = "reference"]
      [] OTHER -> [m EXCEPT !.o[dst].type = m.o[src].type, !.o[dst].value = m.o[src].value]

\* reqs: the copies still to be made, the last one first; an element that
\* Index has wrapped is unwrapped
ElementOf(m, st) ==
    LET el == m.s[st].elements[1] IN
    IF IsReference(m, el) /\ m.o[el].flags = "PkgIndex" THEN m.o[el].inner ELSE el
FirstOf(m, x) == m.s[m.o[x].storage].elements[1]

CopyElement(m, dst, src, reqs) ==
    IF m.o[src].type = "package"
    THEN [m |-> m, reqs |-> Append(reqs, [dst |-> dst, src |-> m.o[src].storage])]
    ELSE [m |-> AssignPlain(m, dst, src, TRUE), reqs |-> reqs]

CopyPackage(m, r, reqs) == CopyElement(m, FirstOf(m, r.dst), ElementOf(m, r.src), reqs)

RECURSIVE deep_copy_package(_)
deep_copy_package(c) ==
    IF c.reqs = <<>> THEN c.m
    ELSE deep_copy_package(CopyPackage(package_alloc(c.m, Last(c.reqs).dst), Last(c.reqs),
                                       Front(c.reqs)))

Emptied(m, dst) ==
    CASE m.o[dst].type = "reference" -> uacpi_object_detach_child(m, dst)
      [] m.o[dst].type \in {"buffer", "package"} -> free_object_storage(m, dst)
      [] OTHER -> m

Filled(m, dst, src, type, st, deep) ==
    IF type = "package" /\ deep
    THEN deep_copy_package([m |-> m, reqs |-> <<[dst |-> dst, src |-> st]>>])
    ELSE AssignPlain(m, dst, src, deep)

uacpi_object_assign(m, dst, src, deep) ==
    IF dst = src THEN m
    ELSE Filled(Emptied(m, dst), dst, src, m.o[src].type, m.o[src].storage, deep)

-----------------------------------------------------------------------------
(* Operands.  An operand is a record of the memory and of the object the   *)
(* item of the op holds a reference to, NULL if the op failed.             *)

Item(m, x) == [m |-> m, x |-> x]
SlotOf(name) == IF name = "Named" THEN <<"Named", 0>> ELSE <<name, depth>>

\* an object nobody has initialized, and a copy of src in such an object
Uninitialized(m) == Item(create_object(m, Plain("uninitialized", 0)), NewObject(m))
CopyIn(i, src, deep) == Item(uacpi_object_assign(i.m, i.x, src, deep), i.x)

\* a reference of a kind to a new object takes over the reference to it
Refer(i, kind) == Item(uacpi_create_internal_reference(i.m, kind, i.x), NewObject(i.m))
Own(r, x, s) == [uacpi_object_unref(r.m, x, 1) EXCEPT !.l[s] = r.x]
InSlot(i, s) == Own(Refer(i, s[1]), i.x, s)

handle_arg_or_local(m, s) == IF m.l[s] # NULL THEN m ELSE InSlot(Uninitialized(m), s)

\* a local, an argument or a name as it is
Taken(m, s) == Item(uacpi_object_ref(m, m.l[s], 1), m.l[s])
Raw(m, name) ==
    LET s == SlotOf(name) IN Taken(IF name = "Named" THEN m ELSE handle_arg_or_local(m, s), s)

\* OBJECT_TRANSFER_TO_PREV to an op that waits for an unwrapped object
Unwrapped(i) ==
    LET y == unwrap(i.m, i.x) IN
    IF y = i.x THEN i
    ELSE Item(uacpi_object_unref(uacpi_object_ref(i.m, y, 1), i.x, 1), y)

Failed(i) == Item(uacpi_object_unref(i.m, i.x, 1), NULL)

Element0(m, x) == Item([m EXCEPT !.o[FirstOf(m, x)] = Plain("integer", 0)], x)
Filling(i, kind) ==
    IF kind = "buffer" THEN Item(buffer_alloc(i.m, i.x, 0), i.x)
    ELSE Element0(package_alloc(i.m, i.x), i.x)
Literal(m, kind) ==
    CASE kind = "int0" -> Item(create_object(m, Plain("integer", 0)), NewObject(m))
      [] kind = "int1" -> Item(create_object(m, Plain("integer", 1)), NewObject(m))
      [] OTHER -> Filling(Uninitialized(m), kind)

handle_ref_of(i) ==
    LET x == NewObject(i.m)
        m1 == create_object(i.m, [Plain("reference", 0) EXCEPT !.inner = i.x])
    IN  Item(uacpi_object_unref(uacpi_object_ref(m1, i.x, 1), i.x, 1), x)

Consumed(i, x) == Item(uacpi_object_unref(i.m, x, 1), i.x)

Bottom(m, x) == IF IsReference(m, x) THEN m.o[reference_unwind(m, x)].inner ELSE x
DerefTo(i, b) ==
    IF i.m.o[b].type = "bufindex"
    THEN Item(create_object(i.m, Plain("integer", i.m.s[i.m.o[b].storage].value)), NewObject(i.m))
    ELSE CopyIn(Uninitialized(i.m), b, FALSE)
handle_deref_of(i) ==
    IF i.m.o[i.x].type \notin {"reference", "bufindex"} THEN Failed(i)
    ELSE Consumed(DerefTo(i, Bottom(i.m, i.x)), i.x)

\* Index(package) without dropping the package's own reference
WrapElementVariant(m, st) ==
    LET el == m.s[st].elements[1] IN
    IF IsReference(m, el) /\ m.o[el].flags = "PkgIndex" THEN m
    ELSE [uacpi_create_internal_reference(m, "PkgIndex", el)
              EXCEPT !.s[st].elements = <<NewObject(m)>>]

\* the element of a package becomes a reference to itself, once
WrapElement(m, st) ==
    LET el == m.s[st].elements[1] IN
    IF IsReference(m, el) /\ m.o[el].flags = "PkgIndex" THEN m
    ELSE uacpi_object_unref([uacpi_create_internal_reference(m, "PkgIndex", el)
                                 EXCEPT !.s[st].elements = <<NewObject(m)>>], el, 1)

\* the index is always 0, the only one a package or a buffer here has
Picked(m, st) == Item(uacpi_object_ref(m, m.s[st].elements[1], 1), m.s[st].elements[1])
handle_index(i) ==
    LET m == i.m
        st == m.o[i.x].storage
    IN  IF m.o[i.x].type \notin {"buffer", "package"} THEN Failed(i)
        ELSE Consumed(IF m.o[i.x].type = "buffer"
                      THEN Item([create_object(m, [Plain("bufindex", 0) EXCEPT !.storage = st])
                                     EXCEPT !.s[st].count = @ + 1], NewObject(m))
                      ELSE Picked(WrapElement(m, st), st), i.x)

\* an operand is a literal, or operators applied to a name; what Index returns
\* needs no unwrapping
Indexed(op, i) ==
    IF op \in {"Index", "RefOfIndex", "DerefOfIndex"} THEN handle_index(Unwrapped(i)) ELSE i
Referred(op, i) ==
    CASE i.x = NULL \/ op \in {"raw", "Index"} -> i
      [] op \in {"RefOf", "RefOfIndex"} /\ i.x # NULL -> handle_ref_of(i)
      [] OTHER -> handle_deref_of(Unwrapped(i))
Eval(m, e) ==
    IF e[1] = "literal" THEN Literal(m, e[2])
    ELSE Referred(e[1], Indexed(e[1], Raw(m, e[2])))

-----------------------------------------------------------------------------
(* Stores.  A store is a record of the memory and of the status.           *)

Stored(m) == [m |-> m, ok |-> TRUE]
Refused(m) == [m |-> m, ok |-> FALSE]

\* The value of a storable object replaces the one of dst, in place.
object_assign_with_implicit_cast(m, dst, src) ==
    LET value == IF m.o[src].type = "buffer" THEN m.s[m.o[src].storage].value
                 ELSE m.o[src].value
    IN  IF m.o[src].type \notin {"integer", "buffer"} THEN Refused(m)
        ELSE CASE m.o[dst].type = "integer" -> Stored([m EXCEPT !.o[dst].value = value])
               [] m.o[dst].type \in {"buffer", "bufindex"} ->
                      Stored([m EXCEPT !.s[m.o[dst].storage].value = value])
               [] OTHER -> Refused(m)

\* a copy of src takes the place of the object below the reference dst
Replace(i, dst) ==
    uacpi_object_unref(
        uacpi_object_attach_child(uacpi_object_detach_child(i.m, dst), dst, i.x), i.x, 1)
Overwrite(m, dst, src) == Stored(Replace(CopyIn(Uninitialized(m), src, TRUE), dst))

copy_object_to_reference(m, dst, src) ==
    LET kind == m.o[dst].flags
        referenced == unwrap(m, dst)
        through == kind = "Arg" /\ IsReference(m, referenced)
    IN  IF kind = "RefOf" THEN Refused(m)
        ELSE Overwrite(m, IF through THEN reference_unwind(m, referenced) ELSE dst,
                       unwrap(m, src))

\* the reference a store goes to; below a name, the last one of the chain
StoreTarget(m, dst, referenced) ==
    IF m.o[dst].flags = "Named" THEN reference_unwind(m, dst)
    ELSE IF IsReference(m, referenced) THEN reference_unwind(m, referenced)
    ELSE dst
StoreInto(m, to, replace, src) ==
    IF replace \/ m.o[m.o[to].inner].type = "uninitialized" THEN Overwrite(m, to, src)
    ELSE object_assign_with_implicit_cast(m, m.o[to].inner, src)
StoreBelow(m, dst, referenced, src) ==
    StoreInto(m, StoreTarget(m, dst, referenced),
              \/ m.o[dst].flags = "Arg"
              \/ m.o[dst].flags \in {"Local", "PkgIndex"} /\ ~IsReference(m, referenced), src)
store_to_reference(m, dst, src) ==
    IF m.o[dst].flags = "RefOf" THEN Refused(m)
    ELSE StoreBelow(m, dst, IF m.o[dst].flags = "PkgIndex" THEN m.o[dst].inner ELSE unwrap(m, dst),
                    unwrap(m, src))

\* the integer 0 stands for no target
store_to_target(m, dst, src) ==
    CASE m.o[dst].type = "reference" -> store_to_reference(m, dst, src)
      [] m.o[dst].type = "bufindex" ->
             object_assign_with_implicit_cast(m, dst, unwrap(m, src))
      [] m.o[dst].type = "integer" /\ m.o[dst].value = 0 -> Stored(m)
      [] OTHER -> Refused(m)

handle_copy_object_or_store(op, m, dst, src) ==
    IF op = "Store" THEN store_to_target(m, dst, src)
    ELSE IF m.o[dst].type # "reference" THEN Refused(m)
    ELSE copy_object_to_reference(m, dst, src)

-----------------------------------------------------------------------------
(* Statements                                                              *)

DropOne(m, s) ==
    IF m.l[s] = NULL THEN m ELSE [uacpi_object_unref(m, m.l[s], 1) EXCEPT !.l[s] = NULL]
RECURSIVE Drop(_, _)
Drop(m, slots) == IF slots = <<>> THEN m ELSE Drop(DropOne(m, Head(slots)), Tail(slots))

\* call_frame_clear on the callee, the items of the call, the caller
Callee == <<<<"Arg", 2>>, <<"Local", 2>>>>
CallItems == <<<<"argument", 2>>, <<"result", 2>>>>
Caller == <<<<"Local", 1>>>>

\* addresses mean nothing: what is in use is numbered from 1 again, unless a
\* pointer to something freed would be lost by that
Numbers(S) == (NULL :> NULL) @@ [x \in S |-> Cardinality({y \in S : y <= x})]
Compact(m) ==
    LET used == {x \in Objects : m.o[x].type # "free"}
        kept == {x \in Storages : m.s[x].count > 0}
        N == Numbers(used)
        S == Numbers(kept)
        sound == /\ \A x \in used : /\ m.o[x].inner \in used \cup {NULL}
                                    /\ m.o[x].storage \in kept \cup {NULL}
                 /\ \A s \in Slots : m.l[s] \in used \cup {NULL}
                 /\ \A st \in kept : Range(m.s[st].elements) \subseteq used
        o == (NULL :> NULL) @@ [i \in 1 .. Cardinality(used) |-> CHOOSE x \in used : N[x] = i]
        s == (NULL :> NULL) @@ [i \in 1 .. Cardinality(kept) |-> CHOOSE x \in kept : S[x] = i]
    IN  IF ~sound THEN m
        ELSE [o |-> [i \in Objects |-> IF i \notin DOMAIN o THEN NoObject
                      ELSE [m.o[o[i]] EXCEPT !.inner = N[@], !.storage = S[@]]],
              s |-> [i \in Storages |-> IF i \notin DOMAIN s THEN NoStorage
                      ELSE [m.s[s[i]] EXCEPT !.elements = [j \in DOMAIN @ |-> N[@[j]]]]],
              l |-> [t \in Slots |-> N[m.l[t]]], bad |-> m.bad]

Becomes(m) == \E c \in {Compact(m)} :
    /\ c.o[MaxObjects + 1] = NoObject
    /\ c.s[MaxStorages + 1] = NoStorage
    /\ obj' = c.o /\ storage' = c.s /\ slot' = c.l /\ sink' = c.bad

\* an error ends the method and everything that called it
stack_unwind(m) ==
    /\ Becomes(Drop(m, Callee \o CallItems \o Caller))
    /\ depth' = 1
    /\ pending' = "drop"

Operators == {"raw", "RefOf", "DerefOf", "Index", "RefOfIndex", "DerefOfIndex"}
NamesHere == {n \in Names : SlotOf(n) \in Slots /\ (n = "Named" => slot[SlotOf(n)] # NULL)}
Operands == ({"literal"} \X Literals) \cup (Operators \X NamesHere)
Targets == {"raw", "Index"} \X NamesHere

\* Store(e, d) and CopyObject(e, d)
StoreDone(r, dst, src) ==
    [r EXCEPT !.m = uacpi_object_unref(uacpi_object_unref(r.m, dst, 1), src, 1)]
StoreTo(op, to, src) ==
    IF to.x = NULL THEN Refused(uacpi_object_unref(to.m, src, 1))
    ELSE StoreDone(handle_copy_object_or_store(op, to.m, to.x, src), to.x, src)

\* an operand that fails has left nothing to store
CopyOrStore(op, from, d) ==
    IF from.x = NULL THEN Refused(from.m) ELSE StoreTo(op, Eval(from.m, d), from.x)

Outcome(r, ok) == IF r.ok THEN Becomes(r.m) /\ ok ELSE stack_unwind(r.m)

Statement(op, e, d) ==
    Outcome(CopyOrStore(op, Eval(Mem, e), d), UNCHANGED <<depth, pending>>)

\* M(e), or Store(M(e), Local0): the argument shares the caller's storage
Argument(i) ==
    [Item(uacpi_create_internal_reference(i.m, "Arg", i.x), i.x)
         EXCEPT !.m.l[<<"Arg", 2>>] = NewObject(i.m), !.m.l[<<"argument", 2>>] = i.x]
ResultItem(i) == [i.m EXCEPT !.l[<<"result", 2>>] = i.x]
Passed(arg) ==
    Stored(ResultItem(Uninitialized(
        Argument(Consumed(CopyIn(Uninitialized(arg.m), arg.x, FALSE), arg.x)).m)))
Enter(from) == IF from.x = NULL THEN Refused(from.m) ELSE Passed(Unwrapped(from))

Call(e, p) ==
    /\ depth = 1
    /\ Outcome(Enter(Eval(Mem, e)), depth' = 2 /\ pending' = p)

\* back in the caller: the result is stored if the call was an operand
ResultTo(to, src) == StoreDone(store_to_target(to.m, to.x, src), to.x, src)
FinishCall(m) ==
    IF pending = "drop" THEN Stored(Drop(m, CallItems))
    ELSE ResultTo(Taken(handle_arg_or_local(
                            [DropOne(m, <<"argument", 2>>) EXCEPT !.l[<<"result", 2>>] = NULL],
                            <<"Local", 1>>), <<"Local", 1>>),
                  m.l[<<"result", 2>>])

LeaveCallee(r) ==
    IF r.ok THEN FinishCall(Drop(r.m, Callee)) ELSE r

\* Return(e) in the callee: the value is copied to the caller's item
ReturnValue(val) ==
    Stored(Consumed(CopyIn(Item(val.m, val.m.l[<<"result", 2>>]), val.x, TRUE), val.x).m)
Returned(from) == IF from.x = NULL THEN Refused(from.m) ELSE ReturnValue(Unwrapped(from))

handle_return(e) ==
    /\ depth = 2
    /\ Outcome(LeaveCallee(Returned(Eval(Mem, e))), depth' = 1 /\ pending' = "drop")

\* the end of a method without a Return
call_frame_clear ==
    IF depth = 2 THEN Outcome(LeaveCallee(Stored(Mem)), depth' = 1 /\ pending' = "drop")
    ELSE Becomes(Drop(Mem, Caller)) /\ UNCHANGED <<depth, pending>>

Empty == [o |-> [x \in Objects |-> NoObject], s |-> [x \in Storages |-> NoStorage],
          l |-> [s \in Slots |-> NULL], bad |-> ""]

\* Name(N, e), run when the definition block is loaded: the object is copied
\* and the node holds a reference to the copy
Installed(from) == Consumed(CopyIn(Uninitialized(from.m), from.x, TRUE), from.x)
handle_create_named(e) == InSlot(Installed(Literal(Empty, e)), <<"Named", 0>>)

Init ==
    /\ \E e \in Literals : \E m \in {Compact(handle_create_named(e))} :
         obj = m.o /\ storage = m.s /\ slot = m.l /\ sink = m.bad
    /\ depth = 1 /\ pending = "drop" /\ left = MaxStatements

Next ==
    /\ sink = "" /\ left > 0
    /\ left' = left - 1
    /\ \/ \E op \in {"Store", "CopyObject"}, e \in Operands, d \in Targets : Statement(op, e, d)
       \/ \E e \in Operands, p \in {"drop", "Local"} : Call(e, p)
       \/ \E e \in Operands : handle_return(e)
       \/ call_frame_clear

Spec == Init /\ [][Next]_vars

-----------------------------------------------------------------------------
(* Properties                                                              *)

Alive == {x \in Objects : obj[x].type # "free" /\ obj[x].count > 0}

\* who holds a direct reference to x: slots and package elements
HeldBy(x) ==
    Cardinality({s \in Slots : slot[s] = x})
    + Cardinality({st \in Storages : storage[st].count > 0 /\ x \in Range(storage[st].elements)})

\* Reference counts are exact: the count of every object is the number of
\* locals, arguments, names, items and package elements that hold it plus the
\* counts of the reference objects above it, nothing that is held has been
\* freed, a storage is counted once per object that uses it, and no walk ever
\* marks a chain as bugged (uacpi_object_ref/unref, attach/detach_child,
\* free_package).  Whatever nobody holds any more has been freed, with one
\* exception: free_plain_no_recurse leaves a package object behind, with the
\* count 0 and unreachable, when it was an element of a freed package and
\* another object shares its storage.  Nothing but a package is ever lost so.
RefCountExact ==
    sink # "endless" =>
      /\ sink = ""
      /\ \A x \in Objects \ Alive : obj[x].type \in {"free", "package"}
      /\ \A s \in Slots : slot[s] # NULL => slot[s] \in Alive
      /\ \A x \in Alive :
            /\ obj[x].count = HeldBy(x)
                 + MapThenSumSet(LAMBDA y : obj[y].count,
                                 {y \in Alive : obj[y].type = "reference" /\ obj[y].inner = x})
            /\ obj[x].type = "reference" => obj[x].inner \in Alive
      /\ \A st \in Storages :
            storage[st].count = Cardinality({x \in Alive : obj[x].storage = st})

\* the storages an object owns: its own and those of its elements, not the
\* ones it only refers to
RECURSIVE Owns(_)
Owns(x) ==
    IF obj[x].type = "reference" THEN IF obj[x].flags = "RefOf" THEN {} ELSE Owns(obj[x].inner)
    ELSE IF obj[x].type \notin {"buffer", "package"} THEN {}
    ELSE {obj[x].storage} \cup UNION {Owns(e) : e \in Range(storage[obj[x].storage].elements)}

\* A stored value is a copy: a local, a name and the result of a call never
\* own the same buffer or package, so that a later store to one does not
\* change the other; only an argument shares with what was passed
\* (UACPI_ASSIGN_BEHAVIOR_DEEP_COPY in store_to_reference,
\* copy_object_to_reference and handle_return).
CopiesIsolated ==
    sink = "" =>
      \A s, t \in {<<"Named", 0>>, <<"Local", 1>>, <<"Local", 2>>, <<"result", 2>>} :
        s # t /\ slot[s] # NULL /\ slot[t] # NULL => Owns(slot[s]) \cap Owns(slot[t]) = {}
=============================================================================

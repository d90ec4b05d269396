------------------------------ MODULE Namespace ------------------------------
(***************************************************************************)
(* The ACPI namespace tree (namespace.c): nodes linked by parent, first     *)
(* child and next peer, counted references, a "dangling" state for nodes    *)
(* that AML still holds after they were unlinked, path lookup, and the      *)
(* depth first walk whose callbacks run AML.  A method (a frame) creates    *)
(* temporary nodes that call_frame_clear unlinks, last first; a definition  *)
(* block creates permanent ones.                                            *)
(*                                                                          *)
(* A peer list is the sequence child[n].  A path is [pre, segs]: pre is     *)
(* "root" for a leading backslash or the number of carets.                  *)
(***************************************************************************)
EXTENDS Naturals, Sequences, FiniteSets, SequencesExt

CONSTANTS Ids,        \* node structures the allocator hands out (without the root)
          Names,
          MaxFrames,  \* bound on nested calls
          MaxHeld     \* bound on references AML keeps

Root == 0
All == Ids \cup {Root}
NoNode == 99

VARIABLES state,      \* [All -> "free" | "linked" | "dangling"]
          parent, name, child, refs,
          frames,     \* call stack: [persist, temps]
          held,       \* sequence of nodes AML keeps a reference to
          walk,       \* the walk: [on, at, depth, up]
          seen, cut,  \* ghosts: nodes visited, in order; nodes whose subtree was left out
          old,        \* ghost: nodes linked since before the walk
          orphaned,   \* ghost: a node was unlinked while it had children
          mode        \* bound: a behaviour has a walk, or references AML holds

vars == <<state, parent, name, child, refs, frames, held, walk, seen, cut, old, orphaned, mode>>
tree == <<state, parent, name, child, refs>>

NoWalk == [on |-> FALSE, at |-> Root, depth |-> 0, up |-> FALSE]

Init ==
    /\ state = [n \in All |-> IF n = Root THEN "linked" ELSE "free"]
    /\ mode \in {"walk", "hold"}
    /\ parent = [n \in All \cup {NoNode} |-> NoNode] /\ name = [n \in All |-> "none"]
    /\ child = [n \in All |-> <<>>] /\ refs = [n \in All |-> IF n = Root THEN 1 ELSE 0]
    /\ frames = <<>> /\ held = <<>> /\ walk = NoWalk /\ seen = <<>> /\ cut = {} /\ old = {}
    /\ orphaned = FALSE

Linked == {n \in All : state[n] = "linked"}
Ancestors(n) ==
    LET p == parent IN {p[n], p[p[n]], p[p[p[n]]], p[p[p[p[n]]]]} \ {NoNode}

-----------------------------------------------------------------------------
(* lookup *)

find_sub_node(n, s) ==
    LET i == SelectInSeq(child[n], LAMBDA c : name[c] = s)
    IN IF i = 0 THEN NoNode ELSE child[n][i]

Descend(n, segs) ==
    FoldLeft(LAMBDA x, s : IF x = NoNode THEN NoNode ELSE find_sub_node(x, s), n, segs)

Climb(n, k) ==
    FoldLeft(LAMBDA x, i : IF x \in {NoNode, Root} THEN NoNode ELSE parent[x],
             n, [i \in 1 .. k |-> i])

(* a single name that is not found is looked for in every scope on the way up *)
SearchAbove(n, s) ==
    LET ups == {a \in Ancestors(n) : find_sub_node(a, s) # NoNode}
    IN IF ups = {} THEN NoNode
       ELSE find_sub_node(CHOOSE a \in ups : \A b \in ups : a = b \/ b \in Ancestors(a), s)

uacpi_namespace_node_do_find(scope, path, above) ==
    LET start == IF path.pre = "root" THEN Root ELSE Climb(scope, path.up)
        found == IF start = NoNode THEN NoNode ELSE Descend(start, path.segs)
    IN IF /\ found = NoNode /\ above
          /\ path.pre = "none" /\ path.up = 0 /\ Len(path.segs) = 1
       THEN SearchAbove(scope, path.segs[1]) ELSE found

(* generate_absolute_path fills the names in from the end *)
Depth(n) == Cardinality(Ancestors(n))
uacpi_namespace_node_generate_absolute_path(n) ==
    [pre |-> "root", up |-> 0,
     segs |-> [i \in 1 .. Depth(n) |->
                 name[FoldLeft(LAMBDA x, j : parent[x], n, [j \in 1 .. Depth(n) - i |-> j])]]]

-----------------------------------------------------------------------------
(* the tree *)

Frame == frames[Len(frames)]

(* a name is created in a scope of the tree: a duplicate is refused, a temporary node
   is remembered for the end of the method.  The scope of a definition block run by
   LoadTable may be any node, a temporary one of the calling method included. *)
uacpi_node_install(p, s, n) ==
    /\ frames # <<>> /\ state[p] = "linked" /\ find_sub_node(p, s) = NoNode
    /\ state[n] = "free" /\ \A m \in Ids : state[m] = "free" => n <= m
    /\ state' = [state EXCEPT ![n] = "linked"] /\ refs' = [refs EXCEPT ![n] = 1]
    /\ parent' = [parent EXCEPT ![n] = p] /\ name' = [name EXCEPT ![n] = s]
    /\ child' = [child EXCEPT ![p] = Append(@, n)]
    /\ frames' = IF Frame.persist THEN frames
                 ELSE [frames EXCEPT ![Len(frames)].temps = Append(@, n)]
    /\ UNCHANGED <<held, walk, seen, cut, old, orphaned, mode>>

(* uacpi_node_uninstall of one node as a function of [state, refs, child]; a node
   freed with its last reference *)
uacpi_node_uninstallVariant(t, n) ==
    [state |-> [t.state EXCEPT ![n] = IF t.refs[n] = 1 THEN "free" ELSE "dangling"],
     refs  |-> [t.refs EXCEPT ![n] = @ - 1],
     child |-> IF Head(t.child[parent[n]]) = n
               THEN [t.child EXCEPT ![parent[n]] = SelectSeq(@, LAMBDA c : c # n)] ELSE t.child]
uacpi_node_uninstall(t, n) ==
    [state |-> [t.state EXCEPT ![n] = IF t.refs[n] = 1 THEN "free" ELSE "dangling"],
     refs  |-> [t.refs EXCEPT ![n] = @ - 1],
     child |-> [t.child EXCEPT ![parent[n]] = SelectSeq(@, LAMBDA c : c # n)]]

Push(persist) ==
    /\ Len(frames) < MaxFrames /\ (walk.on \/ seen = <<>>)
    /\ frames' = Append(frames, [persist |-> persist, temps |-> <<>>])
    /\ UNCHANGED <<tree, held, walk, seen, cut, old, orphaned, mode>>

(* the end of a call: its temporary nodes go, last first.  Permanent children of one of
   them, left by LoadTable, stay behind with a parent pointer to a node that is gone. *)
call_frame_clear ==
    /\ frames # <<>>
    /\ LET t == FoldRight(LAMBDA n, a : uacpi_node_uninstall(a, n), Frame.temps,
                          [state |-> state, refs |-> refs, child |-> child])
       IN /\ state' = t.state /\ refs' = t.refs /\ child' = t.child
          /\ parent' = [n \in DOMAIN parent |-> IF n \in All /\ t.state[n] = "free"
                                               THEN NoNode ELSE parent[n]]
          /\ name' = [n \in All |-> IF t.state[n] = "free" THEN "none" ELSE name[n]]
          /\ orphaned' = \E n \in Range(Frame.temps) : t.child[n] # <<>>
    /\ old' = old \ Range(Frame.temps)
    /\ frames' = Front(frames)
    /\ UNCHANGED <<held, walk, seen, cut, mode>>

(* RefOf, CopyObject and returned references *)
Hold(n) ==
    /\ frames # <<>> /\ state[n] = "linked" /\ n # Root
    /\ mode = "hold" /\ Len(held) < MaxHeld
    /\ held' = Append(held, n) /\ refs' = [refs EXCEPT ![n] = @ + 1]
    /\ UNCHANGED <<state, parent, name, child, frames, walk, seen, cut, old, orphaned, mode>>

uacpi_namespace_node_unref ==
    /\ held # <<>>
    /\ LET n == Head(held)
       IN /\ refs' = [refs EXCEPT ![n] = @ - 1]
          /\ IF refs[n] = 1
               THEN /\ state' = [state EXCEPT ![n] = "free"]
                    /\ parent' = [parent EXCEPT ![n] = NoNode] /\ name' = [name EXCEPT ![n] = "none"]
               ELSE UNCHANGED <<state, parent, name>>
    /\ held' = Tail(held)
    /\ UNCHANGED <<child, frames, walk, seen, cut, old, orphaned, mode>>

-----------------------------------------------------------------------------
(* uacpi_namespace_for_each_node_depth_first, one turn of its loop per step; AML runs
   inside a callback and has returned before the walk moves on *)

NextPeer(n) ==
    IF n = Root THEN NoNode
    ELSE LET i == SelectInSeq(child[parent[n]], LAMBDA c : c = n)
         IN IF i \in {0, Len(child[parent[n]])} THEN NoNode ELSE child[parent[n]][i + 1]

StartWalk(n) ==
    /\ mode = "walk" /\ ~walk.on /\ frames = <<>> /\ state[n] = "linked" /\ seen = <<>>
    /\ walk' = [on |-> TRUE, at |-> n, depth |-> 1, up |-> FALSE]
    /\ old' = Linked /\ cut' = {} /\ UNCHANGED <<tree, frames, held, seen, orphaned, mode>>

Visit(continue) ==
    /\ walk.on /\ ~walk.up /\ frames = <<>>
    /\ seen' = Append(seen, walk.at)
    /\ cut' = IF continue THEN cut ELSE cut \cup {walk.at}
    /\ walk' = IF continue /\ child[walk.at] # <<>>
               THEN [walk EXCEPT !.at = child[walk.at][1], !.depth = @ + 1]
               ELSE [walk EXCEPT !.up = TRUE]
    /\ UNCHANGED <<tree, frames, held, old, orphaned, mode>>

WalkUp ==
    /\ walk.on /\ walk.up /\ frames = <<>>
    /\ walk' = IF NextPeer(walk.at) # NoNode
               THEN [walk EXCEPT !.at = NextPeer(@), !.up = FALSE]
               ELSE IF walk.depth = 1 THEN [walk EXCEPT !.on = FALSE]
               ELSE [walk EXCEPT !.depth = @ - 1, !.at = parent[@]]
    /\ UNCHANGED <<tree, frames, held, seen, cut, old, orphaned, mode>>

(* what becomes of orphaned nodes is not followed *)
Next ==
    /\ ~orphaned
    /\ \/ \E p \in All, s \in Names, n \in Ids : uacpi_node_install(p, s, n)
       \/ \E b \in BOOLEAN : Push(b) \/ Visit(b)
       \/ call_frame_clear \/ uacpi_namespace_node_unref \/ WalkUp
       \/ \E n \in All : Hold(n) \/ StartWalk(n)
Spec == Init /\ [][Next]_vars

-----------------------------------------------------------------------------
Peers(n) == IF n = Root THEN {Root} ELSE Range(child[parent[n]])

(* The links stay a tree while methods come and go: a linked node is in its parent's
   list once, its parent is linked (until a method ends whose temporary nodes a loaded
   table's nodes hang below), its references are the link and what AML holds, and a node
   AML holds is never freed. *)
TreeSound ==
    /\ ~orphaned => \A n \in Linked \ {Root} :
         /\ parent[n] \in Linked
         /\ Len(SelectSeq(child[parent[n]], LAMBDA c : c = n)) = 1
    /\ \A n \in Ids :
         /\ refs[n] = (IF state[n] = "linked" THEN 1 ELSE 0)
                      + Len(SelectSeq(held, LAMBDA h : h = n))
         /\ state[n] = "free" <=> refs[n] = 0
         /\ state[n] # "linked" => \A p \in Linked : n \notin Range(child[p])

(* A node's absolute path leads back to it from anywhere, and a single name means the
   node of that name in the closest enclosing scope. *)
PathResolves ==
    ~orphaned => \A n \in Linked :
        /\ \A m \in Linked :
             uacpi_namespace_node_do_find(n, uacpi_namespace_node_generate_absolute_path(m),
                                          FALSE) = m
        /\ \A s \in Names :
             LET r == uacpi_namespace_node_do_find(n, [pre |-> "none", up |-> 0, segs |-> <<s>>],
                                                   TRUE)
             IN IF r = NoNode
                THEN \A m \in Linked : name[m] = s => parent[m] \notin Ancestors(n) \cup {n}
                ELSE /\ parent[r] \in Ancestors(n) \cup {n}
                     /\ \A m \in Linked : /\ name[m] = s
                                          /\ parent[m] \in Ancestors(n) \cup {n}
                                          => parent[m] \in Ancestors(r)

(* The walk, while its callbacks add and remove nodes, sees no node twice, and at its
   end has seen every node at or below the start and its later peers that was there all
   along, except below the nodes where it was told to go on with the next peer. *)
WalkVisits ==
    /\ \A i, j \in DOMAIN seen : seen[i] = seen[j] => i = j
    /\ seen # <<>> /\ ~walk.on /\ ~orphaned =>
         \A n \in old \cap Linked :
            \/ n \in Range(seen)
            \/ (Ancestors(n) \cap cut) # {}
            \/ (Ancestors(n) \cup {n}) \cap Peers(seen[1]) = {}
            \/ LET top == CHOOSE a \in (Ancestors(n) \cup {n}) \cap Peers(seen[1]) : TRUE
                   i(x) == SelectInSeq(child[parent[seen[1]]], LAMBDA c : c = x)
               IN seen[1] # Root /\ i(top) < i(seen[1])
=============================================================================

------------------------------- MODULE Notify -------------------------------
(***************************************************************************)
(* Device notifications (notify.c).  Notify(node, value) captures the heads *)
(* of the handler lists of the node and of the root and hands them to       *)
(* uacpi_kernel_schedule_work, which in this kernel calls do_notify on the  *)
(* spot.  Between two callbacks other tasks, and the callbacks themselves,  *)
(* install and remove handlers; nothing locks the lists.                    *)
(*                                                                          *)
(* A list is the sequence of its callbacks (installing one twice is         *)
(* refused).  A pointer kept across a step is the callback it points to; it *)
(* dangles once that entry is freed (ghost stale): do_notify then reads     *)
(* freed memory, and the model does not guess what follows.                 *)
(***************************************************************************)
EXTENDS Naturals, Sequences, FiniteSets, SequencesExt

CONSTANTS Nodes, Root, Callbacks,
          MaxNotify      \* bound on notifications in a behaviour

VARIABLES heads,      \* [Nodes -> Seq(Callbacks)]: notify_head lists
          gone,       \* nodes uninstalled from the namespace
          refs,       \* [Nodes -> Nat]: reference count of the node
          ctx,        \* the notification under way
          calls,      \* callbacks made so far: <<node whose list it is on, callback>>
          stayed,     \* ghost: [Nodes -> callbacks on that list all along]
          stale,      \* ghost: a kept pointer dangles
          count

vars == <<heads, gone, refs, ctx, calls, stayed, stale, count>>

Idle == [phase |-> "idle", node |-> Root, cur |-> "null", root |-> "null",
         in |-> FALSE]

Init ==
    /\ heads = [n \in Nodes |-> <<>>] /\ gone = {} /\ refs = [n \in Nodes |-> 1]
    /\ ctx = Idle /\ calls = <<>> /\ stale = FALSE /\ count = 0
    /\ stayed = [n \in Nodes |-> {}]

HeadOf(s) == IF s = <<>> THEN "null" ELSE s[1]
After(s, c) ==
    LET i == SelectInSeq(s, LAMBDA x : x = c)
    IN IF i = Len(s) THEN "null" ELSE s[i + 1]
ListOf(l) == IF l = "node" THEN ctx.node ELSE Root

(* uacpi_install_notify_handler puts the handler first *)
uacpi_install_notify_handler(n, c) ==
    /\ n \notin gone /\ c \notin Range(heads[n])
    /\ heads' = [heads EXCEPT ![n] = <<c>> \o @]
    /\ UNCHANGED <<gone, refs, ctx, calls, stayed, stale, count>>

(* the entries of list n in S are freed *)
Freed(n, S) ==
    /\ stayed' = [stayed EXCEPT ![n] = @ \ S]
    /\ stale' = (stale \/ \/ ctx.phase \in {"node", "root"}
                             /\ ListOf(ctx.phase) = n /\ ctx.cur \in S
                          \/ ctx.phase = "node" /\ n = Root /\ ctx.root \in S)

uacpi_uninstall_notify_handler(n, c) ==
    /\ n \notin gone /\ c \in Range(heads[n])
    /\ heads' = [heads EXCEPT ![n] = SelectSeq(@, LAMBDA x : x # c)]
    /\ Freed(n, {c})
    /\ UNCHANGED <<gone, refs, ctx, calls, count>>

(* uacpi_node_uninstall of a device made inside a method: the device object goes, and
   its handlers with it; the node itself when nobody holds it *)
uacpi_node_uninstall(n) ==
    /\ n # Root /\ n \notin gone /\ gone' = gone \cup {n}
    /\ heads' = [heads EXCEPT ![n] = <<>>]
    /\ Freed(n, Range(heads[n]))
    /\ refs' = [refs EXCEPT ![n] = @ - 1]
    /\ UNCHANGED <<ctx, calls, count>>

(* AML's Notify on a node that has a device object *)
uacpi_notify_all(n) ==
    /\ ctx.phase = "idle" /\ n \notin gone /\ count < MaxNotify
    /\ heads[n] # <<>> \/ heads[Root] # <<>>
    /\ ctx' = [phase |-> "node", node |-> n, cur |-> HeadOf(heads[n]),
               root |-> HeadOf(heads[Root]), in |-> FALSE]
    /\ refs' = [refs EXCEPT ![n] = @ + 1]
    /\ stayed' = [m \in Nodes |-> IF m \in {n, Root} THEN Range(heads[m]) ELSE {}]
    /\ calls' = <<>> /\ stale' = FALSE /\ count' = count + 1
    /\ UNCHANGED <<heads, gone>>

(* one turn of do_notify's loop: a callback, the step to the next entry, the change to
   the root's list, or the end *)
DoCall ==
    /\ ctx.cur # "null" /\ ~ctx.in
    /\ calls' = Append(calls, <<ListOf(ctx.phase), ctx.cur>>)
    /\ ctx' = [ctx EXCEPT !.in = TRUE]
    /\ UNCHANGED refs

DoNext ==
    /\ ctx.in
    /\ ctx' = [ctx EXCEPT !.cur = After(heads[ListOf(ctx.phase)], @), !.in = FALSE]
    /\ UNCHANGED <<calls, refs>>

DoRoot ==
    /\ ctx.cur = "null" /\ ctx.phase = "node"
    /\ ctx' = [ctx EXCEPT !.phase = "root", !.cur = ctx.root]
    /\ UNCHANGED <<calls, refs>>

DoDone ==
    /\ ctx.cur = "null" /\ ctx.phase = "root"
    /\ refs' = [refs EXCEPT ![ctx.node] = @ - 1]
    /\ ctx' = [ctx EXCEPT !.phase = "done"]
    /\ UNCHANGED calls

do_notify ==
    /\ ctx.phase \in {"node", "root"} /\ ~stale
    /\ DoCall \/ DoNext \/ DoRoot \/ DoDone
    /\ UNCHANGED <<heads, gone, stayed, stale, count>>

(* back to the interpreter *)
Return ==
    /\ ctx.phase = "done" /\ ctx' = Idle
    /\ calls' = <<>> /\ stayed' = [n \in Nodes |-> {}]
    /\ UNCHANGED <<heads, gone, refs, stale, count>>

Next ==
    \/ \E n \in Nodes, c \in Callbacks :
         uacpi_install_notify_handler(n, c) \/ uacpi_uninstall_notify_handler(n, c)
    \/ \E n \in Nodes : uacpi_node_uninstall(n) \/ uacpi_notify_all(n)
    \/ do_notify \/ Return
Spec == Init /\ [][Next]_vars

-----------------------------------------------------------------------------
Times(n, c) == Len(SelectSeq(calls, LAMBDA x : x = <<n, c>>))

(* do_notify walks the node's list and then the root's: for a Notify on the root itself
   both walks are over the same list. *)
Walks(n) == IF ctx.node = Root THEN IF n = Root THEN 2 ELSE 0
            ELSE IF n \in {ctx.node, Root} THEN 1 ELSE 0

(* For a Notify on a device every handler that was on the device's or the root's list
   from its start to its end is called exactly once per list; for a Notify on the root
   every such handler is called twice, because do_notify does not tell that case apart.
   No handler is called more often, and the node is alive until the last callback,
   whatever is installed, removed or uninstalled between the callbacks; as long as the
   entry the walk stands on, or the root entry it kept, is not freed. *)
NotifiedOnce ==
    /\ ctx.phase = "done" => \A n \in Nodes : \A c \in stayed[n] : Times(n, c) = Walks(n)
    /\ \A n \in Nodes, c \in Callbacks : Times(n, c) <= Walks(n)
    /\ ctx.phase \in {"node", "root"} => refs[ctx.node] > 0
=============================================================================

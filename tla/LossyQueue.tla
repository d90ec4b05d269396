----------------------------- MODULE LossyQueue -----------------------------
(***************************************************************************)
(* What the keyboard buffer promises a program that reads the terminal:    *)
(* keys arrive in the order in which they were typed and at most once.     *)
(* Keys are numbered as they are typed.  A full queue may lose everything  *)
(* it holds when one more key comes, the new key included or not.          *)
(***************************************************************************)
EXTENDS Integers, Sequences

CONSTANT Capacity   \* keys that can wait without loss

VARIABLES
    q,        \* the keys waiting
    typed,    \* how many keys have been typed
    out       \* the last key delivered, 0 before the first

vars == <<q, typed, out>>

Init == q = <<>> /\ typed = 0 /\ out = 0

Put ==
    /\ typed' = typed + 1
    /\ \/ q' = Append(q, typed + 1)
       \/ Len(q) >= Capacity /\ q' \in {<<>>, <<typed + 1>>}
    /\ UNCHANGED out

Get ==
    /\ q # <<>>
    /\ out' = Head(q)
    /\ q' = Tail(q)
    /\ UNCHANGED typed

Next == Put \/ Get

Spec == Init /\ [][Next]_vars
=============================================================================

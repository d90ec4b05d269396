----------------------------- MODULE AmlControl -----------------------------
(***************************************************************************)
(* Control flow of the AML interpreter (interpreter.c): the stack of code   *)
(* blocks of a frame, If, Else and While, Break, Continue and Return, and   *)
(* the time limit of loops.                                                 *)
(*                                                                          *)
(* A program is a sequence of operations, one per offset.  A block          *)
(* operation knows where its package ends; its predicate is evaluated when  *)
(* it is executed and may have any value.                                   *)
(***************************************************************************)
EXTENDS Naturals, Sequences, FiniteSets

CONSTANTS ProgramSize,   \* operations of a program
          LoopTimeout,   \* loop_timeout_seconds
          MaxTime

Simple(k) == [kind |-> k, end |-> 0]
Block(k, e) == [kind |-> k, end |-> e]

(* Statement lists of n operations that start at offset o; loop: inside a While *)
RECURSIVE Lists(_, _, _)
Lists(o, n, loop) ==
    IF n = 0 THEN {<<>>}
    ELSE {<<Simple(k)>> \o r : k \in {"work", "return"} \cup (IF loop THEN {"break", "continue"} ELSE {}),
                               r \in Lists(o + 1, n - 1, loop)}
         \cup UNION {{<<Block(k, o + 1 + m)>> \o b \o r :
                        b \in Lists(o + 1, m, loop \/ k = "while"),
                        r \in Lists(o + 1 + m, n - 1 - m, loop)} :
                      k \in {"if", "while"}, m \in 0 .. n - 1}
         \cup UNION {UNION {{<<Block("if", o + 1 + m)>> \o b \o <<Block("else", o + 2 + m + e)>> \o c \o r :
                        b \in Lists(o + 1, m, loop), c \in Lists(o + 2 + m, e, loop),
                        r \in Lists(o + 2 + m + e, n - 2 - m - e, loop)} :
                      e \in 0 .. n - 2 - m} : m \in 0 .. n - 2}

VARIABLES prog, size, off,         \* the method; code_offset
          blocks,                  \* code_blocks: [type, begin, end, exp]
          slots,                   \* expiration_point left in the slots of the array
          last_while,              \* index of the innermost While block, 0 if none
          prev_off, prev_exp,      \* prev_while_code_offset, prev_while_expiration
          skip_else, now, pc,
          want,                    \* where the program's structure says to go on
          entered                  \* when each loop was entered

frame == <<off, blocks, slots, last_while, prev_off, prev_exp, skip_else>>
vars == <<prog, size, off, blocks, slots, last_while, prev_off, prev_exp, skip_else, now, pc,
          want, entered>>

Op(p) == prog[p + 1]
IsBlock(p) == Op(p).kind \in {"if", "else", "while"}
NONE == MaxTime + LoopTimeout + 1
MaxDepth == ProgramSize + 1

-----------------------------------------------------------------------------
(* The reference: where control goes, from the structure of the program alone *)

END == size
Inside(p, q) == IsBlock(q) /\ q < p /\ p < Op(q).end
Parent(p) == LET s == {q \in 0 .. p - 1 : Inside(p, q)}
             IN IF s = {} THEN size ELSE CHOOSE q \in s : \A r \in s : r <= q
EndOf(b) == IF b = size THEN size ELSE Op(b).end
HasElse(p) == Op(p).end < EndOf(Parent(p)) /\ Op(Op(p).end).kind = "else"

RECURSIVE Flow(_, _)
Flow(n, b) ==                       \* control falls to offset n of block b
    IF n < EndOf(b) THEN n
    ELSE IF b = size THEN END
    ELSE CASE Op(b).kind = "while" -> b
           [] Op(b).kind = "else" -> Flow(n, Parent(b))
           [] Op(b).kind = "if" -> Flow(IF HasElse(b) THEN Op(n).end ELSE n, Parent(b))

Loop(p) == LET s == {q \in 0 .. p - 1 : Inside(p, q) /\ Op(q).kind = "while"}
           IN CHOOSE q \in s : \A r \in s : r <= q

(* A Return sets the offset to the end of the method.  When every block from the Return
   up to the innermost While ends there too, maybe_end_block takes that for the end of the
   loop's body and goes back to the While: the Return acts as a Continue. *)
TailReturn(p) ==
    \E q \in 0 .. p - 1 : /\ Inside(p, q) /\ Op(q).kind = "while"
                          /\ \A r \in q .. p - 1 : Inside(p, r) => Op(r).end = size

Goes(p, taken) ==
    CASE Op(p).kind = "work" -> Flow(p + 1, Parent(p))
      [] Op(p).kind = "return" -> IF TailReturn(p) THEN Loop(p) ELSE END
      [] Op(p).kind = "break" -> Flow(Op(Loop(p)).end, Parent(Loop(p)))
      [] Op(p).kind = "continue" -> Loop(p)
      [] Op(p).kind = "while" -> IF taken THEN Flow(p + 1, p) ELSE Flow(Op(p).end, Parent(p))
      [] Op(p).kind = "if" -> IF taken THEN Flow(p + 1, p)
                              ELSE IF HasElse(p) THEN Flow(Op(p).end + 1, Op(p).end)
                              ELSE Flow(Op(p).end, Parent(p))

Init ==
    /\ prog \in Lists(0, ProgramSize, FALSE) /\ size = ProgramSize
    /\ off = 0 /\ last_while = 0 /\ prev_off = 0 /\ prev_exp = 0 /\ skip_else = FALSE
    /\ blocks = <<[type |-> "scope", begin |-> 0, end |-> ProgramSize]>>
    /\ slots = [d \in 1 .. MaxDepth |-> 0]
    /\ now = 0 /\ pc = "run" /\ want = 0 /\ entered = [p \in 0 .. ProgramSize - 1 |-> NONE]

-----------------------------------------------------------------------------
cur == blocks[Len(blocks)]

find_last_while(bs) ==
    LET s == {i \in 1 .. Len(bs) : bs[i].type = "while"}
    IN IF s = {} THEN 0 ELSE CHOOSE i \in s : \A j \in s : j <= i

(* frame_reset_post_end_block for the blocks above the first `keep' ones *)
Pop(keep) ==
    LET gone == {i \in keep + 1 .. Len(blocks) : blocks[i].type = "while"}
        low == CHOOSE i \in gone : \A j \in gone : i <= j
    IN /\ blocks' = SubSeq(blocks, 1, keep)
       /\ prev_off' = IF gone = {} THEN prev_off ELSE blocks[low].begin + 1
       /\ prev_exp' = IF gone = {} THEN prev_exp ELSE slots[low]
       /\ last_while' = IF gone = {} THEN last_while ELSE find_last_while(SubSeq(blocks, 1, keep))

maybe_end_block ==
    /\ pc = "run" /\ blocks # <<>> /\ off = cur.end
    /\ skip_else' = (cur.type = "if")
    /\ off' = IF cur.type = "while" THEN cur.begin ELSE off
    /\ Pop(Len(blocks) - 1)
    /\ UNCHANGED <<prog, size, slots, now, pc, want, entered>>

Ends == blocks # <<>> /\ off = cur.end

(* ctx_reload_post_ret: no code is left *)
FrameDone ==
    /\ pc = "run" /\ ~Ends /\ off = size
    /\ pc' = IF want = END THEN "done" ELSE "astray"
    /\ UNCHANGED <<prog, size, off, blocks, slots, last_while, prev_off, prev_exp, skip_else,
                   now, want, entered>>

(* begin_block_execution; a While that is executed again right after its body keeps the
   time limit of the round before.  The limit compared is what is left in the slot. *)
Expired(p) == prev_off = p + 1 /\ now > slots[Len(blocks) + 1]

begin_block_execution(p) ==
    LET d == Len(blocks) + 1
        b == Append(blocks, [type |-> Op(p).kind, begin |-> p, end |-> Op(p).end])
    IN /\ blocks' = b
       /\ slots' = IF Op(p).kind # "while" THEN slots
                   ELSE [slots EXCEPT ![d] = IF prev_off = p + 1 THEN prev_exp
                                             ELSE now + LoopTimeout]
       /\ last_while' = find_last_while(b)
       /\ off' = p + 1
       /\ UNCHANGED <<prev_off, prev_exp>>

(* The structure of the program and the interpreter agree on the operation at off *)
Astray == want # off
Stop(p) == pc' = IF Astray THEN "astray" ELSE p

Executes(k) == pc = "run" /\ ~Ends /\ off < size /\ Op(off).kind = k
Left(ps) == [p \in DOMAIN entered |-> IF p \in ps THEN NONE ELSE entered[p]]

handle_if(taken) ==
    /\ Executes("if")
    /\ IF taken THEN begin_block_execution(off)
       ELSE off' = Op(off).end /\ UNCHANGED <<blocks, slots, last_while, prev_off, prev_exp>>
    /\ skip_else' = FALSE /\ want' = Goes(off, taken) /\ Stop("run")
    /\ UNCHANGED <<prog, size, now, entered>>

(* An Else is skipped right after its If block has ended, and only then *)
handle_else_variant ==
    /\ Executes("else")
    /\ IF off = prev_off
         THEN off' = Op(off).end /\ UNCHANGED <<blocks, slots, last_while, prev_off, prev_exp>>
         ELSE begin_block_execution(off)
    /\ skip_else' = FALSE
    /\ UNCHANGED <<prog, size, now, pc, want, entered>>
handle_else ==
    /\ Executes("else")
    /\ IF skip_else
         THEN off' = Op(off).end /\ UNCHANGED <<blocks, slots, last_while, prev_off, prev_exp>>
         ELSE begin_block_execution(off)
    /\ skip_else' = FALSE
    /\ UNCHANGED <<prog, size, now, pc, want, entered>>

(* the loop at p has run longer than its limit *)
Late(p) == entered[p] # NONE /\ now > entered[p] + LoopTimeout

handle_while(taken) ==
    /\ Executes("while")
    /\ want' = Goes(off, taken)
    /\ IF ~taken
         THEN /\ off' = Op(off).end /\ entered' = Left({off}) /\ Stop("run")
              /\ UNCHANGED <<blocks, slots, last_while, prev_off, prev_exp>>
         ELSE IF Expired(off)
           THEN /\ Stop("timeout")
                /\ UNCHANGED <<off, blocks, slots, last_while, prev_off, prev_exp, entered>>
           ELSE /\ begin_block_execution(off) /\ Stop(IF Late(off) THEN "overdue" ELSE "run")
                /\ entered' = IF entered[off] = NONE THEN [entered EXCEPT ![off] = now]
                              ELSE entered
    /\ skip_else' = FALSE
    /\ UNCHANGED <<prog, size, now>>

handle_control_flow(k) ==
    /\ k \in {"break", "continue"} /\ Executes(k)
    /\ off' = IF k = "break" THEN blocks[last_while].end ELSE blocks[last_while].begin
    /\ Pop(last_while - 1)
    /\ skip_else' = FALSE /\ want' = Goes(off, TRUE) /\ Stop("run")
    /\ entered' = IF k = "break" THEN Left({Loop(off)}) ELSE entered
    /\ UNCHANGED <<prog, size, slots, now>>

handle_return ==
    /\ Executes("return")
    /\ off' = size /\ skip_else' = FALSE
    /\ want' = Goes(off, TRUE) /\ Stop("run")
    /\ UNCHANGED <<prog, size, blocks, slots, last_while, prev_off, prev_exp, now, entered>>

(* Any other operation; it takes time, or fails and aborts the method *)
Work ==
    /\ Executes("work")
    /\ now' \in {now, now + 1} /\ now' <= MaxTime
    /\ off' = off + 1 /\ skip_else' = FALSE /\ want' = Goes(off, TRUE)
    /\ Stop("run") \/ Stop("aborted")
    /\ UNCHANGED <<prog, size, blocks, slots, last_while, prev_off, prev_exp, entered>>

Next ==
    \/ maybe_end_block \/ FrameDone \/ handle_else \/ handle_return \/ Work
    \/ \E t \in BOOLEAN : handle_if(t) \/ handle_while(t)
    \/ \E k \in {"break", "continue"} : handle_control_flow(k)
Spec == Init /\ [][Next]_vars

-----------------------------------------------------------------------------
(* The block stack, the flag for Else and the jumps of the interpreter execute every
   program in the order its structure says, for all values of the predicates: no operation
   is run, skipped or repeated that the nesting of If, Else and While does not ask for,
   with one exception: a Return inside a While that ends together with the method goes
   back to the While (TailReturn) instead of ending the method. *)
FollowsProgram == pc # "astray"

(* A loop is given up exactly when it is about to begin another round later than the time
   limit counted from when it was entered, although the limit is compared before it is
   copied into the new block: never earlier, and no round begins after it. *)
TimeoutExact ==
    /\ pc = "timeout" => Late(off)
    /\ pc # "overdue"
    /\ pc = "run" => \A i \in 1 .. Len(blocks) :
         blocks[i].type = "while" =>
           slots[i] = entered[blocks[i].begin] + LoopTimeout
=============================================================================

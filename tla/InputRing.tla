----------------------------- MODULE InputRing -----------------------------
(***************************************************************************)
(* The keyboard ring buffer, src/kernel/sys/term/input.c.  The keyboard    *)
(* interrupt writes keys with input_send_key; a process that reads the     *)
(* terminal takes them with input_rb_read, which the interrupt may divide  *)
(* at any statement.  There is no lock and no test for a full buffer.      *)
(*                                                                         *)
(* Keys are numbered as they are typed.                                    *)
(***************************************************************************)
EXTENDS Integers, Sequences

CONSTANTS
    SIZE,       \* INPUT_RB_SIZE: 32
    MaxKeys,    \* bound: the number of keys typed
    MaxRead     \* bound: the size of a read

ASSUME SizeAssumption == SIZE \in Nat \ {0, 1} /\ MaxKeys \in Nat /\ MaxRead \in Nat

Slots == 0 .. SIZE - 1

VARIABLES
    chr,        \* kbringbuffer[i].chr; 0 is an emptied entry
    writeRBPos, readRBPos,
    reader,     \* where it is: idle, test, copy, clear, advance
    left,       \* the bytes the reader still wants
    out,        \* the last key delivered
    typed,      \* how many keys have been typed
    full        \* a key has been typed into a full buffer

inputVars == <<chr, writeRBPos, readRBPos, reader, left, out, typed, full>>

\* entry->next: input_init links the entries into a ring.
NextSlot(i) == (i + 1) % SIZE

\* input_init.
InputInit ==
    /\ chr = [i \in Slots |-> 0]
    /\ writeRBPos = 0 /\ readRBPos = 0
    /\ reader = "idle" /\ left = 0 /\ out = 0 /\ typed = 0 /\ full = FALSE

\* Variant: the position moves before the key is written.
SendKeyLate ==
    /\ typed < MaxKeys
    /\ chr' = [chr EXCEPT ![NextSlot(writeRBPos)] = typed + 1]
    /\ writeRBPos' = NextSlot(writeRBPos)
    /\ typed' = typed + 1
    /\ UNCHANGED <<readRBPos, reader, left, out, full>>

\* A key that is not special is pressed; it may use the last free entry and so
\* make the buffer look empty.
input_send_key ==
    /\ typed < MaxKeys
    /\ chr' = [chr EXCEPT ![writeRBPos] = typed + 1]
    /\ writeRBPos' = NextSlot(writeRBPos)
    /\ typed' = typed + 1
    /\ full' = (full \/ NextSlot(writeRBPos) = readRBPos)
    /\ UNCHANGED <<readRBPos, reader, left, out>>

input_rb_read(n) ==
    /\ reader = "idle"
    /\ reader' = "test"
    /\ left' = n
    /\ UNCHANGED <<chr, writeRBPos, readRBPos, out, typed, full>>

\* Variant: the positions are compared as if they never wrapped.
ReadTestNoWrap ==
    /\ reader = "test"
    /\ reader' = IF writeRBPos > readRBPos /\ left # 0 THEN "copy" ELSE "idle"
    /\ UNCHANGED <<chr, writeRBPos, readRBPos, left, out, typed, full>>

\* The statements of its loop.
ReadTest ==
    /\ reader = "test"
    /\ reader' = IF writeRBPos # readRBPos /\ left # 0 THEN "copy" ELSE "idle"
    /\ UNCHANGED <<chr, writeRBPos, readRBPos, left, out, typed, full>>

ReadCopy ==
    /\ reader = "copy"
    /\ out' = chr[readRBPos]
    /\ reader' = "clear"
    /\ UNCHANGED <<chr, writeRBPos, readRBPos, left, typed, full>>

ReadClear ==
    /\ reader = "clear"
    /\ chr' = [chr EXCEPT ![readRBPos] = 0]
    /\ reader' = "advance"
    /\ UNCHANGED <<writeRBPos, readRBPos, left, out, typed, full>>

\* Variant: the loop ends without moving past the key.
ReadAdvanceStays ==
    /\ reader = "advance"
    /\ left' = left - 1
    /\ reader' = "test"
    /\ UNCHANGED <<chr, writeRBPos, readRBPos, out, typed, full>>

ReadAdvance ==
    /\ reader = "advance"
    /\ readRBPos' = NextSlot(readRBPos)
    /\ left' = left - 1
    /\ reader' = "test"
    /\ UNCHANGED <<chr, writeRBPos, out, typed, full>>

ReadStep == ReadTest \/ ReadCopy \/ ReadClear \/ ReadAdvance

InputNext ==
    \/ input_send_key
    \/ \E n \in 1..MaxRead : input_rb_read(n)
    \/ ReadStep

\* A program keeps reading the terminal, and a read that has begun goes on.
InputSpec ==
    /\ InputInit /\ [][InputNext]_inputVars
    /\ WF_inputVars(\E n \in 1..MaxRead : input_rb_read(n)) /\ WF_inputVars(ReadStep)

-----------------------------------------------------------------------------

TypeOK ==
    /\ chr \in [Slots -> 0..MaxKeys]
    /\ writeRBPos \in Slots /\ readRBPos \in Slots
    /\ reader \in {"idle", "test", "copy", "clear", "advance"}
    /\ left \in 0..MaxRead /\ out \in 0..MaxKeys /\ typed \in 0..MaxKeys
    /\ full \in BOOLEAN

\* How many keys the positions say are waiting.  Once the reader has seen one it
\* takes it whatever the positions say later; once it has copied it, that entry
\* no longer counts.
Waiting ==
    IF reader = "copy" THEN 1 + ((writeRBPos - readRBPos - 1) % SIZE)
    ELSE IF reader \in {"clear", "advance"} THEN (writeRBPos - readRBPos - 1) % SIZE
    ELSE (writeRBPos - readRBPos) % SIZE

First == IF reader \in {"clear", "advance"} THEN readRBPos + 1 ELSE readRBPos

Keys == [i \in 1..Waiting |-> chr[(First + i - 1) % SIZE]]

Abstract == INSTANCE LossyQueue WITH Capacity <- SIZE - 1, q <- Keys

\* The ring buffer implements the lossy queue, however the interrupt divides a
\* read: keys come in order, none twice, none that was never typed.
KeysInOrder == Abstract!Spec

\* As long as no key was typed into a full buffer, a reader is given every key:
\* the next one it copies is the successor of the last.
NothingLost ==
    /\ TypeOK
    /\ ~full /\ reader = "copy" => chr[readRBPos] = out + 1

\* Every key typed is delivered in the end, unless the buffer has been full.
EventuallyDelivered ==
    \A k \in 1..MaxKeys : (typed = k) ~> (out >= k \/ full)
=============================================================================

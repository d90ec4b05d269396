-------------------------- MODULE InterruptsProof ---------------------------
(***************************************************************************)
(* Proofs about state that an interrupt handler shares with the code it    *)
(* interrupts: the keyboard ring of InputRing, the general purpose events  *)
(* of Gpe, and the fixed events and the global lock of Pm1.                *)
(*                                                                         *)
(* InputRing, for every size of the ring and every number of keys: it      *)
(* implements the queue of LossyQueue, and no key is lost or repeated while*)
(* the ring has not overrun.  The positions are compared modulo the size   *)
(* of the ring; the first lemmas turn the remainders into sums, so that    *)
(* what is waiting is an interval of cells that may wrap once.             *)
(*                                                                         *)
(* Gpe: no interleaving loses an event that should be enabled, and none    *)
(* enables a masked one.  set_gpe_state writes back what it read before;   *)
(* the interrupt may have come in between.  The invariant says what the    *)
(* call in progress may rely on then: the interrupt only clears bits (it   *)
(* dispatches what is enabled, and enables nothing else), so that no bit   *)
(* that has to be set is missing from the value read; and the event of the *)
(* call itself will be as it should be, for a reason that depends on the   *)
(* call.                                                                   *)
(*                                                                         *)
(* Pm1, for any sets of events and any platform: the firmware and the      *)
(* kernel never both own the global lock, and an enabled fixed event has a *)
(* handler.                                                                *)
(***************************************************************************)
EXTENDS InputRing, Gpe, Pm1, SequenceTheorems, TLAPS

\* A leaf that names no backend is one for Zenon; SMTT marks those that need more theory.
USE ZenonT(30)

-----------------------------------------------------------------------------
(* The keyboard ring                                                       *)

\* The remainder of a position within the ring, ...
LEMMA ModSmall ==
    ASSUME NEW n \in Nat \ {0}, NEW x \in 0 .. n-1 PROVE x % n = x
  BY SMTT(30)

\* ... of one that has passed its end, ...
LEMMA ModOver ==
    ASSUME NEW n \in Nat \ {0}, NEW x \in n .. 2*n - 1 PROVE x % n = x - n
  BY SMTT(30)

\* ... and of a difference below zero.
LEMMA ModUnder ==
    ASSUME NEW n \in Nat \ {0}, NEW x \in (-n) .. -1 PROVE x % n = x + n
  BY SMTT(30)

\* From slot b forward to slot a.
Distance(a, b) == IF a >= b THEN a - b ELSE a - b + SIZE

\* A position advances by one or wraps to zero.
LEMMA NextSlotValue ==
    ASSUME NEW i \in Slots
    PROVE  /\ NextSlot(i) \in Slots
           /\ NextSlot(i) = IF i = SIZE - 1 THEN 0 ELSE i + 1
  BY SizeAssumption, ModSmall, ModOver, SMTT(30) DEF NextSlot, Slots

\* The differences of positions that the ring is read with.
LEMMA DistanceValue ==
    ASSUME NEW a \in Slots, NEW b \in Slots
    PROVE  /\ (a - b) % SIZE = Distance(a, b)
           /\ (a - b - 1) % SIZE = IF a > b THEN a - b - 1 ELSE a - b - 1 + SIZE
  <1>. DEFINE d == (a - b) % SIZE
              e == (a - b - 1) % SIZE
  <1>1. SIZE \in Nat \ {0} /\ a \in 0 .. SIZE-1 /\ b \in 0 .. SIZE-1
    BY SizeAssumption DEF Slots
  <1>2. ASSUME a > b PROVE d = a - b /\ e = a - b - 1
    <2>1. a - b \in 0 .. SIZE-1 /\ a - b - 1 \in 0 .. SIZE-1
      BY <1>1, <1>2, SMTT(30)
    <2>. QED BY <1>1, <2>1, ModSmall
  <1>3. ASSUME a = b PROVE d = 0 /\ e = SIZE - 1
    <2>1. a - b = 0 /\ a - b - 1 = -1
      BY <1>1, <1>3, SMTT(30)
    <2>2. 0 % SIZE = 0 /\ (-1) % SIZE = SIZE - 1
      BY <1>1, ModSmall, ModUnder, SMTT(30)
    <2>. QED BY <2>1, <2>2
  <1>4. ASSUME a < b PROVE d = a - b + SIZE /\ e = a - b - 1 + SIZE
    <2>1. a - b \in (-SIZE) .. -1 /\ a - b - 1 \in (-SIZE) .. -1
      BY <1>1, <1>4, SMTT(30)
    <2>. QED BY <1>1, <2>1, ModUnder
  <1>. HIDE DEF d, e
  <1>5. d = Distance(a, b) /\ e = IF a > b THEN a - b - 1 ELSE a - b - 1 + SIZE
    BY <1>1, <1>2, <1>3, <1>4, SMTT(30) DEF Distance
  <1>. QED BY <1>5 DEF d, e

\* The cell of the i-th key that waits.
Cell(i) == IF First + i - 1 < SIZE THEN First + i - 1 ELSE First + i - 1 - SIZE

\* How many keys wait, without remainders.
WaitingIs ==
    Waiting = IF reader \notin {"copy", "clear", "advance"} THEN Distance(writeRBPos, readRBPos)
              ELSE (IF writeRBPos > readRBPos THEN writeRBPos - readRBPos
                    ELSE writeRBPos - readRBPos + SIZE)
                   - (IF reader = "copy" THEN 0 ELSE 1)

\* At most as many keys wait as the ring has cells.
LEMMA WaitingValue == TypeOK => WaitingIs /\ Waiting \in 0..SIZE
  <1>. SUFFICES ASSUME TypeOK PROVE WaitingIs /\ Waiting \in 0..SIZE
    OBVIOUS
  <1>1. writeRBPos \in Slots /\ readRBPos \in Slots
    BY DEF TypeOK
  <1>2. WaitingIs
    <2>. DEFINE d == (writeRBPos - readRBPos) % SIZE
                e == (writeRBPos - readRBPos - 1) % SIZE
    <2>1. /\ d = Distance(writeRBPos, readRBPos)
          /\ e = IF writeRBPos > readRBPos THEN writeRBPos - readRBPos - 1
                 ELSE writeRBPos - readRBPos - 1 + SIZE
      BY <1>1, DistanceValue
    <2>2. Waiting = IF reader = "copy" THEN 1 + e
                    ELSE IF reader \in {"clear", "advance"} THEN e ELSE d
      BY DEF Waiting
    <2>. HIDE DEF d, e
    <2>. QED BY <1>1, <2>1, <2>2, SizeAssumption, SMTT(30) DEF WaitingIs, Slots
  <1>. QED BY <1>1, <1>2, SizeAssumption, SMTT(30) DEF WaitingIs, Distance, Slots

\* The keys that wait are those of the cells from First on.
KeysAre ==
    /\ Keys \in Seq(0..MaxKeys)
    /\ Len(Keys) = Waiting
    /\ \A i \in 1..Waiting : Keys[i] = chr[Cell(i)] /\ Cell(i) \in Slots

\* The refinement mapping reads the cells.
LEMMA KeysValue == TypeOK => KeysAre
  <1>. SUFFICES ASSUME TypeOK PROVE KeysAre
    OBVIOUS
  <1>1. Waiting \in 0..SIZE
    BY WaitingValue
  <1>2. ASSUME NEW i \in 1..Waiting
        PROVE  (First + i - 1) % SIZE = Cell(i) /\ Cell(i) \in Slots
    <2>1. First \in 0..SIZE /\ First + i - 1 \in 0 .. 2*SIZE - 1
      BY <1>1, SizeAssumption, SMTT(30) DEF TypeOK, First, Slots
    <2>2. CASE First + i - 1 < SIZE
      BY <2>1, <2>2, ModSmall, SizeAssumption, SMTT(30) DEF Cell, Slots
    <2>3. CASE ~(First + i - 1 < SIZE)
      BY <2>1, <2>3, ModOver, SizeAssumption, SMTT(30) DEF Cell, Slots
    <2>. QED BY <2>2, <2>3
  <1>3. \A i \in 1..Waiting : chr[Cell(i)] \in 0..MaxKeys
    BY <1>2 DEF TypeOK
  <1>4. Keys \in [1..Waiting -> 0..MaxKeys]
    BY <1>2, <1>3 DEF Keys
  <1>5. Keys \in Seq(0..MaxKeys) /\ Len(Keys) = Waiting
    BY <1>1, <1>4, SizeAssumption, SMTT(30)
  <1>. QED BY <1>2, <1>5 DEF KeysAre, Keys

\* The same after a step.
LEMMA KeysValuePrimed == TypeOK' => (WaitingIs /\ Waiting \in 0..SIZE /\ KeysAre)'
  BY WaitingValue, KeysValue, PTL

-----------------------------------------------------------------------------

\* input_rb_read is inside its loop.
Busy == reader \in {"copy", "clear", "advance"}

\* A read inside its loop has characters left to copy.
RingTyped == TypeOK /\ (Busy => left > 0)

\* The inductive invariant: until the ring overruns a read copies only what is there, and
\* the keys that wait are the next ones typed, in order.
RingInv ==
    /\ RingTyped
    /\ ~full => /\ Busy => writeRBPos # readRBPos
                /\ typed = out + Len(Keys)
                /\ \A i \in 1..Len(Keys) : Keys[i] = out + i

\* Every step keeps the types.
LEMMA TypeInvariance == RingTyped /\ [InputNext]_inputVars => RingTyped'
  <1>. SUFFICES ASSUME RingTyped, [InputNext]_inputVars PROVE RingTyped'
    OBVIOUS
  <1>. USE DEF RingTyped, Busy
  <1>1. CASE input_send_key
    BY <1>1, NextSlotValue, SizeAssumption, SMTT(30) DEF TypeOK, input_send_key
  <1>2. CASE \E n \in 1..MaxRead : input_rb_read(n)
    BY <1>2, SizeAssumption, SMTT(30) DEF TypeOK, input_rb_read
  <1>3. CASE ReadTest
    BY <1>3, SizeAssumption, SMTT(30) DEF TypeOK, ReadTest
  <1>4. CASE ReadCopy
    BY <1>4 DEF TypeOK, ReadCopy
  <1>5. CASE ReadClear
    BY <1>5, SizeAssumption, SMTT(30) DEF TypeOK, ReadClear
  <1>6. CASE ReadAdvance
    BY <1>6, NextSlotValue, SizeAssumption, SMTT(30) DEF TypeOK, ReadAdvance
  <1>7. CASE UNCHANGED inputVars
    BY <1>7 DEF TypeOK, inputVars
  <1>. QED BY <1>1, <1>2, <1>3, <1>4, <1>5, <1>6, <1>7 DEF InputNext, ReadStep

\* A step that moves neither end and no waiting cell changes no key.
LEMMA SameKeys ==
    ASSUME TypeOK, TypeOK', Waiting' = Waiting,
           \A i \in 1..Waiting : chr'[Cell(i)'] = chr[Cell(i)]
    PROVE  Keys' = Keys
  <1>1. KeysAre /\ KeysAre'
    BY KeysValue, KeysValuePrimed
  <1>2. Waiting \in Nat
    BY WaitingValue, SizeAssumption, SMTT(30)
  <1>. QED BY <1>1, <1>2, SeqEqual DEF KeysAre

\* The copy of a character takes the first key out of the queue.
LEMMA GetStep == TypeOK /\ TypeOK' /\ ReadCopy => Abstract!Get
  <1>. SUFFICES ASSUME TypeOK, TypeOK', ReadCopy PROVE Abstract!Get
    OBVIOUS
  <1>1. KeysAre /\ KeysAre' /\ WaitingIs /\ WaitingIs' /\ Waiting \in 0..SIZE
    BY KeysValue, KeysValuePrimed, WaitingValue
  <1>2. Waiting' = Waiting - 1 /\ Waiting > 0
    BY <1>1, SizeAssumption, SMTT(30) DEF TypeOK, ReadCopy, WaitingIs, Slots
  <1>3. Keys # <<>> /\ Head(Keys) = Keys[1]
    BY <1>1, <1>2, SMTT(30) DEF KeysAre
  <1>4. Keys[1] = chr[readRBPos]
    BY <1>1, <1>2, SizeAssumption, SMTT(30) DEF TypeOK, KeysAre, ReadCopy, Cell, First, Slots
  <1>5. /\ Tail(Keys) \in Seq(0..MaxKeys) /\ Len(Tail(Keys)) = Waiting - 1
        /\ \A i \in 1..Waiting - 1 : Tail(Keys)[i] = Keys[i + 1]
    BY <1>1, <1>2, <1>3, HeadTailProperties, SizeAssumption DEF KeysAre
  <1>6. ASSUME NEW i \in 1..Waiting - 1 PROVE Keys'[i] = Keys[i + 1]
    <2>1. Cell(i)' = Cell(i + 1)
      BY <1>1, <1>2, SizeAssumption, SMTT(30) DEF TypeOK, ReadCopy, Cell, First, Slots
    <2>2. i \in 1..Waiting' /\ i + 1 \in 1..Waiting
      BY <1>1, <1>2, SizeAssumption, SMTT(30)
    <2>. QED BY <1>1, <2>1, <2>2 DEF KeysAre, ReadCopy
  <1>7. Keys' = Tail(Keys)
    BY <1>1, <1>2, <1>5, <1>6, SeqEqual DEF KeysAre
  <1>. QED BY <1>3, <1>4, <1>7 DEF Abstract!Get, ReadCopy

\* input_send_key appends a key, or empties the queue when the ring overruns.
LEMMA PutStep == TypeOK /\ TypeOK' /\ input_send_key => Abstract!Put
  <1>. SUFFICES ASSUME TypeOK, TypeOK', input_send_key PROVE Abstract!Put
    OBVIOUS
  <1>1. /\ KeysAre /\ KeysAre' /\ WaitingIs /\ WaitingIs'
        /\ Waiting \in 0..SIZE /\ Waiting' \in 0..SIZE
    BY KeysValue, KeysValuePrimed, WaitingValue
  <1>2. writeRBPos' = IF writeRBPos = SIZE - 1 THEN 0 ELSE writeRBPos + 1
    BY NextSlotValue DEF TypeOK, input_send_key
  <1>3. /\ reader' = reader /\ readRBPos' = readRBPos /\ typed' = typed + 1 /\ out' = out
        /\ chr' = [chr EXCEPT ![writeRBPos] = typed + 1]
    BY DEF input_send_key
  <1>4. \A i \in Nat : Cell(i)' = Cell(i)
    BY <1>3 DEF Cell, First
  <1>5. \/ Waiting' = Waiting + 1 /\ Cell(Waiting') = writeRBPos
        \/ Waiting >= SIZE - 1 /\ Waiting' = 0
        \/ Waiting >= SIZE - 1 /\ Waiting' = 1 /\ Cell(1) = writeRBPos
    BY <1>1, <1>2, <1>3, SizeAssumption, SMTT(30) DEF TypeOK, WaitingIs, Distance, Cell, First, Slots
  <1>6. CASE Waiting' = Waiting + 1 /\ Cell(Waiting') = writeRBPos
    <2>1. typed + 1 \in Nat /\ Keys \in Seq(Nat) /\ Keys' \in Seq(Nat)
      <3>1. 0..MaxKeys \subseteq Nat /\ typed + 1 \in Nat
        BY SizeAssumption, SMTT(30) DEF TypeOK
      <3>2. Keys \in Seq(0..MaxKeys) /\ Keys' \in Seq(0..MaxKeys)
        BY <1>1 DEF KeysAre
      <3>3. Seq(0..MaxKeys) \subseteq Seq(Nat)
        BY <3>1, SeqMonotonic
      <3>. QED BY <3>1, <3>2, <3>3
    <2>2. ASSUME NEW i \in 1..Waiting PROVE Keys'[i] = Keys[i]
      <3>1. Cell(i) # writeRBPos
        BY <1>1, <1>6, SizeAssumption, SMTT(30) DEF TypeOK, Cell, First, Slots
      <3>. QED BY <1>1, <1>3, <1>4, <1>6, <3>1, SizeAssumption, SMTT(30) DEF KeysAre, TypeOK
    <2>3. Keys'[Waiting + 1] = typed + 1
      BY <1>1, <1>3, <1>4, <1>6, SizeAssumption, SMTT(30) DEF KeysAre, TypeOK
    <2>4. /\ Append(Keys, typed + 1) \in Seq(Nat)
          /\ Len(Append(Keys, typed + 1)) = Waiting + 1
          /\ \A i \in 1..Waiting : Append(Keys, typed + 1)[i] = Keys[i]
          /\ Append(Keys, typed + 1)[Waiting + 1] = typed + 1
      BY <1>1, <2>1, AppendProperties, SMTT(30) DEF KeysAre
    <2>5. \A i \in 1 .. Waiting + 1 : i = Waiting + 1 \/ i \in 1..Waiting
      BY <1>1, SizeAssumption, SMTT(30)
    <2>6. Keys' = Append(Keys, typed + 1)
      BY <1>1, <1>6, <2>1, <2>2, <2>3, <2>4, <2>5, SeqEqual DEF KeysAre
    <2>. QED BY <1>3, <2>6 DEF Abstract!Put
  <1>7. CASE Waiting >= SIZE - 1 /\ Waiting' = 0
    <2>1. Keys' = <<>>
      BY <1>1, <1>7, EmptySeq DEF KeysAre
    <2>. QED BY <1>1, <1>3, <1>7, <2>1 DEF Abstract!Put, KeysAre
  <1>8. CASE Waiting >= SIZE - 1 /\ Waiting' = 1 /\ Cell(1) = writeRBPos
    <2>1. Keys'[1] = typed + 1
      BY <1>1, <1>3, <1>4, <1>8, SMTT(30) DEF KeysAre, TypeOK
    <2>2. Keys' = <<typed + 1>>
      BY <1>1, <1>8, <2>1, SMTT(30) DEF KeysAre
    <2>. QED BY <1>1, <1>3, <1>8, <2>2 DEF Abstract!Put, KeysAre
  <1>. QED BY <1>5, <1>6, <1>7, <1>8

\* The other statements of input_rb_read leave the queue alone.
LEMMA StutterStep ==
    ASSUME TypeOK, TypeOK',
           \/ \E n \in 1..MaxRead : input_rb_read(n)
           \/ ReadTest \/ ReadClear \/ ReadAdvance \/ UNCHANGED inputVars
    PROVE  UNCHANGED <<Keys, typed, out>>
  <1>1. /\ WaitingIs /\ WaitingIs' /\ Waiting \in 0..SIZE
    BY KeysValuePrimed, WaitingValue
  <1>2. CASE \E n \in 1..MaxRead : input_rb_read(n)
    <2>1. Waiting' = Waiting /\ \A i \in 1..Waiting : chr'[Cell(i)'] = chr[Cell(i)]
      BY <1>1, <1>2, SizeAssumption DEF input_rb_read, WaitingIs, Cell, First
    <2>. QED BY <1>2, <2>1, SameKeys DEF input_rb_read
  <1>3. CASE ReadTest
    <2>1. Waiting' = Waiting /\ \A i \in 1..Waiting : chr'[Cell(i)'] = chr[Cell(i)]
      BY <1>1, <1>3, SizeAssumption, SMTT(30) DEF ReadTest, WaitingIs, Cell, First, Distance, TypeOK, Slots
    <2>. QED BY <1>3, <2>1, SameKeys DEF ReadTest
  <1>4. CASE ReadClear
    <2>1. Waiting' = Waiting
      BY <1>1, <1>4 DEF ReadClear, WaitingIs
    <2>2. \A i \in 1..Waiting : Cell(i)' = Cell(i) /\ Cell(i) \in Slots \ {readRBPos}
      BY <1>1, <1>4, SizeAssumption, SMTT(30) DEF ReadClear, WaitingIs, Cell, First, TypeOK, Slots
    <2>3. \A i \in 1..Waiting : chr'[Cell(i)'] = chr[Cell(i)]
      BY <1>4, <2>2 DEF ReadClear, TypeOK
    <2>. QED BY <1>4, <2>1, <2>3, SameKeys DEF ReadClear
  <1>5. CASE ReadAdvance
    <2>1. readRBPos' = IF readRBPos = SIZE - 1 THEN 0 ELSE readRBPos + 1
      BY <1>5, NextSlotValue DEF ReadAdvance, TypeOK
    <2>2. Waiting' = Waiting
      BY <1>1, <1>5, <2>1, SizeAssumption, SMTT(30) DEF ReadAdvance, WaitingIs, Distance, TypeOK, Slots
    <2>3. \A i \in 1..Waiting : Cell(i)' = Cell(i)
      BY <1>1, <1>5, <2>1, SizeAssumption, SMTT(30) DEF ReadAdvance, WaitingIs, Cell, First, TypeOK, Slots
    <2>. QED BY <1>5, <2>2, <2>3, SameKeys DEF ReadAdvance
  <1>6. CASE UNCHANGED inputVars
    BY <1>6 DEF inputVars, Keys, Waiting, First
  <1>. QED BY <1>2, <1>3, <1>4, <1>5, <1>6

\* The empty ring has the types.
LEMMA InitTyped == InputInit => RingTyped
  <1>. SUFFICES ASSUME InputInit PROVE RingTyped
    OBVIOUS
  <1>1. full \in BOOLEAN
    BY DEF InputInit
  <1>2. writeRBPos \in Slots /\ readRBPos \in Slots /\ chr \in [Slots -> 0..MaxKeys]
    BY SizeAssumption, SMTT(30) DEF InputInit, Slots
  <1>. QED BY <1>1, <1>2, SizeAssumption, SMTT(30) DEF InputInit, RingTyped, Busy, TypeOK

\* The empty ring is the empty queue.
LEMMA InitRefines == InputInit => Abstract!Init
  <1>. SUFFICES ASSUME InputInit PROVE Abstract!Init
    OBVIOUS
  <1>1. KeysAre /\ WaitingIs
    BY InitTyped, KeysValue, WaitingValue DEF RingTyped
  <1>2. Waiting = 0
    BY <1>1, SMTT(30) DEF InputInit, WaitingIs, Distance
  <1>3. Keys = <<>>
    BY <1>1, <1>2, EmptySeq DEF KeysAre
  <1>. QED BY <1>3 DEF InputInit, Abstract!Init

\* Every step of the ring is a step of the queue or leaves it alone.
LEMMA StepRefines == RingTyped /\ [InputNext]_inputVars => RingTyped' /\ [Abstract!Next]_(Abstract!vars)
  <1>. SUFFICES ASSUME RingTyped, [InputNext]_inputVars
                PROVE  RingTyped' /\ [Abstract!Next]_(Abstract!vars)
    OBVIOUS
  <1>1. RingTyped'
    BY TypeInvariance
  <1>2. TypeOK /\ TypeOK'
    BY <1>1 DEF RingTyped
  <1>3. CASE input_send_key
    BY <1>1, <1>2, <1>3, PutStep DEF Abstract!Next
  <1>4. CASE ReadCopy
    BY <1>1, <1>2, <1>4, GetStep DEF Abstract!Next
  <1>5. ASSUME ~input_send_key, ~ReadCopy PROVE UNCHANGED Abstract!vars
    BY <1>2, <1>5, StutterStep DEF InputNext, ReadStep, Abstract!vars
  <1>. QED BY <1>1, <1>3, <1>4, <1>5

\* The ring implements the queue: keys come out in the order typed, and are lost only
\* all together when the ring overruns.
THEOREM InputRingRefinement == InputSpec => KeysInOrder
  BY InitTyped, InitRefines, StepRefines, PTL DEF InputSpec, KeysInOrder, Abstract!Spec

\* The empty ring satisfies the invariant.
LEMMA InitInd == InputInit => RingInv
  <1>. SUFFICES ASSUME InputInit PROVE RingInv
    OBVIOUS
  <1>1. RingTyped /\ Keys = <<>>
    BY InitTyped, InitRefines DEF Abstract!Init
  <1>. QED BY <1>1, SMTT(30) DEF InputInit, RingInv, Busy

\* The interrupt that sends a key between any two statements of a read, and the read
\* itself, preserve the invariant.
LEMMA StepInd == RingInv /\ [InputNext]_inputVars => RingInv'
  <1>. SUFFICES ASSUME RingInv, [InputNext]_inputVars, ~full' PROVE RingInv'
    BY TypeInvariance DEF RingInv
  <1>1. RingTyped /\ RingTyped' /\ TypeOK /\ TypeOK'
    BY TypeInvariance DEF RingInv, RingTyped
  <1>2. KeysAre /\ WaitingIs /\ Waiting \in 0..SIZE
    BY <1>1, KeysValue, WaitingValue
  <1>3. Keys \in Seq(Nat) /\ Len(Keys) \in Nat /\ typed \in Nat /\ out \in Nat
    BY <1>1, <1>2, SizeAssumption, SeqMonotonic, SMTT(30) DEF KeysAre, TypeOK
  <1>4. CASE input_send_key
    <2>1. ~full /\ NextSlot(writeRBPos) # readRBPos
      BY <1>4 DEF input_send_key
    <2>2. Len(Keys) < SIZE - 1
      <3>1. Busy => writeRBPos # readRBPos
        BY <2>1 DEF RingInv
      <3>2. readRBPos # IF writeRBPos = SIZE - 1 THEN 0 ELSE writeRBPos + 1
        BY <1>1, <2>1, NextSlotValue DEF TypeOK
      <3>3. Waiting < SIZE - 1
        BY <1>1, <1>2, <3>1, <3>2, SizeAssumption, SMTT(30) DEF Busy, TypeOK, WaitingIs, Distance, Slots
      <3>. QED BY <1>2, <3>3 DEF KeysAre
    <2>3. Keys' = Append(Keys, typed + 1)
      BY <1>1, <1>4, <2>2, <1>3, PutStep, SizeAssumption, SMTT(30) DEF Abstract!Put
    <2>4. /\ Len(Keys') = Len(Keys) + 1
          /\ \A i \in 1..Len(Keys) : Keys'[i] = Keys[i]
          /\ Keys'[Len(Keys) + 1] = typed + 1
      BY <1>3, <2>3, AppendProperties, SMTT(30)
    <2>5. (Busy => writeRBPos # readRBPos)'
      BY <1>4, <2>1 DEF input_send_key
    <2>6. typed' = typed + 1 /\ out' = out
      BY <1>4 DEF input_send_key
    <2>7. \A i \in 1 .. Len(Keys) + 1 : i \in 1..Len(Keys) \/ i = Len(Keys) + 1
      BY <1>3, SMTT(30)
    <2>. QED BY <1>1, <1>3, <2>1, <2>4, <2>5, <2>6, <2>7, SMTT(30) DEF RingInv
  <1>5. CASE ReadCopy
    <2>1. ~full /\ writeRBPos' # readRBPos' /\ typed' = typed
      BY <1>5 DEF ReadCopy, RingInv, Busy
    <2>2. Keys # <<>> /\ out' = Head(Keys) /\ Keys' = Tail(Keys)
      BY <1>1, <1>5, GetStep DEF Abstract!Get
    <2>3. /\ Len(Keys) > 0 /\ Head(Keys) = Keys[1] /\ Len(Keys') = Len(Keys) - 1
          /\ \A i \in 1 .. Len(Keys) - 1 : Keys'[i] = Keys[i + 1]
      BY <1>3, <2>2, HeadTailProperties, SMTT(30)
    <2>4. out' = out + 1
      BY <1>3, <2>1, <2>2, <2>3, SMTT(30) DEF RingInv
    <2>. QED BY <1>1, <1>3, <2>1, <2>3, <2>4, SMTT(30) DEF RingInv
  <1>6. ASSUME ~input_send_key, ~ReadCopy PROVE RingInv'
    <2>1. Keys' = Keys /\ typed' = typed /\ out' = out
      BY <1>1, <1>6, StutterStep DEF InputNext, ReadStep
    <2>2. full' = full /\ (Busy' => writeRBPos' # readRBPos')
      BY <1>6 DEF RingInv, InputNext, ReadStep, Busy, input_rb_read, ReadTest, ReadClear, ReadAdvance, inputVars
    <2>. QED BY <1>1, <2>1, <2>2 DEF RingInv
  <1>. QED BY <1>4, <1>5, <1>6

\* The invariant says what was typed is read or waits.
LEMMA IndImplies == RingInv => NothingLost
  <1>. SUFFICES ASSUME RingInv PROVE NothingLost
    OBVIOUS
  <1>1. TypeOK /\ KeysAre /\ WaitingIs /\ Waiting \in 0..SIZE
    BY KeysValue, WaitingValue DEF RingInv, RingTyped
  <1>2. ASSUME ~full, reader = "copy" PROVE chr[readRBPos] = out + 1
    <2>1. Waiting > 0 /\ Cell(1) = readRBPos
      BY <1>1, <1>2, SizeAssumption, SMTT(30) DEF WaitingIs, TypeOK, Slots, Cell, First
    <2>. QED BY <1>1, <1>2, <2>1, SMTT(30) DEF RingInv, KeysAre
  <1>. QED BY <1>1, <1>2 DEF NothingLost

\* While the ring has not overrun, every key typed has been read once or waits, although
\* input_send_key interrupts input_rb_read anywhere.
THEOREM InputRingNothingLost == InputSpec => []NothingLost
  BY InitInd, StepInd, IndImplies, PTL DEF InputSpec

-----------------------------------------------------------------------------
(* The general purpose events                                              *)

GpeTypes ==
    /\ ctxs \in Seq(Irqs) /\ list \in [Irqs -> Seq(Blocks)]
    /\ users \in [Events -> Nat] /\ runtime \subseteq Events
    /\ started \in BOOLEAN /\ asleep \in BOOLEAN /\ oob \in BOOLEAN

(* runtime_mask is that of the events with users, all of them in blocks that are linked. *)
UsersInv ==
    /\ \A e \in runtime : users[e] # 0
    /\ freed = {} => runtime \subseteq InstalledEvents
    /\ freed = {} /\ fin.stage = "users" => fin.todo \subseteq InstalledEvents
    /\ ~started => runtime = {} /\ call = Idle /\ ~asleep /\ fin.stage = "no"

(* Awake, current_mask has the runtime events but those that lapsed, and the enable
   bit of a masked event is clear. *)
AwakeInv ==
    ~asleep => /\ freed = {} /\ ~oob => runtime \ lapsed \subseteq current
               /\ masked \cap enable = {}

Armed == runtime \ (masked \cup blocked \cup suspended \cup lapsed)

(* Between its two steps a call knows the enable bits of its register, and why its
   own event will be as it should be after the write. *)
RmwInv ==
    /\ call.e \in Events /\ call.on \in BOOLEAN /\ call.skip \in BOOLEAN
    /\ enable \cap RegOf(call.e) \subseteq call.seen /\ call.seen \cap masked = {}
    /\ Armed \ {call.e} \subseteq enable
    /\ call.on /\ ~call.skip => call.e \notin masked
    /\ ~call.on /\ ~call.skip => call.k.op = "mask" \/ call.e \notin runtime \ suspended
    /\ call.skip /\ call.k.op # "unblock" => Armed \subseteq enable
    /\ call.skip /\ call.k.op = "unblock" => call.e \in masked \/ call.e \notin current
    /\ call.k.op = "mask" => ~call.on /\ ~call.skip

CallInv ==
    /\ call # Idle =>
         /\ started /\ ~asleep /\ freed = {} /\ ~oob
         /\ IF call.k.op = "polling" THEN call.e \in Events /\ Armed \subseteq enable
                                     ELSE RmwInv
    /\ call = Idle /\ ~asleep /\ freed = {} /\ ~oob => Armed \subseteq enable

GpeInv == GpeTypes /\ UsersInv /\ AwakeInv /\ CallInv

-----------------------------------------------------------------------------
(* Operators *)

\* What for_each_gpe_block finds is in a linked block.
LEMMA FoundInstalled ==
    ASSUME GpeTypes, NEW dev, NEW idx, NEW e \in get_gpe(dev, idx), e \in Events
    PROVE  e \in InstalledEvents
  <1>1. PICK p \in Places : e = <<BlockAt(p), idx - Base[BlockAt(p)]>>
    BY DEF get_gpe
  <1>2. PICK i \in DOMAIN ctxs : p \in {i} \X DOMAIN list[ctxs[i]]
    BY DEF Places
  <1>3. BlockAt(p) \in Range(list[ctxs[i]]) /\ ctxs[i] \in Range(ctxs)
    BY <1>2 DEF BlockAt, Range
  <1>4. e[1] \in Installed
    BY <1>1, <1>3 DEF Installed
  <1>. QED BY <1>4, SMTT(30) DEF InstalledEvents, EventsOf

\* An event that dispatch_gpe leaves armed is enabled if it was when it was armed before.
LEMMA DispatchKeepsArmed ==
    ASSUME NEW P, NEW R, dispatch_gpe(P, R), runtime \ lapsed \subseteq current,
           UNCHANGED <<runtime, masked, suspended, lapsed, current, htype>>,
           NEW f \in Armed', f \in Armed => f \in enable
    PROVE  f \in enable'
  <1>. DEFINE managed == P \ Typed(P, {"raw"})
              restored == Restored(P, R)
  <1>1. f \in runtime /\ f \notin masked /\ f \notin suspended /\ f \notin lapsed /\ f \notin blocked'
    BY DEF Armed
  <1>2. f \in current
    BY <1>1
  <1>3. /\ enable' = (enable \ (managed \ masked)) \cup EnableConditionally(restored)
        /\ blocked' = (blocked \cup managed) \ restored
    BY DEF dispatch_gpe
  <1>. HIDE DEF managed, restored
  <1>4. CASE f \in restored
    BY <1>1, <1>2, <1>3, <1>4 DEF EnableConditionally
  <1>5. CASE f \notin restored
    BY <1>1, <1>3, <1>5 DEF Armed
  <1>. QED BY <1>4, <1>5

\* dispatch_gpe sets no bit of a masked event, and none that was not set before but
\* those of its own events.
LEMMA DispatchEnables ==
    ASSUME NEW P, NEW R, dispatch_gpe(P, R)
    PROVE  /\ enable' \subseteq enable \cup P
           /\ enable' \cap masked \subseteq enable
  BY DEF dispatch_gpe, EnableConditionally, Restored, Typed

-----------------------------------------------------------------------------
(* Steps that begin a call *)

invVars == <<ctxs, list, freed, users, runtime, current, masked, enable, blocked,
             suspended, lapsed, started, asleep, fin>>

\* A step that changes no mask, no user and no block keeps the invariant.
LEMMA FrameKeeps ==
    ASSUME GpeInv, UNCHANGED <<invVars, call>>,
           oob' \in BOOLEAN, oob' = oob \/ (oob' /\ call = Idle)
    PROVE  GpeInv'
  <1>1. GpeTypes'
    BY DEF GpeInv, GpeTypes, invVars
  <1>2. UsersInv'
    BY DEF GpeInv, UsersInv, invVars, InstalledEvents, Installed
  <1>3. AwakeInv'
    BY DEF GpeInv, AwakeInv, GpeTypes, invVars
  <1>4. Armed' = Armed
    BY DEF Armed, invVars
  <1>5. call # Idle => oob' = oob
    OBVIOUS
  <1>6. CallInv'
    BY <1>4, <1>5 DEF GpeInv, CallInv, RmwInv, GpeTypes, invVars
  <1>. QED BY <1>1, <1>2, <1>3, <1>6 DEF GpeInv

\* The first half of set_gpe_state leaves what its second half relies on.
LEMMA CallBegins ==
    ASSUME GpeInv, Quiet,
           NEW e \in Events, NEW on \in BOOLEAN, NEW skip \in BOOLEAN,
           NEW k, k.op \notin {"idle", "polling"},
           call' = Rmw(e, on, k, skip),
           UNCHANGED <<enable, freed, oob, started, asleep>>,
           masked' \subseteq masked,
           Armed' \ {e} \subseteq Armed,
           on /\ ~skip => e \notin masked',
           ~on /\ ~skip => k.op = "mask" \/ e \notin runtime' \ suspended',
           skip /\ k.op # "unblock" => Armed' \subseteq Armed,
           skip /\ k.op = "unblock" => e \in masked' \/ e \notin current',
           k.op = "mask" => ~on /\ ~skip
    PROVE  CallInv'
  <1>1. Armed \subseteq enable /\ masked \cap enable = {}
    BY DEF GpeInv, CallInv, AwakeInv, Quiet
  <1>2. /\ call'.k = k /\ call'.e = e /\ call'.on = on /\ call'.skip = skip
        /\ call'.seen = enable \cap RegOf(e)
    BY DEF Rmw
  <1>3. call'.k.op # "idle" /\ call'.k.op # "polling"
    BY <1>2
  <1>4. call' # Idle
    BY <1>3, SMTT(30) DEF Idle, Then
  <1>5. RmwInv'
    BY <1>1, <1>2 DEF RmwInv, RegOf, EventsOf
  <1>6. started' /\ ~asleep' /\ freed' = {} /\ ~oob'
    BY DEF Quiet
  <1>. QED BY <1>3, <1>4, <1>5, <1>6 DEF CallInv, Idle

\* gpe_add_user, with the event of a linked block.
LEMMA AddUserKeeps ==
    ASSUME GpeInv, Quiet, NEW e \in InstalledEvents, NEW clear \in BOOLEAN,
           NEW k, k.op \notin {"idle", "polling", "unblock", "mask"},
           gpe_add_user(e, clear, k),
           UNCHANGED <<enable, masked, blocked, suspended, lapsed, freed, oob, started,
                       asleep, ctxs, list>>,
           fin'.stage = "users" => fin'.todo \subseteq InstalledEvents
    PROVE  GpeInv'
  <1>0. e \in Events /\ InstalledEvents' = InstalledEvents
    BY DEF InstalledEvents, Installed, EventsOf
  <1>1. /\ users' = [users EXCEPT ![e] = @ + 1] /\ users \in [Events -> Nat]
        /\ runtime' \subseteq runtime \cup {e} /\ runtime \subseteq runtime'
        /\ runtime \ lapsed \subseteq current
    BY DEF gpe_add_user, GpeInv, GpeTypes, AwakeInv, Quiet
  <1>2. GpeTypes'
    BY <1>0, <1>1, SMTT(30) DEF GpeInv, GpeTypes
  <1>3. UsersInv'
    BY <1>0, <1>1, SMTT(30) DEF GpeInv, UsersInv, Quiet
  <1>4. current' = current \/ current' = Follow(e, runtime')
    BY DEF gpe_add_user
  <1>5. runtime' \ lapsed \subseteq current'
    <2>1. CASE users[e] = 0
      BY <2>1, <1>0, <1>1 DEF gpe_add_user, Follow, RegOf, EventsOf
    <2>2. CASE users[e] # 0
      BY <2>2, <1>1 DEF gpe_add_user
    <2>. QED BY <2>1, <2>2
  <1>6. AwakeInv'
    BY <1>5 DEF GpeInv, AwakeInv
  <1>7. CallInv'
    <2>1. CASE users[e] = 0
      <3>1. call' = Rmw(e, TRUE, k, Refused(e)) /\ Refused(e) \in BOOLEAN
        BY <2>1, SMTT(30) DEF gpe_add_user, Refused
      <3>2. Armed' \ {e} \subseteq Armed
        BY <1>1 DEF Armed
      <3>3. ~Refused(e) => e \notin masked'
        BY DEF Refused
      <3>4. Refused(e) => Armed' \subseteq Armed
        BY <1>1 DEF Armed, Refused
      <3>. QED BY <1>0, <3>1, <3>2, <3>3, <3>4, CallBegins
    <2>2. CASE users[e] # 0
      <3>1. call' = Rmw(e, TRUE, k, TRUE) /\ runtime' = runtime
        BY <2>2 DEF gpe_add_user
      <3>2. Armed' = Armed
        BY <3>1 DEF Armed
      <3>. QED BY <1>0, <3>1, <3>2, CallBegins
    <2>. QED BY <2>1, <2>2
  <1>. QED BY <1>2, <1>3, <1>6, <1>7 DEF GpeInv

\* gpe_remove_user, of an event with users.
LEMMA RemoveUserKeeps ==
    ASSUME GpeInv, Quiet, NEW e \in Events, users[e] # 0,
           NEW k, k.op \notin {"idle", "polling", "unblock", "mask"},
           gpe_remove_user(e, k),
           UNCHANGED <<enable, masked, blocked, suspended, lapsed, freed, oob, started,
                       asleep, ctxs, list, fin>>
    PROVE  GpeInv'
  <1>0. InstalledEvents' = InstalledEvents
    BY DEF InstalledEvents, Installed
  <1>1. /\ users' = [users EXCEPT ![e] = @ - 1] /\ users \in [Events -> Nat]
        /\ runtime' \subseteq runtime
        /\ runtime \ lapsed \subseteq current
        /\ users[e] = 1 => e \notin runtime'
    BY DEF gpe_remove_user, GpeInv, GpeTypes, AwakeInv, Quiet
  <1>2. GpeTypes'
    BY <1>0, <1>1, SMTT(30) DEF GpeInv, GpeTypes
  <1>3. UsersInv'
    BY <1>0, <1>1, SMTT(30) DEF GpeInv, UsersInv, Quiet
  <1>5. runtime' \ lapsed \subseteq current'
    BY <1>1 DEF gpe_remove_user, Follow
  <1>6. AwakeInv'
    BY <1>5 DEF GpeInv, AwakeInv
  <1>8. Armed' \subseteq Armed
    BY <1>1 DEF Armed
  <1>7. CallInv'
    <2>1. CASE users[e] = 1
      <3>1. call' = Rmw(e, FALSE, k, Refused(e)) /\ Refused(e) \in BOOLEAN
        BY <2>1, SMTT(30) DEF gpe_remove_user, Refused
      <3>. QED BY <1>1, <1>8, <2>1, <3>1, CallBegins
    <2>2. CASE users[e] # 1
      <3>1. call' = Rmw(e, FALSE, k, TRUE)
        BY <2>2 DEF gpe_remove_user
      <3>. QED BY <1>8, <3>1, CallBegins
    <2>. QED BY <2>1, <2>2
  <1>. QED BY <1>2, <1>3, <1>6, <1>7 DEF GpeInv

-----------------------------------------------------------------------------
(* The calls of the API *)

\* A call finds its event in a linked block, and nothing else is going on.
LEMMA CallFinds ==
    ASSUME GpeInv, NEW name, NEW e \in Events, Call(name, e)
    PROVE  Quiet /\ fin.stage # "users" /\ e \in InstalledEvents
  BY FoundInstalled DEF Call, Ready, GpeInv

\* A call that changes no users: only the masks and marks of its own event.
LEMMA StartKeeps ==
    ASSUME GpeInv, Quiet, fin.stage # "users",
           UNCHANGED <<enable, users, runtime, current, lapsed, freed, oob, started, asleep,
                       ctxs, list, fin>>,
           masked' \subseteq masked, CallInv'
    PROVE  GpeInv'
  <1>1. GpeTypes'
    BY DEF GpeInv, GpeTypes
  <1>2. UsersInv'
    BY DEF GpeInv, UsersInv, InstalledEvents, Installed, Quiet
  <1>3. AwakeInv'
    BY DEF GpeInv, AwakeInv
  <1>. QED BY <1>1, <1>2, <1>3 DEF GpeInv

\* gpe_suspend_resume: a suspended event is held back even when the interrupt unblocks it.
LEMMA SuspendKeeps ==
    ASSUME GpeInv, NEW e \in Events, uacpi_suspend_gpe(e) \/ uacpi_resume_gpe(e)
    PROVE  GpeInv'
  <1>1. Quiet /\ fin.stage # "users"
    BY CallFinds DEF uacpi_suspend_gpe, uacpi_resume_gpe
  <1>2. UNCHANGED <<enable, users, runtime, current, lapsed, freed, oob, started, asleep,
                    ctxs, list, fin, masked>>
    BY DEF uacpi_suspend_gpe, uacpi_resume_gpe, hw, lists, masks
  <1>3. Refused(e) \in BOOLEAN /\ Then("none").op = "none"
    BY SMTT(30) DEF Refused, Then
  <1>4. CallInv'
    <2>1. CASE uacpi_suspend_gpe(e)
      <3>1. call' = Rmw(e, FALSE, Then("none"), Refused(e)) /\ e \in suspended'
        BY <2>1 DEF uacpi_suspend_gpe
      <3>2. Armed' \subseteq Armed
        BY <2>1, <1>2 DEF uacpi_suspend_gpe, Armed
      <3>. QED BY <1>1, <1>2, <1>3, <3>1, <3>2, CallBegins
    <2>2. CASE uacpi_resume_gpe(e)
      <3>1. call' = Rmw(e, TRUE, Then("none"), Refused(e))
        BY <2>2 DEF uacpi_resume_gpe
      <3>2. Armed' \ {e} \subseteq Armed /\ (Refused(e) => Armed' \subseteq Armed)
        BY <2>2, <1>2 DEF uacpi_resume_gpe, Armed, Refused
      <3>3. ~Refused(e) => e \notin masked'
        BY <1>2 DEF Refused
      <3>. QED BY <1>1, <1>2, <1>3, <3>1, <3>2, <3>3, CallBegins
    <2>. QED BY <2>1, <2>2
  <1>. QED BY <1>1, <1>2, <1>4, StartKeeps

\* uacpi_finish_handling_gpe skips its write only for an event that stays unarmed.
LEMMA FinishHandlingKeeps ==
    ASSUME GpeInv, NEW e \in Events, uacpi_finish_handling_gpe(e)
    PROVE  GpeInv'
  <1>1. Quiet /\ fin.stage # "users"
    BY CallFinds DEF uacpi_finish_handling_gpe
  <1>2. UNCHANGED <<enable, users, runtime, current, lapsed, freed, oob, started, asleep,
                    ctxs, list, fin, masked, blocked>>
    BY DEF uacpi_finish_handling_gpe, lists, masks, events
  <1>. DEFINE skip == Refused(e) \/ e \notin current
  <1>3. /\ skip \in BOOLEAN /\ Then("unblock").op = "unblock"
        /\ skip => e \in masked' \/ e \notin current'
        /\ ~skip => e \notin masked'
    BY <1>2 DEF Refused, Then
  <1>4. call' = Rmw(e, TRUE, Then("unblock"), skip)
    BY DEF uacpi_finish_handling_gpe
  <1>5. Armed' \ {e} \subseteq Armed
    BY <1>2 DEF uacpi_finish_handling_gpe, Armed
  <1>. HIDE DEF skip
  <1>6. CallInv'
    BY <1>1, <1>2, <1>3, <1>4, <1>5, CallBegins
  <1>. QED BY <1>1, <1>2, <1>6, StartKeeps

\* uacpi_mask_gpe clears the bit before it sets the mask.
LEMMA MaskKeeps ==
    ASSUME GpeInv, NEW e \in Events, uacpi_mask_gpe(e)
    PROVE  GpeInv'
  <1>1. Quiet /\ fin.stage # "users"
    BY CallFinds DEF uacpi_mask_gpe
  <1>2. UNCHANGED <<enable, users, runtime, current, lapsed, freed, oob, started, asleep,
                    ctxs, list, fin, masked, blocked, suspended>>
    BY DEF uacpi_mask_gpe, hw, lists, masks, events, setup
  <1>3. /\ ~Refused(e) /\ Refused(e) \in BOOLEAN /\ Then("mask").op = "mask"
        /\ call' = Rmw(e, FALSE, Then("mask"), Refused(e)) /\ Armed' = Armed
    BY <1>2, SMTT(30) DEF uacpi_mask_gpe, Refused, Then, Armed
  <1>4. CallInv'
    BY <1>1, <1>2, <1>3, CallBegins
  <1>. QED BY <1>1, <1>2, <1>4, StartKeeps

\* uacpi_unmask_gpe skips its write only for an event that stays unarmed.
LEMMA UnmaskKeeps ==
    ASSUME GpeInv, NEW e \in Events, uacpi_unmask_gpe(e)
    PROVE  GpeInv'
  <1>1. Quiet /\ fin.stage # "users"
    BY CallFinds DEF uacpi_unmask_gpe
  <1>2. /\ UNCHANGED <<enable, users, runtime, current, lapsed, freed, oob, started, asleep,
                       ctxs, list, fin, blocked, suspended>>
        /\ masked' = masked \ {e}
    BY DEF uacpi_unmask_gpe, hw, lists, events, setup
  <1>. DEFINE skip == e \notin current \/ e \in blocked \/ users[e] = 0
  <1>3. skip \in BOOLEAN /\ Then("none").op = "none"
    BY DEF Then
  <1>4. call' = Rmw(e, TRUE, Then("none"), skip)
    BY DEF uacpi_unmask_gpe
  <1>5. runtime \ lapsed \subseteq current /\ \A f \in runtime : users[f] # 0
    BY <1>1 DEF GpeInv, AwakeInv, UsersInv, Quiet
  <1>6. Armed' \ {e} \subseteq Armed /\ (skip => Armed' \subseteq Armed)
    BY <1>2, <1>5 DEF Armed
  <1>. HIDE DEF skip
  <1>7. CallInv'
    BY <1>1, <1>2, <1>3, <1>4, <1>6, CallBegins
  <1>. QED BY <1>1, <1>2, <1>7, StartKeeps

\* Installing and removing a handler takes and gives back one user.
LEMMA HandlerKeeps ==
    ASSUME GpeInv, NEW e \in Events,
           \/ \E type \in {"native", "raw"}, tr \in {"edge", "level"} :
                 install_gpe_handler(e, type, tr)
           \/ uacpi_uninstall_gpe_handler(e)
    PROVE  GpeInv'
  <1>1. Quiet /\ fin.stage # "users" /\ e \in InstalledEvents
    BY CallFinds DEF install_gpe_handler, uacpi_uninstall_gpe_handler
  <1>2. UNCHANGED <<enable, masked, blocked, suspended, lapsed, freed, oob, started, asleep,
                    ctxs, list, fin>>
    BY DEF install_gpe_handler, uacpi_uninstall_gpe_handler, hw, lists, setup
  <1>3. ASSUME NEW type, NEW tr, install_gpe_handler(e, type, tr) PROVE GpeInv'
    <2>. DEFINE was == htype[e] \in {"aml", "implicit"} /\ users[e] # 0
                old == [type |-> htype[e], trig |-> trig[e], enabled |-> was, on |-> TRUE]
                then == [op |-> "native", type |-> type, trig |-> tr, old |-> old]
    <2>1. then.op = "native"
      OBVIOUS
    <2>2. \/ was /\ gpe_remove_user(e, then)
          \/ /\ call' = Rmw(e, FALSE, then, TRUE)
             /\ UNCHANGED <<users, runtime, current>>
      BY <1>3 DEF install_gpe_handler
    <2>3. was => users[e] # 0
      OBVIOUS
    <2>. HIDE DEF was, old, then
    <2>4. CASE was /\ gpe_remove_user(e, then)
      BY <1>1, <1>2, <2>1, <2>3, <2>4, RemoveUserKeeps
    <2>5. CASE call' = Rmw(e, FALSE, then, TRUE) /\ UNCHANGED <<users, runtime, current>>
      <3>1. Armed' = Armed
        BY <1>2, <2>5 DEF Armed
      <3>2. CallInv'
        BY <1>1, <1>2, <2>1, <2>5, <3>1, CallBegins
      <3>. QED BY <1>1, <1>2, <2>5, <3>2, StartKeeps
    <2>. QED BY <2>2, <2>4, <2>5
  <1>4. ASSUME uacpi_uninstall_gpe_handler(e) PROVE GpeInv'
    <2>1. CASE gpe_add_user(e, FALSE, Then("poll"))
      <3>1. Then("poll").op = "poll"
        BY DEF Then
      <3>. QED BY <1>1, <1>2, <2>1, <3>1, AddUserKeeps
    <2>2. CASE UNCHANGED <<users, latch, runtime, current, call>>
      BY <1>2, <2>2, FrameKeeps DEF invVars, GpeInv, GpeTypes
    <2>. QED BY <1>4, <2>1, <2>2 DEF uacpi_uninstall_gpe_handler
  <1>. QED BY <1>3, <1>4

\* The calls that add or remove a user, and those that change neither users nor masks.
LEMMA EventCallKeeps ==
    ASSUME GpeInv, NEW e \in Events,
           \/ uacpi_enable_gpe(e) \/ uacpi_disable_gpe(e) \/ uacpi_clear_gpe(e)
           \/ setup_aml_for_wake(e)
           \/ \E dev \in WakeDevices : uacpi_setup_gpe_for_wake(e, dev)
           \/ uacpi_enable_gpe_for_wake(e) \/ uacpi_disable_gpe_for_wake(e)
    PROVE  GpeInv'
  <1>0. /\ Then("poll").op = "poll" /\ Then("none").op = "none" /\ Then("wake").op = "wake"
        /\ oob \in BOOLEAN
    BY DEF Then, GpeInv, GpeTypes
  <1>1. CASE uacpi_enable_gpe(e)
    <2>1. Quiet /\ fin.stage # "users" /\ e \in InstalledEvents
      BY <1>1, CallFinds DEF uacpi_enable_gpe
    <2>. QED BY <1>0, <1>1, <2>1, AddUserKeeps DEF uacpi_enable_gpe, lists, setup
  <1>2. CASE uacpi_disable_gpe(e)
    <2>1. Quiet
      BY <1>2, CallFinds DEF uacpi_disable_gpe
    <2>. QED BY <1>0, <1>2, <2>1, RemoveUserKeeps DEF uacpi_disable_gpe, hw, lists, setup
  <1>3. CASE setup_aml_for_wake(e)
    <2>1. Quiet
      BY <1>3, CallFinds DEF setup_aml_for_wake
    <2>. QED BY <1>0, <1>3, <2>1, RemoveUserKeeps DEF setup_aml_for_wake, hw, lists, setup
  <1>4. CASE uacpi_clear_gpe(e)
    BY <1>0, <1>4, FrameKeeps DEF uacpi_clear_gpe, lists, masks, events, setup, invVars
  <1>5. CASE \E dev \in WakeDevices : uacpi_setup_gpe_for_wake(e, dev)
    BY <1>0, <1>5, FrameKeeps DEF uacpi_setup_gpe_for_wake, hw, lists, masks, setup, invVars
  <1>6. CASE uacpi_enable_gpe_for_wake(e) \/ uacpi_disable_gpe_for_wake(e)
    BY <1>0, <1>6, FrameKeeps DEF uacpi_enable_gpe_for_wake, uacpi_disable_gpe_for_wake, hw,
         lists, events, setup, invVars
  <1>. QED BY <1>1, <1>2, <1>3, <1>4, <1>5, <1>6

-----------------------------------------------------------------------------
(* Blocks *)

\* What initialize_gpes makes of the FADT's blocks is a sequence of blocks.
LEMMA PartsAreSequences ==
    ASSUME NEW s \in Parts(Fadt)
    PROVE  s \in Seq(Blocks)
  <1>1. PICK n \in 1 .. Len(Fadt) :
           s \in {[i \in 1..n |-> Fadt[f[i]]] :
                    f \in {g \in [1..n -> DOMAIN Fadt] :
                              \A i, j \in 1..n : i < j => g[i] < g[j]}}
    BY DEF Parts
  <1>2. PICK f \in [1..n -> DOMAIN Fadt] : s = [i \in 1..n |-> Fadt[f[i]]]
    BY <1>1
  <1>3. n \in Nat /\ \A i \in 1..n : Fadt[f[i]] \in Blocks
    BY <1>2, GpeAssumption, SMTT(30)
  <1>. QED BY <1>2, <1>3, SMTT(30)

\* Linking keeps the blocks that are linked.
LEMMA LinkKeeps ==
    ASSUME GpeTypes, NEW s \in Seq(Blocks), NEW q \in Irqs, LinkBlocks(s, q)
    PROVE  /\ ctxs' \in Seq(Irqs) /\ list' \in [Irqs -> Seq(Blocks)]
           /\ Installed \subseteq Installed'
  <1>1. ctxs \in Seq(Irqs) /\ list \in [Irqs -> Seq(Blocks)]
    BY DEF GpeTypes
  <1>2. ctxs' \in Seq(Irqs) /\ Range(ctxs) \subseteq Range(ctxs')
    <2>1. CASE q \in Range(ctxs)
      BY <1>1, <2>1 DEF LinkBlocks
    <2>2. CASE q \notin Range(ctxs)
      <3>1. ctxs' = <<q>> \o ctxs
        BY <2>2 DEF LinkBlocks
      <3>2. /\ ctxs' \in Seq(Irqs) /\ Len(ctxs') = Len(ctxs) + 1
            /\ \A i \in 1 .. Len(ctxs) : ctxs'[i+1] = ctxs[i]
        BY <1>1, <3>1, SMTT(30)
      <3>3. DOMAIN ctxs = 1 .. Len(ctxs) /\ DOMAIN ctxs' = 1 .. Len(ctxs') /\ Len(ctxs) \in Nat
        BY <1>1, <3>2, SMTT(30)
      <3>4. \A i \in DOMAIN ctxs : i + 1 \in DOMAIN ctxs' /\ ctxs'[i+1] = ctxs[i]
        BY <3>2, <3>3, SMTT(30)
      <3>. QED BY <3>2, <3>4 DEF Range
    <2>. QED BY <2>1, <2>2
  <1>3. list' = [list EXCEPT ![q] = s \o list[q]] /\ list[q] \in Seq(Blocks)
    BY <1>1 DEF LinkBlocks
  <1>4. list' \in [Irqs -> Seq(Blocks)]
    BY <1>1, <1>3, SMTT(30)
  <1>5. \A r \in Irqs : Range(list[r]) \subseteq Range(list'[r])
    <2>1. Range(list[q]) \subseteq Range(list'[q])
      <3>1. list'[q] = s \o list[q]
        BY <1>1, <1>3
      <3>2. \A i \in DOMAIN list[q] : Len(s) + i \in DOMAIN list'[q] /\ list'[q][Len(s) + i] = list[q][i]
        BY <1>3, <3>1, SMTT(30)
      <3>. QED BY <3>2 DEF Range
    <2>. QED BY <1>1, <1>3, <2>1
  <1>6. \A r \in Range(ctxs) : r \in Irqs
    BY <1>1, SMTT(30) DEF Range
  <1>. QED BY <1>2, <1>4, <1>5, <1>6 DEF Installed

\* create_gpe_block, for blocks none of whose events has users.
LEMMA CreateKeeps ==
    ASSUME GpeInv, NEW s \in Seq(Blocks), NEW q \in Irqs, create_gpe_blocks(s, q),
           runtime \cap UNION {EventsOf(b) : b \in Range(s)} = {},
           call = Idle, ~asleep, fin.stage # "users", started',
           UNCHANGED <<users, runtime, current, masked, blocked, suspended, lapsed, freed,
                       asleep, fin, call>>
    PROVE  GpeInv'
  <1>1. /\ ctxs' \in Seq(Irqs) /\ list' \in [Irqs -> Seq(Blocks)]
        /\ Installed \subseteq Installed'
    BY LinkKeeps DEF GpeInv, create_gpe_blocks
  <1>2. oob' \in BOOLEAN /\ (~oob' => ~oob)
    BY DEF create_gpe_blocks, MatchTo, GpeInv, GpeTypes
  <1>3. enable' = enable \ UNION {EventsOf(b) : b \in Range(s)}
    BY DEF create_gpe_blocks
  <1>4. InstalledEvents \subseteq InstalledEvents'
    BY <1>1 DEF InstalledEvents
  <1>5. GpeTypes'
    BY <1>1, <1>2 DEF GpeInv, GpeTypes
  <1>6. UsersInv'
    BY <1>4 DEF GpeInv, UsersInv
  <1>7. AwakeInv'
    BY <1>2, <1>3 DEF GpeInv, AwakeInv
  <1>8. CallInv'
    BY <1>2, <1>3 DEF GpeInv, CallInv, Armed, Idle
  <1>. QED BY <1>5, <1>6, <1>7, <1>8 DEF GpeInv

\* The blocks of the FADT are made before any event has users.
LEMMA InitializeKeeps ==
    ASSUME GpeInv, uacpi_initialize_events
    PROVE  GpeInv'
  <1>1. PICK s \in Parts(Fadt) : create_gpe_blocks(s, Sci)
    BY DEF uacpi_initialize_events
  <1>2. s \in Seq(Blocks) /\ Sci \in Irqs
    BY PartsAreSequences DEF Irqs
  <1>3. runtime = {} /\ call = Idle /\ ~asleep /\ fin.stage = "no"
    BY DEF GpeInv, UsersInv, uacpi_initialize_events
  <1>4. started' /\ UNCHANGED <<users, runtime, current, masked, blocked, suspended, lapsed,
                                freed, asleep, fin, call>>
    BY DEF uacpi_initialize_events, masks
  <1>. QED BY <1>1, <1>2, <1>3, <1>4, CreateKeeps

\* A block that is not linked has no runtime events, so that disabling them all is harmless.
LEMMA InstallBlockKeeps ==
    ASSUME GpeInv, NEW b \in Blocks, uacpi_gpe_install_block(b)
    PROVE  GpeInv'
  <1>1. Quiet /\ fin.stage # "users" /\ b \notin Installed /\ create_gpe_blocks(<<b>>, IrqOf[b])
    BY DEF uacpi_gpe_install_block, Ready
  <1>2. <<b>> \in Seq(Blocks) /\ IrqOf[b] \in Irqs /\ Range(<<b>>) = {b}
    BY SMTT(30) DEF Irqs, Range
  <1>3. runtime \cap EventsOf(b) = {}
    BY <1>1 DEF GpeInv, UsersInv, Quiet, InstalledEvents, EventsOf
  <1>4. started' /\ UNCHANGED <<users, runtime, current, masked, blocked, suspended, lapsed,
                                freed, asleep, fin, call>>
    BY <1>1 DEF uacpi_gpe_install_block, masks, setup, Quiet
  <1>5. runtime \cap UNION {EventsOf(c) : c \in Range(<<b>>)} = {}
    BY <1>2, <1>3
  <1>. QED BY <1>1, <1>2, <1>4, <1>5, CreateKeeps DEF Quiet

\* The other blocks of a list stay in it when one is unlinked.
LEMMA UnlinkedKeeps ==
    ASSUME NEW s \in Seq(Blocks), NEW b \in Range(s)
    PROVE  Unlinked(s, b) \in Seq(Blocks) /\ Range(s) \ {b} \subseteq Range(Unlinked(s, b))
  <1>. DEFINE at == CHOOSE i \in DOMAIN s : s[i] = b
  <1>1. at \in 1 .. Len(s) /\ s[at] = b
    BY SMTT(30) DEF Range
  <1>. HIDE DEF at
  <1>2. Unlinked(s, b) = [j \in 1 .. Len(s) - 1 |-> IF j < at THEN s[j] ELSE s[j + 1]]
    BY DEF Unlinked, at
  <1>3. \A j \in 1 .. Len(s) - 1 : j \in 1 .. Len(s) /\ j + 1 \in 1 .. Len(s)
    BY SMTT(30)
  <1>4. Len(s) - 1 \in Nat
    BY <1>1, SMTT(30)
  <1>5. Unlinked(s, b) \in Seq(Blocks)
    BY <1>2, <1>3, <1>4, SMTT(30)
  <1>6. ASSUME NEW i \in DOMAIN s, s[i] # b PROVE s[i] \in Range(Unlinked(s, b))
    <2>1. i \in 1 .. Len(s) /\ i # at
      BY <1>1, <1>6, SMTT(30)
    <2>2. CASE i < at
      <3>1. i \in 1 .. Len(s) - 1 /\ Unlinked(s, b)[i] = s[i]
        BY <1>1, <1>2, <2>1, <2>2, SMTT(30)
      <3>. QED BY <1>2, <3>1 DEF Range
    <2>3. CASE i > at
      <3>1. i - 1 \in 1 .. Len(s) - 1 /\ ~(i - 1 < at) /\ (i - 1) + 1 = i
        BY <1>1, <2>1, <2>3, SMTT(30)
      <3>2. Unlinked(s, b)[i - 1] = s[i]
        BY <1>2, <3>1
      <3>. QED BY <1>2, <3>1, <3>2 DEF Range
    <2>. QED BY <1>1, <2>1, <2>2, <2>3, SMTT(30)
  <1>. QED BY <1>5, <1>6 DEF Range

\* An unlinked block takes its events out of every mask.
LEMMA UninstallBlockKeeps ==
    ASSUME GpeInv, NEW b \in Blocks, uacpi_gpe_uninstall_block(b)
    PROVE  GpeInv'
  <1>. DEFINE q == IrqOf[b]
  <1>1. Quiet /\ fin.stage # "users" /\ b \in Range(list[q])
    BY DEF uacpi_gpe_uninstall_block, Ready
  <1>2. ctxs \in Seq(Irqs) /\ list \in [Irqs -> Seq(Blocks)] /\ users \in [Events -> Nat] /\ q \in Irqs
    BY DEF GpeInv, GpeTypes, Irqs
  <1>3. list' = [list EXCEPT ![q] = Unlinked(list[q], b)] /\ ctxs' = ctxs
    BY <1>2 DEF uacpi_gpe_uninstall_block
  <1>. HIDE DEF q
  <1>4. list[q] \in Seq(Blocks)
    BY <1>2
  <1>5. Unlinked(list[q], b) \in Seq(Blocks) /\ Range(list[q]) \ {b} \subseteq Range(Unlinked(list[q], b))
    BY <1>1, <1>4, UnlinkedKeeps
  <1>6. list' \in [Irqs -> Seq(Blocks)] /\ \A r \in Irqs : Range(list[r]) \ {b} \subseteq Range(list'[r])
    BY <1>2, <1>3, <1>5
  <1>7. Installed \ {b} \subseteq Installed'
    <2>1. \A r \in Range(ctxs) : r \in Irqs
      BY <1>2, SMTT(30) DEF Range
    <2>. QED BY <1>3, <1>6, <2>1 DEF Installed
  <1>8. InstalledEvents \ EventsOf(b) \subseteq InstalledEvents'
    BY <1>7 DEF InstalledEvents, EventsOf
  <1>9. /\ runtime' = runtime \ EventsOf(b) /\ masked' = masked \ EventsOf(b)
        /\ current' = current \ EventsOf(b) /\ blocked' = blocked \ EventsOf(b)
        /\ users' = [e \in Events |-> IF e[1] = b THEN 0 ELSE users[e]]
        /\ UNCHANGED <<suspended, lapsed, started, asleep, fin, call, oob>>
    BY DEF uacpi_gpe_uninstall_block, setup
  <1>10. /\ enable' = enable \ UNION {RegOf(e) : e \in EventsOf(b) \cap current}
         /\ freed \subseteq freed'
    BY DEF uacpi_gpe_uninstall_block
  <1>11. GpeTypes'
    BY <1>2, <1>3, <1>6, <1>9 DEF GpeInv, GpeTypes
  <1>12. UsersInv'
    <2>1. \A e \in runtime' : users'[e] # 0
      BY <1>9 DEF GpeInv, GpeTypes, UsersInv, EventsOf
    <2>2. runtime' \subseteq InstalledEvents'
      BY <1>1, <1>8, <1>9 DEF GpeInv, UsersInv, Quiet
    <2>. QED BY <1>1, <1>9, <2>1, <2>2 DEF UsersInv, Quiet
  <1>13. AwakeInv'
    BY <1>1, <1>9, <1>10 DEF GpeInv, AwakeInv, Quiet
  <1>14. CallInv'
    <2>1. Armed \subseteq enable /\ call = Idle
      BY <1>1 DEF GpeInv, CallInv, Quiet
    <2>2. Armed' \subseteq enable'
      BY <1>9, <1>10, <2>1, SMTT(30) DEF Armed, RegOf, EventsOf, GpeInv, GpeTypes
    <2>. QED BY <1>9, <2>1, <2>2 DEF CallInv, Idle
  <1>. QED BY <1>11, <1>12, <1>13, <1>14 DEF GpeInv

-----------------------------------------------------------------------------
(* The interrupt and the thread's other steps *)

\* What dispatch_gpe may do while nothing or a call is in progress.
LEMMA DispatchKeeps ==
    ASSUME GpeInv, NEW P, NEW R, dispatch_gpe(P, R),
           P \subseteq enable \/ call = Idle \/ call.k.op = "polling",
           call' \in {call, Idle}, call' # call => call # Idle /\ call.k.op = "polling",
           ~started => P = {},
           UNCHANGED <<ctxs, list, freed, users, runtime, current, masked, suspended, lapsed,
                       started, asleep, oob, htype>>,
           freed = {} /\ fin'.stage = "users" => fin.stage = "users" /\ fin'.todo \subseteq fin.todo,
           ~started => fin' = fin
    PROVE  GpeInv'
  <1>1. GpeTypes'
    BY DEF GpeInv, GpeTypes
  <1>2. UsersInv'
    BY DEF GpeInv, UsersInv, InstalledEvents, Installed
  <1>3. enable' \cap masked \subseteq enable /\ enable' \subseteq enable \cup P
    BY DispatchEnables
  <1>4. AwakeInv'
    BY <1>3 DEF GpeInv, AwakeInv
  <1>5. ASSUME ~asleep, freed = {}, ~oob, NEW f \in Armed', f \in Armed => f \in enable
        PROVE  f \in enable'
    BY <1>5, DispatchKeepsArmed DEF GpeInv, AwakeInv
  <1>6. ASSUME call = Idle \/ call.k.op = "polling" PROVE CallInv'
    <2>1. call' = call \/ call' = Idle
      OBVIOUS
    <2>2. ~asleep /\ freed = {} /\ ~oob => Armed \subseteq enable
      BY <1>6 DEF GpeInv, CallInv
    <2>3. ~asleep /\ freed = {} /\ ~oob => Armed' \subseteq enable'
      BY <1>5, <2>2
    <2>4. call # Idle => started /\ ~asleep /\ freed = {} /\ ~oob /\ call.e \in Events
      BY <1>6 DEF GpeInv, CallInv
    <2>. QED BY <1>6, <2>1, <2>3, <2>4 DEF CallInv
  <1>8. ASSUME call # Idle, call.k.op # "polling" PROVE CallInv'
    <2>1. call' = call /\ P \subseteq enable /\ RmwInv /\ started /\ ~asleep /\ freed = {} /\ ~oob
      BY <1>8 DEF GpeInv, CallInv
    <2>2. enable' \subseteq enable
      BY <1>3, <2>1
    <2>3. Armed' \ {call.e} \subseteq enable'
      BY <1>5, <2>1 DEF RmwInv
    <2>4. call.skip /\ call.k.op # "unblock" => Armed' \subseteq enable'
      BY <1>5, <2>1 DEF RmwInv
    <2>5. RmwInv'
      BY <2>1, <2>2, <2>3, <2>4 DEF RmwInv, RegOf, EventsOf
    <2>. QED BY <1>8, <2>1, <2>5 DEF CallInv
  <1>9. CallInv'
    BY <1>6, <1>8
  <1>. QED BY <1>1, <1>2, <1>4, <1>9 DEF GpeInv

\* Whatever block the interrupt starts from, it dispatches only events whose bits are set, so that
\* it sets no new bit under a call.
LEMMA InterruptKeeps ==
    ASSUME GpeInv, Interrupt
    PROVE  GpeInv'
  <1>1. PICK q \in Irqs : handle_gpes(q)
    BY DEF Interrupt
  <1>2. started /\ UNCHANGED <<ctxs, list, freed, users, runtime, current, masked, suspended,
                               lapsed, started, asleep, oob, htype, fin, call>>
    BY <1>1 DEF handle_gpes, masks, setup
  <1>3. CASE UNCHANGED <<hw, blocked>>
    <2>1. oob \in BOOLEAN
      BY DEF GpeInv, GpeTypes
    <2>. QED BY <1>2, <1>3, <2>1, FrameKeeps DEF invVars, hw
  <1>4. ASSUME NEW b, NEW R, dispatch_gpe(Detected(From(b)), R) PROVE GpeInv'
    <2>. DEFINE P == Detected(From(b))
    <2>1. P \subseteq enable /\ dispatch_gpe(P, R)
      BY <1>4 DEF Detected
    <2>. HIDE DEF P
    <2>2. freed = {} /\ fin'.stage = "users" => fin.stage = "users" /\ fin'.todo \subseteq fin.todo
      BY <1>2
    <2>. QED BY <1>2, <2>1, <2>2, DispatchKeeps
  <1>. QED BY <1>1, <1>3, <1>4 DEF handle_gpes

\* maybe_dispatch_gpe ends a call.
LEMMA PollKeeps ==
    ASSUME GpeInv, maybe_dispatch_gpe
    PROVE  GpeInv'
  <1>1. /\ call # Idle /\ call.k.op = "polling" /\ call' = Idle
        /\ UNCHANGED <<ctxs, list, freed, users, runtime, current, masked, suspended,
                       lapsed, started, asleep, oob, htype, fin>>
    BY DEF maybe_dispatch_gpe, lists, masks, setup
  <1>2. PICK R : dispatch_gpe(Status \cap {call.e}, R)
    BY DEF maybe_dispatch_gpe
  <1>3. started
    BY <1>1 DEF GpeInv, CallInv
  <1>4. freed = {} /\ fin'.stage = "users" => fin.stage = "users" /\ fin'.todo \subseteq fin.todo
    BY <1>1
  <1>. QED BY <1>1, <1>2, <1>3, <1>4, DispatchKeeps

\* The write of set_gpe_state and the rest of the call.
LEMMA FinishKeeps ==
    ASSUME GpeInv, Finish
    PROVE  GpeInv'
  <1>. DEFINE e == call.e
              op == call.k.op
  <1>1. call # Idle /\ op # "polling"
    BY DEF Finish
  <1>2. RmwInv /\ started /\ ~asleep /\ freed = {} /\ ~oob
    BY <1>1 DEF GpeInv, CallInv
  <1>3. /\ enable' = Written
        /\ masked' = IF op = "mask" THEN masked \cup {e} ELSE masked
        /\ blocked' = IF op = "unblock" THEN blocked \ {e} ELSE blocked
        /\ UNCHANGED <<ctxs, list, freed, users, runtime, current, suspended,
                       lapsed, started, asleep, oob, fin>>
    BY DEF Finish, lists, setup
  <1>4. call' \in {[k |-> Then("polling"), e |-> e], Idle}
    BY DEF Finish
  <1>5. e \in RegOf(e) /\ e \in Events
    BY <1>2 DEF RmwInv, RegOf, EventsOf
  <1>6. runtime \ lapsed \subseteq current /\ masked \cap enable = {}
    BY <1>2 DEF GpeInv, AwakeInv
  <1>7. Armed' \subseteq enable'
    <2>. SUFFICES ASSUME NEW f \in Armed' PROVE f \in enable'
      OBVIOUS
    <2>0. /\ f \in runtime /\ f \notin masked /\ f \notin suspended /\ f \notin lapsed
          /\ f \in current /\ (f = e => op # "mask") /\ (f # e => f \in Armed)
          /\ (op # "unblock" => f \in Armed)
      BY <1>3, <1>6 DEF Armed
    <2>1. CASE call.skip
      BY <1>2, <1>3, <2>0, <2>1 DEF RmwInv, Written
    <2>2. CASE ~call.skip
      BY <1>2, <1>3, <2>0, <2>2 DEF RmwInv, Written
    <2>. QED BY <1>2, <2>1, <2>2 DEF RmwInv
  <1>8. masked' \cap enable' = {}
    <2>1. CASE call.skip
      BY <1>2, <1>3, <1>6, <2>1 DEF RmwInv, Written
    <2>2. CASE ~call.skip
      BY <1>2, <1>3, <1>5, <1>6, <2>2 DEF RmwInv, Written
    <2>. QED BY <1>2, <2>1, <2>2 DEF RmwInv
  <1>9. GpeTypes'
    BY <1>3 DEF GpeInv, GpeTypes
  <1>10. UsersInv'
    BY <1>2, <1>3 DEF GpeInv, UsersInv, InstalledEvents, Installed
  <1>11. AwakeInv'
    BY <1>3, <1>6, <1>8 DEF AwakeInv
  <1>12. CallInv'
    <2>1. CASE call' = Idle
      BY <1>7, <2>1 DEF CallInv
    <2>2. CASE call' = [k |-> Then("polling"), e |-> e]
      <3>1. call'.k.op = "polling" /\ call'.e = e
        BY <2>2 DEF Then
      <3>. QED BY <1>2, <1>3, <1>5, <1>7, <3>1 DEF CallInv
    <2>. QED BY <1>4, <2>1, <2>2
  <1>. QED BY <1>9, <1>10, <1>11, <1>12 DEF GpeInv

-----------------------------------------------------------------------------
(* Finalization, sleep and wake *)

\* uacpi_finalize_gpe_initialization adds a user to events of linked blocks.
LEMMA FinalizeKeeps ==
    ASSUME GpeInv, finalize_begin \/ finalize_next \/ finalize_end
    PROVE  GpeInv'
  <1>1. CASE finalize_begin
    <2>1. /\ Quiet /\ fin'.todo = AutoEnabled
          /\ UNCHANGED <<ctxs, list, freed, users, runtime, current, masked, enable, blocked,
                         suspended, lapsed, started, asleep, call, oob>>
      BY <1>1 DEF finalize_begin, Ready, hw, lists, masks, events
    <2>2. InstalledEvents' = InstalledEvents /\ fin'.todo \subseteq InstalledEvents
      <3>1. AutoEnabled \subseteq InstalledEvents
        BY DEF AutoEnabled, InstalledEvents
      <3>2. InstalledEvents' = InstalledEvents
        BY <2>1 DEF InstalledEvents, Installed
      <3>. QED BY <2>1, <3>1, <3>2
    <2>3. GpeTypes'
      BY <2>1 DEF GpeInv, GpeTypes
    <2>4. UsersInv'
      BY <2>1, <2>2 DEF GpeInv, UsersInv, Quiet
    <2>5. AwakeInv'
      BY <2>1 DEF GpeInv, AwakeInv
    <2>6. Armed' = Armed
      BY <2>1 DEF Armed
    <2>7. CallInv'
      BY <2>1, <2>6 DEF GpeInv, CallInv, Quiet
    <2>. QED BY <2>3, <2>4, <2>5, <2>7 DEF GpeInv
  <1>2. CASE finalize_next
    <2>. DEFINE e == CHOOSE x \in fin.todo : TRUE
    <2>1. /\ Quiet /\ fin.stage = "users" /\ fin.todo # {}
          /\ fin' = [stage |-> "users", todo |-> fin.todo \ {e}, poll |-> fin.poll]
          /\ gpe_add_user(e, FALSE, Then("none"))
          /\ UNCHANGED <<enable, masked, blocked, suspended, lapsed, freed, oob, started,
                         asleep, ctxs, list>>
      BY <1>2 DEF finalize_next, lists
    <2>2. e \in fin.todo /\ fin.todo \subseteq InstalledEvents
      BY <2>1 DEF GpeInv, UsersInv, Quiet
    <2>3. fin'.todo \subseteq InstalledEvents /\ Then("none").op = "none"
      BY <2>1, <2>2 DEF Then
    <2>. HIDE DEF e
    <2>. QED BY <2>1, <2>2, <2>3, AddUserKeeps
  <1>3. CASE finalize_end
    <2>. DEFINE P == IF fin.poll THEN Detected(Range(list[ctxs[1]])) ELSE {}
    <2>1. /\ Quiet /\ fin'.stage = "done"
          /\ UNCHANGED <<ctxs, list, freed, users, runtime, current, masked, suspended, lapsed,
                         started, asleep, oob, htype, call>>
      BY <1>3 DEF finalize_end, lists, masks
    <2>2. PICK R : dispatch_gpe(P, R)
      BY <1>3 DEF finalize_end
    <2>. HIDE DEF P
    <2>3. call = Idle /\ started
      BY <2>1 DEF Quiet
    <2>. QED BY <2>1, <2>2, <2>3, DispatchKeeps
  <1>. QED BY <1>1, <1>2, <1>3

\* After a wake the bits are those of the runtime events that are not masked.
LEMMA SleepKeeps ==
    ASSUME GpeInv, enter_sleep_state \/ wake_from_sleep_state
    PROVE  GpeInv'
  <1>1. CASE enter_sleep_state
    <2>1. /\ Quiet /\ asleep' = TRUE /\ call' = Idle
          /\ UNCHANGED <<ctxs, list, freed, users, runtime, started, oob, fin>>
      BY <1>1 DEF enter_sleep_state, Ready, Quiet, lists, events
    <2>2. GpeTypes'
      BY <2>1 DEF GpeInv, GpeTypes
    <2>3. UsersInv'
      BY <2>1 DEF GpeInv, UsersInv, InstalledEvents, Installed, Quiet
    <2>4. AwakeInv' /\ CallInv'
      BY <2>1 DEF AwakeInv, CallInv
    <2>. QED BY <2>2, <2>3, <2>4 DEF GpeInv
  <1>2. CASE wake_from_sleep_state
    <2>1. /\ asleep /\ asleep' = FALSE
          /\ enable' = (runtime \ masked) \cap InstalledEvents /\ current' = enable'
          /\ lapsed' = lapsed \cup (runtime \cap masked)
          /\ UNCHANGED <<ctxs, list, freed, users, runtime, masked, started, oob, fin, call>>
      BY <1>2 DEF wake_from_sleep_state, lists, events
    <2>2. call = Idle /\ started
      BY <2>1 DEF GpeInv, CallInv, UsersInv, GpeTypes
    <2>3. GpeTypes'
      BY <2>1 DEF GpeInv, GpeTypes
    <2>4. UsersInv'
      BY <2>1, <2>2 DEF GpeInv, UsersInv, InstalledEvents, Installed
    <2>5. freed = {} => runtime \subseteq InstalledEvents
      BY DEF GpeInv, UsersInv
    <2>6. AwakeInv'
      BY <2>1, <2>5 DEF AwakeInv
    <2>7. CallInv'
      BY <2>1, <2>2, <2>5 DEF CallInv, Armed, Idle
    <2>. QED BY <2>3, <2>4, <2>6, <2>7 DEF GpeInv
  <1>. QED BY <1>1, <1>2

-----------------------------------------------------------------------------
(* The invariant *)

\* The invariant holds before uacpi_initialize_events.
LEMMA GpeInit == Init => GpeInv
  <1>. SUFFICES ASSUME Init PROVE GpeInv
    OBVIOUS
  <1>1. GpeTypes
    <2>1. <<>> \in Seq(Irqs) /\ <<>> \in Seq(Blocks)
      BY SMTT(30)
    <2>2. ctxs \in Seq(Irqs) /\ list \in [Irqs -> Seq(Blocks)]
      BY <2>1 DEF Init
    <2>3. users \in [Events -> Nat]
      BY DEF Init
    <2>. QED BY <2>2, <2>3 DEF Init, GpeTypes
  <1>2. UsersInv
    BY DEF Init, UsersInv
  <1>3. AwakeInv /\ CallInv
    BY DEF Init, AwakeInv, CallInv, Armed
  <1>. QED BY <1>1, <1>2, <1>3 DEF GpeInv

\* Every step keeps the invariant.
LEMMA GpeNext ==
    ASSUME GpeInv, [Next]_vars
    PROVE  GpeInv'
  <1>0. oob \in BOOLEAN
    BY DEF GpeInv, GpeTypes
  <1>1. CASE UNCHANGED vars
    BY <1>0, <1>1, FrameKeeps DEF vars, invVars
  <1>2. CASE \E e \in Events : Raise(e)
    BY <1>0, <1>2, FrameKeeps DEF Raise, lists, masks, events, setup, invVars
  <1>3. CASE uacpi_events_match_post_dynamic_table_load \/ PastEnd
    <2>1. Quiet /\ UNCHANGED <<invVars, call>>
      BY <1>3 DEF uacpi_events_match_post_dynamic_table_load, PastEnd, Ready, hw, lists, masks,
           events, setup, invVars
    <2>2. oob' \in BOOLEAN
      BY <1>3 DEF uacpi_events_match_post_dynamic_table_load, PastEnd, MatchTo
    <2>. QED BY <1>0, <2>1, <2>2, FrameKeeps DEF Quiet
  <1>4. CASE Api
    BY <1>3, <1>4, EventCallKeeps, SuspendKeeps, FinishHandlingKeeps, MaskKeeps, UnmaskKeeps,
       HandlerKeeps, InstallBlockKeeps, UninstallBlockKeeps, FinalizeKeeps, SleepKeeps DEF Api
  <1>. QED BY <1>1, <1>2, <1>4, InitializeKeeps, InterruptKeeps, FinishKeeps, PollKeeps,
              FinalizeKeeps DEF Next, Thread

\* The step property, from the invariant before and after.
LEMMA MaskedStep ==
    ASSUME GpeInv, GpeInv', [Next]_vars
    PROVE  \A e \in masked : e \in enable' \ enable => e \in wake /\ asleep'
  <1>1. CASE masked \subseteq masked' /\ ~asleep'
    BY <1>1 DEF GpeInv, AwakeInv
  <1>2. CASE enable' \subseteq enable
    BY <1>2
  <1>3. CASE enter_sleep_state
    BY <1>3 DEF enter_sleep_state
  <1>4. CASE Interrupt
    BY <1>4, DispatchEnables DEF Interrupt, handle_gpes, hw
  <1>5. CASE maybe_dispatch_gpe
    BY <1>5, DispatchEnables DEF maybe_dispatch_gpe
  <1>6. CASE finalize_end
    BY <1>6, DispatchEnables DEF finalize_end
  <1>7. CASE Finish
    <2>1. call # Idle /\ asleep' = asleep /\ masked \subseteq masked'
      BY <1>7 DEF Finish, setup
    <2>2. ~asleep'
      BY <2>1 DEF GpeInv, CallInv
    <2>. QED BY <1>1, <2>1, <2>2
  <1>8. CASE wake_from_sleep_state
    BY <1>8 DEF wake_from_sleep_state
  <1>9. CASE uacpi_initialize_events \/ \E b \in Blocks : uacpi_gpe_install_block(b)
    <2>1. enable' \subseteq enable
      BY <1>9 DEF uacpi_initialize_events, uacpi_gpe_install_block, create_gpe_blocks
    <2>. QED BY <1>2, <2>1
  <1>10. CASE \E b \in Blocks : uacpi_gpe_uninstall_block(b)
    <2>1. enable' \subseteq enable
      BY <1>10 DEF uacpi_gpe_uninstall_block
    <2>. QED BY <1>2, <2>1
  <1>11. ASSUME NEW e \in Events,
                \/ uacpi_enable_gpe(e) \/ uacpi_disable_gpe(e) \/ uacpi_clear_gpe(e)
                \/ uacpi_suspend_gpe(e) \/ uacpi_resume_gpe(e) \/ uacpi_finish_handling_gpe(e)
                \/ uacpi_mask_gpe(e) \/ uacpi_unmask_gpe(e)
         PROVE  enable' = enable
    BY <1>11 DEF uacpi_enable_gpe, uacpi_disable_gpe, uacpi_clear_gpe, uacpi_suspend_gpe,
         uacpi_resume_gpe, uacpi_finish_handling_gpe, uacpi_mask_gpe, uacpi_unmask_gpe, hw
  <1>12. ASSUME NEW e \in Events,
                \/ \E type \in {"native", "raw"}, tr \in {"edge", "level"} :
                      install_gpe_handler(e, type, tr)
                \/ uacpi_uninstall_gpe_handler(e) \/ setup_aml_for_wake(e)
                \/ \E dev \in WakeDevices : uacpi_setup_gpe_for_wake(e, dev)
                \/ uacpi_enable_gpe_for_wake(e) \/ uacpi_disable_gpe_for_wake(e)
                \/ Raise(e)
         PROVE  enable' = enable
    BY <1>12 DEF install_gpe_handler, uacpi_uninstall_gpe_handler, setup_aml_for_wake,
         uacpi_setup_gpe_for_wake, uacpi_enable_gpe_for_wake, uacpi_disable_gpe_for_wake,
         Raise, hw
  <1>13. CASE \/ uacpi_events_match_post_dynamic_table_load \/ PastEnd \/ finalize_begin
              \/ finalize_next \/ UNCHANGED vars
    <2>1. enable' = enable
      BY <1>13 DEF uacpi_events_match_post_dynamic_table_load, PastEnd, finalize_begin,
           finalize_next, hw, vars
    <2>. QED BY <1>2, <2>1
  <1>14. CASE Api
    BY <1>2, <1>3, <1>8, <1>9, <1>10, <1>11, <1>12, <1>13, <1>14 DEF Api
  <1>15. CASE \E e \in Events : Raise(e)
    BY <1>2, <1>12, <1>15
  <1>. QED BY <1>4, <1>5, <1>6, <1>7, <1>9, <1>13, <1>14, <1>15 DEF Next, Thread

-----------------------------------------------------------------------------
(* The theorems *)

\* The invariant of the general purpose events holds in every reachable state.
THEOREM GpeInvariant == Spec => []GpeInv
  <1>1. GpeInv /\ [Next]_vars => GpeInv'
    BY GpeNext
  <1>. QED BY GpeInit, <1>1, PTL DEF Spec

\* An event with users that nothing holds back is enabled whenever no call is in progress,
\* however the unlocked read-modify-writes of event.c interleave with the interrupt, and
\* across handler changes, block changes, sleep and wake, until an interrupt has taken a
\* foreign register for a block (handle_gpes).
THEOREM GpeArmedIsEnabled == Spec => []ArmedIsEnabled
  <1>1. GpeInv => ArmedIsEnabled
    BY DEF GpeInv, CallInv, Armed, ArmedIsEnabled
  <1>. QED BY GpeInvariant, <1>1, PTL

\* No step sets the enable bit of a masked event, except arming the wake events.
THEOREM GpeMaskedStaysOff == Spec => MaskedStaysOff
  <1>1. GpeInv /\ GpeInv' /\ [Next]_vars =>
           [\A e \in masked : e \in enable' \ enable => e \in wake /\ asleep']_vars
    BY MaskedStep
  <1>. QED BY GpeInvariant, <1>1, PTL DEF Spec, MaskedStaysOff

-----------------------------------------------------------------------------
(* Fixed events and the global lock                                        *)

(* The lock word, and a write of PM1_EN in progress. *)
Words == [owned : BOOLEAN, pending : BOOLEAN]
Writes == [to : {"install", "uninstall", "set"}, e : All, value : BOOLEAN, seen : SUBSET Sticky]

(* The types the proofs need. *)
Types ==
    /\ word \in Words /\ seen \in Words
    /\ fw \in BOOLEAN /\ os \in BOOLEAN /\ acquired \in BOOLEAN /\ inited \in BOOLEAN
    /\ en \subseteq Sticky /\ untouched \subseteq All /\ (rmw = NoRmw \/ rmw \in Writes)
    /\ seq \in Nat /\ mine \in Nat

(* The handler of the global lock stays as initialize_fixed_events left it; a handler
   call in progress keeps the thread out of mutex.c. *)
HandlerKept ==
    /\ ~inited => handlers = {} /\ untouched = All /\ pc = "idle" /\ rmw = NoRmw
    /\ rmw # NoRmw => /\ pc = "idle" /\ (rmw.to = "install" => rmw.value)
                      /\ rmw.to = "uninstall" => ~rmw.value /\ rmw.e # GL
    /\ inited /\ GL \in Sticky => GL \in handlers

(* Whoever believes it owns the lock has the word marked owned; a release is on the
   way only through the AML mutex, and its thread owns the lock. *)
OwnerInv ==
    /\ fw => word.owned /\ GL \in Sticky
    /\ os => word.owned
    /\ ~(fw /\ os)
    /\ acquired => seq = mine + 1
    /\ pc \in {"release", "released"} => by = "aml"
    /\ GL \in Sticky /\ (pc \in {"got", "release"} \/ (owner # "none" /\ pc # "released")) => os

(* What PM1_EN holds, and what a write in progress is about to restore. *)
EnableInv ==
    /\ inited => en \subseteq handlers \cup untouched /\ untouched \subseteq Unserved
    /\ rmw # NoRmw => /\ rmw.seen \subseteq handlers \cup untouched
                      /\ rmw.value => rmw.e \in handlers

Pm1Inv == Types /\ HandlerKept /\ OwnerInv /\ EnableInv

(* The state uACPI starts in satisfies the invariant. *)
LEMMA FixedInitInv == FixedInit => Pm1Inv
  <1>. SUFFICES ASSUME FixedInit PROVE Pm1Inv
    OBVIOUS
  <1>1. /\ fw = FALSE /\ os = FALSE /\ acquired = FALSE /\ inited = FALSE
        /\ word = [owned |-> FALSE, pending |-> FALSE] /\ seen = word /\ rmw = NoRmw
    BY DEF FixedInit, Free
  <1>2. en \subseteq Sticky /\ seq = 0 /\ mine = 0 /\ handlers = {} /\ untouched = All /\ pc = "idle"
        /\ owner = "none"
    BY DEF FixedInit
  <1>3. Types
    BY <1>1, <1>2 DEF Types, Words
  <1>. QED BY <1>1, <1>2, <1>3 DEF Pm1Inv, HandlerKept, OwnerInv, EnableInv

(* Every step of the thread, the SCI, the firmware and the devices keeps it.  The
   cases that matter: try_acquire takes a word that is not owned, so the firmware does
   not own it; uacpi_release_global_lock is always refused, so that a release comes from
   the AML mutex, whose holder owns the lock; set_event restores only bits whose handler
   is still installed. *)
LEMMA FixedStepKeeps == ASSUME Pm1Inv, FixedNext PROVE Pm1Inv'
  <1>. USE DEF Pm1Inv, Types, HandlerKept, OwnerInv, EnableInv, Words, Writes, NoRmw, Free,
        FixedCall, ThreadRuns, HasGlobalLock, go, rest, locks, thread
  <1>1. CASE \E e \in All : uacpi_install_fixed_event_handler(e)
    BY <1>1, SMTT(30) DEF uacpi_install_fixed_event_handler, SetEvent
  <1>2. CASE \E e \in All : uacpi_uninstall_fixed_event_handler(e)
    BY <1>2, SMTT(30) DEF uacpi_uninstall_fixed_event_handler, SetEvent
  <1>3. CASE \E e \in All : uacpi_enable_fixed_event(e)
    BY <1>3, SMTT(30) DEF uacpi_enable_fixed_event, SetEvent
  <1>4. CASE \E e \in All : uacpi_disable_fixed_event(e)
    BY <1>4, SMTT(30) DEF uacpi_disable_fixed_event, SetEvent
  <1>5. CASE \E e \in All : uacpi_clear_fixed_event(e)
    BY <1>5, SMTT(30) DEF uacpi_clear_fixed_event
  <1>6. CASE initialize_fixed_events
    BY <1>6, FixedAssumption DEF initialize_fixed_events, All
  <1>7. CASE uacpi_clear_all_events
    BY <1>7 DEF uacpi_clear_all_events
  <1>8. CASE set_event
    BY <1>8, SMTT(30) DEF set_event, Enabled
  <1>9. CASE handle_fixed_events
    BY <1>9, SMTT(30) DEF handle_fixed_events
  <1>10. CASE \E e \in Served : dispatch_fixed_event(e)
    BY <1>10, SMTT(30) DEF dispatch_fixed_event, GlobalLockNotified
  <1>11. CASE sci_done
    BY <1>11, SMTT(30) DEF sci_done
  <1>12. CASE \E who \in {"api", "aml"} : acquire(who)
    BY <1>12, SMTT(30) DEF acquire
  <1>13. CASE acquire_again
    BY <1>13 DEF acquire_again
  <1>14. CASE lock_spin
    BY <1>14 DEF lock_spin
  <1>15. CASE try_acquire
    <2>. USE <1>15 DEF try_acquire
    <2>1. CASE word # seen
      BY <2>1
    <2>2. CASE word = seen /\ seen.owned
      <3>1. word' = [owned |-> TRUE, pending |-> TRUE] /\ pc' = "failed" /\ fw' = fw
        BY <2>2
      <3>2. os' = os
        BY <2>2
      <3>. QED BY <2>2, <3>1, <3>2, SMTT(30)
    <2>3. CASE word = seen /\ ~seen.owned
      <3>1. ~fw /\ os' = TRUE /\ word' = [owned |-> TRUE, pending |-> FALSE] /\ pc' = "got"
        BY <2>3
      <3>. QED BY <2>3, <3>1
    <2>. QED BY <2>1, <2>2, <2>3
  <1>16. CASE try_failed
    BY <1>16 DEF try_failed
  <1>17. CASE wait_for_event
    BY <1>17 DEF wait_for_event
  <1>18. CASE acquired_now
    <2>. USE <1>18 DEF acquired_now
    <2>1. CASE by = "api"
      <3>1. /\ mine' = (IF seq = SeqMax THEN 0 ELSE seq) /\ seq' = mine' + 1
            /\ acquired' = TRUE /\ owner' = owner
        BY <2>1
      <3>2. mine' \in Nat /\ seq' \in Nat
        BY <3>1, SMTT(30)
      <3>. QED BY <3>1, <3>2
    <2>2. CASE by = "aml"
      BY <2>2, SMTT(30)
    <2>. QED BY <2>1, <2>2
  <1>19. CASE uacpi_release_global_lock
    <2>1. mine # seq
      BY <1>19, SMTT(30) DEF uacpi_release_global_lock
    <2>. QED BY <1>19, <2>1 DEF uacpi_release_global_lock
  <1>20. CASE uacpi_release_aml_mutex
    BY <1>20 DEF uacpi_release_aml_mutex
  <1>21. CASE do_release
    <2>. USE <1>21 DEF do_release
    <2>1. CASE word # seen
      BY <2>1
    <2>2. CASE word = seen
      <3>1. os' = FALSE /\ word' = Free /\ pc' = "released" /\ (GL \in Sticky => ~fw)
        BY <2>2
      <3>2. fw' = FALSE
        BY <3>1
      <3>. QED BY <2>2, <3>1, <3>2
    <2>. QED BY <2>1, <2>2
  <1>22. CASE released
    BY <1>22 DEF released
  <1>23. CASE \E e \in All : Fires(e)
    BY <1>23, SMTT(30) DEF Fires
  <1>24. CASE FirmwareTries
    BY <1>24 DEF FirmwareTries
  <1>25. CASE FirmwareReleases
    BY <1>25 DEF FirmwareReleases
  <1>. QED BY <1>1, <1>2, <1>3, <1>4, <1>5, <1>6, <1>7, <1>8, <1>9, <1>10, <1>11, <1>12, <1>13, <1>14, <1>15, <1>16, <1>17, <1>18, <1>19, <1>20, <1>21, <1>22, <1>23, <1>24, <1>25 DEF FixedNext, FixedEvents, SciStep, Lock, Outside

(* Every step keeps the invariant. *)
LEMMA FixedStepInv == Pm1Inv /\ [FixedNext]_fixedVars => Pm1Inv'
  <1>1. ASSUME Pm1Inv, UNCHANGED fixedVars PROVE Pm1Inv'
    BY <1>1 DEF fixedVars, locks, thread, Pm1Inv, Types, HandlerKept, OwnerInv, EnableInv
  <1>. QED BY <1>1, FixedStepKeeps

(* The invariant holds in every reachable state. *)
THEOREM Pm1Invariant == FixedSpec => []Pm1Inv
  BY FixedInitInv, FixedStepInv, PTL DEF FixedSpec

(* The cmpxchg loops of mutex.c exclude the firmware, whatever it does to the word
   between their read and their write. *)
THEOREM Pm1OneOwner == FixedSpec => []OneOwner
  <1>1. Pm1Inv => OneOwner
    BY DEF Pm1Inv, OwnerInv, OneOwner
  <1>. QED BY <1>1, Pm1Invariant, PTL

(* After initialize_fixed_events an enabled fixed event has a handler or is the RTC as
   the firmware left it, although the SCI may come between the read of PM1_EN and the
   write that set_event bases on it. *)
THEOREM Pm1EnabledHasHandler == FixedSpec => []EnabledHasHandler
  <1>1. Pm1Inv => EnabledHasHandler
    BY DEF Pm1Inv, EnableInv, EnabledHasHandler
  <1>. QED BY <1>1, Pm1Invariant, PTL
=============================================================================

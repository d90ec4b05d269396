------------------------------- MODULE FieldIo -------------------------------
(***************************************************************************)
(* Reading and writing AML fields (io.c): field units of an operation       *)
(* region, plain, banked or indexed, one region access at a time, and       *)
(* fields of a buffer.                                                      *)
(*                                                                          *)
(* The code moves bits and never combines two of them, so a bit is a label: *)
(* where it came from.  One run over the shapes of a field thus stands for  *)
(* all contents.  A byte has Byte bits.                                     *)
(***************************************************************************)
EXTENDS Naturals, Sequences, FiniteSetsExt, SequencesExt

CONSTANTS Byte,        \* bits in a byte (8 in the code)
          Offsets,     \* bit offsets of a field in its region or buffer
          Lengths,     \* bit lengths
          Widths,      \* access_width_bytes
          Sizes,       \* sizes in bytes of the caller's buffer
          RegionBytes  \* bytes of the region, of every bank and of the buffer

ZERO == 0
ONE == 1
MemBit(b, i) == 1000 * (b + 1) + i     \* bit i of bank b before the operation
ArgBit(i) == 500 + i                   \* bit i of the value to write
Banks == {0, 1}

VARIABLES f,        \* the field
          op, size, \* what the caller asked for
          mem,      \* [Banks -> bits]
          sel,      \* the bank or index register
          data,     \* the caller's buffer
          at,       \* progress: [pc, byte, left, index, done]
          gl        \* depth of the global lock

vars == <<f, op, size, mem, sel, data, at, gl>>

Bits(n) == 0 .. n * Byte - 1
AlignDown(x, w) == (x \div w) * w
uacpi_round_up_bits_to_bytes(n) == (n + Byte - 1) \div Byte

(* handle_create_field: where the accesses of a field at a bit offset start *)
handle_create_field(kind, bit_offset, len, width, rule, lock) ==
    [kind |-> kind, byte_offset |-> AlignDown(bit_offset \div Byte, width),
     first |-> bit_offset % (width * Byte), len |-> len, width |-> width,
     rule |-> rule, lock |-> lock]

Rules == {"preserve", "ones", "zeroes"}
Fields ==
    {handle_create_field(k, o, l, w, r, g) :
        k \in {"normal", "bank", "index"}, o \in Offsets, l \in Lengths, w \in Widths,
        r \in Rules, g \in BOOLEAN}
BufferFields == {handle_create_field("buffer", o, l, 1, "preserve", FALSE) :
                     o \in Offsets, l \in Lengths}

Idle == [pc |-> "start", byte |-> 0, left |-> 0, index |-> 0, done |-> 0]

Init ==
    /\ op \in {"read", "write"} /\ size \in Sizes
    /\ f \in Fields \cup BufferFields
    /\ op = "read" => f.rule = "preserve"
    /\ f.lock => f.kind # "normal" /\ f.rule = "preserve"
    /\ mem = [b \in Banks |-> [i \in Bits(RegionBytes) |-> MemBit(b, i)]]
    /\ sel = 0 /\ at = Idle /\ gl = 0
    /\ data = [i \in Bits(size) |-> IF op = "write" THEN ArgBit(i) ELSE ZERO]

-----------------------------------------------------------------------------
(* bit_copy.  Round k of its loop takes the next byte of source bits, or zeros when
   they have run out, and puts them at the destination's shift over two bytes. *)

ByteAt(s, k) == [i \in 0 .. Byte - 1 |-> s[k * Byte + i]]

SourceBits(s, index, length, k) ==
    LET shift == index % Byte
        left == IF length > k * Byte THEN length - k * Byte ELSE 0
        byte == index \div Byte + k
        low == ByteAt(s, byte)
        high == IF shift > 0 /\ left > Byte - shift THEN ByteAt(s, byte + 1)
                                                    ELSE [i \in 0 .. Byte - 1 |-> ZERO]
    IN [i \in 0 .. Byte - 1 |->
          IF i >= left THEN ZERO
          ELSE IF i + shift < Byte THEN low[i + shift] ELSE high[i + shift - Byte]]

CopyRound(d, di, dl, s, si, sl, k) ==
    LET bits == SourceBits(s, si, sl, k)
        base == (di \div Byte + k) * Byte
        put == {(di % Byte) + j : j \in 0 .. Min({Byte, dl - k * Byte}) - 1}
    IN [m \in {base + p : p \in put} |-> bits[m - base - (di % Byte)]]
       @@ d                      \* a bit outside the destination would extend it

bit_copy(d, di, dl, s, si, sl) ==
    FoldLeft(LAMBDA acc, k : CopyRound(acc, di, dl, s, si, sl, k - 1), d,
             [k \in 1 .. uacpi_round_up_bits_to_bytes(dl) |-> k])

memcpy_zerout(s, from, count, have) ==
    [i \in Bits(count) |-> IF i < have * Byte THEN s[from + i] ELSE ZERO]

cut_misaligned_tail(d, len) ==
    IF len % Byte = 0 THEN d
    ELSE [i \in DOMAIN d |-> IF i >= len /\ i \div Byte = len \div Byte THEN ZERO ELSE d[i]]

-----------------------------------------------------------------------------
(* Buffer fields: the whole operation is one step *)

uacpi_read_buffer_field(buf, index, len) ==
    LET count == uacpi_round_up_bits_to_bytes(len)
        dst == [i \in Bits(count) |-> ZERO]
    IN IF index % Byte = 0
         THEN cut_misaligned_tail([i \in Bits(count) |-> buf[index + i]], len)
         ELSE bit_copy(dst, 0, count * Byte, buf, index, len)

uacpi_write_buffer_field(buf, index, len, src, n) ==
    LET count == uacpi_round_up_bits_to_bytes(len)
        new == memcpy_zerout(src, 0, count, Min({n, count}))
    IN IF index % Byte = 0
         THEN [i \in DOMAIN buf |->
                 IF i \in index .. index + len - 1 THEN new[i - index] ELSE buf[i]]
         ELSE bit_copy(buf, index, len, src, 0, n * Byte)

Start == f.byte_offset * Byte + f.first

BufferField ==
    /\ f.kind = "buffer" /\ at.pc = "start"
    /\ IF op = "read"
         THEN /\ data' = uacpi_read_buffer_field(mem[0], Start, f.len)
              /\ UNCHANGED mem
         ELSE /\ mem' = [mem EXCEPT ![0] =
                            uacpi_write_buffer_field(@, Start, f.len, data, size)]
              /\ UNCHANGED data
    /\ at' = [at EXCEPT !.pc = "ok"]
    /\ UNCHANGED <<f, op, size, sel, gl>>

-----------------------------------------------------------------------------
(* access_field_unit and dispatch_field_io: the bank or index register is written
   first.  An indexed field with a lock returns from the middle of the function and
   keeps the global lock. *)

Select(offset) == CASE f.kind = "bank" -> 1 [] f.kind = "index" -> offset [] OTHER -> sel
BankNow(s) == IF f.kind = "bank" THEN s ELSE 0

Selected ==
    /\ sel' = Select(at.byte)
    /\ gl' = IF f.lock /\ f.kind = "index" THEN gl + 1 ELSE gl

Window ==
    LET s == Select(at.byte)
    IN [i \in Bits(f.width) |->
          mem[BankNow(s)][(IF f.kind = "index" THEN s ELSE at.byte) * Byte + i]]

-----------------------------------------------------------------------------
Begin(pc) == [pc |-> pc, byte |-> f.byte_offset, left |-> f.len, index |-> f.first, done |-> 0]
FieldBytes == uacpi_round_up_bits_to_bytes(f.len)

uacpi_read_field_unit ==
    /\ op = "read" /\ f.kind # "buffer" /\ at.pc = "start"
    /\ at' = Begin(IF f.first = 0 /\ FieldBytes <= f.width THEN "fast" ELSE "read")
    /\ UNCHANGED <<f, op, size, mem, sel, data, gl>>

ReadFast ==
    /\ at.pc = "fast"
    /\ LET out == memcpy_zerout(Window, 0, size, Min({FieldBytes, size}))
       IN data' = IF size >= FieldBytes THEN cut_misaligned_tail(out, f.len) ELSE out
    /\ Selected
    /\ at' = [at EXCEPT !.pc = "ok"]
    /\ UNCHANGED <<f, op, size, mem>>

(* a round of do_read_misaligned_field_unit; data's span shrinks as it is filled *)
do_read_misaligned_field_unit ==
    /\ at.pc = "read"
    /\ LET n == Min({at.left, f.width * Byte - at.index})
           filled == Min({at.done, size * Byte})
       IN /\ data' = bit_copy(data, filled, size * Byte - filled, Window, at.index, n)
          /\ at' = [pc |-> IF at.left = n THEN "ok" ELSE "read", byte |-> at.byte + f.width,
                    left |-> at.left - n, index |-> 0, done |-> at.done + n]
    /\ Selected
    /\ UNCHANGED <<f, op, size, mem>>

-----------------------------------------------------------------------------
(* uacpi_write_field_unit: a round prepares the unit (reading it when part of it has to
   be preserved), merges the bits and writes it *)

uacpi_write_field_unit ==
    /\ op = "write" /\ f.kind # "buffer" /\ at.pc = "start"
    /\ at' = Begin("rmw")
    /\ UNCHANGED <<f, op, size, mem, sel, data, gl>>

Chunk == Min({f.width * Byte - at.index, at.left})

UnitBefore ==
    IF at.index = 0 /\ Chunk = f.width * Byte THEN [i \in Bits(f.width) |-> ZERO]
    ELSE CASE f.rule = "preserve" -> Window
           [] f.rule = "ones" -> [i \in Bits(f.width) |-> ONE]
           [] f.rule = "zeroes" -> [i \in Bits(f.width) |-> ZERO]

Preserves == (at.index # 0 \/ Chunk < f.width * Byte) /\ f.rule = "preserve"

WriteRmw ==
    /\ at.pc = "rmw"
    /\ IF Preserves THEN Selected ELSE UNCHANGED <<sel, gl>>
    /\ at' = [at EXCEPT !.pc = "put"]
    /\ UNCHANGED <<f, op, size, mem, data>>

WritePut ==
    /\ at.pc = "put"
    /\ LET used == Min({at.done, size * Byte})
           unit == bit_copy(UnitBefore, at.index, Chunk, data, used, size * Byte - used)
           s == Select(at.byte)
           base == (IF f.kind = "index" THEN s ELSE at.byte) * Byte
       IN mem' = [mem EXCEPT ![BankNow(s)] =
                    [i \in base .. base + f.width * Byte - 1 |-> unit[i - base]] @@ @]
    /\ Selected
    /\ at' = [pc |-> IF at.left = Chunk THEN "ok" ELSE "rmw", byte |-> at.byte + f.width,
              left |-> at.left - Chunk, index |-> 0, done |-> at.done + Chunk]
    /\ UNCHANGED <<f, op, size, data>>

(* An access fails in the selection, which gives the lock back, or in the handler *)
AccessFails ==
    /\ at.pc \in {"fast", "read", "put"} \/ (at.pc = "rmw" /\ Preserves)
    /\ UNCHANGED <<sel, gl>> \/ Selected
    /\ at' = [at EXCEPT !.pc = "error"]
    /\ UNCHANGED <<f, op, size, mem, data>>

Next ==
    \/ BufferField \/ AccessFails
    \/ uacpi_read_field_unit \/ ReadFast \/ do_read_misaligned_field_unit
    \/ uacpi_write_field_unit \/ WriteRmw \/ WritePut
Spec == Init /\ [][Next]_vars

-----------------------------------------------------------------------------
Mine(b) == b = IF f.kind = "bank" THEN 1 ELSE 0
InField(i) == i \in Start .. Start + f.len - 1
Accessed(i) == IF f.kind = "buffer" THEN at.pc = "ok" /\ InField(i)
                                    ELSE i \in f.byte_offset * Byte .. at.byte * Byte - 1

(* Whatever the offset, the length, the access width and the size of the caller's value,
   the units written so far hold exactly the value's bits at the field's place, zeros
   where the value is shorter, around it what the update rule says, and nothing else has
   changed, in no other bank either; a completed read returns the field's bits followed by
   zeros and touches nothing past the caller's buffer. *)
FieldExact ==
    /\ \A b \in Banks : DOMAIN mem[b] = Bits(RegionBytes)
    /\ \A b \in Banks : \A i \in Bits(RegionBytes) :
         mem[b][i] =
           IF op = "read" \/ ~Mine(b) \/ ~Accessed(i) THEN MemBit(b, i)
           ELSE IF InField(i) THEN IF i - Start < size * Byte THEN ArgBit(i - Start) ELSE ZERO
           ELSE CASE f.rule = "preserve" -> MemBit(b, i) [] f.rule = "ones" -> ONE
                  [] f.rule = "zeroes" -> ZERO
    /\ op = "read" /\ at.pc = "ok" =>
         \A i \in DOMAIN data :
            data[i] = IF i < f.len THEN MemBit(IF f.kind = "bank" THEN 1 ELSE 0, Start + i)
                                   ELSE ZERO
    /\ DOMAIN data = Bits(IF f.kind = "buffer" /\ op = "read" /\ at.pc = "ok"
                             THEN FieldBytes ELSE size)
=============================================================================

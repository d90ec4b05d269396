------------------------------ MODULE Registers ------------------------------
(***************************************************************************)
(* ACPI fixed hardware registers: the FADT's blocks turned into generic     *)
(* addresses (tables.c), the register and field tables (registers.c), the   *)
(* generic address accesses (io.c) and the kernel's raw accesses            *)
(* (uacpi-hooks.c).                                                         *)
(*                                                                          *)
(* A bit is the set of labels or-ed into it: masks and shifts move bits and *)
(* the only combination is the or of the a and b halves.                    *)
(***************************************************************************)
EXTENDS Naturals, FiniteSets, FiniteSetsExt, SequencesExt

CONSTANTS Fadts,     \* firmware tables: legacy and extended blocks
          Shapes     \* generic addresses accessed directly (APEI style)

Word == 0 .. 63
Zeros == [i \in Word |-> {}]
Hw(space, a, i) == {<<space, a, i>>}       \* bit i of the byte at address a
Arg == [i \in Word |-> {<<"arg", i>>}]     \* the value to write
JUNK == [i \in Word |-> {"junk"}]          \* an uninitialised variable

VARIABLES fadt,      \* the firmware's table
          reg,       \* [block -> generic address], after initialisation
          op,        \* what is done with which register, field or address
          bus,       \* the bytes written: [<<space, address>> -> bits]
          out,       \* the value read
          pc

vars == <<fadt, reg, op, bus, out, pc>>

Or(u, v) == [i \in Word |-> u[i] \cup v[i]]
And(u, mask) == [i \in Word |-> IF i \in mask THEN u[i] ELSE {}]
AlignUp(x, a) == IF a = 0 THEN 0 ELSE ((x + a - 1) \div a) * a

-----------------------------------------------------------------------------
(* tables.c: legacy blocks fill the extended ones that are empty *)

Gas(space, address, width) ==
    [space |-> space, address |-> address, width |-> width, offset |-> 0, access |-> 0]
gas_init_system_io(address, bytes) == Gas("io", address, Min({255, bytes * 8}))
NoBlock == Gas("io", 0, 0)

Converted == {"pm1a_evt", "pm1b_evt", "pm1a_cnt", "pm1b_cnt", "pm2_cnt", "pm_tmr"}
LengthOf == [b \in Converted |->
               CASE b \in {"pm1a_evt", "pm1b_evt"} -> "evt"
                 [] b \in {"pm1a_cnt", "pm1b_cnt"} -> "cnt" [] OTHER -> b]

convert_registers_to_gas(t) ==
    [b \in Converted |-> IF t.x[b].address # 0 THEN t.x[b]
                         ELSE gas_init_system_io(t.legacy[b], t.len[LengthOf[b]])]

split_one_block(g, half) ==
    IF g.address = 0 THEN NoBlock
    ELSE LET n == g.width \div 16 IN gas_init_system_io(g.address + half * n, n)

initialize_fadt ==
    /\ pc = "boot" /\ pc' = "ready"
    /\ LET c == convert_registers_to_gas(fadt)
       IN reg' = [b \in Converted \cup {"pm1a_sts", "pm1b_sts", "pm1a_en", "pm1b_en",
                                        "slp_cnt", "slp_sts"} |->
                    CASE b \in Converted -> c[b]
                      [] b = "pm1a_sts" -> split_one_block(c["pm1a_evt"], 0)
                      [] b = "pm1a_en" -> split_one_block(c["pm1a_evt"], 1)
                      [] b = "pm1b_sts" -> split_one_block(c["pm1b_evt"], 0)
                      [] b = "pm1b_en" -> split_one_block(c["pm1b_evt"], 1)
                      [] OTHER -> fadt.x[b]]
    /\ UNCHANGED <<fadt, op, bus, out>>

-----------------------------------------------------------------------------
(* uacpi-hooks.c: the kernel's accesses.  A width the switch lacks does nothing and is
   reported as a success; a memory write stores eight bytes before it looks at the width *)

RawRead(space, a, n) ==
    IF n \in {1, 2, 4} \/ (n = 8 /\ space = "mem")
      THEN [i \in Word |-> IF i < n * 8 THEN Hw(space, a + i \div 8, i % 8) ELSE {}]
      ELSE JUNK

RawBytes(space, n) == CASE space = "mem" -> 8 [] n \in {1, 2, 4} -> n [] OTHER -> 0
RawWrite(b, space, a, n, v) ==
    [p \in DOMAIN b \cup {<<space, a + k>> : k \in 0 .. RawBytes(space, n) - 1} |->
       IF p[1] = space /\ p[2] \in a .. a + RawBytes(space, n) - 1
         THEN [i \in 0 .. 7 |-> v[(p[2] - a) * 8 + i]]
         ELSE b[p]]

-----------------------------------------------------------------------------
(* io.c: generic addresses *)

uacpi_bit_scan_backward(x) == IF x = 0 THEN 0 ELSE Max({k \in 1 .. 16 : 2 ^ (k - 1) <= x})
IsPowerOfTwo(x) == x \in {0} \cup {2 ^ k : k \in 0 .. 7}

gas_get_access_bit_width(g) ==
    LET natural == 2 ^ uacpi_bit_scan_backward(g.offset + g.width - 1) % 256
        backed == Max({w \in {8, 16, 32, 64, 128} : w <= natural /\ g.address % (w \div 8) = 0})
        w == IF g.offset = 0 /\ IsPowerOfTwo(g.width) /\ g.width % 8 = 0 THEN g.width
             ELSE IF g.access # 0 THEN g.access * 8
             ELSE IF natural <= 8 THEN 8 ELSE backed
    IN Min({w, IF g.space = "io" THEN 32 ELSE 64})

gas_validate(g) ==
    IF g.address = 0 THEN "not found"
    ELSE IF g.space \notin {"io", "mem"} \/ g.access > 4 THEN "unimplemented"
    ELSE IF AlignUp(g.offset + g.width, gas_get_access_bit_width(g)) > 64
      THEN "unimplemented" ELSE "ok"

(* The units of a register; those below the bit offset are passed over *)
Units(g) ==
    LET w == gas_get_access_bit_width(g)
    IN IF w = 0 THEN {}
       ELSE {k \in 0 .. (AlignUp(g.offset + g.width, w) \div w) - 1 : (k + 1) * w > g.offset}

uacpi_gas_read(g) ==
    LET w == gas_get_access_bit_width(g)
        unit(k) == RawRead(g.space, g.address + k * (w \div 8), w \div 8)
    IN [i \in Word |-> IF w # 0 /\ i \div w \in Units(g) THEN unit(i \div w)[i % w] ELSE {}]

uacpi_gas_write(b, g, v) ==
    LET w == gas_get_access_bit_width(g)
        put(acc, k) == RawWrite(acc, g.space, g.address + k * (w \div 8), w \div 8,
                                [i \in Word |-> IF i < w /\ i + k * w \in Word
                                                  THEN v[i + k * w] ELSE {}])
    IN FoldLeft(put, b, SetToSortSeq(Units(g), <))

-----------------------------------------------------------------------------
(* registers.c: the tables *)

Spec0(kind, a, b, wo, keep) ==
    [kind |-> kind, a |-> a, b |-> b, write_only |-> wo, preserve |-> keep]
registers ==
    [r \in {"PM1_STS", "PM1_EN", "PM1_CNT", "PM_TMR", "PM2_CNT", "SLP_CNT", "SLP_STS"} |->
       CASE r = "PM1_STS" -> Spec0("clear", "pm1a_sts", "pm1b_sts", {}, {11})
         [] r = "PM1_EN" -> Spec0("preserve", "pm1a_en", "pm1b_en", {}, {})
         [] r = "PM1_CNT" -> Spec0("preserve", "pm1a_cnt", "pm1b_cnt", {13, 2},
                                   (3 .. 8) \cup {9, 14, 15})
         [] r = "PM_TMR" -> Spec0("preserve", "pm_tmr", "none", {}, {})
         [] r = "PM2_CNT" -> Spec0("preserve", "pm2_cnt", "none", {}, Word \ {0})
         [] r = "SLP_CNT" -> Spec0("preserve", "slp_cnt", "none", {5}, {0, 1, 6, 7})
         [] r = "SLP_STS" -> Spec0("clear", "slp_sts", "none", {}, Word \ {7})]

Field(r, first, last) == [reg |-> r, mask |-> first .. last]
fields ==
    {Field("PM1_STS", i, i) : i \in {0, 4, 5, 8, 9, 10, 14, 15}} \cup
    {Field("PM1_EN", i, i) : i \in {0, 5, 8, 9, 10, 14}} \cup
    {Field("PM1_CNT", i, i) : i \in {0, 1, 2, 13}} \cup {Field("PM1_CNT", 10, 12)} \cup
    {Field("SLP_STS", 7, 7), Field("SLP_CNT", 2, 4), Field("SLP_CNT", 5, 5),
     Field("PM2_CNT", 0, 0)}
Offset(f) == Min(f.mask)

read_one(block, before) == IF reg[block].address = 0 THEN before ELSE uacpi_gas_read(reg[block])
write_one(b, block, v) ==
    IF reg[block].address = 0 THEN b ELSE uacpi_gas_write(b, reg[block], v)

do_read_register(r) ==
    LET s == registers[r]
        v0 == read_one(s.a, JUNK)
        v1 == IF s.b = "none" THEN Zeros ELSE read_one(s.b, Zeros)
    IN And(Or(v0, v1), Word \ s.write_only)

do_write_register(b, r, v) ==
    LET s == registers[r]
        kept == IF s.kind = "preserve" /\ s.preserve # {}
                  THEN And(do_read_register(r), s.preserve) ELSE Zeros
        value == Or(And(v, Word \ s.preserve), kept)
        first == write_one(b, s.a, value)
    IN IF s.b = "none" THEN first ELSE write_one(first, s.b, value)

ShiftUp(v, n) == [i \in Word |-> IF i >= n THEN v[i - n] ELSE {}]
ShiftDown(v, n) == [i \in Word |-> IF i + n \in Word THEN v[i + n] ELSE {}]

uacpi_read_register_field(f) == ShiftDown(And(do_read_register(f.reg), f.mask), Offset(f))

(* The comparison with the access kind is made on the register's kind, which is a generic
   address for every register that has fields: all fields take the read-modify-write. *)
uacpi_write_register_field(f, v) ==
    do_write_register(bus, f.reg,
        Or(And(do_read_register(f.reg), Word \ f.mask), And(ShiftUp(v, Offset(f)), f.mask)))

-----------------------------------------------------------------------------
Op(k, x) == [kind |-> k, on |-> x]
Ops == {Op(k, f) : k \in {"read field", "write field"}, f \in fields} \cup
       {Op("read", r) : r \in DOMAIN registers} \cup
       {Op(k, g) : k \in {"gas read", "gas write"}, g \in Shapes}

Init ==
    /\ fadt \in Fadts /\ reg = <<>>
    /\ op \in Ops /\ (op.kind \in {"gas read", "gas write"} => fadt = CHOOSE t \in Fadts : TRUE)
    /\ bus = <<>> /\ out = Zeros /\ pc = "boot"

Ready == pc = "ready" /\ UNCHANGED <<fadt, reg, op>>
Access ==
    /\ Ready
    /\ \/ op.kind = "read" /\ out' = do_read_register(op.on) /\ UNCHANGED bus
       \/ op.kind = "read field" /\ out' = uacpi_read_register_field(op.on) /\ UNCHANGED bus
       \/ op.kind = "write field" /\ bus' = uacpi_write_register_field(op.on, Arg)
                                  /\ UNCHANGED out
       \/ op.kind = "gas read" /\ gas_validate(op.on) = "ok"
                               /\ out' = uacpi_gas_read(op.on) /\ UNCHANGED bus
       \/ op.kind = "gas write" /\ gas_validate(op.on) = "ok"
                                /\ bus' = uacpi_gas_write(bus, op.on, Arg) /\ UNCHANGED out
    /\ pc' = "done"

Rejected ==
    /\ Ready /\ op.kind \in {"gas read", "gas write"} /\ gas_validate(op.on) # "ok"
    /\ pc' = "error" /\ UNCHANGED <<bus, out>>

Next == initialize_fadt \/ Access \/ Rejected
Spec == Init /\ [][Next]_vars

-----------------------------------------------------------------------------
(* Where the firmware put a register, from its table alone *)
Base(b) == IF fadt.x[b].address # 0 THEN fadt.x[b].address ELSE fadt.legacy[b]
Length(b) == IF fadt.x[b].address # 0 THEN fadt.x[b].width \div 8 ELSE fadt.len[LengthOf[b]]
SpaceOf(b) == IF fadt.x[b].address # 0 THEN fadt.x[b].space ELSE "io"
Place(space, at, bytes) == {[space |-> space, at |-> at, bytes |-> bytes]}
\* split_one_block puts the halves of an event block into port space wherever the block is
Half(b, h) == IF Base(b) = 0 THEN {}
              ELSE Place("io", Base(b) + h * (Length(b) \div 2), Length(b) \div 2)
Whole(b) == IF Base(b) = 0 THEN {} ELSE Place(SpaceOf(b), Base(b), Length(b))
Extended(b) == IF fadt.x[b].address = 0 THEN {}
               ELSE Place(fadt.x[b].space, fadt.x[b].address, fadt.x[b].width \div 8)
Places(r) ==
    CASE r = "PM1_STS" -> Half("pm1a_evt", 0) \cup Half("pm1b_evt", 0)
      [] r = "PM1_EN" -> Half("pm1a_evt", 1) \cup Half("pm1b_evt", 1)
      [] r = "PM1_CNT" -> Whole("pm1a_cnt") \cup Whole("pm1b_cnt")
      [] r = "PM2_CNT" -> Whole("pm2_cnt") [] r = "PM_TMR" -> Whole("pm_tmr")
      [] r = "SLP_CNT" -> Extended("slp_cnt") [] r = "SLP_STS" -> Extended("slp_sts")

Merged(r, i) == UNION {IF i < p.bytes * 8 THEN Hw(p.space, p.at + i \div 8, i % 8) ELSE {} :
                         p \in Places(r)}
Read(r, i) == IF i \in registers[r].write_only THEN {} ELSE Merged(r, i)

\* uacpi_kernel_raw_memory_write stores eight bytes for a register of any width
Stored(p) == IF p.space = "mem" /\ p.bytes > 0 THEN 8 ELSE p.bytes

(* What reaches the hardware: a field write puts the value at the field's bits of every half
   of the register and leaves the other bits as they were read (write-only bits zero).  In
   ports it touches nothing else; in memory it also writes zeros to the bytes that follow
   the register, up to eight from its address, whatever register they belong to.  Reading a
   field returns its bits or-ed over the halves.  An event block is accessed in ports even
   when the table puts it in memory.  Registers that are cleared by writing are left to
   Pm1. *)
RegisterExact ==
    pc = "done" /\ op.kind \in {"read", "read field", "write field"} =>
      LET r == IF op.kind = "read" THEN op.on ELSE op.on.reg
      IN Places(r) # {} =>
           /\ op.kind = "read" => \A i \in Word : out[i] = Read(r, i)
           /\ op.kind = "read field" =>
                \A i \in Word : out[i] = IF i + Offset(op.on) \in op.on.mask
                                           THEN Read(r, i + Offset(op.on)) ELSE {}
           /\ op.kind = "write field" =>
                /\ DOMAIN bus = UNION {{<<p.space, a>> : a \in p.at .. p.at + Stored(p) - 1} :
                                         p \in Places(r)}
                /\ registers[r].kind = "preserve" =>
                     \A p \in Places(r) : \A i \in 0 .. Stored(p) * 8 - 1 :
                        bus[<<p.space, p.at + i \div 8>>][i % 8] =
                          IF i >= p.bytes * 8 THEN {}
                          ELSE IF i \in op.on.mask THEN Arg[i - Offset(op.on)] ELSE Read(r, i)

(* A generic address is accessed in whole units of a width the kernel supports, all of
   them inside the register rounded up to the unit, and bit i of the value is bit i counted
   from the address.  In ports a write touches nothing else; in memory it also writes zeros
   to the bytes after the last unit, up to eight from the unit's address.  Access size 3
   makes units of 24 bits, which is not a width of the kernel's accesses (a port is not
   accessed at all, and the status is OK): the property leaves it out. *)
GasExact ==
    pc = "done" /\ op.kind \in {"gas read", "gas write"} =>
      LET g == op.on
          w == gas_get_access_bit_width(g)
          bits == {i \in Word : i < AlignUp(g.offset + g.width, w) /\ i >= (g.offset \div w) * w}
          after == IF g.space = "io" THEN {}
                   ELSE Max(bits) + 1 .. Max(bits) + 64 - w
      IN w \in {8, 16, 32, 64} =>
           /\ op.kind = "gas read" =>
                \A i \in Word : out[i] = IF i \in bits THEN Hw(g.space, g.address + i \div 8, i % 8)
                                                       ELSE {}
           /\ op.kind = "gas write" =>
                /\ DOMAIN bus = {<<g.space, g.address + i \div 8>> : i \in bits \cup after}
                /\ \A i \in bits : bus[<<g.space, g.address + i \div 8>>][i % 8] = Arg[i]
                /\ \A i \in after : bus[<<g.space, g.address + i \div 8>>][i % 8] = {}

=============================================================================

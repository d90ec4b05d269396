------------------------------- MODULE AmlData -------------------------------
(***************************************************************************)
(* The AML operators on integers, strings and buffers: what the handlers   *)
(* of interpreter.c and the helpers of utilities.c and stdlib.c compute,   *)
(* as operators on values, each with a reference definition of what the    *)
(* operator is for.  A step applies one operator to operands taken from    *)
(* small sets; integers have IntBits bits (64 in the code) of which a      *)
(* revision 1 table uses Rev1Bits (32).  Characters are their ASCII codes. *)
(***************************************************************************)
EXTENDS Integers, Sequences, FiniteSets, FiniteSetsExt, SequencesExt, Bitwise

CONSTANTS IntBits, Rev1Bits, ByteBits, DigitBits,
          Ints,      \* integers operators are applied to
          Buffers,   \* contents of buffers
          Texts,     \* contents of buffers that are turned into text
          Sizes,     \* package lengths
          Strings    \* contents of strings, without the terminator

VARIABLES call, result

vars == <<call, result>>

Word == 2 ^ IntBits
Byte == 2 ^ ByteBits
IntBytes(rev1) == (IF rev1 THEN Rev1Bits ELSE IntBits) \div ByteBits
ones(rev1) == 2 ^ (IF rev1 THEN Rev1Bits ELSE IntBits) - 1

truncate_number_if_needed(n, rev1) == IF rev1 THEN n % (2 ^ Rev1Bits) ELSE n

Integer(n) == [type |-> "integer", int |-> n, bytes |-> <<>>]
Buf(b) == [type |-> "buffer", int |-> 0, bytes |-> b]
Str(s) == [type |-> "string", int |-> 0, bytes |-> Append(s, 0)]
Error == [type |-> "error", int |-> 0, bytes |-> <<>>]

\* an integer in memory, least significant byte first
BytesOf(n, k) == [i \in 1 .. k |-> (n \div Byte ^ (i - 1)) % Byte]
FromBytes(b) == MapThenSumSet(LAMBDA i : b[i] * Byte ^ (i - 1), DOMAIN b)

\* dst of size n: what src has of it, then zeroes
uacpi_memcpy_zerout(src, n) == [i \in 1 .. n |-> IF i <= Len(src) THEN src[i] ELSE 0]

-----------------------------------------------------------------------------
(* Arithmetic                                                              *)

Complement(n) == Word - 1 - n

do_binary_math(op, lhs, rhs, rev1) ==
    LET limit == IF rev1 THEN Rev1Bits - 1 ELSE IntBits - 1 IN
    CASE op = "AddOp" -> (lhs + rhs) % Word
      [] op = "SubtractOp" -> (lhs - rhs) % Word
      [] op = "MultiplyOp" -> (lhs * rhs) % Word
      [] op = "ShiftLeftOp" -> IF rhs <= limit THEN (lhs * 2 ^ rhs) % Word ELSE 0
      [] op = "ShiftRightOp" -> IF rhs <= limit THEN lhs \div 2 ^ rhs ELSE 0
      [] op = "AndOp" -> rhs & lhs
      [] op = "NandOp" -> Complement(rhs & lhs)
      [] op = "OrOp" -> rhs | lhs
      [] op = "NorOp" -> Complement(rhs | lhs)
      [] op = "XorOp" -> rhs ^^ lhs
      [] op = "DivideOp" -> lhs % rhs
      [] op = "ModOp" -> lhs % rhs

\* Divide has a second target, the quotient
handle_binary_math(op, lhs, rhs, rev1) ==
    IF op \in {"DivideOp", "ModOp"} /\ rhs = 0 THEN Error
    ELSE IF op = "DivideOp"
         THEN [Integer(do_binary_math(op, lhs, rhs, rev1)) EXCEPT !.bytes = <<lhs \div rhs>>]
         ELSE Integer(truncate_number_if_needed(do_binary_math(op, lhs, rhs, rev1), rev1))

BitsOf(n) == {i \in 0 .. IntBits - 1 : (n \div 2 ^ i) % 2 = 1}
uacpi_bit_scan_forward(n) == IF n = 0 THEN 0 ELSE 1 + Min(BitsOf(n))
uacpi_bit_scan_backward(n) == IF n = 0 THEN 0 ELSE 1 + Max(BitsOf(n))

handle_unary_math(op, n, rev1) ==
    Integer(CASE op = "NotOp" -> truncate_number_if_needed(Complement(n), rev1)
          [] op = "FindSetRightBitOp" -> uacpi_bit_scan_forward(n)
          [] op = "FindSetLeftBitOp" -> uacpi_bit_scan_backward(n))

\* FromBCD reads the digits from the top
RECURSIVE FromBCDLoop(_, _, _)
FromBCDLoop(src, dst, i) ==
    IF i = 0 THEN dst
    ELSE FromBCDLoop(src, ((dst * 10) + ((src \div 2 ^ (i - DigitBits)) % (2 ^ DigitBits))) % Word,
                     i - DigitBits)

\* ToBCD pushes every digit in at the top and moves the result down
RECURSIVE ToBCDLoop(_, _, _)
ToBCDLoop(src, dst, i) ==
    IF src = 0 THEN dst \div 2 ^ (i % IntBits)
    ELSE ToBCDLoop(src \div 10,
                   ((dst \div 2 ^ DigitBits) + ((src % 10) * 2 ^ (IntBits - DigitBits))) % Word,
                   (i - DigitBits) % Word)

handle_bcd(op, n) ==
    Integer(IF op = "FromBCDOp" THEN FromBCDLoop(n, 0, IntBits) ELSE ToBCDLoop(n, 0, IntBits))

\* Sleep and Stall: how long the processor is really held
handle_stall_or_sleep(op, time) ==
    Integer(IF op = "SleepOp" THEN IF time > 2000 THEN 2000 ELSE time ELSE time % 256)

-----------------------------------------------------------------------------
(* Strings and integers                                                    *)

NUL == 0
Spaces == 9 .. 13 \cup {32}
Digit == 48 .. 57
Upper == 65 .. 90
Lower == 97 .. 122
HexDigit == Digit \cup 65 .. 70 \cup 97 .. 102

\* the classes of a character the parser asks for
ascii_map(c) ==
    {t \in {"space", "digit", "upper", "lower", "hex"} :
        CASE t = "space" -> c \in Spaces
          [] t = "digit" -> c \in Digit
          [] t = "upper" -> c \in Upper
          [] t = "lower" -> c \in Lower
          [] t = "hex" -> c \in HexDigit}

is_valid_name_byte(c) == c = 95 \/ ascii_map(c) \cap {"digit", "upper"} # {}
to_lower(c) == IF "upper" \in ascii_map(c) THEN c + 32 ELSE c

consume_if_equals(s, c) == Len(s) > 0 /\ to_lower(s[1]) = c

RECURSIVE SkipSpaces(_)
SkipSpaces(s) ==
    IF Len(s) > 0 /\ "space" \in ascii_map(s[1]) THEN SkipSpaces(Tail(s)) ELSE s

\* the digit a character stands for, -1 if it ends the number
DigitOf(c, base) ==
    CASE "digit" \in ascii_map(c) -> IF base = 8 /\ c - 48 > 7 THEN -1 ELSE c - 48
      [] {"hex"} \subseteq ascii_map(c) /\ "digit" \notin ascii_map(c) ->
             IF base # 16 THEN -1 ELSE 10 + (to_lower(c) - 97)
      [] OTHER -> -1

\* the loop over the digits; a number that does not fit becomes all ones
RECURSIVE DigitLoop(_, _, _)
DigitLoop(s, base, value) ==
    IF s = <<>> \/ DigitOf(s[1], base) = -1 THEN value
    ELSE LET next == (value * base + DigitOf(s[1], base)) % Word
         IN  IF next \div base # value THEN Word - 1
             ELSE DigitLoop(Tail(s), base, next)

\* The digits after the prefixes s has lost, in the base they announce; base 0
\* asks for the base the prefix says
AfterHex(s, hex) == IF hex THEN DigitLoop(Tail(s), 16, 0) ELSE DigitLoop(s, 8, 0)

AfterSign(s, base) ==
    IF base = 0 /\ consume_if_equals(s, 48)
    THEN AfterHex(Tail(s), consume_if_equals(Tail(s), 120))
    ELSE DigitLoop(s, IF base # 0 THEN base ELSE 10, 0)

AfterSpaces(s, base) ==
    IF consume_if_equals(s, 45) THEN (0 - AfterSign(Tail(s), base)) % Word
    ELSE AfterSign(IF consume_if_equals(s, 43) THEN Tail(s) ELSE s, base)

uacpi_string_to_integer(str, base) == AfterSpaces(SkipSpaces(str), base)

object_to_integer(obj, max_buffer_bytes) ==
    CASE obj.type = "integer" -> obj.int
      [] obj.type = "buffer" ->
             FromBytes(uacpi_memcpy_zerout(
                 SubSeq(obj.bytes, 1, Min({max_buffer_bytes, Len(obj.bytes)})), IntBits \div ByteBits))
      [] obj.type = "string" -> uacpi_string_to_integer(obj.bytes, 0)

HexChar(d, upper) == IF d < 10 THEN 48 + d ELSE (IF upper THEN 65 ELSE 97) + d - 10

RECURSIVE DigitsOf(_, _, _)
DigitsOf(n, base, upper) ==
    (IF n < base THEN <<>> ELSE DigitsOf(n \div base, base, upper))
        \o <<HexChar(n % base, upper)>>

integer_to_string(n, hex) ==
    Str(IF hex THEN <<48, 120>> \o DigitsOf(n, 16, TRUE) ELSE DigitsOf(n, 10, TRUE))

\* One byte as text, and the room the code sets aside for it
ByteText(v, hex) ==
    IF hex THEN <<48, 120, HexChar(v \div 16, TRUE), HexChar(v % 16, TRUE)>>
    ELSE DigitsOf(v, 10, TRUE)
ByteRoom(v, hex) == IF hex THEN 4 ELSE IF v < 10 THEN 1 ELSE IF v < 100 THEN 2 ELSE 3

-----------------------------------------------------------------------------
(* Buffers                                                                 *)

\* the bytes of an object as the operators see them; a string counts without
\* its terminator unless it is asked for
get_object_storage(obj, rev1, include_null) ==
    CASE obj.type = "integer" -> BytesOf(obj.int, IntBytes(rev1))
      [] obj.type = "string" ->
             IF obj.bytes # <<>> /\ ~include_null THEN Front(obj.bytes) ELSE obj.bytes
      [] obj.type = "buffer" -> obj.bytes

RECURSIVE ListText(_, _)
ListText(b, hex) ==
    ByteText(Head(b), hex)
        \o (IF Tail(b) = <<>> THEN <<>> ELSE <<44>> \o ListText(Tail(b), hex))

\* the size is computed before anything is written: the text, cut or filled
\* up to it (the terminator of the last number is the string's)
buffer_to_stringVariant(b, hex) ==
    LET size == MapThenSumSet(LAMBDA i : ByteRoom(b[i], hex), DOMAIN b) + Len(b)
    IN  [type |-> "string", int |-> 0,
         bytes |-> uacpi_memcpy_zerout(Append(ListText(b, hex), NUL), size - 1)]

buffer_to_string(b, hex) ==
    LET size == MapThenSumSet(LAMBDA i : ByteRoom(b[i], hex), DOMAIN b) + (Len(b) - 1) + 1
    IN  [type |-> "string", int |-> 0,
         bytes |-> IF b = <<>> THEN <<>>
                   ELSE uacpi_memcpy_zerout(Append(ListText(b, hex), NUL), size)]

handle_to(op, obj, rev1) ==
    CASE op = "ToIntegerOp" -> Integer(object_to_integer(obj, IntBits \div ByteBits))
      [] op \in {"ToHexStringOp", "ToDecimalStringOp"} /\ obj.type = "integer" ->
             integer_to_string(obj.int, op = "ToHexStringOp")
      [] op \in {"ToHexStringOp", "ToDecimalStringOp"} /\ obj.type = "buffer" ->
             IF obj.bytes = <<>> THEN Str(<<>>)
             ELSE buffer_to_string(obj.bytes, op = "ToHexStringOp")
      [] op \in {"ToHexStringOp", "ToDecimalStringOp"} /\ obj.type = "string" -> obj
      [] op = "ToBufferOp" -> Buf(get_object_storage(obj, rev1, TRUE))

uacpi_strnlen(b, max) ==
    Min({max} \cup {i \in 0 .. max : i < Len(b) /\ b[i + 1] = NUL})

handle_to_string(b, req_len) ==
    LET len == Min({req_len, Len(b)}) IN
    IF len = 0 THEN Str(<<>>) ELSE Str(SubSeq(b, 1, uacpi_strnlen(b, len)))

handle_mid(obj, idx, len) ==
    LET src == get_object_storage(obj, FALSE, FALSE)
        part == IF Len(src) = 0 \/ idx >= Len(src) \/ len = 0 THEN <<>>
                ELSE SubSeq(src, idx + 1, idx + Min({len, Len(src) - idx}))
    IN  IF obj.type = "string" THEN Str(part) ELSE Buf(part)

handle_concatenate(a, b, rev1) ==
    CASE a.type = "integer" ->
             Buf(BytesOf(a.int, IntBytes(rev1))
                 \o BytesOf(object_to_integer(b, IntBits \div ByteBits), IntBytes(rev1)))
      [] a.type = "buffer" -> Buf(a.bytes \o get_object_storage(b, rev1, TRUE))
      [] a.type = "string" ->
             LET tail == CASE b.type = "integer" -> Append(DigitsOf(b.int, 16, FALSE), NUL)
                           [] b.type = "string" -> b.bytes
                           [] b.type = "buffer" -> buffer_to_string(b.bytes, TRUE).bytes
             IN  [type |-> "string", int |-> 0,
                  bytes |-> get_object_storage(a, rev1, FALSE) \o tail]

handle_sizeof(obj) == Integer(Len(get_object_storage(obj, FALSE, FALSE)))

-----------------------------------------------------------------------------
(* Comparisons and searches                                                *)

\* the sign of the first difference
RECURSIVE uacpi_memcmp(_, _, _)
uacpi_memcmp(a, b, n) ==
    IF n = 0 THEN 0
    ELSE IF a[1] # b[1] THEN a[1] - b[1] ELSE uacpi_memcmp(Tail(a), Tail(b), n - 1)

handle_logical_equality(a, b) ==
    IF a.type = "integer" THEN a.int = b.int
    ELSE Len(a.bytes) = Len(b.bytes) /\ uacpi_memcmp(a.bytes, b.bytes, Len(a.bytes)) = 0

handle_logical_less_or_greater(op, a, b) ==
    LET first == uacpi_memcmp(a.bytes, b.bytes, Min({Len(a.bytes), Len(b.bytes)}))
        res == IF a.type = "integer" THEN a.int - b.int
               ELSE IF first # 0 THEN first ELSE Len(a.bytes) - Len(b.bytes)
    IN  IF op = "LLessOp" THEN res < 0 ELSE res > 0

\* a comparison wants two objects of a type; And and Or look at four bytes
handle_binary_logic(op, a, b, rev1) ==
    LET half == (IntBits \div ByteBits) \div 2
        truth == CASE op = "LEqualOp" -> handle_logical_equality(a, b)
                   [] op \in {"LLessOp", "LGreaterOp"} -> handle_logical_less_or_greater(op, a, b)
                   [] op = "LandOp" -> object_to_integer(a, half) # 0 /\ object_to_integer(b, half) # 0
                   [] op = "LorOp" -> object_to_integer(a, half) # 0 \/ object_to_integer(b, half) # 0
    IN  IF op \in {"LEqualOp", "LLessOp", "LGreaterOp"} /\ a.type # b.type THEN Error
        ELSE Integer(IF truth THEN ones(rev1) ELSE 0)

match_one(op, lhs, rhs) ==
    CASE op = "MTR" -> TRUE
      [] op = "MEQ" -> lhs = rhs
      [] op = "MLE" -> lhs <= rhs
      [] op = "MLT" -> lhs < rhs
      [] op = "MGE" -> lhs >= rhs
      [] op = "MGT" -> lhs > rhs

\* pkg: the elements of a package, -1 where one is not an integer
RECURSIVE MatchLoop(_, _, _, _, _, _)
MatchLoop(pkg, op0, v0, op1, v1, i) ==
    IF \/ i >= Len(pkg)
       \/ /\ pkg[i + 1] # -1
          /\ match_one(op0, pkg[i + 1], v0) /\ match_one(op1, pkg[i + 1], v1)
    THEN i ELSE MatchLoop(pkg, op0, v0, op1, v1, i + 1)

handle_match(pkg, op0, v0, op1, v1, start, rev1) ==
    LET i == MatchLoop(pkg, op0, v0, op1, v1, start) IN
    Integer(IF i < Len(pkg) THEN i ELSE ones(rev1))

-----------------------------------------------------------------------------
(* Encodings                                                               *)

\* the length of a package from its first bytes: the top two bits of the
\* first byte say how many bytes follow
parse_package_length(code) ==
    LET marker == 1 + code[1] \div 64
        size == IF marker = 1 THEN code[1] % 64
                ELSE (code[1] % 16)
                     + 16 * MapThenSumSet(LAMBDA i : code[i] * 256 ^ (i - 2), 2 .. marker)
    IN  IF Len(code) < 1 \/ Len(code) < marker THEN Error
        ELSE [Integer(size) EXCEPT !.bytes = <<marker>>]

\* the bits [index, index + length) of a buffer of size bytes
handle_create_buffer_field(op, idx, len, size) ==
    LET length == CASE op = "CreateFieldOp" -> len
                    [] op = "CreateBitFieldOp" -> 1
                    [] op = "CreateByteFieldOp" -> 8
                    [] op = "CreateWordFieldOp" -> 16
                    [] op = "CreateDWordFieldOp" -> 32
                    [] op = "CreateQWordFieldOp" -> 64
        index == IF op \in {"CreateFieldOp", "CreateBitFieldOp"} THEN idx ELSE (idx * 8) % Word
    IN  IF op = "CreateFieldOp" /\ len = 0 THEN Error
        ELSE IF (index + length) % Word > size * 8 THEN Error
        ELSE [Integer(index) EXCEPT !.bytes = <<length>>]

-----------------------------------------------------------------------------
(* Calls.  A call names an operator and its operands; unused ones are 0.   *)

NoCall == [op |-> "none", a |-> Integer(0), b |-> Integer(0), n |-> 0, m |-> 0, list |-> <<>>,
           cmp |-> "MTR", rev1 |-> FALSE]

MathOps == {"AddOp", "SubtractOp", "MultiplyOp", "ShiftLeftOp", "ShiftRightOp", "AndOp",
            "NandOp", "OrOp", "NorOp", "XorOp", "DivideOp", "ModOp"}
UnaryOps == {"NotOp", "FindSetRightBitOp", "FindSetLeftBitOp"}
BcdOps == {"FromBCDOp", "ToBCDOp"}
WaitOps == {"StallOp", "SleepOp"}
ToOps == {"ToIntegerOp", "ToHexStringOp", "ToDecimalStringOp", "ToBufferOp"}
LogicOps == {"LEqualOp", "LLessOp", "LGreaterOp", "LandOp", "LorOp"}
MatchOps == {"MTR", "MEQ", "MLE", "MLT", "MGE", "MGT"}
FieldOps == {"CreateFieldOp", "CreateBitFieldOp", "CreateByteFieldOp", "CreateWordFieldOp",
             "CreateDWordFieldOp", "CreateQWordFieldOp"}

Objects == {Integer(n) : n \in Ints} \cup {Buf(b) : b \in Buffers} \cup {Str(t) : t \in Strings}
\* what fits a revision 1 table; the text of a buffer may hold any byte
Fits(n, rev1) == n <= ones(rev1)
Literal(rev1) == {n \in Ints : Fits(n, rev1)}

Number(o, x, y, r) == [NoCall EXCEPT !.op = o, !.n = x, !.m = y, !.rev1 = r]
Object(o, x, y, r) == [NoCall EXCEPT !.op = o, !.a = x, !.b = y, !.rev1 = r]

Calls ==
    UNION {{Number(o, x, y, r) : o \in MathOps, x \in Literal(r), y \in Literal(r)} : r \in BOOLEAN}
    \cup UNION {{Number(o, x, 0, r) : o \in UnaryOps, x \in Literal(r)} : r \in BOOLEAN}
    \cup {Number(o, x, 0, FALSE) : o \in BcdOps, x \in Ints}
    \cup {Number(o, x, 0, FALSE) : o \in WaitOps, x \in Ints \cup Sizes}
    \cup {Object(o, x, Integer(0), FALSE) : o \in ToOps, x \in Objects}
    \cup {Object(o, Buf(x), Integer(0), FALSE) : o \in {"ToHexStringOp", "ToDecimalStringOp"},
                                            x \in Texts}
    \cup {[NoCall EXCEPT !.op = "ToStringOp", !.a = Buf(x), !.n = l] :
              x \in Buffers, l \in 0 .. 4}
    \cup {[NoCall EXCEPT !.op = "MidOp", !.a = x, !.n = i, !.m = l] :
              x \in {y \in Objects : y.type # "integer"}, i \in 0 .. 4, l \in 0 .. 4}
    \cup {Object("ConcatOp", x, y, FALSE) : x \in Objects, y \in Objects}
    \cup {Object(o, x, y, FALSE) : o \in LogicOps, x \in Objects, y \in Objects}
    \cup {[NoCall EXCEPT !.op = "MatchOp", !.list = p, !.cmp = o, !.n = v, !.m = i] :
              p \in SeqOf(0 .. 2 \cup {-1}, 3), o \in MatchOps, v \in 0 .. 2, i \in 0 .. 3}
    \cup {Number("PkgLength", x, 0, FALSE) : x \in Sizes}
    \cup {[NoCall EXCEPT !.op = o, !.n = i, !.m = l, !.list = <<z>>] :
              o \in FieldOps, i \in 0 .. 16, l \in 0 .. 16, z \in 0 .. 3}

\* how a compiler writes a package length
EncodeLength(n) ==
    IF n < 64 THEN <<n>>
    ELSE LET k == IF n < 2 ^ 12 THEN 1 ELSE IF n < 2 ^ 20 THEN 2 ELSE 3
         IN  <<(k * 64) + (n % 16)>> \o [i \in 1 .. k |-> (n \div (16 * 256 ^ (i - 1))) % 256]

Apply(c) ==
    CASE c.op \in MathOps -> handle_binary_math(c.op, c.n, c.m, c.rev1)
      [] c.op \in UnaryOps -> handle_unary_math(c.op, c.n, c.rev1)
      [] c.op \in BcdOps -> handle_bcd(c.op, c.n)
      [] c.op \in WaitOps -> handle_stall_or_sleep(c.op, c.n)
      [] c.op \in ToOps -> handle_to(c.op, c.a, c.rev1)
      [] c.op = "ToStringOp" -> handle_to_string(c.a.bytes, c.n)
      [] c.op = "MidOp" -> handle_mid(c.a, c.n, c.m)
      [] c.op = "ConcatOp" -> handle_concatenate(c.a, c.b, c.rev1)
      [] c.op \in LogicOps -> handle_binary_logic(c.op, c.a, c.b, c.rev1)
      [] c.op = "MatchOp" -> handle_match(c.list, c.cmp, c.n, "MTR", 0, c.m, c.rev1)
      [] c.op = "PkgLength" -> parse_package_length(EncodeLength(c.n))
      [] c.op \in FieldOps -> handle_create_buffer_field(c.op, c.n, c.m, c.list[1])

Init == call = NoCall /\ result = Integer(0)

INVOKE_HANDLER(c) == call' = c /\ result' = Apply(c)

Next == call = NoCall /\ \E c \in Calls : INVOKE_HANDLER(c)

Spec == Init /\ [][Next]_vars

-----------------------------------------------------------------------------
(* What the operators are for                                              *)

Width(rev1) == IF rev1 THEN Rev1Bits ELSE IntBits
SumOfBits(S) == MapThenSumSet(LAMBDA i : 2 ^ i, S)

MathMeans(op, x, y, rev1, r) ==
    LET M == 2 ^ Width(rev1)
        All == 0 .. Width(rev1) - 1
        bits(S) == r.int = SumOfBits(S)
    IN  CASE op = "AddOp" -> r.int = (x + y) % M
          [] op = "SubtractOp" -> (r.int + y) % M = x
          [] op = "MultiplyOp" -> r.int = (x * y) % M
          [] op = "ShiftLeftOp" -> bits({i \in All : i - y \in BitsOf(x)})
          [] op = "ShiftRightOp" -> bits({i \in All : i + y \in BitsOf(x)})
          [] op = "AndOp" -> bits(BitsOf(x) \cap BitsOf(y))
          [] op = "NandOp" -> bits(All \ (BitsOf(x) \cap BitsOf(y)))
          [] op = "OrOp" -> bits(BitsOf(x) \cup BitsOf(y))
          [] op = "NorOp" -> bits(All \ (BitsOf(x) \cup BitsOf(y)))
          [] op = "XorOp" -> bits((BitsOf(x) \cup BitsOf(y)) \ (BitsOf(x) \cap BitsOf(y)))
          [] op \in {"DivideOp", "ModOp"} ->
                 IF y = 0 THEN r = Error
                 ELSE /\ r.int < y /\ (x - r.int) % y = 0
                      /\ op = "DivideOp" => r.bytes[1] * y + r.int = x

UnaryMeans(op, x, rev1, r) ==
    CASE op = "NotOp" -> r.int + x = 2 ^ Width(rev1) - 1
      [] op = "FindSetRightBitOp" ->
             IF x = 0 THEN r.int = 0 ELSE x % (2 ^ r.int) = 2 ^ (r.int - 1)
      [] op = "FindSetLeftBitOp" ->
             IF x = 0 THEN r.int = 0 ELSE 2 ^ (r.int - 1) <= x /\ x < 2 ^ r.int

\* the decimal number the digits of n spell
Spelled(n) ==
    MapThenSumSet(LAMBDA k : ((n \div (2 ^ (DigitBits * k))) % (2 ^ DigitBits)) * 10 ^ k,
                  0 .. (IntBits \div DigitBits) - 1)

\* the number at the start of a string: spaces, a sign, a prefix, digits
NumberIn(t, base) ==
    LET digits == {i \in 0 .. Len(t) : \A j \in 1 .. i : DigitOf(t[j], base) # -1}
        k == Max(digits)
        value(i) == MapThenSumSet(LAMBDA j : DigitOf(t[j], base) * base ^ (i - j), 1 .. i)
    IN  IF value(k) < Word THEN value(k) ELSE Word - 1
StringMeans(t, r) ==
    \E i \in 0 .. Len(t), sign \in {<<>>, <<43>>, <<45>>},
       pre \in {<<>>, <<48>>, <<48, 120>>, <<48, 88>>} :
        LET head == i + Len(sign) + Len(pre)
            rest == SubSeq(t, head + 1, Len(t))
            base == IF pre = <<>> THEN 10 ELSE IF pre = <<48>> THEN 8 ELSE 16
            n == NumberIn(rest, base)
        IN  /\ \A j \in 1 .. i : t[j] \in Spaces
            /\ i < Len(t) => t[i + 1] \notin Spaces
            /\ SubSeq(t, i + 1, head) = sign \o pre
            /\ pre = <<>> /\ rest # <<>> => rest[1] # 48
            /\ sign = <<>> /\ pre = <<>> /\ rest # <<>> => rest[1] \notin {43, 45}
            /\ pre = <<48>> /\ rest # <<>> => rest[1] \notin {120, 88}
            /\ r.int = IF sign = <<45>> THEN (Word - n) % Word ELSE n

Terminated(r) == r.bytes # <<>> /\ Last(r.bytes) = NUL

ToMeans(op, x, r) ==
    CASE op = "ToIntegerOp" /\ x.type = "string" -> StringMeans(x.bytes, r)
      [] op = "ToIntegerOp" /\ x.type = "buffer" ->
             \A i \in 0 .. (IntBits \div ByteBits) - 1 :
                 (r.int \div Byte ^ i) % Byte = IF i < Len(x.bytes) THEN x.bytes[i + 1] ELSE 0
      [] op = "ToIntegerOp" /\ x.type = "integer" -> r = x
      [] op # "ToIntegerOp" /\ x.type = "integer" ->
             IF op = "ToBufferOp" THEN FromBytes(r.bytes) = x.int
             ELSE /\ Terminated(r)
                  /\ IF x.int = 0 /\ op = "ToDecimalStringOp" THEN r = Str(<<48>>)
                     ELSE StringMeans(r.bytes, x)
      [] op # "ToIntegerOp" /\ x.type = "string" -> r.bytes = x.bytes
      [] op = "ToBufferOp" /\ x.type = "buffer" -> r = x
      [] OTHER -> r = Str(FlattenSeq([i \in DOMAIN x.bytes |->
                              (IF i = 1 THEN <<>> ELSE <<44>>)
                              \o ByteText(x.bytes[i], op = "ToHexStringOp")]))

\* a comes before b in the order of dictionaries
Before(a, b) ==
    \E k \in 0 .. Min({Len(a), Len(b)}) :
        /\ SubSeq(a, 1, k) = SubSeq(b, 1, k)
        /\ k < Len(b) /\ (k = Len(a) \/ a[k + 1] < b[k + 1])

LogicMeans(op, a, b, r) ==
    LET holds == CASE op = "LEqualOp" -> a = b
                   [] op = "LLessOp" -> IF a.type = "integer" THEN a.int < b.int
                                        ELSE Before(a.bytes, b.bytes)
                   [] op = "LGreaterOp" -> IF a.type = "integer" THEN a.int > b.int
                                           ELSE Before(b.bytes, a.bytes)
    IN  op \in {"LEqualOp", "LLessOp", "LGreaterOp"} =>
          IF a.type # b.type THEN r = Error ELSE (r.int # 0) = holds

ConcatMeans(a, b, r) ==
    CASE a.type = "buffer" -> r.bytes = a.bytes \o get_object_storage(b, FALSE, TRUE)
      [] a.type = "integer" -> Len(r.bytes) = 2 * IntBytes(FALSE)
                               /\ FromBytes(SubSeq(r.bytes, 1, IntBytes(FALSE))) = a.int
      [] a.type = "string" ->
             \* a string and an empty buffer: the terminator is lost
             /\ ~(b.type = "buffer" /\ b.bytes = <<>>) =>
                   Terminated(r) /\ \A i \in 1 .. Len(r.bytes) - 1 : r.bytes[i] # NUL
             /\ SubSeq(r.bytes, 1, Len(a.bytes) - 1) = Front(a.bytes)

MatchMeans(pkg, op, v, start, r) ==
    LET hits == {i \in start .. Len(pkg) - 1 : pkg[i + 1] # -1 /\ match_one(op, pkg[i + 1], v)}
    IN  r.int = IF hits = {} THEN ones(FALSE) ELSE Min(hits)

\* Every AML operator computes what it stands for, at the edges too: integers
\* wrap at the width of the table's revision and shifts past it give 0; a
\* number in a string is the one its digits spell, or all ones if it does not
\* fit; the size set aside for a text is the size of the text; strings that
\* come out of an operator are terminated once; lengths a compiler encodes
\* are read back; and a buffer field lies inside its buffer (the handlers of
\* interpreter.c with uacpi_string_to_integer and uacpi_memcmp).
DataExact ==
    LET c == call
        r == result
    IN  CASE c.op \in MathOps -> MathMeans(c.op, c.n, c.m, c.rev1, r)
          [] c.op \in UnaryOps -> UnaryMeans(c.op, c.n, c.rev1, r)
          [] c.op = "FromBCDOp" -> r.int = Spelled(c.n) % Word
          [] c.op = "ToBCDOp" -> c.n < 10 ^ (IntBits \div DigitBits) => Spelled(r.int) = c.n
          [] c.op \in WaitOps -> r.int <= 2000 /\ r.int <= c.n
          [] c.op \in ToOps -> ToMeans(c.op, c.a, r)
          [] c.op = "ToStringOp" ->
                 /\ Terminated(r) /\ Len(r.bytes) - 1 <= c.n
                 /\ \A i \in 1 .. Len(r.bytes) - 1 : r.bytes[i] = c.a.bytes[i] /\ r.bytes[i] # NUL
                 /\ Len(r.bytes) - 1 < Min({c.n, Len(c.a.bytes)}) => c.a.bytes[Len(r.bytes)] = NUL
          [] c.op = "MidOp" ->
                 LET src == get_object_storage(c.a, FALSE, FALSE)
                     got == get_object_storage(r, FALSE, FALSE)
                 IN  /\ r.type = c.a.type /\ (r.type = "string" => Terminated(r))
                     /\ Len(got) = Cardinality({i \in DOMAIN src : i > c.n /\ i <= c.n + c.m})
                     /\ \A i \in DOMAIN got : got[i] = src[c.n + i]
          [] c.op = "ConcatOp" -> ConcatMeans(c.a, c.b, r)
          [] c.op \in LogicOps -> LogicMeans(c.op, c.a, c.b, r)
          [] c.op = "MatchOp" -> MatchMeans(c.list, c.cmp, c.n, c.m, r)
          [] c.op = "PkgLength" -> r.int = c.n /\ r.bytes[1] = Len(EncodeLength(c.n))
          [] c.op \in FieldOps ->
                 r # Error => r.int + r.bytes[1] <= c.list[1] * 8 /\ r.bytes[1] > 0
          [] OTHER -> TRUE
=============================================================================

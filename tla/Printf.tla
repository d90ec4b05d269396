------------------------------- MODULE Printf -------------------------------
(***************************************************************************)
(* uacpi_vsnprintf (stdlib.c): every text uACPI builds goes through it,    *)
(* into buffers of a fixed capacity.  One step is one turn of the loop     *)
(* over the format.  Characters are one-letter strings, the widths of the  *)
(* C integer types are parameters, and an argument is the integer (or the  *)
(* text) it was passed as.                                                 *)
(***************************************************************************)
EXTENDS Integers, Sequences, FiniteSets, FiniteSetsExt, SequencesExt

CONSTANTS CharBits, ShortBits, IntBits, LongBits,   \* widths of the C types
          PtrDigits,                                \* UACPI_POINTER_SIZE * 2
          Conversions,   \* conversions (see Format) a format is made of
          Values, Strs,  \* arguments
          Capacities

VARIABLES fmt, args, fb, ret, conv, given

vars == <<fmt, args, fb, ret, conv, given>>

NUL == "NUL"
Digits == <<"0", "1", "2", "3", "4", "5", "6", "7", "8", "9">>
IsDigit(c) == c \in Range(Digits)
ValueOfDigit(c) == (CHOOSE i \in 1 .. 10 : Digits[i] = c) - 1

Unsigned(v, bits) == v % (2 ^ bits)
Signed(v, bits) == LET u == Unsigned(v, bits)
                   IN  IF u >= 2 ^ (bits - 1) THEN u - 2 ^ bits ELSE u

-----------------------------------------------------------------------------
(* Output                                                                  *)

write_one(b, c) ==
    [b EXCEPT !.buffer = IF b.written < b.capacity THEN [@ EXCEPT ![b.written + 1] = c] ELSE @,
              !.written = @ + 1]

write_many(b, s) ==
    [b EXCEPT !.buffer = [i \in DOMAIN b.buffer |->
                             IF i > b.written /\ i <= b.written + Len(s) THEN s[i - b.written]
                             ELSE b.buffer[i]],
              !.written = @ + Len(s)]

hex_char(upper, v) ==
    IF v < 10 THEN Digits[v + 1]
    ELSE (IF upper THEN <<"A", "B", "C", "D", "E", "F">>
          ELSE <<"a", "b", "c", "d", "e", "f">>)[v - 9]

write_padding(b, fm, repr_size) ==
    write_many(b, [i \in 1 .. Max({0, fm.min_width - repr_size}) |->
                      IF fm.left_justify THEN " " ELSE fm.pad_char])

\* the digits, taken from the low end
RECURSIVE Repr(_, _)
Repr(v, fm) ==
    IF v = 0 THEN <<>> ELSE Append(Repr(v \div fm.base, fm), hex_char(fm.uppercase, v % fm.base))

write_integer(b, fm, u64) ==
    LET negative == fm.is_signed /\ Signed(u64, LongBits) < 0
        value == IF negative THEN Unsigned(0 - Signed(u64, LongBits), LongBits) ELSE u64
        b1 == IF fm.prepend \/ negative
              THEN write_one(b, IF negative THEN "-" ELSE fm.prepend_char) ELSE b
        digits == IF value = 0 THEN <<"0">> ELSE Repr(value, fm)
        repr == CASE fm.alternate_form /\ fm.base = 16 ->
                         <<"0", IF fm.uppercase THEN "X" ELSE "x">> \o digits
                  [] fm.alternate_form /\ fm.base = 8 -> <<"0">> \o digits
                  [] OTHER -> digits
    IN  IF fm.left_justify THEN write_padding(write_many(b1, repr), fm, Len(repr))
        ELSE write_many(write_padding(b1, fm, Len(repr)), repr)

-----------------------------------------------------------------------------
(* Formats                                                                 *)

consume(s, token) == IsPrefix(token, s)
After(s, n) == SubSeq(s, n + 1, Len(s))

RECURSIVE consume_digits(_)
consume_digits(s) ==
    IF s = <<>> \/ ~IsDigit(s[1]) THEN 0 ELSE 1 + consume_digits(Tail(s))

\* the number, its length and whether the caller is content
parse_number(s, must, default) ==
    LET n == consume_digits(s)
        value == FoldLeft(LAMBDA v, c : 10 * v + ValueOfDigit(c), 0, SubSeq(s, 1, n))
    IN  [ok |-> n > 0 \/ ~must, value |-> IF n > 0 THEN value ELSE default, rest |-> After(s, n)]

base_from_specifier(c) == CASE c \in {"x", "X"} -> 16 [] c = "o" -> 8 [] OTHER -> 10

find_next_conversion(s) ==
    LET at == {i \in DOMAIN s : s[i] = "%"} IN IF at = {} THEN 0 ELSE Min(at)

Unlimited == 1000
fmt_spec == [is_signed |-> FALSE, prepend |-> FALSE, uppercase |-> FALSE, left_justify |-> FALSE,
             alternate_form |-> FALSE, pad_char |-> " ", prepend_char |-> " ", min_width |-> 0,
             precision |-> Unlimited, base |-> 10]

RECURSIVE Flags(_, _)
Flags(s, fm) ==
    IF s = <<>> \/ s[1] \notin {"+", "-", " ", "0", "#"} THEN [fm |-> fm, rest |-> s]
    ELSE Flags(Tail(s),
           CASE s[1] \in {"+", " "} -> [fm EXCEPT !.prepend = TRUE, !.prepend_char = s[1]]
             [] s[1] = "-" -> [fm EXCEPT !.left_justify = TRUE]
             [] s[1] = "0" -> [fm EXCEPT !.pad_char = "0"]
             [] s[1] = "#" -> [fm EXCEPT !.alternate_form = TRUE])

\* a width or a precision: the next argument, or digits
StarOrNumber(s, a, must, default) ==
    IF consume(s, <<"*">>) THEN [ok |-> TRUE, value |-> a[1], rest |-> Tail(s), args |-> Tail(a)]
    ELSE parse_number(s, must, default) @@ [args |-> a]

\* the size prefixes, longest first, and the width each stands for
Sized(s) ==
    CASE consume(s, <<"h", "h">>) -> [bits |-> CharBits, rest |-> After(s, 2)]
      [] consume(s, <<"h">>) /\ ~consume(s, <<"h", "h">>) -> [bits |-> ShortBits, rest |-> After(s, 1)]
      [] consume(s, <<"l", "l">>) -> [bits |-> LongBits, rest |-> After(s, 2)]
      [] consume(s, <<"z">>) -> [bits |-> LongBits, rest |-> After(s, 1)]
      [] consume(s, <<"l">>) /\ ~consume(s, <<"l", "l">>) -> [bits |-> LongBits, rest |-> After(s, 1)]
      [] OTHER -> [bits |-> IntBits, rest |-> s]

\* Fails: the function returns -1 at once
Fails == [ok |-> FALSE, fb |-> fb, rest |-> <<>>, args |-> <<>>]
Goes(b, s, a) == [ok |-> TRUE, fb |-> b, rest |-> s, args |-> a]

\* what follows the width and the precision
Specifier(b, s, a, fm) ==
    LET z == Sized(s)
        c == z.rest[1]
    IN  CASE consume(s, <<"c">>) -> Goes(write_one(b, a[1]), Tail(s), Tail(a))
          [] consume(s, <<"s">>) ->
                 Goes(write_many(b, SubSeq(a[1], 1, Min({fm.precision, Len(a[1])}))), Tail(s), Tail(a))
          [] consume(s, <<"p">>) ->
                 Goes(write_integer(b, [fm EXCEPT !.base = 16, !.min_width = PtrDigits, !.pad_char = "0"],
                                    Unsigned(a[1], LongBits)), Tail(s), Tail(a))
          [] OTHER ->
                 IF z.rest = <<>> THEN Fails
                 ELSE IF c \in {"d", "i"}
                 THEN Goes(write_integer(b, [fm EXCEPT !.is_signed = TRUE],
                                         Unsigned(Signed(a[1], z.bits), LongBits)),
                           Tail(z.rest), Tail(a))
                 ELSE IF c \in {"o", "x", "X", "u"}
                 THEN Goes(write_integer(b, [fm EXCEPT !.base = base_from_specifier(c),
                                                       !.uppercase = c = "X"],
                                         Unsigned(a[1], z.bits)),
                           Tail(z.rest), Tail(a))
                 ELSE Fails

\* one turn of the loop
Turn(s, a) ==
    LET k == find_next_conversion(s)
        b == write_many(fb, IF k = 0 THEN s ELSE SubSeq(s, 1, k - 1))
        t == After(s, k - 1)
        f == Flags(Tail(t), fmt_spec)
        w == StarOrNumber(f.rest, a, FALSE, 0)
        dot == consume(w.rest, <<".">>)
        p == IF dot THEN StarOrNumber(Tail(w.rest), w.args, TRUE, Unlimited)
             ELSE [w EXCEPT !.value = Unlimited]
    IN  CASE k = 0 -> Goes(b, <<>>, a)
          [] k # 0 /\ consume(t, <<"%", "%">>) -> Goes(write_one(b, "%"), After(t, 2), a)
          [] OTHER -> IF ~p.ok THEN Fails
                      ELSE Specifier(b, p.rest, p.args,
                                     [f.fm EXCEPT !.min_width = w.value, !.precision = p.value])

Conversion ==
    /\ ret = -2 /\ fmt # <<>>
    /\ LET t == Turn(fmt, args)
       IN  /\ fb' = t.fb /\ fmt' = t.rest /\ args' = t.args
           /\ ret' = IF t.ok THEN ret ELSE -1
    /\ UNCHANGED <<conv, given>>

Finish ==
    /\ ret = -2 /\ fmt = <<>>
    /\ fb' = [fb EXCEPT !.buffer =
                 IF fb.capacity > 0
                 THEN [@ EXCEPT ![Min({fb.written, fb.capacity - 1}) + 1] = NUL] ELSE @]
    /\ ret' = fb.written
    /\ UNCHANGED <<fmt, args, conv, given>>

\* a conversion written out: [flags, width, precision, size, letter]
Format(c) ==
    <<"%">> \o c.flags \o c.width
       \o (IF c.precision = <<"none">> THEN <<>> ELSE <<".">> \o c.precision)
       \o c.size \o <<c.letter>>
Arguments(c, v, s) ==
    (IF c.width = <<"*">> THEN <<3>> ELSE <<>>)
       \o (IF c.precision = <<"*">> THEN <<1>> ELSE <<>>)
       \o (CASE c.letter = "%" -> <<>>
             [] c.letter = "s" -> <<s>>
             [] c.letter = "c" -> <<s[1]>>
             [] OTHER -> <<v>>)

Init ==
    /\ \E c \in Conversions, v \in Values, s \in Strs, cap \in Capacities :
         /\ conv = c /\ given = [value |-> v, text |-> s]
         /\ fmt = <<"a", "b">> \o Format(c) \o <<"z">>
         /\ args = Arguments(c, v, s)
         /\ fb = [buffer |-> [i \in 1 .. cap |-> "?"], capacity |-> cap, written |-> 0]
    /\ ret = -2

Next == Conversion \/ Finish

Spec == Init /\ [][Next]_vars

-----------------------------------------------------------------------------
(* What the conversion asks for                                            *)

Width(c) == CASE c.width = <<>> -> 0 [] c.width = <<"*">> -> 3
              [] OTHER -> FoldLeft(LAMBDA v, d : 10 * v + ValueOfDigit(d), 0, c.width)
Precision(c) == CASE c.precision = <<"none">> -> Unlimited [] c.precision = <<"*">> -> 1
                  [] OTHER -> FoldLeft(LAMBDA v, d : 10 * v + ValueOfDigit(d), 0, c.precision)
Bits(c) == CASE c.letter = "p" -> LongBits [] c.size = <<"h", "h">> -> CharBits
             [] c.size = <<"h">> -> ShortBits [] c.size = <<>> -> IntBits [] OTHER -> LongBits
Base(c) == CASE c.letter \in {"x", "X", "p"} -> 16 [] c.letter = "o" -> 8 [] OTHER -> 10
Has(c, f) == f \in Range(c.flags)

\* the text of a number: as many digits as it needs, from the high end
Text(n, base, upper) ==
    LET k == Min({j \in 1 .. (LongBits \div 3) + 1 : n < base ^ j})
    IN  [i \in 1 .. k |-> hex_char(upper, (n \div base ^ (k - i)) % base)]

NumberText(c, v) ==
    LET signed == c.letter \in {"d", "i"}
        n == IF signed THEN Signed(v, Bits(c)) ELSE Unsigned(v, Bits(c))
        plus == SelectSeq(c.flags, LAMBDA f : f \in {"+", " "})
        sign == IF n < 0 THEN <<"-">> ELSE IF plus # <<>> THEN <<Last(plus)>> ELSE <<>>
        prefix == CASE Has(c, "#") /\ Base(c) = 16 -> <<"0", IF c.letter = "X" THEN "X" ELSE "x">>
                    [] Has(c, "#") /\ Base(c) = 8 -> <<"0">>
                    [] OTHER -> <<>>
        body == prefix \o Text(IF n < 0 THEN 0 - n ELSE n, Base(c), c.letter = "X")
        width == IF c.letter = "p" THEN PtrDigits ELSE Width(c)
        zero == c.letter = "p" \/ Has(c, "0")
        fill(x) == [i \in 1 .. Max({0, width - Len(body)}) |-> x]
    IN  sign \o (IF Has(c, "-") THEN body \o fill(" ") ELSE fill(IF zero THEN "0" ELSE " ") \o body)

Whole ==
    LET middle == CASE conv.letter = "%" -> <<"%">>
                    [] conv.letter = "c" -> <<given.text[1]>>
                    [] conv.letter = "s" -> SubSeq(given.text, 1, Min({Precision(conv), Len(given.text)}))
                    [] OTHER -> NumberText(conv, given.value)
    IN  <<"a", "b">> \o middle \o <<"z">>

\* A formatted text never leaves its buffer: what is stored is the text the
\* format asks for, cut to the capacity less one, with one terminator behind
\* it, and the value returned is the length of the uncut text, so a caller
\* can tell that it was cut (uacpi_vsnprintf); only a format that is no
\* conversion is refused.
FormatExact ==
    /\ ret >= 0 =>
         LET n == Min({Len(Whole), fb.capacity - 1})
         IN  /\ ret = Len(Whole)
             /\ fb.capacity > 0 => SubSeq(fb.buffer, 1, n + 1) = Append(SubSeq(Whole, 1, n), NUL)
    /\ Len(fb.buffer) = fb.capacity
    /\ ret = -1 => conv.letter = "q" \/ conv.precision = <<>> \/ (conv.size # <<>> /\ conv.letter \in {"c", "s", "p", "%"})
=============================================================================

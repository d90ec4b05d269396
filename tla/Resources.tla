------------------------------ MODULE Resources ------------------------------
(***************************************************************************)
(* resources.c: the resource template a device's _CRS returns is measured, *)
(* converted to native resources, handed to the driver, and converted back *)
(* to the AML template that _SRS is given.                                 *)
(*                                                                         *)
(* Buffers are functions from offsets to bytes.  A write outside a buffer  *)
(* adds to its domain, so it can be seen.  A native pointer is one cell    *)
(* holding Base plus an offset; zero is NULL.                              *)
(*                                                                         *)
(* A template is described by a sequence of resources; Encode is the AML   *)
(* compiler's part and is external to the code.                            *)
(*                                                                         *)
(* The static tables come first: how every resource lies in the AML byte   *)
(* stream (the packed structures of acpi.h), how it lies in the native     *)
(* form (the naturally aligned structures of resources.h), and the small   *)
(* conversion programs that copy one to the other.  A structure is a       *)
(* sequence of <<field, width>>; offsets and sizes are computed from it,   *)
(* so padding is where the compiler puts it.  A union is written as its    *)
(* largest member, and a member of another alternative is reached by its   *)
(* distance from it.                                                       *)
(***************************************************************************)
EXTENDS Naturals, Sequences, FiniteSets, SequencesExt, Bitwise

Repeat(names, width) == [i \in 1..Len(names) |-> <<names[i], width>>]

AlignUp(n, a) == ((n + a - 1) \div a) * a

(* ---- the AML structures of acpi.h; the header is 1 or 3 bytes --------- *)

SmallHeader == <<<<"type_and_length", 1>>>>
LargeHeader == <<<<"item", 1>>, <<"item_length", 2>>>>

AmlSmall == [
  irq |-> <<<<"irq_mask", 2>>, <<"flags", 1>>>>,
  dma |-> <<<<"channel_mask", 1>>, <<"flags", 1>>>>,
  start_dependent |-> <<<<"flags", 1>>>>,
  end_dependent |-> <<>>,
  io |-> <<<<"information", 1>>, <<"minimum", 2>>, <<"maximum", 2>>,
           <<"alignment", 1>>, <<"length", 1>>>>,
  fixed_io |-> <<<<"address", 2>>, <<"length", 1>>>>,
  fixed_dma |-> <<<<"request_line", 2>>, <<"channel", 2>>,
                  <<"transfer_width", 1>>>>,
  vendor_type0 |-> <<<<"data", 0>>>>,
  end_tag |-> <<<<"checksum", 1>>>>]

Ranges(w) == Repeat(<<"minimum", "maximum", "alignment", "length">>, w)

AmlAddress == Repeat(<<"type", "flags", "type_flags">>, 1)

AddressRange(w) ==
  Repeat(<<"granularity", "minimum", "maximum", "translation_offset",
           "address_length">>, w)

AmlMemory == [
  memory24 |-> <<<<"information", 1>>>> \o Ranges(2),
  vendor_type1 |-> <<<<"data", 0>>>>,
  memory32 |-> <<<<"information", 1>>>> \o Ranges(4),
  fixed_memory32 |-> <<<<"information", 1>>, <<"address", 4>>, <<"length", 4>>>>,
  address64 |-> AmlAddress \o AddressRange(8),
  address32 |-> AmlAddress \o AddressRange(4),
  address16 |-> AmlAddress \o AddressRange(2),
  address64_extended |->
    AmlAddress \o Repeat(<<"revision_id", "rsvd">>, 1) \o AddressRange(8)
               \o <<<<"attributes", 8>>>>,
  extended_irq |-> <<<<"flags", 1>>, <<"num_irqs", 1>>, <<"irqs", 0>>>>,
  generic_register |->
    Repeat(<<"address_space_id", "bit_width", "bit_offset", "access_size">>, 1)
      \o <<<<"address", 8>>>>]

VendorFields == Repeat(<<"vendor_data_offset", "vendor_data_length">>, 2)

AmlConnections == [
  gpio_connection |->
    <<<<"revision_id", 1>>, <<"type", 1>>, <<"general_flags", 2>>,
      <<"connection_flags", 2>>, <<"pull_configuration", 1>>,
      <<"drive_strength", 2>>, <<"debounce_timeout", 2>>,
      <<"pin_table_offset", 2>>, <<"source_index", 1>>, <<"source_offset", 2>>>>
      \o VendorFields,
  pin_function |->
    <<<<"revision_id", 1>>, <<"flags", 2>>, <<"pull_configuration", 1>>,
      <<"function_number", 2>>, <<"pin_table_offset", 2>>,
      <<"source_index", 1>>, <<"source_offset", 2>>>> \o VendorFields,
  pin_configuration |->
    <<<<"revision_id", 1>>, <<"flags", 2>>, <<"type", 1>>, <<"value", 4>>,
      <<"pin_table_offset", 2>>, <<"source_index", 1>>,
      <<"source_offset", 2>>>> \o VendorFields,
  pin_group |->
    <<<<"revision_id", 1>>, <<"flags", 2>>, <<"pin_table_offset", 2>>,
      <<"source_lable_offset", 2>>>> \o VendorFields,
  pin_group_function |->
    <<<<"revision_id", 1>>, <<"flags", 2>>, <<"function", 2>>,
      <<"source_index", 1>>, <<"source_offset", 2>>,
      <<"source_lable_offset", 2>>>> \o VendorFields,
  pin_group_configuration |->
    <<<<"revision_id", 1>>, <<"flags", 2>>, <<"type", 1>>, <<"value", 4>>,
      <<"source_index", 1>>, <<"source_offset", 2>>,
      <<"source_lable_offset", 2>>>> \o VendorFields,
  clock_input |->
    <<<<"revision_id", 1>>, <<"flags", 2>>, <<"divisor", 2>>,
      <<"numerator", 4>>, <<"source_index", 1>>>>]

AmlSerial ==
  <<<<"revision_id", 1>>, <<"source_index", 1>>, <<"type", 1>>, <<"flags", 1>>,
    <<"type_specific_flags", 2>>, <<"type_specific_revision_id", 1>>,
    <<"type_data_length", 2>>>>

AmlSerialBuses == [
  serial |-> AmlSerial,
  serial_i2c |-> AmlSerial \o <<<<"connection_speed", 4>>, <<"slave_address", 2>>>>,
  serial_spi |->
    AmlSerial \o <<<<"connection_speed", 4>>, <<"data_bit_length", 1>>,
                   <<"phase", 1>>, <<"polarity", 1>>, <<"device_selection", 2>>>>,
  serial_uart |->
    AmlSerial \o <<<<"baud_rate", 4>>, <<"rx_fifo", 2>>, <<"tx_fifo", 2>>,
                   <<"parity", 1>>, <<"lines_enabled", 1>>>>,
  serial_csi2 |-> AmlSerial]

LargeNames == DOMAIN AmlMemory \cup DOMAIN AmlConnections \cup DOMAIN AmlSerialBuses

AmlStruct(s) ==
  CASE s \in DOMAIN AmlSmall       -> SmallHeader \o AmlSmall[s]
    [] s \in DOMAIN AmlMemory      -> LargeHeader \o AmlMemory[s]
    [] s \in DOMAIN AmlConnections -> LargeHeader \o AmlConnections[s]
    [] OTHER                       -> LargeHeader \o AmlSerialBuses[s]

(* ---- the native structures of resources.h, without the 8 byte head ---- *)

Source ==
  <<<<"source.index", 1, 8>>, <<"source.index_present", 1>>,
    <<"source.length", 2>>, <<"source.string", 8>>>>

Label == <<<<"label.length", 2, 8>>, <<"label.string", 8>>>>

NativeInterrupts == [
  irq |-> Repeat(<<"length_kind", "triggering", "polarity", "sharing",
                   "wake_capability", "num_irqs">>, 1) \o <<<<"irqs", 0>>>>,
  extended_irq |->
    Repeat(<<"direction", "triggering", "polarity", "sharing",
             "wake_capability", "num_irqs">>, 1) \o Source \o <<<<"irqs", 0>>>>,
  dma |-> Repeat(<<"transfer_type", "bus_master_status", "channel_speed",
                   "num_channels">>, 1) \o <<<<"channels", 0>>>>,
  fixed_dma |-> <<<<"request_line", 2>>, <<"channel", 2>>,
                  <<"transfer_width", 1>>>>,
  start_dependent |-> Repeat(<<"length_kind", "compatibility", "performance">>, 1),
  end_dependent |-> <<>>,
  end_tag |-> <<>>,
  vendor_type0 |-> <<<<"length", 1>>, <<"data", 0>>>>,
  vendor_type1 |-> <<<<"length", 1>>, <<"data", 0>>>>]

NativeAddress ==
  Repeat(<<"type_specific", "caching", "range_type", "translation", "type",
           "direction", "decode_type", "fixed_min_address",
           "fixed_max_address">>, 1)

NativeMemory == [
  io |-> <<<<"decode_type", 1>>, <<"minimum", 2>>, <<"maximum", 2>>,
           <<"alignment", 1>>, <<"length", 1>>>>,
  fixed_io |-> <<<<"address", 2>>, <<"length", 1>>>>,
  address16 |-> NativeAddress \o AddressRange(2) \o Source,
  address32 |-> NativeAddress \o AddressRange(4) \o Source,
  address64 |-> NativeAddress \o AddressRange(8) \o Source,
  address64_extended |->
    NativeAddress \o <<<<"revision_id", 1>>>> \o AddressRange(8)
                  \o <<<<"attributes", 8>>>>,
  memory24 |-> <<<<"write_status", 1>>>> \o Ranges(2),
  memory32 |-> <<<<"write_status", 1>>>> \o Ranges(4),
  fixed_memory32 |-> <<<<"write_status", 1>>, <<"address", 4>>, <<"length", 4>>>>,
  generic_register |->
    Repeat(<<"address_space_id", "bit_width", "bit_offset", "access_size">>, 1)
      \o <<<<"address", 8>>>>]

Pointers == Repeat(<<"pin_table", "vendor_data">>, 8)

NativeConnections == [
  gpio_connection |->
    <<<<"revision_id", 1>>, <<"type", 1>>, <<"direction", 1>>,
      <<"type_specific", 2>>, <<"interrupt.sharing", 1>>,
      <<"interrupt.wake_capability", 1>>, <<"pull_configuration", 1>>,
      <<"drive_strength", 2>>, <<"debounce_timeout", 2>>,
      <<"vendor_data_length", 2>>, <<"pin_table_length", 2>>>>
      \o Source \o Pointers,
  pin_function |->
    <<<<"revision_id", 1>>, <<"sharing", 1>>, <<"pull_configuration", 1>>,
      <<"function_number", 2>>, <<"pin_table_length", 2>>,
      <<"vendor_data_length", 2>>>> \o Source \o Pointers,
  pin_configuration |->
    Repeat(<<"revision_id", "sharing", "direction", "type">>, 1)
      \o <<<<"value", 4>>, <<"pin_table_length", 2>>, <<"vendor_data_length", 2>>>>
      \o Source \o Pointers,
  pin_group |->
    <<<<"revision_id", 1>>, <<"direction", 1>>, <<"pin_table_length", 2>>,
      <<"vendor_data_length", 2>>>> \o Label \o Pointers,
  pin_group_function |->
    <<<<"revision_id", 1>>, <<"sharing", 1>>, <<"direction", 1>>,
      <<"function", 2>>, <<"vendor_data_length", 2>>>>
      \o Source \o Label \o <<<<"vendor_data", 8>>>>,
  pin_group_configuration |->
    Repeat(<<"revision_id", "sharing", "direction", "type">>, 1)
      \o <<<<"value", 4>>, <<"vendor_data_length", 2>>>>
      \o Source \o Label \o <<<<"vendor_data", 8>>>>,
  clock_input |->
    Repeat(<<"revision_id", "frequency", "scale">>, 1)
      \o <<<<"divisor", 2>>, <<"numerator", 4>>>> \o Source]

NativeSerial ==
  Repeat(<<"revision_id", "type", "mode", "direction", "sharing",
           "type_revision_id">>, 1)
    \o <<<<"type_data_length", 2>>, <<"vendor_data_length", 2>>>>
    \o Source \o <<<<"vendor_data", 8>>>>

NativeSerialBuses == [
  serial |-> NativeSerial,
  serial_i2c |-> NativeSerial \o <<<<"addressing_mode", 1>>,
                   <<"slave_address", 2>>, <<"connection_speed", 4>>>>,
  serial_spi |->
    NativeSerial \o Repeat(<<"wire_mode", "device_polarity", "data_bit_length",
                             "phase", "polarity">>, 1)
                 \o <<<<"device_selection", 2>>, <<"connection_speed", 4>>>>,
  serial_uart |->
    NativeSerial \o Repeat(<<"stop_bits", "data_bits", "endianness", "parity",
                             "lines_enabled", "flow_control">>, 1)
                 \o <<<<"baud_rate", 4>>, <<"rx_fifo", 2>>, <<"tx_fifo", 2>>>>,
  serial_csi2 |-> NativeSerial \o Repeat(<<"phy_type", "local_port">>, 1)]

NativeStruct(s) ==
  CASE s \in DOMAIN NativeInterrupts  -> NativeInterrupts[s]
    [] s \in DOMAIN NativeMemory      -> NativeMemory[s]
    [] s \in DOMAIN NativeConnections -> NativeConnections[s]
    [] OTHER                          -> NativeSerialBuses[s]

(* ---- offsets and sizes, as offsetof and sizeof give them --------------- *)

Packed(e) == 1

Natural(e) ==
  CASE Len(e) = 3 -> e[3]
    [] e[2] = 0   -> 1
    [] OTHER      -> e[2]

RECURSIVE OffsetIn(_, _, _)
OffsetIn(struct, i, natural) ==
  LET align(e) == IF natural THEN Natural(e) ELSE Packed(e)
  IN  IF i = 1 THEN 0
      ELSE AlignUp(OffsetIn(struct, i - 1, natural) + struct[i - 1][2],
                   IF i > Len(struct) THEN 1 ELSE align(struct[i]))

FieldsOf(struct) == {struct[i][1] : i \in 1..Len(struct)}

OffsetsOf(struct, natural) ==
  [f \in FieldsOf(struct) |->
     OffsetIn(struct, CHOOSE i \in 1..Len(struct) : struct[i][1] = f, natural)]

AllStructs == DOMAIN AmlSmall \cup LargeNames

AmlOffsets == [s \in AllStructs |-> OffsetsOf(AmlStruct(s), FALSE)]

NativeOffsets == [s \in AllStructs |-> OffsetsOf(NativeStruct(s), TRUE)]

EndOf(struct, natural) == OffsetIn(struct, Len(struct) + 1, natural)

Most(aligns) == CHOOSE a \in aligns : \A b \in aligns : b <= a

Padded(struct) ==
  AlignUp(EndOf(struct, TRUE),
          Most({Natural(struct[i]) : i \in 1..Len(struct)} \cup {1}))

AmlSizeof == [s \in AllStructs |-> EndOf(AmlStruct(s), FALSE)]

NativeSizeof == [s \in AllStructs |-> Padded(NativeStruct(s))]

(* ---- the conversion programs ------------------------------------------ *)

\* Where a field lies: its structure and name, and bytes beyond its start.
AML_O(s, f) == <<"aml", s, f, 0>>

NATIVE_O(s, f) == <<"native", s, f, 0>>

Imm(i) == <<i>>

\* An instruction: code, width or argument, the two offsets, the immediate.
Ins(op, n, a, f, i) == [op |-> op, n |-> n, aml |-> a, native |-> f, imm |-> i]

At(x) ==
  CASE Len(x) = 1     -> x[1]
    [] x[1] = "aml"   -> AmlOffsets[x[2]][x[3]]
    [] OTHER          -> NativeOffsets[x[2]][x[3]] + x[4]

\* The instruction with its offsets, as the compiler lays it down.
Resolved(i) ==
  [i EXCEPT !.aml = At(@), !.native = At(@), !.imm = At(@)]

Plain(op, n, i) == Ins(op, n, Imm(0), Imm(0), Imm(i))

END_ == Plain("end", 0, 0)

BIT_FIELD(n, s, a, f, i) == Ins("bits", n, AML_O(s, a), NATIVE_O(s, f), Imm(i))

FIELD(n, s, a, f, i) == Ins("field", n, AML_O(s, a), NATIVE_O(s, f), Imm(i))

\* A bit field of a union member: d bytes into the union.
UNION_BITS(n, s, a, d, i) ==
  Ins("bits", n, AML_O(s, a), <<"native", s, "type_specific", d>>, Imm(i))

SKIP_IF_LESS(n, i) == Plain("skip_if_less", n, i)

SKIP_IF_NOT(n, i) == Plain("skip_if_not", n, i)

SET_TO_IMM(s, f, i) == Ins("set", 0, Imm(0), NATIVE_O(s, f), Imm(i))

LOAD_8_STORE(s, a, f, i) ==
  Ins("load_store", 0, AML_O(s, a), NATIVE_O(s, f), Imm(i))

FULL == 2
ONE_LESS == 1
ACCEPTABLE == 1
EDGE == 1

IrqArray ==
  Ins("array", 2, AML_O("irq", "irq_mask"), NATIVE_O("irq", "irqs"),
      NATIVE_O("irq", "num_irqs"))

IrqFlags == <<BIT_FIELD(1, "irq", "flags", "triggering", 0),
              BIT_FIELD(1, "irq", "flags", "polarity", 3),
              BIT_FIELD(1, "irq", "flags", "sharing", 4),
              BIT_FIELD(1, "irq", "flags", "wake_capability", 5)>>

convert_irq_to_native ==
  <<IrqArray, SKIP_IF_LESS(3, 6), SET_TO_IMM("irq", "length_kind", FULL)>>
    \o IrqFlags
    \o <<END_, SET_TO_IMM("irq", "length_kind", ONE_LESS),
         SET_TO_IMM("irq", "triggering", EDGE), END_>>

convert_irq_to_aml == <<IrqArray, SKIP_IF_LESS(3, 4)>> \o IrqFlags \o <<END_>>

convert_dma ==
  <<Ins("array", 1, AML_O("dma", "channel_mask"), NATIVE_O("dma", "channels"),
        NATIVE_O("dma", "num_channels")),
    BIT_FIELD(2, "dma", "flags", "transfer_type", 0),
    BIT_FIELD(1, "dma", "flags", "bus_master_status", 2),
    BIT_FIELD(2, "dma", "flags", "channel_speed", 5), END_>>

StartDependentFlags ==
  <<BIT_FIELD(2, "start_dependent", "flags", "compatibility", 0),
    BIT_FIELD(2, "start_dependent", "flags", "performance", 2)>>

convert_start_dependent_to_native ==
  <<SKIP_IF_LESS(1, 4), SET_TO_IMM("start_dependent", "length_kind", FULL)>>
    \o StartDependentFlags
    \o <<END_, SET_TO_IMM("start_dependent", "length_kind", ONE_LESS),
         SET_TO_IMM("start_dependent", "compatibility", ACCEPTABLE),
         SET_TO_IMM("start_dependent", "performance", ACCEPTABLE), END_>>

convert_start_dependent_to_aml ==
  <<SKIP_IF_LESS(1, 1)>> \o StartDependentFlags \o <<END_>>

convert_io ==
  <<BIT_FIELD(1, "io", "information", "decode_type", 0),
    FIELD(2, "io", "minimum", "minimum", 0),
    FIELD(2, "io", "maximum", "maximum", 0),
    FIELD(1, "io", "alignment", "alignment", 0),
    FIELD(1, "io", "length", "length", 0), END_>>

convert_fixed_io ==
  <<FIELD(2, "fixed_io", "address", "address", 0),
    FIELD(1, "fixed_io", "length", "length", 0), END_>>

convert_fixed_dma ==
  <<FIELD(2, "fixed_dma", "request_line", "request_line", 0),
    FIELD(2, "fixed_dma", "channel", "channel", 0),
    FIELD(1, "fixed_dma", "transfer_width", "transfer_width", 0), END_>>

convert_vendor(s) ==
  <<Ins("load_size", 0, Imm(0), NATIVE_O(s, "length"), Imm(0)),
    FIELD(1, s, "data", "data", 0), END_>>

convert_memory(s, width) ==
  <<BIT_FIELD(1, s, "information", "write_status", 0),
    FIELD(width, s, "minimum", "minimum", 4), END_>>

convert_fixed_memory32 ==
  <<BIT_FIELD(1, "fixed_memory32", "information", "write_status", 0),
    FIELD(4, "fixed_memory32", "address", "address", 0),
    FIELD(4, "fixed_memory32", "length", "length", 0), END_>>

convert_generic_register ==
  <<FIELD(1, "generic_register", "address_space_id", "address_space_id", 4),
    FIELD(8, "generic_register", "address", "address", 0), END_>>

CONVERT_TYPE_SPECIFIC_FLAGS(s) ==
  <<LOAD_8_STORE(s, "type", "type", 0),
    SKIP_IF_NOT(0, 5),
    UNION_BITS(1, s, "type_flags", 0, 0), UNION_BITS(2, s, "type_flags", 1, 1),
    UNION_BITS(2, s, "type_flags", 2, 3), UNION_BITS(1, s, "type_flags", 3, 5),
    END_,
    SKIP_IF_NOT(1, 4),
    UNION_BITS(2, s, "type_flags", 0, 0), UNION_BITS(1, s, "type_flags", 2, 4),
    UNION_BITS(1, s, "type_flags", 1, 5),
    END_,
    FIELD(1, s, "type_flags", "type_specific", 255), END_>>

CONVERT_GENERAL_ADDRESS_FLAGS(s) ==
  <<BIT_FIELD(1, s, "flags", "direction", 0),
    BIT_FIELD(1, s, "flags", "decode_type", 1),
    BIT_FIELD(1, s, "flags", "fixed_min_address", 2),
    BIT_FIELD(1, s, "flags", "fixed_max_address", 3)>>

SourceIns(op, s) == Ins(op, 0, Imm(0), NATIVE_O(s, "source.index"), Imm(0))

convert_address(s, width) ==
  CONVERT_GENERAL_ADDRESS_FLAGS(s)
    \o <<FIELD(width, s, "granularity", "granularity", 5), SourceIns("source", s)>>
    \o CONVERT_TYPE_SPECIFIC_FLAGS(s)

convert_address64_extended ==
  LET s == "address64_extended"
  IN  CONVERT_GENERAL_ADDRESS_FLAGS(s)
        \o <<FIELD(1, s, "revision_id", "revision_id", 0),
             FIELD(8, s, "granularity", "granularity", 6)>>
        \o CONVERT_TYPE_SPECIFIC_FLAGS(s)

convert_extended_irq ==
  LET s == "extended_irq"
  IN  <<BIT_FIELD(1, s, "flags", "direction", 0),
        BIT_FIELD(1, s, "flags", "triggering", 1),
        BIT_FIELD(1, s, "flags", "polarity", 2),
        BIT_FIELD(1, s, "flags", "sharing", 3),
        BIT_FIELD(1, s, "flags", "wake_capability", 4),
        LOAD_8_STORE(s, "num_irqs", "num_irqs", 4),
        SourceIns("source", s),
        FIELD(1, s, "irqs", "irqs", 0), END_>>

convert_clock_input ==
  LET s == "clock_input"
  IN  <<FIELD(1, s, "revision_id", "revision_id", 0),
        BIT_FIELD(1, s, "flags", "frequency", 0),
        BIT_FIELD(2, s, "flags", "scale", 1),
        FIELD(2, s, "divisor", "divisor", 0),
        FIELD(4, s, "numerator", "numerator", 0),
        FIELD(1, s, "source_index", "source.index", 0),
        SourceIns("source_no_index", s), END_>>

DECODE_SOURCE_INDEX(s) == <<FIELD(1, s, "source_index", "source.index", 0)>>

VendorData(s) ==
  <<Ins("vendor_data", 0, AML_O(s, "vendor_data_offset"),
        NATIVE_O(s, "vendor_data_length"), NATIVE_O(s, "vendor_data"))>>

DECODE_RES_PIN_TBL_AND_VENDOR_DATA(s, op, offset, res) ==
  <<Ins("pin_length", 0, AML_O(s, offset), NATIVE_O(s, "pin_table_length"), Imm(0)),
    Ins(op, 0, AML_O(s, offset), NATIVE_O(s, res), AML_O(s, "vendor_data_offset")),
    Ins("pin_table", 0, AML_O(s, "pin_table_offset"),
        NATIVE_O(s, "pin_table_length"), NATIVE_O(s, "pin_table"))>>
    \o VendorData(s)

PinsAndSource(s) ==
  DECODE_SOURCE_INDEX(s)
    \o DECODE_RES_PIN_TBL_AND_VENDOR_DATA(s, "source_no_index", "source_offset",
                                          "source.index")

convert_gpio_connection ==
  LET s == "gpio_connection"
      f == "connection_flags"
  IN  <<FIELD(1, s, "revision_id", "revision_id", 0),
        BIT_FIELD(1, s, "general_flags", "direction", 0),
        FIELD(1, s, "pull_configuration", "pull_configuration", 0),
        FIELD(2, s, "drive_strength", "drive_strength", 2)>>
        \o PinsAndSource(s)
        \o <<LOAD_8_STORE(s, "type", "type", 0),
             SKIP_IF_NOT(0, 5),
             UNION_BITS(1, s, f, 0, 0), UNION_BITS(2, s, f, 1, 1),
             UNION_BITS(1, s, f, 2, 3), UNION_BITS(1, s, f, 3, 4), END_,
             SKIP_IF_NOT(1, 3),
             UNION_BITS(2, s, f, 0, 0), UNION_BITS(1, s, f, 1, 3), END_,
             FIELD(2, s, f, "type_specific", 255), END_>>

convert_pin_function ==
  LET s == "pin_function"
  IN  <<FIELD(1, s, "revision_id", "revision_id", 0),
        BIT_FIELD(1, s, "flags", "sharing", 0),
        FIELD(1, s, "pull_configuration", "pull_configuration", 0),
        FIELD(2, s, "function_number", "function_number", 0)>>
        \o PinsAndSource(s) \o <<END_>>

ConfigurationFields(s) ==
  <<FIELD(1, s, "revision_id", "revision_id", 0),
    BIT_FIELD(1, s, "flags", "sharing", 0),
    BIT_FIELD(1, s, "flags", "direction", 1),
    FIELD(1, s, "type", "type", 0),
    FIELD(4, s, "value", "value", 0)>>

convert_pin_configuration ==
  ConfigurationFields("pin_configuration")
    \o PinsAndSource("pin_configuration") \o <<END_>>

convert_pin_group ==
  LET s == "pin_group"
  IN  <<FIELD(1, s, "revision_id", "revision_id", 0),
        BIT_FIELD(1, s, "flags", "direction", 0)>>
        \o DECODE_RES_PIN_TBL_AND_VENDOR_DATA(s, "label", "source_lable_offset",
                                              "label.length")
        \o <<END_>>

DECODE_PIN_GROUP_RES_SOURCES(s) ==
  DECODE_SOURCE_INDEX(s)
    \o <<Ins("source_no_index", 0, AML_O(s, "source_offset"),
             NATIVE_O(s, "source.index"), AML_O(s, "source_lable_offset")),
         Ins("load_native", 2, Imm(0), NATIVE_O(s, "source.length"), Imm(0)),
         Ins("label", 0, AML_O(s, "source_lable_offset"),
             NATIVE_O(s, "label.length"), AML_O(s, "vendor_data_offset"))>>
    \o VendorData(s)

convert_pin_group_function ==
  LET s == "pin_group_function"
  IN  <<FIELD(1, s, "revision_id", "revision_id", 0),
        BIT_FIELD(1, s, "flags", "sharing", 0),
        BIT_FIELD(1, s, "flags", "direction", 1),
        FIELD(2, s, "function", "function", 0)>>
        \o DECODE_PIN_GROUP_RES_SOURCES(s) \o <<END_>>

convert_pin_group_configuration ==
  ConfigurationFields("pin_group_configuration")
    \o DECODE_PIN_GROUP_RES_SOURCES("pin_group_configuration") \o <<END_>>

SerialTypeFlags(n, s, f, i) ==
  Ins("bits", n, AML_O("serial", "type_specific_flags"), NATIVE_O(s, f), Imm(i))

convert_generic_serial_bus ==
  LET s == "serial"  c == "serial_i2c"  p == "serial_spi"  u == "serial_uart"
      v == "serial_csi2"
  IN  <<FIELD(1, s, "revision_id", "revision_id", 0),
        FIELD(1, s, "type_specific_revision_id", "type_revision_id", 0),
        FIELD(1, s, "source_index", "source.index", 0),
        FIELD(2, s, "type_data_length", "type_data_length", 0),
        BIT_FIELD(1, s, "flags", "mode", 0),
        BIT_FIELD(1, s, "flags", "direction", 1),
        BIT_FIELD(1, s, "flags", "sharing", 2),
        Ins("serial_type", 0, AML_O(s, "type"), NATIVE_O(s, "type"), Imm(0)),
        SourceIns("source_no_index", s),
        Ins("load_native", 1, Imm(0), NATIVE_O(s, "type"), Imm(0)),
        SKIP_IF_NOT(1, 4),
        SerialTypeFlags(1, c, "addressing_mode", 0),
        FIELD(4, c, "connection_speed", "connection_speed", 255),
        FIELD(2, c, "slave_address", "slave_address", 0), END_,
        SKIP_IF_NOT(2, 5),
        SerialTypeFlags(1, p, "wire_mode", 0),
        SerialTypeFlags(1, p, "device_polarity", 1),
        FIELD(4, p, "connection_speed", "connection_speed", 255),
        FIELD(1, p, "data_bit_length", "data_bit_length", 5), END_,
        SKIP_IF_NOT(3, 8),
        SerialTypeFlags(2, u, "flow_control", 0),
        SerialTypeFlags(2, u, "stop_bits", 2),
        SerialTypeFlags(3, u, "data_bits", 4),
        SerialTypeFlags(1, u, "endianness", 7),
        FIELD(4, u, "baud_rate", "baud_rate", 255),
        FIELD(2, u, "rx_fifo", "rx_fifo", 2),
        FIELD(1, u, "parity", "parity", 2), END_,
        SKIP_IF_NOT(4, 3),
        SerialTypeFlags(2, v, "phy_type", 0),
        SerialTypeFlags(6, v, "local_port", 2), END_,
        Plain("unreachable", 0, 0)>>

-----------------------------------------------------------------------------
(* The conversions *)

CONSTANTS
  Templates,  \* the well formed templates: sequences of resources
  Broken      \* byte sequences that are not a template

Base == 1000

VARIABLES
  res,     \* the resources the template was made of (<<>> for a broken one)
  aml,     \* the template
  pc,      \* the pass that is running
  at,      \* how far the pass has come in its source
  out,     \* bytes counted, or the position the pass writes at
  native,  \* the native resources
  total,   \* how many bytes of them are resources
  starts,  \* where each of them begins
  back,    \* the template made of them
  undef    \* uacpi_popcount returned something else than the count

vars == <<res, aml, pc, at, out, native, total, starts, back, undef>>

Bytes(m, o, n) == [k \in 1..n |-> m[o + k - 1]]

Put(m, o, s) == [k \in o..(o + Len(s) - 1) |-> s[k - o + 1]] @@ m

Word(m, o) == m[o] + (256 * m[o + 1])

Wide(v) == <<v % 256, v \div 256>>

Zeros(n) == [k \in 0..(n - 1) |-> 0]

Greater(a, b) == IF a > b THEN a ELSE b

Masked(s) == ReduceSet(LAMBDA b, v : v + (2 ^ b), s, 0)

BitsOf(v) == {b \in 0..15 : (v \div (2 ^ b)) % 2 = 1}

(* ---- the table of resources ------------------------------------------- *)

SmallCode ==
  [irq |-> 4, dma |-> 5, start_dependent |-> 6, end_dependent |-> 7, io |-> 8,
   fixed_io |-> 9, fixed_dma |-> 10, vendor_type0 |-> 14, end_tag |-> 15]

LargeCode ==
  [memory24 |-> 1, generic_register |-> 2, vendor_type1 |-> 4, memory32 |-> 5,
   fixed_memory32 |-> 6, address32 |-> 7, address16 |-> 8, extended_irq |-> 9,
   address64 |-> 10, address64_extended |-> 11, gpio_connection |-> 12,
   pin_function |-> 13, serial |-> 14, pin_configuration |-> 15,
   pin_group |-> 16, pin_group_function |-> 17, pin_group_configuration |-> 18,
   clock_input |-> 19]

Types == DOMAIN SmallCode \cup DOMAIN LargeCode

Large(t) == t \in DOMAIN LargeCode

aml_resource_kind_to_header_size(t) == IF Large(t) THEN 3 ELSE 1

\* "" is UACPI_AML_RESOURCE_TYPE_INVALID.
get_aml_resource_type(byte) ==
  LET Named(codes, c) == {t \in DOMAIN codes : codes[t] = c}
      found == IF byte >= 128 THEN Named(LargeCode, byte - 128)
                              ELSE Named(SmallCode, (byte \div 8) % 16)
  IN  IF found = {} THEN "" ELSE CHOOSE t \in found : TRUE

NativeTypes ==
  <<"irq", "extended_irq", "dma", "fixed_dma", "io", "fixed_io", "address16",
    "address32", "address64", "address64_extended", "memory24", "memory32",
    "fixed_memory32", "start_dependent", "end_dependent", "vendor_type0",
    "vendor_type1", "generic_register", "gpio_connection", "serial_i2c",
    "serial_spi", "serial_uart", "serial_csi2", "pin_function",
    "pin_configuration", "pin_group", "pin_group_function",
    "pin_group_configuration", "clock_input", "end_tag">>

NativeType(t) == (CHOOSE i \in 1..Len(NativeTypes) : NativeTypes[i] = t) - 1

SerialNames == <<"serial_i2c", "serial_spi", "serial_uart", "serial_csi2">>

native_resource_to_type(n) ==
  LET t == NativeTypes[n + 1]
  IN  IF \E i \in 1..4 : SerialNames[i] = t THEN "serial" ELSE t

Variable ==
  {"vendor_type0", "vendor_type1", "address16", "address32", "address64",
   "extended_irq", "gpio_connection", "pin_function", "serial",
   "pin_configuration", "pin_group", "pin_group_function",
   "pin_group_configuration", "clock_input"}

size_kind(t) ==
  CASE t \in {"irq", "start_dependent"} -> "fixed_or_one_less"
    [] t \in Variable                   -> "variable"
    [] OTHER                            -> "fixed"

aml_size(t) == AmlSizeof[t] - aml_resource_kind_to_header_size(t)

native_size(t) == NativeSizeof[t] + 8

Programs ==
  [t \in Types |->
     CASE t = "dma"                     -> convert_dma
       [] t = "io"                      -> convert_io
       [] t = "fixed_io"                -> convert_fixed_io
       [] t = "fixed_dma"               -> convert_fixed_dma
       [] t = "vendor_type0"            -> convert_vendor(t)
       [] t = "vendor_type1"            -> convert_vendor(t)
       [] t = "memory24"                -> convert_memory(t, 2)
       [] t = "memory32"                -> convert_memory(t, 4)
       [] t = "fixed_memory32"          -> convert_fixed_memory32
       [] t = "generic_register"        -> convert_generic_register
       [] t = "address16"               -> convert_address(t, 2)
       [] t = "address32"               -> convert_address(t, 4)
       [] t = "address64"               -> convert_address(t, 8)
       [] t = "address64_extended"      -> convert_address64_extended
       [] t = "extended_irq"            -> convert_extended_irq
       [] t = "gpio_connection"         -> convert_gpio_connection
       [] t = "pin_function"            -> convert_pin_function
       [] t = "serial"                  -> convert_generic_serial_bus
       [] t = "pin_configuration"       -> convert_pin_configuration
       [] t = "pin_group"               -> convert_pin_group
       [] t = "pin_group_function"      -> convert_pin_group_function
       [] t = "pin_group_configuration" -> convert_pin_group_configuration
       [] t = "clock_input"             -> convert_clock_input
       [] OTHER                         -> <<>>]  \* no instructions

to_native(t) ==
  CASE t = "irq"             -> convert_irq_to_native
    [] t = "start_dependent" -> convert_start_dependent_to_native
    [] OTHER                 -> Programs[t]

to_aml(t) ==
  CASE t = "irq"             -> convert_irq_to_aml
    [] t = "start_dependent" -> convert_start_dependent_to_aml
    [] OTHER                 -> Programs[t]

(* ---- sizes ------------------------------------------------------------- *)

SerialExtra(sizes, k) == sizes[SerialNames[k]] - sizes["serial"]

extra_size_for_resource_source(base_size, reported_size) ==
  IF reported_size <= base_size THEN 0
  ELSE AlignUp((reported_size - base_size) - 1, 8)

SerialGrowth(k) == SerialExtra(NativeSizeof, k) - SerialExtra(AmlSizeof, k)

ExtraForIrqs(irqs, least, size) ==
  irqs + extra_size_for_resource_source(least, size - irqs)

\* data at d in the template, laid out as l says, size without the header,
\* least the size of the fixed part; x is what popcount left in the return
\* register.
extra_size_for_native(t, d, l, size, least, x) ==
  CASE t \in {"irq", "dma"} -> x
    [] t \in {"vendor_type0", "vendor_type1"} -> size
    [] t \in {"address16", "address32", "address64", "clock_input"} ->
         extra_size_for_resource_source(least, size)
    [] t = "extended_irq" -> ExtraForIrqs(4 * aml[d + l["num_irqs"]], least, size)
    [] t \in {"gpio_connection", "pin_function", "pin_configuration", "pin_group"} ->
         size - (Word(aml, d + l["pin_table_offset"]) - 3)
    [] t \in {"pin_group_function", "pin_group_configuration"} ->
         size - (Word(aml, d + l["source_offset"]) - 3)
    [] t = "serial" -> (size - least) + SerialGrowth(aml[d + l["type"]])
    [] OTHER -> 0

native_size_for_aml_resource(t, d, size, x) ==
  AlignUp(native_size(t)
            + extra_size_for_native(t, d, AmlOffsets[t], size, aml_size(t), x), 8)

aml_size_with_header(t) == aml_size(t) + aml_resource_kind_to_header_size(t)

\* The native field f of the resource at o, whose structure lies as l says.
ByteAt(o, l, f) == native[o + 8 + l[f]]

Half(o, l, f) == Word(native, o + 8 + l[f])

OneLess(o, t, l) ==
  /\ ByteAt(o, l, "length_kind") # FULL
  /\ \/ t = "irq" /\ ByteAt(o, l, "triggering") = EDGE
                  /\ ByteAt(o, l, "polarity") = 0
                  /\ ByteAt(o, l, "sharing") = 0
     \/ t = "start_dependent" /\ ByteAt(o, l, "compatibility") = ACCEPTABLE
                              /\ ByteAt(o, l, "performance") = ACCEPTABLE

size_for_aml_resource_sourceVariant(o, l, with_index) ==
  Half(o, l, "source.length") + ByteAt(o, l, "source.index_present")

\* with_index: the index byte is part of the variable end of the resource.
size_for_aml_resource_source(o, l, with_index) ==
  LET length  == Half(o, l, "source.length")
      present == IF length > 0 THEN 1 ELSE ByteAt(o, l, "source.index_present")
  IN  length + (IF with_index THEN present ELSE 0)

\* l is the layout of the native structure, least the size with header.
SizeForAml(o, t, l, least) ==
  CASE t \in {"irq", "start_dependent"} ->
         least - (IF OneLess(o, t, l) THEN 1 ELSE 0)
    [] t \in {"vendor_type0", "vendor_type1"} ->
         ByteAt(o, l, "length") + (IF ByteAt(o, l, "length") > 7 \/ Large(t) THEN 3 ELSE 1)
    [] t \in {"address16", "address32", "address64", "clock_input"} ->
         least + size_for_aml_resource_source(o, l, t # "clock_input")
    [] t = "extended_irq" ->
         least + (4 * ByteAt(o, l, "num_irqs")) + size_for_aml_resource_source(o, l, TRUE)
    [] t \in {"gpio_connection", "pin_function", "pin_configuration", "pin_group"} ->
         least + Half(o, l, IF t = "pin_group" THEN "label.length" ELSE "source.length")
           + (2 * Half(o, l, "pin_table_length")) + Half(o, l, "vendor_data_length")
    [] t \in {"pin_group_function", "pin_group_configuration"} ->
         least + Half(o, l, "source.length")
           + Half(o, l, "label.length") + Half(o, l, "vendor_data_length")
    [] t = "serial" ->
         least + SerialExtra(AmlSizeof, ByteAt(o, l, "type"))
           + Half(o, l, "vendor_data_length") + Half(o, l, "source.length")
    [] OTHER -> least

size_for_aml(o, t) == SizeForAml(o, t, NativeOffsets[t], aml_size_with_header(t))

(* ---- the conversion programs, run -------------------------------------- *)

\* The opcodes both directions share: bytes go from src of s to dst of c.m;
\* n is the native buffer and o the offset of the native field in it.
Common(c, i, s, src, dst, n, o, size) ==
  CASE i.op = "end" -> [c EXCEPT !.st = "ok"]
    [] i.op = "field" ->
         LET a == IF i.imm = 255 THEN 0 ELSE c.acc + i.imm
         IN  [c EXCEPT !.m = Put(@, dst, Bytes(s, src, i.n * Greater(1, a))),
                       !.acc = 0]
    [] i.op = "skip_if_less" ->
         IF size < i.n THEN [c EXCEPT !.pc = @ + i.imm] ELSE c
    [] i.op = "skip_if_not" ->
         IF i.n # c.acc THEN [c EXCEPT !.pc = @ + i.imm] ELSE c
    [] i.op = "set" -> [c EXCEPT !.m = Put(@, dst, <<i.imm>>)]
    [] i.op = "load_store" ->
         [c EXCEPT !.m = Put(@, dst, <<s[src]>>),
                   !.acc = s[src] * Greater(1, i.imm)]
    [] i.op = "load_native" ->
         [c EXCEPT !.acc = IF i.n = 1 THEN n[o] ELSE Word(n, o)]
    [] OTHER -> [c EXCEPT !.st = "internal"]

\* The string that begins at o and ends before limit, up to its terminator;
\* <<>> when there is none.
Terminated(o, limit) ==
  LET ends == {k \in o..(limit - 1) : aml[k] = 0}
  IN  IF ends = {} THEN <<>>
      ELSE LET e == CHOOSE k \in ends : \A j \in ends : k <= j
           IN  Bytes(aml, o, (e - o) + 1)

\* Offsets that point into the resource but not into its fixed part.
CHECK_AML_OFFSET(c, offset, h, size) == offset <= size + h /\ offset >= c.base

\* RESOURCE_SOURCE, RESOURCE_SOURCE_NO_INDEX and RESOURCE_LABEL.
NativeSource(c, i, d, dst, h, size) ==
  LET limit  == IF i.imm # 0 THEN Word(aml, d + i.imm) ELSE size + h
      offset == c.base + c.acc
      index  == i.op = "source"
      first  == d + offset + (IF index THEN 1 ELSE 0)
      text   == Terminated(first, d + limit)
      Here(m, b) == IF i.op = "label" THEN m ELSE Put(m, dst + 1, <<b>>)
      withIx == IF index THEN Put(Here(c.m, 1), dst, <<aml[d + offset]>>)
                         ELSE Here(c.m, 1)
      name   == IF i.op = "label" THEN dst ELSE dst + 2
  IN  CASE i.imm # 0 /\ ~CHECK_AML_OFFSET(c, limit, h, size) ->
             [c EXCEPT !.st = "invalid"]
        [] offset >= limit ->
             [c EXCEPT !.m = Here(@, IF index THEN 0 ELSE 1)]
        [] first = d + limit -> [c EXCEPT !.m = withIx]
        [] text = <<>> -> [c EXCEPT !.st = "invalid"]
        [] OTHER ->
             [c EXCEPT !.m = Put(Put(Put(withIx, c.end + c.acc, text),
                                     name, Wide(Len(text))),
                                 dst + 8, <<Base + c.end + c.acc>>)]

NativeVendor(c, i, d, dst, o, h, size) ==
  LET offset == Word(aml, d + i.aml)
      length == size - (offset - h)
      where  == c.end + (offset - c.base)
  IN  CASE ~CHECK_AML_OFFSET(c, offset, h, size) -> [c EXCEPT !.st = "invalid"]
        [] length = 0 -> c
        [] OTHER -> [c EXCEPT !.m = Put(Put(Put(@, dst, Wide(length)), where,
                                            Bytes(aml, d + offset, length)),
                                        o, <<Base + where>>)]

\* The type-specific part ends at end and base; vendor bytes follow it.
NativeSerialAt(c, d, o, l, k, end, base, vendor) ==
  LET typed == Put(Put(c.m, o + 8 + l["type"], <<k>>), o, <<NativeType(SerialNames[k])>>)
  IN  CASE vendor < 0 -> [c EXCEPT !.st = "invalid"]
        [] vendor = 0 -> [c EXCEPT !.m = typed, !.end = end, !.base = base, !.acc = 0]
        [] OTHER ->
             [c EXCEPT !.end = end, !.base = base, !.acc = vendor,
                       !.m = Put(Put(Put(typed, o + 8 + l["vendor_data_length"],
                                         Wide(vendor)),
                                     o + 8 + l["vendor_data"], <<Base + end>>),
                                 end, Bytes(aml, d + base, vendor))]

NativeSerialSizes(c, d, o, l, k, extra, nativeExtra) ==
  NativeSerialAt(c, d, o, l, k, c.end + nativeExtra, c.base + extra,
               c.m[o + 8 + l["type_data_length"]] - extra)

NativeSerialType(c, d, src, o) ==
  NativeSerialSizes(c, d, o, NativeOffsets["serial"], aml[src],
                    SerialExtra(AmlSizeof, aml[src]), SerialExtra(NativeSizeof, aml[src]))

\* One instruction of do_aml_resource_to_native.  d is the resource in the
\* template, o the native one.
NativeStep(c, i, d, o, h, size) ==
  LET src == d + i.aml
      dst == o + 8 + i.native
      arg == o + 8 + i.imm
  IN  CASE i.op = "array" ->
             LET value == IF i.n = 2 THEN Word(aml, src) ELSE aml[src]
                 bits  == SetToSortSeq(BitsOf(value), <)
             IN  [c EXCEPT !.m = Put(Put(@, dst, bits), arg, <<Len(bits)>>)]
        [] i.op = "bits" ->
             [c EXCEPT !.m = Put(@, dst, <<(aml[src] \div (2 ^ i.imm)) % (2 ^ i.n)>>)]
        [] i.op = "load_size" ->
             [c EXCEPT !.m = Put(@, dst, Wide(size) \o <<0, 0>>), !.acc = size]
        [] i.op \in {"source", "source_no_index", "label"} ->
             NativeSource(c, i, d, dst, h, size)
        [] i.op = "pin_length" ->
             IF CHECK_AML_OFFSET(c, Word(aml, src), h, size)
             THEN [c EXCEPT !.acc = Word(aml, src) - c.base]
             ELSE [c EXCEPT !.st = "invalid"]
        [] i.op = "pin_table" ->
             [c EXCEPT !.m = Put(Put(Put(@, c.end, Bytes(aml, d + c.base, c.acc)),
                                     dst, Wide(c.acc \div 2)),
                                 arg, <<Base + c.end>>)]
        [] i.op = "vendor_data" -> NativeVendor(c, i, d, dst, arg, h, size)
        [] i.op = "serial_type" -> NativeSerialType(c, d, src, o)
        [] OTHER -> Common(c, i, aml, src, dst, c.m, dst, size)

RECURSIVE NativeRun(_, _, _, _, _, _)
NativeRun(c, program, d, o, h, size) ==
  IF c.st # "run" THEN c
  ELSE NativeRun(NativeStep([c EXCEPT !.pc = @ + 1], Resolved(program[c.pc]), d, o, h, size),
                 program, d, o, h, size)

\* The native buffer after the resource at d was converted to o.
\* length is its size there.
NativeHead(t, o, length) ==
  Put(Put(native, o, <<IF t = "serial" THEN 0 ELSE NativeType(t)>>), o + 4, Wide(length))

\* A program begins on the buffer m; one without instructions is done.
Start(t, o, m, program) ==
  [pc |-> 1, acc |-> 0, m |-> m, end |-> o + native_size(t),
   base |-> aml_size_with_header(t), st |-> IF program = <<>> THEN "ok" ELSE "run"]

NativeProgram(t, d, o, size, m, program) ==
  NativeRun(Start(t, o, m, program), program, d, o,
            aml_resource_kind_to_header_size(t), size)

do_aml_resource_to_native(t, d, o, size, length) ==
  NativeProgram(t, d, o, size, NativeHead(t, o, length), to_native(t))

\* The way back: the string of the source or label, after its index.
AmlSource(c, i, d, src) ==
  LET offset  == c.base + c.acc
      index   == i.op = "source" /\ native[src + 1] # 0
      length  == Word(native, IF i.op = "label" THEN src ELSE src + 2)
      pointer == native[src + 8]
      where   == d + offset + (IF index THEN 1 ELSE 0)
      told    == IF i.aml # 0 THEN Put(c.m, d + i.aml, Wide(offset)) ELSE c.m
      indexed == IF index THEN Put(told, d + offset, <<native[src]>>) ELSE told
  IN  CASE length = 0  -> [c EXCEPT !.m = indexed]
        [] pointer = 0 -> [c EXCEPT !.st = "invalid"]
        [] OTHER -> [c EXCEPT !.m = Put(indexed, where,
                                        Bytes(native, pointer - Base, length))]

AmlVendor(c, i, d, src, o, h, size) ==
  LET pointer == native[o]
      length  == Word(native, src)
      offset  == ((pointer - Base) - c.end) + c.base
  IN  CASE pointer = 0 /\ length # 0 -> [c EXCEPT !.st = "invalid"]
        [] pointer = 0 -> [c EXCEPT !.m = Put(@, d + i.aml, Wide(size + h))]
        [] OTHER -> [c EXCEPT !.m = Put(Put(@, d + i.aml, Wide(offset) \o Wide(length)),
                                        d + offset,
                                        Bytes(native, pointer - Base, length))]

AmlSerialAt(c, d, k, m, vendor, end, base) ==
  [c EXCEPT !.end = end, !.base = base, !.acc = vendor,
            !.m = Put(m, d + base, Bytes(native, end, vendor))]

AmlSerialType(c, d, k, dst, o) ==
  IF k \notin 1..4 \/ native[o] # NativeType(SerialNames[k])
  THEN [c EXCEPT !.st = "invalid"]
  ELSE AmlSerialAt(c, d, k, Put(c.m, dst, <<k>>),
                 Half(o, NativeOffsets["serial"], "vendor_data_length"),
                 c.end + SerialExtra(NativeSizeof, k), c.base + SerialExtra(AmlSizeof, k))

AmlStep(c, i, d, o, h, size) ==
  LET src == o + 8 + i.native
      dst == d + i.aml
      arg == o + 8 + i.imm
  IN  CASE i.op = "array" ->
             LET mask == Masked({native[src + k] : k \in 0..(native[arg] - 1)})
             IN  [c EXCEPT !.m = Put(@, dst, IF i.n = 2 THEN Wide(mask)
                                                        ELSE <<mask % 256>>)]
        [] i.op = "bits" ->
             [c EXCEPT !.m =
                Put(@, dst, <<(@[dst] | (native[src] * (2 ^ i.imm))) % 256>>)]
        [] i.op = "load_size" -> [c EXCEPT !.acc = size]
        [] i.op \in {"source", "source_no_index", "label"} -> AmlSource(c, i, d, src)
        [] i.op = "pin_length" -> [c EXCEPT !.acc = 2 * Word(native, src)]
        [] i.op = "pin_table" ->
             [c EXCEPT !.m = Put(Put(@, dst, Wide(c.base)), d + c.base,
                                 Bytes(native, c.end, c.acc))]
        [] i.op = "vendor_data" -> AmlVendor(c, i, d, src, arg, h, size)
        [] i.op = "serial_type" -> AmlSerialType(c, d, native[src], dst, o)
        [] OTHER -> Common(c, i, native, src, dst, native, src, size)

RECURSIVE AmlRun(_, _, _, _, _, _)
AmlRun(c, program, d, o, h, size) ==
  IF c.st # "run" THEN c
  ELSE AmlRun(AmlStep([c EXCEPT !.pc = @ + 1], Resolved(program[c.pc]), d, o, h, size),
              program, d, o, h, size)

\* The template after the native resource at o was written to d.
\* size is without the header.
AmlHead(t, d, size) ==
  Put(back, d, IF Large(t) THEN <<128 + LargeCode[t]>> \o Wide(size)
                           ELSE <<(SmallCode[t] * 8) + size>>)

AmlProgram(t, d, o, h, size, program) ==
  AmlRun(Start(t, o, AmlHead(t, d, size), program), program, d, o, h, size)

do_native_resource_to_aml(t, d, o, length) ==
  AmlProgram(t, d, o, aml_resource_kind_to_header_size(t),
             length - aml_resource_kind_to_header_size(t), to_aml(t))

(* ---- the AML compiler: the template of a sequence of resources --------- *)

\* r: [t, sub (type, serial type), seed, less (one byte less), mask, items,
\*     index, src, label, vendor]
StructOf(r) == IF r.t = "serial" THEN SerialNames[r.sub] ELSE r.t

Str(text) == IF text = <<>> THEN <<>> ELSE text \o <<0>>

Pattern(r, o) == ((r.seed * 31) + (o * 13) + 7) % 256

DefinedBits(r, f) ==
  CASE r.t = "irq"                             -> 57
    [] r.t = "dma"                             -> 103
    [] f = "information"                       -> 1
    [] f = "type_flags"                        -> <<63, 51, 255>>[r.sub + 1]
    [] r.t = "start_dependent"                 -> 15
    [] r.t = "extended_irq"                    -> 31
    [] r.t = "serial" /\ f = "flags"           -> 7
    [] f = "type_specific_flags"               -> <<1, 3, 255, 255>>[r.sub]
    [] r.t = "clock_input"                     -> 7
    [] f = "connection_flags"                  -> <<31, 11, 255>>[r.sub + 1]
    [] r.t \in {"gpio_connection", "pin_function", "pin_group"} -> 1
    [] r.t \in {"pin_configuration", "pin_group_function",
                "pin_group_configuration"}     -> 3
    [] OTHER                                   -> 15

FlagFields == {"flags", "information", "type_flags", "type_specific_flags",
               "connection_flags", "general_flags"}

Laid(r, f, fixed) ==
  LET source == fixed + (2 * Len(r.items))
      label  == source + Len(Str(r.src))
  IN  CASE f \in {"irq_mask", "channel_mask"} -> Masked(r.mask)
        [] f \in FlagFields          -> Pattern(r, 3) & DefinedBits(r, f)
        [] f = "num_irqs"            -> Len(r.items)
        [] f = "pin_table_offset"    -> fixed
        [] f = "source_offset"       -> source
        [] f = "source_lable_offset" -> label
        [] f = "vendor_data_offset"  -> label + Len(Str(r.label))
        [] f = "vendor_data_length"  -> Len(r.vendor)
        [] f = "type_data_length"    -> SerialExtra(AmlSizeof, r.sub) + Len(r.vendor)
        [] f = "type"                -> r.sub
        [] OTHER                     -> 0

Computed(r, f) == Laid(r, f, AmlSizeof[StructOf(r)])

ComputedFields ==
  FlagFields \cup
  {"irq_mask", "channel_mask", "num_irqs", "pin_table_offset", "source_offset",
   "source_lable_offset", "vendor_data_offset", "vendor_data_length",
   "type_data_length", "type", "rsvd", "checksum"}

FieldBytes(r, f, w) ==
  IF f \in ComputedFields THEN SubSeq(Wide(Computed(r, f)), 1, w)
  ELSE [k \in 1..w |-> Pattern(r, At(AML_O(StructOf(r), f)) + k)]

AllFields(r, struct, skip) ==
  FlattenSeq([i \in 1..(Len(struct) - skip) |->
                FieldBytes(r, struct[i + skip][1], struct[i + skip][2])])

Shortened(r, bytes) == IF r.less THEN SubSeq(bytes, 1, Len(bytes) - 1) ELSE bytes

FixedPart(r) ==
  Shortened(r, AllFields(r, AmlStruct(StructOf(r)), IF Large(r.t) THEN 2 ELSE 1))

Indexed(r) == IF r.index THEN <<Pattern(r, 90)>> \o Str(r.src) ELSE <<>>

ItemBytes(r, w) ==
  FlattenSeq([i \in 1..Len(r.items) |-> [k \in 1..w |-> (r.items[i] + k) % 256]])

VariablePart(r) ==
  CASE r.t \in {"address16", "address32", "address64"} -> Indexed(r)
    [] r.t = "extended_irq" -> ItemBytes(r, 4) \o Indexed(r)
    [] r.t = "serial"       -> r.vendor \o Str(r.src)
    [] OTHER -> ItemBytes(r, 2) \o Str(r.src) \o Str(r.label) \o r.vendor

Framed(r, body) ==
  (IF Large(r.t) THEN <<128 + LargeCode[r.t]>> \o Wide(Len(body))
                 ELSE <<(SmallCode[r.t] * 8) + Len(body)>>) \o body

Encode(r) == Framed(r, FixedPart(r) \o VariablePart(r))

Buffer(bytes) == [k \in 0..(Len(bytes) - 1) |-> bytes[k + 1]]

(* ---- the passes --------------------------------------------------------- *)

SizeOf(m) == Cardinality(DOMAIN m)

get_aml_resource_size(t, d) == IF Large(t) THEN Word(aml, d + 1) ELSE aml[d] % 8

\* What uacpi_for_each_aml_resource asks of a resource before its callback.
Fits(t, size, least) ==
  CASE size_kind(t) = "fixed"    -> size = least
    [] size_kind(t) = "variable" -> size >= least
    [] OTHER                     -> size \in {least, least - 1}

ValidAs(t, d, h, left) ==
  /\ t # ""
  /\ h <= left
  /\ get_aml_resource_size(t, d) <= left - h
  /\ Fits(t, get_aml_resource_size(t, d), aml_size(t))
  /\ t = "serial" => aml[d + At(AML_O(t, "type"))] \in 1..4

Valid(d, t) == ValidAs(t, d, aml_resource_kind_to_header_size(t), SizeOf(aml) - d)

TypeAt(d) == get_aml_resource_type(aml[d])

SizeAt(d) == get_aml_resource_size(TypeAt(d), d)

NextAml(d) == d + SizeAt(d) + aml_resource_kind_to_header_size(TypeAt(d))

MaskAt(d) == IF TypeAt(d) = "irq" THEN BitsOf(Word(aml, d + 1)) ELSE BitsOf(aml[d + 1])

Counted(d) == TypeAt(d) \in {"irq", "dma"}

\* uacpi_popcount only shifts when the lowest bit is set, so it does not
\* return unless the bits are 0..n-1; and it returns no value.
popcount_hangs(d) == Counted(d) /\ MaskAt(d) # 0..(Cardinality(MaskAt(d)) - 1)

popcount_results(d) == IF Counted(d) THEN {0, Cardinality(MaskAt(d))} ELSE {0}

Wrong(d, x) == Counted(d) /\ x # Cardinality(MaskAt(d))

Init ==
  /\ res = <<>> /\ aml = <<>> /\ pc = "idle" /\ at = 0 /\ out = 0
  /\ native = <<>> /\ total = 0 /\ starts = <<>> /\ back = <<>> /\ undef = FALSE

Begin(resources, bytes) ==
  /\ pc = "idle"
  /\ res' = resources /\ aml' = Buffer(bytes) /\ pc' = "measure"
  /\ UNCHANGED <<at, out, native, total, starts, back, undef>>

Fail == /\ pc' = "failed" /\ native' = <<>> /\ back' = <<>>
        /\ UNCHANGED <<res, aml, at, out, total, starts, undef>>

accumulate_native_buffer_size ==
  /\ pc = "measure"
  /\ IF at = SizeOf(aml) \/ ~Valid(at, TypeAt(at)) THEN Fail
     ELSE IF popcount_hangs(at)
     THEN pc' = "hung" /\ UNCHANGED <<res, aml, at, out, native, total, starts, back, undef>>
     ELSE \E x \in popcount_results(at) :
            /\ out' = out + native_size_for_aml_resource(TypeAt(at), at, SizeAt(at), x)
            /\ undef' = (undef \/ Wrong(at, x))
            /\ at' = NextAml(at)
            /\ pc' = IF TypeAt(at) = "end_tag" THEN "allocate" ELSE "measure"
            /\ UNCHANGED <<res, aml, native, total, starts, back>>

\* uacpi_native_resources_from_aml between its two passes.
Allocate ==
  /\ pc = "allocate"
  /\ pc' = "convert" /\ native' = Zeros(out) /\ total' = out /\ out' = 0 /\ at' = 0
  /\ UNCHANGED <<res, aml, starts, back, undef>>

AllocationFails == pc \in {"allocate", "allocate_aml"} /\ Fail

\* c is the end of the conversion of the resource at at, length its size.
NativeDone(c, length, x) ==
  IF c.st # "ok" THEN Fail
  ELSE /\ native' = c.m
       /\ starts' = Append(starts, out)
       /\ out' = out + length
       /\ undef' = (undef \/ Wrong(at, x))
       /\ at' = NextAml(at)
       /\ pc' = IF TypeAt(at) = "end_tag" THEN "ready" ELSE "convert"
       /\ UNCHANGED <<res, aml, total, back>>

NativeConverted(t, size, length, x) ==
  NativeDone(do_aml_resource_to_native(t, at, out, size, length), length, x)

aml_resources_to_native ==
  /\ pc = "convert"
  /\ \E x \in popcount_results(at) :
       NativeConverted(TypeAt(at), SizeAt(at),
                       native_size_for_aml_resource(TypeAt(at), at, SizeAt(at), x), x)

\* The driver gives the resources back, with or without their end tag.
uacpi_set_resources ==
  /\ pc = "ready"
  /\ total' \in {total, starts[Len(starts)]}
  /\ pc' = "measure_aml" /\ at' = 0 /\ out' = 0
  /\ UNCHANGED <<res, aml, native, starts, back, undef>>

NativeAt(o) == native_resource_to_type(native[o])

\* What uacpi_for_each_resource asks of a native resource.
Sound(o) ==
  /\ total - o >= 4
  /\ native[o] < Len(NativeTypes)
  /\ Word(native, o + 4) <= total - o

EndTag(o) == NativeAt(o) = "end_tag"

accumulate_aml_buffer_size ==
  /\ pc = "measure_aml"
  /\ IF at = total
     THEN /\ out' = out + aml_size_with_header("end_tag")
          /\ pc' = "allocate_aml"
          /\ UNCHANGED <<res, aml, at, native, total, starts, back, undef>>
     ELSE IF ~Sound(at) THEN Fail
     ELSE /\ out' = out + size_for_aml(at, NativeAt(at))
          /\ at' = at + Word(native, at + 4)
          /\ pc' = IF EndTag(at) THEN "allocate_aml" ELSE "measure_aml"
          /\ UNCHANGED <<res, aml, native, total, starts, back, undef>>

\* uacpi_native_resources_to_aml between its two passes.
AllocateAml ==
  /\ pc = "allocate_aml"
  /\ pc' = "convert_aml" /\ back' = Zeros(out) /\ out' = 0 /\ at' = 0
  /\ UNCHANGED <<res, aml, native, total, starts, undef>>

AmlDone(t, c, length) ==
  IF c.st # "ok" THEN Fail
  ELSE /\ back' = c.m
       /\ out' = out + length
       /\ at' = IF at = total THEN at ELSE at + Word(native, at + 4)
       /\ pc' = IF t = "end_tag" THEN "done" ELSE "convert_aml"
       /\ UNCHANGED <<res, aml, native, total, starts, undef>>

AmlConverted(t, length) ==
  AmlDone(t, do_native_resource_to_aml(t, out, at, length), length)

SizedFor(t) == AmlConverted(t, size_for_aml(at, t))

native_resources_to_aml ==
  /\ pc = "convert_aml"
  /\ SizedFor(IF at = total THEN "end_tag" ELSE NativeAt(at))

Next ==
  \/ pc = "idle" /\ \E r \in Templates :
       Begin(r, FlattenSeq([i \in 1..Len(r) |-> Encode(r[i])]))
  \/ pc = "idle" /\ \E b \in Broken : Begin(<<>>, b)
  \/ accumulate_native_buffer_size
  \/ Allocate
  \/ AllocationFails
  \/ aml_resources_to_native
  \/ uacpi_set_resources
  \/ accumulate_aml_buffer_size
  \/ AllocateAml
  \/ native_resources_to_aml

Spec == Init /\ [][Next]_vars

(* ---- properties ---------------------------------------------------------- *)

Kept(i, f, w) ==
  LET r == res[i]
      n == StructOf(r)
  IN  Bytes(native, starts[i] + 8 + At(NATIVE_O(n, f)), w) = FieldBytes(r, f, w)

\* The native name whose total and text are at l and p is the given text, the
\* last lost of its characters apart.
NamedAt(o, l, p, text, lost) ==
  /\ Word(native, o + l) = Len(text)
  /\ Len(text) > lost =>
       Bytes(native, native[o + p] - Base, Len(text) - lost) = SubSeq(text, 1, Len(text) - lost)

Named(i, l, p, text, lost) ==
  NamedAt(starts[i] + 8, At(NATIVE_O(res[i].t, l)), At(NATIVE_O(res[i].t, p)), Str(text), lost)

WidthsOf(struct) == {<<struct[i][1], struct[i][2]>> : i \in 1..Len(struct)}

\* The fields both structures of a resource name, with the same width.
CommonFields ==
  [n \in AllStructs |-> WidthsOf(AmlStruct(n)) \cap WidthsOf(NativeStruct(n))]

HasSource(t) == "source.index" \in FieldsOf(NativeStruct(t))

HasLabel(t) == "label.length" \in FieldsOf(NativeStruct(t))

\* A clock input whose name, with its terminator, is one byte longer than a
\* multiple of eight: its native size is a byte short, and the next resource is
\* written over the terminator.
ShortClock(i) ==
  /\ res[i].t = "clock_input" /\ Len(res[i].src) > 0
  /\ Len(Str(res[i].src)) % 8 = 1

\* Five bytes from data_bit_length on are copied to the native SPI connection,
\* where device_selection is aligned: its low byte goes to the padding.
SelectionIs(i) ==
  Bytes(native, starts[i] + 8 + At(NATIVE_O(StructOf(res[i]), "device_selection")), 2)
    = <<FieldBytes(res[i], "device_selection", 2)[2], 0>>

NativeIs(i) ==
  LET r == res[i]
  IN  /\ native[starts[i]] = NativeType(StructOf(r))
      /\ \A f \in CommonFields[StructOf(r)] :
           IF f[1] = "device_selection" THEN SelectionIs(i) ELSE Kept(i, f[1], f[2])
      /\ HasSource(r.t) =>
           Named(i, "source.length", "source.string", r.src, IF ShortClock(i) THEN 1 ELSE 0)
      /\ HasLabel(r.t) => Named(i, "label.length", "label.string", r.label, 0)

Converted == pc \in {"ready", "measure_aml", "allocate_aml", "convert_aml", "done"}

\* Both passes agree on where every native resource lies, nothing is written
\* outside the buffer the first pass measured, and each native resource holds
\* the fields and the names of its descriptor after all of them were written,
\* with two exceptions: device_selection of an SPI connection holds its high
\* byte only, and the name of a clock input may lose its terminator to the
\* next resource (ShortClock).  A template with an IRQ or DMA mask is converted
\* at all only if the mask has the bits 0..n-1, since uacpi_popcount loops for
\* ever on any other (hung); and as it has no return statement, the property
\* claims nothing when what it left in the register is not the count (undef).
NativeExact ==
  Converted /\ ~undef =>
    /\ Len(starts) = Len(res)
    /\ DOMAIN native = 0..(SizeOf(native) - 1)
    /\ (pc = "ready" => out = total /\ SizeOf(native) = total)
    /\ \A i \in 1..Len(res) : NativeIs(i)

\* where the terminators of the names of short clock inputs are in the template
LostEnds ==
  {Len(FlattenSeq([j \in 1..i |-> Encode(res[j])])) - 1 :
     i \in {k \in 1..Len(res) : ShortClock(k)}}

\* The template that is given to _SRS is the template _CRS returned, byte for
\* byte but for the terminators lost by clock inputs, whether or not the driver
\* kept the end tag.
TemplateRestored ==
  pc = "done" /\ ~undef =>
    /\ DOMAIN back = DOMAIN aml
    /\ \A k \in DOMAIN aml \ LostEnds : back[k] = aml[k]

\* The two together, for the resources of resources.c.
ResourcesExact == NativeExact /\ TemplateRestored

=============================================================================

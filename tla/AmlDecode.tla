----------------------------- MODULE AmlDecode -----------------------------
(***************************************************************************)
(* The AML decoder: exec_op runs the byte code that opcodes.h and opcodes.c *)
(* give for every AML opcode.  The byte code collects items (objects,       *)
(* immediates, package lengths, namespace nodes), waits for the ops that    *)
(* compute its arguments, and invokes the handler of the opcode, which      *)
(* picks the items up again by their index.  Nothing but convention ties    *)
(* the indices in interpreter.c to the byte code in opcodes.h.              *)
(*                                                                          *)
(* Values are abstracted to whether a handle is NULL and to what the byte   *)
(* code branches on; types are kept.                                        *)
(*                                                                          *)
(* Opcodes built by one macro have one byte code and one handler: a member  *)
(* stands for all of them (Add for the binary maths, Local for Local0..7).  *)
(***************************************************************************)
EXTENDS Integers, Sequences, FiniteSets, TLC

(* The byte code.  Immediate bytes are written as the strings Num reads.    *)

Num == [s \in {"0", "1", "2", "3", "4", "5", "6", "7", "8", "9", "15", "44"} |->
          CASE s = "0" -> 0 [] s = "1" -> 1 [] s = "2" -> 2 [] s = "3" -> 3
            [] s = "4" -> 4 [] s = "5" -> 5 [] s = "6" -> 6 [] s = "7" -> 7
            [] s = "8" -> 8 [] s = "9" -> 9 [] s = "15" -> 15 [] OTHER -> 44]

WaitOps ==
    {"SIMPLE_NAME", "SUPERNAME", "SUPERNAME_OR_UNRESOLVED", "TERM_ARG",
     "TERM_ARG_UNWRAP_INTERNAL", "TERM_ARG_OR_NAMED_OBJECT",
     "TERM_ARG_OR_NAMED_OBJECT_OR_UNRESOLVED", "OPERAND", "STRING",
     "COMPUTATIONAL_DATA", "TARGET"}

NameOps ==
    {"CREATE_NAMESTRING", "CREATE_NAMESTRING_OR_NULL_IF_LOAD",
     "EXISTING_NAMESTRING", "EXISTING_NAMESTRING_OR_NULL",
     "EXISTING_NAMESTRING_OR_NULL_IF_LOAD"}

ParseOps ==
    WaitOps \cup NameOps \cup
    {"END", "SKIP_WITH_WARN_IF_NULL", "PKGLEN", "TRACKED_PKGLEN", "INVOKE_HANDLER",
     "OBJECT_ALLOC", "EMPTY_OBJECT_ALLOC", "OBJECT_ALLOC_TYPED",
     "OBJECT_CONVERT_TO_SHALLOW_COPY", "OBJECT_CONVERT_TO_DEEP_COPY",
     "RECORD_AML_PC", "LOAD_INLINE_IMM_AS_OBJECT", "LOAD_INLINE_IMM",
     "LOAD_ZERO_IMM", "LOAD_IMM", "LOAD_IMM_AS_OBJECT", "LOAD_FALSE_OBJECT",
     "LOAD_TRUE_OBJECT", "TRUNCATE_NUMBER", "TYPECHECK", "INSTALL_NAMESPACE_NODE",
     "OBJECT_TRANSFER_TO_PREV", "OBJECT_COPY_TO_PREV", "STORE_TO_TARGET",
     "STORE_TO_TARGET_INDIRECT", "UNREACHABLE", "BAD_OPCODE", "AML_PC_DECREMENT",
     "IMM_DECREMENT", "ITEM_POP", "DISPATCH_METHOD_CALL", "DISPATCH_TABLE_LOAD",
     "CONVERT_NAMESTRING", "IF_HAS_DATA", "IF_NULL", "IF_NOT_NULL", "IF_EQUALS", "JMP"}

\* The item a parse op appends before it runs.
parse_op_generates_item(o) ==
    CASE o \in WaitOps \cup {"EMPTY_OBJECT_ALLOC"} -> "empty"
      [] o \in {"PKGLEN", "TRACKED_PKGLEN"} -> "pkg"
      [] o \in {"CREATE_NAMESTRING", "CREATE_NAMESTRING_OR_NULL_IF_LOAD"} -> "localnode"
      [] o \in NameOps -> "node"
      [] o \in {"LOAD_INLINE_IMM", "LOAD_ZERO_IMM", "LOAD_IMM", "RECORD_AML_PC"} -> "imm"
      [] o \in {"LOAD_INLINE_IMM_AS_OBJECT", "LOAD_IMM_AS_OBJECT", "LOAD_FALSE_OBJECT",
                "LOAD_TRUE_OBJECT", "OBJECT_ALLOC", "OBJECT_ALLOC_TYPED",
                "OBJECT_CONVERT_TO_SHALLOW_COPY", "OBJECT_CONVERT_TO_DEEP_COPY"} -> "object"
      [] OTHER -> "none"

Op(code, props) == [code |-> code, props |-> props]

T == {"TERM_ARG"}
AnyName == {"SIMPLE_NAME", "SUPERNAME", "TERM_ARG"}
Transfer == <<"OBJECT_TRANSFER_TO_PREV">>
Alloc(type) == <<"OBJECT_ALLOC_TYPED", type, "INVOKE_HANDLER">>
Eight(b) == [i \in 1..8 |-> b]

UACPI_METHOD_CALL_OPCODE(nargs) ==
    Op(<<"LOAD_INLINE_IMM", "1", nargs,
         "IF_NOT_NULL", "1", "6",
             "TERM_ARG_UNWRAP_INTERNAL",
             "OBJECT_CONVERT_TO_SHALLOW_COPY",
             "IMM_DECREMENT", "1",
             "JMP", "3",
         "OBJECT_ALLOC", "DISPATCH_METHOD_CALL">> \o Transfer, T \cup {"RESERVED"})

UACPI_UNRESOLVED_NAME_STRING_OP ==
    Op(<<"AML_PC_DECREMENT", "EXISTING_NAMESTRING_OR_NULL", "CONVERT_NAMESTRING">>, AnyName)

UACPI_BUILD_LOCAL_OR_ARG_OP ==
    Op(<<"EMPTY_OBJECT_ALLOC", "INVOKE_HANDLER">> \o Transfer, AnyName)

UACPI_BUILD_PACKAGE_OP(jmp_off, count) ==
    Op(<<"TRACKED_PKGLEN">> \o count \o
       <<"IF_HAS_DATA", "4",
             "RECORD_AML_PC",
             "TERM_ARG_OR_NAMED_OBJECT_OR_UNRESOLVED",
             "JMP", jmp_off>> \o Alloc("package") \o Transfer, T)

UACPI_BUILD_BINARY_MATH_OP ==
    Op(<<"OPERAND", "OPERAND", "TARGET">> \o Alloc("integer") \o
       <<"TRUNCATE_NUMBER", "STORE_TO_TARGET", "2", "OBJECT_COPY_TO_PREV">>, T)

UACPI_BUILD_UNARY_MATH_OP ==
    Op(<<"OPERAND", "TARGET">> \o Alloc("integer") \o
       <<"STORE_TO_TARGET", "1">> \o Transfer, T)

UACPI_DO_BUILD_BUFFER_FIELD_OP(node_idx, length) ==
    Op(<<"TERM_ARG_UNWRAP_INTERNAL", "TYPECHECK", "buffer", "OPERAND">> \o length \o
       <<"CREATE_NAMESTRING_OR_NULL_IF_LOAD", "SKIP_WITH_WARN_IF_NULL", node_idx>> \o
       Alloc("bufferfield") \o <<"INSTALL_NAMESPACE_NODE", node_idx>>, {})

UACPI_INTEGER_LITERAL_OP(bytes) ==
    Op(<<"LOAD_IMM_AS_OBJECT", bytes>> \o Transfer, T)

UACPI_BUILD_BINARY_LOGIC_OP ==
    Op(<<"COMPUTATIONAL_DATA", "COMPUTATIONAL_DATA">> \o Alloc("integer") \o Transfer, T)

UACPI_BUILD_TO_OP(dst_type) ==
    Op(<<"COMPUTATIONAL_DATA", "TARGET">> \o Alloc(dst_type) \o
       <<"STORE_TO_TARGET", "1">> \o Transfer, T)

UACPI_BUILD_INC_DEC_OP ==
    Op(<<"SUPERNAME">> \o Alloc("integer") \o
       <<"TRUNCATE_NUMBER", "STORE_TO_TARGET", "0">> \o Transfer, T)

\* 0x00 .. 0x15
FirstOpcodes ==
    [ZeroOp |-> Op(<<"LOAD_INLINE_IMM_AS_OBJECT">> \o Eight("0") \o Transfer,
                   {"TARGET", "TERM_ARG"}),
     OneOp |-> Op(<<"LOAD_INLINE_IMM_AS_OBJECT">> \o Eight("1") \o Transfer, T),
     AliasOp |-> Op(<<"EXISTING_NAMESTRING_OR_NULL_IF_LOAD",
                      "CREATE_NAMESTRING_OR_NULL_IF_LOAD",
                      "SKIP_WITH_WARN_IF_NULL", "0", "SKIP_WITH_WARN_IF_NULL", "1",
                      "INVOKE_HANDLER", "INSTALL_NAMESPACE_NODE", "1">>, {}),
     NameOp |-> Op(<<"CREATE_NAMESTRING_OR_NULL_IF_LOAD", "TERM_ARG_UNWRAP_INTERNAL",
                     "SKIP_WITH_WARN_IF_NULL", "0", "OBJECT_CONVERT_TO_DEEP_COPY",
                     "INVOKE_HANDLER", "INSTALL_NAMESPACE_NODE", "0">>, {}),
     QWordPrefix |-> UACPI_INTEGER_LITERAL_OP("8"),
     StringPrefix |-> Op(Alloc("string") \o Transfer, T),
     ScopeOp |-> Op(<<"TRACKED_PKGLEN", "EXISTING_NAMESTRING_OR_NULL_IF_LOAD",
                      "SKIP_WITH_WARN_IF_NULL", "1", "INVOKE_HANDLER">>, {}),
     BufferOp |-> Op(<<"TRACKED_PKGLEN", "OPERAND", "RECORD_AML_PC">> \o
                     Alloc("buffer") \o Transfer, T),
     PackageOp |-> UACPI_BUILD_PACKAGE_OP("3", <<"LOAD_IMM", "1">>),
     VarPackageOp |-> UACPI_BUILD_PACKAGE_OP("2", <<"OPERAND">>),
     MethodOp |-> Op(<<"TRACKED_PKGLEN", "CREATE_NAMESTRING_OR_NULL_IF_LOAD",
                       "LOAD_IMM", "1", "SKIP_WITH_WARN_IF_NULL", "1",
                       "RECORD_AML_PC">> \o Alloc("method") \o
                     <<"INSTALL_NAMESPACE_NODE", "1">>, {}),
     ExternalOp |-> Op(<<"EXISTING_NAMESTRING_OR_NULL", "LOAD_IMM", "1",
                         "LOAD_IMM", "1">>, {})]

\* 0x16 .. 0x6F: the reserved codes, the first characters of a name, Local, Arg
NameOpcodes ==
    [Reserved |-> Op(<<"BAD_OPCODE">>, {}),
     Internal |-> Op(<<"UNREACHABLE">>, {}),
     UnresolvedNameString |-> UACPI_UNRESOLVED_NAME_STRING_OP,
     Local0Op |-> UACPI_BUILD_LOCAL_OR_ARG_OP]

\* 0x70 .. 0x8F
ExpressionOpcodes ==
    [StoreOp |-> Op(<<"TERM_ARG", "OBJECT_COPY_TO_PREV", "SUPERNAME",
                      "INVOKE_HANDLER">>, T),
     RefOfOp |-> Op(<<"SUPERNAME", "OBJECT_ALLOC", "INVOKE_HANDLER">> \o Transfer, T),
     AddOp |-> UACPI_BUILD_BINARY_MATH_OP,
     ConcatOp |-> Op(<<"COMPUTATIONAL_DATA", "COMPUTATIONAL_DATA", "TARGET">> \o
                     Alloc("buffer") \o <<"STORE_TO_TARGET", "2",
                     "OBJECT_COPY_TO_PREV">>, T),
     IncrementOp |-> UACPI_BUILD_INC_DEC_OP,
     DivideOp |-> Op(<<"OPERAND", "OPERAND", "TARGET", "TARGET",
                       "OBJECT_ALLOC_TYPED", "integer">> \o Alloc("integer") \o
                     <<"STORE_TO_TARGET", "3", "OBJECT_COPY_TO_PREV",
                       "STORE_TO_TARGET_INDIRECT", "2", "4">>, T),
     NotOp |-> UACPI_BUILD_UNARY_MATH_OP,
     DerefOfOp |-> Op(<<"TERM_ARG_UNWRAP_INTERNAL", "OBJECT_ALLOC",
                        "INVOKE_HANDLER">> \o Transfer, T),
     ConcatResOp |-> Op(<<"TERM_ARG_UNWRAP_INTERNAL", "TYPECHECK", "buffer",
                          "TERM_ARG_UNWRAP_INTERNAL", "TYPECHECK", "buffer",
                          "TARGET">> \o Alloc("buffer") \o
                        <<"STORE_TO_TARGET", "2">> \o Transfer, T),
     NotifyOp |-> Op(<<"EXISTING_NAMESTRING_OR_NULL_IF_LOAD", "OPERAND",
                       "SKIP_WITH_WARN_IF_NULL", "0", "INVOKE_HANDLER">>, {}),
     SizeOfOp |-> Op(<<"SUPERNAME">> \o Alloc("integer") \o Transfer, T),
     IndexOp |-> Op(<<"TERM_ARG_UNWRAP_INTERNAL", "OPERAND", "TARGET",
                      "EMPTY_OBJECT_ALLOC", "INVOKE_HANDLER", "STORE_TO_TARGET", "2">> \o
                    Transfer, AnyName),
     MatchOp |-> Op(<<"TERM_ARG_UNWRAP_INTERNAL", "TYPECHECK", "package",
                      "LOAD_IMM", "1", "OPERAND", "LOAD_IMM", "1", "OPERAND",
                      "OPERAND">> \o Alloc("integer") \o Transfer, T),
     CreateByteFieldOp |-> UACPI_DO_BUILD_BUFFER_FIELD_OP("2", <<>>),
     ObjectTypeOp |-> Op(<<"TERM_ARG_OR_NAMED_OBJECT">> \o Alloc("integer") \o
                         Transfer, T)]

\* 0x90 .. 0xA5
LogicOpcodes ==
    [LandOp |-> UACPI_BUILD_BINARY_LOGIC_OP,
     LnotOp |-> Op(<<"OPERAND", "OBJECT_ALLOC", "INVOKE_HANDLER">> \o Transfer, T),
     ToBufferOp |-> UACPI_BUILD_TO_OP("buffer"),
     ToStringOp |-> Op(<<"TERM_ARG_UNWRAP_INTERNAL", "TYPECHECK", "buffer", "OPERAND",
                         "TARGET">> \o Alloc("string") \o
                       <<"STORE_TO_TARGET", "2">> \o Transfer, T),
     CopyObjectOp |-> Op(<<"TERM_ARG", "OBJECT_COPY_TO_PREV", "SIMPLE_NAME",
                           "INVOKE_HANDLER">>, T),
     MidOp |-> Op(<<"TERM_ARG_UNWRAP_INTERNAL", "OPERAND", "OPERAND", "TARGET">> \o
                  Alloc("buffer") \o <<"STORE_TO_TARGET", "3">> \o Transfer, T),
     ContinueOp |-> Op(<<"INVOKE_HANDLER">>, {}),
     IfOp |-> Op(<<"PKGLEN", "OPERAND", "INVOKE_HANDLER">>, {}),
     ElseOp |-> Op(<<"PKGLEN", "INVOKE_HANDLER">>, {}),
     NoopOp |-> Op(<<"END">>, {}),
     ReturnOp |-> Op(<<"TERM_ARG_UNWRAP_INTERNAL", "INVOKE_HANDLER">>, {})]

\* 0xA6 .. 0xFF: the internal ops a name is converted to
InternalOpcodes ==
    [InternalOpReadFieldAsBuffer |-> Op(Alloc("buffer") \o Transfer, T \cup {"RESERVED"}),
     InternalOpReadFieldAsInteger |-> Op(Alloc("integer") \o Transfer, T \cup {"RESERVED"}),
     InternalOpNamedObject |-> Op(<<"EMPTY_OBJECT_ALLOC", "INVOKE_HANDLER">> \o Transfer,
                                  AnyName \cup {"RESERVED"}),
     InternalOpMethodCall0Args |-> UACPI_METHOD_CALL_OPCODE("0"),
     InternalOpMethodCall2Args |-> UACPI_METHOD_CALL_OPCODE("2"),
     OnesOp |-> Op(<<"LOAD_INLINE_IMM_AS_OBJECT">> \o Eight("1") \o
                   <<"TRUNCATE_NUMBER">> \o Transfer, T)]

\* Field units: the elements of a Field, IndexField or BankField list
PARSE_FIELD_ELEMENTS(parse_loop_pc) ==
    <<"IF_HAS_DATA", "44",
        "LOAD_IMM", "1",
        "IF_EQUALS", "0", "3", "PKGLEN", "JMP", parse_loop_pc,
        "IF_EQUALS", "1", "6", "LOAD_IMM", "1", "LOAD_IMM", "1", "JMP", parse_loop_pc,
        "IF_EQUALS", "2", "5", "TERM_ARG_UNWRAP_INTERNAL", "TYPECHECK", "buffer",
                               "JMP", parse_loop_pc,
        "IF_EQUALS", "3", "8", "LOAD_IMM", "1", "LOAD_IMM", "1", "LOAD_IMM", "1",
                               "JMP", parse_loop_pc,
        "ITEM_POP", "AML_PC_DECREMENT", "CREATE_NAMESTRING", "PKGLEN",
        "OBJECT_ALLOC_TYPED", "fieldunit",
        "JMP", parse_loop_pc,
      "INVOKE_HANDLER", "END">>

uacpi_field_op_decode_ops ==
    <<"TRACKED_PKGLEN", "EXISTING_NAMESTRING", "LOAD_IMM", "1">> \o
    PARSE_FIELD_ELEMENTS("4")

uacpi_bank_field_op_decode_ops ==
    <<"TRACKED_PKGLEN", "EXISTING_NAMESTRING", "EXISTING_NAMESTRING", "OPERAND",
      "LOAD_IMM", "1">> \o PARSE_FIELD_ELEMENTS("6")

uacpi_index_field_op_decode_ops ==
    <<"TRACKED_PKGLEN", "EXISTING_NAMESTRING", "EXISTING_NAMESTRING",
      "LOAD_IMM", "1">> \o PARSE_FIELD_ELEMENTS("5")

uacpi_load_op_decode_ops ==
    <<"LOAD_ZERO_IMM", "OBJECT_ALLOC_TYPED", "method", "TERM_ARG_UNWRAP_INTERNAL",
      "TARGET", "INVOKE_HANDLER",
      "IF_NULL", "0", "3", "LOAD_FALSE_OBJECT", "JMP", "15",
      "LOAD_TRUE_OBJECT", "DISPATCH_TABLE_LOAD", "INVOKE_HANDLER",
      "STORE_TO_TARGET", "3", "OBJECT_TRANSFER_TO_PREV", "END">>

uacpi_load_table_op_decode_ops ==
    <<"LOAD_ZERO_IMM", "OBJECT_ALLOC_TYPED", "method", "LOAD_ZERO_IMM",
      "LOAD_INLINE_IMM", "1", "5",
      "IF_NOT_NULL", "3", "5", "STRING", "IMM_DECREMENT", "3", "JMP", "7",
      "TERM_ARG_UNWRAP_INTERNAL", "INVOKE_HANDLER",
      "IF_NULL", "0", "3", "LOAD_FALSE_OBJECT", "OBJECT_TRANSFER_TO_PREV", "END",
      "LOAD_TRUE_OBJECT", "DISPATCH_TABLE_LOAD", "INVOKE_HANDLER",
      "IF_NOT_NULL", "2", "3", "STORE_TO_TARGET_INDIRECT", "2", "9",
      "OBJECT_TRANSFER_TO_PREV", "END">>

UACPI_BUILD_NAMED_SCOPE_OBJECT_OP(type, imms) ==
    Op(<<"TRACKED_PKGLEN", "CREATE_NAMESTRING_OR_NULL_IF_LOAD">> \o imms \o
       <<"SKIP_WITH_WARN_IF_NULL", "1">> \o Alloc(type) \o
       <<"INSTALL_NAMESPACE_NODE", "1">>, {})

UACPI_BUILD_TO_FROM_BCD ==
    Op(<<"OPERAND", "TARGET">> \o Alloc("integer") \o
       <<"STORE_TO_TARGET", "1">> \o Transfer, T)

\* 0x5B00 .. 0x5B33
ExtOpcodes ==
    [MutexOp |-> Op(<<"CREATE_NAMESTRING_OR_NULL_IF_LOAD", "LOAD_IMM", "1",
                      "SKIP_WITH_WARN_IF_NULL", "0">> \o Alloc("mutex") \o
                    <<"INSTALL_NAMESPACE_NODE", "0">>, {}),
     EventOp |-> Op(<<"CREATE_NAMESTRING_OR_NULL_IF_LOAD",
                      "SKIP_WITH_WARN_IF_NULL", "0">> \o Alloc("event") \o
                    <<"INSTALL_NAMESPACE_NODE", "0">>, {}),
     CondRefOfOp |-> Op(<<"SUPERNAME_OR_UNRESOLVED", "TARGET",
                          "IF_NULL", "0", "3", "LOAD_FALSE_OBJECT",
                          "OBJECT_TRANSFER_TO_PREV", "END",
                          "OBJECT_ALLOC", "INVOKE_HANDLER", "STORE_TO_TARGET", "1",
                          "LOAD_TRUE_OBJECT">> \o Transfer, T),
     CreateFieldOp |-> UACPI_DO_BUILD_BUFFER_FIELD_OP("3", <<"OPERAND">>),
     LoadTableOp |-> Op(uacpi_load_table_op_decode_ops, T \cup {"OUT_OF_LINE"}),
     LoadOp |-> Op(uacpi_load_op_decode_ops, T \cup {"OUT_OF_LINE"}),
     StallOp |-> Op(<<"OPERAND", "INVOKE_HANDLER">>, {}),
     AcquireOp |-> Op(<<"SUPERNAME", "LOAD_IMM", "2", "LOAD_TRUE_OBJECT",
                        "INVOKE_HANDLER">> \o Transfer, T),
     SignalOp |-> Op(<<"SUPERNAME", "INVOKE_HANDLER">>, {}),
     WaitOp |-> Op(<<"SUPERNAME", "OPERAND", "LOAD_TRUE_OBJECT", "INVOKE_HANDLER">> \o
                   Transfer, T),
     FromBCDOp |-> UACPI_BUILD_TO_FROM_BCD,
     DebugOp |-> Op(<<"OBJECT_ALLOC_TYPED", "debug">> \o Transfer,
                    {"TERM_ARG", "SUPERNAME", "TARGET"}),
     FatalOp |-> Op(<<"LOAD_IMM", "1", "LOAD_IMM", "4", "OPERAND", "INVOKE_HANDLER">>, {}),
     TimerOp |-> Op(Alloc("integer") \o Transfer, T)]

\* 0x5B80 .. 0x5B88
ExtNamedOpcodes ==
    [OpRegionOp |-> Op(<<"CREATE_NAMESTRING_OR_NULL_IF_LOAD", "LOAD_IMM", "1", "OPERAND",
                         "OPERAND", "SKIP_WITH_WARN_IF_NULL", "0">> \o
                       Alloc("opregion") \o <<"INSTALL_NAMESPACE_NODE", "0">>, {}),
     FieldOp |-> Op(uacpi_field_op_decode_ops, {"OUT_OF_LINE"}),
     DeviceOp |-> UACPI_BUILD_NAMED_SCOPE_OBJECT_OP("device", <<>>),
     ProcessorOp |-> UACPI_BUILD_NAMED_SCOPE_OBJECT_OP("processor",
                        <<"LOAD_IMM", "1", "LOAD_IMM", "4", "LOAD_IMM", "1">>),
     PowerResOp |-> UACPI_BUILD_NAMED_SCOPE_OBJECT_OP("powerres",
                        <<"LOAD_IMM", "1", "LOAD_IMM", "2">>),
     IndexFieldOp |-> Op(uacpi_index_field_op_decode_ops, {"OUT_OF_LINE"}),
     BankFieldOp |-> Op(uacpi_bank_field_op_decode_ops, {"OUT_OF_LINE"}),
     DataRegionOp |-> Op(<<"CREATE_NAMESTRING_OR_NULL_IF_LOAD", "STRING", "STRING",
                           "STRING", "SKIP_WITH_WARN_IF_NULL", "0">> \o
                         Alloc("opregion") \o <<"INSTALL_NAMESPACE_NODE", "0">>, {})]

opcode_table ==
    FirstOpcodes @@ NameOpcodes @@ ExpressionOpcodes @@ LogicOpcodes @@
    InternalOpcodes @@ ExtOpcodes @@ ExtNamedOpcodes

---------------------------------------------------------------------------
CONSTANTS
    MaxItems,     \* IF_HAS_DATA finds no more data once an op has so many items
    Scenarios     \* a sequence of bounds, each the opcodes of every depth of nesting

VARIABLES
    scen,         \* the bound of this behaviour, an index into Scenarios
    stack,        \* pending_ops of the current frame, innermost last
    cur           \* exec_op's local `item`: an index into the items, 0 is NULL

vars == <<scen, stack, cur>>

---------------------------------------------------------------------------
(* What the handlers read: the index of an item and what they take it for.  *)
(* "object" is a non-null object of any type, any other name of a type an   *)
(* object of that type whose storage is used unchecked, "slot" the empty    *)
(* item a handler fills, "element" a package element that may be NULL.      *)

Is(it, want) ==
    CASE want \in {"pkg", "imm"} -> it.k = want
      [] want = "node" -> it.k \in {"node", "localnode"} /\ it.v = 1
      [] want = "slot" -> it.k = "empty"
      [] want = "element" -> it.k \in {"empty", "object"}
      [] want = "object" -> it.k = "object" /\ it.v = 1
      [] OTHER -> it.k = "object" /\ it.v = 1 /\ it.t = want

At(its, i, want) == i + 1 \in DOMAIN its /\ Is(its[i + 1], want)

Nothing == {}

DataReads(o, last) ==
    CASE o = "BufferOp" -> {<<2, "imm">>, <<0, "pkg">>, <<1, "integer">>, <<3, "buffer">>}
      [] o = "StringPrefix" -> {<<last, "string">>}
      [] o \in {"PackageOp", "VarPackageOp"} ->
             {<<last, "package">>,
              <<1, IF o = "VarPackageOp" THEN "integer" ELSE "imm">>} \cup
             UNION {{<<2 * i + 2, "imm">>, <<2 * i + 3, "element">>} :
                        i \in 0..((last - 2) \div 2) - 1}
      [] o = "Local0Op" -> {<<last, "slot">>}
      [] o = "InternalOpNamedObject" -> {<<0, "node">>, <<1, "slot">>}
      [] o = "InternalOpReadFieldAsBuffer" -> {<<0, "node">>, <<1, "buffer">>}
      [] o = "InternalOpReadFieldAsInteger" -> {<<0, "node">>, <<1, "integer">>}
      [] OTHER -> Nothing

CreateReads(o, last) ==
    CASE o = "AliasOp" -> {<<0, "node">>, <<1, "node">>}
      [] o = "NameOp" -> {<<0, "node">>, <<1, "object">>}
      [] o = "OpRegionOp" -> {<<0, "node">>, <<1, "imm">>, <<2, "integer">>,
                              <<3, "integer">>, <<4, "opregion">>}
      [] o = "DataRegionOp" -> {<<0, "node">>, <<1, "string">>, <<2, "string">>,
                                <<3, "string">>, <<4, "opregion">>}
      [] o = "MethodOp" -> {<<0, "pkg">>, <<1, "node">>, <<2, "imm">>, <<3, "imm">>,
                            <<4, "method">>}
      [] o = "MutexOp" -> {<<0, "node">>, <<1, "imm">>, <<2, "mutex">>}
      [] o = "EventOp" -> {<<0, "node">>, <<1, "event">>}
      [] o = "CreateByteFieldOp" -> {<<0, "buffer">>, <<1, "integer">>, <<2, "node">>,
                                     <<3, "bufferfield">>}
      [] o = "CreateFieldOp" -> {<<0, "buffer">>, <<1, "integer">>, <<2, "integer">>,
                                 <<3, "node">>, <<4, "bufferfield">>}
      [] o = "ScopeOp" -> {<<0, "pkg">>, <<1, "node">>}
      [] o = "DeviceOp" -> {<<0, "pkg">>, <<1, "node">>, <<last, "device">>}
      [] o = "ProcessorOp" -> {<<0, "pkg">>, <<1, "node">>, <<last, "processor">>,
                               <<2, "imm">>, <<3, "imm">>, <<4, "imm">>}
      [] o = "PowerResOp" -> {<<0, "pkg">>, <<1, "node">>, <<last, "powerres">>,
                              <<2, "imm">>, <<3, "imm">>}
      [] OTHER -> Nothing

ControlReads(o, last) ==
    CASE o = "IfOp" -> {<<0, "pkg">>, <<1, "integer">>}
      [] o = "ElseOp" -> {<<0, "pkg">>}
      [] o \in {"ReturnOp", "SignalOp"} -> {<<0, "object">>}
      [] o = "LoadOp" -> IF last = 4 THEN {<<4, "integer">>}
                         ELSE {<<2, "object">>, <<0, "imm">>, <<1, "method">>}
      [] o = "LoadTableOp" -> IF last = 10 THEN {<<10, "integer">>}
                              ELSE {<<i, "string">> : i \in 4..8} \cup
                                   {<<0, "imm">>, <<1, "method">>, <<2, "imm">>}
      [] o = "AcquireOp" -> {<<0, "object">>, <<1, "imm">>, <<2, "integer">>}
      [] o = "WaitOp" -> {<<0, "object">>, <<1, "integer">>, <<2, "integer">>}
      [] o = "NotifyOp" -> {<<0, "node">>, <<1, "integer">>}
      [] o = "FatalOp" -> {<<0, "imm">>, <<1, "imm">>, <<2, "integer">>}
      [] o \in {"StallOp", "TimerOp"} -> {<<0, "integer">>}
      [] OTHER -> Nothing

ExpressionReads(o, last) ==
    CASE o \in {"StoreOp", "CopyObjectOp"} -> {<<0, "object">>, <<1, "object">>}
      [] o \in {"RefOfOp", "DerefOfOp"} -> {<<0, "object">>, <<1, "object">>}
      [] o = "CondRefOfOp" -> {<<0, "object">>, <<2, "object">>}
      [] o \in {"IncrementOp", "SizeOfOp", "ObjectTypeOp"} -> {<<0, "object">>, <<1, "integer">>}
      [] o = "AddOp" -> {<<0, "integer">>, <<1, "integer">>, <<3, "integer">>}
      [] o = "DivideOp" -> {<<0, "integer">>, <<1, "integer">>, <<4, "integer">>,
                            <<5, "integer">>}
      [] o \in {"NotOp", "FromBCDOp"} -> {<<0, "integer">>, <<2, "integer">>}
      [] o = "LnotOp" -> {<<0, "integer">>, <<1, "object">>}
      [] o = "LandOp" -> {<<0, "object">>, <<1, "object">>, <<2, "integer">>}
      [] o = "ConcatOp" -> {<<0, "object">>, <<1, "object">>, <<3, "buffer">>}
      [] o = "ConcatResOp" -> {<<0, "buffer">>, <<1, "buffer">>, <<3, "buffer">>}
      [] o = "ToBufferOp" -> {<<0, "object">>, <<2, "buffer">>}
      [] o = "ToStringOp" -> {<<0, "buffer">>, <<1, "integer">>, <<3, "string">>}
      [] o = "MidOp" -> {<<0, "object">>, <<1, "integer">>, <<2, "integer">>, <<4, "buffer">>}
      [] o = "IndexOp" -> {<<0, "object">>, <<1, "integer">>, <<3, "slot">>}
      [] o = "MatchOp" -> {<<0, "package">>, <<1, "imm">>, <<2, "integer">>, <<3, "imm">>,
                           <<4, "integer">>, <<5, "integer">>, <<6, "integer">>}
      [] OTHER -> Nothing

FieldOps == {"FieldOp", "IndexFieldOp", "BankFieldOp"}

FieldHead(o) ==
    CASE o = "FieldOp" -> <<"node", "imm">>
      [] o = "BankFieldOp" -> <<"node", "node", "integer", "imm">>
      [] OTHER -> <<"node", "node", "imm">>

\* The loop of handle_create_field finds whole elements from item i on.
RECURSIVE FieldElements(_, _)
FieldElements(its, i) ==
    \/ i = Len(its)
    \/ /\ At(its, i, "node") /\ its[i + 1].k = "localnode"
       /\ At(its, i + 1, "pkg") /\ At(its, i + 2, "fieldunit")
       /\ FieldElements(its, i + 3)
    \/ /\ At(its, i, "imm")
       /\ \/ its[i + 1].v = 0 /\ At(its, i + 1, "pkg") /\ FieldElements(its, i + 2)
          \/ its[i + 1].v = 2 /\ At(its, i + 1, "buffer") /\ FieldElements(its, i + 2)
          \/ its[i + 1].v \in {1, 3} /\ LET n == its[i + 1].v + (IF its[i + 1].v = 1 THEN 2 ELSE 1)
                                        IN  /\ \A j \in 1..n - 1 : At(its, i + j, "imm")
                                            /\ FieldElements(its, i + n)

HandlerFinds(o, its) ==
    IF o \in FieldOps
    THEN /\ \A j \in DOMAIN FieldHead(o) : At(its, j, FieldHead(o)[j])
         /\ FieldElements(its, Len(FieldHead(o)) + 1)
    ELSE \A r \in DataReads(o, Len(its) - 1) \cup CreateReads(o, Len(its) - 1) \cup
                  ControlReads(o, Len(its) - 1) \cup ExpressionReads(o, Len(its) - 1) :
             At(its, r[1], r[2])

---------------------------------------------------------------------------
(* exec_op *)

Object(t) == [k |-> "object", t |-> t, v |-> 1]

\* What a type may be once the internal references around it are gone.
ObjTypes == {"integer", "string", "buffer", "package", "refof", "other"}
uacpi_unwrap_internal_reference(t) == IF t = "internal" THEN ObjTypes ELSE {t}

op_wants_supername(o) ==
    o \in {"SIMPLE_NAME", "SUPERNAME", "SUPERNAME_OR_UNRESOLVED", "TARGET"}

op_wants_term_arg_or_operand(o) ==
    o \in {"TERM_ARG", "TERM_ARG_UNWRAP_INTERNAL", "OPERAND", "STRING", "COMPUTATIONAL_DATA"}

op_allows_unresolved(o) ==
    o \in {"SUPERNAME_OR_UNRESOLVED", "TERM_ARG_OR_NAMED_OBJECT_OR_UNRESOLVED",
           "EXISTING_NAMESTRING_OR_NULL"}

op_allows_unresolved_if_load(o) ==
    o \in {"CREATE_NAMESTRING_OR_NULL_IF_LOAD", "EXISTING_NAMESTRING_OR_NULL_IF_LOAD"}

\* The byte at the cursor of a context.  decode_ops is an array of 16 bytes
\* whose tail is zero, and zero is END; the out-of-line ops end themselves.
ByteAt(c, n) ==
    LET code == c.spec.code
        p == c.pc + n
    IN  CASE p < Len(code) -> code[p + 1]
          [] p >= Len(code) /\ p < 16 /\ "OUT_OF_LINE" \notin c.spec.props -> "END"
          [] OTHER -> "outside"

Levels == Len(Scenarios[scen])
Depth == Len(stack)
Top == stack[Depth]
HasPrev == Depth > 1
PrevOp == IF HasPrev THEN ByteAt(stack[Depth - 1], 0) ELSE "END"

op_typecheck(want, props) ==
    props \cap (CASE want = "SIMPLE_NAME" -> {"SIMPLE_NAME"}
                  [] want = "TARGET" -> {"TARGET", "SUPERNAME"}
                  [] want \in {"SUPERNAME", "SUPERNAME_OR_UNRESOLVED"} -> {"SUPERNAME"}
                  [] OTHER -> {"TERM_ARG"}) # {}

Running == Depth > 0 /\ ~Top.preempted
Checked == Top.pc = 0 /\ HasPrev => op_typecheck(PrevOp, Top.spec.props)

O == ByteAt(Top, 0)
Arg(n) == Num[ByteAt(Top, n)]
Generates == parse_op_generates_item(O)

NewItem ==
    CASE O = "OBJECT_ALLOC_TYPED" -> Object(ByteAt(Top, 1))
      [] Generates = "object" /\ O # "OBJECT_ALLOC_TYPED" -> Object("other")
      [] OTHER -> [k |-> Generates, t |-> "none", v |-> 0]

\* The context after the byte at its cursor is fetched, and `item` then.
Fetched ==
    [Top EXCEPT !.pc = @ + (IF O = "OBJECT_ALLOC_TYPED" THEN 2 ELSE 1),
                !.items = IF Generates = "none" THEN @ ELSE Append(@, NewItem)]
Item == IF Generates # "none" \/ cur = 0 THEN Len(Fetched.items) ELSE cur

Put(c, i) ==
    /\ stack' = [stack EXCEPT ![Depth] = c]
    /\ cur' = i
    /\ UNCHANGED scen

Do(ops) == Running /\ Checked /\ O \in ops

Abort == stack' = <<>> /\ cur' = 0 /\ UNCHANGED scen

Set(c, i, it) == [c EXCEPT !.items[i] = it]
Jump(c, n) == [c EXCEPT !.pc = @ + n]

Init ==
    /\ scen \in DOMAIN Scenarios
    /\ stack = <<>>
    /\ cur = 0

\* get_op and push_op: the next op of the byte stream, a top-level op or the
\* one that computes the argument the innermost op waits for.
push_op ==
    /\ Depth > 0 => Top.preempted
    /\ Depth < Levels
    /\ LET specs == opcode_table IN \E o \in Scenarios[scen][Depth + 1] :
           IF "RESERVED" \in specs[o].props THEN Abort
           ELSE /\ stack' = Append(stack, [op |-> o, spec |-> specs[o], pc |-> 0,
                                           items |-> <<>>, tracked |-> 0, preempted |-> FALSE])
                /\ cur' = 0
                /\ UNCHANGED scen

Mistyped == Running /\ ~Checked /\ Abort

Pop ==
    /\ stack' = IF Depth = 1 THEN <<>>
                ELSE [SubSeq(stack, 1, Depth - 1) EXCEPT
                         ![Depth - 1].preempted = FALSE, ![Depth - 1].pc = @ + 1]
    /\ cur' = 0
    /\ UNCHANGED scen

END ==
    /\ Do({"END", "SKIP_WITH_WARN_IF_NULL"})
    /\ IF O = "END" \/ Top.items[Arg(1) + 1].v = 0 THEN Pop
       ELSE Put(Jump(Fetched, 1), Item)

Preempt ==
    /\ Do(WaitOps)
    /\ Put([Fetched EXCEPT !.pc = @ - 1, !.preempted = TRUE], 0)

PKGLEN ==
    /\ Do({"PKGLEN", "TRACKED_PKGLEN"})
    /\ \/ Put(IF O = "TRACKED_PKGLEN" THEN [Fetched EXCEPT !.tracked = Len(Fetched.items)]
              ELSE Fetched, Item)
       \/ Abort

LOAD_INLINE_IMM ==
    /\ Do({"LOAD_INLINE_IMM", "LOAD_INLINE_IMM_AS_OBJECT"})
    /\ IF O = "LOAD_INLINE_IMM"
       THEN Put(Jump(Set(Fetched, Item, [Fetched.items[Item] EXCEPT !.v = Arg(2)]),
                     1 + Arg(1)), Item)
       ELSE Put(Jump(Set(Fetched, Item, Object("integer")), 8), Item)

\* A value only matters where an IF_EQUALS looks at it.
LOAD_IMM ==
    /\ Do({"LOAD_IMM", "LOAD_IMM_AS_OBJECT"})
    /\ \/ /\ O = "LOAD_IMM"
          /\ \E v \in IF ByteAt(Top, 2) = "IF_EQUALS" THEN 0..4 ELSE {0} :
                 Put(Jump(Set(Fetched, Item, [Fetched.items[Item] EXCEPT !.v = v]), 1), Item)
       \/ O = "LOAD_IMM_AS_OBJECT" /\ Put(Jump(Set(Fetched, Item, Object("integer")), 1), Item)
       \/ Abort

LOAD_BOOL ==
    /\ Do({"LOAD_FALSE_OBJECT", "LOAD_TRUE_OBJECT"})
    /\ Put(Set(Fetched, Item, Object("integer")), Item)

\* Parse ops that leave the items as fetching left them.
Fetch ==
    /\ Do({"LOAD_ZERO_IMM", "RECORD_AML_PC", "TRUNCATE_NUMBER", "AML_PC_DECREMENT",
           "OBJECT_ALLOC", "OBJECT_ALLOC_TYPED", "EMPTY_OBJECT_ALLOC"})
    /\ Put(Fetched, Item)

TYPECHECK ==
    /\ Do({"TYPECHECK"})
    /\ IF Top.items[Item].t = ByteAt(Top, 1) THEN Put(Jump(Fetched, 1), Item) ELSE Abort

BAD_OPCODE == Do({"BAD_OPCODE", "UNREACHABLE"}) /\ Abort

IMM_DECREMENT ==
    /\ Do({"IMM_DECREMENT"})
    /\ Put(Jump([Fetched EXCEPT !.items[Arg(1) + 1].v = @ - 1], 1), Item)

ITEM_POP ==
    /\ Do({"ITEM_POP"})
    /\ Put([Fetched EXCEPT !.items = SubSeq(@, 1, Len(@) - 1)], Item)

IF_HAS_DATA ==
    /\ Do({"IF_HAS_DATA"})
    /\ \/ Len(Top.items) < MaxItems /\ Put(Jump(Fetched, 1), Item)
       \/ Put(Jump(Fetched, 1 + Arg(1)), Item)

IF_NULL ==
    /\ Do({"IF_NULL", "IF_NOT_NULL"})
    /\ LET is_null == Top.items[Arg(1) + 1].v = 0
       IN  Put(Jump(Fetched, IF is_null = (O = "IF_NOT_NULL") THEN 2 + Arg(2) ELSE 2), Item)

IF_EQUALS ==
    /\ Do({"IF_EQUALS"})
    /\ Put(Jump(Fetched, IF Top.items[Item].v # Arg(1) THEN 2 + Arg(2) ELSE 2), Item)

JMP == Do({"JMP"}) /\ Put([Fetched EXCEPT !.pc = Arg(1)], Item)

\* resolve_name_string finds or creates the node, or fails; a failure is let
\* through where an unresolved name is expected, or during a table load.
Namestring ==
    /\ Do(NameOps)
    /\ \/ Put(Set(Fetched, Item, [Fetched.items[Item] EXCEPT !.v = 1]), Item)
       \/ /\ O \notin {"CREATE_NAMESTRING", "CREATE_NAMESTRING_OR_NULL_IF_LOAD"}
          /\ IF HasPrev THEN op_allows_unresolved(PrevOp) /\ op_allows_unresolved(O)
             ELSE Top.op = "ExternalOp"
          /\ Put(Fetched, Item)
       \/ op_allows_unresolved_if_load(O) /\ Put(Fetched, Item)
       \/ Abort

INSTALL_NAMESPACE_NODE ==
    /\ Do({"INSTALL_NAMESPACE_NODE"})
    /\ \/ Put(Jump([Fetched EXCEPT !.items[Arg(1) + 1].v = 0], 1), Arg(1) + 1)
       \/ Abort

\* What a handler leaves in the items.
HandlerLeaves(o, its) ==
    LET n == Len(its)
        With(i, its2) == {[its EXCEPT ![i] = it] : it \in its2}
        Objects(ts) == {Object(t) : t \in ts}
    IN  CASE o \in {"Local0Op", "InternalOpNamedObject"} -> With(n, Objects({"internal"}))
          [] o \in {"RefOfOp", "CondRefOfOp"} -> With(n, Objects({"refof"}))
          [] o = "DerefOfOp" -> With(n, Objects(ObjTypes))
          [] o = "IndexOp" -> With(4, Objects({"bufindex", "pkgindex"}))
          [] o = "LnotOp" -> With(n, Objects({"integer"}))
          [] o \in {"ConcatOp", "MidOp"} -> With(n, Objects({"buffer", "string"}))
          [] o \in {"PackageOp", "VarPackageOp"} ->
                 {[i \in 1..n |-> IF its[i].k = "empty" THEN Object("string") ELSE its[i]]}
          [] o \in FieldOps ->
                 {[i \in 1..n |-> IF its[i].k = "localnode" THEN [its[i] EXCEPT !.v = 0]
                                  ELSE its[i]]}
          [] o = "LoadOp" /\ n = 4 -> With(1, {its[1], [its[1] EXCEPT !.v = 1]})
          [] o = "LoadTableOp" /\ n = 10 ->
                 {[its EXCEPT ![1].v = 1, ![3] = it] : it \in {its[3]} \cup Objects(ObjTypes)}
          [] o = "LoadTableOp" /\ n = 11 -> With(3, {its[3], [its[3] EXCEPT !.v = 0]})
          [] OTHER -> {its}

INVOKE_HANDLER ==
    /\ Do({"INVOKE_HANDLER"})
    /\ \/ \E its \in HandlerLeaves(Top.op, Top.items) : Put([Fetched EXCEPT !.items = its], Item)
       \/ Abort

\* The result goes into the item the waiting op reserved for it.
Deliver(src) ==
    /\ stack' = [stack EXCEPT ![Depth] = Fetched,
                              ![Depth - 1].items[Len(stack[Depth - 1].items)] = Object(src)]
    /\ cur' = Item
    /\ UNCHANGED scen

OBJECT_TO_PREV ==
    /\ Do({"OBJECT_TRANSFER_TO_PREV", "OBJECT_COPY_TO_PREV"})
    /\ LET t == Top.items[Item].t
           Typed(want) == \E src \in uacpi_unwrap_internal_reference(t) :
                              IF src \in want THEN Deliver(src) ELSE Abort
       IN  CASE ~HasPrev -> Put(Fetched, Item)
             [] PrevOp = "OPERAND" -> Typed({"integer"})
             [] PrevOp = "STRING" -> Typed({"string"})
             [] PrevOp = "COMPUTATIONAL_DATA" -> Typed({"string", "buffer", "integer"})
             [] PrevOp = "TERM_ARG_UNWRAP_INTERNAL" ->
                    \E src \in uacpi_unwrap_internal_reference(t) : Deliver(src)
             [] OTHER -> Deliver(t)

STORE_TO_TARGET ==
    /\ Do({"STORE_TO_TARGET", "STORE_TO_TARGET_INDIRECT"})
    /\ \/ Put(Jump(Fetched, IF O = "STORE_TO_TARGET" THEN 1 ELSE 2), Item)
       \/ Abort

OBJECT_CONVERT ==
    /\ Do({"OBJECT_CONVERT_TO_SHALLOW_COPY", "OBJECT_CONVERT_TO_DEEP_COPY"})
    /\ \/ Put([Fetched EXCEPT !.items = SubSeq(@, 1, Len(@) - 1)], Len(Top.items))
       \/ Abort

\* The callee runs in a frame of its own; exec_op is called again after it.
DISPATCH ==
    /\ Do({"DISPATCH_METHOD_CALL", "DISPATCH_TABLE_LOAD"})
    /\ \/ /\ O = "DISPATCH_METHOD_CALL"
          /\ \E t \in ObjTypes : Put(Set(Fetched, Len(Top.items), Object(t)), 0)
       \/ O = "DISPATCH_TABLE_LOAD" /\ Put(Fetched, 0)
       \/ Abort

\* The op becomes the one for the object the name stands for.
CONVERT_NAMESTRING ==
    /\ Do({"CONVERT_NAMESTRING"})
    /\ LET To(o) == Put([Fetched EXCEPT !.pc = 0, !.op = o, !.spec = opcode_table[o]], Item)
       IN  IF Top.items[Item].v = 0
           THEN IF op_allows_unresolved(PrevOp) THEN Put(Fetched, Item) ELSE Abort
           ELSE \/ To("InternalOpNamedObject")
                \/ /\ PrevOp \notin {"TERM_ARG_OR_NAMED_OBJECT",
                                     "TERM_ARG_OR_NAMED_OBJECT_OR_UNRESOLVED"}
                   /\ ~op_wants_supername(PrevOp)
                   /\ \/ To("InternalOpMethodCall0Args")
                      \/ Depth < Levels /\ To("InternalOpMethodCall2Args")
                \/ /\ op_wants_term_arg_or_operand(PrevOp)
                   /\ \/ To("InternalOpReadFieldAsBuffer")
                      \/ To("InternalOpReadFieldAsInteger")

Next ==
    \/ push_op \/ Mistyped \/ END \/ Preempt \/ PKGLEN \/ LOAD_INLINE_IMM \/ LOAD_IMM
    \/ LOAD_BOOL \/ Fetch \/ TYPECHECK \/ BAD_OPCODE \/ IMM_DECREMENT \/ ITEM_POP
    \/ IF_HAS_DATA \/ IF_NULL \/ IF_EQUALS \/ JMP \/ Namestring
    \/ INSTALL_NAMESPACE_NODE \/ INVOKE_HANDLER \/ OBJECT_TO_PREV \/ STORE_TO_TARGET
    \/ OBJECT_CONVERT \/ DISPATCH \/ CONVERT_NAMESTRING

Spec == Init /\ [][Next]_vars

---------------------------------------------------------------------------
(* Properties *)

\* What exec_op itself takes from the items for the op at the cursor.
DecoderFinds ==
    LET its == Top.items
        CurIs(want) == At(its, (IF cur = 0 THEN Len(its) ELSE cur) - 1, want)
    IN  CASE O = "INVOKE_HANDLER" -> HandlerFinds(Top.op, its)
          [] O \in {"SKIP_WITH_WARN_IF_NULL", "IF_NULL", "IF_NOT_NULL"} ->
                 Arg(1) + 1 \in DOMAIN its
          [] O = "INSTALL_NAMESPACE_NODE" -> At(its, Arg(1), "node")
          [] O = "IMM_DECREMENT" -> At(its, Arg(1), "imm") /\ its[Arg(1) + 1].v > 0
          [] O = "IF_HAS_DATA" -> Top.tracked > 0 /\ At(its, Top.tracked - 1, "pkg")
          [] O = "IF_EQUALS" -> CurIs("imm")
          [] O = "TRUNCATE_NUMBER" -> CurIs("integer")
          [] O = "TYPECHECK" -> CurIs("object")
          [] O \in {"OBJECT_TRANSFER_TO_PREV", "OBJECT_COPY_TO_PREV"} -> CurIs("object")
          [] O = "STORE_TO_TARGET" -> At(its, Arg(1), "object") /\ CurIs("object")
          [] O = "STORE_TO_TARGET_INDIRECT" -> At(its, Arg(1), "object") /\ At(its, Arg(2), "object")
          [] O \in {"OBJECT_CONVERT_TO_SHALLOW_COPY", "OBJECT_CONVERT_TO_DEEP_COPY"} ->
                 At(its, Len(its) - 1, "object")
          [] O = "DISPATCH_METHOD_CALL" ->
                 At(its, 0, "node") /\ \A i \in 2..Len(its) - 1 : At(its, i, "object")
          [] O = "DISPATCH_TABLE_LOAD" -> its[1].v = 1 /\ At(its, 1, "method")
          [] OTHER -> TRUE

\* exec_op never leaves the byte code of an op or takes one of its immediates
\* for a parse op, and wherever the byte code or a handler picks up an item by
\* index, the item is there, is not NULL and has the type whose storage is
\* used (opcodes.h against the item_array_at calls of interpreter.c).
ItemsExact == Running /\ Checked => O \in ParseOps /\ DecoderFinds

\* An op that resumes after waiting has its argument: an object, unless it
\* asked for a name that may stay unresolved (exec_op, the END case).
ArgumentArrives ==
    \A d \in 1..Depth :
        LET c == stack[d]
            o == ByteAt([c EXCEPT !.pc = @ - 1], 0)
        IN  ~c.preempted /\ c.pc > 0 /\ cur = 0 /\ d = Depth /\ o \in WaitOps /\ c.items # <<>>
            => \/ At(c.items, Len(c.items) - 1, "object")
               \/ /\ o \in {"SUPERNAME_OR_UNRESOLVED", "TERM_ARG_OR_NAMED_OBJECT_OR_UNRESOLVED"}
                  /\ At(c.items, Len(c.items) - 1, "slot")

============================================================================

----------------------------- MODULE MCAcpiData -----------------------------
(***************************************************************************)
(* Instances of what uACPI computes for TLC: field and register accesses,  *)
(* AML's arithmetic and conversions, formatted text, device identification *)
(* and resource templates. `part' chooses which component a behaviour      *)
(* exercises; the others rest.                                             *)
(***************************************************************************)
EXTENDS Resources, Integers

VARIABLES f, f_op, size, mem, sel, data, f_at, gl
fvars == <<f, f_op, size, mem, sel, data, f_at, gl>>
VARIABLES fadt, reg, r_op, bus, r_out, r_pc
rvars == <<fadt, reg, r_op, bus, r_out, r_pc>>
VARIABLES call, result
dvars == <<call, result>>
VARIABLES fmt, args, fb, ret, conv, given
pvars == <<fmt, args, fb, ret, conv, given>>
VARIABLES mode, dev, want, i_out, held, i_at, called
ivars == <<mode, dev, want, i_out, held, i_at, called>>
tvars == vars
VARIABLES scen, stack, cur
xvars == <<scen, stack, cur>>
VARIABLES code, scope, behavior, n_out, path, tree, temp
nvars == <<code, scope, behavior, n_out, path, tree, temp>>
VARIABLE part

(* FieldIo: nibbles for bytes; fields that start, end and cross anywhere *)
F == INSTANCE FieldIo WITH Byte <- 4, Offsets <- {0, 1, 3, 4, 5, 8, 10},
       Lengths <- {1, 3, 4, 5, 8, 9}, Widths <- {1, 2}, Sizes <- {1, 2, 3},
       RegionBytes <- 8, op <- f_op, at <- f_at

(* Registers: firmware tables with and without B blocks, extended blocks and split blocks *)
BlockNames == {"pm1a_evt", "pm1b_evt", "pm1a_cnt", "pm1b_cnt", "pm2_cnt", "pm_tmr"}
MCGas(s, a, w) == [space |-> s, address |-> a, width |-> w, offset |-> 0, access |-> 0]
Unset == [b \in BlockNames \cup {"slp_cnt", "slp_sts"} |-> MCGas("io", 0, 0)]
Legacy == [b \in BlockNames |->
    CASE b = "pm1a_evt" -> 8 [] b = "pm1b_evt" -> 16 [] b = "pm1a_cnt" -> 12
      [] b = "pm1b_cnt" -> 20 [] b = "pm2_cnt" -> 24 [] b = "pm_tmr" -> 28]
Lengths == [l \in {"evt", "cnt", "pm2_cnt", "pm_tmr"} |->
    CASE l = "cnt" -> 2 [] l = "pm2_cnt" -> 1 [] OTHER -> 4]
MCFadts ==
    {[legacy |-> lg, len |-> [Lengths EXCEPT !["evt"] = e, !["pm2_cnt"] = p], x |-> x] :
       lg \in {Legacy, [Legacy EXCEPT !["pm1b_evt"] = 0, !["pm1b_cnt"] = 0, !["pm2_cnt"] = 0]},
       e \in {4, 8}, p \in {0, 1},
       x \in {Unset, [Unset EXCEPT !["pm1a_evt"] = MCGas("io", 40, 32)],
              [Unset EXCEPT !["pm1b_evt"] = MCGas("mem", 40, 32)],
              [Unset EXCEPT !["pm1b_cnt"] = MCGas("mem", 40, 16), !["slp_cnt"] = MCGas("mem", 48, 8),
                            !["slp_sts"] = MCGas("mem", 49, 8)]}}
MCShapes ==
    {[space |-> s, address |-> a, width |-> w, offset |-> o, access |-> z] :
       s \in {"io", "mem", "pci"}, a \in {0, 8, 9, 10}, w \in {3, 8, 12, 16, 24, 32, 64},
       o \in {0, 4, 8, 20}, z \in 0 .. 5}
R == INSTANCE Registers WITH Fadts <- MCFadts, Shapes <- MCShapes, op <- r_op, out <- r_out,
       pc <- r_pc

(* AmlData: 8-bit integers (4-bit under revision 1), nibbles for bytes *)
MCInts == {0, 1, 2, 3, 7, 8, 9, 10, 15, 16, 99, 128, 254, 255}
MCBuffers == SeqOf({0, 1, 15}, 2) \cup {<<0, 1, 15>>, <<15, 0, 0>>, <<1, 0, 1>>}
MCTexts == {<<9>>, <<10>>, <<99>>, <<100>>, <<255>>, <<0, 255>>, <<99, 100, 9>>, <<100, 10, 9, 255>>}
\* "", "1", "0", " 1", "-1", "+255", "256", "0xfF", "0x100", "0377", "08", "0400", "a", "-0x2",
\* "-999", "9z", "0X1", "  +07", "--1"
MCStrings ==
    {<<>>, <<49>>, <<48>>, <<32, 49>>, <<45, 49>>, <<43, 50, 53, 53>>, <<50, 53, 54>>,
     <<48, 120, 102, 70>>, <<48, 120, 49, 48, 48>>, <<48, 51, 55, 55>>, <<48, 56>>,
     <<48, 52, 48, 48>>, <<97>>, <<45, 48, 120, 50>>, <<45, 57, 57, 57>>, <<57, 122>>,
     <<48, 88, 49>>, <<32, 32, 43, 48, 55>>, <<45, 45, 49>>}
MCLengths == {0, 1, 62, 63, 64, 65, 255, 256, 4095, 4096, 4097, 65535, 1048575, 1048576, 1048577,
              16777215}
D == INSTANCE AmlData WITH IntBits <- 8, Rev1Bits <- 4, ByteBits <- 4, DigitBits <- 4,
       Ints <- MCInts, Buffers <- MCBuffers, Texts <- MCTexts, Sizes <- MCLengths,
       Strings <- MCStrings

(* Printf: narrow C types; every flag, size and letter, buffers that are too small *)
Cv(fs, ws, ps, ss, ls) == [flags : fs, width : ws, precision : ps, size : ss, letter : ls]
NoPrecision == {<<"none">>}
MCFlags == {<<>>, <<"-">>, <<"0">>, <<"+">>, <<" ">>, <<"#">>, <<"#", "0">>, <<"0", "-">>, <<"+", " ">>}
MCConversions ==
    Cv(MCFlags, {<<>>, <<"*">>, <<"5">>, <<"1", "1">>}, NoPrecision, {<<>>},
       {"d", "o", "x", "X", "u", "p"})
    \cup Cv({<<>>, <<"0">>}, {<<>>}, {<<"none">>, <<"2">>, <<"*">>, <<>>}, {<<>>},
            {"i", "x", "c", "s"})
    \cup Cv({<<>>}, {<<>>}, NoPrecision, {<<>>, <<"h">>, <<"h", "h">>, <<"l">>, <<"l", "l">>, <<"z">>},
            {"d", "i", "u", "x", "q", "s"})
    \cup Cv({<<>>}, {<<>>}, NoPrecision, {<<>>}, {"%"})
P == INSTANCE Printf WITH CharBits <- 4, ShortBits <- 5, IntBits <- 6, LongBits <- 8,
       PtrDigits <- 4, Conversions <- MCConversions,
       Values <- {-128, -17, -1, 0, 1, 9, 10, 100, 127, 255}, Strs <- {<<"m", "n", "o">>},
       Capacities <- {0, 1, 4, 20}

(* DeviceInfo: every identifier method absent, failing, an integer, a string or a package *)
Ret(st, t, b) == [st |-> st, type |-> t, bytes |-> b, list |-> <<>>, flags |-> {}]
Gone == Ret("NOT_FOUND", "integer", <<0, 0, 0, 0>>)
Bad == Ret("ERROR", "integer", <<0, 0, 0, 0>>)
IntR(b) == Ret("OK", "integer", b)
StrR(b) == Ret("OK", "string", b)
PkgR(l) == [Ret("OK", "package", <<>>) EXCEPT !.list = l]
StaR(fl) == [IntR(<<0>>) EXCEPT !.flags = fl]
Pci == <<65, 208, 10, 3>>                          \* EISAID("PNP0A03")
PciText == <<80, 78, 80, 48, 65, 48, 51, 0>>       \* "PNP0A03"
Ec == <<65, 208, 12, 9>>
EcText == <<80, 78, 80, 48, 67, 48, 57, 0>>
Dev(k, h, c, s) == [kind |-> k, hid |-> h, cid |-> c, cls |-> Gone, uid |-> Gone, sta |-> s,
                    adr |-> Gone, sxd |-> <<Gone>>, sxw |-> <<Gone>>]
MCHids == {Gone, Bad, IntR(Pci), StrR(PciText), StrR(<<>>), PkgR(<<>>)}
MCCids == {Gone, IntR(Ec), StrR(EcText), StrR(<<>>), PkgR(<<>>), PkgR(<<IntR(Pci), StrR(EcText)>>),
           PkgR(<<StrR(<<65, 0>>), PkgR(<<>>)>>), Ret("OK", "buffer", <<>>)}
MCDevices ==
    {[kind |-> k, hid |-> h, cid |-> c, cls |-> l, uid |-> u, sta |-> Gone, adr |-> a,
      sxd |-> <<x, Gone, Gone, Gone>>, sxw |-> <<Gone, Bad, x, Gone, Gone>>] :
       k \in {"device", "method", "none"}, h \in MCHids, c \in MCCids,
       l \in {Gone, PkgR(<<IntR(<<1>>), IntR(<<6>>)>>)},
       u \in {Gone, IntR(<<0>>), IntR(<<120>>), StrR(<<90, 0>>), StrR(<<>>)},
       a \in {Gone, IntR(<<0>>)}, x \in {Gone, IntR(<<3>>)}}
MCKinds ==
    {Dev("device", IntR(Pci), Gone, Gone),
     Dev("device", StrR(EcText), IntR(Pci), StaR({"present", "functioning"})),
     Dev("device", Gone, PkgR(<<StrR(EcText), StrR(PciText)>>), StaR({"functioning"})),
     Dev("device", Bad, StrR(PciText), StaR({})),
     Dev("device", IntR(Ec), PkgR(<<PkgR(<<>>)>>), Gone),
     Dev("processor", IntR(Pci), Gone, Gone), Dev("device", IntR(Pci), Gone, Bad)}
MCFinds == {<<Dev("none", Gone, Gone, Gone), a, b, c>> : a, b, c \in MCKinds}
Route(s) == PkgR(<<IntR(<<1>>), IntR(<<2>>), s, IntR(<<0>>)>>)
MCTables ==
    {<<>>} \cup {<<a, b>> : a, b \in {Route(IntR(<<0>>)), Route(StrR(<<76, 0>>)),
                Route(Ret("NOT_FOUND", "string", <<88, 0>>)), PkgR(<<IntR(<<1>>)>>), IntR(<<1>>),
                Route(PkgR(<<>>))}}
I == INSTANCE DeviceInfo WITH Devices <- MCDevices, Finds <- MCFinds, Tables <- MCTables,
       Targets <- {<<PciText>>, <<EcText, PciText>>}, IdSize <- 16, InfoSize <- 96,
       out <- i_out, at <- i_at

(* Resources: one descriptor of every kind with its variable parts, alone and followed by another *)
Res0 == [t |-> "end_tag", sub |-> 0, seed |-> 0, less |-> FALSE, mask |-> {}, items |-> <<>>,
         index |-> FALSE, src |-> <<>>, label |-> <<>>, vendor |-> <<>>]
Res(t) == [Res0 EXCEPT !.t = t]
Names == {<<>>, <<65>>, <<65, 66, 67, 68, 69, 70, 71>>, <<65, 66, 67, 68, 69, 70, 71, 72>>}
Vend == {<<>>, <<200, 201, 202>>}
Simple == {Res(t) : t \in {"start_dependent", "end_dependent", "io", "fixed_io", "fixed_dma",
                           "memory24", "memory32", "fixed_memory32", "generic_register"}}
Small ==
    {[Res("start_dependent") EXCEPT !.less = TRUE]}
    \cup {[Res("irq") EXCEPT !.less = l, !.mask = m] : l \in BOOLEAN, m \in {{}, {0, 1, 2}, {3}}}
    \cup {[Res("dma") EXCEPT !.mask = m] : m \in {{0}, {0, 1, 2, 3, 4, 5}}}
Vendors == {[Res(t) EXCEPT !.vendor = v] :
              t \in {"vendor_type0", "vendor_type1"}, v \in Vend \cup {<<1, 2, 3, 4, 5, 6, 7>>}}
Addresses ==
    {[Res(t) EXCEPT !.sub = k, !.index = TRUE, !.src = n] :
       t \in {"address16", "address32", "address64"}, k \in 0 .. 2, n \in Names}
    \cup {[Res(t) EXCEPT !.sub = k] :
            t \in {"address16", "address32", "address64", "address64_extended"}, k \in 0 .. 2}
ExtIrqs ==
    {[Res("extended_irq") EXCEPT !.items = it, !.index = TRUE, !.src = n] :
       it \in {<<9>>, <<1, 2, 3>>}, n \in Names}
    \cup {[Res("extended_irq") EXCEPT !.items = it] : it \in {<<9>>, <<1, 2>>}}
Clocks == {[Res("clock_input") EXCEPT !.src = n] : n \in Names}
Pins ==
    {[Res(t) EXCEPT !.items = it, !.src = n, !.vendor = v] :
       t \in {"pin_function", "pin_configuration"}, it \in {<<>>, <<3>>, <<1, 2, 3>>}, n \in Names,
       v \in Vend}
    \cup {[Res("gpio_connection") EXCEPT !.sub = k, !.items = it, !.src = n, !.vendor = v] :
            k \in 0 .. 2, it \in {<<3>>, <<1, 2, 3>>}, n \in Names, v \in Vend}
    \cup {[Res("pin_group") EXCEPT !.items = it, !.label = n, !.vendor = v] :
            it \in {<<3>>, <<1, 2, 3>>}, n \in Names, v \in Vend}
    \cup {[Res(t) EXCEPT !.src = n, !.label = l, !.vendor = v] :
            t \in {"pin_group_function", "pin_group_configuration"}, l \in {<<76>>, <<76, 77, 78>>},
            n \in Names, v \in Vend}
Serials == {[Res("serial") EXCEPT !.sub = k, !.src = n, !.vendor = v] :
              k \in 1 .. 4, n \in Names, v \in Vend}
Descriptors ==
    {[r EXCEPT !.seed = k] : r \in Simple \cup Small \cup Vendors, k \in 0 .. 2}
    \cup Addresses \cup ExtIrqs \cup Clocks \cup Pins \cup Serials
Second == {Res("io"), [Res("vendor_type0") EXCEPT !.vendor = <<250>>]}
MCTemplates == {<<r, Res0>> : r \in Descriptors}
               \cup {<<r, q, Res0>> : r \in Descriptors, q \in Second}
MCBroken == {<<>>, <<71>>, <<71, 1, 2, 3, 4, 5, 6, 7>>, <<128, 0, 0>>, <<129, 1>>,
             <<34, 1, 0, 121>>, <<140, 20, 0>>}

(* AmlDecode: every opcode with every simple operand, and every opcode as an operand *)
Opcodes == INSTANCE AmlDecode WITH MaxItems <- 6, Scenarios <- <<>>
AllOps == DOMAIN Opcodes!opcode_table
Leaf == {"ZeroOp", "QWordPrefix", "StringPrefix", "UnresolvedNameString", "Local0Op", "DebugOp",
         "TimerOp"}
Waiters == {"StoreOp", "CopyObjectOp", "ReturnOp", "CondRefOfOp", "NotOp", "LandOp",
            "DataRegionOp", "ObjectTypeOp", "PackageOp"}
MCNesting == <<<<AllOps, Leaf>>, <<Waiters, AllOps, {"ZeroOp", "UnresolvedNameString", "StringPrefix"}>>>>
X == INSTANCE AmlDecode WITH MaxItems <- 6, Scenarios <- MCNesting

(* AmlNames: two names, five nodes, up to four cells of code *)
N == INSTANCE AmlNames WITH Segs <- {"A", "B"},
       Nodes <- {<<>>, <<"A">>, <<"A", "B">>, <<"A", "A">>, <<"B">>}, MaxCells <- 4,
       out <- n_out

FRests ==
    /\ f = 0 /\ f_op = 0 /\ size = 0 /\ mem = 0 /\ sel = 0 /\ data = 0 /\ f_at = 0 /\ gl = 0
RRests ==
    /\ fadt = 0 /\ reg = 0 /\ r_op = 0 /\ bus = 0 /\ r_out = 0 /\ r_pc = 0
DRests ==
    /\ call = 0 /\ result = 0
PRests ==
    /\ fmt = 0 /\ args = 0 /\ fb = 0 /\ ret = 0 /\ conv = 0 /\ given = 0
IRests ==
    /\ mode = 0 /\ dev = 0 /\ want = 0 /\ i_out = 0 /\ held = 0 /\ i_at = 0 /\ called = 0
TRests ==
    /\ res = 0 /\ aml = 0 /\ pc = 0 /\ at = 0 /\ out = 0 /\ native = 0 /\ total = 0
    /\ starts = 0 /\ back = 0 /\ undef = 0
XRests ==
    /\ scen = 0 /\ stack = 0 /\ cur = 0
NRests ==
    /\ code = 0 /\ scope = 0 /\ behavior = 0 /\ n_out = 0 /\ path = 0 /\ tree = 0
    /\ temp = 0

AllInit ==
    \/ part = "field" /\ F!Init /\ RRests /\ DRests /\ PRests /\ IRests /\ TRests /\ XRests /\ NRests
    \/ part = "register" /\ R!Init /\ FRests /\ DRests /\ PRests /\ IRests /\ TRests /\ XRests /\ NRests
    \/ part = "data" /\ D!Init /\ FRests /\ RRests /\ PRests /\ IRests /\ TRests /\ XRests /\ NRests
    \/ part = "format" /\ P!Init /\ FRests /\ RRests /\ DRests /\ IRests /\ TRests /\ XRests /\ NRests
    \/ part = "info" /\ I!Init /\ FRests /\ RRests /\ DRests /\ PRests /\ TRests /\ XRests /\ NRests
    \/ part = "resources" /\ Init /\ FRests /\ RRests /\ DRests /\ PRests /\ IRests /\ XRests /\ NRests
    \/ part = "decode" /\ X!Init /\ FRests /\ RRests /\ DRests /\ PRests /\ IRests /\ TRests /\ NRests
    \/ part = "names" /\ N!Init /\ FRests /\ RRests /\ DRests /\ PRests /\ IRests /\ TRests /\ XRests
AllNext ==
    \/ part = "field" /\ F!Next /\ UNCHANGED <<part, rvars, dvars, pvars, ivars, tvars, xvars, nvars>>
    \/ part = "register" /\ R!Next /\ UNCHANGED <<part, fvars, dvars, pvars, ivars, tvars, xvars, nvars>>
    \/ part = "data" /\ D!Next /\ UNCHANGED <<part, fvars, rvars, pvars, ivars, tvars, xvars, nvars>>
    \/ part = "format" /\ P!Next /\ UNCHANGED <<part, fvars, rvars, dvars, ivars, tvars, xvars, nvars>>
    \/ part = "info" /\ I!Next /\ UNCHANGED <<part, fvars, rvars, dvars, pvars, tvars, xvars, nvars>>
    \/ part = "resources" /\ Next /\ UNCHANGED <<part, fvars, rvars, dvars, pvars, ivars, xvars, nvars>>
    \/ part = "decode" /\ X!Next /\ UNCHANGED <<part, fvars, rvars, dvars, pvars, ivars, tvars, nvars>>
    \/ part = "names" /\ N!Next /\ UNCHANGED <<part, fvars, rvars, dvars, pvars, ivars, tvars, xvars>>
AllSpec == AllInit /\ [][AllNext]_<<part, fvars, rvars, dvars, pvars, ivars, tvars, xvars, nvars>>

(* FieldIo!FieldExact: a read of a field gives its bits and a write changes its bits
   and, by the update rule, nothing else; Registers!RegisterExact and !GasExact: a
   register is read from and written to the blocks the firmware table gives, within
   their bits in ports, and in memory with the bytes up to eight after it overwritten by
   zeros (uacpi_kernel_raw_memory_write), event blocks always in ports; AmlData!DataExact: every operator and conversion of AML computes what
   its definition says; Printf!FormatExact: uacpi_vsnprintf writes the text the
   conversions stand for, as much as fits, and returns its length. *)
ValuesExact ==
    /\ part = "field" => F!FieldExact
    /\ part = "register" => R!RegisterExact /\ R!GasExact
    /\ part = "data" => D!DataExact
    /\ part = "format" => P!FormatExact
(* DeviceInfo!InfoExact and !FindsDevices: what is reported of a device is what its
   methods say, nothing is leaked but the object of a _CID that is refused or finds no
   memory, and a search calls back for the devices that match;
   Resources!ResourcesExact: a template converted to native form holds every field, and
   converted back is the same template, with the exceptions named there: an IRQ or DMA
   mask that uacpi_popcount loops on or counts wrongly, half of an SPI device_selection,
   and the terminator of some clock inputs' names. *)
DevicesExact ==
    /\ part = "info" => I!InfoExact /\ I!FindsDevices
    /\ part = "resources" => ResourcesExact
(* AmlDecode!ItemsExact and !ArgumentArrives: every opcode's decode program gives its
   handler the items it reads, and an operand is accepted by the operation that waits
   for it; AmlNames!NameExact: a name in the code denotes the node the search rules
   give, and a creation adds exactly one node. *)
CodeRead ==
    /\ part = "decode" => X!ItemsExact /\ X!ArgumentArrives
    /\ part = "names" => N!NameExact
=============================================================================

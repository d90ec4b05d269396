-------------------------- MODULE MCAcpiNamespace --------------------------
(***************************************************************************)
(* Instances of uACPI's initialisation and namespace services for TLC.     *)
(* `part' chooses which component a behaviour exercises; the others rest.  *)
(***************************************************************************)
EXTENDS Naturals, Sequences, FiniteSets

VARIABLES stage, i_level, tables, mapped, leaked, at, ran, acpi, node, sta, skip, inis
ivars == <<stage, i_level, tables, mapped, leaked, at, ran, acpi, node, sta, skip, inis>>
VARIABLES o_level, live, handler, attached, reg_executed, o_heads, hs, context, tried
ovars == <<o_level, live, handler, attached, reg_executed, o_heads, hs, context, tried>>
VARIABLES n_heads, gone, n_refs, ctx, calls, stayed, n_stale, count
nvars == <<n_heads, gone, n_refs, ctx, calls, stayed, n_stale, count>>
VARIABLES interfaces, query, latest, asked, offered, kinds
svars == <<interfaces, query, latest, asked, offered, kinds>>
VARIABLES fw, reduced, hook, irqs, call, typ, s0, cnt, latched, power, wak, gpes, clean,
          sst, want, p_stale
pvars == <<fw, reduced, hook, irqs, call, typ, s0, cnt, latched, power, wak, gpes, clean,
          sst, want, p_stale>>
VARIABLES state, parent, name, child, t_refs, frames, held, walk, seen, cut, old, orphaned, mode
tvars == <<state, parent, name, child, t_refs, frames, held, walk, seen, cut, old, orphaned, mode>>
VARIABLE part

(* AcpiInit: an XSDT with a null entry, a host that denies or replaces tables, AML that loads one *)
Tables == {"fadt", "dsdt", "facs", "ssdt", "psdt", "host", "dyn"}
Sig == [t \in Tables |-> CASE t = "fadt" -> "FADT" [] t = "dsdt" -> "DSDT" [] t = "facs" -> "FACS"
                           [] t = "psdt" -> "PSDT" [] OTHER -> "SSDT"]
Devs == {"\\", "_SB", "PCI0", "ALIA", "METH", "DEV1", "DEV2"}
DevParent == [n \in Devs |-> CASE n \in {"\\", "_SB"} -> "\\" [] n \in {"PCI0", "DEV2"} -> "_SB"
                               [] OTHER -> "PCI0"]
DevKind == [n \in Devs |-> CASE n = "\\" -> "root" [] n = "_SB" -> "sb" [] n = "ALIA" -> "alias"
                             [] n = "METH" -> "other" [] OTHER -> "device"]
I == INSTANCE AcpiInit WITH Rxsdt <- <<"fadt", "ssdt", "null", "psdt">>, Dsdt <- {"dsdt"},
       Facs <- {"facs"}, BadSum <- {"psdt"}, SumFatal <- FALSE,
       Override <- [t \in Tables |-> IF t = "ssdt" THEN "host" ELSE t],
       Dispositions <- {"allow", "deny", "invalid", "virtual", "physical"}, Loads <- {"dyn"}, MaxTables <- 7,
       Nodes <- <<"\\", "_SB", "PCI0", "ALIA", "METH", "DEV1", "DEV2">>,
       Parent <- DevParent, Kind <- DevKind, level <- i_level

(* Opregion: three nested devices, two PCI regions and a memory region *)
OpUp == [n \in {"\\", "D1", "D2", "R0", "R1", "R2"} |->
           CASE n \in {"\\", "D1"} -> "\\" [] n \in {"D2", "R0"} -> "D1" [] OTHER -> "D2"]
O == INSTANCE Opregion WITH Devices <- {"\\", "D1", "D2"}, Root <- "\\",
       Regions <- {"R0", "R1", "R2"}, Up <- OpUp, Order <- <<"R1", "R2", "R0">>,
       Space <- [r \in {"R0", "R1", "R2"} |-> IF r = "R2" THEN "mem" ELSE "pci"],
       Spaces <- {"mem", "pci"}, NoReg <- {"mem"}, PciRoots <- {"D1"}, MaxHandlers <- 2,
       level <- o_level, heads <- o_heads

(* Notify: a device and the root, two callbacks *)
N == INSTANCE Notify WITH Nodes <- {"\\", "DEV"}, Root <- "\\", Callbacks <- {"a", "b"},
       MaxNotify <- 2, heads <- n_heads, refs <- n_refs, stale <- n_stale

(* Osi: two Windows versions, a host feature, a string without kind, two host strings *)
Interface(n, w, k, h, d) ==
    [name |-> n, weight |-> w, kind |-> k, host |-> h, disabled |-> d, dynamic |-> FALSE]
OsiStrings == <<Interface("2000", 1, "vendor", 0, FALSE), Interface("2001", 2, "vendor", 0, FALSE),
                Interface("Module", 0, "feature", 1, TRUE), Interface("Extended", 0, "none", 0, FALSE)>>
S == INSTANCE Osi WITH Predefined <- OsiStrings,
       Names <- {"2000", "2001", "Module", "Extended", "Linux", "Garn"},
       Kinds <- {"vendor", "feature"}

(* Sleep: S3 and S5, with every kind of package for S5 *)
Package(k, v) == [kind |-> k, v |-> v]
MCFirmwares ==
    {[s \in {0, 3, 5} |-> CASE s = 0 -> z [] s = 3 -> t [] s = 5 -> f] :
        z \in {Package("two", <<0, 0>>), Package("none", <<>>)},
        t \in {Package("two", <<1, 2>>), Package("none", <<>>)},
        f \in {Package("two", <<5, 6>>), Package("one", <<1541>>), Package("two", <<9, 5>>),
               Package("onebad", <<>>), Package("error", <<>>)}}
P == INSTANCE Sleep WITH States <- {3, 5}, Firmwares <- MCFirmwares, stale <- p_stale

(* Namespace: three nodes with two names, two nested calls *)
T == INSTANCE Namespace WITH Ids <- {1, 2, 3}, Names <- {"A", "B"}, MaxFrames <- 2,
       MaxHeld <- 1, refs <- t_refs

IRests ==
    /\ stage = 0 /\ i_level = 0 /\ tables = 0 /\ mapped = 0 /\ leaked = 0 /\ at = 0
    /\ ran = 0 /\ acpi = 0 /\ node = 0 /\ sta = 0 /\ skip = 0 /\ inis = 0
ORests ==
    /\ o_level = 0 /\ live = 0 /\ handler = 0 /\ attached = 0 /\ reg_executed = 0
    /\ o_heads = 0 /\ hs = 0 /\ context = 0 /\ tried = 0
NRests ==
    /\ n_heads = 0 /\ gone = 0 /\ n_refs = 0 /\ ctx = 0 /\ calls = 0 /\ stayed = 0
    /\ n_stale = 0 /\ count = 0
SRests ==
    /\ interfaces = 0 /\ query = 0 /\ latest = 0 /\ asked = 0 /\ offered = 0 /\ kinds = 0
PRests ==
    /\ fw = 0 /\ reduced = 0 /\ hook = 0 /\ irqs = 0 /\ call = 0 /\ typ = 0 /\ s0 = 0
    /\ cnt = 0 /\ latched = 0 /\ power = 0 /\ wak = 0 /\ gpes = 0 /\ clean = 0 /\ sst = 0
    /\ want = 0 /\ p_stale = 0
TRests ==
    /\ state = 0 /\ parent = 0 /\ name = 0 /\ child = 0 /\ t_refs = 0 /\ frames = 0
    /\ held = 0 /\ walk = 0 /\ seen = 0 /\ cut = 0 /\ old = 0 /\ orphaned = 0
    /\ mode = 0

Init ==
    \/ part = "init" /\ I!Init /\ ORests /\ NRests /\ SRests /\ PRests /\ TRests
    \/ part = "region" /\ O!Init /\ IRests /\ NRests /\ SRests /\ PRests /\ TRests
    \/ part = "notify" /\ N!Init /\ IRests /\ ORests /\ SRests /\ PRests /\ TRests
    \/ part = "osi" /\ S!Init /\ IRests /\ ORests /\ NRests /\ PRests /\ TRests
    \/ part = "sleep" /\ P!Init /\ IRests /\ ORests /\ NRests /\ SRests /\ TRests
    \/ part = "tree" /\ T!Init /\ IRests /\ ORests /\ NRests /\ SRests /\ PRests
Next ==
    \/ part = "init" /\ I!Next /\ UNCHANGED <<part, ovars, nvars, svars, pvars, tvars>>
    \/ part = "region" /\ O!Next /\ UNCHANGED <<part, ivars, nvars, svars, pvars, tvars>>
    \/ part = "notify" /\ N!Next /\ UNCHANGED <<part, ivars, ovars, svars, pvars, tvars>>
    \/ part = "osi" /\ S!Next /\ UNCHANGED <<part, ivars, ovars, nvars, pvars, tvars>>
    \/ part = "sleep" /\ P!Next /\ UNCHANGED <<part, ivars, ovars, nvars, svars, tvars>>
    \/ part = "tree" /\ T!Next /\ UNCHANGED <<part, ivars, ovars, nvars, svars, pvars>>
Spec == Init /\ [][Next]_<<part, ivars, ovars, nvars, svars, pvars, tvars>>

(* AcpiInit!BlocksRunOnce, !MappedWhenInstalled and !IniOrder: uacpi_namespace_load and
   the host run each definition block once, whatever Load and LoadTable do in between;
   the error paths of table installation keep exactly the installed tables mapped;
   do_sta_ini runs _INI from the top down and never below an absent device. *)
TablesLoaded == part = "init" => I!BlocksRunOnce /\ I!MappedWhenInstalled /\ I!IniOrder
(* Opregion!RegionHandler and !RegAttempted: links, reference counts and flags of
   regions and handlers agree, the closest handler serves and _REG was run for every
   served region; Notify!NotifiedOnce: do_notify calls every handler that stays exactly
   once per list it walks (so twice for a Notify on the root) while lists change under
   it, unless the entry it stands on is freed; Osi!OsiMatches: the interface list implements the
   set of supported strings; Sleep!SleepEntry: the machine sleeps only with the types
   of the state prepared last, armed for wake events only. *)
ServicesSound ==
    /\ part = "region" => O!RegionHandler /\ O!RegAttempted
    /\ part = "notify" => N!NotifiedOnce
    /\ part = "osi" => S!OsiMatches
    /\ part = "sleep" => P!SleepEntry
(* Until a method ends below whose temporary nodes LoadTable has put permanent ones,
   Namespace!TreeSound, !PathResolves and !WalkVisits: parent and peer links, states
   and reference counts of the nodes agree; absolute paths lead back to their node,
   single names to the closest scope; the depth first walk sees every node that stays
   exactly once. *)
NamespaceSound == part = "tree" => T!TreeSound /\ T!PathResolves /\ T!WalkVisits
=============================================================================

------------------------------- MODULE AcpiInit -------------------------------
(***************************************************************************)
(* Bringing ACPI up: the kernel's acpi_init, uACPI's table array            *)
(* (tables.c), uacpi_initialize, uacpi_namespace_load and                   *)
(* uacpi_namespace_initialize (uacpi.c), and the AML operators Load and     *)
(* LoadTable that install and run further tables in the middle of it.       *)
(*                                                                          *)
(* A table is a model value with a signature; its contents matter only as   *)
(* "the checksum is right" and, for the FADT, the tables it points to.      *)
(* Executing a definition block succeeds or fails, and may execute the AML  *)
(* operators.  Mappings of physical memory are counted per table.           *)
(***************************************************************************)
EXTENDS Naturals, Sequences, FiniteSets, SequencesExt

CONSTANTS Tables,      \* the tables in memory
          Sig,         \* [Tables -> signature]
          Rxsdt,       \* sequence of the XSDT's or RSDT's entries; other values are null
          Dsdt, Facs,  \* what the FADT points to
          BadSum,      \* tables with a wrong checksum
          SumFatal,    \* UACPI_FLAG_BAD_CSUM_FATAL
          Override,    \* [Tables -> Tables]: the host's replacement, itself if it has none;
                       \* it is never a FADT
          Dispositions,\* what the installation handler may answer ({"allow"}: none is set)
          Loads,       \* tables AML hands to Load
          MaxTables,   \* bound on the array
          Nodes,       \* namespace nodes in depth first order
          Parent,      \* [Nodes -> Nodes]; the root is its own parent
          Kind         \* [Nodes -> {"root", "sb", "device", "other", "alias"}]

VARIABLES stage,       \* where acpi_init is
          level,       \* init_level
          tables,      \* the array: [t, sig, phys: at a physical address, loaded]
          mapped,      \* [Tables -> Nat]: outstanding mappings
          leaked,      \* the XSDT is left mapped
          at,          \* loop index of the current stage
          ran,         \* table indices executed by namespace_load or the host
          acpi,        \* the hardware is in ACPI mode
          node, sta,   \* the walk of step 4: next node, _STA results seen so far
          skip,        \* the subtrees left out
          inis         \* nodes whose _INI ran, in order

vars == <<stage, level, tables, mapped, leaked, at, ran, acpi, node, sta, skip, inis>>
tvars == <<tables, mapped>>
walk == <<node, sta, skip, inis>>

N == Len(Nodes)
Named == {Nodes[i] : i \in 1 .. N}
Above[n \in Named] == IF Parent[n] = n THEN {} ELSE {Parent[n]} \cup Above[Parent[n]]
Roots == {n \in Named : Kind[n] \in {"root", "sb"}}

Init ==
    /\ stage = "start" /\ level = "EARLY" /\ tables = <<>>
    /\ mapped = [t \in Tables |-> 0] /\ leaked = FALSE /\ at = 1 /\ ran = <<>>
    /\ acpi \in BOOLEAN /\ node = 1 /\ sta = [n \in Named |-> "none"] /\ skip = {}
    /\ inis = <<>>

-----------------------------------------------------------------------------
(* tables.c, as functions of st = [tables, mapped, ok].  `trouble' holds what goes wrong
   outside of the tables' contents: <<"map", t>> when t's header or body cannot be mapped
   or its length is too small, <<"alloc", t>> when the array cannot grow for it. *)

Map(st, t) == [st EXCEPT !.mapped[t] = @ + 1]
Unmap(st, t) == [st EXCEPT !.mapped[t] = @ - 1]
Fail(st) == [st EXCEPT !.ok = FALSE]

uacpi_verify_table_checksum(t) == t \in BadSum => ~SumFatal

Entry(t, phys, loaded) == [t |-> t, sig |-> Sig[t], phys |-> phys, loaded |-> loaded]

(* the end of verify_and_install_table: table_alloc *)
Append1(st, t, phys, trouble) ==
    IF <<"alloc", t>> \in trouble THEN Fail(st)
    ELSE [st EXCEPT !.tables = Append(@, Entry(t, phys, FALSE))]

(* a table that is not the FADT *)
verify_and_install_table(st, t, phys, trouble) ==
    IF Sig[t] # "FACS" /\ ~uacpi_verify_table_checksum(t) THEN Fail(st)
    ELSE Append1(st, t, phys, trouble)

(* a replacement at a physical address is not offered to the handler again *)
install_host_physical(st, t, trouble) ==
    LET r == verify_and_install_table(Map(st, t), t, TRUE, trouble)
    IN IF <<"map", t>> \in trouble THEN Fail(st) ELSE IF r.ok THEN r ELSE Unmap(r, t)

(* handle_table_override: the replacement takes the table's place, and the
   installation still reports UACPI_STATUS_OVERRIDEN, which is not success *)
Ask(st, t, says, trouble, place) ==
    CASE says = "allow" -> place
      [] says \in {"deny", "invalid"} -> Fail(st)
      [] says = "virtual" -> Fail(verify_and_install_table(st, Override[t], FALSE, trouble))
      [] says = "physical" -> Fail(install_host_physical(st, Override[t], trouble))

(* table_install_physical_with_origin_unlocked: mapped while it is worked on, and
   kept mapped when it was installed *)
install_physicalVariant(st, t, d, trouble) ==
    Ask(Map(st, t), t, d[t], trouble, verify_and_install_table(Map(st, t), t, TRUE, trouble))
install_physical(st, t, d, trouble) ==
    LET m == Map(st, t)
        r == Ask(m, t, d[t], trouble, verify_and_install_table(m, t, TRUE, trouble))
    IN IF <<"map", t>> \in trouble THEN Fail(st) ELSE IF r.ok THEN r ELSE Unmap(r, t)

(* initialize_fadt installs the DSDT and the FACS before the FADT itself *)
initialize_fadt(st, d, trouble) ==
    LET a == IF Dsdt = {} THEN st ELSE install_physical(st, CHOOSE t \in Dsdt : TRUE, d, trouble)
    IN IF ~a.ok \/ Facs = {} THEN a
       ELSE install_physical(a, CHOOSE t \in Facs : TRUE, d, trouble)

install_fadt(st, t, d, trouble) ==
    LET m == Map(st, t)
        v == IF ~uacpi_verify_table_checksum(t) THEN Fail(m)
             ELSE initialize_fadt(m, d, trouble)
        r == Ask(m, t, d[t], trouble, IF v.ok THEN Append1(v, t, TRUE, trouble) ELSE v)
    IN IF <<"map", t>> \in trouble THEN Fail(st) ELSE IF r.ok THEN r ELSE Unmap(r, t)

Install(t, d, trouble) ==
    LET st == [tables |-> tables, mapped |-> mapped, ok |-> TRUE]
    IN IF Sig[t] = "FADT" THEN install_fadt(st, t, d, trouble)
                          ELSE install_physical(st, t, d, trouble)

(* at most one thing goes wrong in a step *)
Troubles == {{}} \cup {{x} : x \in {"map", "alloc"} \X Tables}
(* the handler is asked until its first answer that is not to allow the table *)
Answers ==
    {[t \in Tables |-> IF t = x[1] THEN x[2] ELSE "allow"] :
        x \in {y \in Tables \X Dispositions :
                  y[2] \in {"virtual", "physical"} => Override[y[1]] # y[1]}}

panic == stage' = "panic" /\ UNCHANGED <<level, acpi, at, ran, walk>>

-----------------------------------------------------------------------------
(* uacpi_initialize *)

initialize_begin ==
    /\ stage = "start" /\ level = "EARLY"
    /\ level' = "TABLES_LOADED"
    /\ \/ stage' = "rxsdt"
       \/ stage' = "panic"            \* out of memory, no RSDP, no XSDT, bad signature
    /\ UNCHANGED <<tvars, leaked, at, ran, acpi, walk>>

(* one entry of initialize_from_rxsdt; its error return leaves the XSDT mapped *)
initialize_from_rxsdt ==
    /\ stage = "rxsdt" /\ at <= Len(Rxsdt)
    /\ IF Rxsdt[at] \notin Tables
         THEN at' = at + 1 /\ UNCHANGED <<stage, tvars, leaked, level, acpi, ran, walk>>
         ELSE \E d \in Answers, trouble \in Troubles :
                LET r == Install(Rxsdt[at], d, trouble)
                IN /\ tables' = r.tables /\ mapped' = r.mapped
                   /\ leaked' = ~r.ok
                   /\ \/ r.ok /\ at' = at + 1 /\ UNCHANGED <<stage, level, acpi, ran, walk>>
                      \/ ~r.ok /\ panic

(* interfaces and predefined nodes, which may run out of memory, default handlers, then
   uacpi_enter_acpi_mode: SMI_CMD is written only when the hardware is in legacy mode,
   and is polled for five seconds *)
initialize_end ==
    /\ stage = "rxsdt" /\ at > Len(Rxsdt)
    /\ \/ /\ stage' = "load" /\ at' = 1 /\ acpi' = TRUE /\ UNCHANGED <<level, ran, walk>>
       \/ panic
    /\ UNCHANGED <<tvars, leaked>>

-----------------------------------------------------------------------------
(* uacpi_namespace_load *)

Loaded(ts, i) == [ts EXCEPT ![i].loaded = TRUE]

(* table_ctl(idx, 0, LOADED, LOADED, 0): refused when it is loaded already *)
table_ctl(i) == ~tables[i].loaded

(* What a definition block may do to the array: nothing, Load a new table, or
   LoadTable one that is there; both mark it loaded before they run it, and neither
   asks whether it was loaded before. *)
AmlLoads(ts) ==
    {ts} \cup {Loaded(ts, i) : i \in DOMAIN ts}
    \cup {Append(ts, Entry(t, FALSE, TRUE)) :
             t \in {u \in Loads : Len(ts) < MaxTables}}

(* uacpi_table_load_with_cause: marked first, so a block that fails stays loaded *)
LoadWithCause(i) ==
    /\ table_ctl(i)
    /\ ran' = Append(ran, i)
    /\ tables' \in AmlLoads(Loaded(tables, i))

FirstWith(sig) == SelectInSeq(tables, LAMBDA e : e.sig = sig)

namespace_load_begin ==
    /\ stage = "load" /\ level = "TABLES_LOADED"
    /\ IF FirstWith("DSDT") = 0 THEN panic /\ UNCHANGED tables
       ELSE /\ LoadWithCause(FirstWith("DSDT"))
            /\ stage' = "blocks" /\ at' = 1
            /\ UNCHANGED <<level, acpi, walk>>
    /\ UNCHANGED <<mapped, leaked>>

(* match_ssdt_or_psdt from cur_index on *)
match_ssdt_or_psdt(i) == ~tables[i].loaded /\ tables[i].sig \in {"SSDT", "PSDT"}
Matches == {i \in at .. Len(tables) : match_ssdt_or_psdt(i)}

namespace_load_next ==
    /\ stage = "blocks" /\ Matches # {}
    /\ LET i == CHOOSE j \in Matches : \A k \in Matches : j <= k
       IN /\ IF table_ctl(i) THEN LoadWithCause(i) ELSE UNCHANGED <<ran, tables>>
          /\ at' = i + 1
    /\ UNCHANGED <<stage, level, mapped, leaked, acpi, walk>>

(* uacpi_initialize_events; a failure is reported after the level was raised *)
namespace_load_end ==
    /\ stage = "blocks" /\ Matches = {}
    /\ level' = "NAMESPACE_LOADED"
    /\ stage' \in {"initialize", "panic"}
    /\ UNCHANGED <<tvars, leaked, at, ran, acpi, walk>>

(* uacpi_table_load and uacpi_table_install of the host, between the stages *)
host_load(i) ==
    /\ stage = "initialize" /\ node = 1 /\ LoadWithCause(i)
    /\ UNCHANGED <<stage, level, mapped, leaked, at, acpi, walk>>

-----------------------------------------------------------------------------
(* uacpi_namespace_initialize *)

(* steps 1 to 3: \_INI, \_SB._INI, the _REG methods *)
namespace_initialize_begin ==
    /\ stage = "initialize" /\ level = "NAMESPACE_LOADED"
    /\ stage' = "walk"
    /\ inis' = SelectSeq(Nodes, LAMBDA n : n \in Roots)
    /\ UNCHANGED <<level, tvars, leaked, at, ran, acpi, node, sta, skip>>

(* do_sta_ini for the node the walk is at; _STA may say anything, or fail *)
do_sta_ini(n, s) ==
    /\ sta' = [sta EXCEPT ![n] = s]
    /\ skip' = IF s = "absent" THEN skip \cup {n} ELSE skip
    /\ inis' = IF s = "present" /\ n \notin Roots THEN Append(inis, n) ELSE inis

walk_node ==
    /\ stage = "walk" /\ node <= N
    /\ LET n == Nodes[node]
       IN IF Above[n] \cap skip # {}
            THEN UNCHANGED <<sta, skip, inis>>
          ELSE IF Kind[n] = "alias"
            THEN skip' = skip \cup {n} /\ UNCHANGED <<sta, inis>>
          ELSE IF Kind[n] = "other"
            THEN UNCHANGED <<sta, skip, inis>>
          ELSE \E s \in {"present", "functional", "absent", "error"} : do_sta_ini(n, s)
    /\ node' = node + 1
    /\ UNCHANGED <<stage, level, tvars, leaked, at, ran, acpi>>

namespace_initialize_end ==
    /\ stage = "walk" /\ node > N
    /\ stage' = "done" /\ level' = "NAMESPACE_INITIALIZED"
    /\ UNCHANGED <<tvars, leaked, at, ran, acpi, walk>>

Next ==
    \/ initialize_begin \/ initialize_from_rxsdt \/ initialize_end
    \/ namespace_load_begin \/ namespace_load_next \/ namespace_load_end
    \/ \E i \in DOMAIN tables : host_load(i)
    \/ namespace_initialize_begin \/ walk_node \/ namespace_initialize_end
Spec == Init /\ [][Next]_vars

-----------------------------------------------------------------------------
(* namespace_load and the host execute no definition block twice, whatever Load and
   LoadTable install and run in between, and once the namespace is loaded no SSDT or
   PSDT of the array is left out. *)
BlocksRunOnce ==
    /\ \A i, j \in DOMAIN ran : ran[i] = ran[j] => i = j
    /\ level \notin {"EARLY", "TABLES_LOADED"} =>
         \A i \in DOMAIN tables : tables[i].sig \in {"SSDT", "PSDT"} => tables[i].loaded

(* Every table of the array that lies in physical memory is mapped exactly once per
   entry, and no other table is mapped: the error paths of nested installations (FADT,
   DSDT, FACS, virtual and physical overrides) give their own mapping back and keep those
   of installed tables.  (The XSDT itself stays mapped after a failure: `leaked'.) *)
MappedWhenInstalled ==
    \A t \in Tables :
        mapped[t] = Cardinality({i \in DOMAIN tables : tables[i].t = t /\ tables[i].phys})

(* A device's _INI runs after those of the devices above it, and never below a device
   that is neither present nor functional. *)
IniOrder ==
    \A i \in DOMAIN inis : \A a \in Above[inis[i]] :
        /\ inis[i] \notin Roots => sta[a] # "absent"
        /\ \A j \in DOMAIN inis : inis[j] = a => j < i
=============================================================================

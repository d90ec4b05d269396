----------------------------- MODULE DeviceInfo -----------------------------
(***************************************************************************)
(* What uACPI tells of a device (utilities.c): its identifiers, from the   *)
(* methods _HID, _CID, _CLS and _UID, packed into one allocation whose     *)
(* size is added up before it is filled; its power states; the search for  *)
(* devices by identifier; and the interrupt routing of a PCI bus.  The     *)
(* result of evaluating a method is an input.  A text is the sequence of   *)
(* its character codes with the terminator, sizes are counted in bytes,    *)
(* and held counts the objects and blocks not given back.                  *)
(***************************************************************************)
EXTENDS Integers, Sequences, FiniteSets, SequencesExt

CONSTANTS Devices,       \* what a device's methods may evaluate to
          Finds,         \* assignments of devices to the nodes of a search
          Tables,        \* packages _PRT may return
          Targets,       \* lists of identifiers looked for
          IdSize, InfoSize   \* sizeof uacpi_id_string and uacpi_namespace_node_info

VARIABLES mode, dev, want, out, held, at, called

vars == <<mode, dev, want, out, held, at, called>>

NULL == [size |-> 0, value |-> <<>>]
NUL == 0

-----------------------------------------------------------------------------
(* Identifiers                                                             *)

HexAscii(d) == IF d < 10 THEN 48 + d ELSE 55 + d

\* b: the four bytes of the number, as they are in memory
uacpi_eisa_id_to_string(b) ==
    LET hi == b[1] * 256 + b[2]
        lo == b[3] * 256 + b[4]
    IN  <<64 + ((hi \div 1024) % 32), 64 + ((hi \div 32) % 32), 64 + (hi % 32),
          HexAscii(lo \div 4096), HexAscii((lo \div 256) % 16), HexAscii((lo \div 16) % 16),
          HexAscii(lo % 16), NUL>>

\* an evaluation: [st, type, bytes, list]; a type that is not asked for is an error
uacpi_eval_typed(r, types) ==
    IF r.st = "OK" /\ r.type \notin types THEN [r EXCEPT !.st = "TYPE_MISMATCH"] ELSE r
uacpi_eval_integer(r) == uacpi_eval_typed(r, {"integer"})

Id(size, value) == [size |-> size, value |-> value]
Terminate(text) == Append(Front(text), NUL)

\* results: the status, what is made (with its size) and what stays held
Made(st, ids, size, leak) == [st |-> st, ids |-> ids, size |-> size, leak |-> leak]
Failed(st, leak) == Made(st, <<>>, 0, leak)

uacpi_eval_hid(d) ==
    LET r == uacpi_eval_typed(d.hid, {"integer", "string"}) IN
    IF r.st # "OK" THEN Failed(r.st, 0)
    ELSE IF r.type = "string"
    THEN IF r.bytes = <<>> THEN Failed("BAD_ENCODING", 0)
         ELSE Made("OK", <<Id(Len(r.bytes), Terminate(r.bytes))>>, Len(r.bytes), 0)
    ELSE Made("OK", <<Id(8, uacpi_eisa_id_to_string(r.bytes))>>, 8, 0)

\* the first pass adds up the size; an entry it refuses leaves the object held
CidSize(o) == IF o.type = "string" THEN Len(o.bytes) ELSE 8
CidText(o) == IF o.type = "string" THEN Terminate(o.bytes) ELSE uacpi_eisa_id_to_string(o.bytes)
CidBad(o) == o.type \notin {"string", "integer"} \/ (o.type = "string" /\ o.bytes = <<>>)
SumOf(f) == FoldLeft(LAMBDA n, x : n + x, 0, f)

uacpi_eval_cid(d) ==
    LET r == uacpi_eval_typed(d.cid, {"integer", "string", "package"})
        objects == IF r.type = "package" THEN r.list ELSE <<r>>
    IN  IF r.st # "OK" THEN Failed(r.st, 0)
        ELSE IF \E i \in DOMAIN objects : CidBad(objects[i]) THEN Failed("INCOMPATIBLE", 1)
        ELSE Made("OK", [i \in DOMAIN objects |-> Id(CidSize(objects[i]), CidText(objects[i]))],
                  IdSize * Len(objects) + SumOf([i \in DOMAIN objects |-> CidSize(objects[i])]), 0)

extract_package_byte_or_zero(pkg, i) ==
    IF Len(pkg) <= i \/ pkg[i + 1].type # "integer" THEN 0 ELSE pkg[i + 1].bytes[1]

uacpi_eval_cls(d) ==
    LET r == uacpi_eval_typed(d.cls, {"package"})
        two(i) == LET b == extract_package_byte_or_zero(r.list, i)
                  IN  <<HexAscii(b \div 16), HexAscii(b % 16)>>
    IN  IF r.st # "OK" THEN Failed(r.st, 0)
        ELSE Made("OK", <<Id(7, two(0) \o two(1) \o two(2) \o <<NUL>>)>>, 7, 0)

RECURSIVE Decimal(_)
Decimal(n) == (IF n < 10 THEN <<>> ELSE Decimal(n \div 10)) \o <<48 + (n % 10)>>

uacpi_eval_uid(d) ==
    LET r == uacpi_eval_typed(d.uid, {"integer", "string"})
        text == IF r.type = "string" THEN Terminate(r.bytes) ELSE Append(Decimal(r.bytes[1]), NUL)
    IN  IF r.st # "OK" THEN Failed(r.st, 0)
        ELSE IF r.type = "string" /\ r.bytes = <<>> THEN Failed("BAD_ENCODING", 0)
        ELSE Made("OK", <<Id(Len(text), text)>>, Len(text), 0)

\* a device without _STA has every bit set
uacpi_eval_sta(d) ==
    LET r == uacpi_eval_integer(d.sta)
    IN  IF r.st = "NOT_FOUND" THEN [st |-> "OK", flags |-> {"present", "functioning"}]
        ELSE [st |-> r.st, flags |-> IF r.st = "OK" THEN r.flags ELSE {}]

uacpi_eval_adr(d) == uacpi_eval_integer(d.adr).st

\* the methods of every sleep state: one that evaluates is enough
uacpi_eval_dstate_method_template(rs) ==
    [st |-> IF \E i \in DOMAIN rs : uacpi_eval_integer(rs[i]).st = "OK" THEN "OK" ELSE "NOT_FOUND",
     values |-> [i \in DOMAIN rs |->
                    IF uacpi_eval_integer(rs[i]).st = "OK" THEN rs[i].bytes[1] ELSE 255]]

-----------------------------------------------------------------------------
(* Everything about a node, in one allocation                              *)

\* where the values of ids go, one after the other from offset start
Place(ids, start) ==
    [i \in DOMAIN ids |-> [off |-> start + SumOf([j \in 1 .. i - 1 |-> ids[j].size]),
                           size |-> ids[i].size, value |-> ids[i].value]]

\* the identifier's block cannot be allocated: uacpi_eval_cid keeps the object
Unless(oom, r, leak) == IF oom /\ r.st = "OK" THEN Failed("OUT_OF_MEMORY", leak) ELSE r

\* oom: the allocation that fails
uacpi_get_namespace_node_info(oom) ==
    LET d == dev[1]
        device == d.kind \in {"device", "processor"}
        none == Failed("NOT_FOUND", 0)
        hid == IF device THEN Unless(oom = "hid", uacpi_eval_hid(d), 0) ELSE none
        uid == IF device THEN Unless(oom = "uid", uacpi_eval_uid(d), 0) ELSE none
        cls == IF device THEN Unless(oom = "cls", uacpi_eval_cls(d), 0) ELSE none
        cid == IF device THEN Unless(oom = "cid", uacpi_eval_cid(d), 1) ELSE none
        sxd == uacpi_eval_dstate_method_template(d.sxd)
        sxw == uacpi_eval_dstate_method_template(d.sxw)
        size == InfoSize + hid.size + uid.size + cls.size + cid.size
        ids == IdSize * Len(cid.ids)
        all == cid.ids \o hid.ids \o uid.ids \o cls.ids
        has == {f \in {"HID", "UID", "CLS", "CID", "ADR", "SXD", "SXW"} :
                  CASE f = "HID" -> hid.st = "OK" [] f = "UID" -> uid.st = "OK"
                    [] f = "CLS" -> cls.st = "OK" [] f = "CID" -> cid.st = "OK"
                    [] f = "ADR" -> device /\ uacpi_eval_adr(d) = "OK"
                    [] f = "SXD" -> device /\ sxd.st = "OK"
                    [] f = "SXW" -> device /\ sxw.st = "OK"}
    IN  /\ mode = "info" /\ out.st = "none"
        /\ IF d.kind = "none"
           THEN out' = [out EXCEPT !.st = "INVALID_ARGUMENT"] /\ UNCHANGED held
           ELSE IF oom = "info"
           THEN out' = [out EXCEPT !.st = "OUT_OF_MEMORY", !.oom = oom] /\ held' = held + cid.leak
           ELSE /\ out' = [st |-> "OK", oom |-> oom, size |-> size, ids |-> Place(all, InfoSize + ids), has |-> has,
                           sxd |-> IF "SXD" \in has THEN sxd.values ELSE [i \in DOMAIN d.sxd |-> 0],
                           sxw |-> IF "SXW" \in has THEN sxw.values ELSE [i \in DOMAIN d.sxw |-> 0],
                           table |-> <<>>]
                /\ held' = held + 1 + cid.leak
        /\ UNCHANGED <<mode, dev, want, at, called>>

uacpi_free_namespace_node_info ==
    /\ mode = "info" /\ out.st = "OK" /\ called = {}
    /\ held' = held - 1
    /\ called' = {1}
    /\ UNCHANGED <<mode, dev, want, out, at>>

-----------------------------------------------------------------------------
(* The search for devices                                                  *)

matches_any(id, ids) == \E i \in DOMAIN ids : ids[i] = id.value

uacpi_device_matches_pnp_id(d, ids) ==
    LET hid == uacpi_eval_hid(d)
        cid == uacpi_eval_cid(d)
    IN  \/ hid.st = "OK" /\ matches_any(hid.ids[1], ids)
        \/ cid.st = "OK" /\ \E i \in DOMAIN cid.ids : matches_any(cid.ids[i], ids)

\* evaluating _CID is skipped when _HID matches
MatchLeak(d, ids) ==
    LET hid == uacpi_eval_hid(d)
    IN  IF hid.st = "OK" /\ matches_any(hid.ids[1], ids) THEN 0 ELSE uacpi_eval_cid(d).leak

\* the nodes of the search are 1 (the root), its children 2 and 4, and 3 below 2
Done == 5
Children(n) == CASE n = 1 -> <<2, 4>> [] n = 2 -> <<3>> [] OTHER -> <<>>
Parent(n) == CASE n = 3 -> 2 [] OTHER -> 1
NextPeer(n) == IF n \in {1, 4} THEN Done ELSE 4
Descend(n) == IF Children(n) # <<>> THEN Children(n)[1] ELSE NextPeer(n)

\* the callback of the walk over the namespace, and where it makes the walk go
find_one_device(decision) ==
    LET d == dev[at]
        sta == uacpi_eval_sta(d)
        match == d.kind = "device" /\ uacpi_device_matches_pnp_id(d, want)
        hit == match /\ sta.st = "OK" /\ sta.flags \cap {"present", "functioning"} # {}
    IN  /\ mode = "find" /\ at \in 1 .. 4
        /\ called' = IF hit THEN called \cup {at} ELSE called
        /\ held' = held + IF d.kind = "device" THEN MatchLeak(d, want) ELSE 0
        /\ at' = CASE ~match -> Descend(at)
                   [] match /\ ~hit -> NextPeer(at)
                   [] hit /\ decision = "CONTINUE" -> Descend(at)
                   [] hit /\ decision = "NEXT_PEER" -> NextPeer(at)
                   [] hit /\ decision = "BREAK" -> 0
        /\ UNCHANGED <<mode, dev, want, out>>

-----------------------------------------------------------------------------
(* Interrupt routing                                                       *)

\* an entry: [type, list] with the address, the pin, the source and its index;
\* a source is a number or the name of a node, which has to resolve
EntryOk(e) ==
    /\ e.type = "package" /\ Len(e.list) = 4
    /\ e.list[1].type = "integer" /\ e.list[2].type = "integer" /\ e.list[4].type = "integer"
    /\ \/ e.list[3].type = "integer"
       \/ e.list[3].type = "string" /\ e.list[3].st = "OK"

uacpi_get_pci_routing_table(oom) ==
    LET pkg == want
    IN  /\ mode = "prt" /\ out.st = "none"
        /\ IF dev[1].kind # "device"
           THEN out' = [out EXCEPT !.st = "INVALID_ARGUMENT"] /\ UNCHANGED held
           ELSE IF pkg # <<>> /\ oom = "table"
           THEN out' = [out EXCEPT !.st = "OUT_OF_MEMORY", !.oom = oom] /\ UNCHANGED held
           ELSE IF pkg = <<>> \/ \E i \in DOMAIN pkg : ~EntryOk(pkg[i])
           THEN out' = [out EXCEPT !.st = "BAD_ENCODING"] /\ UNCHANGED held
           ELSE /\ out' = [out EXCEPT !.st = "OK", !.size = Len(pkg),
                              !.table = [i \in DOMAIN pkg |->
                                 [address |-> pkg[i].list[1].bytes[1], pin |-> pkg[i].list[2].bytes[1],
                                  source |-> IF pkg[i].list[3].type = "string"
                                             THEN pkg[i].list[3].bytes ELSE <<>>,
                                  index |-> pkg[i].list[4].bytes[1]]]]
                /\ held' = held + 1
        /\ UNCHANGED <<mode, dev, want, at, called>>

Init ==
    /\ mode \in {"info", "find", "prt"}
    /\ dev \in CASE mode = "find" -> Finds
                 [] OTHER -> {<<d>> : d \in Devices}
    /\ want \in CASE mode = "info" -> {<<>>} [] mode = "find" -> Targets [] mode = "prt" -> Tables
    /\ mode = "prt" => dev[1].hid.st = "NOT_FOUND" /\ dev[1].cid.st = "NOT_FOUND"
    /\ out = [st |-> "none", oom |-> "", size |-> 0, ids |-> <<>>, has |-> {}, sxd |-> <<>>, sxw |-> <<>>,
              table |-> <<>>]
    /\ held = 0
    /\ at = IF mode = "find" THEN 1 ELSE 0
    /\ called = {}

Next ==
    \/ \E oom \in {"", "hid", "uid", "cls", "cid", "info"} : uacpi_get_namespace_node_info(oom)
    \/ uacpi_free_namespace_node_info
    \/ \E decision \in {"CONTINUE", "NEXT_PEER", "BREAK"} : find_one_device(decision)
    \/ \E oom \in {"", "table"} : uacpi_get_pci_routing_table(oom)

Spec == Init /\ [][Next]_vars

-----------------------------------------------------------------------------
(* Correctness                                                             *)

\* a device's identifiers, as texts, straight from its methods
Texts(r) ==
    CASE r.st # "OK" -> {}
      [] r.st = "OK" /\ r.type = "string" -> IF r.bytes = <<>> THEN {} ELSE {Terminate(r.bytes)}
      [] r.st = "OK" /\ r.type = "integer" -> {uacpi_eisa_id_to_string(r.bytes)}
      [] OTHER -> {}
CidTexts(r) ==
    IF r.type # "package" \/ r.st # "OK" THEN Texts(r)
    ELSE IF \E i \in DOMAIN r.list : CidBad(r.list[i]) THEN {}
    ELSE UNION {Texts(r.list[i] @@ [st |-> "OK"]) : i \in DOMAIN r.list}

\* uacpi_eval_cid returns without dropping the object _CID gave
CidAccepted(d) == (d.cid.type = "package" /\ d.cid.list = <<>>) \/ CidTexts(d.cid) # {}
Leaks(d) ==
    IF d.kind \in {"device", "processor"} /\ d.cid.st = "OK"
       /\ d.cid.type \in {"integer", "string", "package"}
       /\ (out.oom = "cid" \/ ~CidAccepted(d))
    THEN 1 ELSE 0

\* What is packed for a node fits the size added up before, exactly: the
\* values lie behind the array of _CID identifiers, one after the other, none
\* over another, to the last byte of the block; every value ends with its
\* terminator and is the text its method gave, numbers spelled as EISA
\* identifiers; an identifier whose own block cannot be allocated is left out;
\* and a routing table is either whole or not made.  Whatever fails, nothing
\* but the block handed out stays allocated, except what uacpi_eval_cid leaks:
\* the object of a _CID with an entry that is no identifier, or of any _CID
\* when the list cannot be allocated (uacpi_get_namespace_node_info,
\* uacpi_get_pci_routing_table).
InfoExact ==
    /\ mode = "info" /\ out.st = "OK" =>
         LET n == Len(out.ids)
             d == dev[1]
         IN  /\ \A i \in 1 .. n : /\ Len(out.ids[i].value) = out.ids[i].size
                                  /\ Last(out.ids[i].value) = NUL
             /\ n > 0 => /\ out.ids[n].off + out.ids[n].size = out.size
                         /\ out.ids[1].off = InfoSize + IdSize *
                              (IF "CID" \in out.has
                               THEN IF d.cid.type = "package" THEN Len(d.cid.list) ELSE 1 ELSE 0)
             /\ n = 0 => out.size = InfoSize
             /\ \A i \in 1 .. n - 1 : out.ids[i].off + out.ids[i].size = out.ids[i + 1].off
             /\ d.kind \in {"device", "processor"} =>
                  (IF out.oom = "hid" THEN {} ELSE Texts(d.hid))
                    \cup (IF out.oom = "cid" THEN {} ELSE CidTexts(d.cid))
                  \subseteq {out.ids[i].value : i \in 1 .. n}
             /\ held = Leaks(d) + (IF called = {} THEN 1 ELSE 0)
    /\ mode = "info" /\ out.st = "OUT_OF_MEMORY" => held = Leaks(dev[1])
    /\ mode = "prt" => held = Cardinality({s \in {out.st} : s = "OK"})
    /\ mode = "prt" /\ out.st = "OK" =>
         \A i \in DOMAIN want : out.table[i].source # <<>> <=> want[i].list[3].type = "string"

\* A search passes every device that has one of the identifiers, and is there,
\* to the callback exactly when no node above it stopped the walk before
\* (find_one_device); a device is matched by any of its identifiers, whether
\* they are spelled as numbers or as strings, and one without _STA counts as
\* there.  The identifiers' blocks are taken to fit in memory.
Wanted(n) ==
    LET d == dev[n]
    IN  /\ d.kind = "device"
        /\ (Texts(d.hid) \cup CidTexts(d.cid)) \cap {want[i] : i \in DOMAIN want} # {}
Here(n) == \/ dev[n].sta.st = "NOT_FOUND"
           \/ dev[n].sta.st = "OK" /\ dev[n].sta.type = "integer" /\ dev[n].sta.flags # {}
RECURSIVE Shadowed(_)
Shadowed(n) == n # 1 /\ (Shadowed(Parent(n)) \/ (Wanted(Parent(n)) /\ ~Here(Parent(n))))

FindsDevices ==
    mode = "find" =>
       /\ \A n \in called : Wanted(n) /\ Here(n) /\ ~Shadowed(n)
       /\ \A n \in 1 .. 4 : n < at /\ Wanted(n) /\ Here(n) =>
             n \in called \/ Shadowed(n) \/ Parent(n) \in called
=============================================================================

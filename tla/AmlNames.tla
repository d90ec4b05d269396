------------------------------ MODULE AmlNames ------------------------------
(***************************************************************************)
(* Name strings in AML byte code (interpreter.c): resolve_name_string      *)
(* walks the namespace as it decodes a name, name_string_to_path turns the *)
(* same bytes into a path for a name that is looked up later, and          *)
(* do_install_node_item puts a node made for the last segment in the       *)
(* namespace.  A cell of the code is one byte, except a name segment,      *)
(* which is the four bytes it takes; a node is the sequence of segments    *)
(* that leads to it from the root.                                         *)
(***************************************************************************)
EXTENDS Integers, Sequences, FiniteSets, SequencesExt

CONSTANTS Segs,      \* name segments
          Nodes,     \* the namespace: a set of paths closed under prefixes
          MaxCells   \* bound on the cells of code

Counts == {"0", "1", "2"}
Cells == Segs \cup Counts \cup {"\\", "^", "dual", "multi"}
Root == <<>>
Nil == <<"nil">>

VARIABLES code, scope, behavior, out, path, tree, temp

vars == <<code, scope, behavior, out, path, tree, temp>>

Create == "CREATE_LAST_NAMESEG_FAIL_IF_EXISTS"
Find == "FAIL_IF_DOESNT_EXIST"

\* the size of code in bytes, and the value of a byte where a count is read
BytesOf(s) == FoldLeft(LAMBDA n, c : n + (IF c \in Segs \cup {"raw"} THEN 4 ELSE 1), 0, s)
ValueOf(c) == CASE c = "0" -> 0 [] c = "1" -> 1 [] c = "2" -> 2 [] OTHER -> 65

Result(status, node, rest) == [status |-> status, node |-> node, rest |-> rest]
Invalid == Result("INVALID_NAMESTRING", Nil, code)

uacpi_namespace_node_find_sub_node(parent, name) ==
    IF Append(parent, name) \in tree THEN Append(parent, name) ELSE Nil

\* the prefixes: the node they lead to (Nil after an error) and the code behind
RECURSIVE WalkPrefixes(_, _, _)
WalkPrefixes(s, cur, prev) ==
    IF s = <<>> THEN [cur |-> Nil, rest |-> s]
    ELSE CASE s[1] = "\\" -> IF prev = "^" THEN [cur |-> Nil, rest |-> s]
                             ELSE [cur |-> Root, rest |-> Tail(s)]
           [] s[1] = "^" -> IF cur = Root THEN [cur |-> Nil, rest |-> s]
                            ELSE WalkPrefixes(Tail(s), Front(cur), "^")
           [] OTHER -> [cur |-> cur, rest |-> s]

\* how many segments follow, and where they start
Header(s) ==
    CASE s[1] = "dual" -> [segs |-> 2, rest |-> Tail(s)]
      [] s[1] = "multi" /\ Len(s) > 1 -> [segs |-> ValueOf(s[2]), rest |-> SubSeq(s, 3, Len(s))]
      [] s[1] = "multi" /\ Len(s) = 1 -> [segs |-> 0, rest |-> <<>>]
      [] s[1] = "0" -> [segs |-> 0, rest |-> Tail(s)]
      [] OTHER -> [segs |-> 1, rest |-> s]

\* a lone segment is searched in the scope and in every scope around it
RECURSIVE SearchUp(_, _)
SearchUp(parent, name) ==
    LET found == uacpi_namespace_node_find_sub_node(parent, name) IN
    IF found # Nil \/ parent = Root THEN found ELSE SearchUp(Front(parent), name)

parse_nameseg(c) == c \in Segs

\* the loop over the segments; n of them are left; what is not walked is skipped
RECURSIVE Walk(_, _, _, _)
Walk(s, cur, n, lone) ==
    LET name == s[1]
        sub == uacpi_namespace_node_find_sub_node(cur, name)
        next == IF behavior = Find /\ lone THEN SearchUp(cur, name) ELSE sub
        skip == SubSeq(s, n + 1, Len(s))
    IN  IF n = 0 THEN Result("OK", cur, s)
        ELSE IF ~parse_nameseg(name) THEN Invalid
        ELSE IF behavior = Create /\ n = 1
        THEN IF sub # Nil THEN Result("ALREADY_EXISTS", Nil, skip)
             ELSE Result("OK", Append(cur, name), skip)
        ELSE IF next = Nil THEN Result("NOT_FOUND", Nil, skip)
        ELSE Walk(Tail(s), next, n - 1, lone)

ResolveVariant(s) ==
    LET p == WalkPrefixes(s, scope, "none")
        h == Header(p.rest)
    IN  IF p.cur = Nil \/ p.rest = <<>> THEN Invalid
        ELSE IF p.rest[1] = "0"
        THEN IF behavior = Create \/ p.rest = s THEN Invalid ELSE Result("OK", p.cur, h.rest)
        ELSE IF h.segs = 0 \/ h.segs * 4 > BytesOf(h.rest) THEN Invalid
        ELSE Walk(h.rest, p.cur, h.segs, h.segs = 1)

\* resolve_name_string: lone means no prefix and no count in front
Resolve(s) ==
    LET p == WalkPrefixes(s, scope, "none")
        h == Header(p.rest)
    IN  IF p.cur = Nil \/ p.rest = <<>> THEN Invalid
        ELSE IF p.rest[1] = "0"
        THEN IF behavior = Create \/ p.rest = s THEN Invalid ELSE Result("OK", p.cur, h.rest)
        ELSE IF h.segs = 0 \/ h.segs * 4 > BytesOf(h.rest) THEN Invalid
        ELSE Walk(h.rest, p.cur, h.segs, h.rest = s)

resolve_name_string ==
    /\ out.status = "none"
    /\ out' = Resolve(code)
    /\ UNCHANGED <<code, scope, behavior, path, tree, temp>>

\* the prefix characters of a name: any carets, then at most one backslash
RECURSIVE PrefixLen(_)
PrefixLen(s) ==
    CASE s = <<>> -> 0
      [] s # <<>> /\ s[1] = "^" -> 1 + PrefixLen(Tail(s))
      [] s # <<>> /\ s[1] = "\\" -> 1
      [] OTHER -> 0

\* the text written, with four letters to a segment, and the size asked for;
\* the four bytes are not looked at, so a cell may be no segment (raw)
PathOf(s) ==
    LET k == PrefixLen(s)
        body == SubSeq(s, k + 1, Len(s))
        h == Header(body)
        names == [i \in 1 .. h.segs |->
                     IF \A j \in 1 .. i : j <= Len(h.rest) /\ h.rest[j] \in Segs
                     THEN h.rest[i] ELSE "raw"]
        dotted == FlattenSeq([i \in DOMAIN names |->
                                 IF i < h.segs THEN <<names[i], ".">> ELSE <<names[i]>>])
        nameseg_bytes == IF h.segs > 0 THEN h.segs * 4 + h.segs - 1 ELSE 0
    IN  IF \/ body = <<>>
           \/ body[1] = "multi" /\ h.segs = 0
           \/ h.segs * 4 > BytesOf(h.rest)
        THEN [ok |-> FALSE, text |-> <<>>, size |-> 0]
        ELSE [ok |-> TRUE, text |-> SubSeq(s, 1, k) \o dotted, size |-> nameseg_bytes + k + 1]

\* (the two decoders are independent: here the same bytes go through both)
name_string_to_path ==
    /\ out.status # "none" /\ path.size = -1
    /\ path' = PathOf(code)
    /\ UNCHANGED <<code, scope, behavior, out, tree, temp>>

\* the node was linked to its parent when it was made; a method's nodes are
\* remembered, those of a table persist
do_install_node_item(persist) ==
    /\ path.size # -1 /\ behavior = Create /\ out.status = "OK" /\ out.node \notin tree
    /\ tree' = tree \cup {out.node}
    /\ temp' = IF persist THEN temp ELSE Append(temp, out.node)
    /\ UNCHANGED <<code, scope, behavior, out, path>>

Init ==
    /\ code \in SeqOf(Cells, MaxCells)
    /\ scope \in Nodes
    /\ behavior \in {Create, Find}
    /\ out = Result("none", Nil, <<>>)
    /\ path = [ok |-> FALSE, text |-> <<>>, size |-> -1]
    /\ tree = Nodes
    /\ temp = <<>>

Next == \/ resolve_name_string
        \/ name_string_to_path
        \/ \E persist \in BOOLEAN : do_install_node_item(persist)

Spec == Init /\ [][Next]_vars

-----------------------------------------------------------------------------
(* The grammar in the comment above name_string_to_path                    *)

Ups(n) == [i \in 1 .. n |-> "^"]
NamePaths(segs) ==
    CASE Len(segs) = 0 -> {<<"0">>}
      [] Len(segs) = 1 -> {segs, <<"multi", "1">> \o segs}
      [] Len(segs) = 2 -> {<<"dual">> \o segs, <<"multi", "2">> \o segs}
Names == {[prefix |-> p, segs |-> t] :
             p \in {<<"\\">>} \cup {Ups(n) : n \in 0 .. MaxCells}, t \in SeqOf(Segs, 2)}
\* the name the code starts with, with the code it takes
Denoted == {d \in UNION {{[name |-> n, text |-> n.prefix \o x] : x \in NamePaths(n.segs)} : n \in Names} :
               IsPrefix(d.text, code)}

\* where a name of the grammar leads
Start(d) == IF d.name.prefix = <<"\\">> THEN Root
            ELSE SubSeq(scope, 1, Len(scope) - Len(d.name.prefix))
Climbs(d) == d.name.prefix # <<"\\">> /\ Len(d.name.prefix) > Len(scope)
Lone(d) == d.text = d.name.segs
Candidates(d) ==
    IF Lone(d) THEN {SubSeq(scope, 1, i) \o d.name.segs : i \in 0 .. Len(scope)}
    ELSE {Start(d) \o d.name.segs}
Target(d) ==
    LET c == Candidates(d) \cap Nodes
    IN  IF c = {} THEN Nil ELSE CHOOSE n \in c : \A m \in c : Len(m) <= Len(n)

NameMeans(d) ==
    LET rest == SubSeq(code, Len(d.text) + 1, Len(code))
        target == Start(d) \o d.name.segs
    IN  IF Climbs(d) \/ d.text = <<"0">> \/ (d.name.segs = <<>> /\ behavior = Create)
        THEN out.status = "INVALID_NAMESTRING"
        ELSE /\ out.rest = rest
             /\ IF behavior = Find
                THEN out.node = Target(d) /\ out.status = IF Target(d) = Nil THEN "NOT_FOUND" ELSE "OK"
                ELSE out.status = CASE Front(target) \notin Nodes -> "NOT_FOUND"
                                    [] target \in Nodes -> "ALREADY_EXISTS"
                                    [] OTHER -> "OK"

\* A name in byte code resolves to the node its grammar says: upwards through
\* the scopes only for a lone segment without prefix, from the root after a
\* backslash, one scope up for every caret; whether or not it is found the
\* whole name is consumed, so the byte behind it is the next to be decoded;
\* a code that is no name never resolves; a node made for a new name is in
\* the namespace once, below a parent that is there; and the path made of a
\* name fills exactly the size asked for (resolve_name_string,
\* name_string_to_path, do_install_node_item).
NameExact ==
    /\ out.status # "none" =>
         IF Denoted = {} THEN out.status # "OK" ELSE \A d \in Denoted : NameMeans(d)
    /\ path.ok => BytesOf(path.text) + 1 = path.size
    /\ path.size # -1 => \A d \in Denoted : path.ok
    /\ \A n \in tree : n = Root \/ Front(n) \in tree
    /\ Len(temp) <= 1 /\ (\A i \in DOMAIN temp : temp[i] \in tree \ Nodes)
=============================================================================

--------------------------------- MODULE Osi ---------------------------------
(***************************************************************************)
(* The _OSI interface list (osi.c): predefined vendor and feature strings   *)
(* that are only ever disabled, strings the host adds at the head and       *)
(* removes, and AML's queries.  Every call holds interface_mutex from end   *)
(* to end, so each is one action.  The abstract view of the list, the set   *)
(* of strings that are supported with their kind, is the ghost offered.     *)
(***************************************************************************)
EXTENDS Naturals, Sequences, FiniteSets, SequencesExt

CONSTANTS Predefined,   \* sequence of [name, weight, kind, host, disabled, dynamic]
          Names,        \* strings the host and AML use
          Kinds         \* {"vendor", "feature"}

VARIABLES interfaces,   \* registered_interfaces
          query,        \* interface_handler: "none", "all" or "no"
          latest,       \* latest_queried_interface
          asked,        \* ghost: largest weight AML asked for
          offered,      \* ghost: what the calls so far say is supported
          kinds         \* ghost: [Names -> kind a name was registered with]

vars == <<interfaces, query, latest, asked, offered, kinds>>

KindOf(n) ==
    LET i == SelectInSeq(Predefined, LAMBDA e : e.name = n)
    IN IF i = 0 THEN "none" ELSE Predefined[i].kind

Init ==
    /\ interfaces = Predefined /\ query = "none" /\ latest = 0 /\ asked = 0
    /\ offered = {Predefined[i].name : i \in {j \in DOMAIN Predefined : ~Predefined[j].disabled}}
    /\ kinds = [n \in Names |-> KindOf(n)]

find_interface_unlocked(n) == SelectInSeq(interfaces, LAMBDA e : e.name = n)

(* a disabled string is enabled again, keeping its kind *)
uacpi_install_interface(n, k) ==
    LET i == find_interface_unlocked(n)
    IN /\ IF i # 0
            THEN interfaces' = [interfaces EXCEPT ![i].disabled = FALSE] /\ UNCHANGED kinds
            ELSE /\ interfaces' = <<[name |-> n, weight |-> 0, kind |-> k, host |-> 0,
                                     disabled |-> FALSE, dynamic |-> TRUE]>> \o interfaces
                 /\ kinds' = [kinds EXCEPT ![n] = k]
       /\ offered' = offered \cup {n}
       /\ UNCHANGED <<query, latest, asked>>

uacpi_uninstall_interface(n) ==
    LET i == find_interface_unlocked(n)
    IN /\ i # 0
       /\ IF interfaces[i].dynamic
            THEN interfaces' = RemoveAt(interfaces, i) /\ kinds' = [kinds EXCEPT ![n] = "none"]
            ELSE interfaces' = [interfaces EXCEPT ![i].disabled = TRUE] /\ UNCHANGED kinds
       /\ offered' = offered \ {n}
       /\ UNCHANGED <<query, latest, asked>>

(* enable and disable of a predefined host interface by its type *)
configure_host_interface(h, enabled) ==
    LET i == SelectInSeq(interfaces, LAMBDA e : e.host = h)
    IN /\ i # 0
       /\ interfaces' = [interfaces EXCEPT ![i].disabled = ~enabled]
       /\ offered' = IF enabled THEN offered \cup {interfaces[i].name}
                                ELSE offered \ {interfaces[i].name}
       /\ UNCHANGED <<query, latest, asked, kinds>>

uacpi_bulk_configure_interfaces(disable, ks) ==
    /\ interfaces' = [i \in DOMAIN interfaces |->
                        IF interfaces[i].kind \in ks
                        THEN [interfaces[i] EXCEPT !.disabled = disable] ELSE interfaces[i]]
    /\ LET them == {n \in Names : kinds[n] \in ks}
       IN offered' = IF disable THEN offered \ them ELSE offered \cup them
    /\ UNCHANGED <<query, latest, asked, kinds>>

(* a second handler is refused until the first is taken away *)
uacpi_set_interface_query_handler(h) ==
    /\ query = "none" \/ h = "none"
    /\ query' = h
    /\ UNCHANGED <<interfaces, latest, asked, offered, kinds>>

(* an unknown string is answered no without asking the handler *)
osi_value(n) ==
    LET i == find_interface_unlocked(n)
    IN i # 0 /\ (IF query = "none" THEN ~interfaces[i].disabled ELSE query = "all")

(* the weight counts even when the string is disabled *)
uacpi_handle_osi(n) ==
    LET i == find_interface_unlocked(n)
        j == SelectInSeq(Predefined, LAMBDA e : e.name = n)
    IN /\ latest' = IF i # 0 /\ interfaces[i].weight > latest THEN interfaces[i].weight ELSE latest
       /\ asked' = IF j # 0 /\ Predefined[j].weight > asked THEN Predefined[j].weight ELSE asked
       /\ UNCHANGED <<interfaces, query, offered, kinds>>

Next ==
    \/ \E n \in Names : \/ \E k \in Kinds : uacpi_install_interface(n, k)
                        \/ uacpi_uninstall_interface(n)
                        \/ uacpi_handle_osi(n)
    \/ \E h \in 1 .. 2, b \in BOOLEAN : configure_host_interface(h, b)
    \/ \E b \in BOOLEAN, ks \in SUBSET Kinds : uacpi_bulk_configure_interfaces(b, ks)
    \/ \E h \in {"none", "all", "no"} : uacpi_set_interface_query_handler(h)
Spec == Init /\ [][Next]_vars

-----------------------------------------------------------------------------
(* The list and the answers agree with the set of strings the sequence of calls
   offers: a name is listed once, enabled exactly when it is offered, a predefined
   string is never dropped, and the latest queried Windows version is the newest one
   AML asked for although the list was edited in between. *)
OsiMatches ==
    /\ \A i, j \in DOMAIN interfaces : interfaces[i].name = interfaces[j].name => i = j
    /\ offered = {interfaces[i].name : i \in {j \in DOMAIN interfaces : ~interfaces[j].disabled}}
    /\ \A i \in DOMAIN Predefined : find_interface_unlocked(Predefined[i].name) # 0
    /\ \A n \in Names : query = "none" => (osi_value(n) <=> n \in offered)
    /\ latest = asked
=============================================================================

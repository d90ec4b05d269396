------------------------------- MODULE Opregion -------------------------------
(***************************************************************************)
(* uACPI's operation regions (opregion.c) and the default handlers          *)
(* (default_handlers.c).  A device carries a list of address space          *)
(* handlers; a region below it points to the handler that serves it and is  *)
(* linked into that handler's list of regions.  Handlers are counted: one   *)
(* reference for the device's list and one per region.  AML creates and     *)
(* destroys regions, the host installs and removes handlers, at any time.   *)
(*                                                                          *)
(* _REG succeeds or not (\E ok); an attach callback succeeds or not.        *)
(***************************************************************************)
EXTENDS Naturals, Sequences, FiniteSets, SequencesExt

CONSTANTS Devices, Root, Regions,
          Up,        \* [Devices \cup Regions -> Devices]: the node above; Up[Root] = Root
          Order,     \* the regions in depth first order
          Space,     \* [Regions -> Spaces]
          Spaces, NoReg,  \* NoReg: spaces that need no _REG
          PciRoots,       \* devices whose _HID or _CID says PCI root
          MaxHandlers     \* bound on handler structures

VARIABLES level,     \* "loading" (up to NAMESPACE_LOADED), "loaded", "initialized"
          live,      \* regions AML has created
          handler,   \* region->handler, 0 for none
          attached, reg_executed,  \* region->state_flags
          heads,     \* [Devices -> Seq of handlers]: address_space_head
          hs,        \* [1 .. MaxHandlers -> handler structure]
          context,   \* region->user_context: what the handler allocated at attach
          tried      \* ghost: _REG(connect) was run since the handler was installed

vars == <<level, live, handler, attached, reg_executed, heads, hs, context, tried>>

Handlers == 1 .. MaxHandlers
Free == [space |-> "none", regions |-> <<>>, refs |-> 0, early |-> FALSE]

Init ==
    /\ level = "loading" /\ live = {}
    /\ handler = [r \in Regions |-> 0]
    /\ attached = {} /\ reg_executed = {} /\ tried = {}
    /\ context = [r \in Regions |-> <<>>]
    /\ heads = [d \in Devices |-> <<>>]
    /\ hs = [h \in Handlers |-> Free]

space_needs_reg(s) == s \notin NoReg

find_handler(d, s) ==
    LET i == SelectInSeq(heads[d], LAMBDA h : hs[h].space = s)
    IN IF i = 0 THEN 0 ELSE heads[d][i]

Drop(s, x) == SelectSeq(s, LAMBDA y : y # x)
Path(n) == {Up[n], Up[Up[n]], Up[Up[Up[n]]]}
Below(n, d) == n # d /\ d \in Path(n)

-----------------------------------------------------------------------------
(* The default handlers.  Attaching allocates a context, a sequence here so that a
   context that is lost or freed twice shows; detaching frees it. *)

(* the PCI root above a region, or the region itself when there is none *)
find_pci_root(r) ==
    LET up == <<Up[r], Up[Up[r]], Up[Up[Up[r]]]>>
        i == SelectInSeq(up, LAMBDA d : d \in PciRoots)
    IN IF i = 0 THEN r ELSE up[i]

(* bus and segment come from the root, device and function from the closest device *)
pci_region_attach(r) == [bus |-> find_pci_root(r), function |-> Up[r]]

memory_region_attach(r) == [bus |-> "memory", function |-> r]
io_region_attach(r) == [bus |-> "io", function |-> r]

handle_attach(r) ==
    CASE Space[r] = "mem" -> <<memory_region_attach(r)>>
      [] Space[r] = "io" -> <<io_region_attach(r)>>
      [] Space[r] = "pci" -> <<pci_region_attach(r)>>
      [] Space[r] = "table" -> <<>>
handle_detach(c) == IF c = <<>> THEN <<>> ELSE Tail(c)

-----------------------------------------------------------------------------
(* functions of st = [handler, attached, reg, hs, context, tried] *)

State == [handler |-> handler, attached |-> attached, reg |-> reg_executed,
          hs |-> hs, context |-> context, tried |-> tried]
Become(st) ==
    /\ handler' = st.handler /\ attached' = st.attached /\ reg_executed' = st.reg
    /\ hs' = st.hs /\ context' = st.context /\ tried' = st.tried

unref(hh, h) == [hh EXCEPT ![h] = IF @.refs = 1 THEN Free ELSE [@ EXCEPT !.refs = @ - 1]]

region_install_handler(st, r, h) ==
    [st EXCEPT !.handler[r] = h,
               !.hs[h].refs = @ + 1,
               !.hs[h].regions = <<r>> \o @]

(* unlink, tell the handler (detach) and the firmware (_REG disconnect), let go *)
uacpi_opregion_uninstall_handlerVariant(st, r) ==
    IF st.handler[r] = 0 THEN st
    ELSE [st EXCEPT !.handler[r] = 0,
                    !.hs = unref(st.hs, st.handler[r]),
                    !.context[r] = IF r \in st.attached THEN handle_detach(@) ELSE @,
                    !.attached = @ \ {r}, !.reg = @ \ {r}, !.tried = @ \ {r}]
uacpi_opregion_uninstall_handler(st, r) ==
    IF st.handler[r] = 0 THEN st
    ELSE [st EXCEPT !.handler[r] = 0,
                    !.hs = unref([st.hs EXCEPT ![st.handler[r]].regions = Drop(@, r)],
                                 st.handler[r]),
                    !.context[r] = IF r \in st.attached THEN handle_detach(@) ELSE @,
                    !.attached = @ \ {r}, !.reg = @ \ {r}, !.tried = @ \ {r}]

region_run_reg(st, r, ok) ==
    [st EXCEPT !.tried = @ \cup {r}, !.reg = IF r \in ok THEN @ \cup {r} ELSE @]

(* do_run_reg over the subtree *)
run_all_reg(st, d, s, ok) ==
    FoldLeft(LAMBDA a, r : region_run_reg(a, r, ok), st,
             SelectSeq(Order, LAMBDA r : /\ r \in live /\ Below(r, d) /\ Space[r] = s
                                         /\ r \notin st.reg /\ st.handler[r] # 0))

uacpi_reg_all_opregions(st, d, s, ok) ==
    IF space_needs_reg(s) /\ find_handler(d, s) # 0 THEN run_all_reg(st, d, s, ok) ELSE st

(* the regions do_install_or_uninstall_handler gets to: the walk leaves out the
   subtree of a device that has a handler of its own for the space *)
Reached(d, s) ==
    SelectSeq(Order, LAMBDA r :
        /\ r \in live /\ Below(r, d) /\ Space[r] = s
        /\ \A e \in Path(r) : Below(e, d) => find_handler(e, s) = 0)

Take(st, r, h) == region_install_handler(uacpi_opregion_uninstall_handler(st, r), r, h)

-----------------------------------------------------------------------------
(* reg_all_opregions finds the handler that was just put first in the list *)
uacpi_install_address_space_handler(d, s, ok) ==
    LET h == CHOOSE x \in Handlers : hs[x].refs = 0
        new == [State EXCEPT !.hs[h] = [space |-> s, regions |-> <<>>, refs |-> 1,
                                        early |-> level = "loading" /\ d # Root]]
        st == FoldLeft(LAMBDA a, r : Take(a, r, h), new, Reached(d, s))
    IN /\ find_handler(d, s) = 0 /\ \E x \in Handlers : hs[x].refs = 0
       /\ heads' = [heads EXCEPT ![d] = <<h>> \o @]
       /\ Become(IF \/ ~space_needs_reg(s)
                    \/ level = "loading"
                    \/ d = Root /\ level = "loaded"
                 THEN st ELSE run_all_reg(st, d, s, ok))
       /\ UNCHANGED <<level, live>>

(* a region served by another handler is left alone ("handler mismatch") *)
uacpi_uninstall_address_space_handler(d, s) ==
    LET h == find_handler(d, s)
        st == FoldLeft(LAMBDA a, r : IF a.handler[r] = h
                                     THEN uacpi_opregion_uninstall_handler(a, r) ELSE a,
                       State, Reached(d, s))
    IN /\ h # 0
       /\ Become([st EXCEPT !.hs = unref(@, h)])
       /\ heads' = [heads EXCEPT ![d] = Drop(@, h)]
       /\ UNCHANGED <<level, live>>

(* the device that serves a new region: the first on the way up with a handler *)
Serving(r, s) ==
    LET up == <<Up[r], Up[Up[r]], Up[Up[Up[r]]]>>
        i == SelectInSeq(up, LAMBDA d : find_handler(d, s) # 0)
    IN IF i = 0 THEN 0 ELSE find_handler(up[i], s)

(* AML's OperationRegion: find_and_install_handler, then uacpi_opregion_reg *)
handle_create_op_region(r, ok) ==
    LET h == Serving(r, Space[r])
        st == region_install_handler(State, r, h)
    IN /\ r \notin live /\ live' = live \cup {r}
       /\ IF h = 0 THEN UNCHANGED <<handler, attached, reg_executed, hs, context, tried>>
          ELSE Become(IF space_needs_reg(Space[r]) THEN region_run_reg(st, r, ok) ELSE st)
       /\ UNCHANGED <<level, heads>>

(* the end of the method that created it *)
uacpi_node_uninstall(r) ==
    /\ r \in live /\ live' = live \ {r}
    /\ Become(uacpi_opregion_uninstall_handler(State, r))
    /\ UNCHANGED <<level, heads>>

(* uacpi_opregion_attach before the first access to a region *)
dispatch_field_io(r) ==
    /\ r \in live /\ handler[r] # 0 /\ r \notin attached
    /\ attached' = attached \cup {r}
    /\ context' = [context EXCEPT ![r] = handle_attach(r) \o @]
    /\ UNCHANGED <<level, live, handler, reg_executed, heads, hs, tried>>

namespace_load ==
    /\ level = "loading" /\ level' = "loaded"
    /\ UNCHANGED <<live, handler, attached, reg_executed, heads, hs, context, tried>>

(* step 3 of uacpi_namespace_initialize *)
namespace_initialize(ok) ==
    /\ level = "loaded" /\ level' = "initialized"
    /\ Become(FoldLeft(LAMBDA a, h : uacpi_reg_all_opregions(a, Root, hs[h].space, ok),
                       State, heads[Root]))
    /\ UNCHANGED <<live, heads>>

(* the _REG methods run in one step all succeed or all fail *)
RegOutcomes == {{}, Regions}

Next ==
    \/ \E ok \in RegOutcomes :
         \/ \E d \in Devices, s \in Spaces : uacpi_install_address_space_handler(d, s, ok)
         \/ \E r \in Regions : handle_create_op_region(r, ok)
         \/ namespace_initialize(ok)
    \/ \E d \in Devices, s \in Spaces : uacpi_uninstall_address_space_handler(d, s)
    \/ \E r \in Regions : uacpi_node_uninstall(r) \/ dispatch_field_io(r)
    \/ namespace_load
Spec == Init /\ [][Next]_vars

-----------------------------------------------------------------------------
(* A region that is served is served by the handler of the closest device above it
   that has one for its space, and is linked in that handler's list exactly once.  A
   handler's references are its regions and its device's list, so it is freed exactly
   when neither is left, and a region that no handler serves is neither attached nor
   connected.  The context the handler allocated lives exactly while it is attached. *)
RegionHandler ==
    /\ \A r \in Regions :
         /\ handler[r] # 0 => /\ r \in live
                              /\ handler[r] = Serving(r, Space[r])
         /\ r \in attached \cup reg_executed => handler[r] # 0
         /\ context[r] = IF r \in attached THEN handle_attach(r) ELSE <<>>
         /\ \A h \in Handlers :
              Len(SelectSeq(hs[h].regions, LAMBDA x : x = r)) = IF handler[r] = h THEN 1 ELSE 0
    /\ \A h \in Handlers :
         hs[h].refs = Len(hs[h].regions)
                      + Cardinality({d \in Devices : \E i \in DOMAIN heads[d] : heads[d][i] = h})

(* Once the namespace is initialised the firmware has been told by _REG of every
   region that is served, except by a handler that was put on a device before the
   namespace was loaded (its owner has to call uacpi_reg_all_opregions). *)
RegAttempted ==
    level = "initialized" =>
        \A r \in live : /\ handler[r] # 0 /\ space_needs_reg(Space[r])
                        /\ ~hs[handler[r]].early
                        => r \in tried
=============================================================================

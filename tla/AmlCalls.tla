------------------------------ MODULE AmlCalls ------------------------------
(***************************************************************************)
(* Calls of the AML interpreter (interpreter.c, mutex.c): the call stacks   *)
(* of execution contexts, serialized methods, Acquire and Release with sync *)
(* levels, the mutexes a context holds, tables loaded by methods, and what  *)
(* an error unwinds.                                                        *)
(***************************************************************************)
EXTENDS Naturals, Sequences, FiniteSets, SequencesExt, FiniteSetsExt, Functions

CONSTANTS Ctx,          \* execution contexts (native callers)
          Scenarios,    \* bound: which contexts run what, and how deep (max_call_stack_depth)
          Methods,      \* control methods
          Tables,       \* definition blocks: their code is a method whose names persist
          Serialized,   \* the serialized methods
          Objects,      \* Mutex objects of the namespace
          Level,        \* [Serialized \cup Objects -> sync level]
          InlineHeld,   \* inline capacity of held_mutexes_array (8 in the code)
          MaxDepth      \* bound on recursive acquires (0xFFFF in the code)

Mutexes == Serialized \cup Objects    \* a serialized method owns a mutex of its own

VARIABLES scen,      \* the scenario: [ctx, code, objects, frames]
          stack,     \* [Ctx -> Seq(frame)]: method, prev_sync_level, whether the frame
                     \*   acquired the method's mutex, whether a call of the same method
                     \*   above it has returned, and held and slack when it was entered
          held,      \* [Ctx -> Seq(Mutexes)]
          sync,      \* [Ctx -> sync level]
          depth,     \* [Mutexes -> Nat], 0: not owned
          owner,     \* [Mutexes -> thread id]
          status,    \* [Ctx -> "idle", "run", "end"]
          pend,      \* [Ctx -> the acquire or release it is in, or NONE]
          slack,     \* history: since a return or a call named at HeldExact, the sync level
                     \*   of the context may not be the one of its last mutex
          raced      \* history: two contexts were between a test of a mutex' owner or depth
                     \*   and the change it allows

vars == <<scen, stack, held, sync, depth, owner, status, pend, slack, raced>>

uacpi_kernel_get_thread_id(c) == "NULL"        \* the hook returns NULL to every thread
NOBODY == "none"
NONE == [at |-> "none"]

Init ==
    /\ scen \in Scenarios
    /\ stack = [c \in Ctx |-> <<>>] /\ held = [c \in Ctx |-> <<>>]
    /\ sync = [c \in Ctx |-> 0] /\ status = [c \in Ctx |-> "idle"]
    /\ depth = [m \in Mutexes |-> 0] /\ owner = [m \in Mutexes |-> NOBODY]
    /\ pend = [c \in Ctx |-> NONE] /\ slack = [c \in Ctx |-> FALSE] /\ raced = FALSE

uacpi_this_thread_owns_aml_mutex(c, m) == owner[m] = uacpi_kernel_get_thread_id(c)

-----------------------------------------------------------------------------
(* held_mutexes_array: the first InlineHeld items are stored inline *)

held_mutexes_array_remove_idx_variant(h, i) ==
    IF i > InlineHeld \/ Len(h) <= InlineHeld THEN RemoveAt(h, i)
    ELSE RemoveAt(SubSeq(h, 1, InlineHeld), i) \o <<h[InlineHeld]>>
         \o SubSeq(h, InlineHeld + 2, Len(h))
held_mutexes_array_remove_idx(h, i) ==
    LET inl == SubSeq(h, 1, InlineHeld)
        dyn == SubSeq(h, InlineHeld + 1, Len(h))
    IN IF i > InlineHeld THEN inl \o RemoveAt(dyn, i - InlineHeld)
       ELSE IF Len(h) > InlineHeld THEN RemoveAt(inl, i) \o <<Head(dyn)>> \o Tail(dyn)
       ELSE RemoveAt(h, i)

(* held_mutexes_array_remove_and_release on a state [held, depth, owner] *)
Own(h, d, o) == [held |-> h, depth |-> d, owner |-> o]
Free(s, m, h) == Own(h, [s.depth EXCEPT ![m] = 0], [s.owner EXCEPT ![m] = NOBODY])

Found(s, m) == \E i \in 1 .. Len(s.held) : s.held[i] = m
LastIndex(s, m) == CHOOSE i \in 1 .. Len(s.held) :
                      s.held[i] = m /\ \A j \in i + 1 .. Len(s.held) : s.held[j] # m

(* the status it returns, and the state it leaves *)
Releasable(s, m, force) ==
    /\ s.held # <<>>
    /\ \/ ~force /\ Level[Last(s.held)] # Level[m]
       \/ ~force /\ s.depth[m] > 1
       \/ Found(s, m)

remove_and_release(s, m, force) ==
    IF s.held = <<>> THEN s
    ELSE IF ~force /\ Level[Last(s.held)] # Level[m] THEN s
    ELSE IF ~force /\ s.depth[m] > 1 THEN Own(s.held, [s.depth EXCEPT ![m] = @ - 1], s.owner)
    ELSE IF Last(s.held) = m THEN Free(s, m, Front(s.held))
    ELSE IF Found(s, m) THEN Free(s, m, held_mutexes_array_remove_idx(s.held, LastIndex(s, m)))
    ELSE s

Now(c) == Own(held[c], depth, owner)
Becomes(c, s) == held' = [held EXCEPT ![c] = s.held] /\ depth' = s.depth /\ owner' = s.owner

-----------------------------------------------------------------------------
(* ctx_reload_post_ret for the frames above the first n, the topmost first; the result is
   [stack, own, sync, slack] *)
RECURSIVE Reload(_, _, _, _, _)
Reload(fs, n, own, level, loose) ==
    IF Len(fs) = n THEN [stack |-> fs, own |-> own, sync |-> level, slack |-> loose]
    ELSE LET f == Last(fs)
             rest == [i \in 1 .. Len(fs) - 1 |->
                        IF fs[i].m = f.m THEN [fs[i] EXCEPT !.reent = TRUE] ELSE fs[i]]
             freed == remove_and_release(own, f.m, TRUE)
         IN IF f.m \in Serialized
              THEN Reload(rest, n, freed, f.prev, f.slack \/ freed.held # f.base)
              ELSE Reload(rest, n, own, level, loose)

(* the frames above the first n end, from the state [own, level, loose] of the context *)
Unwind(c, n, own, level, loose) ==
    LET r == Reload(stack[c], n, own, level, loose)
    IN /\ stack' = [stack EXCEPT ![c] = r.stack]
       /\ Becomes(c, r.own) /\ sync' = [sync EXCEPT ![c] = r.sync]
       /\ slack' = [slack EXCEPT ![c] = r.slack]
       /\ status' = [status EXCEPT ![c] = IF n = 0 THEN "end" ELSE @]
       /\ pend' = [pend EXCEPT ![c] = NONE]
       /\ UNCHANGED scen

Running(c) == status[c] = "run" /\ pend[c] = NONE

(* Return, or the end of the code *)
FrameReturns(c) ==
    /\ Running(c) /\ Unwind(c, Len(stack[c]) - 1, Now(c), sync[c], slack[c])
    /\ UNCHANGED raced

(* stack_unwind: how many frames survive an error in the topmost one *)
RECURSIVE Survive(_, _, _)
Survive(fs, n, first) ==
    IF n = 0 THEN 0
    ELSE IF fs[n].m \in Tables THEN IF first THEN n - 1 ELSE n
    ELSE Survive(fs, n - 1, FALSE)
Survivors(c) == Survive(stack[c], Len(stack[c]), TRUE)

(* Variant: an error in a table's code unwinds the whole call stack *)
AbortVariant(c) ==
    Running(c) /\ Unwind(c, 0, Now(c), sync[c], slack[c]) /\ UNCHANGED raced

(* An operation fails: also a call beyond the depth limit or with too low a sync level, and
   a call of a method that is not serialized whose arguments or scope cannot be set up *)
Abort(c) ==
    /\ Running(c) /\ Unwind(c, Survivors(c), Now(c), sync[c], slack[c])
    /\ UNCHANGED raced

-----------------------------------------------------------------------------
(* prepare_method_call and enter_method *)

Frame(c, m, took) ==
    [m |-> m, prev |-> IF m \in Serialized THEN sync[c] ELSE 0, took |-> took,
     reent |-> FALSE, base |-> held[c], slack |-> slack[c]]
PushFrame(c, m, took) == stack' = [stack EXCEPT ![c] = Append(@, Frame(c, m, took))]

CanEnter(c, m) ==
    /\ m \in scen.code /\ Len(stack[c]) < scen.frames[c]
    /\ m \in Serialized => sync[c] <= Level[m]

(* uacpi_acquire_aml_mutex is called; push: the caller will push m to held_mutexes *)
Acquiring(c, m, call, push) ==
    pend' = [pend EXCEPT ![c] = [at |-> "load", m |-> m, call |-> call, push |-> push]]

(* m's mutex is this thread's already, or is another context's with the same thread id *)
Loose(c, m) == slack[c] \/ m \notin Range(held[c])

enter_method(c, m) ==
    \/ /\ m \notin Serialized
       /\ PushFrame(c, m, FALSE)
       /\ UNCHANGED <<held, depth, owner, sync, pend, slack>>
    \/ /\ m \in Serialized /\ uacpi_this_thread_owns_aml_mutex(c, m)
       /\ PushFrame(c, m, FALSE)
       /\ sync' = [sync EXCEPT ![c] = Level[m]]
       /\ slack' = [slack EXCEPT ![c] = Loose(c, m)]
       /\ UNCHANGED <<held, depth, owner, pend>>
    \/ /\ m \in Serialized /\ ~uacpi_this_thread_owns_aml_mutex(c, m)
       /\ Acquiring(c, m, TRUE, TRUE)
       /\ UNCHANGED <<stack, held, depth, owner, sync, slack>>

uacpi_execute_control_method(c, m) ==
    /\ status[c] = "idle" /\ c \in scen.ctx
    /\ CanEnter(c, m) /\ enter_method(c, m)
    /\ status' = [status EXCEPT ![c] = "run"] /\ UNCHANGED <<scen, raced>>

(* DISPATCH_METHOD_CALL, and DISPATCH_TABLE_LOAD in a method *)
CallMethod(c, m) ==
    /\ Running(c) /\ m \in Methods /\ CanEnter(c, m) /\ enter_method(c, m)
    /\ UNCHANGED <<scen, status, raced>>
LoadTable(c, t) ==
    /\ Running(c) /\ t \in Tables /\ Last(stack[c]).m \in Methods
    /\ CanEnter(c, t) /\ enter_method(c, t)
    /\ UNCHANGED <<scen, status, raced>>

(* method_dispatch_error after enter_method: the frame is dropped, the sync level and the
   mutex, when it was pushed, stay *)
EnterFailsOwned(c, m) ==
    /\ (Running(c) \/ (status[c] = "idle" /\ c \in scen.ctx))
    /\ m \in Serialized /\ CanEnter(c, m) /\ uacpi_this_thread_owns_aml_mutex(c, m)
    /\ Unwind(c, Survivors(c), Now(c), Level[m], Loose(c, m))
    /\ UNCHANGED raced
Pushed(c) == Own(Append(held[c], pend[c].m), depth, owner)
EnterFails(c) ==
    /\ pend[c].at = "push" /\ pend[c].call
    /\ Unwind(c, Survivors(c), Pushed(c), Level[pend[c].m], slack[c])
    /\ UNCHANGED raced

-----------------------------------------------------------------------------
(* uacpi_acquire_aml_mutex, in steps.  The caller has tested the owner before. *)

At(c, at) == pend' = [pend EXCEPT ![c] = [@ EXCEPT !.at = at]]
Leave(c) == pend' = [pend EXCEPT ![c] = NONE]

LoadOwner(c) ==
    /\ pend[c].at = "load"
    /\ IF ~uacpi_this_thread_owns_aml_mutex(c, pend[c].m) THEN At(c, "wait")
       ELSE \/ depth[pend[c].m] < MaxDepth /\ At(c, "bump")
            \/ depth[pend[c].m] = MaxDepth /\ ~pend[c].call /\ Leave(c)
    /\ UNCHANGED <<scen, stack, held, sync, depth, owner, status, slack, raced>>

(* mutex->depth++; the caller pushes a mutex that another context has, or the owner has
   gone since *)
Bump(c) ==
    /\ pend[c].at = "bump" /\ depth[pend[c].m] < MaxDepth
    /\ depth' = [depth EXCEPT ![pend[c].m] = @ + 1]
    /\ raced' = (pend[c].push \/ ~uacpi_this_thread_owns_aml_mutex(c, pend[c].m))
    /\ Leave(c)
    /\ UNCHANGED <<scen, stack, held, sync, owner, status, slack>>

(* The handle is free; a caller that will not push it has lost it since its test *)
TakeHandle(c) ==
    /\ pend[c].at = "wait" /\ owner[pend[c].m] = NOBODY
    /\ depth' = [depth EXCEPT ![pend[c].m] = 1]
    /\ owner' = [owner EXCEPT ![pend[c].m] = uacpi_kernel_get_thread_id(c)]
    /\ raced' = ~pend[c].push
    /\ At(c, "push")
    /\ UNCHANGED <<scen, stack, held, sync, status, slack>>

(* Acquire times out; enter_method waits for ever *)
TimesOut(c) ==
    /\ pend[c].at = "wait" /\ ~pend[c].call /\ Leave(c)
    /\ UNCHANGED <<scen, stack, held, sync, depth, owner, status, slack, raced>>

(* held_mutexes_array_push, and the rest of enter_method or of Acquire *)
Push(c) ==
    LET m == pend[c].m IN
    /\ pend[c].at = "push"
    /\ held' = [held EXCEPT ![c] = Append(@, m)]
    /\ sync' = [sync EXCEPT ![c] = Level[m]]
    /\ IF pend[c].call THEN PushFrame(c, m, TRUE) ELSE UNCHANGED stack
    /\ Leave(c)
    /\ UNCHANGED <<scen, depth, owner, status, slack, raced>>

(* No memory for the array: the mutex is released again, once, and the operation fails *)
PushFails(c) ==
    LET m == pend[c].m IN
    /\ pend[c].at = "push"
    /\ raced' = (depth[m] > 1)
    /\ Unwind(c, Survivors(c), Free(Now(c), m, held[c]), sync[c], slack[c])

-----------------------------------------------------------------------------
(* handle_mutex_ctl; a refused Acquire or Release changes nothing *)
Acquire(c, x) ==
    /\ Running(c) /\ x \in scen.objects /\ sync[c] <= Level[x]
    /\ Acquiring(c, x, FALSE, ~uacpi_this_thread_owns_aml_mutex(c, x))
    /\ UNCHANGED <<scen, stack, held, sync, depth, owner, status, slack, raced>>

Released(c, s) ==
    /\ Becomes(c, s)
    /\ sync' = [sync EXCEPT ![c] = IF s.held = <<>> THEN 0 ELSE Level[Last(s.held)]]
    /\ slack' = [slack EXCEPT ![c] = @ /\ s.held # <<>>]

(* one of several acquires is undone in a second step, after the test of the depth *)
Recursive(c, x) == Level[Last(held[c])] = Level[x] /\ depth[x] > 1
Release(c, x) ==
    /\ Running(c) /\ x \in scen.objects /\ uacpi_this_thread_owns_aml_mutex(c, x)
    /\ Releasable(Now(c), x, FALSE)
    /\ IF Recursive(c, x)
         THEN /\ pend' = [pend EXCEPT ![c] = [at |-> "drop", m |-> x]]
              /\ UNCHANGED <<held, sync, depth, owner, slack>>
         ELSE Released(c, remove_and_release(Now(c), x, FALSE)) /\ UNCHANGED pend
    /\ UNCHANGED <<scen, stack, status, raced>>
DropDepth(c) ==
    /\ pend[c].at = "drop"
    /\ raced' = (depth[pend[c].m] <= 1)
    /\ Released(c, IF raced' THEN Free(Now(c), pend[c].m, held[c])
                   ELSE remove_and_release(Now(c), pend[c].m, FALSE))
    /\ Leave(c)
    /\ UNCHANGED <<scen, stack, status>>

(* execution_context_release: one more of the held mutexes, then the context is gone *)
execution_context_release(c) ==
    /\ status[c] = "end" /\ held[c] # <<>>
    /\ Becomes(c, remove_and_release(Now(c), Last(held[c]), TRUE))
    /\ UNCHANGED <<scen, stack, sync, status, pend, slack, raced>>
ContextGone(c) ==
    /\ status[c] = "end" /\ held[c] = <<>>
    /\ status' = [status EXCEPT ![c] = "idle"] /\ sync' = [sync EXCEPT ![c] = 0]
    /\ slack' = [slack EXCEPT ![c] = FALSE]
    /\ UNCHANGED <<scen, stack, held, depth, owner, pend, raced>>

(* what the contexts do to a mutex after a race is not followed *)
Next ==
    /\ ~raced
    /\ \E c \in Ctx :
       \/ \E m \in Methods \cup Tables : uacpi_execute_control_method(c, m)
       \/ \E m \in Methods : CallMethod(c, m)
       \/ \E t \in Tables : LoadTable(c, t)
       \/ FrameReturns(c) \/ Abort(c) \/ EnterFails(c)
       \/ \E m \in Methods : EnterFailsOwned(c, m)
       \/ LoadOwner(c) \/ Bump(c) \/ TakeHandle(c) \/ TimesOut(c) \/ Push(c) \/ PushFails(c)
       \/ DropDepth(c)
       \/ \E x \in Objects : Acquire(c, x) \/ Release(c, x)
       \/ execution_context_release(c) \/ ContextGone(c)
Spec == Init /\ [][Next]_vars

-----------------------------------------------------------------------------
(* what c has in its list, and what it has acquired and is about to push *)
Has(c, m) ==
    Cardinality({i \in 1 .. Len(held[c]) : held[c][i] = m})
    + IF pend[c].at = "push" /\ pend[c].m = m THEN 1 ELSE 0

(* Over calls, returns, errors and releases out of order, every owned mutex is in the list
   of exactly one context, exactly once, and no list has a mutex nobody owns: a context
   that ends leaves no mutex locked.  The frame that took the mutex of a serialized method
   keeps it until it returns, unless the method has called itself, since the return of the
   inner call releases the mutex under the outer one.  The sync level is the level of the
   last mutex acquired (0 without one) until a serialized method returns with other mutexes
   held than it was called with (it kept or released some, a call failed after it had
   acquired the callee's mutex, or it was an inner call of itself) or runs on the mutex of
   another context; the level is right again when a caller returns with the mutexes it was
   called with, or when none is held (slack).  All of it holds until
   two contexts race: every thread has the id NULL, so that a mutex taken or released by
   another one between the test of its owner or depth and the acquire or release is
   mistaken for the own one (raced). *)
HeldExact ==
    ~raced =>
    /\ \A m \in Mutexes :
         /\ (owner[m] # NOBODY) = (depth[m] > 0)
         /\ MapThenSumSet(LAMBDA c : Has(c, m), Ctx) = IF depth[m] > 0 THEN 1 ELSE 0
    /\ \A c \in Ctx :
         /\ status[c] = "idle" => held[c] = <<>>
         /\ \A i \in 1 .. Len(stack[c]) :
              stack[c][i].took /\ ~stack[c][i].reent => stack[c][i].m \in Range(held[c])
         /\ Running(c) /\ ~slack[c] =>
              sync[c] = IF held[c] = <<>> THEN 0 ELSE Level[Last(held[c])]

(* An error in a method ends the calls up to the definition block below it and not that
   block; an error in a block's own code ends this block only. *)
UnwindStopsStep ==
    \A c \in Ctx :
       (Abort(c) \/ EnterFails(c) \/ PushFails(c)) /\ stack[c] # <<>> =>
         LET blocks == {i \in 1 .. Len(stack[c]) : stack[c][i].m \in Tables}
             n == Len(stack'[c])
         IN IF Last(stack[c]).m \in Tables THEN n = Len(stack[c]) - 1
            ELSE \/ blocks = {} /\ n = 0
                 \/ n \in blocks /\ \A i \in blocks : i <= n

=============================================================================

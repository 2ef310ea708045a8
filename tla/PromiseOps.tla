------------------------------ MODULE PromiseOps ------------------------------
(***************************************************************************)
(* The emitted functions on native promises that other emitted functions   *)
(* call, of src/codegen/async-scheduler.ts and unhandled-rejection.ts, as  *)
(* operators on the state of the promise runtime, a record                 *)
(*     [promise, minted, queue, unhandled]                                 *)
(* of the promises, how many of them are allocated, the microtask queue    *)
(* (the FIFO that MicrotaskQueue implements) and the list of unhandled     *)
(* rejections.                                                             *)
(*                                                                         *)
(* A resolution is classified the way __promise_resolve_value does: a      *)
(* promise, an object with a callable "then", one whose "then" getter      *)
(* throws, or a plain value.  A promise to which the program has assigned  *)
(* a "then" property of its own is left out.                               *)
(***************************************************************************)
EXTENDS Integers, Sequences, FiniteSets, FiniteSetsExt

CONSTANTS
    Value,      \* plain values and reasons
    Thenable,   \* an object with a callable "then"
    Poisoned,   \* an object whose "then" getter throws ...
    Thrown,     \* ... this reason
    CycleError, \* the TypeError of a promise resolved with itself
    NoValue,    \* null
    Exotic,     \* which of the objects above the program resolves with
    MaxCalls    \* (bound) calls that the program makes into the runtime

ASSUME MaxCallsAssumption == MaxCalls \in Nat
ASSUME ExoticAssumption == Exotic \subseteq {Thenable, Poisoned}

\* Promises, in the order in which they are allocated.  A call allocates at
\* most one, and a finally a second one when its callback has returned.
Ids == 1..(2 * MaxCalls)

\* A promise, an object and a plain value are told apart, and null is neither.
ASSUME KindsAssumption ==
    /\ Ids \cap (Value \cup {Thenable, Poisoned, Thrown, CycleError, NoValue}) = {}
    /\ NoValue \notin Value
    /\ {Thenable, Poisoned} \cap (Value \cup {Thrown, CycleError, NoValue}) = {}
    /\ Thenable # Poisoned

NewPromise == [state |-> "pending", value |-> NoValue, callbacks |-> <<>>]

Mint(r, p) == [r EXCEPT !.minted = @ + 1, !.promise[r.minted + 1] = p]

\* The captures of a reaction: the promise it settles, and for a finally the
\* settlement to restore.
Caps(c) == [chained |-> c, value |-> NoValue, isReject |-> FALSE]

\* Before the program starts.
NoPromises == [promise |-> [p \in Ids |-> NewPromise], minted |-> 0,
               queue |-> <<>>, unhandled |-> <<>>]

Enqueue(r, fn, caps, arg) ==
    [r EXCEPT !.queue = Append(@, [fn |-> fn, caps |-> caps, arg |-> arg])]

NoteUnhandled(r, p) ==
    [r EXCEPT !.unhandled = <<[promise |-> p, handled |-> FALSE]>> \o @]

\* MarkHandled that forgets to compare the node's promise.
MarkHandledFirst(r, p) ==
    IF r.unhandled = <<>> THEN r ELSE [r EXCEPT !.unhandled[1].handled = TRUE]

\* __mark_rejection_handled: the first node of the list that is about p.
MarkHandled(r, p) ==
    LET hits == {i \in DOMAIN r.unhandled : r.unhandled[i].promise = p}
    IN  IF hits = {} THEN r ELSE [r EXCEPT !.unhandled[Min(hits)].handled = TRUE]

\* The jobs of the detached reactions, in list order.
ReactionJobs(cbs, state, v) ==
    [i \in 1..Len(cbs) |->
        [fn |-> IF state = "fulfilled" THEN cbs[i].onFulfilled ELSE cbs[i].onRejected,
         caps |-> cbs[i].caps, arg |-> v]]

\* Settle without its one-shot guard.
SettleAlways(r, p, state, v) ==
    LET cbs == r.promise[p].callbacks
        s == [r EXCEPT !.promise[p] = [state |-> state, value |-> v, callbacks |-> <<>>],
                       !.queue = @ \o ReactionJobs(cbs, state, v)]
    IN  IF state = "rejected" /\ cbs = <<>> THEN NoteUnhandled(s, p) ELSE s

\* Settle that keeps the list of reactions.
SettleKeepingCallbacks(r, p, state, v) ==
    LET cbs == r.promise[p].callbacks
        s == [r EXCEPT !.promise[p] = [state |-> state, value |-> v, callbacks |-> cbs],
                       !.queue = @ \o ReactionJobs(cbs, state, v)]
    IN  IF r.promise[p].state # "pending" THEN r
        ELSE IF state = "rejected" /\ cbs = <<>> THEN NoteUnhandled(s, p) ELSE s

\* __promise_fulfill and __promise_reject: one-shot; the reactions are
\* detached and become jobs; a rejection that nobody reacts to is noted.
Settle(r, p, state, v) ==
    LET cbs == r.promise[p].callbacks
        s == [r EXCEPT !.promise[p] = [state |-> state, value |-> v, callbacks |-> <<>>],
                       !.queue = @ \o ReactionJobs(cbs, state, v)]
    IN  IF r.promise[p].state # "pending" THEN r
        ELSE IF state = "rejected" /\ cbs = <<>> THEN NoteUnhandled(s, p) ELSE s

Fulfill(r, p, v) == Settle(r, p, "fulfilled", v)

Reject(r, p, v) == Settle(r, p, "rejected", v)

\* React to p: at once if it is settled, otherwise from the head of its list.
React(r, p, onFulfilled, onRejected, caps) ==
    CASE r.promise[p].state = "fulfilled" -> Enqueue(r, onFulfilled, caps, r.promise[p].value)
      [] r.promise[p].state = "rejected"  -> Enqueue(r, onRejected, caps, r.promise[p].value)
      [] r.promise[p].state = "pending"   ->
            [r EXCEPT !.promise[p].callbacks =
                <<[onFulfilled |-> onFulfilled, onRejected |-> onRejected, caps |-> caps]>> \o @]

\* then and finally also mark the rejection of an already rejected receiver.
ReactAndMark(r, p, onFulfilled, onRejected, caps) ==
    React(IF r.promise[p].state = "rejected" THEN MarkHandled(r, p) ELSE r,
          p, onFulfilled, onRejected, caps)

\* Adopt that passes a rejection on as a fulfilment.
AdoptSwapped(r, p, q) ==
    IF q = p THEN Reject(r, p, CycleError)
    ELSE React(r, q, "identity_fulfill", "identity_fulfill", Caps(p))

\* p is resolved with the promise q: p reacts to q, and stays pending.  This
\* reaction does not mark a rejection of q as handled.
Adopt(r, p, q) ==
    IF q = p THEN Reject(r, p, CycleError)
    ELSE React(r, q, "identity_fulfill", "identity_reject", Caps(p))

\* Assimilate that does not look for a "then".
AssimilateNothing(r, p, v) == Fulfill(r, p, v)

\* p is resolved with v, which is not a promise: its "then" is looked up, and
\* if it is callable a job will call it.
Assimilate(r, p, v) ==
    CASE v = Poisoned -> Reject(r, p, Thrown)
      [] v = Thenable -> Enqueue(r, "thenable_job", Caps(p), v)
      [] OTHER        -> Fulfill(r, p, v)

\* __promise_resolve_value.  It does not ask whether p is still pending.
ResolveValue(r, p, v) == IF v \in Ids THEN Adopt(r, p, v) ELSE Assimilate(r, p, v)

\* FinallyAfter that restores the result of the callback.
FinallyAfterResult(r, result, c, v, isReject) ==
    LET caps == [chained |-> c, value |-> NoValue, isReject |-> isReject]
        node == [onFulfilled |-> "restore_settle", onRejected |-> "restore_reject", caps |-> caps]
        s == Mint(r, [NewPromise EXCEPT !.callbacks = <<node>>])
    IN  ResolveValue(s, s.minted, result)

\* __finally_after: a fresh promise, its restoring reaction attached before
\* it is resolved with what the callback returned.
FinallyAfter(r, result, c, v, isReject) ==
    LET caps == [chained |-> c, value |-> v, isReject |-> isReject]
        node == [onFulfilled |-> "restore_settle", onRejected |-> "restore_reject", caps |-> caps]
        s == Mint(r, [NewPromise EXCEPT !.callbacks = <<node>>])
    IN  ResolveValue(s, s.minted, result)
=============================================================================

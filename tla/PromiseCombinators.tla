-------------------------- MODULE PromiseCombinators --------------------------
(***************************************************************************)
(* Promise.all, allSettled, any and race of standalone and WASI modules:   *)
(* the emitted functions of src/codegen/promise-combinators.ts on top of   *)
(* the promises of PromiseOps.  A combinator shares one record between the *)
(* reactions of its inputs; every reaction is a job of the microtask       *)
(* queue, so the jobs of several combinators, the program and the settling *)
(* of the inputs interleave.                                               *)
(*                                                                         *)
(* An array literal is compiled element by element: the expression of an   *)
(* element runs after the elements before it were subscribed, and is free  *)
(* to make calls and even to drain the queue.  Any other argument is first *)
(* read into a vector and then subscribed in one go.                       *)
(*                                                                         *)
(* The program runs in turns (its main function, the callbacks of timers)  *)
(* and the queue is drained between them and whenever the program asks for *)
(* it.  The "then" of a thenable keeps its resolving functions, or calls   *)
(* one of them at once.                                                    *)
(*                                                                         *)
(* Arrays that the runtime builds are named by the combinator they belong  *)
(* to, with negative numbers, so that they are never taken for promises.   *)
(***************************************************************************)
EXTENDS PromiseOps, SequencesExt

CONSTANTS
    Methods,        \* which combinators the program calls
    MaxCombinators, \* (bound) how many of them it calls ...
    MaxElements,    \* (bound) ... with how many elements each
    MaxSubscribed,  \* (bound) ... and how many in all
    MaxInputs,      \* (bound) promises that are there and pending at the start
    NotIterable     \* the TypeError of an argument that is not iterable

\* Ids is large enough: every call, and every element that is no promise
\* yet, allocates at most one.
ASSUME CombinatorAssumption ==
    /\ Methods \subseteq {"all", "allSettled", "any", "race"}
    /\ {MaxCombinators, MaxElements, MaxSubscribed, MaxInputs} \subseteq Nat
    /\ MaxInputs <= MaxCalls

VARIABLES
    rt,         \* the promise runtime
    resolvable, \* promises whose resolve and reject functions the program holds
    calls,      \* calls the program has made, elements that are no promises included
    draining,   \* whether the drain runs, not the program
    open,       \* literals whose elements are being evaluated, innermost first
    comb,       \* the $CombinatorState records, in the order of the calls
    arrived     \* history: per combinator, the indexes of the inputs in the
                \* order in which they became both subscribed and settled

vars == <<rt, resolvable, calls, draining, open, comb, arrived>>

\* The array of results or reasons of combinator k, and the AggregateError
\* around it.
Vec(k) == -k

AggregateError(k) == -(MaxCombinators + k)
-----------------------------------------------------------------------------
(***************************************************************************)
(* The emitted functions.                                                  *)
(***************************************************************************)

\* $CombinatorState; the method is in the functions chosen for it, inputs
\* (the promises subscribed so far) and iterable are history.
NewState(method, result, n) ==
    [method |-> method, resultPromise |-> result, resultsArr |-> [i \in 1..n |-> NoValue],
     length |-> n, remaining |-> n, inputs |-> <<>>, iterable |-> TRUE]

\* combinatorReactionFns.
OnFulfilled(method) ==
    CASE method = "all"        -> "all_fulfill"
      [] method = "allSettled" -> "allsettled_fulfill"
      [] OTHER                 -> "race_fulfill"

OnRejected(method) ==
    CASE method = "allSettled" -> "allsettled_reject"
      [] method = "any"        -> "any_reject"
      [] OTHER                 -> "reject"

\* ElemCaps with one record for the elements of all combinators.
ElemCapsShared(k, i, result) == [chained |-> result, state |-> 1, index |-> i]

\* The captures of the reaction to an element.
ElemCaps(k, i, result) == [chained |-> result, state |-> k, index |-> i]

\* A promise is used as it is, anything else resolves a fresh promise.
Normalize(r, x) ==
    IF x \in Ids THEN r ELSE ResolveValue(Mint(r, NewPromise), r.minted + 1, x)

Input(r, x) == IF x \in Ids THEN x ELSE r.minted + 1

\* __combinator_subscribe: it schedules or attaches, and never settles.
Subscribe(r, st, k, x) ==
    ReactAndMark(Normalize(r, x), Input(r, x), OnFulfilled(st.method), OnRejected(st.method),
                 ElemCaps(k, Len(st.inputs) + 1, st.resultPromise))

\* The promise and the record after subscribing the elements xs in turn.
SubscribeAll(r, st, k, xs) ==
    FoldLeft(LAMBDA acc, x : [rt |-> Subscribe(acc.rt, acc.st, k, x),
                              st |-> [acc.st EXCEPT !.inputs = Append(@, Input(acc.rt, x))]],
             [rt |-> r, st |-> st], xs)

\* What becomes of the result when there is nothing to wait for.
SettleEmpty(r, method, result, k) ==
    CASE method \in {"all", "allSettled"} -> Fulfill(r, result, Vec(k))
      [] method = "any"                   -> Reject(r, result, AggregateError(k))
      [] method = "race"                  -> r
-----------------------------------------------------------------------------
(***************************************************************************)
(* Calls of the program.                                                   *)
(***************************************************************************)
Calls(n) ==
    /\ ~draining
    /\ calls + n <= MaxCalls
    /\ calls' = calls + n
    /\ UNCHANGED draining

Call == Calls(1)

\* How many of xs are no promises, and are resolved with one.
Fresh(xs) == Len(SelectSeq(xs, LAMBDA x : x \notin Ids))

\* The value or reason that the program settles promise p with: nothing here
\* compares values, so each promise has one of its own.
Own(p) == 2 * MaxCalls + p

\* The elements a program can pass to a combinator.
Element == Value \cup Exotic \cup 1..rt.minted

\* Of the calls of resolving functions, only those that can have an effect.
Undecided == {p \in resolvable : rt.promise[p].state = "pending"}

CallResolve(p) ==
    /\ Call
    /\ rt' = ResolveValue(rt, p, Own(p))
    /\ UNCHANGED <<resolvable, open, comb>>

CallReject(p) ==
    /\ Call
    /\ rt' = Reject(rt, p, Own(p))
    /\ UNCHANGED <<resolvable, open, comb>>

\* Promise.reject: born rejected, and noted as unhandled.
PromiseReject ==
    /\ Call
    /\ LET p == rt.minted + 1
       IN  rt' = NoteUnhandled(Mint(rt, [NewPromise EXCEPT !.state = "rejected", !.value = Own(p)]), p)
    /\ UNCHANGED <<resolvable, open, comb>>

CallCombinator(method, xs) ==
    /\ Calls(1 + Fresh(xs))
    /\ Len(comb) < MaxCombinators
    /\ method \in Methods
    /\ UNCHANGED resolvable

\* A combinator of an array literal with n elements starts.
BeginLiteral(method, n) ==
    LET result == rt.minted + 1
        k == Len(comb) + 1
        r == Mint(rt, NewPromise)
    IN  /\ CallCombinator(method, <<>>)
        /\ comb' = Append(comb, NewState(method, result, n))
        /\ IF n = 0
           THEN rt' = SettleEmpty(r, method, result, k) /\ UNCHANGED open
           ELSE rt' = r /\ open' = <<k>> \o open

\* The expression of the next element has the value x, which is subscribed;
\* after the last one the literal is complete.
NextElement(x) ==
    /\ Calls(Fresh(<<x>>))
    /\ open # <<>>
    /\ LET k == Head(open)
           st == comb[k]
       IN  /\ rt' = Subscribe(rt, st, k, x)
           /\ comb' = [comb EXCEPT ![k].inputs = Append(@, Input(rt, x))]
           /\ open' = IF Len(st.inputs) + 1 = st.length THEN Tail(open) ELSE open
    /\ UNCHANGED resolvable

\* The expression of an element throws: the elements before it stay
\* subscribed, and the exception goes on to the code around the literal.
AbandonLiteral ==
    /\ ~draining
    /\ open # <<>>
    /\ open' = Tail(open)
    /\ UNCHANGED <<rt, resolvable, calls, draining, comb>>

\* A combinator of an argument that __combinator_to_vec turned into xs.
CombinatorOfVec(method, xs) ==
    LET result == rt.minted + 1
        k == Len(comb) + 1
        r == Mint(rt, NewPromise)
        after == SubscribeAll(r, NewState(method, result, Len(xs)), k, xs)
    IN  /\ CallCombinator(method, xs)
        /\ comb' = Append(comb, after.st)
        /\ rt' = IF xs = <<>> THEN SettleEmpty(r, method, result, k) ELSE after.rt
        /\ UNCHANGED open

\* The rejection comes first, and the empty vector that stands in for the
\* argument settles nothing any more.
RejectNotIterable(r, method, result, k) ==
    SettleEmpty(Reject(r, result, NotIterable), method, result, k)

CombinatorOfNonIterable(method) ==
    LET result == rt.minted + 1
    IN  /\ CallCombinator(method, <<>>)
        /\ comb' = Append(comb, [NewState(method, result, 0) EXCEPT !.iterable = FALSE])
        /\ rt' = RejectNotIterable(Mint(rt, NewPromise), method, result, Len(comb) + 1)
        /\ UNCHANGED open

\* A turn of the program ends, or it calls the intrinsic that drains.
LetDrain ==
    /\ ~draining
    /\ draining' = TRUE
    /\ UNCHANGED <<rt, resolvable, calls, open, comb>>
-----------------------------------------------------------------------------
(***************************************************************************)
(* The drain loop.                                                         *)
(***************************************************************************)
Job == Head(rt.queue)

Dequeued == [rt EXCEPT !.queue = Tail(@)]

TakeJob(fns) ==
    /\ draining
    /\ rt.queue # <<>>
    /\ Job.fn \in fns
    /\ UNCHANGED <<calls, draining, open>>

\* The queue is empty: the program goes on, or has its next turn.
DrainEnds ==
    /\ draining
    /\ rt.queue = <<>>
    /\ draining' = FALSE
    /\ UNCHANGED <<rt, resolvable, calls, open, comb>>

\* The "then" of a thenable is called; it resolves now or keeps the functions.
RunThenable ==
    /\ TakeJob({"thenable_job"})
    /\ resolvable' = resolvable \cup {Job.caps.chained}
    /\ LET p == Job.caps.chained
       IN  rt' \in {Dequeued, Fulfill(Dequeued, p, Own(p)), Reject(Dequeued, p, Own(p))}
    /\ UNCHANGED comb

CountingFns == {"all_fulfill", "allsettled_fulfill", "allsettled_reject", "any_reject"}

\* What the job leaves in the array: the value or reason itself, or, for
\* allSettled, an object with the status.
Entry ==
    CASE Job.fn = "allsettled_fulfill" -> [status |-> "fulfilled", value |-> Job.arg]
      [] Job.fn = "allsettled_reject"  -> [status |-> "rejected", value |-> Job.arg]
      [] OTHER                         -> Job.arg

\* Stored that appends at the place of the count.
StoredByCount(st) ==
    [st EXCEPT !.resultsArr[st.length - st.remaining + 1] = Entry, !.remaining = @ - 1]

Stored(st) ==
    [st EXCEPT !.resultsArr[Job.caps.index] = Entry, !.remaining = @ - 1]

\* __combinator_all_fulfill, _allsettled_fulfill, _allsettled_reject and
\* _any_reject: store, count down, and settle the result with the last one.
RunCounting ==
    /\ TakeJob(CountingFns)
    /\ LET k == Job.caps.state
           st == Stored(comb[k])
       IN  /\ comb' = [comb EXCEPT ![k] = st]
           /\ rt' = IF st.remaining # 0 THEN Dequeued
                    ELSE IF Job.fn = "any_reject"
                         THEN Reject(Dequeued, st.resultPromise, AggregateError(k))
                         ELSE Fulfill(Dequeued, st.resultPromise, Vec(k))
    /\ UNCHANGED resolvable

\* __combinator_race_fulfill and __combinator_reject: the first one settles
\* the result, the later ones find it settled.
RunDeciding ==
    /\ TakeJob({"race_fulfill", "reject"})
    /\ rt' = IF Job.fn = "race_fulfill"
             THEN Fulfill(Dequeued, Job.caps.chained, Job.arg)
             ELSE Reject(Dequeued, Job.caps.chained, Job.arg)
    /\ UNCHANGED <<resolvable, comb>>
-----------------------------------------------------------------------------
ProgramCall ==
    \/ \E p \in Undecided : CallResolve(p)
    \/ \E p \in Undecided : CallReject(p)
    \/ PromiseReject

\* How many elements the next combinator may have.
Allowed == Min({MaxElements, FoldLeft(LAMBDA n, st : n - st.length, MaxSubscribed, comb)})

CombinatorCall ==
    \E method \in Methods :
        \/ \E n \in 0..Allowed : BeginLiteral(method, n)
        \/ \E xs \in SeqOf(Element, Allowed) : CombinatorOfVec(method, xs)
        \/ CombinatorOfNonIterable(method)

EndOfElement ==
    \/ \E x \in Element : NextElement(x)
    \/ AbandonLiteral

\* History: the inputs of st that are settled and not yet in seen.
NewlyArrived(st, seen) ==
    {i \in DOMAIN st.inputs : rt'.promise[st.inputs[i]].state # "pending"} \ Range(seen)

RecordArrivals ==
    arrived' = [k \in DOMAIN comb' |->
                   LET seen == IF k \in DOMAIN arrived THEN arrived[k] ELSE <<>>
                   IN  seen \o SetToSortSeq(NewlyArrived(comb'[k], seen), <)]

\* The program makes a call; it gets on with a literal or gives way to the
\* drain; the drain takes its next step.
CallStep == (ProgramCall \/ CombinatorCall) /\ RecordArrivals

EndStep == (EndOfElement \/ LetDrain) /\ RecordArrivals

DrainStep ==
    /\ RunThenable \/ RunCounting \/ RunDeciding \/ DrainEnds
    /\ RecordArrivals

\* The program has called new Promise n times, and kept the functions.
AfterNew(n) == FoldLeft(LAMBDA r, i : Mint(r, NewPromise), NoPromises, [i \in 1..n |-> i])

Init ==
    /\ \E n \in 0..MaxInputs : rt = AfterNew(n) /\ resolvable = 1..n
    /\ calls = 0
    /\ draining = FALSE
    /\ open = <<>>
    /\ comb = <<>>
    /\ arrived = <<>>

Next == CallStep \/ EndStep \/ DrainStep

Spec == Init /\ [][Next]_vars

\* Emitted code that can run does run, and the turns of the program end.
FairSpec == Spec /\ WF_vars(LetDrain /\ RecordArrivals) /\ WF_vars(DrainStep)
-----------------------------------------------------------------------------
(***************************************************************************)
(* Properties.                                                             *)
(***************************************************************************)
Settled(p) == rt.promise[p].state # "pending"

Outcome(p) == [state |-> rt.promise[p].state, value |-> rt.promise[p].value]

\* The input settlements that decide a combinator on their own.
Decisive(method) ==
    CASE method = "all"        -> {"rejected"}
      [] method = "any"        -> {"fulfilled"}
      [] method = "race"       -> {"fulfilled", "rejected"}
      [] method = "allSettled" -> {}

\* The arrivals of combinator k, in order, that decide it.
Deciders(k) ==
    SelectSeq(arrived[k],
              LAMBDA i : Outcome(comb[k].inputs[i]).state \in Decisive(comb[k].method))

\* The one settlement that decides race, rejects all or fulfils any is the
\* first in the order in which the inputs settled, an input that was settled
\* before counting from when it was subscribed: neither the order of the
\* elements, nor that of the reaction lists, nor a literal whose later
\* elements settle earlier ones changes the winner.
FirstDecides ==
    \A k \in DOMAIN comb :
        Settled(comb[k].resultPromise) /\ Deciders(k) # <<>> =>
            Outcome(comb[k].resultPromise) = Outcome(comb[k].inputs[Head(Deciders(k))])

\* What combinator k keeps of the outcome of one input.
Kept(k, out) ==
    IF comb[k].method = "allSettled" THEN [status |-> out.state, value |-> out.value]
    ELSE out.value

\* Without a deciding settlement the result is settled only when every input
\* is, with the array that has the outcome of each input at its own index,
\* whatever the order of settling and however often one promise occurs; an
\* argument that was not iterable rejects although its stand-in is empty.
CollectsInOrder ==
    \A k \in DOMAIN comb :
        LET st == comb[k]
            out == Outcome(st.resultPromise)
        IN  Settled(st.resultPromise) /\ Deciders(k) = <<>> =>
                IF ~st.iterable THEN out = [state |-> "rejected", value |-> NotIterable]
                ELSE /\ out = IF st.method = "any"
                              THEN [state |-> "rejected", value |-> AggregateError(k)]
                              ELSE [state |-> "fulfilled", value |-> Vec(k)]
                     /\ Len(arrived[k]) = st.length
                     /\ \A i \in 1..st.length :
                           st.resultsArr[i] = Kept(k, Outcome(st.inputs[i]))

\* Combinator k can be settled: a deciding input has, or all inputs have.
Due(k) ==
    /\ k \in DOMAIN comb
    /\ \/ Deciders(k) # <<>>
       \/ comb[k].method # "race" /\ Len(arrived[k]) = comb[k].length

\* A combinator whose inputs allow it is settled in the end: no countdown
\* misses an input, also when a promise occurs twice or an input is the
\* result of another combinator.
SettlesWhenDue ==
    \A k \in 1..MaxCombinators :
        Due(k) ~> k \in DOMAIN comb /\ Settled(comb[k].resultPromise)
=============================================================================

---------------------------- MODULE PromiseRuntime ----------------------------
(***************************************************************************)
(* The native promises of standalone and WASI modules: the emitted         *)
(* functions of src/codegen/async-scheduler.ts (settle, resolve, then,     *)
(* finally, the thenable job), the executors of promise-executor.ts and    *)
(* the unhandled-rejection list of unhandled-rejection.ts, driven by an    *)
(* arbitrary program that makes at most MaxCalls calls into them, from its *)
(* main function and from the callbacks the runtime calls back.            *)
(*                                                                         *)
(* The emitted helper functions are the operators of PromiseOps.           *)
(* The call stack is explicit: "drain" is an activation of the microtask   *)
(* loop, every other frame is user code, and what the wrapper around a     *)
(* callback does when it returns or throws is the frame's last step.       *)
(***************************************************************************)
EXTENDS PromiseOps

CONSTANTS
    Uses,       \* which calls of the runtime the program makes
    LastUses    \* (bound) which of them it makes when only one call is left

VARIABLES
    rt,         \* the runtime: [promise, minted, queue, unhandled]
    stack,      \* the call stack, innermost frame first
    resolvable, \* promises whose resolve and reject functions user code holds
    calls,      \* calls the program has made
    exit,       \* "running", or how the process ended
    hist        \* history, for the properties only

vars == <<rt, stack, resolvable, calls, exit, hist>>

\* The history records are not null.
ASSUME NotNullAssumption ==
    /\ \A s \in {"fulfilled", "rejected"}, v \in Value \cup {NoValue, Thrown, CycleError} :
          [state |-> s, value |-> v] # NoValue
    /\ \A how \in {"resolve", "reject"}, v \in Value \cup {Thenable, Poisoned} \cup Ids :
          [how |-> how, value |-> v] # NoValue
-----------------------------------------------------------------------------
Frame(kind, p) == [kind |-> kind, promise |-> p, value |-> NoValue, isReject |-> FALSE]

Top == Head(stack)

Push(f) == <<f>> \o stack

\* What a program can resolve a promise with.
Resolution == Value \cup Exotic \cup 1..rt.minted

\* User code is executing.
InUserCode == exit = "running" /\ Top.kind # "drain"

\* The program makes a call into the runtime.
Call(what) ==
    /\ InUserCode
    /\ what \in IF calls + 1 < MaxCalls THEN Uses ELSE LastUses
    /\ calls < MaxCalls
    /\ calls' = calls + 1
    /\ UNCHANGED exit

\* The resolving functions of p are called: what the first call said.
FirstCall(p, how, v) ==
    IF hist.first[p] = NoValue
    THEN [hist EXCEPT !.first[p] = [how |-> how, value |-> v]]
    ELSE [hist EXCEPT !.again = @ \cup {p}]

Init ==
    /\ rt = NoPromises
    /\ stack = <<Frame("main", 0)>>
    /\ resolvable = {}
    /\ calls = 0
    /\ exit = "running"
    /\ hist = [source    |-> [p \in Ids |-> NoValue],
               delivered |-> [p \in Ids |-> NoValue],
               first     |-> [p \in Ids |-> NoValue],
               again     |-> {},
               finallyReturned |-> [p \in Ids |-> NoValue],
               consumed  |-> {}]

\* p is resolved with v: if v is another promise, p follows it from now on.
Follows(h, p, v) == IF v \in Ids /\ v # p THEN [h EXCEPT !.consumed = @ \cup {v}] ELSE h
-----------------------------------------------------------------------------
(***************************************************************************)
(* Calls of the program.                                                   *)
(***************************************************************************)

\* new Promise(executor): the executor is called at once.
NewPromiseWithExecutor ==
    /\ Call("new Promise")
    /\ rt' = Mint(rt, NewPromise)
    /\ stack' = Push(Frame("executor", rt.minted + 1))
    /\ resolvable' = resolvable \cup {rt.minted + 1}
    /\ UNCHANGED hist

\* A resolve function is called, now or long after the executor returned.
CallResolve(p, v) ==
    /\ Call("resolve")
    /\ p \in resolvable
    /\ rt' = ResolveValue(rt, p, v)
    /\ hist' = Follows(FirstCall(p, "resolve", v), p, v)
    /\ UNCHANGED <<stack, resolvable>>

\* A reject function is called.
CallReject(p, v) ==
    /\ Call("reject")
    /\ p \in resolvable
    /\ rt' = Reject(rt, p, v)
    /\ hist' = FirstCall(p, "reject", v)
    /\ UNCHANGED <<stack, resolvable>>

\* Promise.resolve(v); a promise is returned as it is, without a step here.
PromiseResolve(v) ==
    /\ Call("Promise.resolve")
    /\ v \notin Ids
    /\ rt' = ResolveValue(Mint(rt, NewPromise), rt.minted + 1, v)
    /\ hist' = FirstCall(rt.minted + 1, "resolve", v)
    /\ UNCHANGED <<stack, resolvable>>

\* Promise.reject(v): born rejected, and noted as unhandled.
PromiseReject(v) ==
    /\ Call("Promise.reject")
    /\ rt' = NoteUnhandled(Mint(rt, [NewPromise EXCEPT !.state = "rejected", !.value = v]),
                           rt.minted + 1)
    /\ UNCHANGED <<stack, resolvable, hist>>

\* p.then(f, g), with or without each handler.
Then(p, f, g) ==
    /\ Call("then")
    /\ p \in 1..rt.minted
    /\ LET c == rt.minted + 1
       IN  /\ rt' = ReactAndMark(Mint(rt, NewPromise), p,
                        IF f THEN "then_fulfill" ELSE "identity_fulfill",
                        IF g THEN "then_reject" ELSE "identity_reject", Caps(c))
           /\ hist' = [hist EXCEPT !.source[c] = p]
    /\ UNCHANGED <<stack, resolvable>>

\* p.finally(f).
Finally(p) ==
    /\ Call("finally")
    /\ p \in 1..rt.minted
    /\ LET c == rt.minted + 1
       IN  /\ rt' = ReactAndMark(Mint(rt, NewPromise), p,
                        "finally_fulfill", "finally_reject", Caps(c))
           /\ hist' = [hist EXCEPT !.source[c] = p]
    /\ UNCHANGED <<stack, resolvable>>

\* The intrinsic that drains the queue from inside user code.
CallDrain ==
    /\ Call("drain")
    /\ stack' = Push(Frame("drain", 0))
    /\ UNCHANGED <<rt, resolvable, hist>>
-----------------------------------------------------------------------------
(***************************************************************************)
(* A callback ends, and the wrapper around it settles what it stands for.  *)
(***************************************************************************)
Pop == stack' = Tail(stack)

\* A then handler returns: the chained promise is resolved with its result.
HandlerReturn(v) ==
    /\ InUserCode
    /\ Top.kind = "handler"
    /\ Pop
    /\ rt' = ResolveValue(rt, Top.promise, v)
    /\ hist' = Follows(FirstCall(Top.promise, "resolve", v), Top.promise, v)
    /\ UNCHANGED <<resolvable, calls, exit>>

\* A finally callback returns.
FinallyReturn(v) ==
    /\ InUserCode
    /\ Top.kind = "finally"
    /\ Pop
    /\ rt' = FinallyAfter(rt, v, Top.promise, Top.value, Top.isReject)
    /\ hist' = Follows([FirstCall(rt.minted + 1, "resolve", v) EXCEPT
                            !.finallyReturned[Top.promise] = v,
                            !.consumed = @ \cup {rt.minted + 1}],
                       rt.minted + 1, v)
    /\ UNCHANGED <<resolvable, calls, exit>>

\* An executor, or the "then" method of a thenable, returns: nothing follows.
PlainReturn ==
    /\ InUserCode
    /\ Top.kind \in {"executor", "thenable"}
    /\ Pop
    /\ UNCHANGED <<rt, resolvable, calls, exit, hist>>

\* A callback throws: every wrapper rejects the promise it stands for.
CallbackThrow(v) ==
    /\ InUserCode
    /\ Top.kind # "main"
    /\ Pop
    /\ rt' = Reject(rt, Top.promise, v)
    /\ hist' = FirstCall(Top.promise, "reject", v)
    /\ UNCHANGED <<resolvable, calls, exit>>

\* The entry function returns, and the tail of _start drains the queue.
MainReturn ==
    /\ InUserCode
    /\ Top.kind = "main"
    /\ stack' = <<Frame("drain", 0)>>
    /\ UNCHANGED <<rt, resolvable, calls, exit, hist>>

\* The entry function throws: the handler around _start's body prints the
\* exception and ends the process, without a drain and without a report.
MainThrow ==
    /\ InUserCode
    /\ Top.kind = "main"
    /\ exit' = "uncaught"
    /\ UNCHANGED <<rt, stack, resolvable, calls, hist>>
-----------------------------------------------------------------------------
(***************************************************************************)
(* The drain loop.                                                         *)
(***************************************************************************)
Job == Head(rt.queue)

\* Dequeued that leaves the job in the queue.
Peeked == rt

\* The queue without the job that is about to run.
Dequeued == [rt EXCEPT !.queue = Tail(@)]

FulfillFns == {"then_fulfill", "identity_fulfill", "finally_fulfill"}

\* The loop takes a job whose function is in fns.
TakeJob(fns) ==
    /\ exit = "running"
    /\ Top.kind = "drain"
    /\ rt.queue # <<>>
    /\ Job.fn \in fns
    /\ UNCHANGED <<calls, exit>>

\* If the job is the reaction of a then or finally, what it was given.
Delivers(h) ==
    LET c == Job.caps.chained
    IN  IF h.source[c] # NoValue /\ h.delivered[c] = NoValue
        THEN [h EXCEPT !.delivered[c] =
                 [state |-> IF Job.fn \in FulfillFns THEN "fulfilled" ELSE "rejected",
                  value |-> Job.arg]]
        ELSE h

\* __then_identity_fulfill and __then_identity_reject: an absent handler, or
\* an adopted promise that has settled.
RunIdentity ==
    /\ TakeJob({"identity_fulfill", "identity_reject"})
    /\ rt' = IF Job.fn = "identity_fulfill"
             THEN ResolveValue(Dequeued, Job.caps.chained, Job.arg)
             ELSE Reject(Dequeued, Job.caps.chained, Job.arg)
    /\ hist' = Delivers(hist)
    /\ UNCHANGED <<stack, resolvable>>

\* __finally_restore_settle and __finally_restore_reject.
RunRestore ==
    /\ TakeJob({"restore_settle", "restore_reject"})
    /\ rt' = IF Job.fn = "restore_reject" THEN Reject(Dequeued, Job.caps.chained, Job.arg)
             ELSE IF Job.caps.isReject
                  THEN Reject(Dequeued, Job.caps.chained, Job.caps.value)
                  ELSE ResolveValue(Dequeued, Job.caps.chained, Job.caps.value)
    /\ UNCHANGED <<stack, resolvable, hist>>

\* The wrapper of a then handler calls it.
CallHandler ==
    /\ TakeJob({"then_fulfill", "then_reject"})
    /\ rt' = Dequeued
    /\ stack' = Push(Frame("handler", Job.caps.chained))
    /\ hist' = Delivers(hist)
    /\ UNCHANGED resolvable

\* The wrapper of a finally callback calls it, remembering the settlement.
CallFinally ==
    /\ TakeJob({"finally_fulfill", "finally_reject"})
    /\ rt' = Dequeued
    /\ stack' = Push([kind |-> "finally", promise |-> Job.caps.chained,
                      value |-> Job.arg, isReject |-> Job.fn = "finally_reject"])
    /\ hist' = Delivers(hist)
    /\ UNCHANGED resolvable

\* __promise_thenable_job: "then" is called with fresh resolving functions.
CallThenable ==
    /\ TakeJob({"thenable_job"})
    /\ rt' = Dequeued
    /\ stack' = Push(Frame("thenable", Job.caps.chained))
    /\ resolvable' = resolvable \cup {Job.caps.chained}
    /\ UNCHANGED hist

\* A drain that was called by user code finds the queue empty and returns.
DrainReturn ==
    /\ exit = "running"
    /\ Top.kind = "drain"
    /\ rt.queue = <<>>
    /\ Len(stack) > 1
    /\ Pop
    /\ UNCHANGED <<rt, resolvable, calls, exit, hist>>

\* The tail of _start: __report_unhandled_rejections, then the process ends.
Report ==
    /\ exit = "running"
    /\ Top.kind = "drain"
    /\ rt.queue = <<>>
    /\ Len(stack) = 1
    /\ exit' = IF \E i \in DOMAIN rt.unhandled : ~rt.unhandled[i].handled
               THEN "unhandled rejection" ELSE "ok"
    /\ UNCHANGED <<rt, stack, resolvable, calls, hist>>
-----------------------------------------------------------------------------
ProgramCall ==
    \/ NewPromiseWithExecutor
    \/ \E p \in Ids : \E v \in Resolution : CallResolve(p, v)
    \/ \E p \in Ids : \E v \in Value : CallReject(p, v)
    \/ \E v \in Resolution : PromiseResolve(v)
    \/ \E v \in Value : PromiseReject(v)
    \/ \E p \in Ids : \E f, g \in BOOLEAN : Then(p, f, g)
    \/ \E p \in Ids : Finally(p)
    \/ CallDrain

CallbackEnds ==
    \/ \E v \in Resolution : HandlerReturn(v)
    \/ \E v \in Resolution : FinallyReturn(v)
    \/ PlainReturn
    \/ \E v \in Value : CallbackThrow(v)
    \/ MainReturn
    \/ MainThrow

DrainTurn ==
    \/ RunIdentity
    \/ RunRestore
    \/ CallHandler
    \/ CallFinally
    \/ CallThenable
    \/ DrainReturn
    \/ Report

Next == ProgramCall \/ CallbackEnds \/ DrainTurn

Spec == Init /\ [][Next]_vars

\* Emitted code that can run does run, and the program's callbacks end.
FairSpec == Spec /\ WF_vars(CallbackEnds) /\ WF_vars(DrainTurn)
-----------------------------------------------------------------------------
(***************************************************************************)
(* Properties.                                                             *)
(***************************************************************************)
Settled(p) == rt.promise[p].state # "pending"

\* NoValue, or the state and value that p is settled with.
Outcome(p) == IF Settled(p) THEN [state |-> rt.promise[p].state, value |-> rt.promise[p].value]
                            ELSE NoValue

\* The chained promises of the thens, catches and finallys attached to p.
Chained(p) == {c \in Ids : hist.source[c] = p}

\* Promises are allocated in order, reactions and jobs refer to allocated
\* promises, and nothing is ever fulfilled with a promise or a thenable.
TypeOK ==
    /\ rt.minted \in 0..(2 * MaxCalls)
    /\ \A p \in Ids :
          /\ rt.promise[p].state \in {"pending", "fulfilled", "rejected"}
          /\ rt.promise[p].value \in Value \cup {NoValue, Thrown, CycleError}
          /\ p > rt.minted => rt.promise[p] = NewPromise
          /\ \A i \in DOMAIN rt.promise[p].callbacks :
                rt.promise[p].callbacks[i].caps.chained \in 1..rt.minted
    /\ \A i \in DOMAIN rt.queue : rt.queue[i].caps.chained \in 1..rt.minted
    /\ resolvable \subseteq 1..rt.minted
    /\ exit \in {"running", "ok", "unhandled rejection", "uncaught"}

Contract == INSTANCE PromiseContract WITH
    None <- NoValue,
    outcome <- [p \in Ids |-> Outcome(p)],
    source <- hist.source,
    delivered <- hist.delivered

\* A promise is settled at most once, and every reaction attached to it is
\* handed exactly that outcome, at most once and not before: whatever the
\* order of resolve, reject, throw, then, finally and nested drains.
ImplementsContract == Contract!ContractSpec

\* Where the reaction that settles c still is: on the list of its source,
\* or among the jobs.
Places(c) ==
    {<<"list", p, i>> : p \in {hist.source[c]}, i \in
        {j \in DOMAIN rt.promise[hist.source[c]].callbacks :
            rt.promise[hist.source[c]].callbacks[j].caps.chained = c}}
    \cup
    {<<"job", 0, i>> : i \in {j \in DOMAIN rt.queue : rt.queue[j].caps.chained = c}}

\* A reaction that has not run is in exactly one place, and that place is
\* the queue once its source is settled: neither the detaching of the list
\* by a settle, nor a then on a promise that settles meanwhile, drops or
\* doubles it.
NoReactionLost ==
    \A c \in Ids :
        hist.source[c] # NoValue /\ hist.delivered[c] = NoValue =>
            /\ Cardinality(Places(c)) = 1
            /\ Settled(hist.source[c]) => \A x \in Places(c) : x[1] = "job"

\* A promise that was resolved with another promise, by its only resolving
\* call, is settled only after that promise, and the same way.
AdoptionFollowsInner ==
    \A p \in Ids \ hist.again :
        /\ hist.first[p] # NoValue
        /\ hist.first[p].how = "resolve"
        /\ hist.first[p].value \in Ids \ {p}
        /\ Settled(p)
        => Outcome(p) = Outcome(hist.first[p].value)

\* The promise that finally returns settles the way its receiver did,
\* whatever the callback returned, unless that was a promise (or thenable)
\* that rejects; then with that rejection, and not before it is settled.
FinallyPassesThrough ==
    \A c \in Ids :
        LET result == hist.finallyReturned[c]
        IN  result # NoValue /\ Settled(c) =>
                CASE result \in Value -> Outcome(c) = Outcome(hist.source[c])
                  [] result = Poisoned -> Outcome(c) = [state |-> "rejected", value |-> Thrown]
                  [] result \in Ids   -> /\ Settled(result)
                                         /\ Outcome(c) = IF rt.promise[result].state = "fulfilled"
                                                         THEN Outcome(hist.source[c])
                                                         ELSE Outcome(result)
                  [] result = Thenable -> \/ Outcome(c) = Outcome(hist.source[c])
                                          \/ rt.promise[c].state = "rejected"

\* The entries for p in the unhandled-rejection list that are still open.
OpenNotes(p) ==
    {i \in DOMAIN rt.unhandled : rt.unhandled[i].promise = p /\ ~rt.unhandled[i].handled}

\* The list of unhandled rejections is exact for every promise that no other
\* promise follows: a rejection has one open entry as long as no then, catch
\* or finally was attached, before or after it, and none afterwards.
UnhandledListExact ==
    \A p \in (1..rt.minted) \ hist.consumed :
        Cardinality(OpenNotes(p)) =
            IF rt.promise[p].state = "rejected" /\ Chained(p) = {} THEN 1 ELSE 0

\* The process exits with a report only if some rejection has neither a
\* reaction attached nor another promise that follows it.
NoFalseReport ==
    exit = "unhandled rejection" =>
        \E p \in (1..rt.minted) \ hist.consumed :
            rt.promise[p].state = "rejected" /\ Chained(p) = {}

\* The first call of a promise's resolving functions decides: once it was
\* resolved with another promise it can only settle the way that one does.
FirstSettleWins ==
    \A p \in Ids :
        /\ hist.first[p] # NoValue
        /\ hist.first[p].how = "resolve"
        /\ hist.first[p].value \in Ids \ {p}
        /\ Settled(p)
        => Outcome(p) = Outcome(hist.first[p].value)

\* The tail of _start comes to an end: a chain of adoptions, finallys and
\* thenable jobs does not feed the queue for ever on its own.
Terminates == <>(exit # "running")
=============================================================================

----------------------------- MODULE AsyncFrames -----------------------------
(***************************************************************************)
(* Async functions and generators of standalone and WASI modules: the      *)
(* resume machines that src/codegen/async-frame.ts emits, on top of the    *)
(* promises of PromiseOps.  A call allocates a frame and runs its resume   *)
(* function, which goes on to the first await of a pending promise; the    *)
(* frame is then one reaction of that promise, and a step job of the       *)
(* microtask queue resumes it.                                             *)
(*                                                                         *)
(* The body of a frame is arbitrary code: between two operations of the    *)
(* machine it makes any calls, so frames start frames, and one settles     *)
(* what another awaits.  Such nested runs are a stack of activations above *)
(* the main program.  STATE keeps its value while the code of a state      *)
(* runs; it stands here for what that state does when it is entered: run   *)
(* code, deliver the outcome of an await, or answer that the generator is  *)
(* completed.                                                              *)
(*                                                                         *)
(* A try block around an await or a throw is the handler region it names:  *)
(* one with a catch clause, or one with only a finally clause.  A finally  *)
(* clause that is reached normally is ordinary code of the body.           *)
(*                                                                         *)
(* Left out: the values of spilled variables, for-await loops and the host *)
(* backend, whose promises are the host's.                                 *)
(***************************************************************************)
EXTENDS PromiseOps

CONSTANTS
    MaxFrames, \* (bound) calls of async functions and of async generators
    MaxInputs, \* (bound) promises that are there and pending at the start
    Overlap    \* whether the program calls a method of a generator that is
               \* running or awaiting; a for-await loop never does

\* Ids is large enough: a call allocates at most one promise.  The values that
\* the program settles promises with are numbers, and no number is an object.
ASSUME FrameAssumption ==
    /\ MaxFrames \in Nat /\ MaxInputs \in Nat
    /\ MaxInputs <= MaxCalls
    /\ Overlap \in BOOLEAN
    /\ {Thenable, Poisoned} \cap Nat = {}

VARIABLES
    rt,         \* the promise runtime
    resolvable, \* promises whose resolve and reject functions the program holds
    calls,      \* calls the program has made
    frame,      \* the $AsyncFrame records, in the order of the calls
    stack       \* the activations, innermost first; empty when the process ended

vars == <<rt, resolvable, calls, frame, stack>>

Frames == DOMAIN frame

NoFrame == 0

\* The values of STATE.
Code == [does |-> "code", region |-> "none", next |-> "bind"]

TailCode == [Code EXCEPT !.does = "tail"]

Completed == [Code EXCEPT !.does = "completed"]

Deliver(region, next) == [does |-> "deliver", region |-> region, next |-> next]

\* A fresh frame.  awaits and got are history: the operand of the latest
\* await, and what the body received for it; so are asked and over: whether
\* the result promise is one the program has, and whether the body has ended,
\* and how.
NewFrame(kind, always, result) ==
    [kind |-> kind, always |-> always, state |-> Code, sent |-> NoValue,
     mode |-> "next", error |-> NoValue, result |-> result,
     awaits |-> NoValue, got |-> NoValue, asked |-> result # NoValue, over |-> "no"]

\* The { value, done } objects, which no promise is.  Their value is not kept:
\* got has what the body received, and yields and returns pass it on.
IterResult(done) == IF done THEN -1 ELSE -2

Activation(kind, f, result) ==
    [kind |-> kind, at |-> "run", frame |-> f, result |-> result, reason |-> NoValue]

Main == Activation("main", NoFrame, NoValue)

Drain == Activation("drain", NoFrame, NoValue)
-----------------------------------------------------------------------------
(***************************************************************************)
(* The resume function, on states [rt, frame, stack].                      *)
(***************************************************************************)
Machine == [rt |-> rt, frame |-> frame, stack |-> stack]

Becomes(s) == rt' = s.rt /\ frame' = s.frame /\ stack' = s.stack

Top(s) == Head(s.stack)

Running(s) == Top(s).frame

Leave(s) == [s EXCEPT !.stack = Tail(@)]

\* The result promise is in a local since the resume function was entered.
FulfillResult(s, v) == [s EXCEPT !.rt = Fulfill(@, Top(s).result, v)]

SetState(s, state) == [s EXCEPT !.frame[Running(s)].state = state]

Over(s, how) == [s EXCEPT !.frame[Running(s)].over = how]

\* RejectTail that leaves a generator where it threw.
RejectTailResumable(s, v) ==
    Leave(Over([s EXCEPT !.rt = Reject(@, Top(s).result, v)], "threw"))

\* The end of the handler around the machine: the result is rejected, and a
\* generator is completed.
RejectTail(s, v) ==
    LET t == Over([s EXCEPT !.rt = Reject(@, Top(s).result, v)], "threw")
    IN  Leave(IF s.frame[Running(s)].kind = "generator" THEN SetState(t, Completed) ELSE t)

\* Abrupt whose catch clause leaves the throw pending.
AbruptKeepingMode(s, region, v) ==
    CASE region = "none"    -> RejectTail(s, v)
      [] region = "finally" -> [s EXCEPT !.stack[1].at = "finally", !.stack[1].reason = v]
      [] region = "catch"   -> [SetState(s, Code) EXCEPT !.stack[1].at = "run"]

\* An exception reaches the handler around the machine: the catch clause of
\* the active region is a state, its finally clause runs before the
\* rejection.
Abrupt(s, region, v) ==
    CASE region = "none"    -> RejectTail(s, v)
      [] region = "finally" -> [s EXCEPT !.stack[1].at = "finally", !.stack[1].reason = v]
      [] region = "catch"   -> [SetState(s, Code) EXCEPT !.stack[1].at = "run",
                                                         !.frame[Running(s)].mode = "next"]

\* settleYield: nothing is awaited, the next call of next() goes on.
SettleYield(s) == Leave(SetState(FulfillResult(s, IterResult(FALSE)), Code))

\* settleSent and return: a promise v is not adopted.
SettleReturn(s, v) == Leave(Over(FulfillResult(s, v), "returned"))

\* The prelude of the state after an await: a rejection is thrown in the
\* region of the await, a value is bound, returned or yielded.
DeliverSent(s) ==
    LET f == Running(s)
        fr == s.frame[f]
        thrown == fr.mode = "throw"
        t == [s EXCEPT !.frame[f].got = IF thrown THEN [state |-> "rejected", value |-> fr.error]
                                        ELSE [state |-> "fulfilled", value |-> fr.sent]]
    IN  CASE thrown                              -> Abrupt(t, fr.state.region, fr.error)
          [] ~thrown /\ fr.state.next = "bind"   -> t
          [] ~thrown /\ fr.state.next = "return" -> SettleReturn(t, fr.sent)
          [] ~thrown /\ fr.state.next = "yield"  -> SettleYield(t)

\* The dispatch on STATE.
Dispatch(s) ==
    LET does == s.frame[Running(s)].state.does
    IN  CASE does \in {"code", "tail"} -> s
          [] does = "completed"        -> Leave(FulfillResult(s, IterResult(TRUE)))
          [] does = "deliver"          -> DeliverSent(s)

Resume(s, f) ==
    Dispatch([s EXCEPT !.stack = <<Activation("body", f, s.frame[f].result)>> \o @])

Step(f) == [frame |-> f]

\* Suspend that gives the frame up without reacting to p.
SuspendDeaf(s, p) == Leave(s)

\* The frame becomes the first reaction of p.
Suspend(s, p) ==
    Leave([s EXCEPT !.rt.promise[p].callbacks =
              <<[onFulfilled |-> "step_fulfill", onRejected |-> "step_reject",
                 caps |-> Step(Running(s))]>> \o @])

\* The outcome of the await is there.
Advance(s, state, v) ==
    LET f == Running(s)
    IN  IF s.frame[f].always
        THEN Leave([s EXCEPT !.rt = Enqueue(@, IF state = "fulfilled" THEN "step_fulfill"
                                               ELSE "step_reject", Step(f), v)])
        ELSE Dispatch(IF state = "fulfilled" THEN [s EXCEPT !.frame[f].sent = v]
                      ELSE [s EXCEPT !.frame[f].error = v, !.frame[f].mode = "throw"])

\* AwaitValue that also suspends when it has queued the step.
AwaitValueTwice(s, x) ==
    CASE x \notin Ids -> Advance(s, "fulfilled", x)
      [] x \in Ids /\ s.rt.promise[x].state = "pending" -> Suspend(s, x)
      [] x \in Ids /\ s.rt.promise[x].state # "pending" ->
            LET t == IF s.frame[Running(s)].always
                     THEN [s EXCEPT !.rt = Suspend(s, x).rt] ELSE s
            IN  Advance([t EXCEPT !.rt = MarkHandled(@, x)],
                        s.rt.promise[x].state, s.rt.promise[x].value)

\* The classification of the operand of an await; an object with a "then" is
\* a value like any other.
AwaitValue(s, x) ==
    CASE x \notin Ids -> Advance(s, "fulfilled", x)
      [] x \in Ids /\ s.rt.promise[x].state = "pending" -> Suspend(s, x)
      [] x \in Ids /\ s.rt.promise[x].state # "pending" ->
            Advance([s EXCEPT !.rt = IF @.promise[x].state = "rejected"
                                     THEN MarkHandled(@, x) ELSE @],
                    s.rt.promise[x].state, s.rt.promise[x].value)
-----------------------------------------------------------------------------
(***************************************************************************)
(* The program: the main function and the bodies of frames.                *)
(***************************************************************************)
Alive == stack # <<>>

InCode == Alive /\ Head(stack).kind # "drain" /\ Head(stack).at \in {"run", "finally"}

InBody(kind) ==
    /\ Alive
    /\ Head(stack).kind = "body"
    /\ Head(stack).at = "run"
    /\ frame[Head(stack).frame].kind = kind

Count == calls < MaxCalls /\ calls' = calls + 1

Call == InCode /\ Count

\* The value or reason that the program settles promise p with.
Own(p) == 2 * MaxCalls + p

Operand == Value \cup Exotic \cup 1..rt.minted

Undecided == {p \in resolvable : rt.promise[p].state = "pending"}

CallResolve(p) ==
    /\ Call
    /\ rt' = ResolveValue(rt, p, Own(p))
    /\ UNCHANGED <<resolvable, frame, stack>>

CallReject(p) ==
    /\ Call
    /\ rt' = Reject(rt, p, Own(p))
    /\ UNCHANGED <<resolvable, frame, stack>>

\* Promise.reject: born rejected, and noted as unhandled.
PromiseReject ==
    /\ Call
    /\ LET p == rt.minted + 1
       IN  rt' = NoteUnhandled(Mint(rt, [NewPromise EXCEPT !.state = "rejected", !.value = Own(p)]), p)
    /\ UNCHANGED <<resolvable, frame, stack>>

\* An async function is called: it runs at once.
CallAsync(always) ==
    /\ Call
    /\ Len(frame) < MaxFrames
    /\ Becomes(Resume([Machine EXCEPT !.rt = Mint(@, NewPromise),
                                      !.frame = Append(@, NewFrame("function", always, rt.minted + 1))],
                      Len(frame) + 1))
    /\ UNCHANGED resolvable

\* An async generator is called: its body waits for next().  The promise in
\* its frame until then is one that nobody can reach.
CallGenerator ==
    /\ Call
    /\ Len(frame) < MaxFrames
    /\ frame' = Append(frame, NewFrame("generator", FALSE, NoValue))
    /\ UNCHANGED <<rt, resolvable, stack>>

OnStack(f) == \E i \in DOMAIN stack : stack[i].frame = f

Awaiting(f) == frame[f].state.does = "deliver" /\ frame[f].over = "no" /\ ~OnStack(f)

\* A method of generator f is called; it mints the promise that it returns.
CallMethod(f) ==
    /\ Call
    /\ frame[f].kind = "generator"
    /\ Overlap \/ (~OnStack(f) /\ ~Awaiting(f))
    /\ UNCHANGED resolvable

WithResult(f) ==
    [Machine EXCEPT !.rt = Mint(@, NewPromise), !.frame[f].result = rt.minted + 1,
                    !.frame[f].asked = TRUE]

CallNext(f) ==
    /\ CallMethod(f)
    /\ Becomes(Resume(WithResult(f), f))

\* return and throw settle their promise and complete the frame; they do not
\* run the body.
Complete(s, f) ==
    [s EXCEPT !.frame[f].state = Completed, !.frame[f].over = "returned"]

CallReturn(f) ==
    /\ CallMethod(f)
    /\ Becomes(Complete([WithResult(f) EXCEPT !.rt = Fulfill(@, rt.minted + 1, IterResult(TRUE))], f))

CallThrow(f, v) ==
    /\ CallMethod(f)
    /\ Becomes(Complete([WithResult(f) EXCEPT !.rt = Reject(@, rt.minted + 1, v)], f))
-----------------------------------------------------------------------------
(***************************************************************************)
(* What the body of a frame does next.                                     *)
(***************************************************************************)

\* An await; in a generator only that of a yielded operand is supported.
Await(x, region, next) ==
    LET f == Head(stack).frame
        s == [Machine EXCEPT !.frame[f].state = Deliver(region, next),
                             !.frame[f].awaits = x, !.frame[f].got = NoValue]
    IN  /\ \/ InBody("function") /\ next \in {"bind", "return"}
           \/ InBody("generator") /\ next = "yield" /\ region = "none"
        /\ frame[f].state.does # "tail"
        /\ Count
        /\ Becomes(AwaitValue(s, x))
        /\ UNCHANGED resolvable

\* return, also by falling off the end.
Return(x) ==
    /\ InBody("function")
    /\ Becomes(SettleReturn(Machine, x))
    /\ UNCHANGED <<resolvable, calls>>

\* return in a generator: the state that it goes on to has no code.
GenReturn ==
    /\ InBody("generator")
    /\ frame[Head(stack).frame].state.does # "tail"
    /\ Becomes(SettleReturn(SetState(Machine, Completed), IterResult(TRUE)))
    /\ UNCHANGED <<resolvable, calls>>

Yield ==
    /\ InBody("generator")
    /\ frame[Head(stack).frame].state.does # "tail"
    /\ Becomes(SettleYield(Machine))
    /\ UNCHANGED <<resolvable, calls>>

\* A generator reaches its end.  STATE stays: the code after the last yield
\* runs again, and to its end again, when next() is called again.
GenEnd ==
    /\ InBody("generator")
    /\ Becomes(Leave(SetState(FulfillResult(Machine, IterResult(TRUE)), TailCode)))
    /\ UNCHANGED <<resolvable, calls>>

\* The body throws, or an exception comes out of a call that it makes.  The
\* bound is on the throws that it catches.
Throw(v, region) ==
    /\ Alive
    /\ Head(stack).kind = "body"
    /\ Head(stack).at \in {"run", "raised"}
    /\ Head(stack).at = "raised" => v = Head(stack).reason
    /\ frame[Head(stack).frame].kind = "generator" => region = "none"
    /\ IF region = "catch" THEN Count ELSE UNCHANGED calls
    /\ Becomes(Abrupt(Machine, region, v))
    /\ UNCHANGED resolvable

\* The finally clause ends, and the exception is a rejection.
FinallyEnds ==
    /\ Alive
    /\ Head(stack).at = "finally"
    /\ Becomes(RejectTail(Machine, Head(stack).reason))
    /\ UNCHANGED <<resolvable, calls>>

\* return in the finally clause: it overrides the exception.
FinallyReturns(x) ==
    /\ Alive
    /\ Head(stack).at = "finally"
    /\ Becomes(SettleReturn(Machine, x))
    /\ UNCHANGED <<resolvable, calls>>

\* An exception comes out of a call.  A finally clause that made the call
\* catches it and goes on, or throws in turn.
Raised(s, v) ==
    IF Top(s).at = "finally" THEN s
    ELSE [s EXCEPT !.stack[1].at = "raised", !.stack[1].reason = v]

\* The finally clause throws.  It runs in the handler around the machine, so
\* that the exception leaves the resume function and the result stays
\* pending.
FinallyThrows(v) ==
    /\ Alive
    /\ Head(stack).at = "finally"
    /\ Becomes(Raised(Leave(Over(Machine, "escaped")), v))
    /\ UNCHANGED <<resolvable, calls>>
-----------------------------------------------------------------------------
(***************************************************************************)
(* The main program and the drain loop.                                    *)
(***************************************************************************)

\* A turn of the program ends, or it calls the intrinsic that drains.
LetDrain ==
    /\ Alive
    /\ Head(stack).kind = "main"
    /\ Head(stack).at = "run"
    /\ stack' = <<Drain>> \o stack
    /\ UNCHANGED <<rt, resolvable, calls, frame>>

\* The main program has an exception: it catches it or the process ends.
MainRaised ==
    /\ Alive
    /\ Head(stack).kind = "main"
    /\ Head(stack).at = "raised"
    /\ stack' \in {<<Main>>, <<>>}
    /\ UNCHANGED <<rt, resolvable, calls, frame>>

Draining(at) == Alive /\ Head(stack).kind = "drain" /\ Head(stack).at = at

\* The drain loop has no handler.
DrainRaised ==
    /\ Draining("raised")
    /\ Becomes(Raised(Leave(Machine), Head(stack).reason))
    /\ UNCHANGED <<resolvable, calls>>

DrainEnds ==
    /\ Draining("run")
    /\ rt.queue = <<>>
    /\ stack' = Tail(stack)
    /\ UNCHANGED <<rt, resolvable, calls, frame>>

\* The step adapters: the outcome goes to the frame, which is resumed.
RunStep ==
    /\ Draining("run")
    /\ rt.queue # <<>>
    /\ LET job == Head(rt.queue)
           f == job.caps.frame
           s == [Machine EXCEPT !.rt.queue = Tail(@), !.frame[f].sent = job.arg]
       IN  Becomes(Resume(IF job.fn = "step_fulfill" THEN s
                          ELSE [s EXCEPT !.frame[f].error = job.arg, !.frame[f].mode = "throw"], f))
    /\ UNCHANGED <<resolvable, calls>>
-----------------------------------------------------------------------------
ProgramCall ==
    \/ \E p \in Undecided : CallResolve(p) \/ CallReject(p)
    \/ PromiseReject
    \/ \E always \in BOOLEAN : CallAsync(always)
    \/ CallGenerator
    \/ \E f \in Frames : CallNext(f) \/ CallReturn(f)
    \/ \E f \in Frames, v \in Value : CallThrow(f, v)

Regions == {"none", "catch", "finally"}

AwaitStep ==
    \E x \in Operand, region \in Regions, next \in {"bind", "return", "yield"} :
        Await(x, region, next)

\* Steps by which a run of code comes to its end.
EndStep ==
    \/ \E x \in Operand : Return(x) \/ FinallyReturns(x)
    \/ GenReturn \/ Yield \/ GenEnd
    \/ FinallyEnds
    \/ \E v \in Value : FinallyThrows(v)
    \/ LetDrain \/ MainRaised \/ DrainRaised \/ DrainEnds \/ RunStep

ThrowStep == \E v \in Value, region \in Regions : Throw(v, region)

Init ==
    /\ \E n \in 0..MaxInputs :
          /\ rt = [NoPromises EXCEPT !.minted = n]
          /\ resolvable = 1..n
    /\ calls = 0
    /\ frame = <<>>
    /\ stack = <<Main>>

Next == ProgramCall \/ AwaitStep \/ ThrowStep \/ EndStep

Spec == Init /\ [][Next]_vars

\* Emitted code that can run does run, and code of the program comes to its
\* end.
FairSpec == Spec /\ WF_vars(ThrowStep \/ EndStep)
-----------------------------------------------------------------------------
(***************************************************************************)
(* Properties.                                                             *)
(***************************************************************************)
Settled(p) == rt.promise[p].state # "pending"

Outcome(p) == [state |-> rt.promise[p].state, value |-> rt.promise[p].value]

\* What the body receives for an await is what it awaited: the outcome of
\* that promise, a rejection as an exception, or the value itself; no outcome
\* of an earlier await, and no exception that a catch clause has consumed,
\* is delivered again.
AwaitDelivers ==
    \A f \in Frames :
        frame[f].got # NoValue =>
            frame[f].got = IF frame[f].awaits \in Ids THEN Outcome(frame[f].awaits)
                           ELSE [state |-> "fulfilled", value |-> frame[f].awaits]

\* The reactions and jobs that will resume f.
Reactions(f) ==
    {at \in Ids \X (1..MaxCalls) :
        /\ at[2] \in DOMAIN rt.promise[at[1]].callbacks
        /\ rt.promise[at[1]].callbacks[at[2]].caps = Step(f)}

StepJobs(f) == {i \in DOMAIN rt.queue : rt.queue[i].caps = Step(f)}

Resumptions(f) == Cardinality(Reactions(f)) + Cardinality(StepJobs(f))

\* A call is answered or in progress: as long as the result promise of an
\* async function or of a generator's next() is pending, its frame is on the
\* stack or exactly one reaction or job will resume it, and a frame that is
\* on the stack or has answered has none.  A finally clause that throws
\* while an exception passes strands its result.
NeverStranded ==
    Alive => \A f \in Frames :
        frame[f].asked /\ frame[f].over # "escaped" =>
            Resumptions(f) = IF Settled(frame[f].result) \/ OnStack(f) THEN 0 ELSE 1

\* A generator that has thrown, returned or been completed from outside runs
\* no code of its body again.
CompletedRunsNothing ==
    \A f \in Frames :
        frame[f].kind = "generator" /\ frame[f].over # "no" => ~OnStack(f)

\* Async code comes to its end: again and again, every call of an async
\* function and of next() has been answered or awaits a promise that is
\* pending, unless an exception ended the process or escaped from a finally
\* clause.
CallsEnd ==
    \A f \in 1..MaxFrames :
        []<>(\/ ~Alive
             \/ f \notin Frames
             \/ ~frame[f].asked
             \/ frame[f].over = "escaped"
             \/ Settled(frame[f].result)
             \/ frame[f].awaits \in Ids /\ ~Settled(frame[f].awaits))
=============================================================================

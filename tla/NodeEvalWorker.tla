--------------------------- MODULE NodeEvalWorker ---------------------------
(***************************************************************************)
(* The synchronous eval transport of src/runtime-node-eval-worker.ts: a    *)
(* host thread that runs the compiled module and blocks in request() until *)
(* a Worker thread has evaluated dynamic code, and code in the Worker that *)
(* blocks in hostRequest() until the host has read or written one of the   *)
(* module's bindings.                                                      *)
(*                                                                         *)
(* The host's stack of request() activations is "frames", innermost first: *)
(* while it serves a binding the module's code runs, and may use a remote  *)
(* proxy and so call request() again.  Each direction of the MessagePort   *)
(* is a FIFO.  Values, handles and errors are left out: what matters is    *)
(* which message is taken for the answer to which.  The host sleeps on     *)
(* "signal" for at most 50 ms at a time, so it may look at its port again  *)
(* at any moment, and that signal is not modelled; the Worker sleeps on    *)
(* "hostSignal" without a limit.                                           *)
(***************************************************************************)
EXTENDS Integers, Sequences, FiniteSets

CONSTANTS
    MaxRequests,        \* bound: calls of request()
    MaxHostRequests,    \* bound: calls of hostRequest()
    MaxCallbacks,       \* bound: callbacks left to the Worker's event loop
    MaySpin             \* dynamic code may run for ever

ASSUME BoundsAssumption == {MaxRequests, MaxHostRequests, MaxCallbacks} \subseteq Nat
ASSUME MaySpinAssumption == MaySpin \in BOOLEAN

VARIABLES
    phase,      \* connectNodeEvalWorker: "connecting", "open" or "failed"
    closed,     \* closedError: "no", or why the evaluator is closed
    frames,     \* activations of request(), innermost first
    toWorker,   \* messages on their way from port1 to port2
    toHost,     \* messages on their way from port2 to port1
    nextId,     \* the next request's id
    worker,     \* the Worker: [pc, cur, waitingFor, observed, callbacks]
    hostSignal, \* the counter the Worker sleeps on
    nextHostId, \* the next host request's id
    hist        \* history, for the properties only

vars == <<phase, closed, frames, toWorker, toHost, nextId, worker, hostSignal, nextHostId, hist>>

-----------------------------------------------------------------------------
(***************************************************************************)
(* Messages and frames.                                                    *)
(***************************************************************************)
ReadyMessage == [kind |-> "ready", id |-> 0, of |-> 0]
RequestMessage(id) == [kind |-> "request", id |-> id, of |-> 0]
ResponseMessage(id, of) == [kind |-> "response", id |-> id, of |-> of]
HostMessage(id) == [kind |-> "host", id |-> id, of |-> 0]
HostResponse(id) == [kind |-> "host-response", id |-> id, of |-> 0]

\* No response has been received yet.
NoAnswer == -1

\* "answer" is the request whose result the received response carries.
Frame(id) == [id |-> id, pc |-> "receive", serving |-> 0, answer |-> NoAnswer, expired |-> FALSE]

Top == frames[1]

HostIn(pc) == frames # <<>> /\ Top.pc = pc

GoTo(pc) == frames' = [frames EXCEPT ![1].pc = pc]

\* postMessage on port1 and receiveMessageOnPort(port1): a closed port
\* swallows what is sent and yields nothing.
HostSends(m) == toWorker' = IF closed = "no" THEN Append(toWorker, m) ELSE toWorker

Incoming == IF closed = "no" THEN toHost ELSE <<>>

WorkerIn(pc) == worker.pc = pc

Init ==
    /\ phase = "connecting"
    /\ closed = "no"
    /\ frames = <<>>
    /\ toWorker = <<>>
    /\ toHost = <<>>
    /\ nextId = 1
    /\ worker = [pc |-> "starting", cur |-> 0, waitingFor |-> 0, observed |-> 0, callbacks |-> 0]
    /\ hostSignal = 0
    /\ nextHostId = 1
    /\ hist = [foreign |-> {}, nested |-> FALSE, left |-> FALSE]
-----------------------------------------------------------------------------
(***************************************************************************)
(* Connecting.                                                             *)
(***************************************************************************)

\* The Worker receives the connect message, listens and says so.
WorkerReady ==
    /\ WorkerIn("starting")
    /\ worker' = [worker EXCEPT !.pc = "idle"]
    /\ toHost' = Append(toHost, ReadyMessage)
    /\ UNCHANGED <<phase, closed, frames, toWorker, nextId, hostSignal, nextHostId, hist>>

\* It fails to start instead.
WorkerFails ==
    /\ WorkerIn("starting")
    /\ worker' = [worker EXCEPT !.pc = "dead"]
    /\ UNCHANGED <<phase, closed, frames, toWorker, toHost, nextId, hostSignal, nextHostId, hist>>

\* onReady
Connected ==
    /\ phase = "connecting"
    /\ toHost # <<>>
    /\ phase' = "open"
    /\ toHost' = Tail(toHost)
    /\ UNCHANGED <<closed, frames, toWorker, nextId, worker, hostSignal, nextHostId, hist>>

\* onError, or the initialization deadline passes first and the Worker is
\* terminated: in both cases there is no evaluator.
ConnectFails ==
    /\ phase = "connecting"
    /\ phase' = "failed"
    /\ UNCHANGED <<closed, frames, toWorker, toHost, nextId, worker, hostSignal, nextHostId, hist>>
-----------------------------------------------------------------------------
(***************************************************************************)
(* The host thread.                                                        *)
(***************************************************************************)

\* A call of request(): from the module, or from its code that serves a
\* binding.  (After closeWith it throws at once.)
Request ==
    /\ phase = "open"
    /\ closed = "no"
    /\ frames = <<>> \/ HostIn("serve")
    /\ nextId <= MaxRequests
    /\ nextId' = nextId + 1
    /\ HostSends(RequestMessage(nextId))
    /\ frames' = <<Frame(nextId)>> \o frames
    /\ hist' = [hist EXCEPT !.nested = @ \/ frames # <<>>]
    /\ UNCHANGED <<phase, closed, toHost, worker, hostSignal, nextHostId>>

\* The port is empty and there is no response: on to the deadline.
ReceiveNothing ==
    /\ HostIn("receive")
    /\ Incoming = <<>>
    /\ Top.answer = NoAnswer
    /\ GoTo("check")
    /\ UNCHANGED <<phase, closed, toWorker, toHost, nextId, worker, hostSignal, nextHostId, hist>>

\* The Worker asks for a binding: the module's code runs.
ReceiveHostRequest ==
    /\ HostIn("receive")
    /\ Incoming # <<>>
    /\ Head(Incoming).kind = "host"
    /\ toHost' = Tail(toHost)
    /\ frames' = [frames EXCEPT ![1].pc = "serve", ![1].serving = Head(Incoming).id]
    /\ UNCHANGED <<phase, closed, toWorker, nextId, worker, hostSignal, nextHostId, hist>>

\* The binding is read or written, or that threw: the answer is posted ...
PostHostResponse ==
    /\ HostIn("serve")
    /\ HostSends(HostResponse(Top.serving))
    /\ GoTo("notify")
    /\ UNCHANGED <<phase, closed, toHost, nextId, worker, hostSignal, nextHostId, hist>>

\* NotifyWorker without the count.
NotifyOnly ==
    /\ HostIn("notify")
    /\ GoTo("receive")
    /\ UNCHANGED <<phase, closed, toWorker, toHost, nextId, worker, hostSignal, nextHostId, hist>>

\* ... and then the Worker is woken.
NotifyWorker ==
    /\ HostIn("notify")
    /\ hostSignal' = hostSignal + 1
    /\ GoTo("receive")
    /\ UNCHANGED <<phase, closed, toWorker, toHost, nextId, worker, nextHostId, hist>>

\* ReceiveResponse that does not compare the ids.
ReceiveAnyResponse ==
    /\ HostIn("receive")
    /\ Incoming # <<>>
    /\ Head(Incoming).kind = "response"
    /\ toHost' = Tail(toHost)
    /\ frames' = [frames EXCEPT ![1].answer = Head(Incoming).of]
    /\ UNCHANGED <<phase, closed, toWorker, nextId, worker, hostSignal, nextHostId, hist>>

\* The response of the innermost request.  The rest of the port's messages
\* are dealt with before request() returns it.
ReceiveResponse ==
    /\ HostIn("receive")
    /\ Incoming # <<>>
    /\ Head(Incoming).kind = "response"
    /\ Head(Incoming).id = Top.id
    /\ toHost' = Tail(toHost)
    /\ frames' = [frames EXCEPT ![1].answer = Head(Incoming).of]
    /\ UNCHANGED <<phase, closed, toWorker, nextId, worker, hostSignal, nextHostId, hist>>

\* The port is empty and there is a response: request() returns it.
RequestReturns ==
    /\ HostIn("receive")
    /\ Incoming = <<>>
    /\ Top.answer # NoAnswer
    /\ frames' = Tail(frames)
    /\ hist' = [hist EXCEPT !.foreign = IF Top.answer # Top.id THEN @ \cup {Top.id} ELSE @]
    /\ UNCHANGED <<phase, closed, toWorker, toHost, nextId, worker, hostSignal, nextHostId>>

\* Any other response, even behind the right one: the evaluator is closed
\* and request() throws.
ReceiveDesynchronized ==
    /\ HostIn("receive")
    /\ Incoming # <<>>
    /\ Head(Incoming).kind = "response"
    /\ Head(Incoming).id # Top.id
    /\ toHost' = Tail(toHost)
    /\ closed' = "desynchronized"
    /\ frames' = Tail(frames)
    /\ UNCHANGED <<phase, toWorker, nextId, worker, hostSignal, nextHostId, hist>>

\* BeforeDeadline that never compares the time.
LookAgain ==
    /\ HostIn("check")
    /\ GoTo("receive")
    /\ UNCHANGED <<phase, closed, toWorker, toHost, nextId, worker, hostSignal, nextHostId, hist>>

\* Before the deadline the host sleeps, and looks again.
BeforeDeadline ==
    /\ HostIn("check")
    /\ ~Top.expired
    /\ GoTo("receive")
    /\ UNCHANGED <<phase, closed, toWorker, toHost, nextId, worker, hostSignal, nextHostId, hist>>

\* TimedOut that keeps the evaluator open for the next request.
TimedOutOpen ==
    /\ HostIn("check")
    /\ Top.expired
    /\ frames' = Tail(frames)
    /\ UNCHANGED <<phase, closed, toWorker, toHost, nextId, worker, hostSignal, nextHostId, hist>>

\* After it the evaluator is closed, unless it is already, and request()
\* throws.
TimedOut ==
    /\ HostIn("check")
    /\ Top.expired
    /\ closed' = IF closed = "no" THEN "timeout" ELSE closed
    /\ frames' = Tail(frames)
    /\ UNCHANGED <<phase, toWorker, toHost, nextId, worker, hostSignal, nextHostId, hist>>

\* Time passes: the deadline of a request.
Deadline(i) ==
    /\ i \in DOMAIN frames
    /\ ~frames[i].expired
    /\ frames' = [frames EXCEPT ![i].expired = TRUE]
    /\ UNCHANGED <<phase, closed, toWorker, toHost, nextId, worker, hostSignal, nextHostId, hist>>

\* The host's event loop, which runs outside of request() only, learns that
\* the Worker is gone.
WorkerExitEvent ==
    /\ phase = "open"
    /\ frames = <<>>
    /\ WorkerIn("dead")
    /\ closed = "no"
    /\ closed' = "exit"
    /\ UNCHANGED <<phase, frames, toWorker, toHost, nextId, worker, hostSignal, nextHostId, hist>>

\* terminate()
Terminate ==
    /\ phase = "open"
    /\ frames = <<>>
    /\ closed = "no"
    /\ closed' = "terminated"
    /\ UNCHANGED <<phase, frames, toWorker, toHost, nextId, worker, hostSignal, nextHostId, hist>>
-----------------------------------------------------------------------------
(***************************************************************************)
(* The Worker thread.                                                      *)
(***************************************************************************)
WorkerGoes(pc) == worker' = [worker EXCEPT !.pc = pc]

\* The message handler is given a request, and runs its code.
RunRequest ==
    /\ WorkerIn("idle")
    /\ toWorker # <<>>
    /\ Head(toWorker).kind = "request"
    /\ toWorker' = Tail(toWorker)
    /\ worker' = [worker EXCEPT !.pc = "run", !.cur = Head(toWorker).id]
    /\ UNCHANGED <<phase, closed, frames, toHost, nextId, hostSignal, nextHostId, hist>>

\* The message handler is given anything else: no case of its switch applies
\* and it answers with undefined, under the id of that message.
AnswerStray ==
    /\ WorkerIn("idle")
    /\ toWorker # <<>>
    /\ Head(toWorker).kind # "request"
    /\ toWorker' = Tail(toWorker)
    /\ toHost' = Append(toHost, ResponseMessage(Head(toWorker).id, 0))
    /\ UNCHANGED <<phase, closed, frames, nextId, worker, hostSignal, nextHostId, hist>>

\* The Worker's event loop runs a callback that dynamic code left behind.
RunCallback ==
    /\ WorkerIn("idle")
    /\ worker.callbacks > 0
    /\ worker' = [worker EXCEPT !.pc = "run", !.cur = 0, !.callbacks = @ - 1]
    /\ UNCHANGED <<phase, closed, frames, toWorker, toHost, nextId, hostSignal, nextHostId, hist>>

\* Dynamic code leaves a callback (a timer, a promise reaction) behind.
LeaveCallback ==
    /\ WorkerIn("run")
    /\ worker.callbacks < MaxCallbacks
    /\ worker' = [worker EXCEPT !.callbacks = @ + 1]
    /\ hist' = [hist EXCEPT !.left = TRUE]
    /\ UNCHANGED <<phase, closed, frames, toWorker, toHost, nextId, hostSignal, nextHostId>>

\* Dynamic code reads or writes a binding: hostRequest() notes the signal ...
CallHostRequest ==
    /\ WorkerIn("run")
    /\ nextHostId <= MaxHostRequests
    /\ nextHostId' = nextHostId + 1
    /\ worker' = [worker EXCEPT !.pc = "post", !.waitingFor = nextHostId, !.observed = hostSignal]
    /\ UNCHANGED <<phase, closed, frames, toWorker, toHost, nextId, hostSignal, hist>>

\* ... and then posts its message.
PostHostRequest ==
    /\ WorkerIn("post")
    /\ toHost' = Append(toHost, HostMessage(worker.waitingFor))
    /\ WorkerGoes("receive")
    /\ UNCHANGED <<phase, closed, frames, toWorker, nextId, hostSignal, nextHostId, hist>>

\* The port is empty: the Worker sleeps until the signal differs from the
\* one it noted.
ReplyNotThere ==
    /\ WorkerIn("receive")
    /\ toWorker = <<>>
    /\ WorkerGoes("sleep")
    /\ UNCHANGED <<phase, closed, frames, toWorker, toHost, nextId, hostSignal, nextHostId, hist>>

WorkerWakes ==
    /\ WorkerIn("sleep")
    /\ hostSignal # worker.observed
    /\ WorkerGoes("receive")
    /\ UNCHANGED <<phase, closed, frames, toWorker, toHost, nextId, hostSignal, nextHostId, hist>>

\* Any message ends hostRequest(): with the answer if it is that, and with
\* an exception in dynamic code, which may catch it, if it is not.
ReceiveReply ==
    /\ WorkerIn("receive")
    /\ toWorker # <<>>
    /\ toWorker' = Tail(toWorker)
    /\ worker' = [worker EXCEPT !.pc = "run", !.waitingFor = 0]
    /\ UNCHANGED <<phase, closed, frames, toHost, nextId, hostSignal, nextHostId, hist>>

\* The code of a request returns or throws, and its response is posted.
CodeEnds ==
    /\ WorkerIn("run")
    /\ worker.cur > 0
    /\ toHost' = Append(toHost, ResponseMessage(worker.cur, worker.cur))
    /\ worker' = [worker EXCEPT !.pc = "idle", !.cur = 0]
    /\ UNCHANGED <<phase, closed, frames, toWorker, nextId, hostSignal, nextHostId, hist>>

\* A callback of the event loop returns, or throws and ends the Worker.
CallbackEnds ==
    /\ WorkerIn("run")
    /\ worker.cur = 0
    /\ \E pc \in {"idle", "dead"} : WorkerGoes(pc)
    /\ UNCHANGED <<phase, closed, frames, toWorker, toHost, nextId, hostSignal, nextHostId, hist>>

\* Dynamic code enters a loop that it never leaves.
Spin ==
    /\ WorkerIn("run")
    /\ MaySpin
    /\ WorkerGoes("spin")
    /\ UNCHANGED <<phase, closed, frames, toWorker, toHost, nextId, hostSignal, nextHostId, hist>>

\* The termination that closeWith, terminate() or the connect timeout asked
\* for takes effect, whatever the Worker is doing.
WorkerStops ==
    /\ closed # "no" \/ phase = "failed"
    /\ ~WorkerIn("dead")
    /\ WorkerGoes("dead")
    /\ UNCHANGED <<phase, closed, frames, toWorker, toHost, nextId, hostSignal, nextHostId, hist>>
-----------------------------------------------------------------------------
HostStep ==
    \/ Connected
    \/ ReceiveNothing
    \/ ReceiveHostRequest
    \/ PostHostResponse
    \/ NotifyWorker
    \/ ReceiveResponse
    \/ RequestReturns
    \/ ReceiveDesynchronized
    \/ BeforeDeadline
    \/ TimedOut
    \/ WorkerExitEvent

WorkerStep ==
    \/ WorkerReady
    \/ RunRequest
    \/ AnswerStray
    \/ RunCallback
    \/ PostHostRequest
    \/ ReplyNotThere
    \/ WorkerWakes
    \/ ReceiveReply
    \/ CodeEnds
    \/ CallbackEnds

CodeChoice == LeaveCallback \/ CallHostRequest \/ Spin

DeadlinePasses == \E i \in 1..MaxRequests : Deadline(i)

Next ==
    \/ WorkerFails
    \/ ConnectFails
    \/ Request
    \/ HostStep
    \/ DeadlinePasses
    \/ Terminate
    \/ WorkerStep
    \/ CodeChoice
    \/ WorkerStops

Spec == Init /\ [][Next]_vars

\* Both threads run, deadlines pass, and a termination takes effect.  Dynamic
\* code ends or spins, and the host is free to make no request at all.
FairSpec ==
    /\ Spec
    /\ WF_vars(HostStep)
    /\ WF_vars(WorkerStep)
    /\ WF_vars(DeadlinePasses)
    /\ WF_vars(WorkerStops)
-----------------------------------------------------------------------------
(***************************************************************************)
(* Properties.                                                             *)
(***************************************************************************)

\* What request() returns is the result of that very request: no response is
\* taken for the answer to another request, as long as dynamic code leaves no
\* callbacks behind for the Worker's event loop.
OwnAnswer == ~hist.left => hist.foreign = {}

\* Outside of nested requests, and without such callbacks, the two sides never
\* lose step, whatever a deadline interrupts.
InStep == closed = "desynchronized" => hist.nested \/ hist.left

\* Without such callbacks the Worker sleeps only while the host still has to
\* answer: its message is in the port, or is being served, or the evaluator
\* is closed.
SleepIsAnswered ==
    WorkerIn("sleep") /\ worker.observed = hostSignal /\ closed = "no" /\ ~hist.left =>
        /\ frames # <<>>
        /\ \/ \E i \in DOMAIN toHost : toHost[i] = HostMessage(worker.waitingFor)
           \/ \E i \in DOMAIN frames : /\ frames[i].pc \in {"serve", "notify"}
                                       /\ frames[i].serving = worker.waitingFor

\* The host thread always gets out of request(), at the latest after its
\* deadline: the Worker may spin, die, lose step, or run callbacks that send
\* messages of their own.
RequestEnds == (frames # <<>>) ~> (frames = <<>>)

\* Dynamic code that accesses a binding is answered, or the Worker ends.  A
\* callback that does so while no request is open is not covered: nobody
\* serves it.
BindingAccessEnds == (WorkerIn("receive") /\ ~hist.left) ~> (WorkerIn("run") \/ WorkerIn("dead"))
=============================================================================

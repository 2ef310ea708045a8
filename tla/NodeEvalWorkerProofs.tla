------------------------ MODULE NodeEvalWorkerProofs ------------------------
(***************************************************************************)
(* Proofs about NodeEvalWorker for every number of requests, host requests *)
(* and callbacks: an answer goes to the request it was made for, the two   *)
(* threads lose step only through nested requests or callbacks, and the    *)
(* Worker sleeps only while the host has still to answer it.               *)
(***************************************************************************)
EXTENDS NodeEvalWorker, SequenceTheorems, TLAPS

Message == [kind : {"ready", "request", "response", "host", "host-response"}, id : Nat, of : Nat]

FrameRecord == [id : Nat, pc : {"receive", "check", "serve", "notify"}, serving : Nat,
                answer : Int, expired : BOOLEAN]

WorkerRecord == [pc : {"starting", "idle", "run", "post", "receive", "sleep", "spin", "dead"},
                 cur : Nat, waitingFor : Nat, observed : Nat, callbacks : Nat]

\* The types of the variables; hostSignal is a counter that the Worker can
\* only have noted in the past.
Typed ==
    /\ phase \in {"connecting", "open", "failed"}
    /\ closed \in {"no", "desynchronized", "timeout", "exit", "terminated"}
    /\ frames \in Seq(FrameRecord)
    /\ toWorker \in Seq(Message)
    /\ toHost \in Seq(Message)
    /\ nextId \in Nat
    /\ nextHostId \in Nat
    /\ hostSignal \in Nat
    /\ worker \in WorkerRecord
    /\ worker.observed <= hostSignal
    /\ hist \in [foreign : SUBSET Nat, nested : BOOLEAN, left : BOOLEAN]

\* The stack of request() activations: all but the innermost serve a binding,
\* and no id occurs twice as far as the outermost one is concerned.
Stacked ==
    /\ frames # <<>> => phase = "open"
    /\ Len(frames) > 1 => hist.nested
    /\ nextId > 0
    /\ \A i \in 1..Len(frames) : frames[i].id > 0 /\ frames[i].id < nextId
    /\ \A i \in 1..Len(frames) : i < Len(frames) => frames[i].id # frames[Len(frames)].id
    /\ \A i \in 1..Len(frames) : i > 1 => frames[i].pc = "serve"

\* Before the evaluator is open nobody asks anything.
Unopened ==
    /\ ~hist.left => worker.callbacks = 0
    /\ phase # "open" =>
          /\ closed = "no" /\ toWorker = <<>> /\ ~hist.left
          /\ WorkerIn("starting") \/ WorkerIn("idle") \/ WorkerIn("dead")
    /\ phase = "connecting" => \/ ~WorkerIn("idle") /\ toHost = <<>>
                               \/ WorkerIn("idle") /\ Len(toHost) = 1
    /\ phase = "open" => ~WorkerIn("starting")
-----------------------------------------------------------------------------
(***************************************************************************)
(* Whose turn it is, while the evaluator is open and no callback was left  *)
(* behind.  At any moment one side has the turn, or one message carries it *)
(* to the other.                                                           *)
(***************************************************************************)
Outer == frames[Len(frames)].id

HostWaits == Top.pc \in {"notify", "receive", "check"}

WorkerWaits == WorkerIn("receive") \/ WorkerIn("sleep")

Silence == toWorker = <<>> /\ toHost = <<>>

\* The outermost request is on its way.
RequestSent ==
    /\ WorkerIn("idle")
    /\ Len(toWorker) = 1 /\ toWorker[1] = RequestMessage(Outer) /\ toHost = <<>>
    /\ Len(frames) = 1 /\ HostWaits

\* Dynamic code runs.
CodeRuns ==
    /\ WorkerIn("run") \/ WorkerIn("post") \/ WorkerIn("spin")
    /\ Silence
    /\ HostWaits

\* It asks for a binding.
BindingAsked ==
    /\ WorkerWaits
    /\ toWorker = <<>> /\ Len(toHost) = 1 /\ toHost[1] = HostMessage(worker.waitingFor)
    /\ HostWaits

\* The host serves it.
BindingServed ==
    /\ WorkerWaits
    /\ Silence
    /\ Top.pc = "serve" /\ Top.serving = worker.waitingFor

\* The host has answered, and has woken the Worker or is about to.
BindingAnswered ==
    /\ WorkerWaits
    /\ Len(toWorker) = 1 /\ toHost = <<>>
    /\ HostWaits
    /\ \/ Top.pc = "notify" /\ Top.serving = worker.waitingFor
       \/ hostSignal # worker.observed

\* Serving it made a nested request, which the Worker takes for the answer.
NestedSent ==
    /\ WorkerWaits
    /\ Len(toWorker) = 1 /\ toHost = <<>>
    /\ HostWaits
    /\ Len(frames) > 1 /\ frames[2].serving = worker.waitingFor

\* The code of the outermost request has ended, and its answer is on its way.
ResponseSent ==
    /\ WorkerIn("idle")
    /\ toWorker = <<>>
    /\ Len(toHost) = 1 /\ toHost[1] = ResponseMessage(Outer, Outer)
    /\ HostWaits

\* request() is about to return it.
Returning ==
    /\ WorkerIn("idle")
    /\ Silence
    /\ Len(frames) = 1 /\ Top.pc = "receive" /\ Top.answer = Top.id

Unanswered == \A i \in 1..Len(frames) : frames[i].answer = NoAnswer

Turns ==
    phase = "open" /\ closed = "no" /\ ~hist.left =>
        \/ frames = <<>> /\ WorkerIn("idle") /\ Silence
        \/ frames # <<>> /\ Returning
        \/ /\ frames # <<>>
           /\ Unanswered
           /\ ~WorkerIn("idle") => worker.cur = Outer
           /\ worker.cur > 0 \/ WorkerIn("idle")
           /\ \/ RequestSent
              \/ CodeRuns
              \/ BindingAsked
              \/ BindingServed
              \/ BindingAnswered
              \/ NestedSent
              \/ ResponseSent

\* Nobody answers after the end.
Closed == closed # "no" /\ ~hist.left => Unanswered

\* The inductive invariant.
IndInv == Typed /\ Stacked /\ Unopened /\ Turns /\ Closed /\ OwnAnswer /\ InStep
-----------------------------------------------------------------------------
(***************************************************************************)
(* Lemmas about the stack and the ports.                                   *)
(***************************************************************************)

\* Changing the innermost activation.
LEMMA TopChanged ==
    ASSUME NEW S, NEW s \in Seq(S), s # <<>>, NEW g \in S
    PROVE  LET t == [s EXCEPT ![1] = g]
           IN  /\ t \in Seq(S)
               /\ Len(t) = Len(s)
               /\ t # <<>>
               /\ t[1] = g
               /\ \A i \in 1..Len(s) : i > 1 => t[i] = s[i]
  OBVIOUS

\* Changing any activation.
LEMMA OneChanged ==
    ASSUME NEW S, NEW s \in Seq(S), NEW k \in 1..Len(s), NEW g \in S
    PROVE  LET t == [s EXCEPT ![k] = g]
           IN  /\ t \in Seq(S)
               /\ Len(t) = Len(s)
               /\ t # <<>>
               /\ t[k] = g
               /\ \A i \in 1..Len(s) : i # k => t[i] = s[i]
  OBVIOUS

\* A call of request().
LEMMA Pushed ==
    ASSUME NEW S, NEW s \in Seq(S), NEW g \in S
    PROVE  LET t == <<g>> \o s
           IN  /\ t \in Seq(S)
               /\ Len(t) = Len(s) + 1
               /\ t # <<>>
               /\ t[1] = g
               /\ \A i \in 1..Len(t) : i > 1 => t[i] = s[i - 1]
  OBVIOUS

\* The end of one, and a message taken from a port.
LEMMA Popped ==
    ASSUME NEW S, NEW s \in Seq(S), s # <<>>
    PROVE  LET t == Tail(s)
           IN  /\ t \in Seq(S)
               /\ Len(t) = Len(s) - 1
               /\ \A i \in 1..Len(t) : t[i] = s[i + 1]
               /\ Head(s) = s[1]
               /\ Head(s) \in S
               /\ Len(s) = 1 => t = <<>>
  <1>1. Len(s) \in Nat /\ Len(s) > 0
    BY EmptySeq, LenProperties
  <1>2. /\ Tail(s) \in Seq(S)
        /\ Len(Tail(s)) = Len(s) - 1
        /\ \A i \in 1..Len(Tail(s)) : Tail(s)[i] = s[i + 1]
        /\ Head(s) \in S
    BY HeadTailProperties
  <1>3. Head(s) = s[1]
    BY <1>1
  <1>4. Len(s) = 1 => Tail(s) = <<>>
    <2>1. Tail(s) # <<>> => Len(Tail(s)) \in Nat \ {0}
      BY <1>2, EmptySeq
    <2> QED
      BY <1>2, <2>1
  <1> QED
    BY <1>2, <1>3, <1>4

\* A message posted to a port.
LEMMA Posted ==
    ASSUME NEW S, NEW s \in Seq(S), NEW m \in S
    PROVE  LET t == Append(s, m)
           IN  /\ t \in Seq(S)
               /\ Len(t) = Len(s) + 1
               /\ t # <<>>
               /\ t[Len(t)] = m
               /\ \A i \in 1..Len(s) : t[i] = s[i]
  OBVIOUS

\* Initially.
LEMMA InitInv == Init => IndInv
  BY DEF Init, IndInv, Typed, Stacked, Unopened, Turns, Closed, OwnAnswer, InStep, WorkerIn,
         WorkerRecord, Unanswered

-----------------------------------------------------------------------------
(***************************************************************************)
(* The Worker's steps.                                                     *)
(***************************************************************************)

\* The Worker fails to start: the host still waits to connect.
LEMMA WorkerFailsInv == IndInv /\ WorkerFails => IndInv'
  <1> SUFFICES ASSUME IndInv, WorkerFails PROVE IndInv'
    OBVIOUS
  <1>1. Typed'
    BY DEF IndInv, Typed, WorkerRecord, WorkerFails, WorkerIn, WorkerGoes
  <1>2. Stacked' /\ Closed' /\ OwnAnswer' /\ InStep'
    BY DEF IndInv, Typed, Stacked, Closed, Unanswered, OwnAnswer, InStep, WorkerFails
  <1>3. Unopened'
    BY DEF IndInv, Typed, WorkerRecord, Unopened, WorkerFails, WorkerIn, WorkerGoes
  <1>4. Turns'
    BY DEF IndInv, Typed, WorkerRecord, Stacked, Unopened, Turns, Unanswered, WorkerFails, WorkerIn, WorkerGoes,
          RequestSent, CodeRuns, BindingAsked, BindingServed, BindingAnswered, NestedSent,
          ResponseSent, Returning, HostWaits, WorkerWaits, Silence, Outer, Top, RequestMessage, HostMessage, ResponseMessage
  <1> QED
    BY <1>1, <1>2, <1>3, <1>4 DEF IndInv

\* Only a Worker with a callback left behind does this.
LEMMA RunCallbackInv == IndInv /\ RunCallback => IndInv'
  <1> SUFFICES ASSUME IndInv, RunCallback PROVE IndInv'
    OBVIOUS
  <1>1. Typed'
    <2>1. worker \in WorkerRecord /\ worker.callbacks - 1 \in Nat
      BY DEF IndInv, Typed, WorkerRecord, RunCallback
    <2>3. worker' = [worker EXCEPT !.pc = "run", !.cur = 0, !.callbacks = worker.callbacks - 1]
      BY <2>1 DEF RunCallback, WorkerRecord
    <2>4. worker' \in WorkerRecord
      BY <2>1, <2>3 DEF WorkerRecord
    <2>5. worker'.observed <= hostSignal'
      BY <2>1, <2>3 DEF WorkerRecord, IndInv, Typed, RunCallback
    <2>2. hist' \in [foreign : SUBSET Nat, nested : BOOLEAN, left : BOOLEAN]
      BY DEF IndInv, Typed, RunCallback
    <2> QED
      BY <2>2, <2>4, <2>5 DEF IndInv, Typed, RunCallback
  <1>2. Stacked' /\ Closed' /\ OwnAnswer' /\ InStep'
    BY DEF IndInv, Typed, Stacked, Closed, Unanswered, OwnAnswer, InStep, RunCallback
  <1>3. Unopened'
    BY DEF IndInv, Typed, WorkerRecord, Unopened, RunCallback, WorkerIn, WorkerGoes
  <1>4. Turns'
    BY DEF IndInv, Typed, WorkerRecord, Stacked, Unopened, Turns, Unanswered, RunCallback, WorkerIn, WorkerGoes,
          RequestSent, CodeRuns, BindingAsked, BindingServed, BindingAnswered, NestedSent,
          ResponseSent, Returning, HostWaits, WorkerWaits, Silence, Outer, Top, RequestMessage, HostMessage, ResponseMessage
  <1> QED
    BY <1>1, <1>2, <1>3, <1>4 DEF IndInv

\* The code that has the turn is about to ask.
LEMMA CallHostRequestInv == IndInv /\ CallHostRequest => IndInv'
  <1> SUFFICES ASSUME IndInv, CallHostRequest PROVE IndInv'
    OBVIOUS
  <1>1. Typed'
    <2>1. worker' \in WorkerRecord
      BY DEF IndInv, Typed, WorkerRecord, CallHostRequest
    <2>5. worker'.observed <= hostSignal'
      BY <2>1 DEF WorkerRecord, IndInv, Typed, CallHostRequest
    <2>2. hist' \in [foreign : SUBSET Nat, nested : BOOLEAN, left : BOOLEAN]
      BY DEF IndInv, Typed, CallHostRequest
    <2> QED
      BY <2>1, <2>2, <2>5 DEF IndInv, Typed, CallHostRequest
  <1>2. Stacked' /\ Closed' /\ OwnAnswer' /\ InStep'
    BY DEF IndInv, Typed, Stacked, Closed, Unanswered, OwnAnswer, InStep, CallHostRequest
  <1>3. Unopened'
    BY DEF IndInv, Typed, WorkerRecord, Unopened, CallHostRequest, WorkerIn, WorkerGoes
  <1>4. Turns'
    BY DEF IndInv, Typed, WorkerRecord, Stacked, Unopened, Turns, Unanswered, CallHostRequest, WorkerIn, WorkerGoes,
          RequestSent, CodeRuns, BindingAsked, BindingServed, BindingAnswered, NestedSent,
          ResponseSent, Returning, HostWaits, WorkerWaits, Silence, Outer, Top, RequestMessage, HostMessage, ResponseMessage
  <1> QED
    BY <1>1, <1>2, <1>3, <1>4 DEF IndInv

\* The Worker that waits goes to sleep.
LEMMA ReplyNotThereInv == IndInv /\ ReplyNotThere => IndInv'
  <1> SUFFICES ASSUME IndInv, ReplyNotThere PROVE IndInv'
    OBVIOUS
  <1>1. Typed'
    BY DEF IndInv, Typed, WorkerRecord, ReplyNotThere, WorkerIn, WorkerGoes
  <1>2. Stacked' /\ Closed' /\ OwnAnswer' /\ InStep'
    BY DEF IndInv, Typed, Stacked, Closed, Unanswered, OwnAnswer, InStep, ReplyNotThere
  <1>3. Unopened'
    BY DEF IndInv, Typed, WorkerRecord, Unopened, ReplyNotThere, WorkerIn, WorkerGoes
  <1>4. Turns'
    BY DEF IndInv, Typed, WorkerRecord, Stacked, Unopened, Turns, Unanswered, ReplyNotThere, WorkerIn, WorkerGoes,
          RequestSent, CodeRuns, BindingAsked, BindingServed, BindingAnswered, NestedSent,
          ResponseSent, Returning, HostWaits, WorkerWaits, Silence, Outer, Top, RequestMessage, HostMessage, ResponseMessage
  <1> QED
    BY <1>1, <1>2, <1>3, <1>4 DEF IndInv

\* It wakes up.
LEMMA WorkerWakesInv == IndInv /\ WorkerWakes => IndInv'
  <1> SUFFICES ASSUME IndInv, WorkerWakes PROVE IndInv'
    OBVIOUS
  <1>1. Typed'
    BY DEF IndInv, Typed, WorkerRecord, WorkerWakes, WorkerIn, WorkerGoes
  <1>2. Stacked' /\ Closed' /\ OwnAnswer' /\ InStep'
    BY DEF IndInv, Typed, Stacked, Closed, Unanswered, OwnAnswer, InStep, WorkerWakes
  <1>3. Unopened'
    BY DEF IndInv, Typed, WorkerRecord, Unopened, WorkerWakes, WorkerIn, WorkerGoes
  <1>4. Turns'
    BY DEF IndInv, Typed, WorkerRecord, Stacked, Unopened, Turns, Unanswered, WorkerWakes, WorkerIn, WorkerGoes,
          RequestSent, CodeRuns, BindingAsked, BindingServed, BindingAnswered, NestedSent,
          ResponseSent, Returning, HostWaits, WorkerWaits, Silence, Outer, Top, RequestMessage, HostMessage, ResponseMessage
  <1> QED
    BY <1>1, <1>2, <1>3, <1>4 DEF IndInv

\* Only a Worker with a callback left behind does this.
LEMMA CallbackEndsInv == IndInv /\ CallbackEnds => IndInv'
  <1> SUFFICES ASSUME IndInv, CallbackEnds PROVE IndInv'
    OBVIOUS
  <1>1. Typed'
    BY DEF IndInv, Typed, WorkerRecord, CallbackEnds, WorkerIn, WorkerGoes
  <1>2. Stacked' /\ Closed' /\ OwnAnswer' /\ InStep'
    BY DEF IndInv, Typed, Stacked, Closed, Unanswered, OwnAnswer, InStep, CallbackEnds
  <1>3. Unopened'
    BY DEF IndInv, Typed, WorkerRecord, Unopened, CallbackEnds, WorkerIn, WorkerGoes
  <1>4. Turns'
    BY DEF IndInv, Typed, WorkerRecord, Stacked, Unopened, Turns, Unanswered, CallbackEnds, WorkerIn, WorkerGoes,
          RequestSent, CodeRuns, BindingAsked, BindingServed, BindingAnswered, NestedSent,
          ResponseSent, Returning, HostWaits, WorkerWaits, Silence, Outer, Top, RequestMessage, HostMessage, ResponseMessage
  <1> QED
    BY <1>1, <1>2, <1>3, <1>4 DEF IndInv

\* The turn stays with code that never ends.
LEMMA SpinInv == IndInv /\ Spin => IndInv'
  <1> SUFFICES ASSUME IndInv, Spin PROVE IndInv'
    OBVIOUS
  <1>1. Typed'
    BY DEF IndInv, Typed, WorkerRecord, Spin, WorkerIn, WorkerGoes
  <1>2. Stacked' /\ Closed' /\ OwnAnswer' /\ InStep'
    BY DEF IndInv, Typed, Stacked, Closed, Unanswered, OwnAnswer, InStep, Spin
  <1>3. Unopened'
    BY DEF IndInv, Typed, WorkerRecord, Unopened, Spin, WorkerIn, WorkerGoes
  <1>4. Turns'
    BY DEF IndInv, Typed, WorkerRecord, Stacked, Unopened, Turns, Unanswered, Spin, WorkerIn, WorkerGoes,
          RequestSent, CodeRuns, BindingAsked, BindingServed, BindingAnswered, NestedSent,
          ResponseSent, Returning, HostWaits, WorkerWaits, Silence, Outer, Top, RequestMessage, HostMessage, ResponseMessage
  <1> QED
    BY <1>1, <1>2, <1>3, <1>4 DEF IndInv

\* The evaluator is closed, or was never open.
LEMMA WorkerStopsInv == IndInv /\ WorkerStops => IndInv'
  <1> SUFFICES ASSUME IndInv, WorkerStops PROVE IndInv'
    OBVIOUS
  <1>1. Typed'
    BY DEF IndInv, Typed, WorkerRecord, WorkerStops, WorkerIn, WorkerGoes
  <1>2. Stacked' /\ Closed' /\ OwnAnswer' /\ InStep'
    BY DEF IndInv, Typed, Stacked, Closed, Unanswered, OwnAnswer, InStep, WorkerStops
  <1>3. Unopened'
    BY DEF IndInv, Typed, WorkerRecord, Unopened, WorkerStops, WorkerIn, WorkerGoes
  <1>4. Turns'
    BY DEF IndInv, Typed, WorkerRecord, Stacked, Unopened, Turns, Unanswered, WorkerStops, WorkerIn, WorkerGoes,
          RequestSent, CodeRuns, BindingAsked, BindingServed, BindingAnswered, NestedSent,
          ResponseSent, Returning, HostWaits, WorkerWaits, Silence, Outer, Top, RequestMessage, HostMessage, ResponseMessage
  <1> QED
    BY <1>1, <1>2, <1>3, <1>4 DEF IndInv

\* From here on nothing is claimed.
LEMMA LeaveCallbackInv == IndInv /\ LeaveCallback => IndInv'
  <1> SUFFICES ASSUME IndInv, LeaveCallback PROVE IndInv'
    OBVIOUS
  <1>1. Typed'
    <2>1. worker \in WorkerRecord /\ worker.callbacks + 1 \in Nat
      BY DEF IndInv, Typed, WorkerRecord, LeaveCallback
    <2>3. worker' = [worker EXCEPT !.callbacks = worker.callbacks + 1]
      BY <2>1 DEF LeaveCallback, WorkerRecord
    <2>4. worker' \in WorkerRecord
      BY <2>1, <2>3 DEF WorkerRecord
    <2>5. worker'.observed <= hostSignal'
      BY <2>1, <2>3 DEF WorkerRecord, IndInv, Typed, LeaveCallback
    <2>2. hist' \in [foreign : SUBSET Nat, nested : BOOLEAN, left : BOOLEAN]
      BY DEF IndInv, Typed, LeaveCallback
    <2> QED
      BY <2>2, <2>4, <2>5 DEF IndInv, Typed, LeaveCallback
  <1>2. Stacked' /\ Closed' /\ OwnAnswer' /\ InStep'
    BY DEF IndInv, Typed, Stacked, Closed, Unanswered, OwnAnswer, InStep, LeaveCallback
  <1>3. Unopened'
    BY DEF IndInv, Typed, WorkerRecord, Unopened, LeaveCallback, WorkerIn, WorkerGoes
  <1>4. Turns'
    BY DEF IndInv, Typed, WorkerRecord, Stacked, Unopened, Turns, Unanswered, LeaveCallback, WorkerIn, WorkerGoes,
          RequestSent, CodeRuns, BindingAsked, BindingServed, BindingAnswered, NestedSent,
          ResponseSent, Returning, HostWaits, WorkerWaits, Silence, Outer, Top, RequestMessage, HostMessage, ResponseMessage
  <1> QED
    BY <1>1, <1>2, <1>3, <1>4 DEF IndInv

\* The outermost request, and no other, is executed.
LEMMA RunRequestInv == IndInv /\ RunRequest => IndInv'
  <1> SUFFICES ASSUME IndInv, RunRequest PROVE IndInv'
    OBVIOUS
  <1>1. Typed'
    <2>1. Head(toWorker) \in Message /\ toWorker' \in Seq(Message)
      BY Popped DEF IndInv, Typed, RunRequest
    <2>3. Head(toWorker).id \in Nat
      BY <2>1 DEF Message
    <2>4. worker' \in WorkerRecord
      BY <2>3 DEF IndInv, Typed, WorkerRecord, RunRequest
    <2>5. worker'.observed <= hostSignal'
      BY <2>4 DEF IndInv, Typed, WorkerRecord, RunRequest
    <2>2. hist' \in [foreign : SUBSET Nat, nested : BOOLEAN, left : BOOLEAN]
      BY DEF IndInv, Typed, RunRequest
    <2> QED
      BY <2>1, <2>2, <2>4, <2>5 DEF IndInv, Typed, RunRequest
  <1>2. Stacked' /\ Closed' /\ OwnAnswer' /\ InStep'
    BY DEF IndInv, Typed, Stacked, Closed, Unanswered, OwnAnswer, InStep, RunRequest
  <1>3. Unopened'
    BY Popped DEF IndInv, Typed, WorkerRecord, Unopened, RunRequest, WorkerIn, WorkerGoes
  <1>4. Turns'
    <2> SUFFICES ASSUME phase = "open", closed = "no", ~hist.left PROVE Turns'
      BY DEF Turns, RunRequest
    <2>1. frames # <<>> /\ Unanswered /\ RequestSent
      BY DEF IndInv, Turns, RunRequest, WorkerIn, Returning, Silence, CodeRuns, BindingAsked, BindingServed, BindingAnswered, NestedSent, ResponseSent, WorkerWaits
    <2>2. /\ toWorker' = <<>> /\ Head(toWorker) = RequestMessage(Outer)
          /\ worker'.pc = "run" /\ worker'.cur = Outer
      BY <2>1, Popped DEF IndInv, Typed, RequestSent, RunRequest, RequestMessage, WorkerRecord
    <2>3. CodeRuns'
      BY <2>1, <2>2 DEF RequestSent, CodeRuns, RunRequest, WorkerIn, Silence, HostWaits, Top
    <2>4. Outer > 0 /\ Outer' = Outer
      BY <2>1 DEF RequestSent, IndInv, Stacked, Outer, RunRequest
    <2> QED
      BY <2>1, <2>2, <2>3, <2>4 DEF Turns, Unanswered, RunRequest
  <1> QED
    BY <1>1, <1>2, <1>3, <1>4 DEF IndInv

\* The answer, or a nested request taken for it, gives the turn back to the code.
LEMMA ReceiveReplyInv == IndInv /\ ReceiveReply => IndInv'
  <1> SUFFICES ASSUME IndInv, ReceiveReply PROVE IndInv'
    OBVIOUS
  <1>1. Typed'
    BY Popped DEF IndInv, Typed, WorkerRecord, ReceiveReply, WorkerIn, WorkerGoes
  <1>2. Stacked' /\ Closed' /\ OwnAnswer' /\ InStep'
    BY DEF IndInv, Typed, Stacked, Closed, Unanswered, OwnAnswer, InStep, ReceiveReply
  <1>3. Unopened'
    BY Popped DEF IndInv, Typed, WorkerRecord, Unopened, ReceiveReply, WorkerIn, WorkerGoes
  <1>4. Turns'
    BY Popped, SMTT(30) DEF IndInv, Typed, WorkerRecord, Stacked, Unopened, Turns, Unanswered, ReceiveReply, WorkerIn, WorkerGoes,
          RequestSent, CodeRuns, BindingAsked, BindingServed, BindingAnswered, NestedSent,
          ResponseSent, Returning, HostWaits, WorkerWaits, Silence, Outer, Top, RequestMessage, HostMessage, ResponseMessage
  <1> QED
    BY <1>1, <1>2, <1>3, <1>4 DEF IndInv

\* The message that opens the evaluator.
LEMMA WorkerReadyInv == IndInv /\ WorkerReady => IndInv'
  <1> SUFFICES ASSUME IndInv, WorkerReady PROVE IndInv'
    OBVIOUS
  <1>1. Typed'
    BY Popped, Posted DEF IndInv, Typed, WorkerRecord, WorkerReady, WorkerIn, WorkerGoes, Message, ReadyMessage, ResponseMessage, HostMessage
  <1>2. Stacked' /\ Closed' /\ OwnAnswer' /\ InStep'
    BY DEF IndInv, Typed, Stacked, Closed, Unanswered, OwnAnswer, InStep, WorkerReady
  <1>3. Unopened'
    BY Popped, Posted DEF IndInv, Typed, WorkerRecord, Unopened, WorkerReady, WorkerIn, WorkerGoes
  <1>4. Turns'
    BY Popped, Posted DEF IndInv, Typed, WorkerRecord, Stacked, Unopened, Turns, Unanswered, WorkerReady, WorkerIn, WorkerGoes,
          RequestSent, CodeRuns, BindingAsked, BindingServed, BindingAnswered, NestedSent,
          ResponseSent, Returning, HostWaits, WorkerWaits, Silence, Outer, Top, RequestMessage, HostMessage, ResponseMessage
  <1> QED
    BY <1>1, <1>2, <1>3, <1>4 DEF IndInv

\* An idle Worker is sent nothing but the outermost request.
LEMMA AnswerStrayInv == IndInv /\ AnswerStray => IndInv'
  <1> SUFFICES ASSUME IndInv, AnswerStray PROVE IndInv'
    OBVIOUS
  <1>1. Typed'
    <2>1. toWorker' \in Seq(Message) /\ Head(toWorker) \in Message
      BY Popped DEF IndInv, Typed, AnswerStray
    <2>2. ResponseMessage(Head(toWorker).id, 0) \in Message
      BY <2>1 DEF Message, ResponseMessage
    <2>3. toHost' \in Seq(Message)
      BY <2>2, Posted DEF IndInv, Typed, AnswerStray
    <2> QED
      BY <2>1, <2>3 DEF IndInv, Typed, AnswerStray
  <1>2. Stacked' /\ Closed' /\ OwnAnswer' /\ InStep'
    BY DEF IndInv, Typed, Stacked, Closed, Unanswered, OwnAnswer, InStep, AnswerStray
  <1>3. Unopened'
    BY Popped, Posted DEF IndInv, Typed, WorkerRecord, Unopened, AnswerStray, WorkerIn, WorkerGoes
  <1>4. Turns'
    BY Popped, Posted DEF IndInv, Typed, WorkerRecord, Stacked, Unopened, Turns, Unanswered, AnswerStray, WorkerIn, WorkerGoes,
          RequestSent, CodeRuns, BindingAsked, BindingServed, BindingAnswered, NestedSent,
          ResponseSent, Returning, HostWaits, WorkerWaits, Silence, Outer, Top, RequestMessage, HostMessage, ResponseMessage
  <1> QED
    BY <1>1, <1>2, <1>3, <1>4 DEF IndInv

\* The question carries the turn to the host.
LEMMA PostHostRequestInv == IndInv /\ PostHostRequest => IndInv'
  <1> SUFFICES ASSUME IndInv, PostHostRequest PROVE IndInv'
    OBVIOUS
  <1>1. Typed'
    BY Popped, Posted DEF IndInv, Typed, WorkerRecord, PostHostRequest, WorkerIn, WorkerGoes, Message, ReadyMessage, ResponseMessage, HostMessage
  <1>2. Stacked' /\ Closed' /\ OwnAnswer' /\ InStep'
    BY DEF IndInv, Typed, Stacked, Closed, Unanswered, OwnAnswer, InStep, PostHostRequest
  <1>3. Unopened'
    BY Popped, Posted DEF IndInv, Typed, WorkerRecord, Unopened, PostHostRequest, WorkerIn, WorkerGoes
  <1>4. Turns'
    BY Popped, Posted DEF IndInv, Typed, WorkerRecord, Stacked, Unopened, Turns, Unanswered, PostHostRequest, WorkerIn, WorkerGoes,
          RequestSent, CodeRuns, BindingAsked, BindingServed, BindingAnswered, NestedSent,
          ResponseSent, Returning, HostWaits, WorkerWaits, Silence, Outer, Top, RequestMessage, HostMessage, ResponseMessage
  <1> QED
    BY <1>1, <1>2, <1>3, <1>4 DEF IndInv

\* The response carries the turn to the host, under the id of the outermost request.
LEMMA CodeEndsInv == IndInv /\ CodeEnds => IndInv'
  <1> SUFFICES ASSUME IndInv, CodeEnds PROVE IndInv'
    OBVIOUS
  <1>1. Typed'
    BY Popped, Posted DEF IndInv, Typed, WorkerRecord, CodeEnds, WorkerIn, WorkerGoes, Message, ReadyMessage, ResponseMessage, HostMessage
  <1>2. Stacked' /\ Closed' /\ OwnAnswer' /\ InStep'
    BY DEF IndInv, Typed, Stacked, Closed, Unanswered, OwnAnswer, InStep, CodeEnds
  <1>3. Unopened'
    BY Popped, Posted DEF IndInv, Typed, WorkerRecord, Unopened, CodeEnds, WorkerIn, WorkerGoes
  <1>4. Turns'
    BY Popped, Posted DEF IndInv, Typed, WorkerRecord, Stacked, Unopened, Turns, Unanswered, CodeEnds, WorkerIn, WorkerGoes,
          RequestSent, CodeRuns, BindingAsked, BindingServed, BindingAnswered, NestedSent,
          ResponseSent, Returning, HostWaits, WorkerWaits, Silence, Outer, Top, RequestMessage, HostMessage, ResponseMessage
  <1> QED
    BY <1>1, <1>2, <1>3, <1>4 DEF IndInv

-----------------------------------------------------------------------------
(***************************************************************************)
(* The host's steps.                                                       *)
(***************************************************************************)

\* The stack keeps its shape when its activations keep their ids.
LEMMA StackKept ==
    ASSUME Typed, Stacked, frames # <<>>, UNCHANGED <<phase, nextId, hist>>,
           frames' \in Seq(FrameRecord), Len(frames') = Len(frames),
           \A i \in 1..Len(frames) : frames'[i].id = frames[i].id,
           \A i \in 1..Len(frames) : i > 1 => frames'[i].pc = frames[i].pc
    PROVE  Stacked' /\ frames' # <<>> /\ Outer' = Outer
  <1>1. Len(frames) \in Nat /\ Len(frames) > 0
    BY EmptySeq DEF Typed
  <1>2. frames' # <<>>
    BY <1>1
  <1>3. Outer' = Outer
    BY <1>1 DEF Outer
  <1> QED
    BY <1>1, <1>2, <1>3 DEF Stacked

\* What a change of the innermost activation does to the stack.
LEMMA NewTop ==
    ASSUME Typed, Stacked, frames # <<>>, UNCHANGED <<phase, nextId, hist>>,
           NEW g \in FrameRecord, g.id = Top.id, frames' = [frames EXCEPT ![1] = g]
    PROVE  /\ frames' \in Seq(FrameRecord)
           /\ frames' # <<>>
           /\ Len(frames') = Len(frames)
           /\ Top' = g
           /\ \A i \in 1..Len(frames) : i > 1 => frames'[i] = frames[i]
           /\ Stacked'
           /\ Outer' = Outer
           /\ g.answer = Top.answer => (Unanswered' <=> Unanswered)
  <1>1. Len(frames) \in Nat /\ Len(frames) > 0
    BY EmptySeq DEF Typed
  <1>2. /\ frames' \in Seq(FrameRecord)
        /\ Len(frames') = Len(frames)
        /\ frames'[1] = g
        /\ \A i \in 1..Len(frames) : i > 1 => frames'[i] = frames[i]
    BY TopChanged DEF Typed
  <1>3. \A i \in 1..Len(frames) : frames'[i].id = frames[i].id
    BY <1>1, <1>2 DEF Top
  <1>4. Stacked' /\ frames' # <<>> /\ Outer' = Outer
    BY <1>2, <1>3, StackKept
  <1>5. g.answer = Top.answer => (Unanswered' <=> Unanswered)
    BY <1>1, <1>2 DEF Unanswered, Top
  <1> QED
    BY <1>2, <1>4, <1>5 DEF Top

\* What its move to another place of request() does.
LEMMA GoToFrames ==
    ASSUME Typed, Stacked, frames # <<>>, UNCHANGED <<phase, nextId, hist>>,
           NEW pc \in {"receive", "check", "serve", "notify"}, GoTo(pc)
    PROVE  /\ frames' \in Seq(FrameRecord)
           /\ frames' # <<>>
           /\ Len(frames') = Len(frames)
           /\ \A i \in 1..Len(frames) : i > 1 => frames'[i] = frames[i]
           /\ Top'.pc = pc /\ Top'.serving = Top.serving /\ Top'.answer = Top.answer /\ Top'.id = Top.id
           /\ Stacked'
           /\ Outer' = Outer
           /\ Unanswered' <=> Unanswered
  <1>1. Top \in FrameRecord
    BY EmptySeq DEF Typed, Top
  <1> DEFINE g == [Top EXCEPT !.pc = pc]
  <1>2. g \in FrameRecord /\ g.id = Top.id /\ g.answer = Top.answer /\ g.serving = Top.serving /\ g.pc = pc
    BY <1>1 DEF FrameRecord
  <1>3. frames' = [frames EXCEPT ![1] = g]
    BY DEF GoTo, Top
  <1> HIDE DEF g
  <1> QED
    BY <1>2, <1>3, NewTop

\* What the end of the innermost activation does.
LEMMA StackPopped ==
    ASSUME Typed, Stacked, frames # <<>>, frames' = Tail(frames), UNCHANGED <<phase, nextId>>,
           hist'.nested = hist.nested
    PROVE  /\ frames' \in Seq(FrameRecord)
           /\ Len(frames') = Len(frames) - 1
           /\ Len(frames) = 1 => frames' = <<>>
           /\ Stacked'
           /\ Unanswered => Unanswered'
  <1>1. Len(frames) \in Nat /\ Len(frames) > 0
    BY EmptySeq DEF Typed
  <1>2. /\ frames' \in Seq(FrameRecord)
        /\ Len(frames') = Len(frames) - 1
        /\ \A i \in 1..Len(frames') : frames'[i] = frames[i + 1]
        /\ Len(frames) = 1 => frames' = <<>>
    BY Popped DEF Typed
  <1>3. Stacked'
    BY <1>1, <1>2 DEF Stacked
  <1>4. Unanswered => Unanswered'
    BY <1>1, <1>2 DEF Unanswered
  <1> QED
    BY <1>2, <1>3, <1>4

\* The host goes on to its deadline.
LEMMA ReceiveNothingInv == IndInv /\ ReceiveNothing => IndInv'
  <1> SUFFICES ASSUME IndInv, ReceiveNothing PROVE IndInv'
    OBVIOUS
  <1>1. /\ frames # <<>> /\ Len(frames) \in Nat /\ Len(frames) > 0
        /\ Top.pc = "receive"
    BY EmptySeq DEF IndInv, Typed, ReceiveNothing, HostIn
  <1>2. /\ frames' \in Seq(FrameRecord)
        /\ frames' # <<>>
        /\ Len(frames') = Len(frames)
        /\ \A i \in 1..Len(frames) : i > 1 => frames'[i] = frames[i]
        /\ Top'.pc = "check" /\ Top'.serving = Top.serving /\ Top'.answer = Top.answer /\ Top'.id = Top.id
        /\ Stacked' /\ Outer' = Outer /\ (Unanswered' <=> Unanswered)
    BY <1>1, GoToFrames DEF IndInv, ReceiveNothing
  <1>3. Typed'
    BY <1>2 DEF IndInv, Typed, ReceiveNothing
  <1>4. Closed' /\ OwnAnswer' /\ InStep' /\ Unopened'
    BY <1>2 DEF IndInv, Closed, OwnAnswer, InStep, Unopened, WorkerIn, ReceiveNothing
  <1>5. Turns'
    <2>1. Top.id > 0 /\ Top.answer = NoAnswer
      BY <1>1 DEF IndInv, Stacked, Top, ReceiveNothing
    <2> QED
      BY <1>1, <1>2, <2>1 DEF NoAnswer, IndInv, Typed, Turns, ReceiveNothing, Incoming, WorkerIn,
          RequestSent, CodeRuns, BindingAsked, BindingServed, BindingAnswered, NestedSent,
          ResponseSent, Returning, HostWaits, WorkerWaits, Silence, Top
  <1> QED
    BY <1>2, <1>3, <1>4, <1>5 DEF IndInv

\* The signal changes, so that a Worker that noted the old one wakes up.
LEMMA NotifyWorkerInv == IndInv /\ NotifyWorker => IndInv'
  <1> SUFFICES ASSUME IndInv, NotifyWorker PROVE IndInv'
    OBVIOUS
  <1>1. /\ frames # <<>> /\ Len(frames) \in Nat /\ Len(frames) > 0
        /\ Top.pc = "notify"
    BY EmptySeq DEF IndInv, Typed, NotifyWorker, HostIn
  <1>2. /\ frames' \in Seq(FrameRecord)
        /\ frames' # <<>>
        /\ Len(frames') = Len(frames)
        /\ \A i \in 1..Len(frames) : i > 1 => frames'[i] = frames[i]
        /\ Top'.pc = "receive" /\ Top'.serving = Top.serving /\ Top'.answer = Top.answer /\ Top'.id = Top.id
        /\ Stacked' /\ Outer' = Outer /\ (Unanswered' <=> Unanswered)
    BY <1>1, GoToFrames DEF IndInv, NotifyWorker
  <1>3. Typed'
    BY <1>2 DEF IndInv, Typed, NotifyWorker, WorkerRecord
  <1>4. Closed' /\ OwnAnswer' /\ InStep' /\ Unopened'
    BY <1>2 DEF IndInv, Closed, OwnAnswer, InStep, Unopened, WorkerIn, NotifyWorker
  <1>5. Turns'
    BY <1>1, <1>2 DEF IndInv, Typed, Turns, NotifyWorker, Incoming, WorkerIn,
          RequestSent, CodeRuns, BindingAsked, BindingServed, BindingAnswered, NestedSent,
          ResponseSent, Returning, HostWaits, WorkerWaits, Silence, Top
  <1> QED
    BY <1>2, <1>3, <1>4, <1>5 DEF IndInv

\* The host looks again.
LEMMA BeforeDeadlineInv == IndInv /\ BeforeDeadline => IndInv'
  <1> SUFFICES ASSUME IndInv, BeforeDeadline PROVE IndInv'
    OBVIOUS
  <1>1. /\ frames # <<>> /\ Len(frames) \in Nat /\ Len(frames) > 0
        /\ Top.pc = "check"
    BY EmptySeq DEF IndInv, Typed, BeforeDeadline, HostIn
  <1>2. /\ frames' \in Seq(FrameRecord)
        /\ frames' # <<>>
        /\ Len(frames') = Len(frames)
        /\ \A i \in 1..Len(frames) : i > 1 => frames'[i] = frames[i]
        /\ Top'.pc = "receive" /\ Top'.serving = Top.serving /\ Top'.answer = Top.answer /\ Top'.id = Top.id
        /\ Stacked' /\ Outer' = Outer /\ (Unanswered' <=> Unanswered)
    BY <1>1, GoToFrames DEF IndInv, BeforeDeadline
  <1>3. Typed'
    BY <1>2 DEF IndInv, Typed, BeforeDeadline
  <1>4. Closed' /\ OwnAnswer' /\ InStep' /\ Unopened'
    BY <1>2 DEF IndInv, Closed, OwnAnswer, InStep, Unopened, WorkerIn, BeforeDeadline
  <1>5. Turns'
    BY <1>1, <1>2, SMTT(30) DEF IndInv, Typed, Turns, BeforeDeadline, Incoming, WorkerIn,
          RequestSent, CodeRuns, BindingAsked, BindingServed, BindingAnswered, NestedSent,
          ResponseSent, Returning, HostWaits, WorkerWaits, Silence, Top
  <1> QED
    BY <1>2, <1>3, <1>4, <1>5 DEF IndInv

\* The evaluator is closed with the innermost request unanswered.
LEMMA TimedOutInv == IndInv /\ TimedOut => IndInv'
  <1> SUFFICES ASSUME IndInv, TimedOut PROVE IndInv'
    OBVIOUS
  <1>1. /\ frames # <<>> /\ Len(frames) \in Nat /\ Len(frames) > 0
        /\ Top.pc = "check" /\ phase = "open"
    BY EmptySeq DEF IndInv, Typed, Stacked, TimedOut, HostIn
  <1>2. frames' \in Seq(FrameRecord) /\ Stacked' /\ (Unanswered => Unanswered')
    BY <1>1, StackPopped DEF IndInv, TimedOut
  <1>3. Typed'
    BY <1>2 DEF IndInv, Typed, TimedOut
  <1>4. \/ closed' = "timeout"
        \/ closed # "no" /\ closed' = closed
    BY DEF TimedOut
  <1>5. OwnAnswer' /\ InStep' /\ Unopened'
    BY <1>1, <1>4 DEF IndInv, OwnAnswer, InStep, Unopened, WorkerIn, TimedOut
  <1>6. ~hist.left => Unanswered
    BY <1>1 DEF IndInv, Turns, Closed, Returning
  <1>7. Turns' /\ Closed'
    BY <1>2, <1>4, <1>6 DEF Turns, Closed, TimedOut
  <1> QED
    BY <1>2, <1>3, <1>5, <1>7 DEF IndInv

\* The response is for the outermost request, so there is a nested one.
LEMMA ReceiveDesynchronizedInv == IndInv /\ ReceiveDesynchronized => IndInv'
  <1> SUFFICES ASSUME IndInv, ReceiveDesynchronized PROVE IndInv'
    OBVIOUS
  <1>1. /\ frames # <<>> /\ Len(frames) \in Nat /\ Len(frames) > 0
        /\ Top.pc = "receive" /\ phase = "open"
    BY EmptySeq DEF IndInv, Typed, Stacked, ReceiveDesynchronized, HostIn
  <1>2. frames' \in Seq(FrameRecord) /\ Stacked' /\ (Unanswered => Unanswered')
    BY <1>1, StackPopped DEF IndInv, ReceiveDesynchronized
  <1>3. closed = "no" /\ toHost # <<>> /\ Head(toHost) = toHost[1] /\ toHost' \in Seq(Message)
    BY Popped DEF IndInv, Typed, ReceiveDesynchronized, Incoming
  <1>4. Typed'
    BY <1>2, <1>3 DEF IndInv, Typed, ReceiveDesynchronized
  <1>5. OwnAnswer' /\ Unopened'
    BY <1>1 DEF IndInv, OwnAnswer, Unopened, WorkerIn, ReceiveDesynchronized
  <1>6. ~hist.left => Unanswered /\ toHost[1] = ResponseMessage(Outer, Outer)
    BY <1>1, <1>3 DEF IndInv, Turns, ReceiveDesynchronized, Incoming, HostMessage, WorkerIn,
          RequestSent, CodeRuns, BindingAsked, BindingServed, BindingAnswered, NestedSent,
          ResponseSent, Returning, WorkerWaits, Silence
  <1>7. InStep'
    <2>1. ~hist.nested => Len(frames) = 1
      <3>1. \A n \in Nat : n > 0 => n > 1 \/ n = 1
        OBVIOUS
      <3> QED
        BY <1>1, <3>1 DEF IndInv, Stacked
    <2>2. Len(frames) = 1 => Outer = Top.id
      BY DEF Outer, Top
    <2>3. ~hist.nested => hist.left
      BY <1>3, <1>6, <2>1, <2>2 DEF ReceiveDesynchronized, Incoming, ResponseMessage
    <2> QED
      BY <2>3 DEF InStep, ReceiveDesynchronized
  <1>8. Turns' /\ Closed'
    BY <1>2, <1>6 DEF Turns, Closed, ReceiveDesynchronized
  <1> QED
    BY <1>2, <1>4, <1>5, <1>7, <1>8 DEF IndInv

\* Only the outermost request has an answer, and it is its own.
LEMMA RequestReturnsInv == IndInv /\ RequestReturns => IndInv'
  <1> SUFFICES ASSUME IndInv, RequestReturns PROVE IndInv'
    OBVIOUS
  <1>1. /\ frames # <<>> /\ Len(frames) \in Nat /\ Len(frames) > 0
        /\ Top.pc = "receive" /\ phase = "open"
    BY EmptySeq DEF IndInv, Typed, Stacked, RequestReturns, HostIn
  <1>2. hist' \in [foreign : SUBSET Nat, nested : BOOLEAN, left : BOOLEAN] /\ hist'.nested = hist.nested /\ hist'.left = hist.left
    <2>1. Top \in FrameRecord /\ Top.id \in Nat
      <3>1. Top \in FrameRecord
        BY <1>1, ElementOfSeq DEF IndInv, Typed, Top
      <3> QED
        BY <3>1 DEF FrameRecord
    <2> QED
      BY <2>1 DEF IndInv, Typed, RequestReturns
  <1>3. /\ frames' \in Seq(FrameRecord) /\ Stacked' /\ (Unanswered => Unanswered')
        /\ Len(frames) = 1 => frames' = <<>>
    BY <1>1, <1>2, StackPopped DEF IndInv, RequestReturns
  <1>4. Typed'
    BY <1>2, <1>3 DEF IndInv, Typed, RequestReturns
  <1>5. ~Unanswered
    BY <1>1 DEF RequestReturns, Unanswered, Top
  <1>6. ~hist.left => closed = "no" /\ Returning
    BY <1>1, <1>5 DEF IndInv, Turns, Closed
  <1>7. InStep' /\ Unopened'
    BY <1>1, <1>2 DEF IndInv, InStep, Unopened, WorkerIn, RequestReturns
  <1>8. OwnAnswer'
    BY <1>2, <1>6 DEF IndInv, Typed, OwnAnswer, Returning, RequestReturns
  <1>9. Turns' /\ Closed'
    BY <1>2, <1>3, <1>6 DEF Turns, Closed, Returning, Silence, WorkerIn, RequestReturns
  <1> QED
    BY <1>3, <1>4, <1>7, <1>8, <1>9 DEF IndInv

\* The answer to the binding access carries the turn to the Worker.
LEMMA PostHostResponseInv == IndInv /\ PostHostResponse => IndInv'
  <1> SUFFICES ASSUME IndInv, PostHostResponse PROVE IndInv'
    OBVIOUS
  <1>1. /\ frames # <<>> /\ Len(frames) \in Nat /\ Len(frames) > 0
        /\ Top.pc = "serve" /\ phase = "open"
    BY EmptySeq DEF IndInv, Typed, Stacked, PostHostResponse, HostIn
  <1>2. /\ frames' \in Seq(FrameRecord)
        /\ frames' # <<>>
        /\ Len(frames') = Len(frames)
        /\ Top'.pc = "notify" /\ Top'.serving = Top.serving /\ Top'.answer = Top.answer /\ Top'.id = Top.id
        /\ Stacked' /\ Outer' = Outer /\ (Unanswered' <=> Unanswered)
    BY <1>1, GoToFrames DEF IndInv, PostHostResponse
  <1>3. HostResponse(Top.serving) \in Message
    <2>1. Top \in FrameRecord
      BY <1>1, ElementOfSeq DEF IndInv, Typed, Top
    <2> QED
      BY <2>1 DEF Message, HostResponse, FrameRecord
  <1>4. Typed'
    BY <1>2, <1>3, Posted DEF IndInv, Typed, PostHostResponse, HostSends
  <1>5. Closed' /\ OwnAnswer' /\ InStep' /\ Unopened'
    BY <1>1, <1>2 DEF IndInv, Closed, OwnAnswer, InStep, Unopened, WorkerIn, PostHostResponse
  <1>6. Turns'
    <2> SUFFICES ASSUME phase = "open", closed = "no", ~hist.left PROVE Turns'
      BY DEF Turns, PostHostResponse
    <2>1. BindingServed /\ Unanswered
      BY <1>1 DEF IndInv, Turns, RequestSent, CodeRuns, BindingAsked, BindingAnswered, NestedSent,
            ResponseSent, Returning, HostWaits
    <2>2. Len(toWorker') = 1 /\ toHost' = <<>>
      BY <1>3, <2>1, Posted DEF IndInv, Typed, BindingServed, Silence, PostHostResponse, HostSends
    <2>3. BindingAnswered'
      BY <1>2, <2>1, <2>2 DEF BindingServed, BindingAnswered, WorkerWaits, WorkerIn, HostWaits, PostHostResponse
    <2> QED
      BY <1>1, <1>2, <2>1, <2>3 DEF IndInv, Turns, Returning, BindingServed, WorkerWaits, WorkerIn, PostHostResponse
  <1> QED
    BY <1>2, <1>4, <1>5, <1>6 DEF IndInv

\* The host has the turn, for the binding that the Worker asked for.
LEMMA ReceiveHostRequestInv == IndInv /\ ReceiveHostRequest => IndInv'
  <1> SUFFICES ASSUME IndInv, ReceiveHostRequest PROVE IndInv'
    OBVIOUS
  <1>1. /\ frames # <<>> /\ Len(frames) \in Nat /\ Len(frames) > 0
        /\ Top.pc = "receive" /\ phase = "open"
    BY EmptySeq DEF IndInv, Typed, Stacked, ReceiveHostRequest, HostIn
  <1>2. /\ closed = "no" /\ toHost # <<>> /\ Head(toHost) = toHost[1] /\ Head(toHost) \in Message
        /\ toHost' \in Seq(Message) /\ (Len(toHost) = 1 => toHost' = <<>>)
    BY Popped DEF IndInv, Typed, ReceiveHostRequest, Incoming
  <1>3. Top \in FrameRecord
    BY <1>1, ElementOfSeq DEF IndInv, Typed, Top
  <1> DEFINE g == [Top EXCEPT !.pc = "serve", !.serving = toHost[1].id]
  <1>4. g \in FrameRecord /\ g.id = Top.id /\ g.answer = Top.answer /\ g.serving = toHost[1].id /\ g.pc = "serve"
    BY <1>2, <1>3 DEF FrameRecord, Message
  <1>5. frames' = [frames EXCEPT ![1] = g]
    BY <1>1, <1>2 DEF ReceiveHostRequest, Incoming, Top, IndInv, Typed
  <1> HIDE DEF g
  <1>6. /\ frames' \in Seq(FrameRecord)
        /\ frames' # <<>>
        /\ Len(frames') = Len(frames)
        /\ Top' = g
        /\ Stacked' /\ Outer' = Outer /\ (Unanswered' <=> Unanswered)
    BY <1>1, <1>4, <1>5, NewTop DEF IndInv, ReceiveHostRequest
  <1>7. Typed'
    BY <1>2, <1>6 DEF IndInv, Typed, ReceiveHostRequest
  <1>8. Closed' /\ OwnAnswer' /\ InStep' /\ Unopened'
    BY <1>1, <1>6 DEF IndInv, Closed, OwnAnswer, InStep, Unopened, WorkerIn, ReceiveHostRequest
  <1>9. Turns'
    <2> SUFFICES ASSUME phase = "open", closed = "no", ~hist.left PROVE Turns'
      BY DEF Turns, ReceiveHostRequest
    <2>1. BindingAsked /\ Unanswered
      BY <1>1, <1>2 DEF IndInv, Turns, RequestSent, CodeRuns, BindingServed, BindingAnswered, NestedSent,
            ResponseSent, Returning, Silence, ResponseMessage, ReceiveHostRequest, Incoming
    <2>2. toHost[1].id = worker.waitingFor
      BY <2>1 DEF BindingAsked, HostMessage
    <2>3. BindingServed'
      BY <1>2, <1>4, <1>6, <2>1, <2>2 DEF BindingServed, BindingAsked, WorkerWaits, WorkerIn, Silence, ReceiveHostRequest
    <2> QED
      BY <1>1, <1>6, <2>1, <2>3 DEF IndInv, Turns, Returning, BindingAsked, WorkerWaits, WorkerIn, ReceiveHostRequest
  <1> QED
    BY <1>6, <1>7, <1>8, <1>9 DEF IndInv

\* The response has the id of the outermost request, so that one is the innermost too.
LEMMA ReceiveResponseInv == IndInv /\ ReceiveResponse => IndInv'
  <1> SUFFICES ASSUME IndInv, ReceiveResponse PROVE IndInv'
    OBVIOUS
  <1>1. /\ frames # <<>> /\ Len(frames) \in Nat /\ Len(frames) > 0
        /\ Top.pc = "receive" /\ phase = "open"
    BY EmptySeq DEF IndInv, Typed, Stacked, ReceiveResponse, HostIn
  <1>2. /\ closed = "no" /\ toHost # <<>> /\ Head(toHost) = toHost[1] /\ Head(toHost) \in Message
        /\ toHost' \in Seq(Message) /\ (Len(toHost) = 1 => toHost' = <<>>)
    BY Popped DEF IndInv, Typed, ReceiveResponse, Incoming
  <1>3. Top \in FrameRecord
    BY <1>1, ElementOfSeq DEF IndInv, Typed, Top
  <1> DEFINE g == [Top EXCEPT !.answer = toHost[1].of]
  <1>4. g \in FrameRecord /\ g.id = Top.id /\ g.answer = toHost[1].of /\ g.pc = Top.pc
    BY <1>2, <1>3, SMTT(40) DEF FrameRecord, Message
  <1>5. frames' = [frames EXCEPT ![1] = g]
    BY <1>1, <1>2 DEF ReceiveResponse, Incoming, Top
  <1> HIDE DEF g
  <1>6. /\ frames' \in Seq(FrameRecord)
        /\ frames' # <<>>
        /\ Len(frames') = Len(frames)
        /\ Top' = g
        /\ Stacked' /\ Outer' = Outer
    BY <1>1, <1>4, <1>5, NewTop DEF IndInv, ReceiveResponse
  <1>7. Typed'
    BY <1>2, <1>6 DEF IndInv, Typed, ReceiveResponse
  <1>8. Closed' /\ OwnAnswer' /\ InStep' /\ Unopened'
    BY <1>1, <1>2 DEF IndInv, Closed, OwnAnswer, InStep, Unopened, WorkerIn, ReceiveResponse
  <1>9. Turns'
    <2> SUFFICES ASSUME phase = "open", closed = "no", ~hist.left PROVE Turns'
      BY DEF Turns, ReceiveResponse
    <2>1. ResponseSent
      BY <1>1, <1>2 DEF IndInv, Turns, RequestSent, CodeRuns, BindingAsked, BindingServed, BindingAnswered, NestedSent,
            Returning, Silence, HostMessage, ReceiveResponse, Incoming
    <2>2. toHost[1].of = Outer /\ Outer = Top.id
      BY <1>2, <2>1 DEF ResponseSent, ResponseMessage, ReceiveResponse, Incoming
    <2>3. Len(frames) = 1
      <3>1. \A n \in Nat : n > 0 => 1 \in 1..n /\ (1 < n \/ n = 1)
        OBVIOUS
      <3> QED
        BY <1>1, <2>2, <3>1 DEF IndInv, Stacked, Outer, Top
    <2>4. Returning'
      BY <1>1, <1>2, <1>4, <1>6, <2>1, <2>2, <2>3 DEF Returning, ResponseSent, WorkerIn, Silence, ReceiveResponse
    <2> QED
      BY <1>6, <2>4 DEF Turns
  <1> QED
    BY <1>6, <1>7, <1>8, <1>9 DEF IndInv

\* Time passes: nothing else changes.
LEMMA DeadlineInv ==
    ASSUME NEW k \in 1..MaxRequests, IndInv, Deadline(k)
    PROVE  IndInv'
  <1>1. /\ frames # <<>> /\ Len(frames) \in Nat /\ Len(frames) > 0
        /\ k \in 1..Len(frames) /\ frames[k] \in FrameRecord
    BY EmptySeq, LenProperties, ElementOfSeq DEF IndInv, Typed, Deadline
  <1> DEFINE g == [frames[k] EXCEPT !.expired = TRUE]
  <1>2. g \in FrameRecord /\ g.id = frames[k].id /\ g.answer = frames[k].answer
        /\ g.pc = frames[k].pc /\ g.serving = frames[k].serving
    BY <1>1 DEF FrameRecord
  <1>3. frames' = [frames EXCEPT ![k] = g]
    BY DEF Deadline
  <1> HIDE DEF g
  <1>4. /\ frames' \in Seq(FrameRecord)
        /\ Len(frames') = Len(frames)
        /\ frames'[k] = g
        /\ \A i \in 1..Len(frames) : i # k => frames'[i] = frames[i]
    BY <1>1, <1>2, <1>3, OneChanged DEF IndInv, Typed
  <1>5. \A i \in 1..Len(frames) : /\ frames'[i].id = frames[i].id
                                  /\ frames'[i].answer = frames[i].answer
                                  /\ frames'[i].pc = frames[i].pc
                                  /\ frames'[i].serving = frames[i].serving
    BY <1>1, <1>2, <1>4
  <1>6. Stacked' /\ frames' # <<>> /\ Outer' = Outer
    BY <1>1, <1>4, <1>5, StackKept DEF IndInv, Deadline
  <1>7. Unanswered' <=> Unanswered
    BY <1>4, <1>5 DEF Unanswered
  <1>8. /\ Top'.id = Top.id /\ Top'.answer = Top.answer /\ Top'.pc = Top.pc /\ Top'.serving = Top.serving
        /\ Len(frames) > 1 => frames'[2].serving = frames[2].serving
    BY <1>1, <1>5 DEF Top, IndInv, Typed
  <1>9. Typed'
    BY <1>4 DEF IndInv, Typed, Deadline
  <1>10. Closed' /\ OwnAnswer' /\ InStep' /\ Unopened'
    BY <1>7 DEF IndInv, Closed, OwnAnswer, InStep, Unopened, WorkerIn, Deadline
  <1>11. Turns'
    BY <1>1, <1>4, <1>6, <1>7, <1>8 DEF IndInv, Turns, Deadline, WorkerIn,
          RequestSent, CodeRuns, BindingAsked, BindingServed, BindingAnswered, NestedSent,
          ResponseSent, Returning, HostWaits, WorkerWaits, Silence
  <1> QED
    BY <1>6, <1>9, <1>10, <1>11 DEF IndInv

\* The evaluator is closed while no request is open.
LEMMA IdleCloseInv == IndInv /\ (WorkerExitEvent \/ Terminate) => IndInv'
  <1> SUFFICES ASSUME IndInv, WorkerExitEvent \/ Terminate PROVE IndInv'
    OBVIOUS
  <1>1. /\ phase = "open" /\ frames = <<>> /\ closed' \in {"exit", "terminated"}
        /\ UNCHANGED <<phase, frames, toWorker, toHost, nextId, worker, hostSignal, nextHostId, hist>>
    BY DEF WorkerExitEvent, Terminate
  <1>2. Unanswered'
    BY <1>1 DEF Unanswered
  <1> QED
    BY <1>1, <1>2 DEF IndInv, Typed, Stacked, Unopened, Turns, Closed, OwnAnswer, InStep, WorkerIn

\* The evaluator opens with an idle Worker and empty ports.
LEMMA ConnectedInv == IndInv /\ Connected => IndInv'
  <1> SUFFICES ASSUME IndInv, Connected PROVE IndInv'
    OBVIOUS
  <1>1. frames = <<>> /\ closed = "no" /\ toWorker = <<>> /\ WorkerIn("idle") /\ Len(toHost) = 1 /\ ~hist.left
    BY DEF IndInv, Stacked, Unopened, Connected
  <1>2. toHost' = <<>>
    BY <1>1, Popped DEF IndInv, Typed, Connected
  <1> QED
    BY <1>1, <1>2 DEF IndInv, Typed, Stacked, Unopened, Turns, Closed, Unanswered, OwnAnswer, InStep,
          WorkerIn, Silence, Connected

\* There will be no evaluator.
LEMMA ConnectFailsInv == IndInv /\ ConnectFails => IndInv'
  <1> SUFFICES ASSUME IndInv, ConnectFails PROVE IndInv'
    OBVIOUS
  <1>1. frames = <<>>
    BY DEF IndInv, Stacked, ConnectFails
  <1> QED
    BY <1>1 DEF IndInv, Typed, Stacked, Unopened, Turns, Closed, Unanswered, OwnAnswer, InStep, WorkerIn, ConnectFails

\* The outermost request carries the turn; a nested one takes the place of the answer.
LEMMA RequestInv == IndInv /\ Request => IndInv'
  <1> SUFFICES ASSUME IndInv, Request PROVE IndInv'
    OBVIOUS
  <1>1. /\ phase = "open" /\ closed = "no" /\ Len(frames) \in Nat /\ nextId \in Nat /\ nextId > 0
        /\ frames \in Seq(FrameRecord)
    BY LenProperties DEF IndInv, Typed, Stacked, Request
  <1>2. Frame(nextId) \in FrameRecord /\ RequestMessage(nextId) \in Message
    BY <1>1 DEF Frame, FrameRecord, NoAnswer, RequestMessage, Message
  <1>3. /\ frames' \in Seq(FrameRecord)
        /\ Len(frames') = Len(frames) + 1
        /\ frames' # <<>>
        /\ frames'[1] = Frame(nextId)
        /\ \A i \in 1..Len(frames') : i > 1 => frames'[i] = frames[i - 1]
    BY <1>1, <1>2, Pushed DEF Request
  <1>4. /\ toWorker' = Append(toWorker, RequestMessage(nextId))
        /\ toWorker' \in Seq(Message)
        /\ toWorker = <<>> => Len(toWorker') = 1 /\ toWorker'[1] = RequestMessage(nextId)
    BY <1>1, <1>2, Posted, EmptySeq DEF IndInv, Typed, Request, HostSends
  <1>5. /\ hist' \in [foreign : SUBSET Nat, nested : BOOLEAN, left : BOOLEAN]
        /\ hist'.left = hist.left /\ hist'.foreign = hist.foreign
        /\ frames # <<>> => hist'.nested
        /\ hist.nested => hist'.nested
    BY DEF IndInv, Typed, Request
  <1>6. Typed'
    <2>1. nextId' \in Nat /\ UNCHANGED <<phase, closed, toHost, worker, hostSignal, nextHostId>>
      BY <1>1 DEF Request
    <2> QED
      BY <1>3, <1>4, <1>5, <2>1 DEF IndInv, Typed
  <1>7. Stacked'
    <2>1. Frame(nextId).id = nextId
      BY DEF Frame
    <2>2. Len(frames') > 1 => hist'.nested
      BY <1>1, <1>3, <1>5, EmptySeq
    <2> DEFINE n == Len(frames)
    <2>a. \A i \in 1..n : /\ frames[i].id \in Nat /\ frames[i].id > 0 /\ frames[i].id < nextId
                          /\ i < n => frames[i].id # frames[n].id
                          /\ i > 1 => frames[i].pc = "serve"
      <3>1. \A i \in 1..n : frames[i] \in FrameRecord
        BY <1>1, ElementOfSeq
      <3> QED
        BY <3>1 DEF IndInv, Stacked, FrameRecord
    <2>b. n > 0 => frames[1].pc = "serve"
      BY <1>1, EmptySeq DEF Request, HostIn, Top
    <2>c. n \in Nat /\ Len(frames') = n + 1
      BY <1>1, <1>3
    <2>d. frames'[1].id = nextId /\ nextId' = nextId + 1
      BY <1>3, <2>1 DEF Request
    <2>e. \A i \in 1..(n + 1) : i > 1 => frames'[i] = frames[i - 1] /\ i - 1 \in 1..n
      BY <1>3, <2>c
    <2> HIDE DEF n
    <2>3. \A i \in 1..Len(frames') : frames'[i].id > 0 /\ frames'[i].id < nextId'
      <3> SUFFICES ASSUME NEW i \in 1..(n + 1) PROVE frames'[i].id > 0 /\ frames'[i].id < nextId'
        BY <2>c
      <3>1. CASE i = 1
        BY <1>1, <2>d, <3>1
      <3>2. CASE i > 1
        BY <1>1, <2>a, <2>d, <2>e, <3>2
      <3> QED
        BY <3>1, <3>2, <2>c
    <2>4. \A i \in 1..Len(frames') : i < Len(frames') => frames'[i].id # frames'[Len(frames')].id
      <3> SUFFICES ASSUME NEW i \in 1..(n + 1), i < n + 1 PROVE frames'[i].id # frames'[n + 1].id
        BY <2>c
      <3>1. n > 0 /\ frames'[n + 1] = frames[n]
        BY <2>c, <2>e
      <3>2. CASE i = 1
        BY <1>1, <2>a, <2>c, <2>d, <3>1, <3>2
      <3>3. CASE i > 1
        <4>1. i - 1 \in 1..n /\ i - 1 < n /\ frames'[i] = frames[i - 1]
          BY <2>c, <2>e, <3>3
        <4> QED
          BY <2>a, <3>1, <4>1
      <3> QED
        BY <3>2, <3>3, <2>c
    <2>5. \A i \in 1..Len(frames') : i > 1 => frames'[i].pc = "serve"
      <3> SUFFICES ASSUME NEW i \in 1..(n + 1), i > 1 PROVE frames'[i].pc = "serve"
        BY <2>c
      <3>1. i - 1 \in 1..n /\ frames'[i] = frames[i - 1] /\ (i - 1 = 1 \/ i - 1 > 1)
        BY <2>c, <2>e
      <3> QED
        BY <2>a, <2>b, <2>c, <3>1
    <2> QED
      BY <1>1, <2>2, <2>3, <2>4, <2>5 DEF Stacked, Request
  <1>8. Unopened' /\ Closed' /\ OwnAnswer' /\ InStep'
    BY <1>1, <1>5 DEF IndInv, Unopened, Closed, OwnAnswer, InStep, WorkerIn, Request
  <1>9. Turns'
    <2> SUFFICES ASSUME ~hist.left PROVE Turns'
      BY <1>5 DEF Turns
    <2>1. Top'.pc = "receive" /\ Top'.answer = NoAnswer /\ Top'.id = nextId
      BY <1>3 DEF Top, Frame
    <2>2. CASE frames = <<>>
      <3>1. WorkerIn("idle") /\ Silence
        BY <1>1, <2>2 DEF IndInv, Turns
      <3>2. Len(frames') = 1 /\ Outer' = nextId /\ Unanswered'
        BY <1>3, <2>1, <2>2, EmptySeq DEF Outer, Unanswered, Top
      <3>3. RequestSent'
        BY <1>4, <2>1, <3>1, <3>2 DEF RequestSent, HostWaits, WorkerIn, Silence, Request
      <3> QED
        BY <1>3, <3>1, <3>2, <3>3 DEF Turns, WorkerIn, Request
    <2>3. CASE frames # <<>>
      <3>1. Top.pc = "serve" /\ Len(frames) > 0
        BY <1>1, <2>3, EmptySeq DEF Request, HostIn
      <3>2. BindingServed /\ Unanswered /\ worker.cur = Outer /\ worker.cur > 0
        BY <1>1, <2>3, <3>1 DEF IndInv, Turns, RequestSent, CodeRuns, BindingAsked, BindingServed,
              BindingAnswered, NestedSent, ResponseSent, Returning, HostWaits, WorkerWaits, WorkerIn
      <3>3. Len(frames') > 1 /\ frames'[2] = Top /\ Outer' = Outer
        BY <1>1, <1>3, <3>1 DEF Outer, Top
      <3>5. Unanswered'
        <4> SUFFICES ASSUME NEW i \in 1..(Len(frames) + 1) PROVE frames'[i].answer = NoAnswer
          BY <1>3 DEF Unanswered
        <4>1. CASE i = 1
          BY <2>1, <4>1 DEF Top
        <4>2. CASE i > 1
          <5>1. i - 1 \in 1..Len(frames) /\ frames'[i] = frames[i - 1]
            BY <1>1, <1>3, <4>2
          <5> QED
            BY <3>2, <5>1 DEF Unanswered
        <4> QED
          BY <1>1, <4>1, <4>2
      <3>4. NestedSent'
        BY <1>4, <2>1, <3>2, <3>3 DEF NestedSent, BindingServed, HostWaits, WorkerWaits, WorkerIn, Silence, Request
      <3> QED
        BY <1>3, <3>2, <3>3, <3>4, <3>5 DEF Turns, WorkerIn, Request
    <2> QED
      BY <2>2, <2>3
  <1> QED
    BY <1>6, <1>7, <1>8, <1>9 DEF IndInv
-----------------------------------------------------------------------------
(***************************************************************************)
(* The theorems.                                                           *)
(***************************************************************************)

\* Every step keeps the inductive invariant.
LEMMA StepInv == IndInv /\ [Next]_vars => IndInv'
  <1> SUFFICES ASSUME IndInv, [Next]_vars PROVE IndInv'
    OBVIOUS
  <1>1. CASE HostStep
    BY <1>1, ConnectedInv, ReceiveNothingInv, ReceiveHostRequestInv, PostHostResponseInv, NotifyWorkerInv,
       ReceiveResponseInv, RequestReturnsInv, ReceiveDesynchronizedInv, BeforeDeadlineInv, TimedOutInv,
       IdleCloseInv
       DEF HostStep
  <1>2. CASE WorkerStep
    BY <1>2, WorkerReadyInv, RunRequestInv, AnswerStrayInv, RunCallbackInv, PostHostRequestInv,
       ReplyNotThereInv, WorkerWakesInv, ReceiveReplyInv, CodeEndsInv, CallbackEndsInv
       DEF WorkerStep
  <1>3. CASE CodeChoice
    BY <1>3, LeaveCallbackInv, CallHostRequestInv, SpinInv DEF CodeChoice
  <1>4. CASE DeadlinePasses
    BY <1>4, DeadlineInv DEF DeadlinePasses
  <1>5. CASE WorkerFails \/ ConnectFails \/ Request \/ Terminate \/ WorkerStops
    BY <1>5, WorkerFailsInv, ConnectFailsInv, RequestInv, IdleCloseInv, WorkerStopsInv
  <1>6. CASE UNCHANGED vars
    BY <1>6 DEF vars, IndInv, Typed, Stacked, Unopened, Turns, Closed, OwnAnswer, InStep, Unanswered,
          RequestSent, CodeRuns, BindingAsked, BindingServed, BindingAnswered, NestedSent,
          ResponseSent, Returning, HostWaits, WorkerWaits, Silence, Outer, Top, WorkerIn
  <1> QED
    BY <1>1, <1>2, <1>3, <1>4, <1>5, <1>6 DEF Next

\* The host has still to answer the Worker that sleeps.
LEMMA SleepInv == IndInv => SleepIsAnswered
  <1> SUFFICES ASSUME IndInv, WorkerIn("sleep"), worker.observed = hostSignal, closed = "no", ~hist.left
               PROVE  /\ frames # <<>>
                      /\ \/ \E i \in DOMAIN toHost : toHost[i] = HostMessage(worker.waitingFor)
                         \/ \E i \in DOMAIN frames : /\ frames[i].pc \in {"serve", "notify"}
                                                     /\ frames[i].serving = worker.waitingFor
    BY DEF SleepIsAnswered
  <1>1. phase = "open"
    BY DEF IndInv, Unopened, WorkerIn
  <1>2. /\ frames # <<>>
        /\ BindingAsked \/ BindingServed \/ BindingAnswered \/ NestedSent
    BY <1>1 DEF IndInv, Turns, WorkerIn, RequestSent, CodeRuns, ResponseSent, Returning
  <1>3. /\ DOMAIN frames = 1..Len(frames) /\ DOMAIN toHost = 1..Len(toHost)
        /\ Len(frames) \in Nat /\ Len(frames) > 0
    BY <1>2, EmptySeq, LenProperties DEF IndInv, Typed
  <1>4. CASE BindingAsked
    BY <1>2, <1>3, <1>4 DEF BindingAsked
  <1>5. CASE BindingServed
    BY <1>2, <1>3, <1>5 DEF BindingServed, Top
  <1>6. CASE BindingAnswered
    BY <1>2, <1>3, <1>6 DEF BindingAnswered, Top
  <1>7. CASE NestedSent
    BY <1>2, <1>3, <1>7 DEF NestedSent, IndInv, Stacked
  <1> QED
    BY <1>2, <1>4, <1>5, <1>6, <1>7

\* The inductive invariant holds throughout.
LEMMA Invariance == Spec => []IndInv
  BY InitInv, StepInv, PTL DEF Spec

\* What request() returns is the result of that very request, however many
\* requests, nested requests and binding accesses there are and whichever
\* deadlines pass, as long as no callback is left behind in the Worker.
THEOREM AnswersAreOwn == Spec => []OwnAnswer
  <1>1. IndInv => OwnAnswer
    BY DEF IndInv
  <1> QED
    BY <1>1, Invariance, PTL

\* Without nested requests and such callbacks, the "lost synchronization"
\* error of request() is never raised.
THEOREM ThreadsKeepStep == Spec => []InStep
  <1>1. IndInv => InStep
    BY DEF IndInv
  <1> QED
    BY <1>1, Invariance, PTL

\* No wake-up of hostRequest() is lost: as long as no callback was left behind,
\* the Worker sleeps on a signal that has not changed only while its message is
\* in the port or is being served.
THEOREM NoLostWakeup == Spec => []SleepIsAnswered
  BY SleepInv, Invariance, PTL

=============================================================================

--------------------------- MODULE MicrotaskQueue ---------------------------
(***************************************************************************)
(* The microtask queue that the compiler emits into standalone and WASI    *)
(* modules (src/codegen/async-scheduler.ts): three parallel WasmGC arrays  *)
(* indexed by __mt_head, __mt_tail and __mt_cap, with the emitted helpers  *)
(* __microtask_grow, __microtask_enqueue and __drain_microtasks.           *)
(*                                                                         *)
(* The buffer is linear, not a ring: draining advances __mt_head and       *)
(* nothing is reclaimed before the next grow, which moves the waiting jobs *)
(* to the front of a new, larger buffer.  The hard cases are therefore a   *)
(* job that enqueues (and grows the buffer) while it is being drained, a   *)
(* job that calls __drain_microtasks itself, and a job that throws through *)
(* the drain loop, which has no handler of its own.                        *)
(*                                                                         *)
(* The three arrays are always written and read at the same index; one     *)
(* element of "slots" stands for the triple.  An array reference that is   *)
(* still null is the function with an empty domain.                        *)
(***************************************************************************)
EXTENDS Integers, Sequences

CONSTANTS
    Task,           \* the jobs: (function, captures, argument) triples
    NoTask,         \* the null that fills a fresh array
    InitialSlots,   \* MICROTASK_QUEUE_INITIAL_SLOTS
    MaxSlots,       \* bound: the engine refuses an array longer than this
    MaxDepth        \* bound: nested activations of __drain_microtasks

ASSUME NoTaskAssumption == NoTask \notin Task
ASSUME InitialSlotsAssumption == InitialSlots \in Nat \ {0}
ASSUME MaxDepthAssumption == MaxDepth \in Nat

VARIABLES
    mt,         \* the queue's globals: [head, tail, cap, slots]
    mode,       \* what is executing: "user" code, the "drain" loop, or "exited"
    depth,      \* activations of __drain_microtasks on the call stack
    started     \* the job that the drain loop called last

vars == <<mt, mode, depth, started>>
-----------------------------------------------------------------------------
(***************************************************************************)
(* The emitted helpers, as functions of the queue's globals.               *)
(***************************************************************************)
NullArray(b) == DOMAIN b.slots = {}

Waiting(b) == b.tail - b.head

\* __microtask_grow, as it would be if it kept the old indices.
GrowKeepingIndices(b, newCap) ==
    [head |-> b.head, tail |-> b.tail, cap |-> newCap,
     slots |-> [i \in 0..(newCap - 1) |->
                  IF i < Waiting(b) THEN b.slots[b.head + i] ELSE NoTask]]

\* __microtask_grow(newCap): a new null-filled buffer, with the waiting jobs
\* moved to its front.  On the first call there is nothing to move.
Grow(b, newCap) ==
    [head |-> 0, tail |-> Waiting(b), cap |-> newCap,
     slots |-> [i \in 0..(newCap - 1) |->
                  IF i < Waiting(b) THEN b.slots[b.head + i] ELSE NoTask]]

Allocated(b) == IF NullArray(b) THEN Grow(b, InitialSlots) ELSE b

\* WithRoom that tests for room one job too late.
WithRoomLate(b) == IF b.tail > b.cap THEN Grow(b, 2 * b.cap) ELSE b

WithRoom(b) == IF b.tail = b.cap THEN Grow(b, 2 * b.cap) ELSE b

\* Room for one more job: the array is created on first use, and doubled
\* when the tail has reached its end (however many jobs are still waiting).
RoomForOne(b) == WithRoom(Allocated(b))

\* The job goes into the slot behind the last waiting job.
Store(b, t) ==
    [head |-> b.head, tail |-> b.tail + 1, cap |-> b.cap,
     slots |-> [b.slots EXCEPT ![b.tail] = t]]
-----------------------------------------------------------------------------
Init ==
    /\ mt = [head |-> 0, tail |-> 0, cap |-> 0, slots |-> [i \in {} |-> NoTask]]
    /\ mode = "user"
    /\ depth = 0
    /\ started = NoTask

\* __microtask_enqueue: by the main program or by a job that is running.
Enqueue(t) ==
    /\ mode = "user"
    /\ RoomForOne(mt).cap <= MaxSlots
    /\ mt' = Store(RoomForOne(mt), t)
    /\ UNCHANGED <<mode, depth, started>>

\* A call of __drain_microtasks: the tail of _start, an embedder that calls
\* the export, or the intrinsic of that name in user code (a job included).
\* It returns at once when the queue was never used.
CallDrain ==
    /\ mode = "user"
    /\ ~NullArray(mt)
    /\ depth < MaxDepth
    /\ mode' = "drain"
    /\ depth' = depth + 1
    /\ UNCHANGED <<mt, started>>

\* DrainStep with the advance of __mt_head left until the job has returned.
DrainStepHeadLate ==
    /\ mode = "drain"
    /\ mt.head # mt.tail
    /\ started' = mt.slots[mt.head]
    /\ mode' = "user"
    /\ UNCHANGED <<mt, depth>>

\* One turn of the drain loop: the globals are read afresh, __mt_head is
\* advanced, and only then is the job called.
DrainStep ==
    /\ mode = "drain"
    /\ mt.head # mt.tail
    /\ started' = mt.slots[mt.head]
    /\ mt' = [mt EXCEPT !.head = mt.head + 1]
    /\ mode' = "user"
    /\ UNCHANGED depth

\* The loop finds the queue empty and returns to whoever called it.
DrainExit ==
    /\ mode = "drain"
    /\ mt.head = mt.tail
    /\ mode' = "user"
    /\ depth' = depth - 1
    /\ UNCHANGED <<mt, started>>

\* A job returns to the drain loop that called it.
JobReturn ==
    /\ mode = "user"
    /\ depth > 0
    /\ mode' = "drain"
    /\ UNCHANGED <<mt, depth, started>>

\* A job throws.  The loop has no handler: the exception unwinds drain
\* activations until some user code, below them on the stack, catches it.
JobThrow ==
    /\ mode = "user"
    /\ depth > 0
    /\ \E d \in 0..(depth - 1) : depth' = d
    /\ UNCHANGED <<mt, mode, started>>

\* A job or the entry function throws and nobody catches it: the handler
\* around _start's body ends the process.
UncaughtThrow ==
    /\ mode = "user"
    /\ mode' = "exited"
    /\ UNCHANGED <<mt, depth, started>>

Next ==
    \/ \E t \in Task : Enqueue(t)
    \/ CallDrain
    \/ DrainStep
    \/ DrainExit
    \/ JobReturn
    \/ JobThrow
    \/ UncaughtThrow

Spec == Init /\ [][Next]_vars

(***************************************************************************)
(* Wasm code that can run does run; a job ends (JobReturn), and whoever    *)
(* owns the queue drains it again once no drain is active: _start's tail,  *)
(* every turn of the run loop, or the embedder.                            *)
(***************************************************************************)
Fairness ==
    /\ WF_vars(DrainStep)
    /\ WF_vars(DrainExit)
    /\ WF_vars(JobReturn)
    /\ WF_vars(depth = 0 /\ CallDrain)

FairSpec == Spec /\ Fairness
-----------------------------------------------------------------------------
(***************************************************************************)
(* Properties.                                                             *)
(***************************************************************************)

\* A buffer whose indices are ordered and inside its array.
WellFormed(b) ==
    /\ b = [head |-> b.head, tail |-> b.tail, cap |-> b.cap, slots |-> b.slots]
    /\ b.head \in Nat /\ b.tail \in Nat /\ b.cap \in Nat
    /\ b.head <= b.tail
    /\ b.tail <= b.cap
    /\ b.slots \in [0..(b.cap - 1) -> Task \cup {NoTask}]

\* The jobs that wait in a buffer are jobs.
HoldsJobs(b) == \A i \in b.head..(b.tail - 1) : b.slots[i] \in Task

\* The globals keep their shape: __mt_head <= __mt_tail <= __mt_cap, and
\* __microtask_enqueue and __drain_microtasks stay inside the arrays.  A
\* drain loop runs only while an activation of it is on the call stack.
TypeOK ==
    /\ WellFormed(mt)
    /\ mode \in {"user", "drain", "exited"}
    /\ depth \in Nat
    /\ mode = "drain" => depth > 0
    /\ started \in Task \cup {NoTask}

\* Every slot between __mt_head and __mt_tail holds a job, so the drain
\* loop's call_ref never meets the null of a fresh array: a grow in the
\* middle of a drain moves all of the waiting jobs and nothing else.
LiveSlotsHoldJobs == HoldsJobs(mt)

\* The jobs waiting in a buffer, oldest first.
Jobs(b) == [i \in 1..(b.tail - b.head) |-> b.slots[b.head + i - 1]]

Fifo == INSTANCE MicrotaskFifo WITH queue <- Jobs(mt)

\* The array queue implements the FIFO queue: whatever the interleaving of
\* enqueues, grows, nested drains and throws, jobs are started in the order
\* in which they were enqueued, none is lost and none is started twice.
ImplementsFifo == Fifo!FifoSpec

\* Every job that was enqueued is eventually started, unless an uncaught
\* throw ends the process first: a throw out of a drain, a nested drain and
\* a grow never strand the jobs behind them.  (The bound MaxSlots ends every
\* chain of jobs that enqueue jobs.)
EventuallyDrained == []<>(mt.head = mt.tail \/ mode = "exited")
=============================================================================

--------------------------- MODULE MicrotaskFifo ---------------------------
(***************************************************************************)
(* What the microtask queue of src/codegen/async-scheduler.ts promises to  *)
(* its users (promise reactions, queueMicrotask, the run loop): a first-in *)
(* first-out queue of jobs, each of which is started exactly once.  How    *)
(* the queue is laid out in growable WasmGC arrays is MicrotaskQueue's     *)
(* concern; that module is shown to implement this one.                    *)
(***************************************************************************)
EXTENDS Sequences

CONSTANTS
    Task,       \* the jobs: (function, captures, argument) triples
    NoTask      \* "no job has been started yet"

VARIABLES
    queue,      \* the jobs that are waiting, oldest first
    started     \* the job that was started last

fifoVars == <<queue, started>>

FifoInit ==
    /\ queue = <<>>
    /\ started = NoTask

\* A job joins the back of the queue.
Put(t) ==
    /\ queue' = Append(queue, t)
    /\ UNCHANGED started

\* The oldest job leaves the queue and is started.
Take ==
    /\ queue # <<>>
    /\ started' = Head(queue)
    /\ queue' = Tail(queue)

FifoNext == (\E t \in Task : Put(t)) \/ Take

FifoSpec == FifoInit /\ [][FifoNext]_fifoVars
=============================================================================

---------------------------- MODULE StdinReactor ----------------------------
(***************************************************************************)
(* process.stdin of WASI modules: the fd-readiness variant of the event    *)
(* loop (buildRunLoopBodyWithFdReactor, __rl_stdin_drain and               *)
(* __rl_poll_fd0_or_clock of src/codegen/async-scheduler.ts) and the       *)
(* Readable stream on top of it (__Js2wasmReadable of                      *)
(* src/process-stdin-prelude.ts).                                          *)
(*                                                                         *)
(* A peer writes the bytes 1, 2, 3, ... into the pipe behind fd 0 and may  *)
(* close it.  The loop moves them into a buffer of Cap bytes, and the      *)
(* stream's pump, called once per turn, moves them into the stream's own   *)
(* buffer and calls the program's listeners.  A listener may call any      *)
(* method of the stream, resume() running the pump inside the pump: the    *)
(* calls in progress are a stack, innermost first.                         *)
(*                                                                         *)
(* Of the timer table and the microtask queue (TimerLoop, MicrotaskQueue)  *)
(* only the numbers of pending timers and jobs are kept; when a timer is   *)
(* due is left open.                                                       *)
(***************************************************************************)
EXTENDS Integers, Sequences

CONSTANTS
    Cap,            \* RL_STDIN_BUF_CAP
    Sizes,          \* sizes that the program passes to read(size)
    All,            \* read() without a size
    MaxBytes,       \* bound: bytes that the peer writes
    MaxCalls,       \* bound: calls that the program makes
    MaxTimers,      \* bound: timers pending at a time
    MaxListeners    \* bound: listeners of one event

ASSUME CapAssumption == Cap \in Nat \ {0}
ASSUME SizesAssumption == Sizes \subseteq Nat /\ All \notin Nat
ASSUME BoundsAssumption == {MaxBytes, MaxCalls, MaxTimers, MaxListeners} \subseteq Nat

Events == {"data", "end", "readable", "close"}

VARIABLES
    written,    \* bytes that the peer has written
    closed,     \* the peer has closed its end
    taken,      \* bytes that fd_read has returned
    fdActive,   \* __stdin_fd_active
    sbuf,       \* the reactor's buffer, up to __stdin_buf_len
    pos,        \* __stdin_buf_pos
    buf,        \* the stream's buf[head..tail)
    flag,       \* the stream's Boolean fields
    listeners,  \* the number of listeners of each event
    phase,      \* where _start is
    stack,      \* the calls in progress, innermost first
    timers,     \* timers pending
    jobs,       \* microtasks waiting
    calls,      \* calls made, for the bound
    out,        \* history: the bytes that left the stream
    heard       \* history: the bytes that each data listener was given

peer == <<written, closed>>
reactor == <<taken, fdActive, sbuf, pos>>
stream == <<buf, flag, listeners>>
loop == <<phase, timers, jobs>>
history == <<out, heard>>
vars == <<peer, reactor, stream, loop, stack, calls, history>>
-----------------------------------------------------------------------------
\* A call of the program's code: its entry function, a job, a timer
\* callback or a listener.
Code(ev) == [fn |-> "code", ev |-> ev]

\* An activation of pump(): what it is about to do, the index of its current
\* loop over listeners, its local atEof and the chunk it is emitting.
Pump(at, eof) == [fn |-> "pump", at |-> at, i |-> 0, eof |-> eof, chunk |-> <<>>]

\* An activation of destroy(), calling the close listeners.
Destroying == [fn |-> "destroy", i |-> 0]

Running(fn) == stack # <<>> /\ Head(stack).fn = fn

\* The program calls the stream, or something else that the loop knows of.
ProgramCalls ==
    /\ Running("code")
    /\ calls < MaxCalls
    /\ calls' = calls + 1
    /\ UNCHANGED peer

\* The innermost call goes on at another place, or calls another one.
Goes(top) == stack' = <<top>> \o Tail(stack)
Calls(callee, top) == stack' = <<callee, top>> \o Tail(stack)
Ends == stack' = Tail(stack)

Readable == taken < written \/ closed
Unread == SubSeq(sbuf, pos + 1, Len(sbuf))

\* __wasiStdinEof.
Eof == ~fdActive /\ pos >= Len(sbuf)
-----------------------------------------------------------------------------
Init ==
    /\ written = 0 /\ closed = FALSE
    /\ taken = 0 /\ fdActive = TRUE /\ sbuf = <<>> /\ pos = 0
    /\ buf = <<>>
    /\ flag = [flowing |-> FALSE, paused |-> FALSE, ended |-> FALSE, armed |-> FALSE,
               eofReadableFired |-> FALSE, destroyed |-> FALSE]
    /\ listeners = [ev \in Events |-> 0]
    /\ phase = "main" /\ stack = <<Code("main")>>
    /\ timers = 0 /\ jobs = 0 /\ calls = 0
    /\ out = <<>> /\ heard = <<>>

PeerWrites ==
    /\ ~closed
    /\ written < MaxBytes
    /\ written' = written + 1
    /\ UNCHANGED <<closed, reactor, stream, loop, stack, calls, history>>

PeerCloses ==
    /\ ~closed
    /\ closed' = TRUE
    /\ UNCHANGED <<written, reactor, stream, loop, stack, calls, history>>
-----------------------------------------------------------------------------
(***************************************************************************)
(* The methods of the stream.                                              *)
(***************************************************************************)

\* pump(), called with the flags f, up to its first listener.  Draining
\* leaves nothing unread, so atEof is that the descriptor is inactive.
PumpCall(f, below) ==
    \/ /\ f.destroyed
       /\ flag' = f
       /\ stack' = below
       /\ UNCHANGED <<pos, buf>>
    \/ /\ ~f.destroyed
       /\ pos' = Len(sbuf)
       /\ buf' = buf \o Unread
       /\ LET eofFlush == ~fdActive /\ ~f.eofReadableFired /\ buf' # <<>>
              announce == Unread # <<>> \/ eofFlush
          IN  /\ flag' = [f EXCEPT !.eofReadableFired = @ \/ eofFlush]
              /\ stack' = <<Pump(IF announce THEN "readable" ELSE "flow", ~fdActive)>> \o below

\* A loop over the listeners of an event, whose bound is read at every turn:
\* the next listener is called, or the loop is over.
NextListener(ev) ==
    /\ Head(stack).i < listeners[ev]
    /\ Calls(Code(ev), [Head(stack) EXCEPT !.i = @ + 1])
NoListener(ev) == Head(stack).i >= listeners[ev]

\* pump() at a place of its own.
InPump(at) ==
    /\ Running("pump")
    /\ Head(stack).at = at
    /\ UNCHANGED <<peer, reactor, listeners, loop, calls>>

PumpReadable ==
    /\ InPump("readable")
    /\ \/ NextListener("readable")
       \/ NoListener("readable") /\ Goes([Head(stack) EXCEPT !.at = "flow"])
    /\ UNCHANGED <<buf, flag, history>>

\* emitChunk: the buffer is emptied before the first listener is called.
EmitChunk ==
    /\ InPump("flow")
    /\ IF flag.flowing /\ ~flag.paused /\ buf # <<>>
       THEN /\ buf' = <<>>
            /\ out' = out \o buf
            /\ Goes([Head(stack) EXCEPT !.at = "data", !.i = 0, !.chunk = buf])
       ELSE /\ Goes([Head(stack) EXCEPT !.at = "end"])
            /\ UNCHANGED <<buf, out>>
    /\ UNCHANGED <<flag, heard>>

\* PumpData that stops when a listener has paused the stream.
PumpDataUnlessPaused ==
    /\ InPump("data")
    /\ \/ /\ NextListener("data")
          /\ ~flag.paused
          /\ heard' = [heard EXCEPT ![Head(stack).i + 1] = @ \o Head(stack).chunk]
       \/ /\ NoListener("data") \/ flag.paused
          /\ Goes([Head(stack) EXCEPT !.at = "end"])
          /\ UNCHANGED heard
    /\ UNCHANGED <<buf, flag, out>>

PumpData ==
    /\ InPump("data")
    /\ \/ /\ NextListener("data")
          /\ heard' = [heard EXCEPT ![Head(stack).i + 1] = @ \o Head(stack).chunk]
       \/ /\ NoListener("data")
          /\ Goes([Head(stack) EXCEPT !.at = "end"])
          /\ UNCHANGED heard
    /\ UNCHANGED <<buf, flag, out>>

\* EndDue that takes the end of the descriptor for the end of the stream.
EndDueAtEof == Head(stack).eof /\ ~flag.ended

\* pump() was at the end of the input when it began, and nothing is withheld.
EndDue == Head(stack).eof /\ buf = <<>> /\ ~flag.ended

PumpEnd ==
    /\ InPump("end")
    /\ IF EndDue
       THEN /\ flag' = [flag EXCEPT !.ended = TRUE]
            /\ Goes([Head(stack) EXCEPT !.at = "ended", !.i = 0])
       ELSE Ends /\ UNCHANGED flag
    /\ UNCHANGED <<buf, history>>

PumpEnded ==
    /\ InPump("ended")
    /\ NextListener("end") \/ (NoListener("end") /\ Ends)
    /\ UNCHANGED <<buf, flag, history>>

\* on(event, listener).
On(ev) ==
    /\ ProgramCalls
    /\ listeners[ev] < MaxListeners
    /\ listeners' = [listeners EXCEPT ![ev] = @ + 1]
    /\ flag' = [flag EXCEPT !.flowing = @ \/ ev = "data", !.armed = @ \/ ev # "close"]
    /\ heard' = IF ev = "data" THEN Append(heard, <<>>) ELSE heard
    /\ UNCHANGED <<reactor, buf, loop, stack, out>>

\* The number of bytes that read(size) returns of n buffered ones.
ReadCount(n, size) ==
    IF size # All /\ size <= n THEN size
    ELSE IF size = All \/ ~fdActive THEN n ELSE 0

\* read() and read(size): null, the rest, or the bytes asked for.
Read(size) ==
    /\ ProgramCalls
    /\ ~flag.destroyed
    /\ pos' = Len(sbuf)
    /\ LET all == buf \o Unread
           n   == ReadCount(Len(all), size)
       IN  /\ buf' = SubSeq(all, n + 1, Len(all))
           /\ out' = out \o SubSeq(all, 1, n)
    /\ UNCHANGED <<taken, fdActive, sbuf, flag, listeners, loop, stack, heard>>

Pause ==
    /\ ProgramCalls
    /\ flag' = [flag EXCEPT !.paused = TRUE]
    /\ UNCHANGED <<reactor, buf, listeners, loop, stack, history>>

\* resume() calls pump() itself.
Resume ==
    /\ ProgramCalls
    /\ PumpCall([flag EXCEPT !.paused = FALSE, !.flowing = TRUE, !.armed = TRUE], stack)
    /\ UNCHANGED <<taken, fdActive, sbuf, listeners, loop, history>>

\* destroy() that leaves the descriptor subscribed.
DestroyKeepingFd ==
    /\ ProgramCalls
    /\ ~flag.destroyed
    /\ flag' = [flag EXCEPT !.destroyed = TRUE]
    /\ stack' = <<Destroying>> \o stack
    /\ UNCHANGED <<reactor, buf, listeners, loop, history>>

\* destroy(), the first time.
Destroy ==
    /\ ProgramCalls
    /\ ~flag.destroyed
    /\ flag' = [flag EXCEPT !.destroyed = TRUE]
    /\ fdActive' = FALSE
    /\ stack' = <<Destroying>> \o stack
    /\ UNCHANGED <<taken, sbuf, pos, buf, listeners, loop, history>>

DestroyEnds ==
    /\ Running("destroy")
    /\ NextListener("close") \/ (NoListener("close") /\ Ends)
    /\ UNCHANGED <<peer, reactor, stream, loop, calls, history>>
-----------------------------------------------------------------------------
(***************************************************************************)
(* The rest of the program.                                                *)
(***************************************************************************)
SetTimer ==
    /\ ProgramCalls
    /\ timers < MaxTimers
    /\ timers' = timers + 1
    /\ UNCHANGED <<reactor, stream, phase, stack, jobs, history>>

QueueMicrotask ==
    /\ ProgramCalls
    /\ jobs' = jobs + 1
    /\ UNCHANGED <<reactor, stream, phase, stack, timers, history>>

Return ==
    /\ Running("code")
    /\ Ends
    /\ phase' = IF phase = "main" THEN "drain" ELSE phase
    /\ UNCHANGED <<peer, reactor, stream, timers, jobs, calls, history>>

\* Nothing between a listener and the handler around _start's body catches.
Throw ==
    /\ Running("code")
    /\ stack' = <<>>
    /\ phase' = "uncaught"
    /\ UNCHANGED <<peer, reactor, stream, timers, jobs, calls, history>>
-----------------------------------------------------------------------------
(***************************************************************************)
(* __run_event_loop with the reactor.                                      *)
(***************************************************************************)
InLoop(p) ==
    /\ stack = <<>>
    /\ phase = p
    /\ UNCHANGED <<peer, calls, history>>

RunJob(p) ==
    /\ InLoop(p)
    /\ jobs > 0
    /\ jobs' = jobs - 1
    /\ stack' = <<Code("job")>>
    /\ UNCHANGED <<reactor, stream, phase, timers>>

\* __rl_stdin_drain reclaims the buffer at every call.
ReclaimAlways == TRUE

\* __rl_stdin_drain reclaims the buffer when everything in it was read.
Reclaim == pos >= Len(sbuf)

\* Room behind the last byte.
Room(kept) == Cap - Len(kept)

\* __rl_stdin_drain: one fd_read, for as many bytes as there is room for.
\* It may return less than the pipe holds, nothing at the end of the input,
\* EAGAIN while the pipe is empty, or another error, which ends the input.
StdinDrain ==
    LET kept == IF Reclaim THEN <<>> ELSE sbuf
        room == Room(kept)
    IN  /\ pos' = IF Reclaim THEN 0 ELSE pos
        /\ \/ /\ room = 0 \/ ~Readable
              /\ sbuf' = kept
              /\ UNCHANGED <<taken, fdActive>>
           \/ /\ room > 0
              /\ taken < written
              /\ \E n \in 1..room :
                    /\ taken + n <= written
                    /\ sbuf' = kept \o [k \in 1..n |-> taken + k]
                    /\ taken' = taken + n
              /\ UNCHANGED fdActive
           \/ /\ room > 0
              /\ fdActive' = FALSE
              /\ sbuf' = kept
              /\ UNCHANGED taken

\* The first drain of the jobs is over: the descriptor is read.
ReadFd ==
    /\ InLoop("drain")
    /\ jobs = 0
    /\ phase' = "hook"
    /\ IF fdActive THEN StdinDrain ELSE UNCHANGED reactor
    /\ UNCHANGED <<stream, stack, timers, jobs>>

\* The stream's pump, if it registered one.
CallHook ==
    /\ InLoop("hook")
    /\ phase' = "timers"
    /\ IF flag.armed THEN PumpCall(flag, <<>>) ELSE UNCHANGED <<pos, buf, flag, stack>>
    /\ UNCHANGED <<taken, fdActive, sbuf, listeners, timers, jobs>>

FireTimer ==
    /\ InLoop("timers")
    /\ timers > 0
    /\ timers' = timers - 1
    /\ stack' = <<Code("timer")>>
    /\ UNCHANGED <<reactor, stream, phase, jobs>>

TimersDone ==
    /\ InLoop("timers")
    /\ phase' = "settle"
    /\ UNCHANGED <<reactor, stream, stack, timers, jobs>>

\* Pending that only knows timers.
TimersPending == timers > 0

\* The loop has something to wait for.
Pending == timers > 0 \/ fdActive

Decide ==
    /\ InLoop("settle")
    /\ jobs = 0
    /\ phase' = IF Pending THEN "poll" ELSE "exited"
    /\ UNCHANGED <<reactor, stream, stack, timers, jobs>>

\* poll_oneoff, always subscribed to fd 0, and to the clock if a timer is
\* pending: external, it ends when one of them is ready.
PollReturns ==
    /\ InLoop("poll")
    /\ Readable \/ timers > 0
    /\ phase' = "drain"
    /\ UNCHANGED <<reactor, stream, stack, timers, jobs>>

\* poll_oneoff fails, at any time; its error code is dropped, and whatever
\* the scan of the events then finds, the loop makes its next turn.
PollFails ==
    /\ InLoop("poll")
    /\ ~Readable /\ timers = 0
    /\ phase' = "drain"
    /\ UNCHANGED <<reactor, stream, stack, timers, jobs>>
-----------------------------------------------------------------------------
Program ==
    \/ PumpReadable \/ EmitChunk \/ PumpData \/ PumpEnd \/ PumpEnded
    \/ \E ev \in Events : On(ev)
    \/ \E size \in Sizes \cup {All} : Read(size)
    \/ Pause \/ Resume \/ Destroy \/ DestroyEnds
    \/ SetTimer \/ QueueMicrotask \/ Return \/ Throw
    \/ \E p \in {"drain", "settle"} : RunJob(p)
    \/ ReadFd \/ CallHook \/ FireTimer \/ TimersDone \/ Decide \/ PollReturns

Next == PeerWrites \/ PeerCloses \/ Program \/ PollFails

Spec == Init /\ [][Next]_vars

\* The program's thread goes on whenever it can, and timers become due; the
\* peer owes nothing, and poll_oneoff no failure.
FairSpec == Spec /\ WF_vars(Program) /\ SF_vars(FireTimer)
-----------------------------------------------------------------------------

\* No byte is lost, repeated or overtaken between fd_read and the program:
\* what left the stream, what it holds and what the reactor holds are the
\* bytes read so far, in order, the reactor never holding more than its
\* buffer; and every data listener hears a rising run, whoever resumes, reads
\* or pauses inside whose callback
\* (drainBytes, emitChunk, read, __rl_stdin_drain).
BytesInOrder ==
    /\ out \o buf \o Unread = [k \in 1..taken |-> k]
    /\ Len(sbuf) <= Cap
    /\ \A l \in 1..Len(heard) : \A j, k \in 1..Len(heard[l]) :
            j < k => heard[l][j] < heard[l][k]

\* The pumps that are calling the data listeners with a chunk.
Emitting == {k \in DOMAIN stack : stack[k].fn = "pump" /\ stack[k].at = "data"}

\* 'end' is announced only after every data listener was given every byte,
\* as the comments on 'end' have it ("fully delivered").  The code does not
\* keep this: a chunk leaves the buffer before the first listener is called,
\* and if that listener calls resume() at the end of the input, the pump
\* inside it finds the buffer empty and announces 'end' before the second
\* listener is given the chunk (emitChunk, pump).
EndAfterDelivery ==
    flag.ended => \A k \in Emitting : stack[k].i >= listeners["data"]

\* 'end' is announced only when neither the stream nor the reactor holds a
\* byte and none can arrive any more, a pump that believes in the end of the
\* input being right however old its atEof is; and the first data listener
\* was given everything before, so that with one listener 'end' is the last
\* that it hears, whatever it calls (pump).
EndIsLast ==
    /\ flag.ended => ~fdActive /\ buf = <<>> /\ Unread = <<>>
    /\ \A k \in DOMAIN stack : stack[k].fn = "pump" /\ stack[k].eof => ~fdActive
    /\ flag.ended => \A k \in Emitting : stack[k].i > 0
    /\ listeners["data"] <= 1 => EndAfterDelivery

\* What data listener l has been given, and will be of the chunk in progress.
Hears(l) ==
    IF \E k \in Emitting : stack[k].i < l
    THEN heard[l] \o stack[CHOOSE k \in Emitting : stack[k].i < l].chunk
    ELSE heard[l]

\* Of two data listeners the later one misses no chunk from its registration
\* on: when an emission is over, what it has heard is the end of what the
\* earlier one has heard, although listeners are added, the stream is paused,
\* resumed, ended or destroyed between the two calls.  Only an uncaught
\* exception, which ends the program, cuts an emission short (emitChunk).
ListenersAgree ==
    phase # "uncaught" =>
        \A l, m \in 1..Len(heard) : l < m =>
            /\ Len(Hears(m)) <= Len(Hears(l))
            /\ SubSeq(Hears(l), Len(Hears(l)) - Len(Hears(m)) + 1, Len(Hears(l))) = Hears(m)

\* A flowing stream whose input is closed comes to 'end', unless the program
\* pauses or destroys it or throws: the loop does not give up before (Pending),
\* and the turn that finds the end of the input delivers what is left (pump).
ClosedStreamEnds ==
    (closed /\ fdActive /\ flag.flowing) ~>
        (flag.ended \/ flag.paused \/ flag.destroyed \/ phase = "uncaught")

\* destroy() ends the program as soon as its timers are done, although the
\* peer never closes the pipe (__wasiStdinStop).
DestroyedExits ==
    flag.destroyed ~> phase \in {"exited", "uncaught"}
=============================================================================

------------------------------ MODULE TimerLoop ------------------------------
(***************************************************************************)
(* The timer table and the event loop of WASI modules: __timer_add,        *)
(* __timer_cancel, __timer_peek_deadline, __timer_fire_due and             *)
(* __run_event_loop of src/codegen/async-scheduler.ts, the call sites of   *)
(* setTimeout, setInterval, clearTimeout, clearInterval and queueMicrotask *)
(* (src/codegen/expressions/calls.ts) and the sleep of src/codegen/wasi.ts.*)
(*                                                                         *)
(* The clock is an actor of its own: it ticks between any two steps of the *)
(* program, or does not.  Deadlines are absolute clock ticks, delays are   *)
(* whole milliseconds of Ms ticks, and the loop sleeps whole milliseconds. *)
(* The table only grows, so an id is the position of its timer; the five   *)
(* parallel arrays of the table are one sequence of records, and doubling  *)
(* them, which keeps every index, is part of appending.                    *)
(*                                                                         *)
(* What the microtask jobs do is left to the program; the queue itself is  *)
(* MicrotaskQueue's concern and only its length is kept here.              *)
(***************************************************************************)
EXTENDS Integers, Sequences, FiniteSets, FiniteSetsExt

CONSTANTS
    Ms,             \* clock ticks in a millisecond
    Delays,         \* the delays, in milliseconds, that the program asks for
    NaN,            \* what clearTimeout is given for undefined
    SleepModulus,   \* 2^32, the milliseconds that fit __wasi_sleep_ms's i32
    MaxTimers,      \* bound: timers created
    MaxJobs,        \* bound: microtasks queued by queueMicrotask
    MaxTime         \* bound: ticks of the clock

ASSUME MsAssumption == Ms \in Nat \ {0}
ASSUME DelaysAssumption == Delays \subseteq Nat
ASSUME SleepModulusAssumption == SleepModulus \in Nat \ {0}
ASSUME BoundsAssumption == {MaxTimers, MaxJobs, MaxTime} \subseteq Nat

VARIABLES
    clock,      \* CLOCK_MONOTONIC
    timers,     \* the timer table
    jobs,       \* microtasks that wait
    phase,      \* where _start is: the entry function or a part of the loop
    user,       \* user code runs: the entry function, a job or a callback
    now,        \* __run_event_loop's $now: the clock when the pass began
    index,      \* __timer_fire_due's $i, the ids being 1, 2, ...
    wakeAt,     \* when the sleep in progress is over
    hist        \* history, for the properties only

vars == <<clock, timers, jobs, phase, user, now, index, wakeAt, hist>>

Ids == 1..MaxTimers
-----------------------------------------------------------------------------
(***************************************************************************)
(* The emitted helper functions.                                           *)
(***************************************************************************)
Known(id) == id \in DOMAIN timers

Live(id) == Known(id) /\ ~timers[id].cancelled

\* __timer_peek_deadline of a scan that keeps the last deadline it sees.
LatestDeadline == Max({timers[id].deadline : id \in {i \in Ids : Live(i)}})

\* __timer_peek_deadline, when some timer is live.
NextDeadline == Min({timers[id].deadline : id \in {i \in Ids : Live(i)}})

\* NothingLive that forgets intervals.
NoTimeoutLive == {id \in Ids : Live(id) /\ timers[id].interval = 0} = {}

\* __timer_peek_deadline, when no timer is live: the largest i64.
NothingLive == {id \in Ids : Live(id)} = {}

\* Milliseconds to sleep: the wait rounded up, wrapped to 32 bits.
SleepMs(wait) == ((wait + Ms - 1) \div Ms) % SleepModulus

\* Due, one tick early.
DueNextTick(id) == Live(id) /\ timers[id].deadline <= now + 1

\* The timer fires in this pass.
Due(id) == Live(id) /\ timers[id].deadline <= now

\* A timer that fires: an interval is re-armed relative to its deadline, and
\* anything else is retired, before the callback is called.
Fired(t) == IF t.interval > 0 THEN [t EXCEPT !.deadline = @ + t.interval]
                              ELSE [t EXCEPT !.cancelled = TRUE]

\* __timer_add: the timer gets the slot behind the last one, for good.
Added(table, deadline, interval) ==
    Append(table, [deadline |-> deadline, interval |-> interval, cancelled |-> FALSE])

\* Cancelled that cannot reach the newest timer.
CancelledButLast(table, id) ==
    IF id \in 1..(Len(table) - 1) THEN [table EXCEPT ![id].cancelled = TRUE] ELSE table

\* The slot that clearTimeout and clearInterval make of their argument:
\* i32.trunc_sat takes NaN to 0, the code's first id (1 here).
SlotOf(x) == IF x = NaN THEN 1 ELSE x

\* __timer_cancel: any number may be passed, and only ids in use do anything.
Cancelled(table, id) ==
    IF id \in DOMAIN table THEN [table EXCEPT ![id].cancelled = TRUE] ELSE table
-----------------------------------------------------------------------------
Init ==
    /\ clock = 0
    /\ timers = <<>>
    /\ jobs = 0
    /\ phase = "main"
    /\ user = TRUE
    /\ now = 0
    /\ index = 1
    /\ wakeAt = 0
    /\ hist = [made |-> <<>>, fires |-> [id \in Ids |-> 0],
               cleared |-> {}, queued |-> 0]

\* Time passes.
Tick ==
    /\ phase \notin {"exited", "uncaught"}
    /\ clock < MaxTime
    /\ clock' = clock + 1
    /\ UNCHANGED <<timers, jobs, phase, user, now, index, wakeAt, hist>>
-----------------------------------------------------------------------------
(***************************************************************************)
(* Calls of the program, from its entry function, a job or a callback.     *)
(***************************************************************************)
InLoop == UNCHANGED <<clock, phase, user, now, index, wakeAt>>

\* setTimeout(f, delay), or setInterval(f, delay) if repeats.
SetTimer(delay, repeats) ==
    /\ user
    /\ Len(timers) < MaxTimers
    /\ timers' = Added(timers, clock + delay * Ms, IF repeats THEN delay * Ms ELSE 0)
    /\ hist' = [hist EXCEPT
            !.made = Append(@, [at |-> clock, delay |-> delay * Ms, repeats |-> repeats])]
    /\ InLoop
    /\ UNCHANGED jobs

\* clearTimeout(x) or clearInterval(x), x being any number.
ClearTimer(x) ==
    /\ user
    /\ timers' = Cancelled(timers, SlotOf(x))
    /\ hist' = [hist EXCEPT !.cleared = IF Known(SlotOf(x)) THEN @ \cup {SlotOf(x)} ELSE @]
    /\ InLoop
    /\ UNCHANGED jobs

QueueMicrotask ==
    /\ user
    /\ hist.queued < MaxJobs
    /\ jobs' = jobs + 1
    /\ hist' = [hist EXCEPT !.queued = @ + 1]
    /\ InLoop
    /\ UNCHANGED timers

\* User code returns: the entry function to _start, which enters the loop,
\* a job to the drain, and a callback to the scan of the table.
Return ==
    /\ user
    /\ user' = FALSE
    /\ phase' = IF phase = "main" THEN "drain" ELSE phase
    /\ index' = IF phase = "fire" THEN index + 1 ELSE index
    /\ UNCHANGED <<clock, timers, jobs, now, wakeAt, hist>>

\* User code throws: nothing on the way catches it, and the handler around
\* _start's body ends the process.
Throw ==
    /\ user
    /\ user' = FALSE
    /\ phase' = "uncaught"
    /\ UNCHANGED <<clock, timers, jobs, now, index, wakeAt, hist>>
-----------------------------------------------------------------------------
(***************************************************************************)
(* __run_event_loop.                                                       *)
(***************************************************************************)

\* A drain, before or after the timers, calls the next job.
RunJob ==
    /\ phase \in {"drain", "settle"}
    /\ ~user
    /\ jobs > 0
    /\ jobs' = jobs - 1
    /\ user' = TRUE
    /\ UNCHANGED <<clock, timers, phase, now, index, wakeAt, hist>>

\* BeginPass that starts the scan one slot too low.
BeginPassTooLow ==
    /\ phase = "drain"
    /\ ~user
    /\ jobs = 0
    /\ phase' = "fire"
    /\ now' = clock
    /\ index' = 0
    /\ UNCHANGED <<clock, timers, jobs, user, wakeAt, hist>>

\* The first drain is done: the clock is read and the scan begins.
BeginPass ==
    /\ phase = "drain"
    /\ ~user
    /\ jobs = 0
    /\ phase' = "fire"
    /\ now' = clock
    /\ index' = 1
    /\ UNCHANGED <<clock, timers, jobs, user, wakeAt, hist>>

\* The scan, at a timer that is due.
Fire ==
    /\ phase = "fire"
    /\ ~user
    /\ Due(index)
    /\ timers' = [timers EXCEPT ![index] = Fired(@)]
    /\ user' = TRUE
    /\ hist' = [hist EXCEPT !.fires[index] = @ + 1]
    /\ UNCHANGED <<clock, jobs, phase, now, index, wakeAt>>

\* The scan, at a timer that is not.
Skip ==
    /\ phase = "fire"
    /\ ~user
    /\ Known(index)
    /\ ~Due(index)
    /\ index' = index + 1
    /\ UNCHANGED <<clock, timers, jobs, phase, user, now, wakeAt, hist>>

\* The loop without its second drain.
EndPassWithoutDrain ==
    /\ phase = "fire"
    /\ ~user
    /\ ~Known(index)
    /\ phase' = "peek"
    /\ now' = 0 /\ index' = 1
    /\ UNCHANGED <<clock, timers, jobs, user, wakeAt, hist>>

\* The scan reaches the end of the table as it is now, and the second drain
\* begins.
EndPass ==
    /\ phase = "fire"
    /\ ~user
    /\ ~Known(index)
    /\ phase' = "settle"
    /\ now' = 0 /\ index' = 1 \* the locals of the scan are gone
    /\ UNCHANGED <<clock, timers, jobs, user, wakeAt, hist>>

\* The second drain is done.
Settled ==
    /\ phase = "settle"
    /\ ~user
    /\ jobs = 0
    /\ phase' = "peek"
    /\ UNCHANGED <<clock, timers, jobs, user, now, index, wakeAt, hist>>

\* No live timer: the loop ends.
ExitLoop ==
    /\ phase = "peek"
    /\ NothingLive
    /\ phase' = "exited"
    /\ UNCHANGED <<clock, timers, jobs, user, now, index, wakeAt, hist>>

\* The next deadline has passed already: the next turn begins at once.
NextTurn ==
    /\ phase = "peek"
    /\ ~NothingLive
    /\ NextDeadline <= clock
    /\ phase' = "drain"
    /\ UNCHANGED <<clock, timers, jobs, user, now, index, wakeAt, hist>>

\* It has not: sleep until then.
Sleep ==
    /\ phase = "peek"
    /\ ~NothingLive
    /\ NextDeadline > clock
    /\ phase' = "sleep"
    /\ wakeAt' = clock + SleepMs(NextDeadline - clock) * Ms
    /\ UNCHANGED <<clock, timers, jobs, user, now, index, hist>>

\* poll_oneoff returns when the time is up.
Wake ==
    /\ phase = "sleep"
    /\ clock >= wakeAt
    /\ phase' = "drain"
    /\ wakeAt' = 0
    /\ UNCHANGED <<clock, timers, jobs, user, now, index, hist>>

\* poll_oneoff fails, at any time; its error code is dropped.
PollFails ==
    /\ phase = "sleep"
    /\ clock < wakeAt
    /\ phase' = "drain"
    /\ wakeAt' = 0
    /\ UNCHANGED <<clock, timers, jobs, user, now, index, hist>>
-----------------------------------------------------------------------------
ProgramCall ==
    \/ \E delay \in Delays : \E repeats \in BOOLEAN : SetTimer(delay, repeats)
    \/ \E x \in 0..(MaxTimers + 1) \cup {NaN} : ClearTimer(x)
    \/ QueueMicrotask

LoopTurn ==
    \/ RunJob
    \/ BeginPass
    \/ Fire
    \/ Skip
    \/ EndPass
    \/ Settled
    \/ ExitLoop
    \/ NextTurn
    \/ Sleep
    \/ Wake

Next ==
    \/ Tick
    \/ ProgramCall
    \/ Return
    \/ Throw
    \/ LoopTurn
    \/ PollFails

Spec == Init /\ [][Next]_vars

\* Time passes, emitted code that can run does run, and callbacks return.
FairSpec == Spec /\ WF_vars(Tick) /\ WF_vars(Return) /\ WF_vars(LoopTurn)
-----------------------------------------------------------------------------
(***************************************************************************)
(* Properties.                                                             *)
(***************************************************************************)

\* The table has a record per timer created, the scan is inside the table or
\* just behind it, and user code runs only where the loop calls it.
TypeOK ==
    /\ clock \in Nat /\ now \in Nat /\ jobs \in Nat /\ wakeAt \in Nat
    /\ timers \in Seq([deadline : Nat, interval : Nat, cancelled : BOOLEAN])
    /\ Len(timers) = Len(hist.made)
    /\ phase \in {"main", "drain", "fire", "settle", "peek", "sleep", "exited", "uncaught"}
    /\ user \in BOOLEAN
    /\ user => phase \in {"main", "drain", "fire", "settle"}
    /\ phase = "fire" => index \in 1..(Len(timers) + 1)

\* A timer fires no earlier and no more often than its delay allows: after n
\* firings, n delays have passed since it was created, and a timeout fires at
\* most once whatever its callback does to the table.  Rounding the sleep, a
\* failing poll and the wrap of long sleeps to 32 bits do not change this.
NeverEarly ==
    \A id \in DOMAIN timers :
        /\ hist.fires[id] * hist.made[id].delay <= clock - hist.made[id].at
        /\ ~hist.made[id].repeats => hist.fires[id] <= 1

\* The callback of a timer is not called after clearTimeout or clearInterval
\* with its id, even by a callback or job of the same turn of the loop.
ClearedNeverFires ==
    [][\A id \in hist.cleared : hist'.fires[id] = hist.fires[id]]_vars

\* The loop sleeps or ends only when no microtask waits, and ends only when
\* no timer is live.
IdleMeansNothingPending ==
    /\ phase \in {"sleep", "exited"} => jobs = 0
    /\ phase = "exited" => NothingLive

\* A sleep is over less than a millisecond after the deadline of every live
\* timer, and there is one to wait for.
SleepEndsInTime ==
    phase = "sleep" =>
        /\ \E id \in Ids : Live(id)
        /\ \A id \in Ids : Live(id) => wakeAt < timers[id].deadline + Ms

\* The latest deadline whose sleep, rounded up, is over before time stops.
Horizon == MaxTime - Ms + 1

\* Every live timer is eventually fired or cleared, and an interval catches
\* up, unless an uncaught throw ends the process: sleeping, long sleeps that
\* wrap, failing polls and timers that create timers starve nobody.
TimersFire ==
    \A id \in Ids :
        (Live(id) /\ timers[id].deadline <= Horizon)
            ~> (~Live(id) \/ timers[id].deadline > Horizon \/ phase = "uncaught")
=============================================================================

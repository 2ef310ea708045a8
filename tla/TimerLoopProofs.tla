--------------------------- MODULE TimerLoopProofs ---------------------------
(***************************************************************************)
(* Proofs about TimerLoop for every resolution of the clock, every set of  *)
(* delays, every width of the sleep and every number of timers and jobs:   *)
(* no timer fires early, twice or after it was cleared, and the loop       *)
(* sleeps and ends only when it may.                                       *)
(***************************************************************************)
EXTENDS TimerLoop, SequenceTheorems, WellFoundedInduction, TLAPS

\* A slot of the table, and the call that made it.
Slot == [deadline : Nat, interval : Nat, cancelled : BOOLEAN]
Making == [at : Nat, delay : Nat, repeats : BOOLEAN]

\* The books of one timer balance: t is its slot, m the call that made it, f
\* the number of its firings, c the clock.  The deadline of a live timer is
\* one delay after what its firings account for.
Account(t, m, f, c) ==
    /\ t.interval = IF m.repeats THEN m.delay ELSE 0
    /\ f * m.delay <= c - m.at
    /\ ~t.cancelled => t.deadline = m.at + f * m.delay + m.delay
    /\ t.interval = 0 => f <= 1 /\ (~t.cancelled => f = 0)

\* What the history variable holds.
HistOK ==
    /\ hist \in [made : Seq(Making), fires : [Ids -> Nat], cleared : SUBSET Ids,
                 queued : Nat]
    /\ Len(timers) <= MaxTimers
    /\ \A id \in Ids : id > Len(timers) => hist.fires[id] = 0

\* The books of every timer balance, and what was cleared stays cancelled.
Books ==
    /\ \A id \in 1..Len(timers) :
          Account(timers[id], hist.made[id], hist.fires[id], clock)
    /\ \A id \in hist.cleared : id <= Len(timers) /\ timers[id].cancelled

\* Where the loop is, and what it knows there.
Place ==
    /\ now <= clock
    /\ user /\ phase = "fire" => index <= Len(timers)
    /\ phase \in {"peek", "sleep", "exited"} => jobs = 0

\* The inductive invariant.
IndInv == TypeOK /\ HistOK /\ Books /\ Place /\ IdleMeansNothingPending /\ SleepEndsInTime
-----------------------------------------------------------------------------
(***************************************************************************)
(* The emitted helper functions.                                           *)
(***************************************************************************)

\* A due timer that fires keeps its books: an interval moves its deadline by
\* one delay, and everything else is retired at its first firing.
LEMMA FiringBalances ==
    ASSUME NEW t \in Slot, NEW m \in Making, NEW f \in Nat, NEW c \in Nat,
           Account(t, m, f, c), ~t.cancelled, t.deadline <= c
    PROVE  Fired(t) \in Slot /\ Account(Fired(t), m, f + 1, c)
<1>1. /\ t.deadline \in Nat /\ t.interval \in Nat /\ m.at \in Nat /\ m.delay \in Nat
      /\ f * m.delay \in Nat
  BY DEF Slot, Making
<1>2. (f + 1) * m.delay = f * m.delay + m.delay
  <2>1. \A x, y \in Nat : (x + 1) * y = x * y + y
    OBVIOUS
  <2> QED BY <1>1, <2>1
<1>3. t.deadline = m.at + f * m.delay + m.delay
  BY DEF Account
<1>4. (f + 1) * m.delay <= c - m.at
  BY <1>1, <1>2, <1>3
<1>5. CASE t.interval > 0
  <2>1. Fired(t) = [t EXCEPT !.deadline = @ + t.interval]
    BY <1>5 DEF Fired
  <2>2. /\ Fired(t) \in Slot
        /\ Fired(t).deadline = t.deadline + t.interval
        /\ Fired(t).interval = t.interval
    BY <1>1, <2>1 DEF Slot
  <2>3. t.interval = m.delay
    BY <1>5 DEF Account
  <2>4. Fired(t).deadline = m.at + (f + 1) * m.delay + m.delay
    BY <1>1, <1>2, <1>3, <2>2, <2>3
  <2> QED BY <1>4, <1>5, <2>2, <2>4 DEF Account
<1>6. CASE t.interval = 0
  <2>1. Fired(t) = [t EXCEPT !.cancelled = TRUE]
    BY <1>6 DEF Fired
  <2>2. /\ Fired(t) \in Slot
        /\ Fired(t).cancelled
        /\ Fired(t).interval = t.interval
    BY <2>1 DEF Slot
  <2>3. f = 0
    BY <1>6 DEF Account
  <2> QED BY <1>4, <2>2, <2>3 DEF Account
<1> QED BY <1>1, <1>5, <1>6

\* A set of numbers has a least one.
LEMMA MinOfNumbers ==
    ASSUME NEW D, D \subseteq Nat, D # {}
    PROVE  Min(D) \in D /\ \A y \in D : Min(D) <= y
<1> DEFINE R == OpToRel(<, Nat)
<1>1. PICK x \in D : \A y \in D : ~(<<y, x>> \in R)
  BY NatLessThanWellFounded, WFMin
<1>2. \A y \in D : <<y, x>> \in R <=> y < x
  BY DEF OpToRel
<1> HIDE DEF R
<1>3. \A y \in D : x <= y
  <2> TAKE y \in D
  <2>1. x \in Nat /\ y \in Nat
    BY <1>1
  <2>2. ~(y < x)
    BY <1>1, <1>2
  <2> QED BY <2>1, <2>2
<1> QED BY <1>3 DEF Min

\* The next deadline is the least one of the live timers.
LEMMA NextDeadlineIsLeast ==
    ASSUME timers \in Seq(Slot), ~NothingLive
    PROVE  /\ NextDeadline \in Nat
           /\ \A id \in Ids : Live(id) => NextDeadline <= timers[id].deadline
<1> DEFINE D == {timers[id].deadline : id \in {i \in Ids : Live(i)}}
<1>1. \A id \in Ids : Live(id) => timers[id].deadline \in Nat
  <2>1. \A id \in DOMAIN timers : timers[id] \in Slot
    OBVIOUS
  <2> QED BY <2>1 DEF Live, Known, Slot
<1>2. D # {}
  BY DEF NothingLive
<1>3. Min(D) \in D /\ \A y \in D : Min(D) <= y
  <2>1. D \subseteq Nat
    BY <1>1
  <2> HIDE DEF D
  <2> QED BY <1>2, <2>1, MinOfNumbers
<1> QED BY <1>1, <1>3 DEF NextDeadline

\* A sleep is a whole number of milliseconds and less than one longer than
\* the wait, wrapped or not.
LEMMA SleepIsShort ==
    ASSUME NEW w \in Nat
    PROVE  SleepMs(w) * Ms \in Nat /\ SleepMs(w) * Ms < w + Ms
<1> DEFINE a == w + Ms - 1
           q == a \div Ms
<1>1. a \in Nat /\ Ms \in Nat /\ Ms > 0
  BY MsAssumption
<1>2. q \in Nat /\ q * Ms <= a
  <2> HIDE DEF a
  <2> QED BY <1>1
<1>3. q % SleepModulus \in Nat /\ q % SleepModulus <= q
  <2> HIDE DEF q
  <2> QED BY <1>2, SleepModulusAssumption
<1>4. \A x, y, z \in Nat : x <= y => x * z \in Nat /\ x * z <= y * z
  OBVIOUS
<1>5. (q % SleepModulus) * Ms \in Nat /\ (q % SleepModulus) * Ms <= q * Ms
  <2> HIDE DEF q
  <2> QED BY <1>1, <1>2, <1>3, <1>4
<1>6. q * Ms \in Nat
  BY <1>1, <1>2, <1>4
<1>7. SleepMs(w) = q % SleepModulus
  BY DEF SleepMs
<1> HIDE DEF q
<1> QED BY <1>1, <1>2, <1>5, <1>6, <1>7
-----------------------------------------------------------------------------
(***************************************************************************)
(* The steps.                                                              *)
(***************************************************************************)

\* Steps that leave the clock, the table and the history alone.
LEMMA BooksKept ==
    ASSUME HistOK, Books, UNCHANGED <<clock, timers, hist>>
    PROVE  HistOK' /\ Books'
<1>1. /\ hist'.made = hist.made /\ hist'.fires = hist.fires /\ hist'.cleared = hist.cleared
      /\ hist' \in [made : Seq(Making), fires : [Ids -> Nat], cleared : SUBSET Ids,
                 queued : Nat]
  BY DEF HistOK
<1> QED BY <1>1 DEF HistOK, Books, Account

\* Time passes.
LEMMA TickKeeps ==
    ASSUME IndInv, Tick
    PROVE  IndInv'
<1> USE DEF IndInv
<1>1. HistOK'
  BY DEF Tick, HistOK
<1>2. Books'
  <2>1. clock \in Nat /\ clock' = clock + 1 /\ UNCHANGED <<timers, hist>>
    BY DEF Tick, TypeOK
  <2>2. ASSUME NEW id \in 1..Len(timers)
        PROVE  Account(timers[id], hist.made[id], hist.fires[id], clock')
    <3>1. Account(timers[id], hist.made[id], hist.fires[id], clock)
      BY DEF Books
    <3>2. /\ hist.made[id].at \in Nat /\ hist.made[id].delay \in Nat
          /\ hist.fires[id] * hist.made[id].delay \in Nat
      <4>1. hist.made[id] \in Making
        BY DEF TypeOK, HistOK
      <4>2. id \in Ids
        BY BoundsAssumption DEF TypeOK, HistOK, Ids
      <4>3. hist.fires \in [Ids -> Nat]
        BY DEF HistOK
      <4>4. hist.fires[id] \in Nat
        BY <4>2, <4>3
      <4>5. \A x, y \in Nat : x * y \in Nat
        OBVIOUS
      <4> QED BY <4>1, <4>4, <4>5 DEF Making
    <3> QED BY <2>1, <3>1, <3>2, SMTT(30) DEF Account
  <2> QED BY <2>1, <2>2 DEF Books
<1>3. TypeOK' /\ Place' /\ IdleMeansNothingPending' /\ SleepEndsInTime'
  BY DEF Tick, TypeOK, Place, IdleMeansNothingPending, SleepEndsInTime, NothingLive, Live, Known
<1> QED BY <1>1, <1>2, <1>3

\* A timer is created: its books are opened.
LEMMA SetTimerKeeps ==
    ASSUME IndInv, NEW delay \in Delays, NEW repeats \in BOOLEAN, SetTimer(delay, repeats)
    PROVE  IndInv'
<1> DEFINE n == Len(timers)
           t == [deadline |-> clock + delay * Ms, interval |-> IF repeats THEN delay * Ms ELSE 0,
                 cancelled |-> FALSE]
           m == [at |-> clock, delay |-> delay * Ms, repeats |-> repeats]
<1> USE DEF IndInv
<1>1. /\ user /\ n < MaxTimers /\ UNCHANGED <<clock, jobs, phase, user, now, index, wakeAt>>
      /\ timers' = Append(timers, t)
      /\ hist' = [hist EXCEPT !.made = Append(@, m)]
  BY DEF SetTimer, Added, InLoop
<1>2. clock \in Nat /\ delay * Ms \in Nat /\ n \in Nat /\ MaxTimers \in Nat
  BY MsAssumption, DelaysAssumption, BoundsAssumption DEF TypeOK
<1>3. t \in Slot /\ m \in Making /\ timers \in Seq(Slot) /\ hist.made \in Seq(Making)
  BY <1>2 DEF Slot, Making, TypeOK, HistOK
<1>4. Len(hist.made) = n
  BY DEF TypeOK
<1>5. /\ timers' \in Seq(Slot) /\ Len(timers') = n + 1
      /\ \A id \in 1..n : timers'[id] = timers[id]
      /\ timers'[n + 1] = t
  <2> HIDE DEF t
  <2> QED BY <1>1, <1>3, AppendProperties
<1>6. /\ hist'.made = Append(hist.made, m) /\ hist'.fires = hist.fires
      /\ hist'.cleared = hist.cleared /\ hist'.queued = hist.queued
      /\ hist' = [made |-> hist'.made, fires |-> hist'.fires, cleared |-> hist'.cleared,
                  queued |-> hist'.queued]
  <2> HIDE DEF m, n
  <2> QED BY <1>1 DEF HistOK
<1>7. /\ hist'.made \in Seq(Making) /\ Len(hist'.made) = n + 1
      /\ \A id \in 1..n : hist'.made[id] = hist.made[id]
      /\ hist'.made[n + 1] = m
  <2> HIDE DEF m
  <2> QED BY <1>3, <1>4, <1>6, AppendProperties
<1> HIDE DEF n
<1>8. n + 1 \in Ids /\ hist.fires[n + 1] = 0
  BY <1>1, <1>2 DEF HistOK, Ids, n
<1>9. TypeOK'
  BY <1>1, <1>2, <1>5, <1>7 DEF TypeOK, Slot, n
<1>10. HistOK'
  <2>1. hist' \in [made : Seq(Making), fires : [Ids -> Nat], cleared : SUBSET Ids,
                 queued : Nat]
    BY <1>6, <1>7, <1>8 DEF HistOK
  <2>2. Len(timers') <= MaxTimers
    BY <1>1, <1>2, <1>5
  <2>3. ASSUME NEW id \in Ids, id > Len(timers') PROVE hist'.fires[id] = 0
    BY <1>2, <1>5, <1>6, <2>3 DEF HistOK, Ids, n
  <2> QED BY <2>1, <2>2, <2>3 DEF HistOK
<1>11. Books'
  <2>1. ASSUME NEW id \in 1..n
        PROVE  Account(timers'[id], hist'.made[id], hist'.fires[id], clock')
    BY <1>1, <1>5, <1>6, <1>7 DEF Books, n
  <2>2. Account(t, m, 0, clock)
    BY <1>2 DEF Account
  <2>3. Account(timers'[n + 1], hist'.made[n + 1], hist'.fires[n + 1], clock')
    BY <1>1, <1>5, <1>6, <1>7, <1>8, <2>2
  <2>4. \A id \in 1..(n + 1) : id \in 1..n \/ id = n + 1
    BY <1>2
  <2>5. \A id \in hist'.cleared : id <= n + 1 /\ timers'[id].cancelled
    <3>1. \A id \in hist.cleared : id \in 1..n /\ timers[id].cancelled
      BY <1>2 DEF Books, HistOK, Ids, n
    <3>2. \A id \in 1..n : timers'[id] = timers[id] /\ id <= n + 1
      BY <1>2, <1>5
    <3>3. hist'.cleared = hist.cleared
      BY <1>6
    <3> QED BY <3>1, <3>2, <3>3
  <2> QED BY <1>5, <2>1, <2>3, <2>4, <2>5 DEF Books
<1>12. phase \in {"main", "drain", "fire", "settle"}
  BY <1>1 DEF TypeOK
<1>13. Place'
  BY <1>1, <1>2, <1>5, <1>12 DEF Place, TypeOK, n
<1>14. IdleMeansNothingPending' /\ SleepEndsInTime'
  BY <1>1, <1>12 DEF IdleMeansNothingPending, SleepEndsInTime
<1> QED BY <1>9, <1>10, <1>11, <1>13, <1>14

\* The table is a sequence of slots.
LEMMA TableShape ==
    ASSUME TypeOK
    PROVE  /\ timers \in Seq(Slot) /\ Len(timers) \in Nat /\ DOMAIN timers = 1..Len(timers)
           /\ \A id \in 1..Len(timers) : timers[id] \in Slot
<1>1. timers \in Seq(Slot)
  BY DEF TypeOK, Slot
<1> QED BY <1>1, LenProperties, ElementOfSeq

\* One slot of the table is replaced, and the rest is as before.
LEMMA OneSlotChanges ==
    ASSUME IndInv, NEW i \in 1..Len(timers), NEW t \in Slot,
           timers' = [timers EXCEPT ![i] = t]
    PROVE  /\ timers' \in Seq(Slot) /\ Len(timers') = Len(timers) /\ Len(timers) \in Nat
           /\ i \in Ids
           /\ timers'[i] = t
           /\ \A id \in 1..Len(timers) : id # i => timers'[id] = timers[id]
<1>1. timers \in Seq(Slot) /\ Len(timers) \in Nat
  BY DEF IndInv, TypeOK, Slot
<1>2. i \in Ids
  BY <1>1, BoundsAssumption DEF IndInv, HistOK, Ids
<1> QED BY <1>1, <1>2, ExceptSeq

\* A timer is cleared: what is known about it while it is live no longer
\* applies, and the rest of its books is as before.
LEMMA ClearTimerKeeps ==
    ASSUME IndInv, NEW x, ClearTimer(x)
    PROVE  IndInv'
<1> DEFINE i == SlotOf(x)
<1> USE DEF IndInv
<1>1. /\ user /\ UNCHANGED <<clock, jobs, phase, user, now, index, wakeAt>>
      /\ timers' = Cancelled(timers, i)
      /\ hist' = [hist EXCEPT !.cleared = IF Known(i) THEN @ \cup {i} ELSE @]
  BY DEF ClearTimer, InLoop
<1>2. phase \in {"main", "drain", "fire", "settle"}
  BY <1>1 DEF TypeOK
<1>3. IdleMeansNothingPending' /\ SleepEndsInTime'
  BY <1>1, <1>2 DEF IdleMeansNothingPending, SleepEndsInTime
<1> HIDE DEF i
<1>4. /\ hist'.made = hist.made /\ hist'.fires = hist.fires
      /\ hist'.cleared = IF Known(i) THEN hist.cleared \cup {i} ELSE hist.cleared
      /\ hist'.queued = hist.queued
      /\ hist' = [made |-> hist'.made, fires |-> hist'.fires, cleared |-> hist'.cleared,
                  queued |-> hist'.queued]
  BY <1>1 DEF HistOK
<1>5. CASE ~Known(i)
  <2>1. UNCHANGED timers
    BY <1>1, <1>5 DEF Cancelled, Known
  <2>2. TypeOK' /\ HistOK' /\ Books' /\ Place'
    BY <1>1, <1>4, <1>5, <2>1 DEF TypeOK, HistOK, Books, Place
  <2> QED BY <1>3, <2>2
<1>6. CASE Known(i)
  <2> DEFINE t == [timers[i] EXCEPT !.cancelled = TRUE]
  <2>1. i \in 1..Len(timers) /\ timers[i] \in Slot
    BY <1>6, TableShape DEF Known
  <2>2. /\ t \in Slot /\ t.cancelled
        /\ t.interval = timers[i].interval
    BY <2>1 DEF Slot
  <2>3. timers' = [timers EXCEPT ![i] = t]
    BY <1>1, <1>6 DEF Cancelled, Known
  <2> HIDE DEF t
  <2>4. /\ timers' \in Seq(Slot) /\ Len(timers') = Len(timers) /\ Len(timers) \in Nat
        /\ i \in Ids
        /\ timers'[i] = t
        /\ \A id \in 1..Len(timers) : id # i => timers'[id] = timers[id]
    BY <2>1, <2>2, <2>3, OneSlotChanges
  <2>5. TypeOK'
    BY <1>1, <1>4, <2>4 DEF TypeOK, Slot
  <2>6. HistOK'
    BY <1>4, <2>4 DEF HistOK
  <2>7. Books'
    <3>1. Account(t, hist.made[i], hist.fires[i], clock)
      BY <2>1, <2>2 DEF Books, Account
    <3>2. \A id \in 1..Len(timers') :
             Account(timers'[id], hist'.made[id], hist'.fires[id], clock')
      BY <1>1, <1>4, <2>4, <3>1 DEF Books
    <3>3. \A id \in hist'.cleared : id <= Len(timers') /\ timers'[id].cancelled
      <4>1. \A id \in hist.cleared : id \in 1..Len(timers) /\ timers[id].cancelled
        BY <2>4 DEF Books, HistOK, Ids
      <4> QED BY <1>4, <1>6, <2>1, <2>2, <2>4, <4>1
    <3> QED BY <3>2, <3>3 DEF Books
  <2>8. Place'
    BY <1>1, <1>2, <2>4 DEF Place
  <2> QED BY <1>3, <2>5, <2>6, <2>7, <2>8
<1> QED BY <1>5, <1>6

\* A microtask is queued.
LEMMA QueueMicrotaskKeeps ==
    ASSUME IndInv, QueueMicrotask
    PROVE  IndInv'
<1> USE DEF IndInv
<1>1. /\ user /\ UNCHANGED <<clock, timers, phase, user, now, index, wakeAt>>
      /\ jobs' = jobs + 1
      /\ hist' = [hist EXCEPT !.queued = @ + 1]
  BY DEF QueueMicrotask, InLoop
<1>2. phase \in {"main", "drain", "fire", "settle"}
  BY <1>1 DEF TypeOK
<1>3. /\ hist'.made = hist.made /\ hist'.fires = hist.fires /\ hist'.cleared = hist.cleared
      /\ hist'.queued \in Nat
      /\ hist' = [made |-> hist'.made, fires |-> hist'.fires, cleared |-> hist'.cleared,
                  queued |-> hist'.queued]
  <2>1. hist.queued \in Nat
    BY DEF HistOK
  <2>2. hist.queued + 1 \in Nat
    BY <2>1
  <2> QED BY <1>1, <2>2 DEF HistOK
<1>4. HistOK' /\ Books'
  BY <1>1, <1>3 DEF HistOK, Books, Account
<1>5. TypeOK' /\ Place' /\ IdleMeansNothingPending' /\ SleepEndsInTime'
  BY <1>1, <1>2, <1>3, SMTT(30) DEF TypeOK, Place, IdleMeansNothingPending, SleepEndsInTime
<1> QED BY <1>4, <1>5

\* A timer fires.
LEMMA FireKeeps ==
    ASSUME IndInv, Fire
    PROVE  IndInv'
<1> DEFINE t == Fired(timers[index])
<1> USE DEF IndInv
<1>1. /\ phase = "fire" /\ user' /\ UNCHANGED <<clock, jobs, phase, now, index, wakeAt>>
      /\ index \in DOMAIN timers /\ ~timers[index].cancelled /\ timers[index].deadline <= now
      /\ timers' = [timers EXCEPT ![index] = t]
      /\ hist' = [hist EXCEPT !.fires[index] = @ + 1]
  BY DEF Fire, Due, Live, Known
<1>2. /\ index \in 1..Len(timers) /\ timers[index] \in Slot /\ timers[index].deadline <= clock
      /\ index \in Ids
  <2>1. Len(timers) \in Nat /\ index \in 1..Len(timers) /\ timers[index] \in Slot
    BY <1>1, TableShape
  <2>2. timers[index].deadline \in Nat /\ now \in Nat /\ clock \in Nat /\ now <= clock
    BY <2>1 DEF TypeOK, Place, Slot
  <2>3. index \in Ids
    BY <2>1, BoundsAssumption DEF HistOK, Ids
  <2> QED BY <1>1, <2>1, <2>2, <2>3
<1>3. hist.made[index] \in Making /\ hist.fires[index] \in Nat /\ clock \in Nat
  BY <1>2 DEF TypeOK, HistOK
<1>4. Account(timers[index], hist.made[index], hist.fires[index], clock)
  BY <1>2 DEF Books
<1>5. t \in Slot /\ Account(t, hist.made[index], hist.fires[index] + 1, clock)
  BY <1>1, <1>2, <1>3, <1>4, FiringBalances
<1> HIDE DEF t
<1>6. /\ timers' \in Seq(Slot) /\ Len(timers') = Len(timers) /\ Len(timers) \in Nat
      /\ timers'[index] = t
      /\ \A id \in 1..Len(timers) : id # index => timers'[id] = timers[id]
  BY <1>1, <1>2, <1>5, OneSlotChanges
<1>7. /\ hist'.made = hist.made /\ hist'.cleared = hist.cleared
      /\ hist'.fires = [hist.fires EXCEPT ![index] = @ + 1]
      /\ hist'.queued = hist.queued
      /\ hist' = [made |-> hist'.made, fires |-> hist'.fires, cleared |-> hist'.cleared,
                  queued |-> hist'.queued]
  BY <1>1 DEF HistOK
<1>8. /\ hist'.fires \in [Ids -> Nat] /\ hist'.fires[index] = hist.fires[index] + 1
      /\ \A id \in Ids : id # index => hist'.fires[id] = hist.fires[id]
  BY <1>2, <1>3, <1>7 DEF HistOK
<1>9. TypeOK'
  BY <1>1, <1>2, <1>6, <1>7 DEF TypeOK, Slot
<1>10. HistOK'
  <2>1. ASSUME NEW id \in Ids, id > Len(timers') PROVE hist'.fires[id] = 0
    <3>1. id # index
      BY <1>2, <1>6, <2>1 DEF Ids
    <3> QED BY <1>6, <1>8, <2>1, <3>1 DEF HistOK
  <2> QED BY <1>6, <1>7, <1>8, <2>1 DEF HistOK
<1>11. Books'
  <2>1. ASSUME NEW id \in 1..Len(timers')
        PROVE  Account(timers'[id], hist'.made[id], hist'.fires[id], clock')
    <3>1. id \in 1..Len(timers) /\ id \in Ids
      BY <1>6, BoundsAssumption DEF HistOK, Ids
    <3>2. CASE id = index
      BY <1>1, <1>5, <1>6, <1>7, <1>8, <3>2
    <3>3. CASE id # index
      BY <1>1, <1>6, <1>7, <1>8, <3>1, <3>3 DEF Books
    <3> QED BY <3>2, <3>3
  <2>2. \A id \in hist'.cleared : id <= Len(timers') /\ timers'[id].cancelled
    <3>1. \A id \in hist.cleared : id \in 1..Len(timers) /\ timers[id].cancelled
      BY <1>6 DEF Books, HistOK, Ids
    <3> QED BY <1>1, <1>6, <1>7, <3>1
  <2> QED BY <2>1, <2>2 DEF Books
<1>12. Place'
  BY <1>1, <1>2, <1>6 DEF Place
<1>13. IdleMeansNothingPending' /\ SleepEndsInTime'
  BY <1>1 DEF IdleMeansNothingPending, SleepEndsInTime
<1> QED BY <1>9, <1>10, <1>11, <1>12, <1>13

\* The loop goes to sleep: it will wake up in time.
LEMMA SleepKeeps ==
    ASSUME IndInv, Sleep
    PROVE  IndInv'
<1> USE DEF IndInv
<1>1. /\ phase = "peek" /\ ~NothingLive /\ NextDeadline > clock /\ phase' = "sleep"
      /\ wakeAt' = clock + SleepMs(NextDeadline - clock) * Ms
      /\ UNCHANGED <<clock, timers, jobs, user, now, index, hist>>
  BY DEF Sleep
<1>2. /\ clock \in Nat /\ NextDeadline \in Nat
      /\ \A id \in Ids : Live(id) => NextDeadline <= timers[id].deadline
  BY <1>1, TableShape, NextDeadlineIsLeast DEF TypeOK
<1>3. NextDeadline - clock \in Nat
  BY <1>1, <1>2
<1>4. /\ SleepMs(NextDeadline - clock) * Ms \in Nat
      /\ SleepMs(NextDeadline - clock) * Ms < NextDeadline - clock + Ms
  BY <1>3, SleepIsShort
<1>5. wakeAt' \in Nat /\ wakeAt' < NextDeadline + Ms
  BY <1>1, <1>2, <1>4, MsAssumption
<1>6. HistOK' /\ Books'
  BY <1>1, BooksKept
<1>7. TypeOK' /\ Place'
  BY <1>1, <1>5 DEF TypeOK, Place
<1>8. IdleMeansNothingPending'
  BY <1>1 DEF IdleMeansNothingPending, Place
<1>9. SleepEndsInTime'
  <2>1. \E id \in Ids : Live(id)
    BY <1>1 DEF NothingLive
  <2>2. \A id \in Ids : Live(id) => wakeAt' < timers[id].deadline + Ms
    <3>1. \A id \in Ids : Live(id) => timers[id].deadline \in Nat
      BY TableShape DEF Live, Known, Slot
    <3> QED BY <1>2, <1>5, <3>1, MsAssumption
  <2> QED BY <1>1, <2>1, <2>2 DEF SleepEndsInTime, Live, Known
<1> QED BY <1>6, <1>7, <1>8, <1>9

\* Every other step of the loop moves between its places.
LEMMA LoopKeeps ==
    ASSUME IndInv,
           \/ Return \/ Throw \/ RunJob \/ BeginPass \/ Skip \/ EndPass \/ Settled
           \/ ExitLoop \/ NextTurn \/ Wake \/ PollFails
    PROVE  IndInv'
<1> USE DEF IndInv
<1>1. HistOK' /\ Books'
  BY BooksKept DEF Return, Throw, RunJob, BeginPass, Skip, EndPass, Settled, ExitLoop,
                   NextTurn, Wake, PollFails
<1>2. Len(timers) \in Nat /\ DOMAIN timers = 1..Len(timers)
  BY TableShape
<1>3. CASE Return
  <2>1. /\ phase \in {"main", "drain", "fire", "settle"}
        /\ phase' \in {"drain", "fire", "settle"} /\ user' = FALSE
        /\ phase' = "fire" <=> phase = "fire"
        /\ UNCHANGED <<clock, timers, jobs, now, wakeAt, hist>>
    BY <1>3 DEF Return, TypeOK
  <2>2. phase' = "fire" => index' \in 1..(Len(timers) + 1)
    <3>1. phase = "fire" => index \in 1..(Len(timers) + 1) /\ index <= Len(timers)
      BY <1>3 DEF Return, TypeOK, Place
    <3>2. phase = "fire" => index' = index + 1
      BY <1>3 DEF Return
    <3> QED BY <1>2, <2>1, <3>1, <3>2
  <2>3. TypeOK'
    BY <2>1, <2>2 DEF TypeOK
  <2>4. Place' /\ IdleMeansNothingPending' /\ SleepEndsInTime'
    BY <2>1 DEF Place, IdleMeansNothingPending, SleepEndsInTime
  <2> QED BY <1>1, <2>3, <2>4
<1>4. CASE Throw
  BY <1>1, <1>4 DEF Throw, TypeOK, Place, IdleMeansNothingPending, SleepEndsInTime
<1>5. CASE RunJob
  BY <1>1, <1>5 DEF RunJob, TypeOK, Place, IdleMeansNothingPending, SleepEndsInTime
<1>6. CASE BeginPass
  <2>1. hist'.made = hist.made
    BY <1>6 DEF BeginPass, HistOK
  <2> QED BY <1>1, <1>2, <1>6, <2>1
        DEF BeginPass, TypeOK, Place, IdleMeansNothingPending, SleepEndsInTime
<1>7. CASE Skip
  BY <1>1, <1>2, <1>7
     DEF Skip, Known, TypeOK, Place, IdleMeansNothingPending, SleepEndsInTime
<1>8. CASE EndPass
  BY <1>1, <1>8 DEF EndPass, TypeOK, Place, IdleMeansNothingPending, SleepEndsInTime
<1>9. CASE Settled
  BY <1>1, <1>9 DEF Settled, TypeOK, Place, IdleMeansNothingPending, SleepEndsInTime
<1>10. CASE ExitLoop
  <2>1. NothingLive'
    BY <1>10 DEF ExitLoop, NothingLive, Live, Known
  <2> QED BY <1>1, <1>10, <2>1
        DEF ExitLoop, TypeOK, Place, IdleMeansNothingPending, SleepEndsInTime
<1>11. CASE NextTurn
  BY <1>1, <1>11 DEF NextTurn, TypeOK, Place, IdleMeansNothingPending, SleepEndsInTime
<1>12. CASE Wake
  BY <1>1, <1>12 DEF Wake, TypeOK, Place, IdleMeansNothingPending, SleepEndsInTime
<1>13. CASE PollFails
  BY <1>1, <1>13 DEF PollFails, TypeOK, Place, IdleMeansNothingPending, SleepEndsInTime
<1> QED BY <1>3, <1>4, <1>5, <1>6, <1>7, <1>8, <1>9, <1>10, <1>11, <1>12, <1>13
-----------------------------------------------------------------------------
(***************************************************************************)
(* Theorems.                                                               *)
(***************************************************************************)

\* The inductive invariant holds at the start and is kept by every step.
LEMMA Inductive == Spec => []IndInv
<1>1. Init => IndInv
  <2> SUFFICES ASSUME Init PROVE IndInv
    OBVIOUS
  <2>1. timers = <<>> /\ Len(timers) = 0 /\ DOMAIN timers = {}
    BY DEF Init
  <2>2. TypeOK
    BY <2>1 DEF Init, TypeOK
  <2>3. HistOK /\ Books
    BY <2>1, BoundsAssumption DEF Init, HistOK, Books
  <2>4. Place /\ IdleMeansNothingPending /\ SleepEndsInTime
    BY DEF Init, Place, IdleMeansNothingPending, SleepEndsInTime
  <2> QED BY <2>2, <2>3, <2>4 DEF IndInv
<1>2. IndInv /\ [Next]_vars => IndInv'
  <2> SUFFICES ASSUME IndInv, [Next]_vars PROVE IndInv'
    OBVIOUS
  <2>1. CASE Tick
    BY <2>1, TickKeeps
  <2>2. CASE ProgramCall
    BY <2>2, SetTimerKeeps, ClearTimerKeeps, QueueMicrotaskKeeps DEF ProgramCall
  <2>3. CASE Return \/ Throw \/ PollFails
    BY <2>3, LoopKeeps
  <2>4. CASE LoopTurn
    BY <2>4, LoopKeeps, FireKeeps, SleepKeeps DEF LoopTurn
  <2>5. CASE UNCHANGED vars
    BY <2>5 DEF vars, IndInv, TypeOK, HistOK, Books, Account, Place,
                IdleMeansNothingPending, SleepEndsInTime, NothingLive, Live, Known
  <2> QED BY <2>1, <2>2, <2>3, <2>4, <2>5 DEF Next
<1> QED BY <1>1, <1>2, PTL DEF Spec

\* Every timer of the table has its books in order.
LEMMA TimerAccounts ==
    ASSUME IndInv, NEW id \in DOMAIN timers
    PROVE  Account(timers[id], hist.made[id], hist.fires[id], clock)
  BY TableShape DEF IndInv, Books

\* No timer fires before its time or more often than its delay allows, a
\* timeout never a second time, however the clock runs, the sleep is rounded
\* or wrapped, polls fail, and callbacks create and clear timers.
THEOREM NoEarlyFiring == Spec => []NeverEarly
<1>1. IndInv => NeverEarly
  BY TimerAccounts DEF NeverEarly, Account
<1> QED BY <1>1, Inductive, PTL

\* The index of the loop over the table, the slots and the clock keep their
\* ranges, although callbacks add slots while the loop runs.
THEOREM TableStaysTyped == Spec => []TypeOK
<1>1. IndInv => TypeOK
  BY DEF IndInv
<1> QED BY <1>1, Inductive, PTL

\* The loop sleeps or ends only when no microtask waits, and ends only when no
\* timer is live.
THEOREM IdleOnlyWhenDone == Spec => []IdleMeansNothingPending
<1>1. IndInv => IdleMeansNothingPending
  BY DEF IndInv
<1> QED BY <1>1, Inductive, PTL

\* A sleep is over less than a millisecond after every live deadline.
THEOREM SleepsEndInTime == Spec => []SleepEndsInTime
<1>1. IndInv => SleepEndsInTime
  BY DEF IndInv
<1> QED BY <1>1, Inductive, PTL

\* A cleared timer never fires again: its slot stays cancelled, and no slot
\* is ever given to another timer.
THEOREM ClearedStaysCleared == Spec => ClearedNeverFires
<1>1. IndInv /\ [Next]_vars =>
         [\A id \in hist.cleared : hist'.fires[id] = hist.fires[id]]_vars
  <2> SUFFICES ASSUME IndInv, Next, NEW id \in hist.cleared
               PROVE  hist'.fires[id] = hist.fires[id]
    OBVIOUS
  <2>1. id \in Ids /\ timers[id].cancelled
    BY DEF IndInv, HistOK, Books
  <2>2. CASE Fire
    <3>1. index # id /\ hist' = [hist EXCEPT !.fires[index] = @ + 1]
      BY <2>1, <2>2 DEF Fire, Due, Live
    <3> QED BY <2>1, <3>1 DEF IndInv, HistOK
  <2>3. CASE ProgramCall
    BY <2>3 DEF ProgramCall, SetTimer, ClearTimer, QueueMicrotask, IndInv, HistOK
  <2>4. CASE BeginPass
    BY <2>4 DEF BeginPass, IndInv, HistOK
  <2>5. CASE UNCHANGED hist
    BY <2>5
  <2> QED BY <2>2, <2>3, <2>4, <2>5
        DEF Next, LoopTurn, Tick, Return, Throw, RunJob, Skip, EndPass, Settled, ExitLoop,
            NextTurn, Sleep, Wake, PollFails
<1> QED BY <1>1, Inductive, PTL DEF Spec, ClearedNeverFires
=============================================================================

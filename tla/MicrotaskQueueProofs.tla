------------------------ MODULE MicrotaskQueueProofs ------------------------
(***************************************************************************)
(* Proofs about MicrotaskQueue for every set of jobs and every initial     *)
(* array length: the indices stay inside the arrays, the drain loop never  *)
(* calls a null slot, and the array queue implements the FIFO queue.       *)
(***************************************************************************)
EXTENDS MicrotaskQueue, SequenceTheorems, TLAPS

\* The inductive invariant.  TypeOK is not inductive alone: DrainStep hands
\* mt.slots[mt.head] to the caller, so the live slots must hold jobs.
IndInv == TypeOK /\ LiveSlotsHoldJobs

\* What __microtask_grow returns: a well-formed buffer with the same waiting
\* jobs, provided the new array is long enough for them.
LEMMA GrowKeepsJobs ==
    ASSUME NEW b, WellFormed(b), HoldsJobs(b),
           NEW n \in Nat, b.tail - b.head <= n
    PROVE  /\ WellFormed(Grow(b, n))
           /\ HoldsJobs(Grow(b, n))
           /\ Grow(b, n).head = 0
           /\ Grow(b, n).tail = b.tail - b.head
           /\ Grow(b, n).cap = n
           /\ \A i \in 0..(b.tail - b.head - 1) :
                 Grow(b, n).slots[i] = b.slots[b.head + i]
<1> DEFINE w == b.tail - b.head
           s == [i \in 0..(n - 1) |-> IF i < w THEN b.slots[b.head + i] ELSE NoTask]
           g == [head |-> 0, tail |-> w, cap |-> n, slots |-> s]
<1>1. Grow(b, n) = g
  BY DEF Grow, Waiting
<1>2. g.head = 0 /\ g.tail = w /\ g.cap = n /\ g.slots = s
  OBVIOUS
<1>3. w \in Nat /\ w <= n /\ b.head \in Nat /\ b.tail \in Nat
  BY DEF WellFormed
<1>4. \A i \in 0..(w - 1) : b.slots[b.head + i] \in Task
  BY <1>3 DEF HoldsJobs
<1>5. \A i \in 0..(w - 1) : s[i] = b.slots[b.head + i]
  BY <1>3
<1>6. s \in [0..(n - 1) -> Task \cup {NoTask}]
  BY <1>3, <1>4
<1> HIDE DEF s
<1>7. WellFormed(g)
  BY <1>2, <1>3, <1>6 DEF WellFormed
<1>8. HoldsJobs(g)
  BY <1>2, <1>3, <1>4, <1>5 DEF HoldsJobs
<1> QED BY <1>1, <1>2, <1>5, <1>7, <1>8

\* After __microtask_enqueue has made room, the tail is inside the array and
\* the waiting jobs are the ones that waited before.
LEMMA RoomKeepsJobs ==
    ASSUME NEW b, WellFormed(b), HoldsJobs(b)
    PROVE  LET r == RoomForOne(b) IN
           /\ WellFormed(r)
           /\ HoldsJobs(r)
           /\ r.tail < r.cap
           /\ r.tail - r.head = b.tail - b.head
           /\ \A i \in 0..(b.tail - b.head - 1) :
                 r.slots[r.head + i] = b.slots[b.head + i]
<1> DEFINE a == Allocated(b)
           r == WithRoom(a)
<1>1. /\ WellFormed(a) /\ HoldsJobs(a)
      /\ a.cap > 0
      /\ a.tail - a.head = b.tail - b.head
      /\ \A i \in 0..(b.tail - b.head - 1) : a.slots[a.head + i] = b.slots[b.head + i]
  <2>1. CASE NullArray(b)
    <3>1. b.cap = 0 /\ b.tail = 0 /\ b.head = 0
      BY <2>1 DEF NullArray, WellFormed
    <3>2. a = Grow(b, InitialSlots)
      BY <2>1 DEF Allocated
    <3> QED BY <3>1, <3>2, GrowKeepsJobs, InitialSlotsAssumption
  <2>2. CASE ~NullArray(b)
    <3>1. a = b
      BY <2>2 DEF Allocated
    <3>2. b.cap > 0
      BY <2>2 DEF NullArray, WellFormed
    <3> QED BY <3>1, <3>2
  <2> QED BY <2>1, <2>2
<1> HIDE DEF a
<1>2. /\ WellFormed(r) /\ HoldsJobs(r)
      /\ r.tail < r.cap
      /\ r.tail - r.head = a.tail - a.head
      /\ \A i \in 0..(a.tail - a.head - 1) : r.slots[r.head + i] = a.slots[a.head + i]
  <2>0. a.head \in Nat /\ a.tail \in Nat /\ a.cap \in Nat /\ a.head <= a.tail /\ a.tail <= a.cap
    BY <1>1 DEF WellFormed
  <2>1. CASE a.tail = a.cap
    <3>1. r = Grow(a, 2 * a.cap)
      BY <2>1 DEF WithRoom
    <3>2. 2 * a.cap \in Nat /\ a.tail - a.head <= 2 * a.cap /\ a.tail - a.head < 2 * a.cap
      BY <1>1, <2>0
    <3> QED BY <1>1, <2>0, <3>1, <3>2, GrowKeepsJobs
  <2>2. CASE a.tail # a.cap
    <3>1. r = a
      BY <2>2 DEF WithRoom
    <3> QED BY <1>1, <2>0, <2>2, <3>1
  <2> QED BY <2>1, <2>2
<1>3. RoomForOne(b) = r
  BY DEF RoomForOne, a
<1> HIDE DEF r
<1> QED BY <1>1, <1>2, <1>3

\* Storing a job behind the tail adds exactly that job.
LEMMA StoreAddsJob ==
    ASSUME NEW b, WellFormed(b), HoldsJobs(b), b.tail < b.cap, NEW t \in Task
    PROVE  /\ WellFormed(Store(b, t))
           /\ HoldsJobs(Store(b, t))
           /\ Store(b, t).head = b.head
           /\ Store(b, t).tail = b.tail + 1
           /\ Store(b, t).slots[b.tail] = t
           /\ \A i \in b.head..(b.tail - 1) : Store(b, t).slots[i] = b.slots[i]
<1> DEFINE s == [b.slots EXCEPT ![b.tail] = t]
           g == [head |-> b.head, tail |-> b.tail + 1, cap |-> b.cap, slots |-> s]
<1>1. Store(b, t) = g
  BY DEF Store
<1>2. g.head = b.head /\ g.tail = b.tail + 1 /\ g.cap = b.cap /\ g.slots = s
  OBVIOUS
<1>3. /\ b.head \in Nat /\ b.tail \in Nat /\ b.cap \in Nat /\ b.head <= b.tail
      /\ b.slots \in [0..(b.cap - 1) -> Task \cup {NoTask}]
  BY DEF WellFormed
<1>4. /\ s \in [0..(b.cap - 1) -> Task \cup {NoTask}]
      /\ s[b.tail] = t
      /\ \A i \in b.head..(b.tail - 1) : s[i] = b.slots[i]
  BY <1>3
<1> HIDE DEF s
<1>5. WellFormed(g)
  BY <1>2, <1>3, <1>4 DEF WellFormed
<1>6. HoldsJobs(g)
  BY <1>2, <1>3, <1>4 DEF HoldsJobs
<1> QED BY <1>1, <1>2, <1>4, <1>5, <1>6

\* The waiting jobs form a sequence of jobs.
LEMMA JobsIsSequence ==
    ASSUME NEW b, WellFormed(b), HoldsJobs(b)
    PROVE  /\ Jobs(b) \in Seq(Task)
           /\ Len(Jobs(b)) = b.tail - b.head
           /\ \A i \in 1..(b.tail - b.head) : Jobs(b)[i] = b.slots[b.head + i - 1]
<1>1. b.head \in Nat /\ b.tail \in Nat /\ b.tail - b.head \in Nat
  BY DEF WellFormed
<1>2. \A i \in 1..(b.tail - b.head) : b.slots[b.head + i - 1] \in Task
  BY <1>1 DEF HoldsJobs
<1> QED BY <1>1, <1>2 DEF Jobs

\* Making room changes where the jobs are, not what they are.
LEMMA RoomSameJobs ==
    ASSUME NEW b, WellFormed(b), HoldsJobs(b)
    PROVE  Jobs(RoomForOne(b)) = Jobs(b)
<1> DEFINE r == RoomForOne(b)
           n == b.tail - b.head
<1>1. /\ WellFormed(r) /\ HoldsJobs(r) /\ r.tail - r.head = n
      /\ \A i \in 0..(n - 1) : r.slots[r.head + i] = b.slots[b.head + i]
  BY RoomKeepsJobs
<1>2. b.head \in Nat /\ r.head \in Nat /\ n \in Nat
  BY <1>1 DEF WellFormed
<1> HIDE DEF r, n
<1>3. ASSUME NEW i \in 1..n
      PROVE  r.slots[r.head + i - 1] = b.slots[b.head + i - 1]
  <2>1. i - 1 \in 0..(n - 1) /\ r.head + (i - 1) = r.head + i - 1 /\ b.head + (i - 1) = b.head + i - 1
    BY <1>2
  <2> QED BY <1>1, <2>1
<1>4. Jobs(r) = [i \in 1..n |-> r.slots[r.head + i - 1]]
  BY <1>1 DEF Jobs
<1>5. Jobs(b) = [i \in 1..n |-> b.slots[b.head + i - 1]]
  BY DEF Jobs, n
<1> QED BY <1>3, <1>4, <1>5 DEF r

\* Storing behind the tail appends to the sequence of waiting jobs.
LEMMA StoreAppends ==
    ASSUME NEW b, WellFormed(b), HoldsJobs(b), b.tail < b.cap, NEW t \in Task
    PROVE  Jobs(Store(b, t)) = Append(Jobs(b), t)
<1> DEFINE g == Store(b, t)
           n == b.tail - b.head
<1>1. /\ WellFormed(g) /\ HoldsJobs(g) /\ g.head = b.head /\ g.tail = b.tail + 1
      /\ g.slots[b.tail] = t /\ \A i \in b.head..(b.tail - 1) : g.slots[i] = b.slots[i]
  BY StoreAddsJob
<1>2. b.head \in Nat /\ b.tail \in Nat /\ n \in Nat
  BY DEF WellFormed
<1> HIDE DEF g
<1>3. /\ Jobs(b) \in Seq(Task) /\ Len(Jobs(b)) = n
      /\ \A i \in 1..n : Jobs(b)[i] = b.slots[b.head + i - 1]
  BY JobsIsSequence
<1>4. /\ Jobs(g) \in Seq(Task) /\ Len(Jobs(g)) = n + 1
      /\ \A i \in 1..(n + 1) : Jobs(g)[i] = g.slots[b.head + i - 1]
  <2>1. g.tail - g.head = n + 1
    BY <1>1, <1>2
  <2> QED BY <1>1, <2>1, JobsIsSequence
<1>5. ASSUME NEW i \in 1..n PROVE Jobs(g)[i] = Jobs(b)[i]
  <2>1. b.head + i - 1 \in b.head..(b.tail - 1) /\ i \in 1..(n + 1)
    BY <1>2
  <2> QED BY <1>1, <1>3, <1>4, <2>1
<1>6. Jobs(g)[n + 1] = t
  <2>1. b.head + (n + 1) - 1 = b.tail /\ n + 1 \in 1..(n + 1)
    BY <1>2
  <2> QED BY <1>1, <1>4, <2>1
<1> HIDE DEF n
<1>7. /\ Append(Jobs(b), t) \in Seq(Task) /\ Len(Append(Jobs(b), t)) = n + 1
      /\ \A i \in 1..n : Append(Jobs(b), t)[i] = Jobs(b)[i]
      /\ Append(Jobs(b), t)[n + 1] = t
  BY <1>3, AppendProperties
<1>8. \A i \in 1..(n + 1) : Jobs(g)[i] = Append(Jobs(b), t)[i]
  <2> TAKE i \in 1..(n + 1)
  <2>1. i \in 1..n \/ i = n + 1
    BY <1>2 DEF n
  <2> QED BY <1>5, <1>6, <1>7, <2>1
<1>9. Jobs(g) = Append(Jobs(b), t)
  BY <1>4, <1>7, <1>8, SeqEqual
<1> QED BY <1>9 DEF g

\* Advancing __mt_head takes the first waiting job away.
LEMMA AdvanceTakesFirst ==
    ASSUME NEW b, WellFormed(b), HoldsJobs(b), b.head < b.tail
    PROVE  LET g == [b EXCEPT !.head = b.head + 1] IN
           /\ WellFormed(g) /\ HoldsJobs(g)
           /\ Jobs(b) # <<>>
           /\ Head(Jobs(b)) = b.slots[b.head]
           /\ Jobs(g) = Tail(Jobs(b))
<1> DEFINE g == [b EXCEPT !.head = b.head + 1]
           n == b.tail - b.head
<1>1. g.head = b.head + 1 /\ g.tail = b.tail /\ g.cap = b.cap /\ g.slots = b.slots
  BY DEF WellFormed
<1>2. b.head \in Nat /\ b.tail \in Nat /\ n \in Nat /\ n - 1 \in Nat
  BY DEF WellFormed
<1>3. WellFormed(g) /\ HoldsJobs(g)
  BY <1>1 DEF WellFormed, HoldsJobs
<1> HIDE DEF g
<1>4. /\ Jobs(b) \in Seq(Task) /\ Len(Jobs(b)) = n
      /\ \A i \in 1..n : Jobs(b)[i] = b.slots[b.head + i - 1]
  BY JobsIsSequence
<1>5. /\ Jobs(g) \in Seq(Task) /\ Len(Jobs(g)) = n - 1
      /\ \A i \in 1..(n - 1) : Jobs(g)[i] = b.slots[b.head + 1 + i - 1]
  <2>1. g.tail - g.head = n - 1
    BY <1>1, <1>2
  <2> QED BY <1>1, <1>3, <2>1, JobsIsSequence
<1>6. Jobs(b) # <<>>
  BY <1>2, <1>4
<1>7. Head(Jobs(b)) = b.slots[b.head]
  <2>1. b.head + 1 - 1 = b.head /\ 1 \in 1..n
    BY <1>2
  <2>2. Jobs(b)[1] = b.slots[b.head]
    BY <1>4, <2>1
  <2> QED BY <1>4, <1>6, <2>2
<1>8. /\ Tail(Jobs(b)) \in Seq(Task) /\ Len(Tail(Jobs(b))) = n - 1
      /\ \A i \in 1..(n - 1) : Tail(Jobs(b))[i] = Jobs(b)[i + 1]
  BY <1>4, <1>6, HeadTailProperties
<1>9. \A i \in 1..(n - 1) : Jobs(g)[i] = Tail(Jobs(b))[i]
  <2> TAKE i \in 1..(n - 1)
  <2>1. i + 1 \in 1..n /\ b.head + 1 + i - 1 = b.head + (i + 1) - 1
    BY <1>2
  <2> QED BY <1>4, <1>5, <1>8, <2>1
<1> HIDE DEF n
<1>10. Jobs(g) = Tail(Jobs(b))
  BY <1>5, <1>8, <1>9, SeqEqual
<1> QED BY <1>3, <1>6, <1>7, <1>10 DEF g

\* The inductive invariant holds in every reachable state.
LEMMA Inductive == Spec => []IndInv
<1>1. Init => IndInv
  BY DEF Init, IndInv, TypeOK, LiveSlotsHoldJobs, WellFormed, HoldsJobs
<1>2. IndInv /\ [Next]_vars => IndInv'
  <2> SUFFICES ASSUME IndInv, [Next]_vars PROVE IndInv'
    OBVIOUS
  <2> USE DEF IndInv, TypeOK, LiveSlotsHoldJobs
  <2>1. ASSUME NEW t \in Task, Enqueue(t) PROVE IndInv'
    <3>1. mt' = Store(RoomForOne(mt), t)
      BY <2>1 DEF Enqueue
    <3>2. WellFormed(mt') /\ HoldsJobs(mt')
      BY <3>1, RoomKeepsJobs, StoreAddsJob
    <3> QED BY <2>1, <3>2 DEF Enqueue, WellFormed, HoldsJobs
  <2>2. CASE CallDrain
    BY <2>2 DEF CallDrain, WellFormed, HoldsJobs
  <2>3. CASE DrainStep
    <3>1. mt.head < mt.tail /\ mt.slots[mt.head] \in Task
      BY <2>3 DEF DrainStep, WellFormed, HoldsJobs
    <3>2. WellFormed(mt') /\ HoldsJobs(mt')
      BY <2>3, <3>1, AdvanceTakesFirst DEF DrainStep
    <3> QED BY <2>3, <3>1, <3>2 DEF DrainStep, WellFormed, HoldsJobs
  <2>4. CASE DrainExit
    BY <2>4 DEF DrainExit, WellFormed, HoldsJobs
  <2>5. CASE JobReturn
    BY <2>5 DEF JobReturn, WellFormed, HoldsJobs
  <2>6. CASE JobThrow
    BY <2>6 DEF JobThrow, WellFormed, HoldsJobs
  <2>7. CASE UncaughtThrow
    BY <2>7 DEF UncaughtThrow, WellFormed, HoldsJobs
  <2>8. CASE UNCHANGED vars
    BY <2>8 DEF vars, WellFormed, HoldsJobs
  <2> QED BY <2>1, <2>2, <2>3, <2>4, <2>5, <2>6, <2>7, <2>8 DEF Next
<1> QED BY <1>1, <1>2, PTL DEF Spec

\* The head and the tail of the queue stay ordered and inside its arrays, and
\* the arrays keep their lengths: no grow, nested drain or throw between two
\* steps of the drain loop leaves an index outside.
THEOREM IndicesStayInside == Spec => []TypeOK
<1>1. IndInv => TypeOK
  BY DEF IndInv
<1> QED BY <1>1, Inductive, PTL

\* The drain loop never calls a null slot: every slot between the head and
\* the tail holds a job.
THEOREM QueueInvariant == Spec => []LiveSlotsHoldJobs
<1>1. IndInv => LiveSlotsHoldJobs
  BY DEF IndInv
<1> QED BY <1>1, Inductive, PTL

\* The array queue implements the FIFO queue: a grow, a nested drain, a
\* return or a throw is a stuttering step of it, an enqueue is a Put, and a
\* turn of the drain loop is a Take.
THEOREM QueueImplementsFifo == Spec => ImplementsFifo
<1>1. Init => Fifo!FifoInit
  <2> SUFFICES ASSUME Init PROVE Fifo!FifoInit
    OBVIOUS
  <2>1. mt.head = 0 /\ mt.tail = 0
    BY DEF Init
  <2>2. Jobs(mt) = <<>>
    BY <2>1 DEF Jobs
  <2> QED BY <2>2 DEF Init, Fifo!FifoInit
<1>2. IndInv /\ [Next]_vars => [Fifo!FifoNext]_(Fifo!fifoVars)
  <2> SUFFICES ASSUME IndInv, [Next]_vars PROVE [Fifo!FifoNext]_(Fifo!fifoVars)
    OBVIOUS
  <2>0. WellFormed(mt) /\ HoldsJobs(mt)
    BY DEF IndInv, TypeOK, LiveSlotsHoldJobs
  <2>1. ASSUME NEW t \in Task, Enqueue(t) PROVE Fifo!Put(t)
    <3>1. mt' = Store(RoomForOne(mt), t) /\ started' = started
      BY <2>1 DEF Enqueue
    <3>2. /\ WellFormed(RoomForOne(mt)) /\ HoldsJobs(RoomForOne(mt))
          /\ RoomForOne(mt).tail < RoomForOne(mt).cap
          /\ Jobs(RoomForOne(mt)) = Jobs(mt)
      BY <2>0, RoomKeepsJobs, RoomSameJobs
    <3>3. Jobs(Store(RoomForOne(mt), t)) = Append(Jobs(mt), t)
      BY <3>2, StoreAppends
    <3>4. Jobs(mt)' = Append(Jobs(mt), t)
      BY <3>1, <3>3 DEF Jobs
    <3> QED BY <3>1, <3>4 DEF Fifo!Put
  <2>2. CASE DrainStep
    <3>1. /\ mt' = [mt EXCEPT !.head = mt.head + 1]
          /\ started' = mt.slots[mt.head] /\ mt.head < mt.tail
      BY <2>0, <2>2 DEF DrainStep, WellFormed
    <3>2. /\ Jobs(mt) # <<>> /\ Head(Jobs(mt)) = mt.slots[mt.head]
          /\ Jobs([mt EXCEPT !.head = mt.head + 1]) = Tail(Jobs(mt))
      BY <2>0, <3>1, AdvanceTakesFirst
    <3>3. Jobs(mt)' = Tail(Jobs(mt))
      BY <3>1, <3>2 DEF Jobs
    <3> QED BY <3>1, <3>2, <3>3 DEF Fifo!FifoNext, Fifo!Take
  <2>3. ASSUME UNCHANGED <<mt, started>> PROVE UNCHANGED Fifo!fifoVars
    BY <2>3 DEF Fifo!fifoVars, Jobs
  <2>4. CASE CallDrain
    BY <2>3, <2>4 DEF CallDrain
  <2>5. CASE DrainExit
    BY <2>3, <2>5 DEF DrainExit
  <2>6. CASE JobReturn
    BY <2>3, <2>6 DEF JobReturn
  <2>7. CASE JobThrow
    BY <2>3, <2>7 DEF JobThrow
  <2>8. CASE UncaughtThrow
    BY <2>3, <2>8 DEF UncaughtThrow
  <2>9. CASE UNCHANGED vars
    BY <2>3, <2>9 DEF vars
  <2> QED BY <2>1, <2>2, <2>4, <2>5, <2>6, <2>7, <2>8, <2>9 DEF Next, Fifo!FifoNext
<1>3. Spec => []IndInv
  BY Inductive
<1> QED BY <1>1, <1>2, <1>3, PTL DEF Spec, ImplementsFifo, Fifo!FifoSpec
=============================================================================

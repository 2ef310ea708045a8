-------------------------- MODULE AsyncFramesProofs --------------------------
(***************************************************************************)
(* Proofs about AsyncFrames, for every program that calls no method of a   *)
(* generator that is running or awaiting (~Overlap): any number of calls,  *)
(* frames and nested activations.                                          *)
(*                                                                         *)
(* The inductive invariant Inv says who will resume a frame and with what. *)
(* A reaction of a promise is of a frame that was suspended at an await of *)
(* just that promise; a job of the queue brings its frame the outcome of   *)
(* what it awaits; no frame has two of them, and none has one that is on   *)
(* the stack.  A frame on the stack has one activation, whose result       *)
(* promise is pending and nobody else's.  A frame that is asked for a      *)
(* result is answered, running, or will be resumed.  InvBut(e, ...) is the *)
(* invariant inside of a step, when the frame e is about to be answered,   *)
(* entered or suspended.                                                   *)
(***************************************************************************)
EXTENDS AsyncFrames, SequenceTheorems, FiniteSetTheorems, TLAPS

\* What promises, frames and jobs hold.
Val == Value \cup {Thenable, Poisoned, NoValue} \cup Int

\* How a promise can be settled.
Settlement == [state : {"fulfilled", "rejected"}, value : Val]

\* A reaction of a promise: every one resumes a frame.
Reaction == [onFulfilled : {"step_fulfill"}, onRejected : {"step_reject"}, caps : [frame : Nat]]

\* A promise.
PromiseRecord ==
    [state : {"pending", "fulfilled", "rejected"}, value : Val, callbacks : Seq(Reaction)]

\* A job of the microtask queue.
JobRecord == [fn : {"step_fulfill", "step_reject"}, caps : [frame : Nat], arg : Val]

\* The values of STATE.
StateRecord ==
    [does : {"code", "tail", "deliver", "completed"}, region : Regions,
     next : {"bind", "return", "yield"}]

\* A frame.
FrameRecord ==
    [kind : {"function", "generator"}, always : BOOLEAN, state : StateRecord, sent : Val,
     mode : {"next", "throw"}, error : Val, result : Ids \cup {NoValue}, awaits : Val,
     got : Settlement \cup {NoValue}, asked : BOOLEAN,
     over : {"no", "threw", "returned", "escaped"}]

\* An activation.
ActivationRecord ==
    [kind : {"main", "drain", "body"}, at : {"run", "finally", "raised"}, frame : Nat,
     result : Ids \cup {NoValue}, reason : Val]

\* The state of the runtime.
Runtime ==
    [promise : [Ids -> PromiseRecord], minted : Nat, queue : Seq(JobRecord),
     unhandled : Seq([promise : Ids, handled : BOOLEAN])]

\* p is not settled.
Pending(r, p) == r.promise[p].state = "pending"

\* The reactions of p.
Callbacks(r, p) == r.promise[p].callbacks

\* Frame f is on the stack S.
On(S, f) == \E i \in 1..Len(S) : S[i].frame = f

\* st and v are the outcome of what the frame fr awaits.
Matches(r, fr, st, v) ==
    /\ fr.awaits \in Ids =>
          /\ ~Pending(r, fr.awaits)
          /\ st = r.promise[fr.awaits].state
          /\ v = r.promise[fr.awaits].value
    /\ fr.awaits \notin Ids => st = "fulfilled" /\ v = fr.awaits

\* The body of fr has received what it awaited, if anything.
Delivered(r, fr) == fr.got # NoValue => Matches(r, fr, fr.got.state, fr.got.value)

\* The promises are allocated in order, and the bounds of the calls hold.
Counted(r, res, c) ==
    /\ c \in 0..MaxCalls
    /\ r.minted <= MaxInputs + c
    /\ \A p \in Ids : p > r.minted => r.promise[p] = NewPromise
    /\ \A p \in Ids : Len(Callbacks(r, p)) <= c
    /\ res \subseteq 1..r.minted

\* Frame f has been suspended at an await.
Waits(r, F, S, f) ==
    /\ f \in 1..Len(F)
    /\ F[f].asked
    /\ F[f].over = "no"
    /\ F[f].state.does = "deliver"
    /\ F[f].mode = "next"
    /\ Pending(r, F[f].result)
    /\ ~On(S, f)

\* The frame record fr of a frame that is on the stack or not.
FrameOK(r, fr, on, res) ==
    /\ fr.asked => fr.result \in Ids /\ fr.result <= r.minted /\ fr.result \notin res
    /\ ~fr.asked => fr.kind = "generator" /\ fr.over = "no" /\ ~on /\ fr.state.does # "deliver"
    /\ fr.over = "escaped" => fr.kind = "function"
    /\ fr.kind = "generator" => fr.state.region = "none" /\ fr.state.next # "return"
    /\ fr.kind = "generator" /\ fr.over # "no" => fr.state.does = "completed"
    /\ fr.over = "no" /\ ~on => fr.mode = "next"
    /\ Delivered(r, fr)

\* All frames, whose results are different promises.
FramesOK(r, F, S, res) ==
    /\ \A f \in 1..Len(F) : FrameOK(r, F[f], On(S, f), res)
    /\ \A f, g \in 1..Len(F) : F[f].asked /\ F[g].asked /\ F[f].result = F[g].result => f = g

\* The activation a of a frame of F.
BodyOK(r, F, a) ==
    /\ a.frame \in 1..Len(F)
    /\ F[a.frame].asked
    /\ F[a.frame].over = "no"
    /\ a.result = F[a.frame].result
    /\ Pending(r, a.result)
    /\ a.at # "finally" => F[a.frame].mode = "next"
    /\ a.at = "finally" => F[a.frame].kind = "function"

\* The activations: the main program is at the bottom, and no frame has two.
StackOK(r, F, S) ==
    /\ \A i \in 1..Len(S) :
          /\ S[i].kind = "main" <=> i = Len(S)
          /\ S[i].kind # "body" => S[i].frame = 0 /\ S[i].at # "finally"
          /\ S[i].kind = "body" => BodyOK(r, F, S[i])
    /\ \A i, j \in 1..Len(S) : S[i].kind = "body" /\ S[j].frame = S[i].frame => i = j

\* Reactions and jobs are of frames that wait for just that.
ReactionsOK(r, F, S) ==
    \A p \in Ids :
        /\ \A i \in 1..Len(Callbacks(r, p)) :
              /\ Pending(r, p)
              /\ Waits(r, F, S, Callbacks(r, p)[i].caps.frame)
              /\ F[Callbacks(r, p)[i].caps.frame].awaits = p
        /\ \A i, j \in 1..Len(Callbacks(r, p)) :
              Callbacks(r, p)[i].caps.frame = Callbacks(r, p)[j].caps.frame => i = j

\* The outcome that a job brings.
JobState(job) == IF job.fn = "step_fulfill" THEN "fulfilled" ELSE "rejected"

\* The jobs, each of which brings its frame the outcome it waits for.
JobsOK(r, F, S) ==
    /\ \A j \in 1..Len(r.queue) :
          /\ Waits(r, F, S, r.queue[j].caps.frame)
          /\ Matches(r, F[r.queue[j].caps.frame], JobState(r.queue[j]), r.queue[j].arg)
    /\ \A i, j \in 1..Len(r.queue) : r.queue[i].caps.frame = r.queue[j].caps.frame => i = j

\* A reaction or a job will resume f.
Resumed(r, f) ==
    \/ \E p \in Ids : \E i \in 1..Len(Callbacks(r, p)) : Callbacks(r, p)[i].caps.frame = f
    \/ \E j \in 1..Len(r.queue) : r.queue[j].caps.frame = f

\* f is answered, or it is asked for nothing, or on the stack, or will be resumed.
Answerable(r, fr, f, S) ==
    fr.asked =>
        /\ fr.over \in {"threw", "returned"} => ~Pending(r, fr.result)
        /\ fr.over = "no" /\ ~On(S, f) /\ Pending(r, fr.result) => Resumed(r, f)

\* The invariant; the frame e is about to be answered, entered or suspended.
InvBut(e, r, F, S, res, c) ==
    /\ r \in Runtime
    /\ F \in Seq(FrameRecord)
    /\ S \in Seq(ActivationRecord)
    /\ Counted(r, res, c)
    /\ FramesOK(r, F, S, res)
    /\ StackOK(r, F, S)
    /\ ReactionsOK(r, F, S)
    /\ JobsOK(r, F, S)
    /\ \A f \in 1..Len(F) : f # e => Answerable(r, F[f], f, S)

\* The inductive invariant.
Inv == InvBut(0, rt, frame, stack, resolvable, calls)
-----------------------------------------------------------------------------
\* A stack without its first activation.
LEMMA TailParts ==
    ASSUME NEW T, NEW S \in Seq(T), S # <<>>
    PROVE  /\ Tail(S) \in Seq(T)
           /\ Len(Tail(S)) = Len(S) - 1
           /\ \A i \in 1..Len(Tail(S)) : i + 1 \in 1..Len(S) /\ Tail(S)[i] = S[i + 1]
           /\ \A i \in 1..Len(S) : i # 1 => i - 1 \in 1..Len(Tail(S)) /\ Tail(S)[i - 1] = S[i]
           /\ 1 \in 1..Len(S) /\ Head(S) = S[1]
  OBVIOUS

\* A stack with an activation more.
LEMMA ConsParts ==
    ASSUME NEW T, NEW S \in Seq(T), NEW a \in T
    PROVE  /\ <<a>> \o S \in Seq(T)
           /\ Len(<<a>> \o S) = Len(S) + 1
           /\ (<<a>> \o S)[1] = a
           /\ \A i \in 1..Len(S) : i + 1 \in 1..Len(<<a>> \o S) /\ (<<a>> \o S)[i + 1] = S[i]
           /\ \A i \in 1..Len(<<a>> \o S) :
                 i # 1 => i - 1 \in 1..Len(S) /\ (<<a>> \o S)[i] = S[i - 1]
  OBVIOUS

\* What is on the stack when its first activation is gone, and when one is added.
LEMMA TailOn ==
    ASSUME NEW T, NEW S \in Seq(T), S # <<>>, NEW f
    PROVE  /\ On(Tail(S), f) => On(S, f)
           /\ S[1].frame # f => (On(Tail(S), f) <=> On(S, f))
  <1>1. On(Tail(S), f) => On(S, f)
    BY TailParts DEF On
  <1>2. ASSUME S[1].frame # f, On(S, f) PROVE On(Tail(S), f)
    <2>1. PICK i \in 1..Len(S) : S[i].frame = f
      BY <1>2 DEF On
    <2>2. i - 1 \in 1..Len(Tail(S)) /\ Tail(S)[i - 1] = S[i]
      BY <2>1, <1>2, TailParts
    <2> QED BY <2>1, <2>2 DEF On
  <1> QED BY <1>1, <1>2

\* What is on a stack with an activation more.
LEMMA ConsOn ==
    ASSUME NEW T, NEW S \in Seq(T), NEW a \in T, NEW f
    PROVE  On(<<a>> \o S, f) <=> a.frame = f \/ On(S, f)
  <1>1. ASSUME On(<<a>> \o S, f) PROVE a.frame = f \/ On(S, f)
    <2>1. PICK i \in 1..Len(<<a>> \o S) : (<<a>> \o S)[i].frame = f
      BY <1>1 DEF On
    <2>2. i # 1 => i - 1 \in 1..Len(S) /\ (<<a>> \o S)[i] = S[i - 1]
      BY ConsParts
    <2> QED BY <2>1, <2>2, ConsParts DEF On
  <1>2. ASSUME a.frame = f PROVE On(<<a>> \o S, f)
    <2>1. 1 \in 1..Len(<<a>> \o S) /\ (<<a>> \o S)[1] = a
      BY ConsParts
    <2> QED BY <1>2, <2>1 DEF On
  <1>3. ASSUME On(S, f) PROVE On(<<a>> \o S, f)
    <2>1. PICK i \in 1..Len(S) : S[i].frame = f
      BY <1>3 DEF On
    <2>2. i + 1 \in 1..Len(<<a>> \o S) /\ (<<a>> \o S)[i + 1] = S[i]
      BY ConsParts
    <2> QED BY <2>1, <2>2 DEF On
  <1> QED BY <1>1, <1>2, <1>3

\* The elements of the lists and of the queue are what they should be.
LEMMA ListTyped ==
    ASSUME NEW r \in Runtime, NEW p \in Ids
    PROVE  /\ r.promise[p] \in PromiseRecord
           /\ Callbacks(r, p) \in Seq(Reaction)
           /\ Len(Callbacks(r, p)) \in Nat
           /\ \A i \in 1..Len(Callbacks(r, p)) :
                 /\ Callbacks(r, p)[i] \in Reaction
                 /\ Callbacks(r, p)[i].caps = Step(Callbacks(r, p)[i].caps.frame)
                 /\ Callbacks(r, p)[i].caps.frame \in Nat
  <1>1. r.promise[p] \in PromiseRecord
    BY DEF Runtime
  <1>2. Callbacks(r, p) \in Seq(Reaction) /\ Len(Callbacks(r, p)) \in Nat
    BY <1>1 DEF PromiseRecord, Callbacks
  <1>3. \A i \in 1..Len(Callbacks(r, p)) : Callbacks(r, p)[i] \in Reaction
    BY <1>2
  <1> QED
    BY <1>1, <1>2, <1>3 DEF Reaction, Step

\* The elements of the queue are what they should be.
LEMMA QueueTyped ==
    ASSUME NEW r \in Runtime
    PROVE  /\ r.queue \in Seq(JobRecord)
           /\ Len(r.queue) \in Nat
           /\ \A i \in 1..Len(r.queue) :
                 /\ r.queue[i] \in JobRecord
                 /\ r.queue[i].caps = Step(r.queue[i].caps.frame)
                 /\ r.queue[i].caps.frame \in Nat
  <1>1. r.queue \in Seq(JobRecord) /\ Len(r.queue) \in Nat
    BY DEF Runtime
  <1>2. \A i \in 1..Len(r.queue) : r.queue[i] \in JobRecord
    BY <1>1
  <1> QED
    BY <1>1, <1>2 DEF JobRecord, Step

\* A table is a sequence.
LEMMA Tabled ==
    ASSUME NEW S, NEW n \in Nat, NEW f \in [1..n -> S]
    PROVE  f \in Seq(S) /\ Len(f) = n
  OBVIOUS
-----------------------------------------------------------------------------
(***************************************************************************)
(* What the emitted promise functions do, as relations between the runtime *)
(* before and after.                                                       *)
(***************************************************************************)

\* p is settled, and its reactions become jobs.
Settles(r, s, p, st, v) ==
    /\ s \in Runtime
    /\ s.minted = r.minted
    /\ \A q \in Ids \ {p} : s.promise[q] = r.promise[q]
    /\ s.promise[p].state = st
    /\ s.promise[p].value = v
    /\ s.promise[p].callbacks = <<>>
    /\ Len(s.queue) = Len(r.queue) + Len(Callbacks(r, p))
    /\ \A i \in 1..Len(r.queue) : s.queue[i] = r.queue[i]
    /\ \A i \in 1..Len(Callbacks(r, p)) :
          /\ s.queue[Len(r.queue) + i].caps.frame = Callbacks(r, p)[i].caps.frame
          /\ JobState(s.queue[Len(r.queue) + i]) = st
          /\ s.queue[Len(r.queue) + i].arg = v

\* The frame f becomes the first reaction of p.
Lists(r, s, p, f) ==
    /\ s \in Runtime
    /\ s.minted = r.minted
    /\ \A q \in Ids \ {p} : s.promise[q] = r.promise[q]
    /\ s.promise[p].state = r.promise[p].state
    /\ s.promise[p].value = r.promise[p].value
    /\ Len(Callbacks(s, p)) = Len(Callbacks(r, p)) + 1
    /\ Callbacks(s, p)[1].caps.frame = f
    /\ \A i \in 1..Len(Callbacks(r, p)) : Callbacks(s, p)[i + 1] = Callbacks(r, p)[i]
    /\ s.queue = r.queue

\* A step job for frame f is queued.
Queues(r, s, f, st, v) ==
    /\ s \in Runtime
    /\ s.minted = r.minted
    /\ s.promise = r.promise
    /\ Len(s.queue) = Len(r.queue) + 1
    /\ \A i \in 1..Len(r.queue) : s.queue[i] = r.queue[i]
    /\ s.queue[Len(r.queue) + 1].caps.frame = f
    /\ JobState(s.queue[Len(r.queue) + 1]) = st
    /\ s.queue[Len(r.queue) + 1].arg = v

\* Settle on a pending promise.
LEMMA Settling ==
    ASSUME NEW r \in Runtime, NEW p \in Ids, NEW st \in {"fulfilled", "rejected"}, NEW v \in Val,
           Pending(r, p)
    PROVE  Settles(r, Settle(r, p, st, v), p, st, v)
  <1> DEFINE cbs == r.promise[p].callbacks
             jobs == ReactionJobs(cbs, st, v)
             rec == [state |-> st, value |-> v, callbacks |-> <<>>]
             note == [promise |-> p, handled |-> FALSE]
             Notes == [promise : Ids, handled : BOOLEAN]
             s == [r EXCEPT !.promise[p] = rec, !.queue = @ \o jobs]
  <1>1. cbs \in Seq(Reaction) /\ r.promise \in [Ids -> PromiseRecord] /\ r.queue \in Seq(JobRecord)
        /\ r.unhandled \in Seq(Notes) /\ Len(cbs) \in Nat
    BY DEF Runtime, PromiseRecord
  <1>2. \A i \in 1..Len(cbs) : cbs[i] \in Reaction
    BY <1>1
  <1>3. jobs = [i \in 1..Len(cbs) |->
                 [fn |-> IF st = "fulfilled" THEN cbs[i].onFulfilled ELSE cbs[i].onRejected,
                  caps |-> cbs[i].caps, arg |-> v]]
    BY SMTT(30) DEF ReactionJobs
  <1> HIDE DEF jobs
  <1>4. \A i \in 1..Len(cbs) : jobs[i] \in JobRecord
    BY <1>2, <1>3 DEF Reaction, JobRecord
  <1>5. jobs \in Seq(JobRecord) /\ Len(jobs) = Len(cbs)
    <2>1. jobs \in [1..Len(cbs) -> JobRecord]
      BY <1>3, <1>4
    <2> QED
      BY <1>1, <2>1, Tabled, ZenonT(40)
  <1>6. rec \in PromiseRecord
    BY DEF PromiseRecord
  <1>7. note \in Notes
    OBVIOUS
  <1> HIDE DEF note, rec, cbs, Notes
  <1>8. /\ r.queue \o jobs \in Seq(JobRecord)
        /\ Len(r.queue \o jobs) = Len(r.queue) + Len(cbs)
        /\ \A i \in 1..Len(r.queue) : (r.queue \o jobs)[i] = r.queue[i]
        /\ \A i \in 1..Len(cbs) : (r.queue \o jobs)[Len(r.queue) + i] = jobs[i]
    <2> DEFINE old == r.queue
    <2>1. old \in Seq(JobRecord)
      BY <1>1
    <2> HIDE DEF old
    <2>2. jobs \in Seq(JobRecord)
      BY <1>5
    <2>3. /\ old \o jobs \in Seq(JobRecord)
          /\ Len(old \o jobs) = Len(old) + Len(jobs)
          /\ \A i \in 1..Len(old) : (old \o jobs)[i] = old[i]
          /\ \A i \in 1..Len(jobs) : (old \o jobs)[Len(old) + i] = jobs[i]
      BY <2>1, <2>2
    <2> QED
      BY <1>5, <2>3 DEF old
  <1>9. <<note>> \o r.unhandled \in Seq(Notes)
    BY <1>1, <1>7, ConsParts
  <1>10. /\ s \in Runtime
         /\ s.minted = r.minted
         /\ s.promise = [r.promise EXCEPT ![p] = rec]
         /\ s.queue = r.queue \o jobs
         /\ s.unhandled = r.unhandled
    BY <1>1, <1>6, <1>8 DEF Runtime
  <1> HIDE DEF s
  <1>11. Settle(r, p, st, v) = IF st = "rejected" /\ cbs = <<>>
                               THEN [s EXCEPT !.unhandled = <<note>> \o @] ELSE s
    BY DEF Settle, Pending, NoteUnhandled, s, jobs, rec, cbs, note
  <1> DEFINE t == Settle(r, p, st, v)
  <1>12. /\ t \in Runtime
         /\ t.minted = r.minted
         /\ t.promise = [r.promise EXCEPT ![p] = rec]
         /\ t.queue = r.queue \o jobs
    BY <1>9, <1>10, <1>11, ZenonT(40) DEF Runtime, Notes
  <1> HIDE DEF t
  <1>13. \A i \in 1..Len(cbs) :
            /\ jobs[i].caps = cbs[i].caps
            /\ JobState(jobs[i]) = st
            /\ jobs[i].arg = v
    BY <1>2, <1>3 DEF JobState, Reaction
  <1>14. t.promise[p] = rec /\ \A q \in Ids \ {p} : t.promise[q] = r.promise[q]
    BY <1>1, <1>12
  <1>15. rec.state = st /\ rec.value = v /\ rec.callbacks = <<>>
    BY DEF rec
  <1>17. Callbacks(r, p) = cbs
    BY DEF Callbacks, cbs
  <1>18. Settles(r, t, p, st, v)
    BY <1>8, <1>12, <1>13, <1>14, <1>15, <1>17 DEF Settles
  <1> QED
    BY <1>18 DEF t

\* The frame f is attached to p.
LEMMA Listing ==
    ASSUME NEW r \in Runtime, NEW p \in Ids, NEW f \in Nat
    PROVE  Lists(r, [r EXCEPT !.promise[p].callbacks =
                        <<[onFulfilled |-> "step_fulfill", onRejected |-> "step_reject",
                           caps |-> Step(f)]>> \o @], p, f)
  <1> DEFINE cbs == r.promise[p].callbacks
             node == [onFulfilled |-> "step_fulfill", onRejected |-> "step_reject", caps |-> Step(f)]
             new == <<node>> \o cbs
             t == [r EXCEPT !.promise[p].callbacks = new]
  <1>1. cbs \in Seq(Reaction) /\ r.promise \in [Ids -> PromiseRecord] /\ r.promise[p] \in PromiseRecord
    BY DEF Runtime, PromiseRecord
  <1>2. node \in Reaction /\ node.caps.frame = f
    BY DEF Reaction, Step
  <1> HIDE DEF node, cbs
  <1>3. /\ new \in Seq(Reaction)
        /\ Len(new) = Len(cbs) + 1
        /\ new[1] = node
        /\ \A i \in 1..Len(cbs) : new[i + 1] = cbs[i]
    BY <1>1, <1>2, ConsParts
  <1> HIDE DEF new, t
  <1> DEFINE rec == [r.promise[p] EXCEPT !.callbacks = new]
  <1>5. /\ rec \in PromiseRecord
        /\ rec.callbacks = new
        /\ rec.state = r.promise[p].state
        /\ rec.value = r.promise[p].value
    BY <1>1, <1>3 DEF PromiseRecord
  <1>6. t = [r EXCEPT !.promise = [r.promise EXCEPT ![p] = rec]]
    BY <1>1 DEF Runtime, t
  <1> HIDE DEF rec
  <1>7. /\ t \in Runtime
        /\ t.minted = r.minted
        /\ t.promise = [r.promise EXCEPT ![p] = rec]
        /\ t.queue = r.queue
    BY <1>1, <1>5, <1>6 DEF Runtime
  <1>8. t.promise[p] = rec /\ \A q \in Ids \ {p} : t.promise[q] = r.promise[q]
    BY <1>1, <1>7
  <1>9. Lists(r, t, p, f)
    BY <1>2, <1>3, <1>5, <1>7, <1>8 DEF Lists, Callbacks, cbs
  <1> QED
    BY <1>9 DEF node, new, cbs, t

\* Enqueue.
LEMMA Queueing ==
    ASSUME NEW r \in Runtime, NEW fn \in {"step_fulfill", "step_reject"}, NEW f \in Nat, NEW v \in Val
    PROVE  Queues(r, Enqueue(r, fn, Step(f), v), f,
                  IF fn = "step_fulfill" THEN "fulfilled" ELSE "rejected", v)
  <1> DEFINE job == [fn |-> fn, caps |-> Step(f), arg |-> v]
             t == Enqueue(r, fn, Step(f), v)
  <1>1. /\ job \in JobRecord /\ job.caps.frame = f /\ job.arg = v
        /\ JobState(job) = IF fn = "step_fulfill" THEN "fulfilled" ELSE "rejected"
    BY DEF JobRecord, Step, JobState
  <1>2. r.queue \in Seq(JobRecord)
    BY DEF Runtime
  <1>3. t = [r EXCEPT !.queue = Append(r.queue, job)]
    BY DEF Enqueue
  <1> HIDE DEF job, t
  <1>4. /\ Append(r.queue, job) \in Seq(JobRecord)
        /\ Len(Append(r.queue, job)) = Len(r.queue) + 1
        /\ \A i \in 1..Len(r.queue) : Append(r.queue, job)[i] = r.queue[i]
        /\ Append(r.queue, job)[Len(r.queue) + 1] = job
    BY <1>1, <1>2
  <1>5. /\ t \in Runtime
        /\ t.minted = r.minted
        /\ t.promise = r.promise
        /\ t.queue = Append(r.queue, job)
    BY <1>3, <1>4 DEF Runtime
  <1> QED
    BY <1>1, <1>4, <1>5 DEF Queues, t

\* A promise is allocated: those that are not allocated look like it.
LEMMA Minting ==
    ASSUME NEW r \in Runtime, r.minted + 1 \in Ids, r.promise[r.minted + 1] = NewPromise
    PROVE  /\ Mint(r, NewPromise) \in Runtime
           /\ Mint(r, NewPromise).minted = r.minted + 1
           /\ Mint(r, NewPromise).promise = r.promise
           /\ Mint(r, NewPromise).queue = r.queue
  <1> DEFINE n == r.minted + 1
             t == Mint(r, NewPromise)
  <1>1. r.promise \in [Ids -> PromiseRecord] /\ r.minted \in Nat /\ n \in Nat
    BY DEF Runtime
  <1>2. t = [r EXCEPT !.minted = n, !.promise = [r.promise EXCEPT ![n] = NewPromise]]
    BY DEF Mint, Runtime
  <1>3. [r.promise EXCEPT ![n] = NewPromise] = r.promise
    BY <1>1
  <1> HIDE DEF t, n
  <1> QED
    BY <1>1, <1>2, <1>3 DEF Runtime, t, n

\* MarkHandled only touches the list of unhandled rejections.
LEMMA Marking ==
    ASSUME NEW r \in Runtime, NEW p
    PROVE  /\ MarkHandled(r, p) \in Runtime
           /\ MarkHandled(r, p).minted = r.minted
           /\ MarkHandled(r, p).promise = r.promise
           /\ MarkHandled(r, p).queue = r.queue
  <1> DEFINE notes == r.unhandled
             Notes == [promise : Ids, handled : BOOLEAN]
             hits == {i \in DOMAIN notes : notes[i].promise = p}
             m == Min(hits)
             new == [notes EXCEPT ![m].handled = TRUE]
             s == [r EXCEPT !.unhandled = new]
  <1>1. notes \in Seq(Notes) /\ DOMAIN notes = 1..Len(notes) /\ Len(notes) \in Nat
    BY DEF Runtime
  <1>2. MarkHandled(r, p) = IF hits = {} THEN r ELSE s
    BY DEF MarkHandled
  <1> HIDE DEF m, hits
  <1>3. new \in [1..Len(notes) -> Notes]
    <2>1. \A i \in 1..Len(notes) : notes[i] \in Notes
      <3> HIDE DEF Notes, notes
      <3> QED BY <1>1
    <2>2. \A i \in 1..Len(notes) : [notes[i] EXCEPT !.handled = TRUE] \in Notes
      BY <2>1
    <2>3. new = [i \in 1..Len(notes) |-> IF i = m THEN [notes[i] EXCEPT !.handled = TRUE] ELSE notes[i]]
      BY <1>1
    <2> HIDE DEF Notes, new, notes
    <2> QED BY <2>1, <2>2, <2>3
  <1>4. new \in Seq(Notes)
    <2> HIDE DEF new, Notes, notes
    <2> QED BY <1>1, <1>3, Tabled
  <1> HIDE DEF new
  <1>5. s \in Runtime /\ s.minted = r.minted /\ s.promise = r.promise /\ s.queue = r.queue
    BY <1>4 DEF Runtime
  <1> QED
    BY <1>2, <1>5
-----------------------------------------------------------------------------
(***************************************************************************)
(* Each step of the machine keeps the invariant.                           *)
(***************************************************************************)

\* What the frames and the activations are.
LEMMA Typed ==
    ASSUME NEW e, NEW r, NEW F, NEW S, NEW res, NEW c, InvBut(e, r, F, S, res, c)
    PROVE  /\ r \in Runtime /\ r.minted \in Nat
           /\ F \in Seq(FrameRecord) /\ Len(F) \in Nat
           /\ \A f \in 1..Len(F) : F[f] \in FrameRecord
           /\ S \in Seq(ActivationRecord) /\ Len(S) \in Nat
           /\ \A i \in 1..Len(S) : S[i] \in ActivationRecord
  <1>1. r \in Runtime /\ F \in Seq(FrameRecord) /\ S \in Seq(ActivationRecord)
    BY DEF InvBut
  <1> QED BY <1>1 DEF Runtime

\* The result of a frame that was asked for one.
LEMMA Asked ==
    ASSUME NEW e, NEW r, NEW F, NEW S, NEW res, NEW c, InvBut(e, r, F, S, res, c),
           NEW f \in 1..Len(F), F[f].asked
    PROVE  F[f].result \in Ids /\ F[f].result <= r.minted /\ F[f].result \notin res
  BY DEF InvBut, FramesOK, FrameOK

\* A promise that is not the result of a frame, or that of the frame e, which
\* nothing will resume, is settled.
LEMMA SettlesKeeps ==
    ASSUME NEW e \in Nat, NEW r, NEW F, NEW S, NEW res, NEW c, InvBut(e, r, F, S, res, c),
           NEW s, NEW p \in Ids, p <= r.minted, Pending(r, p),
           NEW st \in {"fulfilled", "rejected"}, NEW v \in Val, Settles(r, s, p, st, v),
           \A f \in 1..Len(F) : F[f].asked /\ F[f].result = p => f = e,
           e # 0 => F[e].result = p /\ ~On(S, e) /\ ~Resumed(r, e)
    PROVE  InvBut(0, s, F, S, res, c)
  <1>1. /\ r \in Runtime /\ s \in Runtime /\ s.minted = r.minted /\ r.minted \in Nat
        /\ F \in Seq(FrameRecord) /\ S \in Seq(ActivationRecord) /\ Len(F) \in Nat /\ Len(S) \in Nat
    BY Typed DEF Settles
  <1>2. /\ \A q \in Ids : q # p => s.promise[q] = r.promise[q]
        /\ ~Pending(s, p) /\ Callbacks(s, p) = <<>>
        /\ s.promise[p].state = st /\ s.promise[p].value = v
    BY DEF Settles, Pending, Callbacks
  <1>3. Counted(s, res, c)
    <2>1. Counted(r, res, c)
      BY DEF InvBut
    <2>2. \A q \in Ids : q > s.minted => s.promise[q] = NewPromise
      BY <1>1, <1>2, <2>1 DEF Counted, Ids
    <2>3. \A q \in Ids : Len(Callbacks(s, q)) <= c
      BY <1>2, <2>1 DEF Counted, Callbacks
    <2> QED BY <1>1, <2>1, <2>2, <2>3 DEF Counted
  <1>4. \A fr, t, w : Matches(r, fr, t, w) => Matches(s, fr, t, w)
    BY <1>2 DEF Matches, Pending
  <1>5. FramesOK(s, F, S, res)
    <2>1. FramesOK(r, F, S, res)
      BY DEF InvBut
    <2>2. ASSUME NEW f \in 1..Len(F) PROVE FrameOK(s, F[f], On(S, f), res)
      BY <1>1, <1>4, <2>1 DEF FramesOK, FrameOK, Delivered
    <2> QED BY <2>1, <2>2 DEF FramesOK
  <1>6. StackOK(s, F, S)
    <2>1. StackOK(r, F, S)
      BY DEF InvBut
    <2>2. ASSUME NEW i \in 1..Len(S), S[i].kind = "body" PROVE BodyOK(s, F, S[i])
      <3>1. BodyOK(r, F, S[i])
        BY <2>1, <2>2 DEF StackOK
      <3>2. On(S, S[i].frame)
        BY DEF On
      <3>3. F[S[i].frame].result # p
        BY <3>1, <3>2 DEF BodyOK
      <3>4. S[i].result \in Ids
        BY <3>1, Asked DEF BodyOK
      <3> QED BY <1>2, <3>1, <3>3, <3>4 DEF BodyOK, Pending
    <2> QED BY <2>1, <2>2 DEF StackOK
  <1>7. ASSUME NEW f, f # e, Waits(r, F, S, f) PROVE Waits(s, F, S, f)
    <2>1. F[f].result \in Ids /\ F[f].result # p
      BY <1>7, Asked DEF Waits
    <2> QED BY <1>2, <1>7, <2>1 DEF Waits, Pending
  <1>8. ReactionsOK(s, F, S)
    <2>1. ReactionsOK(r, F, S)
      BY DEF InvBut
    <2>2. ASSUME NEW q \in Ids, q # p, NEW i \in 1..Len(Callbacks(s, q))
          PROVE  /\ Pending(s, q)
                 /\ Waits(s, F, S, Callbacks(s, q)[i].caps.frame)
                 /\ F[Callbacks(s, q)[i].caps.frame].awaits = q
      <3>1. Callbacks(s, q) = Callbacks(r, q) /\ (Pending(s, q) <=> Pending(r, q))
        BY <1>2, <2>2 DEF Callbacks, Pending
      <3> DEFINE g == Callbacks(r, q)[i].caps.frame
      <3>2. Pending(r, q) /\ Waits(r, F, S, g) /\ F[g].awaits = q
        BY <2>1, <2>2, <3>1 DEF ReactionsOK
      <3>3. g # e
        <4>1. e # 0 => ~Resumed(r, e)
          OBVIOUS
        <4>2. Resumed(r, g)
          BY <2>2, <3>1 DEF Resumed
        <4>3. g \in 1..Len(F)
          BY <3>2 DEF Waits
        <4> QED BY <4>1, <4>2, <4>3
      <3> QED BY <1>7, <3>1, <3>2, <3>3
    <2>3. \A q \in Ids : q # p => Callbacks(s, q) = Callbacks(r, q)
      BY <1>2 DEF Callbacks
    <2>4. \A i \in 1..Len(Callbacks(s, p)) : FALSE
      BY <1>2
    <2>5. ASSUME NEW q \in Ids, NEW i \in 1..Len(Callbacks(s, q)), NEW j \in 1..Len(Callbacks(s, q)),
                 Callbacks(s, q)[i].caps.frame = Callbacks(s, q)[j].caps.frame
          PROVE  i = j
      BY <2>1, <2>3, <2>4, <2>5 DEF ReactionsOK
    <2> QED BY <2>2, <2>4, <2>5 DEF ReactionsOK
  <1>9. JobsOK(s, F, S)
    <2> DEFINE n == Len(r.queue)
               k == Len(Callbacks(r, p))
    <2>1. /\ n \in Nat /\ k \in Nat
          /\ Len(s.queue) = n + k
          /\ \A i \in 1..n : s.queue[i] = r.queue[i]
          /\ \A i \in 1..k : /\ s.queue[n + i].caps.frame = Callbacks(r, p)[i].caps.frame
                             /\ JobState(s.queue[n + i]) = st
                             /\ s.queue[n + i].arg = v
      BY <1>1, ListTyped, QueueTyped DEF Settles
    <2>2. JobsOK(r, F, S) /\ ReactionsOK(r, F, S)
      BY DEF InvBut
    <2> HIDE DEF n, k
    <2>3. \A i \in 1..n : Resumed(r, r.queue[i].caps.frame)
      BY DEF Resumed, n
    <2>4. \A i \in 1..k : Resumed(r, Callbacks(r, p)[i].caps.frame)
      BY DEF Resumed, k
    <2>5. ASSUME NEW i \in 1..n
          PROVE  /\ Waits(s, F, S, r.queue[i].caps.frame)
                 /\ Matches(s, F[r.queue[i].caps.frame], JobState(r.queue[i]), r.queue[i].arg)
      <3>1. /\ Waits(r, F, S, r.queue[i].caps.frame)
            /\ Matches(r, F[r.queue[i].caps.frame], JobState(r.queue[i]), r.queue[i].arg)
        BY <2>2, SMTT(30) DEF JobsOK, n
      <3>2. r.queue[i].caps.frame # e
        BY <2>3, <3>1 DEF Waits
      <3> QED BY <1>4, <1>7, <3>1, <3>2
    <2>6. ASSUME NEW i \in 1..k
          PROVE  /\ Waits(s, F, S, Callbacks(r, p)[i].caps.frame)
                 /\ F[Callbacks(r, p)[i].caps.frame].awaits = p
                 /\ Matches(s, F[Callbacks(r, p)[i].caps.frame], st, v)
      <3>1. /\ Waits(r, F, S, Callbacks(r, p)[i].caps.frame)
            /\ F[Callbacks(r, p)[i].caps.frame].awaits = p
        BY <2>2 DEF ReactionsOK, k
      <3>2. Callbacks(r, p)[i].caps.frame # e
        BY <2>4, <3>1 DEF Waits
      <3>3. Matches(s, F[Callbacks(r, p)[i].caps.frame], st, v)
        BY <1>2, <3>1 DEF Matches
      <3> QED BY <1>7, <3>1, <3>2, <3>3
    <2>7. \A j \in 1..(n + k) : j \in 1..n \/ (j - n \in 1..k /\ j = n + (j - n))
      BY <2>1
    <2>8. ASSUME NEW j \in 1..(n + k)
          PROVE  /\ Waits(s, F, S, s.queue[j].caps.frame)
                 /\ Matches(s, F[s.queue[j].caps.frame], JobState(s.queue[j]), s.queue[j].arg)
      <3>1. CASE j \in 1..n
        BY <2>1, <2>5, <3>1
      <3>2. CASE j - n \in 1..k /\ j = n + (j - n)
        <4> DEFINE i == j - n
        <4>1. i \in 1..k /\ j = n + i
          BY <3>2
        <4> HIDE DEF i
        <4>2. /\ s.queue[j].caps.frame = Callbacks(r, p)[i].caps.frame
              /\ JobState(s.queue[j]) = st /\ s.queue[j].arg = v
          BY <2>1, <4>1
        <4> QED BY <2>6, <4>1, <4>2
      <3> QED BY <2>7, <3>1, <3>2
    <2>9. \A i \in 1..n : \A j \in 1..k : r.queue[i].caps.frame # Callbacks(r, p)[j].caps.frame
      <3> SUFFICES ASSUME NEW i \in 1..n, NEW j \in 1..k,
                          r.queue[i].caps.frame = Callbacks(r, p)[j].caps.frame
                   PROVE  FALSE
        OBVIOUS
      <3>1. F[r.queue[i].caps.frame].awaits = p
        BY <2>6
      <3>2. Matches(r, F[r.queue[i].caps.frame], JobState(r.queue[i]), r.queue[i].arg)
        BY <2>2 DEF JobsOK, n
      <3> QED BY <3>1, <3>2 DEF Matches
    <2>10. ASSUME NEW i \in 1..(n + k), NEW j \in 1..(n + k),
                  s.queue[i].caps.frame = s.queue[j].caps.frame
           PROVE  i = j
      <3>1. CASE i \in 1..n /\ j \in 1..n
        BY <2>1, <2>2, <2>10, <3>1 DEF JobsOK, n
      <3>2. CASE i \in 1..n /\ j - n \in 1..k /\ j = n + (j - n)
        <4>1. s.queue[i] = r.queue[i]
          BY <2>1, <3>2
        <4>2. s.queue[j].caps.frame = Callbacks(r, p)[j - n].caps.frame
          BY <2>1, <3>2
        <4> QED BY <2>9, <2>10, <3>2, <4>1, <4>2
      <3>3. CASE j \in 1..n /\ i - n \in 1..k /\ i = n + (i - n)
        <4>1. s.queue[j] = r.queue[j]
          BY <2>1, <3>3
        <4>2. s.queue[i].caps.frame = Callbacks(r, p)[i - n].caps.frame
          BY <2>1, <3>3
        <4> QED BY <2>9, <2>10, <3>3, <4>1, <4>2
      <3>4. CASE j - n \in 1..k /\ j = n + (j - n) /\ i - n \in 1..k /\ i = n + (i - n)
        <4>1. Callbacks(r, p)[i - n].caps.frame = Callbacks(r, p)[j - n].caps.frame
          BY <2>1, <2>10, <3>4
        <4>2. i - n = j - n
          BY <2>2, <3>4, <4>1 DEF ReactionsOK, k
        <4> QED BY <3>4, <4>2, <2>1
      <3> QED BY <2>7, <3>1, <3>2, <3>3, <3>4
    <2> QED BY <2>1, <2>8, <2>10 DEF JobsOK
  <1>10. ASSUME NEW f \in 1..Len(F) PROVE Answerable(s, F[f], f, S)
    <2>1. CASE f = e
      <3>1. F[f].result = p
        BY <2>1
      <3> QED BY <1>2, <3>1 DEF Answerable
    <2>2. CASE f # e
      <3>1. Answerable(r, F[f], f, S)
        BY <2>2 DEF InvBut
      <3>2. Resumed(r, f) => Resumed(s, f)
        <4>1. ASSUME NEW q \in Ids, NEW i \in 1..Len(Callbacks(r, q)), Callbacks(r, q)[i].caps.frame = f
              PROVE  Resumed(s, f)
          <5>1. CASE q # p
            <6>1. Callbacks(s, q) = Callbacks(r, q)
              BY <1>2, <5>1 DEF Callbacks
            <6> QED BY <4>1, <6>1 DEF Resumed
          <5>2. CASE q = p
            <6>1. Len(r.queue) + i \in 1..Len(s.queue)
              BY <1>1, <4>1, <5>2, ListTyped, QueueTyped DEF Settles
            <6>2. s.queue[Len(r.queue) + i].caps.frame = f
              BY <4>1, <5>2 DEF Settles
            <6> QED BY <6>1, <6>2 DEF Resumed
          <5> QED BY <5>1, <5>2
        <4>2. ASSUME NEW j \in 1..Len(r.queue), r.queue[j].caps.frame = f
              PROVE  Resumed(s, f)
          <5>1. j \in 1..Len(s.queue) /\ s.queue[j] = r.queue[j]
            BY <1>1, ListTyped, QueueTyped DEF Settles
          <5> QED BY <4>2, <5>1 DEF Resumed
        <4> QED BY <4>1, <4>2 DEF Resumed
      <3>3. ASSUME F[f].asked PROVE Pending(s, F[f].result) <=> Pending(r, F[f].result)
        <4>1. F[f].result \in Ids /\ F[f].result # p
          BY <2>2, <3>3, Asked
        <4> QED BY <1>2, <4>1 DEF Pending
      <3> QED BY <3>1, <3>2, <3>3 DEF Answerable
    <2> QED BY <2>1, <2>2
  <1> QED BY <1>1, <1>3, <1>5, <1>6, <1>8, <1>9, <1>10 DEF InvBut

\* The invariant does not depend on the list of unhandled rejections, and on
\* the counters only through Counted.
LEMMA SameKeeps ==
    ASSUME NEW e, NEW r, NEW F, NEW S, NEW res, NEW c, InvBut(e, r, F, S, res, c),
           NEW s \in Runtime, s.promise = r.promise, s.queue = r.queue, r.minted <= s.minted,
           NEW d, Counted(s, res, d)
    PROVE  InvBut(e, s, F, S, res, d)
  <1>1. \A p : (Pending(s, p) <=> Pending(r, p)) /\ Callbacks(s, p) = Callbacks(r, p)
    BY DEF Pending, Callbacks
  <1>2. \A fr, st, v : Matches(s, fr, st, v) <=> Matches(r, fr, st, v)
    BY DEF Matches, Pending
  <1>3. \A f : (Waits(s, F, S, f) <=> Waits(r, F, S, f)) /\ (Resumed(s, f) <=> Resumed(r, f))
    BY <1>1 DEF Waits, Resumed
  <1>4. FramesOK(s, F, S, res)
    <2>1. FramesOK(r, F, S, res) /\ r.minted \in Nat /\ s.minted \in Nat
      BY Typed DEF InvBut, Runtime
    <2>2. ASSUME NEW f \in 1..Len(F) PROVE FrameOK(s, F[f], On(S, f), res)
      <3>1. FrameOK(r, F[f], On(S, f), res)
        BY <2>1 DEF FramesOK
      <3>2. F[f].result \in Ids /\ F[f].result <= r.minted => F[f].result <= s.minted
        BY <2>1 DEF Ids
      <3> QED BY <1>2, <3>1, <3>2 DEF FrameOK, Delivered
    <2> QED BY <2>1, <2>2 DEF FramesOK
  <1>5. StackOK(s, F, S)
    BY <1>1 DEF InvBut, StackOK, BodyOK
  <1>6. ReactionsOK(s, F, S)
    BY <1>1, <1>3 DEF InvBut, ReactionsOK
  <1>7. JobsOK(s, F, S)
    BY <1>2, <1>3 DEF InvBut, JobsOK
  <1>8. \A f \in 1..Len(F) : f # e => Answerable(s, F[f], f, S)
    BY <1>1, <1>3 DEF InvBut, Answerable
  <1> QED BY <1>4, <1>5, <1>6, <1>7, <1>8 DEF InvBut

\* The program makes a call.
LEMMA CallKeeps ==
    ASSUME NEW e, NEW r, NEW F, NEW S, NEW res, NEW c, InvBut(e, r, F, S, res, c), c < MaxCalls
    PROVE  InvBut(e, r, F, S, res, c + 1)
  <1>1. Counted(r, res, c) /\ r \in Runtime /\ r.minted \in Nat
    BY Typed DEF InvBut
  <1>2. \A p \in Ids : Len(Callbacks(r, p)) \in Nat
    BY <1>1, ListTyped
  <1>3. Counted(r, res, c + 1)
    BY <1>1, <1>2, MaxCallsAssumption, FrameAssumption DEF Counted
  <1> QED BY <1>1, <1>3, SameKeeps

\* A promise is allocated.
LEMMA MintKeeps ==
    ASSUME NEW r, NEW F, NEW S, NEW res, NEW c, InvBut(0, r, F, S, res, c), c < MaxCalls
    PROVE  LET s == Mint(r, NewPromise)
               p == r.minted + 1
           IN  /\ InvBut(0, s, F, S, res, c + 1)
               /\ p \in Ids /\ p = s.minted /\ p \notin res
               /\ Pending(s, p)
               /\ s.promise = r.promise /\ s.queue = r.queue
               /\ \A f \in 1..Len(F) : F[f].asked => F[f].result # p
  <1> DEFINE s == Mint(r, NewPromise)
             p == r.minted + 1
  <1>1. Counted(r, res, c) /\ r \in Runtime /\ r.minted \in Nat
    BY Typed DEF InvBut
  <1>2. p \in Ids /\ r.minted + 1 <= MaxInputs + (c + 1) /\ c + 1 \in 0..MaxCalls
    BY <1>1, MaxCallsAssumption, FrameAssumption DEF Counted, Ids
  <1>3. r.promise[p] = NewPromise
    BY <1>1, <1>2 DEF Counted
  <1>4. s \in Runtime /\ s.minted = p /\ s.promise = r.promise /\ s.queue = r.queue
    BY <1>1, <1>2, <1>3, Minting
  <1> HIDE DEF s
  <1>5. Counted(s, res, c + 1)
    <2>1. \A q \in Ids : Len(Callbacks(s, q)) <= c + 1
      <3>1. \A q \in Ids : Len(Callbacks(r, q)) <= c /\ Len(Callbacks(r, q)) \in Nat
        BY <1>1, ListTyped DEF Counted
      <3> QED BY <1>1, <1>4, <3>1 DEF Callbacks, Counted
    <2>2. \A q \in Ids : q > s.minted => s.promise[q] = NewPromise
      BY <1>1, <1>4 DEF Counted, Ids
    <2>3. res \subseteq 1..s.minted
      BY <1>1, <1>4 DEF Counted
    <2> QED BY <1>2, <1>4, <2>1, <2>2, <2>3 DEF Counted
  <1>6. InvBut(0, s, F, S, res, c + 1)
    BY <1>1, <1>4, <1>5, SameKeeps
  <1>7. Pending(s, p)
    BY <1>3, <1>4 DEF Pending, NewPromise
  <1>8. \A f \in 1..Len(F) : F[f].asked => F[f].result # p
    BY <1>1, Asked DEF Ids
  <1>9. p \notin res
    BY <1>1 DEF Counted
  <1> QED BY <1>2, <1>4, <1>6, <1>7, <1>8, <1>9 DEF s

\* Nothing resumes a frame that is on the stack.
LEMMA OnNotResumed ==
    ASSUME NEW e, NEW r, NEW F, NEW S, NEW res, NEW c, InvBut(e, r, F, S, res, c),
           NEW f, Resumed(r, f)
    PROVE  Waits(r, F, S, f)
  <1>1. ReactionsOK(r, F, S) /\ JobsOK(r, F, S)
    BY DEF InvBut
  <1> QED BY <1>1 DEF Resumed, ReactionsOK, JobsOK

\* Other activations take the place of those on the stack, of the same frames.
LEMMA StackKeeps ==
    ASSUME NEW e, NEW r, NEW F, NEW S, NEW res, NEW c, InvBut(e, r, F, S, res, c),
           NEW T \in Seq(ActivationRecord), \A f \in 1..Len(F) : On(T, f) <=> On(S, f),
           StackOK(r, F, T)
    PROVE  InvBut(e, r, F, T, res, c)
  <1>1. FramesOK(r, F, T, res)
    BY DEF InvBut, FramesOK, FrameOK
  <1>2. \A f : Waits(r, F, S, f) => Waits(r, F, T, f)
    BY DEF Waits
  <1>3. ReactionsOK(r, F, T)
    BY <1>2 DEF InvBut, ReactionsOK
  <1>4. JobsOK(r, F, T)
    BY <1>2 DEF InvBut, JobsOK
  <1>5. \A f \in 1..Len(F) : f # e => Answerable(r, F[f], f, T)
    BY DEF InvBut, Answerable
  <1> QED BY <1>1, <1>3, <1>4, <1>5 DEF InvBut

\* A sequence with another element at f.
Put(F, f, g) == [F EXCEPT ![f] = g]

\* What a frame that is not awaiting is replaced with: a record of the same
\* kind for which the invariant holds by itself.
Replaceable(r, F, f, g, on, res) ==
    /\ f \in 1..Len(F)
    /\ g \in FrameRecord
    /\ g.kind = F[f].kind
    /\ g.asked
    /\ FrameOK(r, g, on, res)
    /\ \A h \in 1..Len(F) : h # f /\ F[h].asked => F[h].result # g.result

\* The same for a frame that may be on the stack.
Swappable(r, F, S, f, g, res) == Replaceable(r, F, f, g, On(S, f), res)

\* The frame f, which nothing will resume, is replaced, and its activations
\* are in order.
LEMMA ReplaceKeeps ==
    ASSUME NEW e, NEW r, NEW F, NEW S, NEW res, NEW c, InvBut(e, r, F, S, res, c),
           NEW f, NEW g, Swappable(r, F, S, f, g, res), ~Resumed(r, f),
           e \in {0, f},
           \A i \in 1..Len(S) : S[i].kind = "body" /\ S[i].frame = f => BodyOK(r, Put(F, f, g), S[i])
    PROVE  InvBut(f, r, Put(F, f, g), S, res, c)
  <1> DEFINE G == Put(F, f, g)
  <1>1. /\ f \in 1..Len(F) /\ g \in FrameRecord
        /\ G \in Seq(FrameRecord) /\ Len(G) = Len(F)
        /\ G[f] = g /\ \A h \in 1..Len(F) : h # f => G[h] = F[h]
    BY Typed DEF Swappable, Replaceable, Put
  <1> HIDE DEF G
  <1>2. FramesOK(r, G, S, res)
    <2>1. ASSUME NEW h \in 1..Len(G) PROVE FrameOK(r, G[h], On(S, h), res)
      BY <1>1 DEF Swappable, Replaceable, InvBut, FramesOK
    <2>2. ASSUME NEW h \in 1..Len(G), NEW k \in 1..Len(G),
                 G[h].asked, G[k].asked, G[h].result = G[k].result
          PROVE  h = k
      BY <1>1, <2>2 DEF Swappable, Replaceable, InvBut, FramesOK
    <2> QED BY <2>1, <2>2 DEF FramesOK
  <1>3. StackOK(r, G, S)
    <2>1. StackOK(r, F, S)
      BY DEF InvBut
    <2>2. ASSUME NEW i \in 1..Len(S), S[i].kind = "body" PROVE BodyOK(r, G, S[i])
      <3>1. CASE S[i].frame = f
        BY <2>2, <3>1 DEF G
      <3>2. CASE S[i].frame # f
        <4>1. BodyOK(r, F, S[i])
          BY <2>1, <2>2 DEF StackOK
        <4> QED BY <1>1, <3>2, <4>1 DEF BodyOK
      <3> QED BY <3>1, <3>2
    <2> QED BY <2>1, <2>2 DEF StackOK
  <1>4. ASSUME NEW h, Resumed(r, h) PROVE Waits(r, G, S, h) /\ G[h] = F[h]
    <2>1. Waits(r, F, S, h) /\ h # f
      BY <1>4, OnNotResumed
    <2> QED BY <1>1, <2>1 DEF Waits
  <1>5. ReactionsOK(r, G, S)
    <2>1. ReactionsOK(r, F, S)
      BY DEF InvBut
    <2>2. \A p \in Ids : \A i \in 1..Len(Callbacks(r, p)) : Resumed(r, Callbacks(r, p)[i].caps.frame)
      BY DEF Resumed
    <2> QED BY <1>4, <2>1, <2>2 DEF ReactionsOK
  <1>6. JobsOK(r, G, S)
    <2>1. JobsOK(r, F, S)
      BY DEF InvBut
    <2>2. \A j \in 1..Len(r.queue) : Resumed(r, r.queue[j].caps.frame)
      BY DEF Resumed
    <2> QED BY <1>4, <2>1, <2>2 DEF JobsOK
  <1>7. \A h \in 1..Len(G) : h # f => Answerable(r, G[h], h, S)
    BY <1>1 DEF InvBut
  <1>8. InvBut(f, r, G, S, res, c)
    BY <1>1, <1>2, <1>3, <1>5, <1>6, <1>7 DEF InvBut
  <1> QED BY <1>8 DEF G

\* The activation of a frame that is on the stack is the only one of it.
LEMMA OneActivation ==
    ASSUME NEW e, NEW r, NEW F, NEW S, NEW res, NEW c, InvBut(e, r, F, S, res, c),
           S # <<>>, S[1].kind = "body"
    PROVE  /\ S[1].frame \in 1..Len(F) /\ BodyOK(r, F, S[1])
           /\ On(S, S[1].frame) /\ ~On(Tail(S), S[1].frame)
           /\ ~Resumed(r, S[1].frame)
           /\ \A i \in 1..Len(S) : S[i].frame = S[1].frame => i = 1
           /\ Len(S) > 1
  <1>1. StackOK(r, F, S) /\ S \in Seq(ActivationRecord) /\ Len(S) \in Nat /\ 1 \in 1..Len(S)
    BY Typed, TailParts DEF InvBut
  <1>2. BodyOK(r, F, S[1]) /\ \A i \in 1..Len(S) : S[i].frame = S[1].frame => i = 1
    BY <1>1 DEF StackOK
  <1>3. On(S, S[1].frame)
    BY <1>1 DEF On
  <1>4. ~Resumed(r, S[1].frame)
    BY <1>3, OnNotResumed DEF Waits
  <1>5. ~On(Tail(S), S[1].frame)
    <2> SUFFICES ASSUME NEW i \in 1..Len(Tail(S)), Tail(S)[i].frame = S[1].frame PROVE FALSE
      BY DEF On
    <2>1. i + 1 \in 1..Len(S) /\ Tail(S)[i] = S[i + 1]
      BY <1>1, TailParts
    <2>2. i + 1 = 1
      BY <1>2, <2>1
    <2> QED BY <1>1, <2>2, TailParts
  <1>6. Len(S) > 1
    <2>1. Len(S) # 1
      BY <1>1 DEF StackOK
    <2> DEFINE n == Len(S)
    <2>2. n \in Nat /\ n >= 1 /\ n # 1
      BY <1>1, <2>1
    <2> HIDE DEF n
    <2>3. n > 1
      BY <2>2
    <2> QED BY <2>3 DEF n
  <1> QED BY <1>2, <1>3, <1>4, <1>5, <1>6 DEF BodyOK

\* The first activation is removed.
LEMMA PopStack ==
    ASSUME NEW e, NEW r, NEW F, NEW S, NEW res, NEW c, InvBut(e, r, F, S, res, c),
           S # <<>>, S[1].kind # "main"
    PROVE  /\ Tail(S) \in Seq(ActivationRecord)
           /\ Tail(S) # <<>>
           /\ StackOK(r, F, Tail(S))
  <1>1. StackOK(r, F, S) /\ S \in Seq(ActivationRecord) /\ Len(S) \in Nat /\ 1 \in 1..Len(S)
    BY Typed, TailParts DEF InvBut
  <1>2. /\ Tail(S) \in Seq(ActivationRecord)
        /\ Len(Tail(S)) = Len(S) - 1
        /\ \A i \in 1..Len(Tail(S)) : i + 1 \in 1..Len(S) /\ Tail(S)[i] = S[i + 1]
    BY <1>1, TailParts
  <1>3. Len(S) # 1
    BY <1>1 DEF StackOK
  <1>4. ASSUME NEW i \in 1..Len(Tail(S))
        PROVE  /\ Tail(S)[i].kind = "main" <=> i = Len(Tail(S))
               /\ Tail(S)[i].kind # "body" => Tail(S)[i].frame = 0 /\ Tail(S)[i].at # "finally"
               /\ Tail(S)[i].kind = "body" => BodyOK(r, F, Tail(S)[i])
    <2>1. i + 1 \in 1..Len(S) /\ Tail(S)[i] = S[i + 1] /\ (i + 1 = Len(S) <=> i = Len(Tail(S)))
      BY <1>1, <1>2
    <2> QED BY <1>1, <2>1 DEF StackOK
  <1>5. ASSUME NEW i \in 1..Len(Tail(S)), NEW j \in 1..Len(Tail(S)),
               Tail(S)[i].kind = "body", Tail(S)[j].frame = Tail(S)[i].frame
        PROVE  i = j
    <2>1. /\ i + 1 \in 1..Len(S) /\ Tail(S)[i] = S[i + 1]
          /\ j + 1 \in 1..Len(S) /\ Tail(S)[j] = S[j + 1]
      BY <1>2
    <2>2. S[i + 1].kind = "body" /\ S[j + 1].frame = S[i + 1].frame
      BY <1>5, <2>1
    <2>3. i + 1 = j + 1
      BY <1>1, <2>1, <2>2 DEF StackOK
    <2> QED BY <2>3, <1>1, <1>2
  <1>6. Tail(S) # <<>>
    <2>1. Len(S) \in Nat /\ Len(S) >= 1
      BY <1>1
    <2>2. Len(Tail(S)) # 0
      BY <1>2, <1>3, <2>1
    <2> QED BY <1>2, <2>2, EmptySeq
  <1>7. StackOK(r, F, Tail(S))
    BY <1>4, <1>5 DEF StackOK
  <1> QED BY <1>2, <1>6, <1>7

\* The same for a frame that is not on the stack.
Leavable(r, F, f, g, res) == Replaceable(r, F, f, g, FALSE, res)

\* The activation of the frame f at the top ends, and f becomes g.
LEMMA LeaveKeeps ==
    ASSUME NEW r, NEW F, NEW S, NEW res, NEW c, InvBut(0, r, F, S, res, c),
           S # <<>>, S[1].kind = "body", NEW f, f = S[1].frame,
           NEW g, g.result = F[f].result, Leavable(r, F, f, g, res)
    PROVE  /\ InvBut(f, r, Put(F, f, g), Tail(S), res, c)
           /\ Len(Put(F, f, g)) = Len(F) /\ Put(F, f, g)[f] = g
           /\ ~Resumed(r, f) /\ ~On(Tail(S), f) /\ Pending(r, g.result)
           /\ Tail(S) # <<>>
  <1> DEFINE G == Put(F, f, g)
             T == Tail(S)
  <1>1. /\ f \in 1..Len(F) /\ BodyOK(r, F, S[1]) /\ On(S, f) /\ ~On(T, f) /\ ~Resumed(r, f)
    BY OneActivation
  <1>2. /\ G \in Seq(FrameRecord) /\ Len(G) = Len(F)
        /\ G[f] = g /\ \A h \in 1..Len(F) : h # f => G[h] = F[h]
    BY <1>1, Typed DEF Leavable, Replaceable, Put
  <1>3. T \in Seq(ActivationRecord) /\ T # <<>> /\ StackOK(r, F, T)
    BY PopStack
  <1>4. \A h : h # f => (On(T, h) <=> On(S, h))
    BY Typed, TailOn
  <1> HIDE DEF G, T
  <1>5. FramesOK(r, G, T, res)
    <2>1. ASSUME NEW h \in 1..Len(G) PROVE FrameOK(r, G[h], On(T, h), res)
      <3>1. CASE h = f
        BY <1>1, <1>2, <3>1 DEF Leavable, Replaceable, FrameOK
      <3>2. CASE h # f
        BY <1>2, <1>4, <3>2 DEF InvBut, FramesOK, FrameOK
      <3> QED BY <3>1, <3>2
    <2>2. ASSUME NEW h \in 1..Len(G), NEW k \in 1..Len(G),
                 G[h].asked, G[k].asked, G[h].result = G[k].result
          PROVE  h = k
      <3>1. \A i \in 1..Len(F) : i # f /\ F[i].asked => F[i].result # g.result
        BY DEF Leavable, Replaceable
      <3>2. \A i, j \in 1..Len(F) : F[i].asked /\ F[j].asked /\ F[i].result = F[j].result => i = j
        BY DEF InvBut, FramesOK
      <3> QED BY <1>2, <2>2, <3>1, <3>2
    <2> QED BY <2>1, <2>2 DEF FramesOK
  <1>6. StackOK(r, G, T)
    <2>1. ASSUME NEW i \in 1..Len(T), T[i].kind = "body" PROVE BodyOK(r, G, T[i])
      <3>1. BodyOK(r, F, T[i])
        BY <1>3, <2>1 DEF StackOK
      <3>2. T[i].frame # f
        BY <1>1 DEF On
      <3> QED BY <1>2, <3>1, <3>2 DEF BodyOK
    <2> QED BY <1>3, <2>1 DEF StackOK
  <1>7. ASSUME NEW h, Resumed(r, h) PROVE Waits(r, G, T, h) /\ G[h] = F[h]
    <2>1. Waits(r, F, S, h) /\ h # f
      BY <1>1, <1>7, OnNotResumed
    <2> QED BY <1>2, <1>4, <2>1 DEF Waits
  <1>8. ReactionsOK(r, G, T)
    <2>1. ReactionsOK(r, F, S)
      BY DEF InvBut
    <2>2. \A p \in Ids : \A i \in 1..Len(Callbacks(r, p)) : Resumed(r, Callbacks(r, p)[i].caps.frame)
      BY DEF Resumed
    <2> QED BY <1>7, <2>1, <2>2 DEF ReactionsOK
  <1>9. JobsOK(r, G, T)
    <2>1. JobsOK(r, F, S)
      BY DEF InvBut
    <2>2. \A j \in 1..Len(r.queue) : Resumed(r, r.queue[j].caps.frame)
      BY DEF Resumed
    <2> QED BY <1>7, <2>1, <2>2 DEF JobsOK
  <1>10. \A h \in 1..Len(G) : h # f => Answerable(r, G[h], h, T)
    BY <1>2, <1>4 DEF InvBut, Answerable
  <1>11. InvBut(f, r, G, T, res, c)
    BY <1>2, <1>3, <1>5, <1>6, <1>8, <1>9, <1>10 DEF InvBut
  <1>12. Pending(r, g.result)
    BY <1>1 DEF BodyOK
  <1> QED BY <1>1, <1>2, <1>3, <1>11, <1>12 DEF G, T

\* A frame that is not on the stack.
Idle(r, g, res) == FrameOK(r, g, FALSE, res)

\* A frame is allocated.
LEMMA AppendKeeps ==
    ASSUME NEW r, NEW F, NEW S, NEW res, NEW c, InvBut(0, r, F, S, res, c),
           NEW g \in FrameRecord, Idle(r, g, res),
           \A h \in 1..Len(F) : F[h].asked /\ g.asked => F[h].result # g.result
    PROVE  /\ InvBut(Len(F) + 1, r, Append(F, g), S, res, c)
           /\ Append(F, g)[Len(F) + 1] = g
           /\ Len(Append(F, g)) = Len(F) + 1
           /\ ~On(S, Len(F) + 1) /\ ~Resumed(r, Len(F) + 1)
  <1> DEFINE G == Append(F, g)
             f == Len(F) + 1
  <1>1. /\ G \in Seq(FrameRecord) /\ Len(G) = Len(F) + 1 /\ Len(F) \in Nat
        /\ G[f] = g /\ \A h \in 1..Len(F) : G[h] = F[h]
    BY Typed
  <1>2. ~On(S, f)
    <2> SUFFICES ASSUME NEW i \in 1..Len(S), S[i].frame = f PROVE FALSE
      BY DEF On
    <2>1. S[i].frame # 0 /\ S[i].frame \notin 1..Len(F)
      BY <1>1
    <2> QED BY <2>1 DEF InvBut, StackOK, BodyOK
  <1>3. ~Resumed(r, f)
    BY <1>1, OnNotResumed DEF Waits
  <1>4. 1..Len(G) = 1..Len(F) \cup {f} /\ f \notin 1..Len(F)
    BY <1>1
  <1> HIDE DEF G, f
  <1>5. FramesOK(r, G, S, res)
    <2>1. ASSUME NEW h \in 1..Len(G) PROVE FrameOK(r, G[h], On(S, h), res)
      <3>1. CASE h = f
        BY <1>1, <1>2, <3>1 DEF Idle, FrameOK
      <3>2. CASE h # f
        BY <1>1, <1>4, <3>2 DEF InvBut, FramesOK
      <3> QED BY <3>1, <3>2
    <2>2. ASSUME NEW h \in 1..Len(G), NEW k \in 1..Len(G),
                 G[h].asked, G[k].asked, G[h].result = G[k].result
          PROVE  h = k
      BY <1>1, <1>4, <2>2 DEF InvBut, FramesOK
    <2> QED BY <2>1, <2>2 DEF FramesOK
  <1>6. StackOK(r, G, S)
    <2>1. ASSUME NEW i \in 1..Len(S), S[i].kind = "body" PROVE BodyOK(r, G, S[i])
      <3>1. BodyOK(r, F, S[i])
        BY <2>1 DEF InvBut, StackOK
      <3> QED BY <1>1, <1>4, <3>1 DEF BodyOK
    <2> QED BY <2>1 DEF InvBut, StackOK
  <1>7. ASSUME NEW h, Resumed(r, h) PROVE Waits(r, G, S, h) /\ G[h] = F[h]
    <2>1. Waits(r, F, S, h)
      BY <1>7, OnNotResumed
    <2> QED BY <1>1, <1>4, <2>1 DEF Waits
  <1>8. ReactionsOK(r, G, S)
    <2>1. ReactionsOK(r, F, S)
      BY DEF InvBut
    <2>2. \A p \in Ids : \A i \in 1..Len(Callbacks(r, p)) : Resumed(r, Callbacks(r, p)[i].caps.frame)
      BY DEF Resumed
    <2> QED BY <1>7, <2>1, <2>2 DEF ReactionsOK
  <1>9. JobsOK(r, G, S)
    <2>1. JobsOK(r, F, S)
      BY DEF InvBut
    <2>2. \A j \in 1..Len(r.queue) : Resumed(r, r.queue[j].caps.frame)
      BY DEF Resumed
    <2> QED BY <1>7, <2>1, <2>2 DEF JobsOK
  <1>10. \A h \in 1..Len(G) : h # f => Answerable(r, G[h], h, S)
    <2> SUFFICES ASSUME NEW h \in 1..Len(G), h # f PROVE Answerable(r, G[h], h, S)
      OBVIOUS
    <2>1. h \in 1..Len(F) /\ h # 0 /\ G[h] = F[h]
      BY <1>1, <1>4
    <2> QED BY <2>1 DEF InvBut
  <1>11. InvBut(f, r, G, S, res, c)
    BY <1>1, <1>5, <1>6, <1>8, <1>9, <1>10 DEF InvBut
  <1> QED BY <1>1, <1>2, <1>3, <1>11 DEF G, f

\* The exception for e is void if e is answerable.
LEMMA NoException ==
    ASSUME NEW e, NEW r, NEW F, NEW S, NEW res, NEW c, InvBut(e, r, F, S, res, c),
           e \in 1..Len(F) => Answerable(r, F[e], e, S)
    PROVE  InvBut(0, r, F, S, res, c)
  BY DEF InvBut

\* The frame f, which nothing will resume, is entered.
LEMMA EnterKeeps ==
    ASSUME NEW r, NEW F, NEW S, NEW res, NEW c, NEW f \in 1..Len(F), InvBut(f, r, F, S, res, c),
           F[f].asked, F[f].over = "no", F[f].mode = "next", Pending(r, F[f].result),
           ~On(S, f), ~Resumed(r, f), S # <<>>
    PROVE  LET T == <<Activation("body", f, F[f].result)>> \o S
           IN  /\ InvBut(0, r, F, T, res, c)
               /\ T # <<>> /\ T[1] = Activation("body", f, F[f].result) /\ Tail(T) = S
  <1> DEFINE a == Activation("body", f, F[f].result)
             T == <<a>> \o S
  <1>1. /\ F \in Seq(FrameRecord) /\ F[f] \in FrameRecord
        /\ S \in Seq(ActivationRecord) /\ Len(S) \in Nat /\ Len(F) \in Nat
    BY Typed
  <1>2. /\ a \in ActivationRecord
        /\ a.kind = "body" /\ a.at = "run" /\ a.frame = f /\ a.result = F[f].result
    <2>1. F[f].result \in Ids
      BY Asked
    <2>2. f \in Nat /\ NoValue \in Val
      BY <1>1 DEF Val
    <2> QED BY <2>1, <2>2 DEF Activation, ActivationRecord
  <1> HIDE DEF a
  <1>3. /\ T \in Seq(ActivationRecord)
        /\ Len(T) = Len(S) + 1
        /\ T[1] = a
        /\ \A i \in 1..Len(S) : i + 1 \in 1..Len(T) /\ T[i + 1] = S[i]
        /\ \A i \in 1..Len(T) : i # 1 => i - 1 \in 1..Len(S) /\ T[i] = S[i - 1]
    BY <1>1, <1>2, ConsParts
  <1>4. \A h : On(T, h) <=> h = f \/ On(S, h)
    BY <1>1, <1>2, ConsOn
  <1>5. Tail(T) = S /\ T # <<>>
    <2>1. Len(T) # 0
      BY <1>1, <1>3
    <2> QED BY <1>1, <1>2, <2>1
  <1> HIDE DEF T
  <1>6. StackOK(r, F, T)
    <2>1. StackOK(r, F, S) /\ Len(S) # 0
      BY <1>1 DEF InvBut
    <2>2. BodyOK(r, F, a)
      BY <1>2 DEF BodyOK
    <2>3. ASSUME NEW i \in 1..Len(T)
          PROVE  /\ T[i].kind = "main" <=> i = Len(T)
                 /\ T[i].kind # "body" => T[i].frame = 0 /\ T[i].at # "finally"
                 /\ T[i].kind = "body" => BodyOK(r, F, T[i])
      <3>1. CASE i = 1
        BY <1>1, <1>2, <1>3, <2>1, <2>2, <3>1
      <3>2. CASE i # 1
        <4>1. i - 1 \in 1..Len(S) /\ T[i] = S[i - 1] /\ (i = Len(T) <=> i - 1 = Len(S))
          BY <1>1, <1>3, <3>2
        <4> QED BY <2>1, <4>1 DEF StackOK
      <3> QED BY <3>1, <3>2
    <2>4. ASSUME NEW i \in 1..Len(T), NEW j \in 1..Len(T), T[i].kind = "body", T[j].frame = T[i].frame
          PROVE  i = j
      <3>1. \A k \in 1..Len(S) : S[k].frame # f
        BY DEF On
      <3>2. CASE i = 1
        BY <1>2, <1>3, <2>4, <3>1, <3>2
      <3>3. CASE j = 1
        BY <1>2, <1>3, <2>4, <3>1, <3>3
      <3>4. CASE i # 1 /\ j # 1
        <4>1. /\ i - 1 \in 1..Len(S) /\ T[i] = S[i - 1]
              /\ j - 1 \in 1..Len(S) /\ T[j] = S[j - 1]
          BY <1>3, <3>4
        <4>2. i - 1 = j - 1
          BY <2>1, <2>4, <4>1 DEF StackOK
        <4> QED BY <1>1, <1>3, <4>2
      <3> QED BY <3>2, <3>3, <3>4
    <2> QED BY <2>3, <2>4 DEF StackOK
  <1>7. FramesOK(r, F, T, res)
    <2>1. FramesOK(r, F, S, res)
      BY DEF InvBut
    <2>2. ASSUME NEW h \in 1..Len(F) PROVE FrameOK(r, F[h], On(T, h), res)
      <3>1. FrameOK(r, F[h], On(S, h), res)
        BY <2>1 DEF FramesOK
      <3> QED BY <1>4, <3>1 DEF FrameOK
    <2> QED BY <2>1, <2>2 DEF FramesOK
  <1>8. ASSUME NEW h, Resumed(r, h) PROVE Waits(r, F, T, h)
    <2>1. Waits(r, F, S, h) /\ h # f
      BY <1>8, OnNotResumed
    <2> QED BY <1>4, <2>1 DEF Waits
  <1>9. ReactionsOK(r, F, T)
    <2>1. ReactionsOK(r, F, S)
      BY DEF InvBut
    <2>2. \A p \in Ids : \A i \in 1..Len(Callbacks(r, p)) : Resumed(r, Callbacks(r, p)[i].caps.frame)
      BY DEF Resumed
    <2> QED BY <1>8, <2>1, <2>2 DEF ReactionsOK
  <1>10. JobsOK(r, F, T)
    <2>1. JobsOK(r, F, S)
      BY DEF InvBut
    <2>2. \A j \in 1..Len(r.queue) : Resumed(r, r.queue[j].caps.frame)
      BY DEF Resumed
    <2> QED BY <1>8, <2>1, <2>2 DEF JobsOK
  <1>11. \A h \in 1..Len(F) : Answerable(r, F[h], h, T)
    <2> SUFFICES ASSUME NEW h \in 1..Len(F) PROVE Answerable(r, F[h], h, T)
      OBVIOUS
    <2>1. CASE h = f
      BY <1>4, <2>1 DEF Answerable
    <2>2. CASE h # f
      BY <1>4, <2>2 DEF InvBut, Answerable
    <2> QED BY <2>1, <2>2
  <1>12. InvBut(0, r, F, T, res, c)
    BY <1>1, <1>3, <1>6, <1>7, <1>9, <1>10, <1>11 DEF InvBut
  <1> QED BY <1>3, <1>5, <1>12 DEF T, a

\* The frame f, which nothing will resume, becomes a reaction of what it awaits.
LEMMA SuspendKeeps ==
    ASSUME NEW r, NEW F, NEW S, NEW res, NEW c, NEW f \in 1..Len(F), InvBut(f, r, F, S, res, c),
           Waits(r, F, S, f), ~Resumed(r, f), NEW p \in Ids, F[f].awaits = p, Pending(r, p),
           p <= r.minted, Len(Callbacks(r, p)) < c, NEW s, Lists(r, s, p, f)
    PROVE  InvBut(0, s, F, S, res, c)
  <1>1. /\ r \in Runtime /\ s \in Runtime /\ s.minted = r.minted /\ s.queue = r.queue
        /\ r.minted \in Nat /\ c \in Nat
    <2>1. r \in Runtime /\ r.minted \in Nat
      BY Typed
    <2>2. c \in Nat
      BY MaxCallsAssumption DEF InvBut, Counted
    <2> QED BY <2>1, <2>2 DEF Lists
  <1>2. /\ \A q \in Ids : q # p => s.promise[q] = r.promise[q]
        /\ \A q \in Ids : /\ s.promise[q].state = r.promise[q].state
                          /\ s.promise[q].value = r.promise[q].value
                          /\ Pending(s, q) <=> Pending(r, q)
        /\ \A q \in Ids : q # p => Callbacks(s, q) = Callbacks(r, q)
    BY DEF Lists, Pending, Callbacks
  <1>3. /\ Len(Callbacks(r, p)) \in Nat
        /\ Len(Callbacks(s, p)) = Len(Callbacks(r, p)) + 1
        /\ Callbacks(s, p)[1].caps.frame = f
        /\ \A i \in 1..Len(Callbacks(s, p)) :
              i # 1 => i - 1 \in 1..Len(Callbacks(r, p)) /\ Callbacks(s, p)[i] = Callbacks(r, p)[i - 1]
    <2>1. /\ Len(Callbacks(r, p)) \in Nat
          /\ Len(Callbacks(s, p)) = Len(Callbacks(r, p)) + 1
          /\ Callbacks(s, p)[1].caps.frame = f
          /\ \A i \in 1..Len(Callbacks(r, p)) : Callbacks(s, p)[i + 1] = Callbacks(r, p)[i]
      BY <1>1, ListTyped DEF Lists
    <2>2. ASSUME NEW i \in 1..Len(Callbacks(s, p)), i # 1
          PROVE  i - 1 \in 1..Len(Callbacks(r, p)) /\ Callbacks(s, p)[i] = Callbacks(r, p)[i - 1]
      <3>1. i - 1 \in 1..Len(Callbacks(r, p)) /\ (i - 1) + 1 = i
        BY <2>1, <2>2
      <3> QED BY <2>1, <3>1
    <2> QED BY <2>1, <2>2
  <1>4. Counted(s, res, c)
    <2>1. Counted(r, res, c)
      BY DEF InvBut
    <2>2. \A q \in Ids : q > s.minted => s.promise[q] = NewPromise
      BY <1>1, <1>2, <2>1 DEF Counted, Ids
    <2>3. \A q \in Ids : Len(Callbacks(s, q)) <= c
      BY <1>1, <1>2, <1>3, <2>1 DEF Counted
    <2> QED BY <1>1, <2>1, <2>2, <2>3 DEF Counted
  <1>5. \A fr, st, v : Matches(r, fr, st, v) => Matches(s, fr, st, v)
    BY <1>2 DEF Matches
  <1>6. FramesOK(s, F, S, res)
    <2>1. FramesOK(r, F, S, res)
      BY DEF InvBut
    <2>2. ASSUME NEW h \in 1..Len(F) PROVE FrameOK(s, F[h], On(S, h), res)
      BY <1>1, <1>5, <2>1 DEF FramesOK, FrameOK, Delivered
    <2> QED BY <2>1, <2>2 DEF FramesOK
  <1>7. StackOK(s, F, S)
    <2>1. StackOK(r, F, S)
      BY DEF InvBut
    <2>2. ASSUME NEW i \in 1..Len(S), S[i].kind = "body" PROVE BodyOK(s, F, S[i])
      <3>1. BodyOK(r, F, S[i])
        BY <2>1, <2>2 DEF StackOK
      <3>2. S[i].result \in Ids
        BY <3>1, Asked DEF BodyOK
      <3> QED BY <1>2, <3>1, <3>2 DEF BodyOK
    <2> QED BY <2>1, <2>2 DEF StackOK
  <1>8. ASSUME NEW h, Waits(r, F, S, h) PROVE Waits(s, F, S, h)
    <2>1. F[h].result \in Ids
      BY <1>8, Asked DEF Waits
    <2> QED BY <1>2, <1>8, <2>1 DEF Waits
  <1>9. ReactionsOK(s, F, S)
    <2>1. ReactionsOK(r, F, S)
      BY DEF InvBut
    <2>2. ASSUME NEW q \in Ids, NEW i \in 1..Len(Callbacks(s, q))
          PROVE  /\ Pending(s, q)
                 /\ Waits(s, F, S, Callbacks(s, q)[i].caps.frame)
                 /\ F[Callbacks(s, q)[i].caps.frame].awaits = q
      <3>1. CASE q # p
        BY <1>2, <1>8, <2>1, <2>2, <3>1 DEF ReactionsOK
      <3>2. CASE q = p /\ i = 1
        BY <1>2, <1>3, <1>8, <3>2
      <3>3. CASE q = p /\ i # 1
        <4>1. i - 1 \in 1..Len(Callbacks(r, p)) /\ Callbacks(s, p)[i] = Callbacks(r, p)[i - 1]
          BY <1>3, <2>2, <3>3
        <4> QED BY <1>2, <1>8, <2>1, <3>3, <4>1 DEF ReactionsOK
      <3> QED BY <3>1, <3>2, <3>3
    <2>3. \A i \in 1..Len(Callbacks(r, p)) : Callbacks(r, p)[i].caps.frame # f
      BY DEF Resumed
    <2>4. ASSUME NEW q \in Ids, NEW i \in 1..Len(Callbacks(s, q)), NEW j \in 1..Len(Callbacks(s, q)),
                 Callbacks(s, q)[i].caps.frame = Callbacks(s, q)[j].caps.frame
          PROVE  i = j
      <3>1. CASE q # p
        BY <1>2, <2>1, <2>4, <3>1 DEF ReactionsOK
      <3>2. CASE q = p /\ i = 1
        BY <1>3, <2>3, <2>4, <3>2
      <3>3. CASE q = p /\ j = 1
        BY <1>3, <2>3, <2>4, <3>3
      <3>4. CASE q = p /\ i # 1 /\ j # 1
        <4>1. /\ i - 1 \in 1..Len(Callbacks(r, p)) /\ Callbacks(s, p)[i] = Callbacks(r, p)[i - 1]
              /\ j - 1 \in 1..Len(Callbacks(r, p)) /\ Callbacks(s, p)[j] = Callbacks(r, p)[j - 1]
          BY <1>3, <2>4, <3>4
        <4>2. i - 1 = j - 1
          BY <2>1, <2>4, <3>4, <4>1, SMTT(30) DEF ReactionsOK
        <4> QED BY <1>3, <3>4, <4>2
      <3> QED BY <3>1, <3>2, <3>3, <3>4
    <2> QED BY <2>2, <2>4 DEF ReactionsOK
  <1>10. JobsOK(s, F, S)
    BY <1>1, <1>5, <1>8 DEF InvBut, JobsOK
  <1>11. ASSUME NEW h \in 1..Len(F) PROVE Answerable(s, F[h], h, S)
    <2>1. CASE h = f
      <3>1. 1 \in 1..Len(Callbacks(s, p))
        BY <1>3
      <3>2. Resumed(s, f)
        BY <1>3, <3>1 DEF Resumed
      <3> QED BY <2>1, <3>2 DEF Answerable, Waits
    <2>2. CASE h # f
      <3>1. Answerable(r, F[h], h, S)
        BY <2>2 DEF InvBut
      <3>2. Resumed(r, h) => Resumed(s, h)
        <4>1. ASSUME NEW q \in Ids, NEW i \in 1..Len(Callbacks(r, q)), Callbacks(r, q)[i].caps.frame = h
              PROVE  Resumed(s, h)
          <5>1. CASE q # p
            BY <1>2, <4>1, <5>1 DEF Resumed
          <5>2. CASE q = p
            <6>1. i + 1 \in 1..Len(Callbacks(s, p)) /\ Callbacks(s, p)[i + 1] = Callbacks(r, p)[i]
              BY <1>3, <5>2 DEF Lists
            <6> QED BY <4>1, <5>2, <6>1 DEF Resumed
          <5> QED BY <5>1, <5>2
        <4>2. ASSUME NEW j \in 1..Len(r.queue), r.queue[j].caps.frame = h PROVE Resumed(s, h)
          BY <1>1, <4>2 DEF Resumed
        <4> QED BY <4>1, <4>2 DEF Resumed
      <3>3. F[h].asked => F[h].result \in Ids
        BY Asked
      <3> QED BY <1>2, <3>1, <3>2, <3>3 DEF Answerable
    <2> QED BY <2>1, <2>2
  <1> QED BY <1>1, <1>4, <1>6, <1>7, <1>9, <1>10, <1>11, Typed DEF InvBut

\* The frame f, which nothing will resume, gets a job with what it awaits.
LEMMA QueueKeeps ==
    ASSUME NEW r, NEW F, NEW S, NEW res, NEW c, NEW f \in 1..Len(F), InvBut(f, r, F, S, res, c),
           Waits(r, F, S, f), ~Resumed(r, f), NEW st, NEW v, Matches(r, F[f], st, v),
           NEW s, Queues(r, s, f, st, v)
    PROVE  InvBut(0, s, F, S, res, c)
  <1>1. r \in Runtime /\ s \in Runtime /\ s.minted = r.minted /\ s.promise = r.promise
    BY Typed DEF Queues
  <1>2. \A q : (Pending(s, q) <=> Pending(r, q)) /\ Callbacks(s, q) = Callbacks(r, q)
    BY <1>1 DEF Pending, Callbacks
  <1>3. /\ Len(r.queue) \in Nat
        /\ Len(s.queue) = Len(r.queue) + 1
        /\ \A i \in 1..Len(s.queue) :
              i = Len(r.queue) + 1 \/ (i \in 1..Len(r.queue) /\ s.queue[i] = r.queue[i])
        /\ s.queue[Len(r.queue) + 1].caps.frame = f
        /\ JobState(s.queue[Len(r.queue) + 1]) = st
        /\ s.queue[Len(r.queue) + 1].arg = v
    BY <1>1, QueueTyped DEF Queues
  <1>4. \A fr, t, w : Matches(r, fr, t, w) => Matches(s, fr, t, w)
    BY <1>1, <1>2 DEF Matches
  <1>5. \A h : Waits(r, F, S, h) => Waits(s, F, S, h)
    BY <1>2 DEF Waits
  <1>6. Counted(s, res, c)
    BY <1>1, <1>2 DEF InvBut, Counted
  <1>7. FramesOK(s, F, S, res)
    <2>1. FramesOK(r, F, S, res)
      BY DEF InvBut
    <2>2. ASSUME NEW h \in 1..Len(F) PROVE FrameOK(s, F[h], On(S, h), res)
      BY <1>1, <1>4, <2>1 DEF FramesOK, FrameOK, Delivered
    <2> QED BY <2>1, <2>2 DEF FramesOK
  <1>8. StackOK(s, F, S)
    BY <1>2 DEF InvBut, StackOK, BodyOK
  <1>9. ReactionsOK(s, F, S)
    BY <1>2, <1>5 DEF InvBut, ReactionsOK
  <1>10. JobsOK(s, F, S)
    <2>1. JobsOK(r, F, S)
      BY DEF InvBut
    <2>2. ASSUME NEW j \in 1..Len(s.queue)
          PROVE  /\ Waits(s, F, S, s.queue[j].caps.frame)
                 /\ Matches(s, F[s.queue[j].caps.frame], JobState(s.queue[j]), s.queue[j].arg)
      <3>1. CASE j = Len(r.queue) + 1
        BY <1>3, <1>4, <1>5, <3>1
      <3>2. CASE j \in 1..Len(r.queue) /\ s.queue[j] = r.queue[j]
        BY <1>4, <1>5, <2>1, <3>2 DEF JobsOK
      <3> QED BY <1>3, <3>1, <3>2
    <2>3. \A i \in 1..Len(r.queue) : r.queue[i].caps.frame # f
      BY DEF Resumed
    <2>4. ASSUME NEW i \in 1..Len(s.queue), NEW j \in 1..Len(s.queue),
                 s.queue[i].caps.frame = s.queue[j].caps.frame
          PROVE  i = j
      BY <1>3, <2>1, <2>3, <2>4 DEF JobsOK
    <2> QED BY <2>2, <2>4 DEF JobsOK
  <1>11. ASSUME NEW h \in 1..Len(F) PROVE Answerable(s, F[h], h, S)
    <2>1. CASE h = f
      <3>1. Len(r.queue) + 1 \in 1..Len(s.queue)
        BY <1>3
      <3>2. Resumed(s, f)
        BY <1>3, <3>1 DEF Resumed
      <3> QED BY <2>1, <3>2 DEF Answerable, Waits
    <2>2. CASE h # f
      <3>1. Answerable(r, F[h], h, S)
        BY <2>2 DEF InvBut
      <3>2. \A j \in 1..Len(r.queue) : j \in 1..Len(s.queue) /\ s.queue[j] = r.queue[j]
        BY <1>3 DEF Queues
      <3>3. Resumed(r, h) => Resumed(s, h)
        BY <1>2, <3>2 DEF Resumed
      <3> QED BY <1>2, <3>1, <3>3 DEF Answerable
    <2> QED BY <2>1, <2>2
  <1> QED BY <1>1, <1>6, <1>7, <1>8, <1>9, <1>10, <1>11, Typed DEF InvBut

\* A job is taken from the queue: its frame waits for just what it brings.
LEMMA TakeKeeps ==
    ASSUME NEW r, NEW F, NEW S, NEW res, NEW c, InvBut(0, r, F, S, res, c), r.queue # <<>>
    PROVE  LET s == [r EXCEPT !.queue = Tail(@)]
               job == Head(r.queue)
               f == job.caps.frame
           IN  /\ InvBut(f, s, F, S, res, c)
               /\ job \in JobRecord /\ s.promise = r.promise /\ s.queue = Tail(r.queue)
               /\ f \in 1..Len(F) /\ ~Resumed(s, f) /\ Waits(s, F, S, f)
               /\ Matches(s, F[f], JobState(job), job.arg)
  <1> DEFINE s == [r EXCEPT !.queue = Tail(@)]
             job == Head(r.queue)
             f == job.caps.frame
  <1>1. r \in Runtime /\ r.queue \in Seq(JobRecord)
    <2>1. r \in Runtime
      BY Typed
    <2> QED BY <2>1 DEF Runtime
  <1>2. /\ Tail(r.queue) \in Seq(JobRecord)
        /\ Len(r.queue) \in Nat /\ 1 \in 1..Len(r.queue) /\ job = r.queue[1]
        /\ Len(Tail(r.queue)) = Len(r.queue) - 1
        /\ \A i \in 1..Len(Tail(r.queue)) : i + 1 \in 1..Len(r.queue) /\ Tail(r.queue)[i] = r.queue[i + 1]
        /\ \A i \in 1..Len(r.queue) : i # 1 => /\ i - 1 \in 1..Len(Tail(r.queue))
                                               /\ Tail(r.queue)[i - 1] = r.queue[i]
    BY <1>1, TailParts
  <1>3. s \in Runtime /\ s.minted = r.minted /\ s.promise = r.promise /\ s.queue = Tail(r.queue)
    BY <1>1, <1>2 DEF Runtime
  <1> HIDE DEF s, job
  <1>4. \A q : (Pending(s, q) <=> Pending(r, q)) /\ Callbacks(s, q) = Callbacks(r, q)
    BY <1>3 DEF Pending, Callbacks
  <1>5. \A fr, t, w : Matches(r, fr, t, w) => Matches(s, fr, t, w)
    BY <1>3, <1>4 DEF Matches
  <1>6. \A h : Waits(r, F, S, h) => Waits(s, F, S, h)
    BY <1>4 DEF Waits
  <1>7. JobsOK(r, F, S) /\ ReactionsOK(r, F, S)
    BY SMTT(30) DEF InvBut
  <1>8. Waits(s, F, S, f) /\ Matches(r, F[f], JobState(job), job.arg) /\ f \in 1..Len(F)
    BY <1>2, <1>6, <1>7 DEF JobsOK, Waits
  <1>9. ~Resumed(s, f)
    <2>1. ASSUME NEW q \in Ids, NEW i \in 1..Len(Callbacks(s, q)), Callbacks(s, q)[i].caps.frame = f
          PROVE  FALSE
      <3>1. F[f].awaits = q /\ Pending(r, q)
        BY <1>4, <1>7, <2>1 DEF ReactionsOK
      <3> QED BY <1>8, <3>1 DEF Matches
    <2>2. ASSUME NEW j \in 1..Len(s.queue), s.queue[j].caps.frame = f
          PROVE  FALSE
      <3>1. j + 1 \in 1..Len(r.queue) /\ r.queue[j + 1].caps.frame = r.queue[1].caps.frame
        BY <1>2, <1>3, <2>2
      <3>2. j + 1 = 1
        BY <1>2, <1>7, <3>1 DEF JobsOK
      <3>3. j \in Nat /\ j >= 1
        BY <1>2, <1>3
      <3> QED BY <3>2, <3>3
    <2> QED BY <2>1, <2>2 DEF Resumed
  <1>10. Counted(s, res, c)
    BY <1>3, <1>4 DEF InvBut, Counted
  <1>11. FramesOK(s, F, S, res)
    <2>1. FramesOK(r, F, S, res)
      BY DEF InvBut
    <2>2. ASSUME NEW h \in 1..Len(F) PROVE FrameOK(s, F[h], On(S, h), res)
      BY <1>3, <1>5, <2>1 DEF FramesOK, FrameOK, Delivered
    <2> QED BY <2>1, <2>2 DEF FramesOK
  <1>12. StackOK(s, F, S)
    BY <1>4 DEF InvBut, StackOK, BodyOK
  <1>13. ReactionsOK(s, F, S)
    BY <1>4, <1>6, <1>7 DEF ReactionsOK
  <1>14. JobsOK(s, F, S)
    <2>1. ASSUME NEW j \in 1..Len(s.queue)
          PROVE  /\ Waits(s, F, S, s.queue[j].caps.frame)
                 /\ Matches(s, F[s.queue[j].caps.frame], JobState(s.queue[j]), s.queue[j].arg)
      <3>1. j + 1 \in 1..Len(r.queue) /\ s.queue[j] = r.queue[j + 1]
        BY <1>2, <1>3
      <3> QED BY <1>5, <1>6, <1>7, <3>1 DEF JobsOK
    <2>2. ASSUME NEW i \in 1..Len(s.queue), NEW j \in 1..Len(s.queue),
                 s.queue[i].caps.frame = s.queue[j].caps.frame
          PROVE  i = j
      <3>1. i + 1 = j + 1
        BY <1>2, <1>3, <1>7, <2>2 DEF JobsOK
      <3> QED BY <1>2, <1>3, <3>1
    <2> QED BY <2>1, <2>2 DEF JobsOK
  <1>15. ASSUME NEW h \in 1..Len(F), h # f PROVE Answerable(s, F[h], h, S)
    <2>1. Answerable(r, F[h], h, S)
      <3>1. h # 0
        BY Typed
      <3> QED BY <3>1 DEF InvBut
    <2>2. ASSUME NEW j \in 1..Len(r.queue), r.queue[j].caps.frame = h PROVE Resumed(s, h)
      <3>1. j # 1
        BY <1>2, <1>15, <2>2
      <3>2. j - 1 \in 1..Len(s.queue) /\ s.queue[j - 1] = r.queue[j]
        BY <1>2, <1>3, <3>1
      <3> QED BY <2>2, <3>2 DEF Resumed
    <2>3. Resumed(r, h) => Resumed(s, h)
      BY <1>4, <2>2 DEF Resumed
    <2> QED BY <1>4, <2>1, <2>3 DEF Answerable
  <1>16. InvBut(f, s, F, S, res, c)
    BY <1>3, <1>10, <1>11, <1>12, <1>13, <1>14, <1>15, Typed DEF InvBut
  <1>17. job \in JobRecord
    BY <1>1, <1>2
  <1> QED BY <1>3, <1>5, <1>8, <1>9, <1>16, <1>17 DEF s, job
-----------------------------------------------------------------------------
(***************************************************************************)
(* The resume function on states of the machine.                           *)
(***************************************************************************)

\* A state of the machine.
M(r, F, S) == [rt |-> r, frame |-> F, stack |-> S]

\* The invariant of a state of the machine.
Good(s, res, c) == InvBut(0, s.rt, s.frame, s.stack, res, c)

\* The record g of a frame with another STATE.
WithState(g, x) == [g EXCEPT !.state = x]

\* The record g of a frame that has ended.
WithOver(g, x) == [g EXCEPT !.over = x]

\* What they are.
LEMMA WithParts ==
    ASSUME NEW g \in FrameRecord
    PROVE  /\ \A x \in StateRecord :
                 /\ WithState(g, x) \in FrameRecord
                 /\ WithState(g, x).state = x
                 /\ WithState(g, x).over = g.over
                 /\ WithState(g, x).kind = g.kind /\ WithState(g, x).mode = g.mode
                 /\ WithState(g, x).result = g.result /\ WithState(g, x).asked = g.asked
                 /\ WithState(g, x).got = g.got /\ WithState(g, x).awaits = g.awaits
           /\ \A x \in {"no", "threw", "returned", "escaped"} :
                 /\ WithOver(g, x) \in FrameRecord
                 /\ WithOver(g, x).over = x
                 /\ WithOver(g, x).state = g.state
                 /\ WithOver(g, x).kind = g.kind /\ WithOver(g, x).mode = g.mode
                 /\ WithOver(g, x).result = g.result /\ WithOver(g, x).asked = g.asked
                 /\ WithOver(g, x).got = g.got /\ WithOver(g, x).awaits = g.awaits
  <1>1. ASSUME NEW x \in StateRecord
        PROVE  /\ WithState(g, x) \in FrameRecord
               /\ WithState(g, x).state = x
               /\ WithState(g, x).over = g.over
               /\ WithState(g, x).kind = g.kind /\ WithState(g, x).mode = g.mode
               /\ WithState(g, x).result = g.result /\ WithState(g, x).asked = g.asked
               /\ WithState(g, x).got = g.got /\ WithState(g, x).awaits = g.awaits
    BY DEF WithState, FrameRecord
  <1>2. ASSUME NEW x \in {"no", "threw", "returned", "escaped"}
        PROVE  /\ WithOver(g, x) \in FrameRecord
               /\ WithOver(g, x).over = x
               /\ WithOver(g, x).state = g.state
               /\ WithOver(g, x).kind = g.kind /\ WithOver(g, x).mode = g.mode
               /\ WithOver(g, x).result = g.result /\ WithOver(g, x).asked = g.asked
               /\ WithOver(g, x).got = g.got /\ WithOver(g, x).awaits = g.awaits
    BY DEF WithOver, FrameRecord
  <1> QED BY <1>1, <1>2

\* The fields.
LEMMA MParts ==
    ASSUME NEW r, NEW F, NEW S
    PROVE  /\ M(r, F, S).rt = r /\ M(r, F, S).frame = F /\ M(r, F, S).stack = S
           /\ \A res, c : Good(M(r, F, S), res, c) <=> InvBut(0, r, F, S, res, c)
  BY DEF M, Good

\* The activation at the top ends.
LEMMA LeaveIs ==
    ASSUME NEW r, NEW F, NEW S
    PROVE  Leave(M(r, F, S)) = M(r, F, Tail(S))
  <1> DEFINE T == Tail(S)
  <1>0. M(r, F, S).stack = S
    BY MParts
  <1>1. Leave(M(r, F, S)) = [M(r, F, S) EXCEPT !.stack = T]
    BY <1>0, Zenon DEF Leave
  <1> HIDE DEF T
  <1>2. [M(r, F, S) EXCEPT !.stack = T] = M(r, F, T)
    BY DEF M
  <1> QED BY <1>1, <1>2 DEF T

\* The machine with another STATE of the frame that runs.
LEMMA SetStateIs ==
    ASSUME NEW r, NEW F, NEW S, NEW x
    PROVE  SetState(M(r, F, S), x) =
              M(r, Put(F, Head(S).frame, WithState(F[Head(S).frame], x)), S)
  BY DEF M, SetState, Running, Top, Put, WithState

\* The machine when the body that runs has ended.
LEMMA OverIs ==
    ASSUME NEW r, NEW F, NEW S, NEW x
    PROVE  Over(M(r, F, S), x) =
              M(r, Put(F, Head(S).frame, WithOver(F[Head(S).frame], x)), S)
  BY DEF M, Over, Running, Top, Put, WithOver

\* The result of the frame that runs is fulfilled.
LEMMA FulfillIs ==
    ASSUME NEW r, NEW F, NEW S, NEW v
    PROVE  FulfillResult(M(r, F, S), v) = M(Settle(r, Head(S).result, "fulfilled", v), F, S)
  BY DEF M, FulfillResult, Top, Fulfill

\* The result of the frame that runs is rejected.
LEMMA SettleIs ==
    ASSUME NEW r, NEW F, NEW S, NEW v
    PROVE  [M(r, F, S) EXCEPT !.rt = Reject(@, Top(M(r, F, S)).result, v)] =
              M(Settle(r, Head(S).result, "rejected", v), F, S)
  BY DEF M, Top, Reject

\* A frame is replaced twice.
LEMMA TwiceIs ==
    ASSUME NEW T, NEW F \in Seq(T), NEW f \in 1..Len(F), NEW g, NEW h
    PROVE  /\ Put(Put(F, f, g), f, h) = Put(F, f, h)
           /\ Put(F, f, g)[f] = g
           /\ Put(F, f, F[f]) = F
  <1>1. F = [i \in 1..Len(F) |-> F[i]]
    OBVIOUS
  <1> DEFINE D == 1..Len(F)
  <1> HIDE DEF D
  <1>2. F = [i \in D |-> F[i]] /\ f \in D
    BY <1>1 DEF D
  <1> QED BY <1>2, Zenon DEF Put

\* A record for the frame f, which runs.
Variant(r, F, f, g) ==
    /\ g \in FrameRecord
    /\ g.kind = F[f].kind
    /\ g.result = F[f].result
    /\ g.asked
    /\ g.over = "no"
    /\ g.kind = "generator" => g.state.region = "none" /\ g.state.next # "return"
    /\ Delivered(r, g)

\* The frame that runs is one.
LEMMA RunningVariant ==
    ASSUME NEW r, NEW F, NEW S, NEW res, NEW c, InvBut(0, r, F, S, res, c),
           S # <<>>, S[1].kind = "body"
    PROVE  /\ S[1].frame \in 1..Len(F)
           /\ Variant(r, F, S[1].frame, F[S[1].frame])
           /\ Head(S) = S[1] /\ S[1].result = F[S[1].frame].result
           /\ F \in Seq(FrameRecord)
           /\ F[S[1].frame].result \in Ids /\ Pending(r, F[S[1].frame].result)
           /\ FrameOK(r, F[S[1].frame], On(S, S[1].frame), res)
           /\ \A h \in 1..Len(F) : h # S[1].frame /\ F[h].asked => F[h].result # F[S[1].frame].result
  <1>1. S[1].frame \in 1..Len(F) /\ BodyOK(r, F, S[1])
    BY OneActivation
  <1>2. FramesOK(r, F, S, res)
    BY DEF InvBut
  <1>3. FrameOK(r, F[S[1].frame], On(S, S[1].frame), res)
    BY <1>1, <1>2 DEF FramesOK
  <1>4. F[S[1].frame] \in FrameRecord /\ F \in Seq(FrameRecord)
    BY <1>1, Typed
  <1>5. Variant(r, F, S[1].frame, F[S[1].frame])
    BY <1>1, <1>3, <1>4 DEF Variant, BodyOK, FrameOK
  <1>6. Head(S) = S[1]
    BY Typed, TailParts
  <1>7. F[S[1].frame].result \in Ids
    BY <1>1, Asked DEF BodyOK
  <1>8. \A h \in 1..Len(F) : h # S[1].frame /\ F[h].asked => F[h].result # F[S[1].frame].result
    BY <1>1, <1>2 DEF FramesOK, BodyOK
  <1> QED BY <1>1, <1>3, <1>4, <1>5, <1>6, <1>7, <1>8 DEF BodyOK

\* The run of the frame f at the top ends: its result is settled, and it becomes g.
LEMMA FinishKeeps ==
    ASSUME NEW r, NEW F, NEW S, NEW res, NEW c, InvBut(0, r, F, S, res, c),
           S # <<>>, S[1].kind = "body", NEW f, f = S[1].frame,
           NEW g \in FrameRecord, g.kind = F[f].kind, g.result = F[f].result, g.asked,
           g.over # "escaped", g.over = "no" => g.mode = "next",
           g.kind = "generator" => g.state.region = "none" /\ g.state.next # "return",
           g.kind = "generator" /\ g.over # "no" => g.state.does = "completed",
           Delivered(r, g),
           NEW st \in {"fulfilled", "rejected"}, NEW v \in Val
    PROVE  InvBut(0, Settle(r, S[1].result, st, v), Put(F, f, g), Tail(S), res, c)
  <1> DEFINE p == S[1].result
             G == Put(F, f, g)
  <1>1. /\ f \in 1..Len(F) /\ p = F[f].result /\ p \in Ids /\ Pending(r, p)
        /\ FrameOK(r, F[f], On(S, f), res) /\ F[f].asked
        /\ \A h \in 1..Len(F) : h # f /\ F[h].asked => F[h].result # p
        /\ F \in Seq(FrameRecord)
    BY RunningVariant DEF Variant
  <1>2. FrameOK(r, g, FALSE, res)
    BY <1>1 DEF FrameOK
  <1>3. Leavable(r, F, f, g, res)
    BY <1>1, <1>2 DEF Leavable, Replaceable
  <1>4. /\ InvBut(f, r, G, Tail(S), res, c)
        /\ Len(G) = Len(F) /\ G[f] = g
        /\ ~Resumed(r, f) /\ ~On(Tail(S), f)
    BY <1>3, LeaveKeeps
  <1>5. Settles(r, Settle(r, p, st, v), p, st, v)
    BY <1>1, Typed, Settling
  <1>6. p <= r.minted
    BY <1>1, Asked
  <1>7. \A h \in 1..Len(G) : G[h].asked /\ G[h].result = p => h = f
    BY <1>1, <1>4 DEF Put
  <1>8. f \in Nat
    BY <1>1, Typed, SMTT(30)
  <1> HIDE DEF G, p
  <1>9. InvBut(0, Settle(r, p, st, v), G, Tail(S), res, c)
    BY <1>1, <1>4, <1>5, <1>6, <1>7, <1>8, SettlesKeeps
  <1> QED BY <1>9 DEF G, p

\* The first activation becomes a, of the same frame.
LEMMA TopKeeps ==
    ASSUME NEW e, NEW r, NEW F, NEW S, NEW res, NEW c, InvBut(e, r, F, S, res, c), S # <<>>,
           NEW a \in ActivationRecord, a.kind = S[1].kind, a.frame = S[1].frame,
           a.kind = "body" => BodyOK(r, F, a), a.kind # "body" => a.at # "finally"
    PROVE  /\ InvBut(e, r, F, Put(S, 1, a), res, c)
           /\ Put(S, 1, a)[1] = a
           /\ Put(S, 1, a) # <<>>
           /\ \A h : On(Put(S, 1, a), h) <=> On(S, h)
  <1> DEFINE T == Put(S, 1, a)
  <1>1. S \in Seq(ActivationRecord) /\ Len(S) \in Nat /\ 1 \in 1..Len(S)
    BY Typed, TailParts
  <1>2. /\ T \in Seq(ActivationRecord) /\ Len(T) = Len(S) /\ T[1] = a
        /\ \A i \in 1..Len(S) : i # 1 => T[i] = S[i]
    BY <1>1 DEF Put
  <1>3. T # <<>>
    BY <1>1, <1>2
  <1> HIDE DEF T
  <1>4. \A i \in 1..Len(S) : T[i].kind = S[i].kind /\ T[i].frame = S[i].frame
    BY <1>2
  <1>5. \A h : On(T, h) <=> On(S, h)
    BY <1>2, <1>4 DEF On
  <1>6. StackOK(r, F, T)
    <2>1. StackOK(r, F, S)
      BY DEF InvBut
    <2>2. ASSUME NEW i \in 1..Len(T)
          PROVE  /\ T[i].kind = "main" <=> i = Len(T)
                 /\ T[i].kind # "body" => T[i].frame = 0 /\ T[i].at # "finally"
                 /\ T[i].kind = "body" => BodyOK(r, F, T[i])
      <3>1. CASE i = 1
        BY <1>1, <1>2, <2>1, <3>1 DEF StackOK
      <3>2. CASE i # 1
        BY <1>2, <2>1, <3>2 DEF StackOK
      <3> QED BY <3>1, <3>2
    <2>3. ASSUME NEW i \in 1..Len(T), NEW j \in 1..Len(T), T[i].kind = "body", T[j].frame = T[i].frame
          PROVE  i = j
      BY <1>2, <1>4, <2>1, <2>3 DEF StackOK
    <2> QED BY <2>2, <2>3 DEF StackOK
  <1>7. InvBut(e, r, F, T, res, c)
    BY <1>2, <1>5, <1>6, StackKeeps
  <1> QED BY <1>2, <1>3, <1>5, <1>7 DEF T

\* The frame f at the top goes on as g, with the activation a.
LEMMA RunKeeps ==
    ASSUME NEW r, NEW F, NEW S, NEW res, NEW c, InvBut(0, r, F, S, res, c),
           S # <<>>, S[1].kind = "body", NEW f, f = S[1].frame, NEW g, Variant(r, F, f, g),
           NEW a \in ActivationRecord, a.kind = "body", a.frame = f, a.result = S[1].result,
           a.at # "finally" => g.mode = "next", a.at = "finally" => g.kind = "function"
    PROVE  InvBut(0, r, Put(F, f, g), Put(S, 1, a), res, c)
  <1> DEFINE G == Put(F, f, g)
             T == Put(S, 1, a)
  <1>1. /\ f \in 1..Len(F) /\ S[1].result = F[f].result /\ F \in Seq(FrameRecord)
        /\ F[f].result \in Ids /\ Pending(r, F[f].result)
        /\ FrameOK(r, F[f], On(S, f), res) /\ F[f].asked
        /\ \A h \in 1..Len(F) : h # f /\ F[h].asked => F[h].result # F[f].result
    BY RunningVariant DEF Variant
  <1>2. /\ On(S, f) /\ ~Resumed(r, f) /\ BodyOK(r, F, S[1])
        /\ \A i \in 1..Len(S) : S[i].frame = f => i = 1
    BY OneActivation
  <1>3. G[f] = g /\ Len(G) = Len(F)
    BY <1>1 DEF Put
  <1>5. Swappable(r, F, S, f, g, res)
    <2>1. FrameOK(r, g, On(S, f), res)
      BY <1>1, <1>2 DEF FrameOK, Variant
    <2> QED BY <1>1, <2>1 DEF Swappable, Replaceable, Variant
  <1>6. CASE a.at = "finally"
    <2>1. BodyOK(r, F, a)
      BY <1>1, <1>2, <1>6 DEF BodyOK, Variant
    <2>2. /\ InvBut(0, r, F, T, res, c) /\ T[1] = a /\ T # <<>> /\ (On(T, f) <=> On(S, f))
      BY <2>1, TopKeeps
    <2>3. \A i \in 1..Len(T) : T[i].frame = f => i = 1
      BY <2>2, OneActivation, SMTT(30)
    <2>4. BodyOK(r, G, a)
      BY <1>1, <1>2, <1>3, <1>6 DEF BodyOK, Variant
    <2>5. Swappable(r, F, T, f, g, res)
      BY <1>5, <2>2 DEF Swappable, Replaceable, FrameOK
    <2> HIDE DEF T
    <2>6. InvBut(f, r, G, T, res, c)
      BY <1>2, <2>2, <2>3, <2>4, <2>5, ReplaceKeeps
    <2>7. Answerable(r, G[f], f, T)
      BY <1>2, <1>3, <2>2 DEF Answerable, Variant
    <2>8. InvBut(0, r, G, T, res, c)
      BY <2>6, <2>7, NoException, SMTT(30)
    <2> QED BY <2>8 DEF T
  <1>7. CASE a.at # "finally"
    <2>1. BodyOK(r, G, S[1]) /\ BodyOK(r, G, a)
      BY <1>1, <1>2, <1>3, <1>7 DEF BodyOK, Variant
    <2>2. InvBut(f, r, G, S, res, c)
      BY <1>2, <1>5, <2>1, ReplaceKeeps
    <2>3. Answerable(r, G[f], f, S)
      BY <1>2, <1>3 DEF Answerable, Variant
    <2>4. InvBut(0, r, G, S, res, c)
      BY <2>2, <2>3, NoException
    <2> HIDE DEF G
    <2>5. InvBut(0, r, G, T, res, c)
      BY <2>1, <2>4, TopKeeps
    <2> QED BY <2>5 DEF G
  <1> QED BY <1>6, <1>7

\* The frame at the top of the stack is f.
TopIs(F, S, f) == F \in Seq(FrameRecord) /\ f \in 1..Len(F) /\ Head(S).frame = f

\* An operation on the frame f that runs, whose record is g.
LEMMA OnFrame ==
    ASSUME NEW r, NEW F, NEW f, NEW g, NEW S, TopIs(F, S, f)
    PROVE  /\ Running(M(r, Put(F, f, g), S)) = f
           /\ M(r, Put(F, f, g), S).frame[f] = g
           /\ \A x : SetState(M(r, Put(F, f, g), S), x) =
                        M(r, Put(F, f, WithState(g, x)), S)
           /\ \A x : Over(M(r, Put(F, f, g), S), x) =
                        M(r, Put(F, f, WithOver(g, x)), S)
  <1> DEFINE G == Put(F, f, g)
  <1>1. G[f] = g /\ \A h : Put(G, f, h) = Put(F, f, h)
    BY TwiceIs DEF TopIs
  <1> HIDE DEF G
  <1>2. M(r, G, S).frame = G /\ M(r, G, S).stack = S
    BY MParts
  <1>3. Running(M(r, G, S)) = f /\ M(r, G, S).frame[f] = g
    BY <1>1, <1>2 DEF Running, Top, TopIs
  <1>4. ASSUME NEW x
        PROVE  SetState(M(r, G, S), x) = M(r, Put(F, f, WithState(g, x)), S)
    BY <1>1, SetStateIs DEF TopIs
  <1>5. ASSUME NEW x
        PROVE  Over(M(r, G, S), x) = M(r, Put(F, f, WithOver(g, x)), S)
    BY <1>1, OverIs DEF TopIs
  <1> QED BY <1>3, <1>4, <1>5 DEF G

\* The first activation of s is at x, with the exception v.
TopWith(s, x, v) == [s EXCEPT !.stack[1].at = x, !.stack[1].reason = v]

\* The first activation of s is at x, with the exception it has.
TopAt(s, x) == [s EXCEPT !.stack[1].at = x]

\* The activation a at x, with the exception v.
With(a, x, v) == [a EXCEPT !.at = x, !.reason = v]

\* The activation a at x, with the exception it has.
At(a, x) == [a EXCEPT !.at = x]

\* What such activations are.
LEMMA AtParts ==
    ASSUME NEW a \in ActivationRecord, NEW x \in {"run", "finally", "raised"}, NEW v \in Val
    PROVE  /\ With(a, x, v) \in ActivationRecord /\ With(a, x, v).kind = a.kind
           /\ With(a, x, v).frame = a.frame /\ With(a, x, v).result = a.result
           /\ With(a, x, v).at = x
           /\ At(a, x) \in ActivationRecord /\ At(a, x).kind = a.kind
           /\ At(a, x).frame = a.frame /\ At(a, x).result = a.result
           /\ At(a, x).at = x
  BY DEF With, At, ActivationRecord

\* An operation on the first activation.
LEMMA OnTop ==
    ASSUME NEW r, NEW F, NEW S \in Seq(ActivationRecord), S # <<>>, NEW x, NEW v
    PROVE  /\ TopWith(M(r, F, S), x, v) = M(r, F, Put(S, 1, With(S[1], x, v)))
           /\ TopAt(M(r, F, S), x) = M(r, F, Put(S, 1, At(S[1], x)))
  <1> DEFINE a == [S[1] EXCEPT !.at = x]
             T == [S EXCEPT ![1] = a]
             b == [T[1] EXCEPT !.reason = v]
  <1>1. 1 \in 1..Len(S)
    BY TailParts
  <1>2. Put(S, 1, a)[1] = a /\ Put(Put(S, 1, a), 1, b) = Put(S, 1, b)
    BY <1>1, TwiceIs
  <1>3. [M(r, F, S) EXCEPT !.stack[1].at = x] = M(r, F, T)
    <2>1. M(r, F, S).stack = S
      BY MParts
    <2> DEFINE U == [M(r, F, S).stack EXCEPT ![1].at = x]
    <2>2. U = T
      BY <2>1, Zenon
    <2>3. [M(r, F, S) EXCEPT !.stack[1].at = x] = [M(r, F, S) EXCEPT !.stack = U]
      BY Zenon DEF M
    <2> HIDE DEF U, T
    <2>4. [M(r, F, S) EXCEPT !.stack = U] = M(r, F, U)
      BY DEF M
    <2> QED BY <2>2, <2>3, <2>4, Zenon
  <1> DEFINE A == [M(r, F, S) EXCEPT !.stack[1].at = x]
  <1>4. T[1] = a /\ b = [a EXCEPT !.reason = v]
    BY <1>2 DEF Put
  <1>5. [A EXCEPT !.stack[1].reason = v] = M(r, F, [T EXCEPT ![1] = b])
    <2>1. A = M(r, F, T) /\ A.stack = T
      BY <1>3, MParts, SMTT(30)
    <2> DEFINE U == [A.stack EXCEPT ![1].reason = v]
    <2> HIDE DEF A, T
    <2>2. U = [T EXCEPT ![1].reason = v]
      BY <2>1, Zenon
    <2>3. [A EXCEPT !.stack[1].reason = v] = [A EXCEPT !.stack = U]
      BY <2>1, Zenon DEF M
    <2> HIDE DEF U
    <2>4. [M(r, F, T) EXCEPT !.stack = U] = M(r, F, U)
      BY DEF M
    <2> QED BY <2>1, <2>2, <2>3, <2>4, Zenon
  <1>6. [T EXCEPT ![1] = b] = Put(S, 1, b)
    BY <1>2 DEF Put
  <1>7. [M(r, F, S) EXCEPT !.stack[1].at = x, !.stack[1].reason = v] = M(r, F, Put(S, 1, b))
    BY <1>5, <1>6
  <1>8. M(r, F, T) = M(r, F, Put(S, 1, a))
    BY DEF Put
  <1> QED BY <1>3, <1>4, <1>7, <1>8 DEF TopWith, TopAt, With, At

\* A state of the machine in which the frame f runs and has become g.
Runs(r, F, S, f, g, res, c) ==
    /\ InvBut(0, r, F, S, res, c)
    /\ S # <<>> /\ S[1].kind = "body" /\ f = S[1].frame
    /\ Variant(r, F, f, g)

\* What a running frame consists of.
LEMMA RunsParts ==
    ASSUME NEW r, NEW F, NEW S, NEW f, NEW g, NEW res, NEW c, Runs(r, F, S, f, g, res, c)
    PROVE  /\ F \in Seq(FrameRecord) /\ f \in 1..Len(F) /\ Head(S).frame = f /\ Head(S) = S[1]
           /\ S \in Seq(ActivationRecord) /\ S # <<>> /\ S[1] \in ActivationRecord
           /\ S[1].kind = "body" /\ S[1].frame = f
           /\ g \in FrameRecord /\ g.kind = F[f].kind
           /\ r \in Runtime /\ TopIs(F, S, f)
  <1>1. F \in Seq(FrameRecord) /\ f \in 1..Len(F) /\ Head(S) = S[1]
    BY RunningVariant DEF Runs
  <1>2. S \in Seq(ActivationRecord) /\ 1 \in 1..Len(S) /\ r \in Runtime
    BY Typed, TailParts DEF Runs
  <1> QED BY <1>1, <1>2 DEF Runs, Variant, TopIs

\* The result is settled and the activation ends.
LEMMA EndKeeps ==
    ASSUME NEW r, NEW F, NEW S, NEW f, NEW g, NEW res, NEW c, Runs(r, F, S, f, g, res, c),
           NEW h \in FrameRecord, h.kind = g.kind, h.result = g.result, h.asked = g.asked,
           h.got = g.got, h.awaits = g.awaits,
           h.over # "escaped", h.over = "no" => h.mode = "next",
           h.kind = "generator" => h.state.region = "none" /\ h.state.next # "return",
           h.kind = "generator" /\ h.over # "no" => h.state.does = "completed",
           NEW st \in {"fulfilled", "rejected"}, NEW v \in Val
    PROVE  Good(Leave(M(Settle(r, Head(S).result, st, v), Put(F, f, h), S)), res, c)
  <1>1. Delivered(r, h)
    BY DEF Runs, Variant, Delivered, Matches
  <1>2. h.kind = F[f].kind /\ h.result = F[f].result /\ h.asked
    BY DEF Runs, Variant
  <1>3. InvBut(0, Settle(r, S[1].result, st, v), Put(F, f, h), Tail(S), res, c)
    BY <1>1, <1>2, FinishKeeps DEF Runs
  <1>4. Head(S) = S[1]
    BY RunsParts
  <1> QED BY <1>3, <1>4, LeaveIs, MParts

\* An exception that nothing in the body catches rejects the result.
LEMMA RejectTailKeeps ==
    ASSUME NEW r, NEW F, NEW S, NEW f, NEW g, NEW res, NEW c, Runs(r, F, S, f, g, res, c),
           NEW v \in Val
    PROVE  Good(RejectTail(M(r, Put(F, f, g), S), v), res, c)
  <1> DEFINE G == Put(F, f, g)
             s == M(r, G, S)
             q == Settle(r, Head(S).result, "rejected", v)
             g1 == WithOver(g, "threw")
             g2 == WithState(g1, Completed)
             t == Over([s EXCEPT !.rt = Reject(@, Top(s).result, v)], "threw")
  <1>1. g \in FrameRecord /\ TopIs(F, S, f)
    BY RunsParts
  <1>2. t = M(q, Put(F, f, g1), S)
    <2>1. [s EXCEPT !.rt = Reject(@, Top(s).result, v)] = M(q, G, S)
      BY SettleIs
    <2> QED BY <1>1, <2>1, OnFrame
  <1>3. Running(s) = f /\ s.frame[f] = g
    BY <1>1, OnFrame
  <1>4. RejectTail(s, v) = Leave(IF g.kind = "generator" THEN SetState(t, Completed) ELSE t)
    BY <1>3 DEF RejectTail
  <1>5. SetState(t, Completed) = M(q, Put(F, f, g2), S)
    BY <1>1, <1>2, OnFrame
  <1>6. /\ Completed.does = "completed" /\ Completed.region = "none" /\ Completed.next = "bind"
        /\ Completed \in StateRecord
    BY DEF Completed, Code, StateRecord, Regions
  <1>0. /\ g1 \in FrameRecord /\ g1.kind = g.kind /\ g1.result = g.result /\ g1.asked = g.asked
        /\ g1.got = g.got /\ g1.awaits = g.awaits /\ g1.over = "threw"
    BY <1>1, WithParts
  <1> HIDE DEF g1
  <1>7. CASE g.kind = "generator"
    <2>1. /\ g2 \in FrameRecord /\ g2.kind = g.kind /\ g2.result = g.result /\ g2.asked = g.asked
          /\ g2.got = g.got /\ g2.awaits = g.awaits /\ g2.over = "threw" /\ g2.state = Completed
      BY <1>0, <1>6, WithParts
    <2> HIDE DEF g2, q
    <2>2. Good(Leave(M(Settle(r, Head(S).result, "rejected", v), Put(F, f, g2), S)), res, c)
      BY <1>6, <2>1, EndKeeps
    <2> QED BY <1>4, <1>5, <1>7, <2>2 DEF q
  <1>8. CASE g.kind # "generator"
    <2> HIDE DEF q
    <2>2. Good(Leave(M(Settle(r, Head(S).result, "rejected", v), Put(F, f, g1), S)), res, c)
      BY <1>0, <1>8, EndKeeps
    <2> QED BY <1>2, <1>4, <1>8, <2>2 DEF q
  <1> QED BY <1>7, <1>8

\* The result of a function, or of a generator that is completed, is fulfilled.
LEMMA SettleReturnKeeps ==
    ASSUME NEW r, NEW F, NEW S, NEW f, NEW g, NEW res, NEW c, Runs(r, F, S, f, g, res, c),
           NEW v \in Val, g.kind = "generator" => g.state.does = "completed"
    PROVE  Good(SettleReturn(M(r, Put(F, f, g), S), v), res, c)
  <1> DEFINE q == Settle(r, Head(S).result, "fulfilled", v)
             h == WithOver(g, "returned")
  <1>1. g \in FrameRecord /\ TopIs(F, S, f)
    BY RunsParts
  <1>2. SettleReturn(M(r, Put(F, f, g), S), v) = Leave(M(q, Put(F, f, h), S))
    <2>1. FulfillResult(M(r, Put(F, f, g), S), v) = M(q, Put(F, f, g), S)
      BY FulfillIs
    <2>2. Over(M(q, Put(F, f, g), S), "returned") = M(q, Put(F, f, h), S)
      BY <1>1, OnFrame
    <2> QED BY <2>1, <2>2 DEF SettleReturn
  <1>3. /\ h \in FrameRecord /\ h.kind = g.kind /\ h.result = g.result /\ h.asked = g.asked
        /\ h.got = g.got /\ h.awaits = g.awaits /\ h.over = "returned" /\ h.state = g.state
    BY <1>1, WithParts
  <1>4. g.kind = "generator" => g.state.region = "none" /\ g.state.next # "return"
    BY DEF Runs, Variant
  <1> HIDE DEF q, h
  <1>5. Good(Leave(M(Settle(r, Head(S).result, "fulfilled", v), Put(F, f, h), S)), res, c)
    BY <1>3, <1>4, EndKeeps
  <1> QED BY <1>2, <1>5 DEF q

\* The result is fulfilled, and the frame goes on with state x at the next call.
LEMMA SettleAndStay ==
    ASSUME NEW r, NEW F, NEW S, NEW f, NEW g, NEW res, NEW c, Runs(r, F, S, f, g, res, c),
           NEW v \in Val, g.mode = "next", NEW x \in StateRecord, x.region = "none", x.next = "bind"
    PROVE  Good(Leave(SetState(FulfillResult(M(r, Put(F, f, g), S), v), x)), res, c)
  <1> DEFINE q == Settle(r, Head(S).result, "fulfilled", v)
             h == WithState(g, x)
  <1>1. g \in FrameRecord /\ TopIs(F, S, f)
    BY RunsParts
  <1>2. SetState(FulfillResult(M(r, Put(F, f, g), S), v), x) = M(q, Put(F, f, h), S)
    <2>1. FulfillResult(M(r, Put(F, f, g), S), v) = M(q, Put(F, f, g), S)
      BY FulfillIs
    <2> QED BY <1>1, <2>1, OnFrame
  <1>3. /\ h \in FrameRecord /\ h.kind = g.kind /\ h.result = g.result /\ h.asked = g.asked
        /\ h.got = g.got /\ h.awaits = g.awaits /\ h.over = g.over /\ h.state = x /\ h.mode = g.mode
    BY <1>1, WithParts
  <1>4. g.over = "no"
    BY DEF Runs, Variant
  <1> HIDE DEF q, h
  <1>5. Good(Leave(M(Settle(r, Head(S).result, "fulfilled", v), Put(F, f, h), S)), res, c)
    BY <1>3, <1>4, EndKeeps
  <1> QED BY <1>2, <1>5 DEF q

\* The values of STATE are what they should be.
LEMMA StatesTyped ==
    /\ Code \in StateRecord /\ Code.does = "code" /\ Code.region = "none" /\ Code.next = "bind"
    /\ TailCode \in StateRecord /\ TailCode.region = "none" /\ TailCode.next = "bind"
    /\ Completed \in StateRecord /\ Completed.does = "completed"
    /\ Completed.region = "none" /\ Completed.next = "bind"
    /\ \A region \in Regions, next \in {"bind", "return", "yield"} :
          /\ Deliver(region, next) \in StateRecord
          /\ Deliver(region, next).does = "deliver"
          /\ Deliver(region, next).region = region
          /\ Deliver(region, next).next = next
    /\ \A b : IterResult(b) \in Int /\ IterResult(b) \in Val
  BY DEF Code, TailCode, Completed, Deliver, StateRecord, Regions, IterResult, Val

\* A yield answers, and the generator stays where it is.
LEMMA SettleYieldKeeps ==
    ASSUME NEW r, NEW F, NEW S, NEW f, NEW g, NEW res, NEW c, Runs(r, F, S, f, g, res, c),
           g.mode = "next"
    PROVE  Good(SettleYield(M(r, Put(F, f, g), S)), res, c)
  <1>1. IterResult(FALSE) \in Val
    BY StatesTyped
  <1> QED BY <1>1, SettleAndStay, StatesTyped DEF SettleYield

\* The frame goes on as h, with the activation a.
LEMMA GoesOn ==
    ASSUME NEW r, NEW F, NEW S, NEW f, NEW g, NEW res, NEW c, Runs(r, F, S, f, g, res, c),
           NEW a \in ActivationRecord, a.kind = "body", a.frame = f, a.result = S[1].result,
           a.at # "finally" => g.mode = "next", a.at = "finally" => g.kind = "function"
    PROVE  Good(M(r, Put(F, f, g), Put(S, 1, a)), res, c)
  <1>1. InvBut(0, r, Put(F, f, g), Put(S, 1, a), res, c)
    BY RunKeeps DEF Runs
  <1> QED BY <1>1, MParts

\* The record g of a frame after a catch clause has consumed the throw.
Caught(g) == [g EXCEPT !.state = Code, !.mode = "next"]

\* An exception reaches the handler around the machine.
LEMMA AbruptKeeps ==
    ASSUME NEW r, NEW F, NEW S, NEW f, NEW g, NEW res, NEW c, Runs(r, F, S, f, g, res, c),
           NEW region \in Regions, g.kind = "generator" => region = "none", NEW v \in Val
    PROVE  Good(Abrupt(M(r, Put(F, f, g), S), region, v), res, c)
  <1> DEFINE s == M(r, Put(F, f, g), S)
  <1>1. /\ g \in FrameRecord /\ TopIs(F, S, f) /\ S \in Seq(ActivationRecord) /\ S # <<>>
        /\ S[1] \in ActivationRecord /\ S[1].kind = "body" /\ S[1].frame = f
    BY RunsParts
  <1>2. CASE region = "none"
    <2>1. Abrupt(s, region, v) = RejectTail(s, v)
      BY <1>2 DEF Abrupt
    <2> QED BY <2>1, RejectTailKeeps
  <1>3. CASE region = "finally"
    <2> DEFINE a == With(S[1], "finally", v)
    <2>1. Abrupt(s, region, v) = TopWith(s, "finally", v)
      BY <1>3 DEF Abrupt, TopWith
    <2>2. TopWith(s, "finally", v) = M(r, Put(F, f, g), Put(S, 1, a))
      BY <1>1, OnTop
    <2>3. /\ a \in ActivationRecord /\ a.kind = "body" /\ a.frame = f /\ a.result = S[1].result
          /\ a.at = "finally"
      BY <1>1, AtParts, ZenonT(40)
    <2>4. g.kind = "function"
      BY <1>1, <1>3 DEF FrameRecord
    <2> HIDE DEF a
    <2>5. Good(M(r, Put(F, f, g), Put(S, 1, a)), res, c)
      BY <2>3, <2>4, GoesOn
    <2> QED BY <2>1, <2>2, <2>5
  <1>4. CASE region = "catch"
    <2> DEFINE a == At(S[1], "run")
               h == Caught(g)
               G == Put(F, f, WithState(g, Code))
               T == Put(S, 1, a)
    <2>1. Abrupt(s, region, v) = [TopAt(SetState(s, Code), "run") EXCEPT !.frame[Running(s)].mode = "next"]
      BY <1>4 DEF Abrupt, TopAt
    <2>2. SetState(s, Code) = M(r, G, S) /\ Running(s) = f
      BY <1>1, OnFrame
    <2>3. TopAt(M(r, G, S), "run") = M(r, G, T)
      BY <1>1, OnTop
    <2>4. [M(r, G, T) EXCEPT !.frame[f].mode = "next"] = M(r, Put(F, f, h), T)
      <3>1. G[f] = WithState(g, Code) /\ \A k : Put(G, f, k) = Put(F, f, k)
        BY <1>1, TwiceIs DEF TopIs
      <3>2. [WithState(g, Code) EXCEPT !.mode = "next"] = h
        BY DEF WithState, Caught
      <3> HIDE DEF G, T, h, a
      <3>3. [M(r, G, T) EXCEPT !.frame[f].mode = "next"] =
               M(r, Put(G, f, [G[f] EXCEPT !.mode = "next"]), T)
        BY DEF M, Put
      <3> QED BY <3>1, <3>2, <3>3
    <2>5. Abrupt(s, region, v) = M(r, Put(F, f, h), T)
      <3> HIDE DEF G, a, h, s, T
      <3>1. TopAt(SetState(s, Code), "run") = M(r, G, T)
        BY <2>2, <2>3
      <3> QED BY <2>1, <2>2, <2>4, <3>1, Zenon
    <2>6. /\ a \in ActivationRecord /\ a.kind = "body" /\ a.frame = f /\ a.result = S[1].result
          /\ a.at = "run"
      BY <1>1, AtParts
    <2>7. Runs(r, F, S, f, h, res, c) /\ h.mode = "next"
      <3>1. /\ h \in FrameRecord /\ h.kind = g.kind /\ h.result = g.result /\ h.asked = g.asked
            /\ h.got = g.got /\ h.awaits = g.awaits /\ h.over = g.over /\ h.state = Code
            /\ h.mode = "next"
        BY <1>1, StatesTyped DEF Caught, FrameRecord
      <3> HIDE DEF h
      <3> QED BY <3>1, StatesTyped DEF Runs, Variant, Delivered, Matches
    <2> HIDE DEF a, h
    <2>8. Good(M(r, Put(F, f, h), Put(S, 1, a)), res, c)
      BY <2>6, <2>7, GoesOn
    <2> QED BY <2>5, <2>8
  <1> QED BY <1>2, <1>3, <1>4 DEF Regions

\* A delivery: st and v are the outcome of what the frame record g awaits, and
\* are in g.
Delivers(r, g, st, v) ==
    /\ g.state.does = "deliver"
    /\ st \in {"fulfilled", "rejected"} /\ v \in Val
    /\ st = "fulfilled" => g.mode = "next" /\ g.sent = v
    /\ st = "rejected" => g.mode = "throw" /\ g.error = v
    /\ Matches(r, g, st, v)

\* The record g of a frame after the delivery of st and v.
Got(g, st, v) == [g EXCEPT !.got = [state |-> st, value |-> v]]

\* A running frame whose body receives what it awaited still runs.
LEMMA GotRuns ==
    ASSUME NEW r, NEW F, NEW S, NEW f, NEW g, NEW res, NEW c, Runs(r, F, S, f, g, res, c),
           NEW st, NEW v, Delivers(r, g, st, v)
    PROVE  /\ Runs(r, F, S, f, Got(g, st, v), res, c)
           /\ Got(g, st, v).state = g.state /\ Got(g, st, v).mode = g.mode
           /\ Got(g, st, v).kind = g.kind
  <1> DEFINE h == Got(g, st, v)
             out == [state |-> st, value |-> v]
  <1>1. g \in FrameRecord /\ out \in Settlement /\ out.state = st /\ out.value = v
    BY RunsParts DEF Delivers, Settlement
  <1> HIDE DEF out
  <1>2. /\ h \in FrameRecord /\ h.kind = g.kind /\ h.result = g.result /\ h.asked = g.asked
        /\ h.got = out /\ h.awaits = g.awaits /\ h.over = g.over /\ h.state = g.state
        /\ h.mode = g.mode
    BY <1>1 DEF Got, FrameRecord, out
  <1> HIDE DEF h
  <1>3. Delivered(r, h)
    BY <1>1, <1>2 DEF Delivered, Delivers, Matches
  <1>4. Runs(r, F, S, f, h, res, c)
    BY <1>2, <1>3 DEF Runs, Variant
  <1> QED BY <1>2, <1>4 DEF h

\* The prelude of the state after an await.
LEMMA DeliverKeeps ==
    ASSUME NEW r, NEW F, NEW S, NEW f, NEW g, NEW res, NEW c, Runs(r, F, S, f, g, res, c),
           NEW st, NEW v, Delivers(r, g, st, v), S[1].at = "run"
    PROVE  Good(Dispatch(M(r, Put(F, f, g), S)), res, c)
  <1> DEFINE s == M(r, Put(F, f, g), S)
             h == Got(g, st, v)
             t == M(r, Put(F, f, h), S)
  <1>1. /\ g \in FrameRecord /\ TopIs(F, S, f) /\ S \in Seq(ActivationRecord) /\ S # <<>>
        /\ S[1] \in ActivationRecord /\ S[1].kind = "body" /\ S[1].frame = f
    BY RunsParts
  <1>2. Running(s) = f /\ s.frame[f] = g
    BY <1>1, OnFrame
  <1>3. Dispatch(s) = DeliverSent(s)
    BY <1>2 DEF Dispatch, Delivers
  <1>4. /\ Runs(r, F, S, f, h, res, c) /\ h.state = g.state /\ h.mode = g.mode /\ h.kind = g.kind
    BY GotRuns
  <1>5. \A out : [s EXCEPT !.frame[f].got = out] = M(r, Put(F, f, [g EXCEPT !.got = out]), S)
    <2> DEFINE G == Put(F, f, g)
    <2>1. G[f] = g /\ \A k : Put(G, f, k) = Put(F, f, k)
      BY <1>1, TwiceIs DEF TopIs
    <2> HIDE DEF G
    <2>2. ASSUME NEW out
          PROVE  [M(r, G, S) EXCEPT !.frame[f].got = out] = M(r, Put(G, f, [G[f] EXCEPT !.got = out]), S)
      BY DEF M, Put
    <2> QED BY <2>1, <2>2 DEF G
  <1>6. g.state.region \in Regions /\ g.state.next \in {"bind", "return", "yield"} /\ v \in Val
    BY <1>1 DEF FrameRecord, StateRecord, Delivers
  <1>7. g.kind = "generator" => g.state.region = "none" /\ g.state.next # "return"
    BY DEF Runs, Variant
  <1>8. CASE st = "rejected"
    <2>1. g.mode = "throw" /\ g.error = v
      BY <1>8 DEF Delivers
    <2> DEFINE out == [state |-> "rejected", value |-> g.error]
    <2>2. [s EXCEPT !.frame[f].got = out] = t
      BY <1>5, <1>8, <2>1 DEF Got
    <2> HIDE DEF t
    <2>3. DeliverSent(s) = Abrupt(t, g.state.region, v)
      BY <1>2, <2>1, <2>2 DEF DeliverSent
    <2> HIDE DEF h
    <2>4. Good(Abrupt(M(r, Put(F, f, h), S), g.state.region, v), res, c)
      BY <1>4, <1>6, <1>7, AbruptKeeps
    <2> QED BY <1>3, <2>3, <2>4 DEF t
  <1>9. CASE st = "fulfilled"
    <2>1. g.mode = "next" /\ g.sent = v
      BY <1>9 DEF Delivers
    <2> DEFINE out == [state |-> "fulfilled", value |-> g.sent]
    <2>2. [s EXCEPT !.frame[f].got = out] = t
      BY <1>5, <1>9, <2>1 DEF Got
    <2> HIDE DEF t
    <2>3. DeliverSent(s) = CASE g.state.next = "bind"   -> t
                             [] g.state.next = "return" -> SettleReturn(t, v)
                             [] g.state.next = "yield"  -> SettleYield(t)
      BY <1>2, <1>6, <2>1, <2>2 DEF DeliverSent
    <2> HIDE DEF h
    <2>4. CASE g.state.next = "bind"
      <3>1. Good(M(r, Put(F, f, h), Put(S, 1, S[1])), res, c)
        BY <1>1, <1>4, <2>1, GoesOn
      <3>2. Put(S, 1, S[1]) = S
        <4>1. 1 \in 1..Len(S)
          BY <1>1, TailParts
        <4> QED BY <1>1, <4>1, TwiceIs
      <3> QED BY <1>3, <2>3, <2>4, <3>1, <3>2 DEF t
    <2>5. CASE g.state.next = "return"
      <3>1. Good(SettleReturn(M(r, Put(F, f, h), S), v), res, c)
        BY <1>4, <1>6, <1>7, <2>5, SettleReturnKeeps
      <3> QED BY <1>3, <2>3, <2>5, <3>1 DEF t
    <2>6. CASE g.state.next = "yield"
      <3>1. Good(SettleYield(M(r, Put(F, f, h), S)), res, c)
        BY <1>4, <2>1, SettleYieldKeeps
      <3> QED BY <1>3, <2>3, <2>6, <3>1 DEF t
    <2> QED BY <1>6, <2>4, <2>5, <2>6
  <1> QED BY <1>8, <1>9 DEF Delivers

\* The frame that runs may have other operands.
LEMMA SameRuns ==
    ASSUME NEW r, NEW F, NEW S, NEW f, NEW g, NEW res, NEW c, Runs(r, F, S, f, g, res, c),
           NEW h \in FrameRecord, h.kind = g.kind, h.result = g.result, h.asked = g.asked,
           h.over = g.over, h.state = g.state, h.awaits = g.awaits, h.got = g.got
    PROVE  Runs(r, F, S, f, h, res, c)
  BY DEF Runs, Variant, Delivered, Matches

\* The frame f is left as g, and nothing will resume it yet.
LEMMA Pauses ==
    ASSUME NEW r, NEW F, NEW S, NEW f, NEW g, NEW res, NEW c, Runs(r, F, S, f, g, res, c),
           g.mode = "next", g.state.does = "deliver"
    PROVE  /\ InvBut(f, r, Put(F, f, g), Tail(S), res, c)
           /\ f \in 1..Len(Put(F, f, g)) /\ Put(F, f, g)[f] = g /\ f \in Nat
           /\ Waits(r, Put(F, f, g), Tail(S), f) /\ ~Resumed(r, f)
  <1> DEFINE G == Put(F, f, g)
  <1>1. /\ f \in 1..Len(F) /\ F[f].asked /\ FrameOK(r, F[f], On(S, f), res)
        /\ \A h \in 1..Len(F) : h # f /\ F[h].asked => F[h].result # F[f].result
    BY RunningVariant DEF Runs, Variant
  <1>2. FrameOK(r, g, FALSE, res)
    BY <1>1 DEF FrameOK, Runs, Variant
  <1>3. Leavable(r, F, f, g, res) /\ g.result = F[f].result
    BY <1>1, <1>2 DEF Leavable, Replaceable, Runs, Variant
  <1>4. /\ InvBut(f, r, G, Tail(S), res, c)
        /\ Len(G) = Len(F) /\ G[f] = g
        /\ ~Resumed(r, f) /\ ~On(Tail(S), f) /\ Pending(r, g.result)
    BY <1>3, LeaveKeeps DEF Runs
  <1> HIDE DEF G
  <1>5. Waits(r, G, Tail(S), f)
    BY <1>1, <1>4 DEF Waits, Runs, Variant
  <1>6. f \in Nat
    BY <1>1, Typed DEF Runs
  <1> QED BY <1>1, <1>4, <1>5, <1>6 DEF G

\* The record g with the outcome in it.
Sent(g, st, v) ==
    IF st = "fulfilled" THEN [g EXCEPT !.sent = v] ELSE [g EXCEPT !.error = v, !.mode = "throw"]

\* The outcome in a frame is what will be delivered.
LEMMA SentDelivers ==
    ASSUME NEW r, NEW g \in FrameRecord, g.state.does = "deliver", g.mode = "next",
           NEW st \in {"fulfilled", "rejected"}, NEW v \in Val, Matches(r, g, st, v)
    PROVE  /\ Sent(g, st, v) \in FrameRecord
           /\ Sent(g, st, v).kind = g.kind /\ Sent(g, st, v).result = g.result
           /\ Sent(g, st, v).asked = g.asked /\ Sent(g, st, v).over = g.over
           /\ Sent(g, st, v).state = g.state /\ Sent(g, st, v).awaits = g.awaits
           /\ Sent(g, st, v).got = g.got
           /\ Delivers(r, Sent(g, st, v), st, v)
  <1> DEFINE h == Sent(g, st, v)
  <1>1. /\ h \in FrameRecord /\ h.kind = g.kind /\ h.result = g.result
        /\ h.asked = g.asked /\ h.over = g.over
        /\ h.state = g.state /\ h.awaits = g.awaits /\ h.got = g.got
    BY DEF Sent, FrameRecord
  <1>2. /\ st = "fulfilled" => h.mode = "next" /\ h.sent = v
        /\ st = "rejected" => h.mode = "throw" /\ h.error = v
    BY DEF Sent, FrameRecord
  <1> HIDE DEF h
  <1>3. Delivers(r, h, st, v)
    BY <1>1, <1>2 DEF Delivers, Matches
  <1> QED BY <1>1, <1>3 DEF h

\* The outcome of the await is there.
LEMMA AdvanceKeeps ==
    ASSUME NEW r, NEW F, NEW S, NEW f, NEW g, NEW res, NEW c, Runs(r, F, S, f, g, res, c),
           g.mode = "next", g.state.does = "deliver", S[1].at = "run",
           NEW st \in {"fulfilled", "rejected"}, NEW v \in Val, Matches(r, g, st, v)
    PROVE  Good(Advance(M(r, Put(F, f, g), S), st, v), res, c)
  <1> DEFINE G == Put(F, f, g)
             s == M(r, G, S)
  <1>1. /\ g \in FrameRecord /\ TopIs(F, S, f) /\ r \in Runtime
    BY RunsParts
  <1>2. Running(s) = f /\ s.frame[f] = g
    BY <1>1, OnFrame
  <1>3. CASE g.always
    <2> DEFINE fn == IF st = "fulfilled" THEN "step_fulfill" ELSE "step_reject"
               q == Enqueue(r, fn, Step(f), v)
    <2>1. Advance(s, st, v) = Leave([s EXCEPT !.rt = Enqueue(@, fn, Step(f), v)])
      BY <1>2, <1>3 DEF Advance
    <2>2. [s EXCEPT !.rt = Enqueue(@, fn, Step(f), v)] = M(q, G, S)
      <3>1. s.rt = r
        BY MParts
      <3>2. [s EXCEPT !.rt = Enqueue(@, fn, Step(f), v)] = [s EXCEPT !.rt = q]
        BY <3>1, Zenon
      <3> HIDE DEF q, G
      <3>3. [s EXCEPT !.rt = q] = M(q, G, S)
        BY DEF M
      <3> QED BY <3>2, <3>3
    <2>3. /\ InvBut(f, r, G, Tail(S), res, c)
          /\ f \in 1..Len(G) /\ G[f] = g /\ f \in Nat
          /\ Waits(r, G, Tail(S), f) /\ ~Resumed(r, f)
      BY Pauses
    <2>4. Queues(r, q, f, st, v)
      <3>1. fn \in {"step_fulfill", "step_reject"}
        OBVIOUS
      <3>2. st = IF fn = "step_fulfill" THEN "fulfilled" ELSE "rejected"
        OBVIOUS
      <3> HIDE DEF fn
      <3> QED BY <1>1, <2>3, <3>1, <3>2, Queueing
    <2> HIDE DEF q, G, s
    <2>5. InvBut(0, q, G, Tail(S), res, c)
      BY <2>3, <2>4, QueueKeeps
    <2>6. Leave(M(q, G, S)) = M(q, G, Tail(S))
      BY LeaveIs
    <2>7. Good(M(q, G, Tail(S)), res, c)
      BY <2>5, MParts
    <2>8. Good(Advance(s, st, v), res, c)
      BY <2>1, <2>2, <2>6, <2>7
    <2> QED BY <2>8 DEF s, G
  <1>4. CASE ~g.always
    <2> DEFINE h == Sent(g, st, v)
    <2>1. Advance(s, st, v) = Dispatch(IF st = "fulfilled" THEN [s EXCEPT !.frame[f].sent = v]
                                       ELSE [s EXCEPT !.frame[f].error = v, !.frame[f].mode = "throw"])
      BY <1>2, <1>4 DEF Advance
    <2>2. G[f] = g /\ \A k : Put(G, f, k) = Put(F, f, k)
      BY <1>1, TwiceIs DEF TopIs
    <2>3. (IF st = "fulfilled" THEN [s EXCEPT !.frame[f].sent = v]
           ELSE [s EXCEPT !.frame[f].error = v, !.frame[f].mode = "throw"]) = M(r, Put(F, f, h), S)
      <3>1. CASE st = "fulfilled"
        <4> HIDE DEF G
        <4>1. [s EXCEPT !.frame[f].sent = v] = M(r, Put(G, f, [G[f] EXCEPT !.sent = v]), S)
          BY DEF M, Put
        <4> QED BY <2>2, <3>1, <4>1 DEF Sent
      <3>2. CASE st = "rejected"
        <4> DEFINE g1 == [g EXCEPT !.error = v]
                   G1 == Put(F, f, g1)
        <4>1. [s EXCEPT !.frame[f].error = v] = M(r, G1, S)
          <5> HIDE DEF G
          <5>1. [s EXCEPT !.frame[f].error = v] = M(r, Put(G, f, [G[f] EXCEPT !.error = v]), S)
            BY DEF M, Put
          <5> QED BY <2>2, <5>1
        <4>2. G1[f] = g1 /\ \A k : Put(G1, f, k) = Put(F, f, k)
          BY <1>1, TwiceIs DEF TopIs
        <4>3. [M(r, G1, S) EXCEPT !.frame[f].mode = "throw"] = M(r, Put(F, f, [g1 EXCEPT !.mode = "throw"]), S)
          <5> HIDE DEF G1, g1
          <5>1. [M(r, G1, S) EXCEPT !.frame[f].mode = "throw"] =
                   M(r, Put(G1, f, [G1[f] EXCEPT !.mode = "throw"]), S)
            BY DEF M, Put
          <5> QED BY <4>2, <5>1
        <4>4. [g1 EXCEPT !.mode = "throw"] = h
          BY <3>2 DEF Sent
        <4> HIDE DEF G1, h, g1
        <4>5. [s EXCEPT !.frame[f].error = v, !.frame[f].mode = "throw"] = M(r, Put(F, f, h), S)
          <5> HIDE DEF s
          <5> QED BY <4>1, <4>3, <4>4, Zenon
        <4> QED BY <3>2, <4>5
      <3> QED BY <3>1, <3>2
    <2>4. Runs(r, F, S, f, h, res, c) /\ Delivers(r, h, st, v)
      <3>1. /\ h \in FrameRecord /\ h.kind = g.kind /\ h.result = g.result
            /\ h.asked = g.asked /\ h.over = g.over
            /\ h.state = g.state /\ h.awaits = g.awaits /\ h.got = g.got
            /\ Delivers(r, h, st, v)
        BY <1>1, SentDelivers
      <3> HIDE DEF h
      <3> QED BY <3>1, SameRuns
    <2> HIDE DEF h
    <2>5. Good(Dispatch(M(r, Put(F, f, h), S)), res, c)
      BY <2>4, DeliverKeeps
    <2> QED BY <2>1, <2>3, <2>5
  <1> QED BY <1>3, <1>4

\* An await: the frame becomes a reaction or a job, or goes on.
LEMMA AwaitKeeps ==
    ASSUME NEW r, NEW F, NEW S, NEW f, NEW g, NEW res, NEW c, Runs(r, F, S, f, g, res, c),
           g.mode = "next", g.state.does = "deliver", S[1].at = "run",
           NEW x \in Val, g.awaits = x, x \in Ids => x <= r.minted,
           \A p \in Ids : Len(Callbacks(r, p)) < c
    PROVE  Good(AwaitValue(M(r, Put(F, f, g), S), x), res, c)
  <1> DEFINE G == Put(F, f, g)
             s == M(r, G, S)
  <1>1. /\ g \in FrameRecord /\ TopIs(F, S, f) /\ r \in Runtime
    BY RunsParts
  <1>2. Running(s) = f /\ s.rt = r
    BY <1>1, OnFrame, MParts
  <1>3. CASE x \notin Ids
    <2>1. AwaitValue(s, x) = Advance(s, "fulfilled", x)
      BY <1>3 DEF AwaitValue
    <2>2. Matches(r, g, "fulfilled", x)
      BY <1>3 DEF Matches
    <2> QED BY <2>1, <2>2, AdvanceKeeps
  <1>4. CASE x \in Ids /\ r.promise[x].state = "pending"
    <2> DEFINE node == [onFulfilled |-> "step_fulfill", onRejected |-> "step_reject", caps |-> Step(f)]
               q == [r EXCEPT !.promise[x].callbacks = <<node>> \o @]
    <2>1. AwaitValue(s, x) = Suspend(s, x)
      BY <1>2, <1>4, SMTT(30) DEF AwaitValue
    <2>2. [s EXCEPT !.rt.promise[x].callbacks = <<node>> \o @] = M(q, G, S)
      <3> DEFINE old == r.promise[x].callbacks
                 new == <<node>> \o old
                 k == [r EXCEPT !.promise[x].callbacks = new]
      <3>1. [s EXCEPT !.rt.promise[x].callbacks = <<node>> \o @] = [s EXCEPT !.rt.promise[x].callbacks = new]
        BY <1>2, Zenon
      <3>2. q = k
        BY Zenon
      <3> HIDE DEF G, new, q
      <3>3. [s EXCEPT !.rt.promise[x].callbacks = new] = [s EXCEPT !.rt = k]
        BY <1>2, Zenon
      <3> HIDE DEF k
      <3>4. [s EXCEPT !.rt = k] = M(k, G, S)
        BY DEF M
      <3> QED BY <3>1, <3>2, <3>3, <3>4
    <2>3. Suspend(s, x) = Leave(M(q, G, S))
      <3> HIDE DEF q, s, G
      <3> QED BY <1>2, <2>2 DEF Suspend
    <2>4. /\ InvBut(f, r, G, Tail(S), res, c)
          /\ f \in 1..Len(G) /\ G[f] = g /\ f \in Nat
          /\ Waits(r, G, Tail(S), f) /\ ~Resumed(r, f)
      BY Pauses
    <2>5. Lists(r, q, x, f)
      BY <1>1, <1>4, <2>4, Listing
    <2>6. Pending(r, x)
      BY <1>4 DEF Pending
    <2> HIDE DEF q, G, s
    <2>7. InvBut(0, q, G, Tail(S), res, c)
      BY <1>4, <2>4, <2>5, <2>6, SuspendKeeps
    <2>8. Leave(M(q, G, S)) = M(q, G, Tail(S))
      BY LeaveIs
    <2>9. Good(M(q, G, Tail(S)), res, c)
      BY <2>7, MParts
    <2>10. Good(AwaitValue(s, x), res, c)
      BY <2>1, <2>3, <2>8, <2>9
    <2> QED BY <2>10 DEF s, G
  <1>5. CASE x \in Ids /\ r.promise[x].state # "pending"
    <2> DEFINE q == IF r.promise[x].state = "rejected" THEN MarkHandled(r, x) ELSE r
               st == r.promise[x].state
               v == r.promise[x].value
    <2>1. AwaitValue(s, x) =
             Advance([s EXCEPT !.rt = IF @.promise[x].state = "rejected" THEN MarkHandled(@, x) ELSE @], st, v)
      BY <1>2, <1>5 DEF AwaitValue
    <2>2. [s EXCEPT !.rt = IF @.promise[x].state = "rejected" THEN MarkHandled(@, x) ELSE @] = M(q, G, S)
      <3>1. [s EXCEPT !.rt = IF @.promise[x].state = "rejected" THEN MarkHandled(@, x) ELSE @]
              = [s EXCEPT !.rt = q]
        BY <1>2, Zenon
      <3> HIDE DEF q, G
      <3>2. [s EXCEPT !.rt = q] = M(q, G, S)
        BY DEF M
      <3> QED BY <3>1, <3>2
    <2>3. q \in Runtime /\ q.minted = r.minted /\ q.promise = r.promise /\ q.queue = r.queue
      BY <1>1, Marking
    <2>4. st \in {"fulfilled", "rejected"} /\ v \in Val
      <3>1. r.promise[x] \in PromiseRecord
        BY <1>1, <1>5, ListTyped
      <3> QED BY <1>5, <3>1 DEF PromiseRecord
    <2>5. Matches(q, g, st, v)
      BY <1>5, <2>3 DEF Matches, Pending
    <2> HIDE DEF q, st, v
    <2>6. InvBut(0, q, F, S, res, c)
      <3>1. InvBut(0, r, F, S, res, c) /\ r.minted \in Nat
        BY <1>1 DEF Runs, Runtime
      <3>2. Counted(q, res, c)
        BY <2>3, <3>1 DEF InvBut, Counted, Callbacks
      <3>3. r.minted <= q.minted
        BY <2>3, <3>1
      <3> QED BY <2>3, <3>1, <3>2, <3>3, SameKeeps
    <2>7. Runs(q, F, S, f, g, res, c)
      <3>1. Delivered(q, g)
        BY <2>3 DEF Runs, Variant, Delivered, Matches, Pending
      <3> QED BY <2>6, <3>1 DEF Runs, Variant
    <2>8. Good(Advance(M(q, Put(F, f, g), S), st, v), res, c)
      BY <2>4, <2>5, <2>7, AdvanceKeeps
    <2>9. AwaitValue(s, x) = Advance(M(q, G, S), st, v)
      BY <2>1, <2>2
    <2> QED BY <2>8, <2>9
  <1> QED BY <1>3, <1>4, <1>5
-----------------------------------------------------------------------------
(***************************************************************************)
(* Every action keeps the invariant.                                       *)
(***************************************************************************)

\* What the frame at the top is.
LEMMA BodyNow ==
    ASSUME NEW r, NEW F, NEW S, NEW res, NEW c, InvBut(0, r, F, S, res, c),
           S # <<>>, Head(S).kind = "body", NEW f, f = Head(S).frame
    PROVE  /\ Runs(r, F, S, f, F[f], res, c)
           /\ M(r, F, S) = M(r, Put(F, f, F[f]), S)
           /\ Head(S) = S[1] /\ F[f] \in FrameRecord /\ S[1].reason \in Val
           /\ Head(S).at # "finally" => F[f].mode = "next"
           /\ Head(S).at = "finally" => F[f].kind = "function"
  <1>1. S \in Seq(ActivationRecord) /\ 1 \in 1..Len(S) /\ Head(S) = S[1] /\ S[1] \in ActivationRecord
    BY Typed, TailParts
  <1>2. /\ f \in 1..Len(F) /\ F \in Seq(FrameRecord) /\ Variant(r, F, f, F[f])
    BY <1>1, RunningVariant
  <1>3. Put(F, f, F[f]) = F
    BY <1>2, TwiceIs
  <1>4. BodyOK(r, F, S[1])
    BY <1>1, OneActivation
  <1> QED BY <1>1, <1>2, <1>3, <1>4 DEF Runs, Variant, BodyOK, ActivationRecord

\* The machine is a state of the machine, and Good of the next one is the
\* invariant of the next state.
LEMMA MachineIs == Machine = M(rt, frame, stack)
  BY DEF Machine, M

\* A step to a good state of the machine keeps the invariant.
LEMMA BecomesInv ==
    ASSUME NEW s, Becomes(s), Good(s, resolvable, calls), UNCHANGED resolvable,
           UNCHANGED calls \/ (calls < MaxCalls /\ calls' = calls + 1)
    PROVE  Inv'
  <1>1. InvBut(0, rt', frame', stack', resolvable', calls)
    BY DEF Becomes, Good
  <1>2. CASE UNCHANGED calls
    BY <1>1, <1>2 DEF Inv
  <1>3. CASE calls < MaxCalls /\ calls' = calls + 1
    BY <1>1, <1>3, CallKeeps DEF Inv
  <1> QED BY <1>2, <1>3

\* The same when only the stack changes.
LEMMA StackInv ==
    ASSUME InvBut(0, rt, frame, stack', resolvable, calls), UNCHANGED <<rt, resolvable, calls, frame>>
    PROVE  Inv'
  BY DEF Inv

\* The values of operands.
LEMMA OperandTyped ==
    ASSUME Inv, NEW x \in Operand
    PROVE  x \in Val /\ (x \in Ids => x <= rt.minted)
  <1>1. rt.minted \in Nat
    BY Typed DEF Inv
  <1>2. x \in Val
    BY <1>1, ExoticAssumption DEF Operand, Val
  <1>3. x \in Ids => x \in 1..rt.minted
    BY KindsAssumption, ExoticAssumption DEF Operand
  <1> QED BY <1>1, <1>2, <1>3

\* return of an async function keeps the invariant.
LEMMA ReturnKeeps ==
    ASSUME Inv, NEW x \in Operand, Return(x)
    PROVE  Inv'
  <1> DEFINE f == Head(stack).frame
             g == frame[f]
  <1>1. stack # <<>> /\ Head(stack).kind = "body" /\ g.kind = "function"
    BY DEF Return, InBody, Alive
  <1>2. Runs(rt, frame, stack, f, g, resolvable, calls) /\ Machine = M(rt, Put(frame, f, g), stack)
    BY <1>1, BodyNow, MachineIs DEF Inv
  <1>3. x \in Val
    BY OperandTyped
  <1> HIDE DEF f, g
  <1>4. Good(SettleReturn(M(rt, Put(frame, f, g), stack), x), resolvable, calls)
    BY <1>1, <1>2, <1>3, SettleReturnKeeps
  <1> QED BY <1>2, <1>4, BecomesInv DEF Return

\* return of a generator keeps the invariant.
LEMMA GenReturnKeeps ==
    ASSUME Inv, GenReturn
    PROVE  Inv'
  <1> DEFINE f == Head(stack).frame
             g == frame[f]
             h == WithState(g, Completed)
  <1>1. stack # <<>> /\ Head(stack).kind = "body"
    BY DEF GenReturn, InBody, Alive
  <1>2. Runs(rt, frame, stack, f, g, resolvable, calls) /\ Machine = M(rt, Put(frame, f, g), stack)
    BY <1>1, BodyNow, MachineIs DEF Inv
  <1>3. g \in FrameRecord /\ TopIs(frame, stack, f)
    BY <1>2, RunsParts
  <1>4. SetState(Machine, Completed) = M(rt, Put(frame, f, h), stack)
    <2> HIDE DEF f, g
    <2> QED BY <1>2, <1>3, OnFrame
  <1>5. /\ h \in FrameRecord /\ h.kind = g.kind /\ h.result = g.result /\ h.asked = g.asked
        /\ h.got = g.got /\ h.awaits = g.awaits /\ h.over = g.over /\ h.state = Completed
    BY <1>3, WithParts, StatesTyped, ZenonT(40)
  <1> HIDE DEF f, g, h
  <1>6. Runs(rt, frame, stack, f, h, resolvable, calls)
    BY <1>2, <1>5, StatesTyped DEF Runs, Variant, Delivered, Matches
  <1>7. h.state.does = "completed" /\ IterResult(TRUE) \in Val
    BY <1>5, StatesTyped
  <1>8. Good(SettleReturn(M(rt, Put(frame, f, h), stack), IterResult(TRUE)), resolvable, calls)
    BY <1>6, <1>7, SettleReturnKeeps
  <1> QED BY <1>4, <1>8, BecomesInv DEF GenReturn

\* A yield keeps the invariant.
LEMMA YieldKeeps ==
    ASSUME Inv, Yield
    PROVE  Inv'
  <1> DEFINE f == Head(stack).frame
             g == frame[f]
  <1>1. stack # <<>> /\ Head(stack).kind = "body" /\ Head(stack).at = "run"
    BY DEF Yield, InBody, Alive
  <1>2. /\ Runs(rt, frame, stack, f, g, resolvable, calls) /\ Machine = M(rt, Put(frame, f, g), stack)
        /\ g.mode = "next"
    BY <1>1, BodyNow, MachineIs DEF Inv
  <1> HIDE DEF f, g
  <1>3. Good(SettleYield(M(rt, Put(frame, f, g), stack)), resolvable, calls)
    BY <1>2, SettleYieldKeeps
  <1> QED BY <1>2, <1>3, BecomesInv DEF Yield

\* The end of a generator keeps the invariant.
LEMMA GenEndKeeps ==
    ASSUME Inv, GenEnd
    PROVE  Inv'
  <1> DEFINE f == Head(stack).frame
             g == frame[f]
  <1>1. stack # <<>> /\ Head(stack).kind = "body" /\ Head(stack).at = "run"
    BY DEF GenEnd, InBody, Alive
  <1>2. /\ Runs(rt, frame, stack, f, g, resolvable, calls) /\ Machine = M(rt, Put(frame, f, g), stack)
        /\ g.mode = "next"
    BY <1>1, BodyNow, MachineIs DEF Inv
  <1>3. IterResult(TRUE) \in Val
    BY StatesTyped
  <1> HIDE DEF f, g
  <1>4. Good(Leave(SetState(FulfillResult(M(rt, Put(frame, f, g), stack), IterResult(TRUE)), TailCode)),
             resolvable, calls)
    BY <1>2, <1>3, SettleAndStay, StatesTyped
  <1> QED BY <1>2, <1>4, BecomesInv DEF GenEnd

\* An exception in a body keeps the invariant.
LEMMA ThrowKeeps ==
    ASSUME Inv, NEW v \in Value, NEW region \in Regions, Throw(v, region)
    PROVE  Inv'
  <1> DEFINE f == Head(stack).frame
             g == frame[f]
  <1>1. stack # <<>> /\ Head(stack).kind = "body" /\ (g.kind = "generator" => region = "none")
    BY DEF Throw, Alive
  <1>2. Runs(rt, frame, stack, f, g, resolvable, calls) /\ Machine = M(rt, Put(frame, f, g), stack)
    BY <1>1, BodyNow, MachineIs DEF Inv
  <1>3. v \in Val
    BY DEF Val
  <1> HIDE DEF f, g
  <1>4. Good(Abrupt(M(rt, Put(frame, f, g), stack), region, v), resolvable, calls)
    BY <1>1, <1>2, <1>3, AbruptKeeps
  <1> QED BY <1>2, <1>4, BecomesInv DEF Throw, Count

\* The end of a finally clause keeps the invariant.
LEMMA FinallyEndsKeeps ==
    ASSUME Inv, FinallyEnds
    PROVE  Inv'
  <1> DEFINE f == Head(stack).frame
             g == frame[f]
             v == Head(stack).reason
  <1>1. stack # <<>> /\ Head(stack).at = "finally"
    BY DEF FinallyEnds, Alive
  <1>2. Head(stack).kind = "body"
    <2>1. StackOK(rt, frame, stack) /\ 1 \in 1..Len(stack) /\ Head(stack) = stack[1]
      BY <1>1, Typed, TailParts DEF Inv, InvBut
    <2> QED BY <1>1, <2>1 DEF StackOK
  <1>3. /\ Runs(rt, frame, stack, f, g, resolvable, calls) /\ Machine = M(rt, Put(frame, f, g), stack)
        /\ v \in Val
    BY <1>1, <1>2, BodyNow, MachineIs DEF Inv
  <1> HIDE DEF f, g, v
  <1>4. Good(RejectTail(M(rt, Put(frame, f, g), stack), v), resolvable, calls)
    BY <1>3, RejectTailKeeps
  <1> QED BY <1>3, <1>4, BecomesInv DEF FinallyEnds, v

\* return in a finally clause keeps the invariant.
LEMMA FinallyReturnsKeeps ==
    ASSUME Inv, NEW x \in Operand, FinallyReturns(x)
    PROVE  Inv'
  <1> DEFINE f == Head(stack).frame
             g == frame[f]
  <1>1. stack # <<>> /\ Head(stack).at = "finally"
    BY DEF FinallyReturns, Alive
  <1>2. Head(stack).kind = "body"
    <2>1. StackOK(rt, frame, stack) /\ 1 \in 1..Len(stack) /\ Head(stack) = stack[1]
      BY <1>1, Typed, TailParts DEF Inv, InvBut
    <2> QED BY <1>1, <2>1 DEF StackOK
  <1>3. /\ Runs(rt, frame, stack, f, g, resolvable, calls) /\ Machine = M(rt, Put(frame, f, g), stack)
        /\ g.kind = "function"
    BY <1>1, <1>2, BodyNow, MachineIs DEF Inv
  <1>4. x \in Val
    BY OperandTyped
  <1> HIDE DEF f, g
  <1>5. Good(SettleReturn(M(rt, Put(frame, f, g), stack), x), resolvable, calls)
    BY <1>3, <1>4, SettleReturnKeeps
  <1> QED BY <1>3, <1>5, BecomesInv DEF FinallyReturns

\* An exception comes out of a call.
LEMMA RaisedKeeps ==
    ASSUME NEW r, NEW F, NEW S, NEW res, NEW c, InvBut(0, r, F, S, res, c), S # <<>>, NEW v \in Val
    PROVE  Good(Raised(M(r, F, S), v), res, c)
  <1> DEFINE a == With(S[1], "raised", v)
  <1>1. /\ S \in Seq(ActivationRecord) /\ 1 \in 1..Len(S) /\ Head(S) = S[1] /\ S[1] \in ActivationRecord
        /\ StackOK(r, F, S)
    BY Typed, TailParts DEF InvBut
  <1>2. Top(M(r, F, S)) = S[1]
    BY <1>1, MParts DEF Top
  <1>3. CASE S[1].at = "finally"
    <2>1. Raised(M(r, F, S), v) = M(r, F, S)
      BY <1>2, <1>3 DEF Raised
    <2> QED BY <2>1, MParts
  <1>4. CASE S[1].at # "finally"
    <2>1. Raised(M(r, F, S), v) = TopWith(M(r, F, S), "raised", v)
      BY <1>2, <1>4 DEF Raised, TopWith
    <2>2. TopWith(M(r, F, S), "raised", v) = M(r, F, Put(S, 1, a))
      BY <1>1, OnTop
    <2>3. /\ a \in ActivationRecord /\ a.kind = S[1].kind /\ a.frame = S[1].frame
          /\ a.result = S[1].result /\ a.at = "raised"
      BY <1>1, AtParts
    <2> HIDE DEF a
    <2>4. a.kind = "body" => BodyOK(r, F, a)
      BY <1>1, <1>4, <2>3, ZenonT(40) DEF StackOK, BodyOK
    <2>5. InvBut(0, r, F, Put(S, 1, a), res, c)
      BY <2>3, <2>4, TopKeeps
    <2> QED BY <2>1, <2>2, <2>5, MParts
  <1> QED BY <1>3, <1>4

\* A finally clause that throws keeps the invariant.
LEMMA FinallyThrowsKeeps ==
    ASSUME Inv, NEW v \in Value, FinallyThrows(v)
    PROVE  Inv'
  <1> DEFINE f == Head(stack).frame
             g == frame[f]
             h == WithOver(g, "escaped")
             G == Put(frame, f, h)
             T == Tail(stack)
  <1>1. stack # <<>> /\ Head(stack).at = "finally"
    BY DEF FinallyThrows, Alive
  <1>2. Head(stack).kind = "body"
    <2>1. StackOK(rt, frame, stack) /\ 1 \in 1..Len(stack) /\ Head(stack) = stack[1]
      BY <1>1, Typed, TailParts DEF Inv, InvBut
    <2> QED BY <1>1, <2>1 DEF StackOK
  <1>3. /\ Runs(rt, frame, stack, f, g, resolvable, calls) /\ Machine = M(rt, Put(frame, f, g), stack)
        /\ g.kind = "function" /\ Head(stack) = stack[1]
    BY <1>1, <1>2, BodyNow, MachineIs DEF Inv
  <1>4. g \in FrameRecord /\ TopIs(frame, stack, f)
    BY <1>3, RunsParts
  <1>5. Leave(Over(Machine, "escaped")) = M(rt, G, T)
    <2> HIDE DEF f, g
    <2>1. Over(Machine, "escaped") = M(rt, G, stack)
      BY <1>3, <1>4, OnFrame
    <2> QED BY <2>1, LeaveIs
  <1>6. /\ h \in FrameRecord /\ h.kind = g.kind /\ h.result = g.result /\ h.asked = g.asked
        /\ h.got = g.got /\ h.awaits = g.awaits /\ h.over = "escaped" /\ h.state = g.state
    BY <1>4, WithParts
  <1>7. /\ f \in 1..Len(frame) /\ FrameOK(rt, g, On(stack, f), resolvable) /\ g.asked
        /\ \A k \in 1..Len(frame) : k # f /\ frame[k].asked => frame[k].result # g.result
    BY <1>2, <1>3, RunningVariant DEF Runs, Variant
  <1>8. f = stack[1].frame /\ stack[1].kind = "body" /\ h.result = frame[f].result
    BY <1>2, <1>3, <1>6, SMTT(30)
  <1> HIDE DEF h
  <1>9. FrameOK(rt, h, FALSE, resolvable)
    BY <1>3, <1>6, <1>7 DEF FrameOK, Delivered, Matches
  <1>10. Leavable(rt, frame, f, h, resolvable)
    BY <1>6, <1>7, <1>9 DEF Leavable, Replaceable
  <1> HIDE DEF f
  <1>11. /\ InvBut(f, rt, G, T, resolvable, calls) /\ G[f] = h /\ T # <<>>
    BY <1>1, <1>8, <1>10, LeaveKeeps DEF Inv
  <1>12. InvBut(0, rt, G, T, resolvable, calls)
    <2>1. Answerable(rt, G[f], f, T)
      BY <1>6, <1>11 DEF Answerable
    <2> HIDE DEF G, T
    <2> QED BY <1>11, <2>1, NoException
  <1>13. v \in Val
    BY DEF Val
  <1> HIDE DEF G, T
  <1>14. Good(Raised(M(rt, G, T), v), resolvable, calls)
    BY <1>11, <1>12, <1>13, RaisedKeeps
  <1> QED BY <1>5, <1>14, BecomesInv DEF FinallyThrows

\* The drain loop starts.
LEMMA LetDrainKeeps ==
    ASSUME Inv, LetDrain
    PROVE  Inv'
  <1> DEFINE T == <<Drain>> \o stack
  <1>1. /\ Drain \in ActivationRecord /\ Drain.kind = "drain" /\ Drain.frame = 0 /\ Drain.at = "run"
    BY DEF Drain, Activation, NoFrame, ActivationRecord, Val
  <1>2. /\ stack \in Seq(ActivationRecord) /\ Len(stack) \in Nat /\ StackOK(rt, frame, stack)
        /\ 1 \in 1..Len(stack)
    BY Typed, TailParts DEF Inv, InvBut, LetDrain, Alive
  <1> HIDE DEF Drain
  <1>3. /\ T \in Seq(ActivationRecord) /\ Len(T) = Len(stack) + 1 /\ T[1] = Drain
        /\ \A i \in 1..Len(T) : i # 1 => i - 1 \in 1..Len(stack) /\ T[i] = stack[i - 1]
    BY <1>1, <1>2, ConsParts
  <1>4. \A f \in 1..Len(frame) : On(T, f) <=> On(stack, f)
    <2> SUFFICES ASSUME NEW f \in 1..Len(frame) PROVE On(T, f) <=> On(stack, f)
      OBVIOUS
    <2>1. f # 0
      BY Typed DEF Inv
    <2>2. On(T, f) <=> Drain.frame = f \/ On(stack, f)
      BY <1>1, <1>2, ConsOn
    <2> QED BY <1>1, <2>1, <2>2
  <1> HIDE DEF T
  <1>5. StackOK(rt, frame, T)
    <2>1. ASSUME NEW i \in 1..Len(T)
          PROVE  /\ T[i].kind = "main" <=> i = Len(T)
                 /\ T[i].kind # "body" => T[i].frame = 0 /\ T[i].at # "finally"
                 /\ T[i].kind = "body" => BodyOK(rt, frame, T[i])
      <3>1. CASE i = 1
        BY <1>1, <1>2, <1>3, <3>1
      <3>2. CASE i # 1
        <4>1. i - 1 \in 1..Len(stack) /\ T[i] = stack[i - 1] /\ (i = Len(T) <=> i - 1 = Len(stack))
          BY <1>2, <1>3, <3>2
        <4> QED BY <1>2, <4>1 DEF StackOK
      <3> QED BY <3>1, <3>2
    <2>2. ASSUME NEW i \in 1..Len(T), NEW j \in 1..Len(T), T[i].kind = "body", T[j].frame = T[i].frame
          PROVE  i = j
      <3>1. i # 1
        BY <1>1, <1>3, <2>2
      <3>2. i - 1 \in 1..Len(stack) /\ T[i] = stack[i - 1]
        BY <1>3, <3>1
      <3>3. T[i].frame # 0
        BY <1>2, <2>2, <3>2, Typed DEF StackOK, BodyOK, Inv
      <3>4. j # 1
        BY <1>1, <1>3, <2>2, <3>3
      <3>5. j - 1 \in 1..Len(stack) /\ T[j] = stack[j - 1]
        BY <1>3, <3>4
      <3>6. i - 1 = j - 1
        BY <1>2, <2>2, <3>2, <3>5 DEF StackOK
      <3> QED BY <1>2, <1>3, <3>6
    <2> QED BY <2>1, <2>2 DEF StackOK
  <1>6. InvBut(0, rt, frame, T, resolvable, calls)
    BY <1>3, <1>4, <1>5, StackKeeps DEF Inv
  <1> QED BY <1>6, StackInv DEF LetDrain, T

\* An exception in the main program keeps the invariant.
LEMMA MainRaisedKeeps ==
    ASSUME Inv, MainRaised
    PROVE  Inv'
  <1>1. /\ stack \in Seq(ActivationRecord) /\ Len(stack) \in Nat /\ StackOK(rt, frame, stack)
        /\ 1 \in 1..Len(stack) /\ stack[1].kind = "main"
    BY Typed, TailParts DEF Inv, InvBut, MainRaised, Alive
  <1>2. Len(stack) = 1 /\ stack[1].frame = 0
    BY <1>1 DEF StackOK
  <1>3. \A f \in 1..Len(frame) : ~On(stack, f)
    <2>1. \A f \in 1..Len(frame) : f # 0
      BY Typed DEF Inv
    <2> QED BY <1>1, <1>2, <2>1 DEF On
  <1>4. CASE stack' = <<>>
    <2>1. <<>> \in Seq(ActivationRecord) /\ \A i \in 1..Len(<<>>) : FALSE
      OBVIOUS
    <2>2. StackOK(rt, frame, <<>>) /\ \A f : ~On(<<>>, f)
      BY <2>1 DEF StackOK, On
    <2>3. InvBut(0, rt, frame, <<>>, resolvable, calls)
      BY <1>3, <2>1, <2>2, StackKeeps DEF Inv
    <2> QED BY <1>4, <2>3, StackInv DEF MainRaised
  <1>5. CASE stack' = <<Main>>
    <2> DEFINE T == <<Main>>
    <2>1. /\ Main \in ActivationRecord /\ Main.kind = "main" /\ Main.frame = 0 /\ Main.at = "run"
      BY DEF Main, Activation, NoFrame, ActivationRecord, Val
    <2> HIDE DEF Main
    <2>2. T \in Seq(ActivationRecord) /\ Len(T) = 1 /\ T[1] = Main
      BY <2>1
    <2> HIDE DEF T
    <2>3. StackOK(rt, frame, T)
      BY <2>1, <2>2 DEF StackOK
    <2>4. \A f \in 1..Len(frame) : ~On(T, f)
      <3>1. \A f \in 1..Len(frame) : f # 0
        BY Typed DEF Inv
      <3> QED BY <2>1, <2>2, <3>1 DEF On
    <2>5. InvBut(0, rt, frame, T, resolvable, calls)
      BY <1>3, <2>2, <2>3, <2>4, StackKeeps DEF Inv
    <2> QED BY <1>5, <2>5, StackInv DEF MainRaised, T
  <1> QED BY <1>4, <1>5 DEF MainRaised

\* The drain loop ends.
LEMMA PopKeeps ==
    ASSUME NEW r, NEW F, NEW S, NEW res, NEW c, InvBut(0, r, F, S, res, c),
           S # <<>>, Head(S).kind = "drain"
    PROVE  InvBut(0, r, F, Tail(S), res, c) /\ Tail(S) # <<>>
  <1>1. /\ S \in Seq(ActivationRecord) /\ StackOK(r, F, S) /\ 1 \in 1..Len(S) /\ Head(S) = S[1]
    BY Typed, TailParts DEF InvBut
  <1>2. Tail(S) \in Seq(ActivationRecord) /\ Tail(S) # <<>> /\ StackOK(r, F, Tail(S))
    BY <1>1, PopStack
  <1>3. S[1].frame = 0
    BY <1>1 DEF StackOK
  <1>4. \A f \in 1..Len(F) : On(Tail(S), f) <=> On(S, f)
    <2> SUFFICES ASSUME NEW f \in 1..Len(F) PROVE On(Tail(S), f) <=> On(S, f)
      OBVIOUS
    <2>1. f # 0
      BY Typed
    <2> QED BY <1>1, <1>3, <2>1, TailOn
  <1> DEFINE T == Tail(S)
  <1> HIDE DEF T
  <1>5. InvBut(0, r, F, T, res, c)
    BY <1>2, <1>4, StackKeeps DEF T
  <1> QED BY <1>2, <1>5 DEF T

\* An exception in the drain loop keeps the invariant.
LEMMA DrainRaisedKeeps ==
    ASSUME Inv, DrainRaised
    PROVE  Inv'
  <1> DEFINE T == Tail(stack)
             v == Head(stack).reason
  <1>1. stack # <<>> /\ Head(stack).kind = "drain"
    BY DEF DrainRaised, Draining, Alive
  <1>2. InvBut(0, rt, frame, T, resolvable, calls) /\ T # <<>>
    BY <1>1, PopKeeps DEF Inv
  <1>3. v \in Val
    <2>1. stack[1] \in ActivationRecord /\ Head(stack) = stack[1]
      BY <1>1, Typed, TailParts DEF Inv
    <2> QED BY <2>1 DEF ActivationRecord
  <1>4. Leave(Machine) = M(rt, frame, T)
    BY MachineIs, LeaveIs
  <1> HIDE DEF T, v
  <1>5. Good(Raised(M(rt, frame, T), v), resolvable, calls)
    BY <1>2, <1>3, RaisedKeeps
  <1> QED BY <1>4, <1>5, BecomesInv DEF DrainRaised, v

\* The end of the drain loop keeps the invariant.
LEMMA DrainEndsKeeps ==
    ASSUME Inv, DrainEnds
    PROVE  Inv'
  <1>1. stack # <<>> /\ Head(stack).kind = "drain"
    BY DEF DrainEnds, Draining, Alive
  <1>2. InvBut(0, rt, frame, Tail(stack), resolvable, calls)
    BY <1>1, PopKeeps DEF Inv
  <1> QED BY <1>2, StackInv DEF DrainEnds

\* f is a frame of F, and its record is set.
InFrames(F, f) == F \in Seq(FrameRecord) /\ f \in 1..Len(F)

\* The machine with k as the frame f.
SetFrame(s, f, k) == [s EXCEPT !.frame[f] = k]

\* What it is.
LEMMA SetFrameIs ==
    ASSUME NEW r, NEW F, NEW S, NEW f, NEW g, InFrames(F, f), NEW k
    PROVE  /\ SetFrame(M(r, Put(F, f, g), S), f, k) = M(r, Put(F, f, k), S)
           /\ M(r, Put(F, f, g), S).frame[f] = g
  <1> DEFINE G == Put(F, f, g)
  <1>1. G[f] = g /\ Put(G, f, k) = Put(F, f, k)
    BY TwiceIs DEF InFrames
  <1> HIDE DEF G
  <1>2. SetFrame(M(r, G, S), f, k) = M(r, Put(G, f, k), S) /\ M(r, G, S).frame = G
    BY DEF SetFrame, M, Put
  <1> QED BY <1>1, <1>2 DEF G

\* The runtime and the frames are set.
Both(s, q, G) == [s EXCEPT !.rt = q, !.frame = G]

\* The machine with another runtime and other frames.
LEMMA SetBoth ==
    ASSUME NEW r, NEW F, NEW S, NEW q, NEW G
    PROVE  Both(M(r, F, S), q, G) = M(q, G, S)
  <1>1. [M(r, F, S) EXCEPT !.rt = q] = M(q, F, S)
    BY DEF M
  <1>2. [M(q, F, S) EXCEPT !.frame = G] = M(q, G, S)
    BY DEF M
  <1> QED BY <1>1, <1>2, Zenon DEF Both

\* The resume function is entered.
Entered(F, S, f) == <<Activation("body", f, F[f].result)>> \o S

\* Resume enters the frame and dispatches.
LEMMA ResumeIs ==
    ASSUME NEW r, NEW F, NEW S, NEW f
    PROVE  Resume(M(r, F, S), f) = Dispatch(M(r, F, Entered(F, S, f)))
  <1> DEFINE T == Entered(F, S, f)
  <1>1. M(r, F, S).frame = F /\ M(r, F, S).stack = S
    BY MParts
  <1>2. Resume(M(r, F, S), f) = Dispatch([M(r, F, S) EXCEPT !.stack = T])
    BY <1>1, Zenon DEF Resume, Entered
  <1> HIDE DEF T
  <1>3. [M(r, F, S) EXCEPT !.stack = T] = M(r, F, T)
    BY DEF M
  <1> QED BY <1>2, <1>3 DEF T

\* A frame is entered to run code.
LEMMA StartKeeps ==
    ASSUME NEW r, NEW F, NEW S, NEW res, NEW c, NEW f \in 1..Len(F), InvBut(f, r, F, S, res, c),
           F[f].asked, F[f].over = "no", F[f].mode = "next", Pending(r, F[f].result),
           ~On(S, f), ~Resumed(r, f), S # <<>>, F[f].state.does \in {"code", "tail"}
    PROVE  Good(Resume(M(r, F, S), f), res, c)
  <1> DEFINE T == Entered(F, S, f)
  <1>1. InvBut(0, r, F, T, res, c) /\ T # <<>> /\ T[1] = Activation("body", f, F[f].result)
    BY EnterKeeps DEF Entered
  <1>2. T[1].frame = f
    BY <1>1 DEF Activation
  <1> HIDE DEF T
  <1>3. Head(T) = T[1]
    BY <1>1, Typed, TailParts
  <1>4. Running(M(r, F, T)) = f /\ M(r, F, T).frame = F
    BY <1>2, <1>3, MParts DEF Running, Top
  <1>5. Dispatch(M(r, F, T)) = M(r, F, T)
    BY <1>4 DEF Dispatch
  <1>6. Good(M(r, F, T), res, c)
    BY <1>1, MParts
  <1> QED BY <1>5, <1>6, ResumeIs DEF T

\* A new frame.
LEMMA NewFrameTyped ==
    ASSUME NEW kind \in {"function", "generator"}, NEW always \in BOOLEAN, NEW p \in Ids \cup {NoValue}
    PROVE  LET g == NewFrame(kind, always, p)
           IN  /\ g \in FrameRecord /\ g.kind = kind /\ g.result = p /\ g.over = "no"
               /\ g.mode = "next" /\ g.got = NoValue /\ g.state = Code
               /\ g.asked <=> p # NoValue
  <1>1. NoValue \in Val /\ NoValue \in Settlement \cup {NoValue} /\ (p # NoValue) \in BOOLEAN
    BY DEF Val
  <1> DEFINE asked == p # NoValue
  <1> HIDE DEF asked
  <1>2. asked \in BOOLEAN
    BY <1>1 DEF asked
  <1> DEFINE h == [kind |-> kind, always |-> always, state |-> Code, sent |-> NoValue,
                   mode |-> "next", error |-> NoValue, result |-> p,
                   awaits |-> NoValue, got |-> NoValue, asked |-> asked, over |-> "no"]
  <1>3. NewFrame(kind, always, p) = h
    BY DEF NewFrame, asked
  <1>4. /\ h \in FrameRecord /\ h.kind = kind /\ h.result = p /\ h.over = "no"
        /\ h.mode = "next" /\ h.got = NoValue /\ h.state = Code /\ h.asked = asked
    BY <1>1, <1>2, StatesTyped DEF FrameRecord
  <1> HIDE DEF h
  <1> QED BY <1>3, <1>4 DEF asked

\* Promises are not null.
LEMMA IdsAreNot == NoValue \notin Ids /\ Ids \subseteq Int
  BY KindsAssumption DEF Ids

\* A call of an async function keeps the invariant.
LEMMA CallAsyncKeeps ==
    ASSUME Inv, NEW always \in BOOLEAN, CallAsync(always)
    PROVE  Inv'
  <1> DEFINE p == rt.minted + 1
             q == Mint(rt, NewPromise)
             g == NewFrame("function", always, p)
             G == Append(frame, g)
             f == Len(frame) + 1
  <1>1. stack # <<>> /\ calls < MaxCalls /\ calls' = calls + 1
    BY DEF CallAsync, Call, InCode, Alive, Count
  <1>2. /\ InvBut(0, q, frame, stack, resolvable, calls + 1)
        /\ p \in Ids /\ p = q.minted /\ p \notin resolvable /\ Pending(q, p)
        /\ \A h \in 1..Len(frame) : frame[h].asked => frame[h].result # p
    BY <1>1, MintKeeps DEF Inv
  <1>3. /\ g \in FrameRecord /\ g.kind = "function" /\ g.result = p /\ g.over = "no"
        /\ g.mode = "next" /\ g.got = NoValue /\ g.state = Code /\ g.asked
    <2> HIDE DEF p
    <2> QED BY <1>2, NewFrameTyped, IdsAreNot
  <1>4. Becomes(Resume(M(q, G, stack), f)) /\ UNCHANGED resolvable
    <2> DEFINE s == [Machine EXCEPT !.rt = Mint(@, NewPromise), !.frame = Append(@, g)]
    <2>1. Machine.rt = rt /\ Machine.frame = frame
      BY DEF Machine
    <2>2. s = M(q, G, stack)
      <3>1. s = Both(Machine, q, G)
        BY <2>1, Zenon DEF Both
      <3> HIDE DEF q, G
      <3>2. Both(Machine, q, G) = M(q, G, stack)
        BY MachineIs, SetBoth
      <3> QED BY <3>1, <3>2
    <2>3. Becomes(Resume(s, f)) /\ UNCHANGED resolvable
      BY Zenon DEF CallAsync
    <2> HIDE DEF s
    <2> QED BY <2>2, <2>3
  <1> HIDE DEF g, q, p
  <1>5. Idle(q, g, resolvable)
    <2>1. p <= q.minted
      BY <1>2, IdsAreNot
    <2> QED BY <1>2, <1>3, <2>1 DEF Idle, FrameOK, Delivered
  <1>6. /\ InvBut(f, q, G, stack, resolvable, calls + 1) /\ G[f] = g /\ Len(G) = f
        /\ ~On(stack, f) /\ ~Resumed(q, f)
    <2>1. \A h \in 1..Len(frame) : frame[h].asked /\ g.asked => frame[h].result # g.result
      BY <1>2, <1>3
    <2> QED BY <1>2, <1>3, <1>5, <2>1, AppendKeeps
  <1>7. f \in 1..Len(G)
    BY <1>6, Typed DEF Inv
  <1>8. G[f].state.does \in {"code", "tail"}
    BY <1>3, <1>6, StatesTyped
  <1> HIDE DEF G, f
  <1>9. Good(Resume(M(q, G, stack), f), resolvable, calls + 1)
    BY <1>1, <1>2, <1>3, <1>6, <1>7, <1>8, StartKeeps
  <1> QED BY <1>1, <1>4, <1>9 DEF Becomes, Good, Inv

\* A call of an async generator keeps the invariant.
LEMMA CallGeneratorKeeps ==
    ASSUME Inv, CallGenerator
    PROVE  Inv'
  <1> DEFINE g == NewFrame("generator", FALSE, NoValue)
             G == Append(frame, g)
             f == Len(frame) + 1
  <1>1. /\ calls < MaxCalls /\ calls' = calls + 1 /\ frame' = G /\ UNCHANGED <<rt, resolvable, stack>>
    BY DEF CallGenerator, Call, Count
  <1>2. /\ g \in FrameRecord /\ g.kind = "generator" /\ g.over = "no"
        /\ g.mode = "next" /\ g.got = NoValue /\ g.state = Code /\ ~g.asked
    BY NewFrameTyped
  <1> HIDE DEF g
  <1>3. Idle(rt, g, resolvable)
    BY <1>2, StatesTyped DEF Idle, FrameOK, Delivered
  <1>4. InvBut(f, rt, G, stack, resolvable, calls) /\ G[f] = g
    BY <1>2, <1>3, AppendKeeps DEF Inv
  <1>5. Answerable(rt, G[f], f, stack)
    BY <1>2, <1>4 DEF Answerable
  <1> HIDE DEF G, f
  <1>6. InvBut(0, rt, G, stack, resolvable, calls)
    BY <1>4, <1>5, NoException
  <1>7. InvBut(0, rt, G, stack, resolvable, calls + 1)
    BY <1>1, <1>6, CallKeeps
  <1> QED BY <1>1, <1>7 DEF Inv

\* A step job resumes its frame with the outcome.
LEMMA RunStepKeeps ==
    ASSUME Inv, RunStep
    PROVE  Inv'
  <1> DEFINE job == Head(rt.queue)
             f == job.caps.frame
             q == [rt EXCEPT !.queue = Tail(@)]
             st == JobState(job)
             v == job.arg
             g == [frame[f] EXCEPT !.sent = v]
             h == IF job.fn = "step_fulfill" THEN g ELSE [g EXCEPT !.error = v, !.mode = "throw"]
             s == [Machine EXCEPT !.rt.queue = Tail(@), !.frame[f].sent = v]
             t == IF job.fn = "step_fulfill" THEN s
                  ELSE [s EXCEPT !.frame[f].error = v, !.frame[f].mode = "throw"]
  <1>1. stack # <<>> /\ rt.queue # <<>> /\ Becomes(Resume(t, f)) /\ UNCHANGED <<resolvable, calls>>
    BY ZenonT(40) DEF RunStep, Draining, Alive
  <1>2. /\ InvBut(f, q, frame, stack, resolvable, calls)
        /\ job \in JobRecord /\ f \in 1..Len(frame) /\ ~Resumed(q, f) /\ Waits(q, frame, stack, f)
        /\ Matches(q, frame[f], st, v)
    BY <1>1, TakeKeeps DEF Inv
  <1>3. st \in {"fulfilled", "rejected"} /\ v \in Val /\ job.fn \in {"step_fulfill", "step_reject"}
    BY <1>2 DEF JobRecord, JobState
  <1>4. frame \in Seq(FrameRecord) /\ frame[f] \in FrameRecord /\ InFrames(frame, f)
    BY <1>2, Typed DEF Inv, InFrames
  <1>5. s = M(q, Put(frame, f, g), stack)
    <2>1. Machine.rt = rt
      BY DEF Machine
    <2>2. [Machine EXCEPT !.rt.queue = Tail(@)] = M(q, Put(frame, f, frame[f]), stack)
      <3>1. [Machine EXCEPT !.rt.queue = Tail(@)] = [Machine EXCEPT !.rt = q]
        BY <2>1, Zenon DEF Machine
      <3>2. Machine = M(rt, frame, stack) /\ Put(frame, f, frame[f]) = frame
        BY <1>2, <1>4, MachineIs, TwiceIs, SMTT(30)
      <3> HIDE DEF q, f
      <3>3. [M(rt, frame, stack) EXCEPT !.rt = q] = M(q, frame, stack)
        BY DEF M
      <3> QED BY <3>1, <3>2, <3>3
    <2>3. [M(q, Put(frame, f, frame[f]), stack) EXCEPT !.frame[f].sent = v] = M(q, Put(frame, f, g), stack)
      <3> DEFINE s0 == M(q, Put(frame, f, frame[f]), stack)
      <3> HIDE DEF s0
      <3>1. [s0 EXCEPT !.frame[f].sent = v] = SetFrame(s0, f, [s0.frame[f] EXCEPT !.sent = v])
        BY Zenon DEF SetFrame
      <3>2. s0.frame[f] = frame[f] /\ SetFrame(s0, f, g) = M(q, Put(frame, f, g), stack)
        <4> HIDE DEF g, q
        <4> QED BY <1>4, SetFrameIs DEF s0
      <3> QED BY <3>1, <3>2 DEF s0
    <2> HIDE DEF q, f, v, g
    <2> QED BY <2>2, <2>3, Zenon
  <1>6. t = M(q, Put(frame, f, h), stack)
    <2> HIDE DEF s, g, q, f, v
    <2>1. CASE job.fn = "step_fulfill"
      BY <1>5, <2>1
    <2>2. CASE job.fn = "step_reject"
      <3> DEFINE g1 == [g EXCEPT !.error = v]
                 g2 == [g1 EXCEPT !.mode = "throw"]
                 s1 == [s EXCEPT !.frame[f].error = v]
      <3>1. s1 = SetFrame(s, f, [s.frame[f] EXCEPT !.error = v])
        BY Zenon DEF SetFrame
      <3>2. s.frame[f] = g
        BY <1>4, <1>5, SetFrameIs
      <3>3. s1 = M(q, Put(frame, f, g1), stack)
        <4> HIDE DEF s1
        <4> QED BY <1>4, <1>5, <3>1, <3>2, SetFrameIs
      <3> HIDE DEF s1, g1
      <3>5. [s1 EXCEPT !.frame[f].mode = "throw"] = SetFrame(s1, f, [s1.frame[f] EXCEPT !.mode = "throw"])
        BY Zenon DEF SetFrame
      <3>6. s1.frame[f] = g1
        BY <1>4, <3>3, SetFrameIs
      <3>7. [s1 EXCEPT !.frame[f].mode = "throw"] = M(q, Put(frame, f, g2), stack)
        BY <1>4, <3>3, <3>5, <3>6, SetFrameIs
      <3>8. [s EXCEPT !.frame[f].error = v, !.frame[f].mode = "throw"] = M(q, Put(frame, f, g2), stack)
        BY <3>7 DEF s1
      <3>4. h = [g1 EXCEPT !.mode = "throw"]
        BY <2>2 DEF g1
      <3> HIDE DEF h
      <3> QED BY <2>2, <3>4, <3>8
    <2> QED BY <1>3, <2>1, <2>2
  <1>7. /\ h \in FrameRecord /\ h.kind = frame[f].kind /\ h.result = frame[f].result
        /\ h.asked = frame[f].asked /\ h.over = frame[f].over /\ h.state = frame[f].state
        /\ h.awaits = frame[f].awaits /\ h.got = frame[f].got
        /\ st = "fulfilled" => h.mode = frame[f].mode /\ h.sent = v
        /\ st = "rejected" => h.mode = "throw" /\ h.error = v
    <2> DEFINE o == frame[f]
    <2>1. o \in FrameRecord /\ v \in Val
      BY <1>3, <1>4
    <2> HIDE DEF o, v, f
    <2>2. /\ g \in FrameRecord /\ g.kind = o.kind /\ g.result = o.result
          /\ g.asked = o.asked /\ g.over = o.over /\ g.state = o.state
          /\ g.awaits = o.awaits /\ g.got = o.got /\ g.mode = o.mode /\ g.sent = v
      BY <2>1 DEF FrameRecord, o
    <2> HIDE DEF g
    <2>3. LET k == [g EXCEPT !.error = v, !.mode = "throw"]
          IN  /\ k \in FrameRecord /\ k.kind = g.kind /\ k.result = g.result
              /\ k.asked = g.asked /\ k.over = g.over /\ k.state = g.state
              /\ k.awaits = g.awaits /\ k.got = g.got /\ k.mode = "throw" /\ k.error = v
      BY <2>1, <2>2 DEF FrameRecord
    <2>4. job.fn = "step_fulfill" => st = "fulfilled"
      BY DEF JobState
    <2>5. job.fn # "step_fulfill" => st = "rejected"
      BY DEF JobState
    <2> HIDE DEF job, st
    <2> QED BY <2>2, <2>3, <2>4, <2>5 DEF o
  <1> HIDE DEF g, h, q, s, t, f, st, v
  <1>8. frame[f].asked /\ frame[f].over = "no" /\ frame[f].mode = "next" /\ frame[f].state.does = "deliver"
        /\ Pending(q, frame[f].result) /\ ~On(stack, f)
    BY <1>2 DEF Waits
  <1> DEFINE T == Entered(frame, stack, f)
  <1>9. /\ InvBut(0, q, frame, T, resolvable, calls) /\ T # <<>>
        /\ T[1] = Activation("body", f, frame[f].result)
    BY <1>1, <1>2, <1>8, EnterKeeps DEF Entered
  <1>10. T[1].kind = "body" /\ T[1].frame = f /\ T[1].at = "run"
    BY <1>9 DEF Activation
  <1>11. Resume(t, f) = Dispatch(M(q, Put(frame, f, h), T))
    <2>1. Put(frame, f, h)[f] = h
      BY <1>2, <1>4, TwiceIs
    <2>2. Entered(Put(frame, f, h), stack, f) = T
      BY <1>7, <2>1 DEF Entered
    <2> HIDE DEF T
    <2> QED BY <1>6, <2>2, ResumeIs
  <1> HIDE DEF T
  <1>12. Runs(q, frame, T, f, frame[f], resolvable, calls)
    <2>1. Variant(q, frame, f, frame[f])
      BY <1>9, <1>10, RunningVariant
    <2> QED BY <1>9, <1>10, <2>1 DEF Runs
  <1>13. Runs(q, frame, T, f, h, resolvable, calls)
    BY <1>7, <1>12, SameRuns
  <1>14. Delivers(q, h, st, v)
    BY <1>2, <1>3, <1>7, <1>8 DEF Delivers, Matches
  <1>15. Good(Dispatch(M(q, Put(frame, f, h), T)), resolvable, calls)
    BY <1>10, <1>13, <1>14, DeliverKeeps
  <1> QED BY <1>1, <1>11, <1>15, BecomesInv, SMTT(30)

\* The record g of a frame that is asked for the result p.
AskedFor(g, p) == [g EXCEPT !.result = p, !.asked = TRUE]

\* What it is.
LEMMA AskedForParts ==
    ASSUME NEW g \in FrameRecord, NEW p \in Ids
    PROVE  LET h == AskedFor(g, p)
           IN  /\ h \in FrameRecord /\ h.kind = g.kind /\ h.result = p /\ h.asked
               /\ h.over = g.over /\ h.state = g.state /\ h.mode = g.mode
               /\ h.awaits = g.awaits /\ h.got = g.got
  BY DEF AskedFor, FrameRecord

\* The machine when a method of f has minted its promise.
LEMMA WithResultIs ==
    ASSUME NEW f, InFrames(frame, f)
    PROVE  WithResult(f) =
              M(Mint(rt, NewPromise), Put(frame, f, AskedFor(frame[f], rt.minted + 1)), stack)
  <1> DEFINE p == rt.minted + 1
             q == Mint(rt, NewPromise)
             g == frame[f]
             g1 == [g EXCEPT !.result = p]
             s == [Machine EXCEPT !.rt = Mint(@, NewPromise)]
             s1 == [s EXCEPT !.frame[f].result = p]
             s2 == [s1 EXCEPT !.frame[f].asked = TRUE]
  <1>1. s = M(q, Put(frame, f, g), stack)
    <2>1. Machine = M(rt, frame, stack) /\ Put(frame, f, g) = frame /\ M(rt, frame, stack).rt = rt
      BY MachineIs, TwiceIs, MParts DEF InFrames
    <2>2. s = [M(rt, frame, stack) EXCEPT !.rt = q]
      BY <2>1, Zenon
    <2> HIDE DEF q, g, s
    <2>3. [M(rt, frame, stack) EXCEPT !.rt = q] = M(q, frame, stack)
      BY DEF M
    <2> QED BY <2>1, <2>2, <2>3
  <1>2. WithResult(f) = s2
    BY DEF WithResult
  <1> HIDE DEF q, g, s, p
  <1>3. s1 = SetFrame(s, f, [s.frame[f] EXCEPT !.result = p])
    BY Zenon DEF SetFrame
  <1>4. s.frame[f] = g
    BY <1>1, SetFrameIs
  <1>5. s1 = M(q, Put(frame, f, g1), stack)
    <2> HIDE DEF s1
    <2> QED BY <1>1, <1>3, <1>4, SetFrameIs
  <1> HIDE DEF s1, g1
  <1>6. s2 = SetFrame(s1, f, [s1.frame[f] EXCEPT !.asked = TRUE])
    BY Zenon DEF SetFrame
  <1>7. s1.frame[f] = g1
    BY <1>5, SetFrameIs
  <1>8. s2 = M(q, Put(frame, f, [g1 EXCEPT !.asked = TRUE]), stack)
    <2> HIDE DEF s2
    <2> QED BY <1>5, <1>6, <1>7, SetFrameIs
  <1>9. [g1 EXCEPT !.asked = TRUE] = AskedFor(g, p)
    BY DEF g1, AskedFor
  <1> QED BY <1>2, <1>8, <1>9 DEF q, g, p

\* A method of the generator f is called, which is neither running nor
\* awaiting: the promise it returns is minted.
LEMMA MethodMints ==
    ASSUME ~Overlap, Inv, NEW f \in Frames, CallMethod(f)
    PROVE  LET p == rt.minted + 1
               q == Mint(rt, NewPromise)
           IN  /\ InvBut(0, q, frame, stack, resolvable, calls + 1)
               /\ p \in Ids /\ p <= q.minted /\ p \notin resolvable /\ Pending(q, p)
               /\ \A h \in 1..Len(frame) : frame[h].asked => frame[h].result # p
               /\ InFrames(frame, f) /\ frame[f] \in FrameRecord
               /\ f \in 1..Len(frame) /\ frame[f].kind = "generator"
               /\ ~On(stack, f) /\ ~Resumed(q, f)
               /\ FrameOK(q, frame[f], FALSE, resolvable)
               /\ frame[f].state.does # "deliver"
               /\ stack # <<>> /\ calls < MaxCalls /\ calls' = calls + 1 /\ UNCHANGED resolvable
  <1> DEFINE p == rt.minted + 1
             q == Mint(rt, NewPromise)
  <1>1. /\ stack # <<>> /\ calls < MaxCalls /\ calls' = calls + 1 /\ UNCHANGED resolvable
        /\ frame[f].kind = "generator" /\ ~OnStack(f) /\ ~Awaiting(f)
    BY DEF CallMethod, Call, InCode, Alive, Count
  <1>2. /\ InvBut(0, q, frame, stack, resolvable, calls + 1)
        /\ p \in Ids /\ p = q.minted /\ p \notin resolvable /\ Pending(q, p)
        /\ \A h \in 1..Len(frame) : frame[h].asked => frame[h].result # p
    BY <1>1, MintKeeps DEF Inv
  <1>3. /\ frame \in Seq(FrameRecord) /\ f \in 1..Len(frame) /\ frame[f] \in FrameRecord
        /\ stack \in Seq(ActivationRecord) /\ Len(stack) \in Nat
    BY Typed DEF Inv, Frames
  <1>4. ~On(stack, f)
    BY <1>1, <1>3 DEF On, OnStack
  <1> HIDE DEF q, p
  <1>5. ~Resumed(q, f)
    <2> SUFFICES ASSUME Resumed(q, f) PROVE FALSE
      OBVIOUS
    <2>1. Waits(q, frame, stack, f)
      BY <1>2, OnNotResumed
    <2> QED BY <1>1, <2>1 DEF Waits, Awaiting
  <1>6. FrameOK(q, frame[f], FALSE, resolvable)
    <2>1. FrameOK(q, frame[f], On(stack, f), resolvable)
      BY <1>2, <1>3 DEF InvBut, FramesOK
    <2> QED BY <1>4, <2>1 DEF FrameOK
  <1>7. frame[f].state.does # "deliver"
    <2>1. frame[f].over # "no" => frame[f].state.does = "completed"
      BY <1>1, <1>6 DEF FrameOK
    <2> QED BY <1>1, <2>1 DEF Awaiting
  <1>8. p <= q.minted
    BY <1>2, IdsAreNot
  <1> QED BY <1>1, <1>2, <1>3, <1>4, <1>5, <1>6, <1>7, <1>8 DEF InFrames, q, p

\* A method answers at once: the generator f, which is not on the stack,
\* becomes g, and its new result p is settled.
LEMMA AnswerKeeps ==
    ASSUME NEW r, NEW F, NEW S, NEW res, NEW c, InvBut(0, r, F, S, res, c),
           NEW f \in 1..Len(F), ~On(S, f), ~Resumed(r, f), F[f].kind = "generator",
           NEW p \in Ids, p <= r.minted, p \notin res, Pending(r, p),
           \A h \in 1..Len(F) : F[h].asked => F[h].result # p,
           NEW g \in FrameRecord, g.kind = "generator", g.asked, g.result = p, g.over # "escaped",
           g.state.does = "completed", g.state.region = "none", g.state.next # "return",
           g.over = "no" => g.mode = "next", Delivered(r, g),
           NEW st \in {"fulfilled", "rejected"}, NEW v \in Val
    PROVE  InvBut(0, Settle(r, p, st, v), Put(F, f, g), S, res, c)
  <1> DEFINE G == Put(F, f, g)
             q == Settle(r, p, st, v)
  <1>1. FrameOK(r, g, On(S, f), res)
    BY DEF FrameOK
  <1>2. Swappable(r, F, S, f, g, res)
    BY <1>1 DEF Swappable, Replaceable
  <1>3. \A i \in 1..Len(S) : S[i].frame # f
    BY DEF On
  <1>4. InvBut(f, r, G, S, res, c)
    BY <1>2, <1>3, ReplaceKeeps
  <1>5. G[f] = g /\ Len(G) = Len(F) /\ \A h \in 1..Len(F) : h # f => G[h] = F[h]
    BY Typed DEF Put
  <1>6. Settles(r, q, p, st, v)
    BY Typed, Settling
  <1>7. \A h \in 1..Len(G) : G[h].asked /\ G[h].result = p => h = f
    BY <1>5
  <1>8. f \in Nat
    BY Typed
  <1> HIDE DEF G, q
  <1>9. InvBut(0, q, G, S, res, c)
    BY <1>4, <1>5, <1>6, <1>7, <1>8, SettlesKeeps
  <1> QED BY <1>9 DEF G, q

\* next() keeps the invariant.
LEMMA CallNextKeeps ==
    ASSUME ~Overlap, Inv, NEW f \in Frames, CallNext(f)
    PROVE  Inv'
  <1> DEFINE p == rt.minted + 1
             q == Mint(rt, NewPromise)
             o == frame[f]
             g == AskedFor(o, p)
             G == Put(frame, f, g)
             T == Entered(G, stack, f)
  <1>1. /\ InvBut(0, q, frame, stack, resolvable, calls + 1)
        /\ p \in Ids /\ p <= q.minted /\ p \notin resolvable /\ Pending(q, p)
        /\ \A h \in 1..Len(frame) : frame[h].asked => frame[h].result # p
        /\ InFrames(frame, f) /\ o \in FrameRecord
        /\ f \in 1..Len(frame) /\ o.kind = "generator"
        /\ ~On(stack, f) /\ ~Resumed(q, f)
        /\ FrameOK(q, o, FALSE, resolvable)
        /\ o.state.does # "deliver"
        /\ stack # <<>> /\ calls < MaxCalls /\ calls' = calls + 1 /\ UNCHANGED resolvable
    BY MethodMints DEF CallNext
  <1>2. WithResult(f) = M(q, G, stack)
    BY <1>1, WithResultIs
  <1>3. Becomes(Resume(M(q, G, stack), f))
    BY <1>2 DEF CallNext
  <1> HIDE DEF p, q, o
  <1>4. /\ g \in FrameRecord /\ g.kind = "generator" /\ g.result = p /\ g.asked
        /\ g.over = o.over /\ g.state = o.state /\ g.mode = o.mode
        /\ g.awaits = o.awaits /\ g.got = o.got
    BY <1>1, AskedForParts
  <1> HIDE DEF g
  <1>5. /\ g.over # "escaped" /\ g.state.region = "none" /\ g.state.next # "return"
        /\ g.over # "no" => g.state.does = "completed"
        /\ g.over = "no" => g.mode = "next"
        /\ Delivered(q, g)
    BY <1>1, <1>4 DEF FrameOK, Delivered, Matches
  <1>6. G[f] = g /\ Len(G) = Len(frame)
    BY <1>1 DEF InFrames, Put
  <1>7. g.state.does \in {"code", "tail", "completed"}
    BY <1>1, <1>4 DEF FrameRecord, StateRecord
  <1>8. CASE g.state.does # "completed"
    <2>1. FrameOK(q, g, On(stack, f), resolvable)
      BY <1>1, <1>4, <1>5, <1>8 DEF FrameOK
    <2>2. Swappable(q, frame, stack, f, g, resolvable)
      BY <1>1, <1>4, <2>1 DEF Swappable, Replaceable, o
    <2>3. \A i \in 1..Len(stack) : stack[i].frame # f
      BY <1>1 DEF On
    <2>4. InvBut(f, q, G, stack, resolvable, calls + 1)
      BY <1>1, <2>2, <2>3, ReplaceKeeps
    <2> HIDE DEF G
    <2>5. Good(Resume(M(q, G, stack), f), resolvable, calls + 1)
      BY <1>1, <1>4, <1>5, <1>6, <1>7, <1>8, <2>4, StartKeeps
    <2> QED BY <1>1, <1>3, <2>5 DEF Becomes, Good, Inv
  <1>9. CASE g.state.does = "completed"
    <2> DEFINE v == IterResult(TRUE)
               t == Settle(q, p, "fulfilled", v)
    <2>1. v \in Val
      BY StatesTyped
    <2> HIDE DEF v
    <2>2. InvBut(0, t, G, stack, resolvable, calls + 1)
      BY <1>1, <1>4, <1>5, <1>9, <2>1, AnswerKeeps DEF o
    <2>3. Resume(M(q, G, stack), f) = M(t, G, stack)
      <3> DEFINE a == Activation("body", f, G[f].result)
      <3>1. a.frame = f /\ a.result = p
        BY <1>4, <1>6 DEF Activation
      <3>2. stack \in Seq(ActivationRecord) /\ a \in ActivationRecord
        <4>1. f \in Nat /\ stack \in Seq(ActivationRecord)
          BY <1>1, Typed
        <4>2. G[f].result \in Ids /\ NoValue \in Val
          BY <1>1, <1>4, <1>6 DEF Val
        <4> QED BY <4>1, <4>2 DEF Activation, ActivationRecord
      <3>3. T = <<a>> \o stack
        BY DEF Entered
      <3> HIDE DEF a, G
      <3>4. Head(T) = a /\ Tail(T) = stack
        <4> HIDE DEF T
        <4> QED BY <3>2, <3>3
      <3>5. Resume(M(q, G, stack), f) = Dispatch(M(q, G, T))
        BY ResumeIs
      <3> HIDE DEF T
      <3>6. Running(M(q, G, T)) = f /\ M(q, G, T).frame = G
        BY <3>1, <3>4, MParts DEF Running, Top
      <3>7. Dispatch(M(q, G, T)) = Leave(FulfillResult(M(q, G, T), v))
        BY <1>6, <1>9, <3>6 DEF Dispatch, v
      <3>8. FulfillResult(M(q, G, T), v) = M(t, G, T)
        BY <3>1, <3>4, FulfillIs
      <3>9. Leave(M(t, G, T)) = M(t, G, stack)
        BY <3>4, LeaveIs
      <3> QED BY <3>5, <3>7, <3>8, <3>9
    <2>4. Good(M(t, G, stack), resolvable, calls + 1)
      BY <2>2, MParts
    <2> HIDE DEF t, G
    <2> QED BY <1>1, <1>3, <2>3, <2>4 DEF Becomes, Good, Inv
  <1> QED BY <1>8, <1>9

\* A method that completes the generator.
LEMMA CompleteIs ==
    ASSUME NEW r, NEW F, NEW S, NEW f, NEW g, InFrames(F, f)
    PROVE  Complete(M(r, Put(F, f, g), S), f) =
              M(r, Put(F, f, WithOver(WithState(g, Completed), "returned")), S)
  <1> DEFINE s == M(r, Put(F, f, g), S)
             g1 == WithState(g, Completed)
             s1 == [s EXCEPT !.frame[f].state = Completed]
             s2 == [s1 EXCEPT !.frame[f].over = "returned"]
  <1>1. Complete(s, f) = s2
    BY DEF Complete
  <1>2. s1 = SetFrame(s, f, [s.frame[f] EXCEPT !.state = Completed])
    BY Zenon DEF SetFrame
  <1>3. s.frame[f] = g
    BY SetFrameIs
  <1>4. s1 = M(r, Put(F, f, g1), S)
    <2> HIDE DEF s1
    <2> QED BY <1>2, <1>3, SetFrameIs DEF WithState
  <1> HIDE DEF s, s1, g1
  <1>5. s2 = SetFrame(s1, f, [s1.frame[f] EXCEPT !.over = "returned"])
    BY Zenon DEF SetFrame
  <1>6. s1.frame[f] = g1
    BY <1>4, SetFrameIs
  <1>7. s2 = M(r, Put(F, f, WithOver(g1, "returned")), S)
    <2> HIDE DEF s2
    <2> QED BY <1>4, <1>5, <1>6, SetFrameIs DEF WithOver
  <1> QED BY <1>1, <1>7 DEF g1, s

\* A method that completes the generator keeps the invariant.
LEMMA CompleteKeeps ==
    ASSUME ~Overlap, Inv, NEW f \in Frames, CallMethod(f),
           NEW st \in {"fulfilled", "rejected"}, NEW v \in Val,
           Becomes(Complete([WithResult(f) EXCEPT !.rt = Settle(@, rt.minted + 1, st, v)], f))
    PROVE  Inv'
  <1> DEFINE p == rt.minted + 1
             q == Mint(rt, NewPromise)
             o == frame[f]
             g == AskedFor(o, p)
             h == WithOver(WithState(g, Completed), "returned")
             t == Settle(q, p, st, v)
  <1>1. /\ InvBut(0, q, frame, stack, resolvable, calls + 1)
        /\ p \in Ids /\ p <= q.minted /\ p \notin resolvable /\ Pending(q, p)
        /\ \A k \in 1..Len(frame) : frame[k].asked => frame[k].result # p
        /\ InFrames(frame, f) /\ o \in FrameRecord
        /\ f \in 1..Len(frame) /\ o.kind = "generator"
        /\ ~On(stack, f) /\ ~Resumed(q, f)
        /\ FrameOK(q, o, FALSE, resolvable)
        /\ calls' = calls + 1 /\ UNCHANGED resolvable
    BY MethodMints
  <1>2. [WithResult(f) EXCEPT !.rt = Settle(@, p, st, v)] = M(t, Put(frame, f, g), stack)
    <2> DEFINE G == Put(frame, f, g)
    <2>1. WithResult(f) = M(q, G, stack) /\ M(q, G, stack).rt = q
      BY <1>1, WithResultIs, MParts
    <2>2. [WithResult(f) EXCEPT !.rt = Settle(@, p, st, v)] = [M(q, G, stack) EXCEPT !.rt = t]
      BY <2>1, Zenon
    <2> HIDE DEF t, q, G
    <2>3. [M(q, G, stack) EXCEPT !.rt = t] = M(t, G, stack)
      BY DEF M
    <2> QED BY <2>2, <2>3 DEF G
  <1>3. Becomes(Complete(M(t, Put(frame, f, g), stack), f))
    BY <1>2
  <1> HIDE DEF p, q, o, t
  <1>4. /\ g \in FrameRecord /\ g.kind = "generator" /\ g.result = p /\ g.asked
        /\ g.over = o.over /\ g.state = o.state /\ g.mode = o.mode
        /\ g.awaits = o.awaits /\ g.got = o.got
    BY <1>1, AskedForParts
  <1> HIDE DEF g
  <1>5. /\ h \in FrameRecord /\ h.kind = "generator" /\ h.result = p /\ h.asked
        /\ h.over = "returned" /\ h.state = Completed /\ h.awaits = o.awaits /\ h.got = o.got
    <2> DEFINE k == WithState(g, Completed)
    <2>1. /\ k \in FrameRecord /\ k.kind = "generator" /\ k.result = p /\ k.asked
          /\ k.state = Completed /\ k.awaits = o.awaits /\ k.got = o.got
      BY <1>4, WithParts, StatesTyped
    <2> HIDE DEF k
    <2>2. /\ WithOver(k, "returned") \in FrameRecord /\ WithOver(k, "returned").kind = k.kind
          /\ WithOver(k, "returned").result = k.result /\ WithOver(k, "returned").asked = k.asked
          /\ WithOver(k, "returned").over = "returned" /\ WithOver(k, "returned").state = k.state
          /\ WithOver(k, "returned").awaits = k.awaits /\ WithOver(k, "returned").got = k.got
      BY <2>1, WithParts
    <2> QED BY <2>1, <2>2 DEF k
  <1>6. Complete(M(t, Put(frame, f, g), stack), f) = M(t, Put(frame, f, h), stack)
    BY <1>1, CompleteIs
  <1> HIDE DEF h
  <1>7. Delivered(q, h)
    BY <1>1, <1>5 DEF FrameOK, Delivered, Matches
  <1>8. InvBut(0, t, Put(frame, f, h), stack, resolvable, calls + 1)
    BY <1>1, <1>5, <1>7, AnswerKeeps, StatesTyped DEF o, t
  <1>9. Good(M(t, Put(frame, f, h), stack), resolvable, calls + 1)
    BY <1>8, MParts
  <1> QED BY <1>1, <1>3, <1>6, <1>9 DEF Becomes, Good, Inv

\* return() keeps the invariant.
LEMMA CallReturnKeeps ==
    ASSUME ~Overlap, Inv, NEW f \in Frames, CallReturn(f)
    PROVE  Inv'
  <1> DEFINE v == IterResult(TRUE)
  <1>1. v \in Val
    BY StatesTyped
  <1>2. /\ CallMethod(f)
        /\ Becomes(Complete([WithResult(f) EXCEPT !.rt = Settle(@, rt.minted + 1, "fulfilled", v)], f))
    BY DEF CallReturn, Fulfill
  <1> HIDE DEF v
  <1> QED BY <1>1, <1>2, CompleteKeeps

\* throw() keeps the invariant.
LEMMA CallThrowKeeps ==
    ASSUME ~Overlap, Inv, NEW f \in Frames, NEW v \in Value, CallThrow(f, v)
    PROVE  Inv'
  <1>1. v \in Val
    BY DEF Val
  <1>2. /\ CallMethod(f)
        /\ Becomes(Complete([WithResult(f) EXCEPT !.rt = Settle(@, rt.minted + 1, "rejected", v)], f))
    BY DEF CallThrow, Reject
  <1> QED BY <1>1, <1>2, CompleteKeeps

\* The record g of a frame that awaits x.
AwaitOf(g, st, x) == [g EXCEPT !.state = st, !.awaits = x, !.got = NoValue]

\* The body awaits: its call is counted, so that the lists of reactions have
\* room for one more.
LEMMA AwaitStepKeeps ==
    ASSUME Inv, NEW x \in Operand, NEW region \in Regions, NEW next \in {"bind", "return", "yield"},
           Await(x, region, next)
    PROVE  Inv'
  <1> DEFINE f == Head(stack).frame
             o == frame[f]
             st == Deliver(region, next)
             g == AwaitOf(o, st, x)
             s == [Machine EXCEPT !.frame[f].state = st, !.frame[f].awaits = x, !.frame[f].got = NoValue]
  <1>1. /\ stack # <<>> /\ Head(stack).kind = "body" /\ Head(stack).at = "run"
        /\ o.kind = "generator" => next = "yield" /\ region = "none"
        /\ calls < MaxCalls /\ calls' = calls + 1 /\ UNCHANGED resolvable
        /\ Becomes(AwaitValue(s, x))
    BY DEF Await, InBody, Alive, Count
  <1>2. InvBut(0, rt, frame, stack, resolvable, calls + 1)
    BY <1>1, CallKeeps DEF Inv
  <1>3. /\ Runs(rt, frame, stack, f, o, resolvable, calls + 1)
        /\ Machine = M(rt, Put(frame, f, o), stack)
        /\ o \in FrameRecord /\ o.mode = "next" /\ stack[1].at = "run"
    BY <1>1, <1>2, BodyNow, MachineIs
  <1>4. InFrames(frame, f)
    BY <1>3, RunsParts DEF InFrames
  <1>5. x \in Val /\ (x \in Ids => x <= rt.minted)
    BY OperandTyped
  <1>6. st \in StateRecord /\ st.does = "deliver" /\ st.region = region /\ st.next = next
    BY DEF Deliver, StateRecord, Regions
  <1> HIDE DEF f, o, st
  <1>7. s = M(rt, Put(frame, f, g), stack)
    <2> DEFINE g1 == [o EXCEPT !.state = st]
               g2 == [g1 EXCEPT !.awaits = x]
               g3 == [g2 EXCEPT !.got = NoValue]
               s1 == [Machine EXCEPT !.frame[f].state = st]
               s2 == [s1 EXCEPT !.frame[f].awaits = x]
               s3 == [s2 EXCEPT !.frame[f].got = NoValue]
    <2>1. s = s3
      OBVIOUS
    <2>2. s1 = SetFrame(Machine, f, [Machine.frame[f] EXCEPT !.state = st])
      BY Zenon DEF SetFrame
    <2>3. Machine.frame[f] = o
      BY <1>3, <1>4, SetFrameIs
    <2>4. s1 = M(rt, Put(frame, f, g1), stack)
      <3> HIDE DEF s1
      <3> QED BY <1>3, <1>4, <2>2, <2>3, SetFrameIs
    <2> HIDE DEF s, s1, g1
    <2>5. s2 = SetFrame(s1, f, [s1.frame[f] EXCEPT !.awaits = x])
      BY Zenon DEF SetFrame
    <2>6. s1.frame[f] = g1
      BY <1>4, <2>4, SetFrameIs
    <2>7. s2 = M(rt, Put(frame, f, g2), stack)
      <3> HIDE DEF s2
      <3> QED BY <1>4, <2>4, <2>5, <2>6, SetFrameIs
    <2> HIDE DEF s2, g2
    <2>8. s3 = SetFrame(s2, f, [s2.frame[f] EXCEPT !.got = NoValue])
      BY Zenon DEF SetFrame
    <2>9. s2.frame[f] = g2
      BY <1>4, <2>7, SetFrameIs
    <2>10. s3 = M(rt, Put(frame, f, g3), stack)
      <3> HIDE DEF s3
      <3> QED BY <1>4, <2>7, <2>8, <2>9, SetFrameIs
    <2>11. g3 = g
      BY DEF g1, g2, AwaitOf
    <2> HIDE DEF s3, g3, g
    <2> QED BY <2>1, <2>10, <2>11
  <1>8. /\ g \in FrameRecord /\ g.kind = o.kind /\ g.result = o.result /\ g.asked = o.asked
        /\ g.over = o.over /\ g.mode = o.mode /\ g.state = st /\ g.awaits = x /\ g.got = NoValue
    BY <1>3, <1>5, <1>6 DEF AwaitOf, FrameRecord
  <1> HIDE DEF s, g
  <1>9. Runs(rt, frame, stack, f, g, resolvable, calls + 1)
    BY <1>1, <1>3, <1>6, <1>8 DEF Runs, Variant, Delivered
  <1>10. \A p \in Ids : Len(Callbacks(rt, p)) < calls + 1
    <2>1. Counted(rt, resolvable, calls) /\ rt \in Runtime
      BY Typed DEF Inv, InvBut
    <2>2. calls \in Nat /\ \A p \in Ids : Len(Callbacks(rt, p)) \in Nat
      BY <2>1, MaxCallsAssumption, ListTyped DEF Counted
    <2> QED BY <2>1, <2>2 DEF Counted
  <1>11. Good(AwaitValue(M(rt, Put(frame, f, g), stack), x), resolvable, calls + 1)
    BY <1>3, <1>5, <1>6, <1>8, <1>9, <1>10, AwaitKeeps
  <1> QED BY <1>1, <1>7, <1>11 DEF Becomes, Good, Inv

\* The value that the program settles p with is no promise and no object.
LEMMA OwnIs ==
    ASSUME NEW p \in Ids
    PROVE  Own(p) \in Val /\ Own(p) \in Nat /\ Own(p) \notin Ids /\ Own(p) # Thenable /\ Own(p) # Poisoned
  <1>1. Own(p) \in Nat /\ Own(p) \notin Ids
    BY MaxCallsAssumption DEF Own, Ids
  <1> QED BY <1>1, FrameAssumption DEF Val

\* The promises that the program can settle are promises.
LEMMA ResolvableIds ==
    ASSUME Inv, NEW p \in resolvable
    PROVE  p \in Ids /\ p <= rt.minted
  <1>1. Counted(rt, resolvable, calls) /\ rt.minted \in Nat
    BY Typed DEF Inv, InvBut
  <1>2. /\ calls \in 0..MaxCalls /\ rt.minted <= MaxInputs + calls /\ p \in 1..rt.minted
        /\ MaxInputs \in Nat /\ MaxInputs <= MaxCalls /\ MaxCalls \in Nat
    BY <1>1, MaxCallsAssumption, FrameAssumption DEF Counted
  <1>3. p \in Nat /\ 1 <= p /\ p <= rt.minted /\ p <= 2 * MaxCalls
    BY <1>1, <1>2
  <1> QED BY <1>2, <1>3 DEF Ids

\* The program settles a promise of its own.
LEMMA ProgramSettles ==
    ASSUME Inv, NEW p \in Undecided, NEW st \in {"fulfilled", "rejected"}, Call,
           rt' = Settle(rt, p, st, Own(p)), UNCHANGED <<resolvable, frame, stack>>
    PROVE  Inv'
  <1> DEFINE v == Own(p)
             q == Settle(rt, p, st, v)
  <1>1. /\ InvBut(0, rt, frame, stack, resolvable, calls) /\ rt \in Runtime /\ rt.minted \in Nat
        /\ Counted(rt, resolvable, calls) /\ p \in resolvable /\ Pending(rt, p)
    BY Typed DEF Inv, InvBut, Undecided, Pending
  <1>2. p \in Ids /\ p <= rt.minted
    BY <1>1, ResolvableIds
  <1>3. v \in Val
    BY <1>2, OwnIs
  <1> HIDE DEF v
  <1>4. Settles(rt, q, p, st, v)
    BY <1>1, <1>2, <1>3, Settling
  <1> HIDE DEF q
  <1>5. \A f \in 1..Len(frame) : frame[f].asked => frame[f].result # p
    BY <1>1, Asked
  <1>6. InvBut(0, q, frame, stack, resolvable, calls)
    BY <1>1, <1>2, <1>3, <1>4, <1>5, SettlesKeeps
  <1>7. calls < MaxCalls /\ calls' = calls + 1
    BY DEF Call, Count
  <1>8. InvBut(0, q, frame, stack, resolvable, calls + 1)
    BY <1>6, <1>7, CallKeeps
  <1> QED BY <1>7, <1>8 DEF Inv, q, v

\* Its resolve and reject functions do so.
LEMMA CallSettleKeeps ==
    ASSUME Inv, NEW p \in Undecided, CallResolve(p) \/ CallReject(p)
    PROVE  Inv'
  <1>1. p \in Ids
    BY ResolvableIds DEF Undecided
  <1>2. CASE CallResolve(p)
    <2>1. ResolveValue(rt, p, Own(p)) = Settle(rt, p, "fulfilled", Own(p))
      BY <1>1, OwnIs DEF ResolveValue, Assimilate, Fulfill
    <2> QED BY <1>2, <2>1, ProgramSettles DEF CallResolve
  <1>3. CASE CallReject(p)
    BY <1>3, ProgramSettles DEF CallReject, Reject
  <1> QED BY <1>2, <1>3

\* Promise.reject allocates a promise that is rejected: as if it had been
\* allocated and then settled.
LEMMA PromiseRejectKeeps ==
    ASSUME Inv, PromiseReject
    PROVE  Inv'
  <1> DEFINE p == rt.minted + 1
             v == Own(p)
             rec == [NewPromise EXCEPT !.state = "rejected", !.value = v]
             q == Mint(rt, NewPromise)
             note == [promise |-> p, handled |-> FALSE]
             s == NoteUnhandled(Mint(rt, rec), p)
  <1>1. rt' = s /\ calls < MaxCalls /\ calls' = calls + 1 /\ UNCHANGED <<resolvable, frame, stack>>
    BY DEF PromiseReject, Call, Count
  <1>2. /\ InvBut(0, q, frame, stack, resolvable, calls + 1)
        /\ p \in Ids /\ p = q.minted /\ Pending(q, p) /\ q.promise = rt.promise /\ q.queue = rt.queue
        /\ \A f \in 1..Len(frame) : frame[f].asked => frame[f].result # p
    BY <1>1, MintKeeps DEF Inv
  <1>3. v \in Val
    BY <1>2, OwnIs
  <1>4. rt \in Runtime /\ rt.minted \in Nat /\ rt.promise[p] = NewPromise
    <2>1. rt \in Runtime /\ rt.minted \in Nat /\ Counted(rt, resolvable, calls)
      BY Typed DEF Inv, InvBut
    <2> QED BY <1>2, <2>1 DEF Counted
  <1>5. rec \in PromiseRecord /\ rec.state = "rejected" /\ rec.value = v /\ rec.callbacks = <<>>
    <2>1. rec = [state |-> "rejected", value |-> v, callbacks |-> <<>>]
      <3> HIDE DEF v
      <3> DEFINE half == [state |-> "rejected", value |-> NoValue, callbacks |-> <<>>]
      <3>1. [NewPromise EXCEPT !.state = "rejected"] = half
        BY DEF NewPromise
      <3>2. [half EXCEPT !.value = v] = [state |-> "rejected", value |-> v, callbacks |-> <<>>]
        OBVIOUS
      <3>3. rec = [[NewPromise EXCEPT !.state = "rejected"] EXCEPT !.value = v]
        OBVIOUS
      <3> QED BY <3>1, <3>2, <3>3, Zenon
    <2>2. <<>> \in Seq(Reaction)
      OBVIOUS
    <2> HIDE DEF rec, v
    <2> QED BY <1>3, <2>1, <2>2 DEF PromiseRecord
  <1> HIDE DEF v, rec, q
  <1>6. Settles(q, s, p, "rejected", v)
    <2>1. /\ rt.unhandled \in Seq([promise : Ids, handled : BOOLEAN]) /\ rt.queue \in Seq(JobRecord)
          /\ rt.promise \in [Ids -> PromiseRecord]
      BY <1>4 DEF Runtime
    <2>2. note \in [promise : Ids, handled : BOOLEAN]
      BY <1>2
    <2> DEFINE ps == [rt.promise EXCEPT ![p] = rec]
               us == <<note>> \o rt.unhandled
    <2>3. us \in Seq([promise : Ids, handled : BOOLEAN])
      <3> HIDE DEF note
      <3> QED BY <2>1, <2>2, ConsParts
    <2>4. ps \in [Ids -> PromiseRecord] /\ ps[p] = rec /\ \A r \in Ids \ {p} : ps[r] = rt.promise[r]
      BY <1>2, <1>5, <2>1
    <2>5. s.minted = p /\ s.promise = ps /\ s.queue = rt.queue /\ s \in Runtime
      <3>1. Mint(rt, rec) = [rt EXCEPT !.minted = p, !.promise = ps]
        BY <1>4 DEF Mint, Runtime
      <3> DEFINE m == Mint(rt, rec)
      <3>2. /\ m = [promise |-> ps, minted |-> p, queue |-> rt.queue, unhandled |-> rt.unhandled]
        BY <1>4, <3>1 DEF Runtime
      <3> HIDE DEF m, ps
      <3>3. s = [m EXCEPT !.unhandled = us]
        BY <3>2 DEF NoteUnhandled, m
      <3> HIDE DEF us, s
      <3>4. s = [promise |-> ps, minted |-> p, queue |-> rt.queue, unhandled |-> us]
        BY <3>2, <3>3
      <3> QED BY <1>2, <1>4, <2>1, <2>3, <2>4, <3>4 DEF Runtime
    <2>6. Callbacks(q, p) = <<>>
      BY <1>2, <1>4 DEF Callbacks, NewPromise
    <2> HIDE DEF s, ps
    <2>7. Len(s.queue) = Len(q.queue) + Len(Callbacks(q, p))
      <3>1. Len(rt.queue) \in Nat /\ Len(Callbacks(q, p)) = 0
        BY <2>1, <2>6
      <3>2. s.queue = q.queue /\ q.queue = rt.queue
        BY <1>2, <2>5
      <3> HIDE DEF p
      <3> QED BY <3>1, <3>2
    <2>8. \A i \in 1..Len(Callbacks(q, p)) : FALSE
      BY <2>6
    <2>9. s.minted = q.minted /\ s.queue = q.queue /\ s.promise[p] = rec
          /\ \A r \in Ids \ {p} : s.promise[r] = q.promise[r]
      BY <1>2, <2>4, <2>5
    <2> QED BY <1>5, <2>5, <2>7, <2>8, <2>9 DEF Settles
  <1> HIDE DEF s
  <1>7. p <= q.minted
    BY <1>2, <1>4
  <1>8. InvBut(0, s, frame, stack, resolvable, calls + 1)
    BY <1>2, <1>3, <1>6, <1>7, SettlesKeeps
  <1> QED BY <1>1, <1>8 DEF Inv

\* The initial states, with no frames and no reactions.
LEMMA InitInv == Init => Inv
  <1> SUFFICES ASSUME Init PROVE Inv
    OBVIOUS
  <1>1. PICK n \in 0..MaxInputs : rt = [NoPromises EXCEPT !.minted = n] /\ resolvable = 1..n
    BY DEF Init
  <1>2. calls = 0 /\ frame = <<>> /\ stack = <<Main>>
    BY DEF Init
  <1>3. /\ rt.promise = [p \in Ids |-> NewPromise] /\ rt.minted = n /\ rt.queue = <<>>
        /\ rt.unhandled = <<>>
        /\ rt = [promise |-> rt.promise, minted |-> rt.minted, queue |-> rt.queue, unhandled |-> rt.unhandled]
    BY <1>1 DEF NoPromises
  <1>4. n \in Nat /\ n <= MaxInputs
    BY FrameAssumption
  <1>5. rt \in Runtime
    <2>1. NewPromise \in PromiseRecord
      <3>1. <<>> \in Seq(Reaction) /\ NoValue \in Val
        BY DEF Val
      <3> QED BY <3>1 DEF NewPromise, PromiseRecord
    <2>2. rt.promise \in [Ids -> PromiseRecord]
      BY <1>3, <2>1
    <2>3. rt.queue \in Seq(JobRecord) /\ rt.unhandled \in Seq([promise : Ids, handled : BOOLEAN])
      BY <1>3
    <2> QED BY <1>3, <1>4, <2>2, <2>3 DEF Runtime
  <1>6. /\ Len(stack) = 1 /\ stack[1] = Main /\ stack \in Seq(ActivationRecord)
        /\ Main.kind = "main" /\ Main.frame = 0 /\ Main.at = "run"
    <2>1. Main \in ActivationRecord /\ Main.kind = "main" /\ Main.frame = 0 /\ Main.at = "run"
      BY DEF Main, Activation, NoFrame, ActivationRecord, Val
    <2> QED BY <1>2, <2>1
  <1>7. frame \in Seq(FrameRecord) /\ Len(frame) = 0
    BY <1>2
  <1>8. \A p \in Ids : rt.promise[p] = NewPromise /\ Callbacks(rt, p) = <<>> /\ Len(Callbacks(rt, p)) = 0
    BY <1>3 DEF Callbacks, NewPromise
  <1>9. Counted(rt, resolvable, calls)
    BY <1>1, <1>2, <1>3, <1>4, <1>8, MaxCallsAssumption, FrameAssumption DEF Counted
  <1>10. FramesOK(rt, frame, stack, resolvable)
    BY <1>7 DEF FramesOK
  <1>11. StackOK(rt, frame, stack)
    BY <1>6 DEF StackOK
  <1>12. ReactionsOK(rt, frame, stack)
    BY <1>8 DEF ReactionsOK
  <1>13. JobsOK(rt, frame, stack)
    <2>1. Len(rt.queue) = 0
      BY <1>3
    <2> QED BY <2>1 DEF JobsOK
  <1> QED BY <1>5, <1>6, <1>7, <1>9, <1>10, <1>11, <1>12, <1>13 DEF Inv, InvBut

\* No step of a program that calls no method of a generator that is running or
\* awaiting breaks the invariant.
LEMMA NextKeeps ==
    ASSUME ~Overlap, Inv, [Next]_vars
    PROVE  Inv'
  <1>1. CASE UNCHANGED vars
    BY <1>1 DEF Inv, vars
  <1>2. CASE ProgramCall
    <2>1. CASE \E p \in Undecided : CallResolve(p) \/ CallReject(p)
      BY <2>1, CallSettleKeeps
    <2>2. CASE PromiseReject
      BY <2>2, PromiseRejectKeeps
    <2>3. CASE \E always \in BOOLEAN : CallAsync(always)
      BY <2>3, CallAsyncKeeps
    <2>4. CASE CallGenerator
      BY <2>4, CallGeneratorKeeps
    <2>5. CASE \E f \in Frames : CallNext(f) \/ CallReturn(f)
      BY <2>5, CallNextKeeps, CallReturnKeeps
    <2>6. CASE \E f \in Frames, v \in Value : CallThrow(f, v)
      BY <2>6, CallThrowKeeps
    <2> QED BY <1>2, <2>1, <2>2, <2>3, <2>4, <2>5, <2>6 DEF ProgramCall
  <1>3. CASE AwaitStep
    BY <1>3, AwaitStepKeeps DEF AwaitStep
  <1>4. CASE ThrowStep
    BY <1>4, ThrowKeeps DEF ThrowStep
  <1>5. CASE EndStep
    <2>1. CASE \E x \in Operand : Return(x) \/ FinallyReturns(x)
      BY <2>1, ReturnKeeps, FinallyReturnsKeeps
    <2>2. CASE GenReturn
      BY <2>2, GenReturnKeeps
    <2>3. CASE Yield
      BY <2>3, YieldKeeps
    <2>4. CASE GenEnd
      BY <2>4, GenEndKeeps
    <2>5. CASE FinallyEnds
      BY <2>5, FinallyEndsKeeps
    <2>6. CASE \E v \in Value : FinallyThrows(v)
      BY <2>6, FinallyThrowsKeeps
    <2>7. CASE LetDrain
      BY <2>7, LetDrainKeeps
    <2>8. CASE MainRaised
      BY <2>8, MainRaisedKeeps
    <2>9. CASE DrainRaised
      BY <2>9, DrainRaisedKeeps
    <2>10. CASE DrainEnds
      BY <2>10, DrainEndsKeeps
    <2>11. CASE RunStep
      BY <2>11, RunStepKeeps
    <2> QED
      BY <1>5, <2>1, <2>2, <2>3, <2>4, <2>5, <2>6, <2>7, <2>8, <2>9, <2>10, <2>11 DEF EndStep
  <1> QED BY <1>1, <1>2, <1>3, <1>4, <1>5 DEF Next

\* Inv is an inductive invariant of the async frames of such a program.
THEOREM FramesInvariant ==
    ASSUME ~Overlap
    PROVE  Spec => []Inv
  <1>1. Init => Inv
    BY InitInv
  <1>2. Inv /\ [Next]_vars => Inv'
    BY NextKeeps
  <1> QED BY <1>1, <1>2, PTL DEF Spec
-----------------------------------------------------------------------------
(***************************************************************************)
(* What the invariant says of the properties.                              *)
(***************************************************************************)

\* A body has received the outcome of what it awaited.
LEMMA InvDelivers == Inv => AwaitDelivers
  <1> SUFFICES ASSUME Inv, NEW f \in Frames, frame[f].got # NoValue
               PROVE  frame[f].got = IF frame[f].awaits \in Ids THEN Outcome(frame[f].awaits)
                                     ELSE [state |-> "fulfilled", value |-> frame[f].awaits]
    BY DEF AwaitDelivers
  <1>1. f \in 1..Len(frame) /\ frame[f] \in FrameRecord
    BY Typed DEF Inv, Frames
  <1>2. Matches(rt, frame[f], frame[f].got.state, frame[f].got.value)
    BY <1>1 DEF Inv, InvBut, FramesOK, FrameOK, Delivered
  <1>3. frame[f].got \in Settlement
    BY <1>1 DEF FrameRecord
  <1>4. frame[f].got = [state |-> frame[f].got.state, value |-> frame[f].got.value]
    BY <1>3 DEF Settlement
  <1> QED BY <1>2, <1>4 DEF Matches, Outcome

\* A generator that is on the stack has not ended.
LEMMA InvCompleted == Inv => CompletedRunsNothing
  <1> SUFFICES ASSUME Inv, NEW f \in Frames, frame[f].over # "no", OnStack(f)
               PROVE  FALSE
    BY DEF CompletedRunsNothing
  <1>1. /\ StackOK(rt, frame, stack) /\ DOMAIN stack = 1..Len(stack) /\ f \in 1..Len(frame) /\ f # 0
    BY Typed DEF Inv, InvBut, Frames
  <1>2. PICK i \in 1..Len(stack) : stack[i].frame = f
    BY <1>1, SMTT(30) DEF OnStack
  <1>3. BodyOK(rt, frame, stack[i])
    BY <1>1, <1>2 DEF StackOK
  <1> QED BY <1>2, <1>3 DEF BodyOK

\* The reactions and jobs of f, as the invariant knows them.
LEMMA ReactionsAre ==
    ASSUME Inv, NEW f
    PROVE  /\ \A p \in Ids : \A i \in 1..Len(Callbacks(rt, p)) :
                 Callbacks(rt, p)[i].caps.frame = f => <<p, i>> \in Reactions(f)
           /\ \A at \in Reactions(f) :
                 /\ at[1] \in Ids /\ at[2] \in 1..Len(Callbacks(rt, at[1])) /\ at = <<at[1], at[2]>>
                 /\ Callbacks(rt, at[1])[at[2]].caps.frame = f
           /\ \A j : j \in StepJobs(f) <=> j \in 1..Len(rt.queue) /\ rt.queue[j].caps.frame = f
  <1>1. rt \in Runtime /\ Counted(rt, resolvable, calls)
    BY DEF Inv, InvBut
  <1>2. Step(f).frame = f
    BY DEF Step
  <1>3. ASSUME NEW p \in Ids, NEW i \in 1..Len(Callbacks(rt, p)), Callbacks(rt, p)[i].caps.frame = f
        PROVE  <<p, i>> \in Reactions(f)
    <2>1. /\ Len(Callbacks(rt, p)) \in Nat /\ Len(Callbacks(rt, p)) <= calls /\ calls \in 0..MaxCalls
      BY <1>1, ListTyped DEF Counted
    <2>2. i \in 1..MaxCalls
      BY <2>1, MaxCallsAssumption
    <2>3. i \in DOMAIN rt.promise[p].callbacks /\ rt.promise[p].callbacks[i].caps = Step(f)
      BY <1>1, <1>3, ListTyped DEF Callbacks
    <2> QED BY <2>2, <2>3 DEF Reactions
  <1>4. ASSUME NEW at \in Reactions(f)
        PROVE  /\ at[1] \in Ids /\ at[2] \in 1..Len(Callbacks(rt, at[1])) /\ at = <<at[1], at[2]>>
               /\ Callbacks(rt, at[1])[at[2]].caps.frame = f
    <2>1. /\ at \in Ids \X (1..MaxCalls)
          /\ at[2] \in DOMAIN Callbacks(rt, at[1]) /\ Callbacks(rt, at[1])[at[2]].caps = Step(f)
      BY DEF Reactions, Callbacks
    <2>2. at[1] \in Ids /\ at = <<at[1], at[2]>>
      BY <2>1
    <2>3. DOMAIN Callbacks(rt, at[1]) = 1..Len(Callbacks(rt, at[1]))
      BY <1>1, <2>2, ListTyped
    <2> QED BY <1>2, <2>1, <2>2, <2>3
  <1>5. ASSUME NEW j PROVE j \in StepJobs(f) <=> j \in 1..Len(rt.queue) /\ rt.queue[j].caps.frame = f
    <2>1. /\ DOMAIN rt.queue = 1..Len(rt.queue)
          /\ \A i \in 1..Len(rt.queue) : rt.queue[i].caps = Step(rt.queue[i].caps.frame)
      BY <1>1, QueueTyped
    <2> QED BY <1>2, <2>1 DEF StepJobs
  <1> QED BY <1>3, <1>4, <1>5

\* Nothing resumes a frame, or exactly one reaction or job does.
LEMMA ResumptionsAre ==
    ASSUME Inv, NEW f
    PROVE  Resumptions(f) = IF Resumed(rt, f) THEN 1 ELSE 0
  <1>1. ReactionsOK(rt, frame, stack) /\ JobsOK(rt, frame, stack)
    BY DEF Inv, InvBut
  <1>2. /\ Cardinality({}) = 0 /\ \A x : Cardinality({x}) = 1
    BY FS_EmptySet, FS_Singleton
  <1>3. CASE ~Resumed(rt, f)
    <2>1. Reactions(f) = {} /\ StepJobs(f) = {}
      BY <1>3, ReactionsAre DEF Resumed
    <2> QED BY <1>2, <1>3, <2>1 DEF Resumptions
  <1>4. ASSUME NEW p \in Ids, NEW i \in 1..Len(Callbacks(rt, p)), Callbacks(rt, p)[i].caps.frame = f
        PROVE  Resumptions(f) = 1
    <2>1. frame[f].awaits = p /\ Pending(rt, p)
      BY <1>1, <1>4 DEF ReactionsOK
    <2>2. ASSUME NEW at \in Reactions(f) PROVE at = <<p, i>>
      <3>1. /\ at[1] \in Ids /\ at[2] \in 1..Len(Callbacks(rt, at[1])) /\ at = <<at[1], at[2]>>
            /\ Callbacks(rt, at[1])[at[2]].caps.frame = f
        BY ReactionsAre
      <3>2. at[1] = p
        BY <1>1, <2>1, <3>1 DEF ReactionsOK
      <3>3. at[2] = i
        BY <1>1, <1>4, <3>1, <3>2 DEF ReactionsOK
      <3> QED BY <3>1, <3>2, <3>3
    <2>3. <<p, i>> \in Reactions(f)
      BY <1>4, ReactionsAre
    <2>4. Reactions(f) = {<<p, i>>}
      BY <2>2, <2>3
    <2>5. StepJobs(f) = {}
      <3> SUFFICES ASSUME NEW j \in StepJobs(f) PROVE FALSE
        OBVIOUS
      <3>1. j \in 1..Len(rt.queue) /\ rt.queue[j].caps.frame = f
        BY ReactionsAre
      <3>2. Matches(rt, frame[f], JobState(rt.queue[j]), rt.queue[j].arg)
        BY <1>1, <3>1 DEF JobsOK
      <3> QED BY <2>1, <3>2 DEF Matches
    <2>6. Cardinality(Reactions(f)) = 1 /\ Cardinality(StepJobs(f)) = 0
      BY <1>2, <2>4, <2>5, Zenon
    <2> QED BY <2>6 DEF Resumptions
  <1>5. ASSUME NEW j \in 1..Len(rt.queue), rt.queue[j].caps.frame = f
        PROVE  Resumptions(f) = 1
    <2>1. Matches(rt, frame[f], JobState(rt.queue[j]), rt.queue[j].arg)
      BY <1>1, <1>5 DEF JobsOK
    <2>2. Reactions(f) = {}
      <3> SUFFICES ASSUME NEW at \in Reactions(f) PROVE FALSE
        OBVIOUS
      <3>1. /\ at[1] \in Ids /\ at[2] \in 1..Len(Callbacks(rt, at[1]))
            /\ Callbacks(rt, at[1])[at[2]].caps.frame = f
        BY ReactionsAre
      <3>2. frame[f].awaits = at[1] /\ Pending(rt, at[1])
        BY <1>1, <3>1 DEF ReactionsOK
      <3> QED BY <2>1, <3>1, <3>2 DEF Matches
    <2>3. StepJobs(f) = {j}
      <3>1. j \in StepJobs(f)
        BY <1>5, ReactionsAre
      <3>2. ASSUME NEW k \in StepJobs(f) PROVE k = j
        <4>1. k \in 1..Len(rt.queue) /\ rt.queue[k].caps.frame = f
          BY ReactionsAre
        <4> QED BY <1>1, <1>5, <4>1 DEF JobsOK
      <3> QED BY <3>1, <3>2
    <2>4. Cardinality(Reactions(f)) = 0 /\ Cardinality(StepJobs(f)) = 1
      BY <1>2, <2>2, <2>3, Zenon
    <2> QED BY <2>4 DEF Resumptions
  <1> QED BY <1>3, <1>4, <1>5 DEF Resumed

\* A frame whose result is pending is on the stack or resumed exactly once.
LEMMA InvNeverStranded == Inv => NeverStranded
  <1> SUFFICES ASSUME Inv, NEW f \in Frames, frame[f].asked, frame[f].over # "escaped"
               PROVE  Resumptions(f) = IF Settled(frame[f].result) \/ OnStack(f) THEN 0 ELSE 1
    BY DEF NeverStranded
  <1>1. /\ f \in 1..Len(frame) /\ frame[f] \in FrameRecord /\ f # 0
        /\ DOMAIN stack = 1..Len(stack)
    BY Typed DEF Inv, Frames
  <1>2. OnStack(f) <=> On(stack, f)
    BY <1>1 DEF OnStack, On
  <1>3. Settled(frame[f].result) <=> ~Pending(rt, frame[f].result)
    BY DEF Settled, Pending
  <1>4. CASE Settled(frame[f].result) \/ OnStack(f)
    <2>1. ~Resumed(rt, f)
      <3>1. Resumed(rt, f) => Waits(rt, frame, stack, f)
        BY OnNotResumed DEF Inv
      <3> QED BY <1>2, <1>3, <1>4, <3>1 DEF Waits
    <2> QED BY <1>4, <2>1, ResumptionsAre
  <1>5. CASE ~(Settled(frame[f].result) \/ OnStack(f))
    <2>1. Answerable(rt, frame[f], f, stack)
      BY <1>1 DEF Inv, InvBut
    <2>2. frame[f].over \in {"no", "threw", "returned"}
      BY <1>1 DEF FrameRecord
    <2>3. Resumed(rt, f)
      BY <1>2, <1>3, <1>5, <2>1, <2>2 DEF Answerable
    <2> QED BY <1>5, <2>3, ResumptionsAre
  <1> QED BY <1>4, <1>5

\* Whatever the calls and however they interleave, the body of an async
\* function or generator receives for each await the outcome of what it
\* awaited (resumeSet and the step adapters of async-frame.ts).
THEOREM AwaitsDeliver ==
    ASSUME ~Overlap
    PROVE  Spec => []AwaitDelivers
  <1>1. Spec => []Inv
    BY FramesInvariant
  <1> QED BY <1>1, InvDelivers, PTL

\* A call of an async function or of next() whose promise is pending is in
\* progress: its frame is on the stack, or exactly one reaction or job will
\* resume it.
THEOREM NoneStranded ==
    ASSUME ~Overlap
    PROVE  Spec => []NeverStranded
  <1>1. Spec => []Inv
    BY FramesInvariant
  <1> QED BY <1>1, InvNeverStranded, PTL

\* No code of a generator runs after it has thrown, returned or been completed
\* by return() or throw().
THEOREM CompletedStays ==
    ASSUME ~Overlap
    PROVE  Spec => []CompletedRunsNothing
  <1>1. Spec => []Inv
    BY FramesInvariant
  <1> QED BY <1>1, InvCompleted, PTL
=============================================================================

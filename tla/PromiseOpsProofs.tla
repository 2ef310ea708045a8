--------------------------- MODULE PromiseOpsProofs ---------------------------
(***************************************************************************)
(* What the emitted promise functions preserve.  The first part states     *)
(* what holds of the runtime r and the history h whenever user code or the *)
(* drain loop runs, as the conjuncts of Sound:                             *)
(*   - TypedRuntime: promises are allocated in order, a settled promise    *)
(*     has no reactions;                                                   *)
(*   - Attached, Placed, CallbacksWait: a reaction that has not run is in  *)
(*     one place, with the outcome of its source once that is settled;     *)
(*   - Noted: the unhandled-rejection list, entry by entry;                *)
(*   - Unstarted: nothing has begun to settle the promises that must wait; *)
(*   - Restoring: the finallys whose callbacks have returned;              *)
(* and FirstDecides, about the promises that were resolved by one call.    *)
(* Every emitted function is then reduced to four steps on the runtime     *)
(* (a promise is settled, a reaction listed, a job queued, a promise       *)
(* allocated), each shown to keep every conjunct, and these are combined   *)
(* into one lemma per function.                                            *)
(***************************************************************************)
EXTENDS PromiseRuntime, SequenceTheorems, FiniteSetTheorems, TLAPS

\* What a promise can be settled with.
Plain == Value \cup {NoValue, Thrown, CycleError}

\* The functions a then, a catch or a finally runs for a rejection.
RejectFns == {"then_reject", "identity_reject", "finally_reject"}

\* The functions of the reactions.
ReactionFns == FulfillFns \cup RejectFns \cup {"restore_settle", "restore_reject"}

\* The states of a promise.
States == {"pending", "fulfilled", "rejected"}

\* What a reaction captures.
Captures == [chained : Ids, value : Plain, isReject : BOOLEAN]

\* A node of a promise's list of reactions.
Reaction == [onFulfilled : FulfillFns \cup {"restore_settle"},
             onRejected : RejectFns \cup {"restore_reject"}, caps : Captures]

\* A promise.
PromiseRecord == [state : States, value : Plain, callbacks : Seq(Reaction)]

\* A job of the microtask queue.
JobRecord == [fn : ReactionFns \cup {"thenable_job"}, caps : Captures, arg : Plain \cup {Thenable}]

\* An entry of the unhandled-rejection list.
NoteRecord == [promise : Ids, handled : BOOLEAN]

\* The state of the runtime.
Runtime == [promise : [Ids -> PromiseRecord], minted : 0..(2 * MaxCalls),
            queue : Seq(JobRecord), unhandled : Seq(NoteRecord)]

\* How a promise can be settled.
Outcomes == [state : {"fulfilled", "rejected"}, value : Plain]

\* What a program resolves or rejects a promise with.
Resolutions == Value \cup {Thenable, Poisoned} \cup Ids

\* What the first call of a promise's resolving functions said.
FirstRecord == [how : {"resolve", "reject"}, value : Resolutions]

\* The history.
History == [source    : [Ids -> Ids \cup {NoValue}],
            delivered : [Ids -> Outcomes \cup {NoValue}],
            first     : [Ids -> FirstRecord \cup {NoValue}],
            again     : SUBSET Ids,
            finallyReturned : [Ids -> Resolutions \cup {NoValue}],
            consumed  : SUBSET Ids]

\* p is not settled.
IsPending(r, p) == r.promise[p].state = "pending"

\* What p is settled with.
Result(r, p) == [state |-> r.promise[p].state, value |-> r.promise[p].value]

\* The reactions on the list of p.
Reactions(r, p) == r.promise[p].callbacks

\* The promises beyond the last one that was allocated are untouched, and
\* nothing refers to them; a settled promise has no reactions.
InOrder(r) ==
    /\ \A p \in Ids : p > r.minted => r.promise[p] = NewPromise
    /\ \A p \in Ids : \A i \in 1..Len(Reactions(r, p)) : Reactions(r, p)[i].caps.chained <= r.minted
    /\ \A i \in 1..Len(r.queue) : r.queue[i].caps.chained <= r.minted
    /\ \A i \in 1..Len(r.queue) : r.queue[i].fn # "thenable_job" => r.queue[i].arg \in Plain
    /\ \A p \in Ids : ~IsPending(r, p) => Reactions(r, p) = <<>>

\* The runtime is well formed.
TypedRuntime(r) == r \in Runtime /\ InOrder(r)

\* The reaction that c stands for has not run.
Waiting(h, c) == h.source[c] # NoValue /\ h.delivered[c] = NoValue

\* A reaction and its source are allocated, and a reaction that has run was
\* given what its source is settled with.
Attached(r, h) ==
    \A c \in Ids :
        /\ h.source[c] # NoValue => c <= r.minted /\ h.source[c] <= r.minted
        /\ h.delivered[c] # NoValue =>
              /\ h.source[c] # NoValue
              /\ ~IsPending(r, h.source[c])
              /\ h.delivered[c] = Result(r, h.source[c])

\* One node on the list of p stands for c, and it is a reaction to p.
OnList(r, p, c) ==
    \E i \in 1..Len(Reactions(r, p)) :
        /\ Reactions(r, p)[i].caps.chained = c
        /\ Reactions(r, p)[i].onFulfilled \in FulfillFns
        /\ Reactions(r, p)[i].onRejected \in RejectFns
        /\ \A j \in 1..Len(Reactions(r, p)) : Reactions(r, p)[j].caps.chained = c => j = i

\* No node on the list of p stands for c.
NotOnList(r, p, c) ==
    \A i \in 1..Len(Reactions(r, p)) : Reactions(r, p)[i].caps.chained # c

\* The function a reaction runs for an outcome.
Fits(fn, state) ==
    \/ state = "fulfilled" /\ fn \in FulfillFns
    \/ state = "rejected" /\ fn \in RejectFns

\* One job stands for c, and it is given the outcome of p.
InQueue(r, p, c) ==
    \E i \in 1..Len(r.queue) :
        /\ r.queue[i].caps.chained = c
        /\ Fits(r.queue[i].fn, r.promise[p].state)
        /\ r.queue[i].arg = r.promise[p].value
        /\ \A j \in 1..Len(r.queue) : r.queue[j].caps.chained = c => j = i

\* No job stands for c.
NotInQueue(r, c) == \A i \in 1..Len(r.queue) : r.queue[i].caps.chained # c

\* A reaction that has not run is in one place: on the list of its source as
\* long as that is pending, then in the queue, with the outcome of its source.
InPlace(r, p, c) ==
    /\ \A q \in Ids : q # p => NotOnList(r, q, c)
    /\ IsPending(r, p) => OnList(r, p, c) /\ NotInQueue(r, c)
    /\ ~IsPending(r, p) => InQueue(r, p, c)

\* Every reaction that has not run is in its place.
Placed(r, h) == \A c \in Ids : Waiting(h, c) => InPlace(r, h.source[c], c)

\* A then, catch or finally was attached to p.
Chains(h, p) == \E c \in Ids : h.source[c] = p

\* The list of unhandled rejections: at most one entry per promise, which is
\* rejected; for a promise that no other one follows, an open entry exactly as
\* long as nothing reacts to it.
Noted(r, h) ==
    /\ \A i \in 1..Len(r.unhandled) :
          r.unhandled[i].promise <= r.minted /\ r.promise[r.unhandled[i].promise].state = "rejected"
    /\ \A i, j \in 1..Len(r.unhandled) : r.unhandled[i].promise = r.unhandled[j].promise => i = j
    /\ \A p \in Ids \ h.consumed :
          /\ r.promise[p].state = "rejected" /\ ~Chains(h, p) =>
                \E i \in 1..Len(r.unhandled) : r.unhandled[i].promise = p /\ ~r.unhandled[i].handled
          /\ Chains(h, p) => \A i \in 1..Len(r.unhandled) :
                r.unhandled[i].promise = p => r.unhandled[i].handled
          /\ \A i \in 1..Len(Reactions(r, p)) : h.source[Reactions(r, p)[i].caps.chained] = p

\* No reaction or job will settle p, and nothing has.
Fresh(r, p) ==
    /\ IsPending(r, p)
    /\ \A q \in Ids : NotOnList(r, q, p)
    /\ NotInQueue(r, p)

\* The function calls a handler of the program.
CallsBack(fn) == fn \in {"then_fulfill", "then_reject", "finally_fulfill", "finally_reject"}

\* p was resolved by one call: what it was resolved with says how it is settled
\* and, if that is a promise w, only a reaction to w will settle it.
Decided(r, h, p) ==
    LET w == h.first[p].value
    IN  /\ w \in Value => Result(r, p) = [state |-> "fulfilled", value |-> w]
        /\ w = Poisoned => Result(r, p) = [state |-> "rejected", value |-> Thrown]
        /\ w \in Ids \ {p} =>
              /\ ~IsPending(r, p) => ~IsPending(r, w) /\ Result(r, p) = Result(r, w)
              /\ \A q \in Ids : \A i \in 1..Len(Reactions(r, q)) :
                    Reactions(r, q)[i].caps.chained = p =>
                        /\ q = w
                        /\ Reactions(r, q)[i].onFulfilled = "identity_fulfill"
                        /\ Reactions(r, q)[i].onRejected = "identity_reject"
              /\ \A i \in 1..Len(r.queue) : r.queue[i].caps.chained = p =>
                    /\ r.queue[i].fn = IF r.promise[w].state = "fulfilled" THEN "identity_fulfill"
                                       ELSE "identity_reject"
                    /\ ~IsPending(r, w)
                    /\ r.queue[i].arg = r.promise[w].value

\* The promises whose resolving functions were called once, to resolve.
FirstDecides(r, h) ==
    \A p \in Ids \ h.again :
        h.first[p] # NoValue /\ h.first[p].how = "resolve" => Decided(r, h, p)

\* m is the fresh promise that the finally of c waits for: it was resolved once,
\* with what the callback returned.  Only a thenable can resolve it again.
Restores(h, res, m, c) ==
    /\ h.finallyReturned[c] # NoValue
    /\ h.first[m] = [how |-> "resolve", value |-> h.finallyReturned[c]]
    /\ h.finallyReturned[c] # m
    /\ m \in h.again \cup res => h.finallyReturned[c] = Thenable

\* The captures of a restoring reaction hold the settlement of the source.
Remembers(r, h, caps) ==
    /\ caps.value = r.promise[h.source[caps.chained]].value
    /\ caps.isReject <=> r.promise[h.source[caps.chained]].state = "rejected"

\* The functions of a restoring reaction.
RestoreFns == {"restore_settle", "restore_reject"}

\* c, the promise of a finally whose callback has returned, is settled as it
\* should be.
Passed(r, h, c) ==
    LET result == h.finallyReturned[c]
    IN  /\ result \in Value => Result(r, c) = Result(r, h.source[c])
        /\ result = Poisoned => Result(r, c) = [state |-> "rejected", value |-> Thrown]
        /\ result \in Ids => /\ ~IsPending(r, result)
                             /\ Result(r, c) = IF r.promise[result].state = "fulfilled"
                                               THEN Result(r, h.source[c]) ELSE Result(r, result)
        /\ result = Thenable => \/ Result(r, c) = Result(r, h.source[c])
                                \/ r.promise[c].state = "rejected"

\* A reaction that restores the settlement a finally was called with, or
\* whose chained promise waits for that.
IsRestore(h, node) ==
    \/ node.onFulfilled = "restore_settle"
    \/ node.onRejected = "restore_reject"
    \/ h.finallyReturned[node.caps.chained] # NoValue

\* Every restoring reaction on a list is the right one for that list's promise.
RestoresListed(r, h, res) ==
    \A m \in Ids : \A i \in 1..Len(Reactions(r, m)) :
        IsRestore(h, Reactions(r, m)[i]) =>
            /\ Reactions(r, m)[i].onFulfilled = "restore_settle"
            /\ Reactions(r, m)[i].onRejected = "restore_reject"
            /\ Restores(h, res, m, Reactions(r, m)[i].caps.chained)
            /\ Remembers(r, h, Reactions(r, m)[i].caps)

\* The job restores a settlement, or is for a promise that waits for that.
IsRestoreJob(h, job) ==
    job.fn \in RestoreFns \/ h.finallyReturned[job.caps.chained] # NoValue

\* The job restores the right settlement, for the fresh promise m of its finally.
RestoreJob(r, h, res, job) ==
    /\ Remembers(r, h, job.caps)
    /\ \E m \in Ids :
          /\ Restores(h, res, m, job.caps.chained)
          /\ job.arg = r.promise[m].value
          /\ \/ job.fn = "restore_settle" /\ r.promise[m].state = "fulfilled"
             \/ job.fn = "restore_reject" /\ r.promise[m].state = "rejected"

\* Every restoring job is right.
RestoresQueued(r, h, res) ==
    \A i \in 1..Len(r.queue) :
        IsRestoreJob(h, r.queue[i]) => RestoreJob(r, h, res, r.queue[i])

\* A finally whose callback has returned is settled by a restoring job only.
Returned(r, h, res) ==
    \A c \in Ids : h.finallyReturned[c] # NoValue =>
        /\ h.delivered[c] # NoValue
        /\ c \notin res
        /\ h.first[c] = NoValue
        /\ ~IsPending(r, c) => Passed(r, h, c)

\* The finallys whose callbacks have returned.
Restoring(r, h, res) ==
    RestoresListed(r, h, res) /\ RestoresQueued(r, h, res) /\ Returned(r, h, res)

\* A reaction that will call the program back has not run.
CallbacksWait(r, h) ==
    /\ \A p \in Ids : \A i \in 1..Len(Reactions(r, p)) :
          CallsBack(Reactions(r, p)[i].onFulfilled) \/ CallsBack(Reactions(r, p)[i].onRejected)
             => Waiting(h, Reactions(r, p)[i].caps.chained)
    /\ \A i \in 1..Len(r.queue) :
          CallsBack(r.queue[i].fn) => Waiting(h, r.queue[i].caps.chained)

\* Nothing has tried to settle a promise whose reaction has not run, one that
\* is not allocated, or one whose resolving functions have not been called.
Unstarted(r, h, res) ==
    /\ \A c \in Ids : Waiting(h, c) =>
          h.first[c] = NoValue /\ IsPending(r, c) /\ c \notin res /\ h.finallyReturned[c] = NoValue
    /\ \A p \in Ids : p > r.minted =>
          h.first[p] = NoValue /\ p \notin h.again /\ h.finallyReturned[p] = NoValue
    /\ \A p \in res : p \in 1..r.minted /\ (h.first[p] = NoValue => Fresh(r, p))
    /\ \A i \in 1..Len(r.queue) : r.queue[i].fn = "thenable_job" =>
          LET p == r.queue[i].caps.chained
          IN  h.first[p] # NoValue /\ (p \notin h.again => h.first[p].value = Thenable)
-----------------------------------------------------------------------------
(***************************************************************************)
(* Sequences.                                                              *)
(***************************************************************************)

\* An element is put in front.
LEMMA Prepended ==
    ASSUME NEW S, NEW s \in Seq(S), NEW x \in S
    PROVE  LET t == <<x>> \o s
           IN  /\ t \in Seq(S)
               /\ Len(t) = Len(s) + 1
               /\ t[1] = x
               /\ \A k \in 1..Len(s) : t[k + 1] = s[k]
               /\ \A k \in 1..Len(t) : k = 1 \/ (k - 1 \in 1..Len(s) /\ t[k] = s[k - 1])
  OBVIOUS

\* The first element is removed.
LEMMA Popped ==
    ASSUME NEW S, NEW s \in Seq(S), s # <<>>
    PROVE  LET t == Tail(s)
           IN  /\ t \in Seq(S)
               /\ Len(s) \in Nat /\ Len(s) > 0
               /\ Len(t) = Len(s) - 1
               /\ Head(s) = s[1] /\ Head(s) \in S
               /\ \A k \in 1..Len(t) : k + 1 \in 1..Len(s) /\ t[k] = s[k + 1]
  <1>1. Len(s) \in Nat /\ Len(s) > 0
    BY EmptySeq
  <1>2. /\ Tail(s) \in Seq(S)
        /\ Len(Tail(s)) = Len(s) - 1
        /\ \A i \in 1..Len(Tail(s)) : Tail(s)[i] = s[i + 1]
        /\ Head(s) \in S
    BY HeadTailProperties
  <1>3. Head(s) = s[1]
    BY <1>1
  <1> QED
    BY <1>1, <1>2, <1>3

\* A table is a sequence.
LEMMA Tabled ==
    ASSUME NEW S, NEW n \in Nat, NEW f \in [1..n -> S]
    PROVE  f \in Seq(S) /\ Len(f) = n
  OBVIOUS
-----------------------------------------------------------------------------
(***************************************************************************)
(* What the emitted functions do, as relations between the runtime before  *)
(* and after.                                                              *)
(***************************************************************************)

\* p is settled, and its reactions become jobs.
Settles(r, s, p, state, v) ==
    /\ s \in Runtime
    /\ s.minted = r.minted
    /\ \A q \in Ids \ {p} : s.promise[q] = r.promise[q]
    /\ s.promise[p].state = state
    /\ s.promise[p].value = v
    /\ s.promise[p].callbacks = <<>>
    /\ Len(s.queue) = Len(r.queue) + Len(Reactions(r, p))
    /\ \A i \in 1..Len(r.queue) : s.queue[i] = r.queue[i]
    /\ \A i \in 1..Len(Reactions(r, p)) :
          LET node == Reactions(r, p)[i]
              job == s.queue[Len(r.queue) + i]
          IN  /\ job.fn = IF state = "fulfilled" THEN node.onFulfilled ELSE node.onRejected
              /\ job.caps = node.caps
              /\ job.arg = v
    /\ s.unhandled = IF state = "rejected" /\ Reactions(r, p) = <<>>
                     THEN <<[promise |-> p, handled |-> FALSE]>> \o r.unhandled
                     ELSE r.unhandled

\* A reaction becomes the first one of p.
Lists(r, s, p, node) ==
    /\ s \in Runtime
    /\ s.minted = r.minted
    /\ \A q \in Ids \ {p} : s.promise[q] = r.promise[q]
    /\ s.promise[p].state = r.promise[p].state
    /\ s.promise[p].value = r.promise[p].value
    /\ Len(Reactions(s, p)) = Len(Reactions(r, p)) + 1
    /\ Reactions(s, p)[1] = node
    /\ \A i \in 1..Len(Reactions(r, p)) : Reactions(s, p)[i + 1] = Reactions(r, p)[i]
    /\ s.queue = r.queue
    /\ s.unhandled = r.unhandled

\* A job is queued.
Queues(r, s, job) ==
    /\ s \in Runtime
    /\ s.minted = r.minted
    /\ s.promise = r.promise
    /\ Len(s.queue) = Len(r.queue) + 1
    /\ \A i \in 1..Len(r.queue) : s.queue[i] = r.queue[i]
    /\ s.queue[Len(r.queue) + 1] = job
    /\ s.unhandled = r.unhandled

\* A promise is allocated.
Mints(r, s, record) ==
    /\ s \in Runtime
    /\ s.minted = r.minted + 1
    /\ \A q \in Ids \ {s.minted} : s.promise[q] = r.promise[q]
    /\ s.promise[s.minted] = record
    /\ s.queue = r.queue
    /\ s.unhandled = r.unhandled

\* The elements of the lists and of the queue are what they should be.
LEMMA ListTyped ==
    ASSUME NEW r \in Runtime, NEW p \in Ids, NEW i \in 1..Len(Reactions(r, p))
    PROVE  /\ Reactions(r, p)[i].onFulfilled \in FulfillFns \cup {"restore_settle"}
           /\ Reactions(r, p)[i].onRejected \in RejectFns \cup {"restore_reject"}
           /\ Reactions(r, p)[i].caps \in Captures
           /\ Reactions(r, p)[i].caps.chained \in Ids
  <1>1. r.promise[p] \in PromiseRecord
    BY DEF Runtime
  <1>2. Reactions(r, p) \in Seq(Reaction)
    BY <1>1 DEF PromiseRecord, Reactions
  <1>3. Reactions(r, p)[i] \in Reaction
    BY <1>2
  <1> QED
    BY <1>3 DEF Reaction, Captures

\* Settle on a pending promise.
LEMMA Settling ==
    ASSUME NEW r \in Runtime, NEW p \in Ids, NEW state \in {"fulfilled", "rejected"}, NEW v \in Plain,
           IsPending(r, p)
    PROVE  Settles(r, Settle(r, p, state, v), p, state, v)
  <1> DEFINE cbs == r.promise[p].callbacks
             jobs == ReactionJobs(cbs, state, v)
             rec == [state |-> state, value |-> v, callbacks |-> <<>>]
             note == [promise |-> p, handled |-> FALSE]
             s == [r EXCEPT !.promise[p] = rec, !.queue = @ \o jobs]
  <1>1. cbs \in Seq(Reaction) /\ r.promise \in [Ids -> PromiseRecord] /\ r.queue \in Seq(JobRecord)
        /\ r.unhandled \in Seq(NoteRecord) /\ Len(cbs) \in Nat
    BY DEF Runtime, PromiseRecord
  <1>2. \A i \in 1..Len(cbs) : cbs[i] \in Reaction
    BY <1>1
  <1>3. jobs = [i \in 1..Len(cbs) |->
                 [fn |-> IF state = "fulfilled" THEN cbs[i].onFulfilled ELSE cbs[i].onRejected,
                  caps |-> cbs[i].caps, arg |-> v]]
    BY SMTT(30) DEF ReactionJobs
  <1> HIDE DEF jobs
  <1>4. \A i \in 1..Len(cbs) : jobs[i] \in JobRecord
    BY <1>2, <1>3 DEF Reaction, JobRecord, ReactionFns
  <1>5. jobs \in Seq(JobRecord) /\ Len(jobs) = Len(cbs)
    <2>1. jobs \in [1..Len(cbs) -> JobRecord]
      BY <1>3, <1>4
    <2> QED
      BY <1>1, <2>1, Tabled, ZenonT(40)
  <1>6. rec \in PromiseRecord
    BY DEF PromiseRecord, States
  <1>7. note \in NoteRecord
    BY DEF NoteRecord
  <1> HIDE DEF note, rec, cbs
  <1>8. /\ r.queue \o jobs \in Seq(JobRecord)
        /\ Len(r.queue \o jobs) = Len(r.queue) + Len(cbs)
        /\ \A i \in 1..Len(r.queue) : (r.queue \o jobs)[i] = r.queue[i]
        /\ \A i \in 1..Len(cbs) : (r.queue \o jobs)[Len(r.queue) + i] = jobs[i]
    <2> DEFINE old == r.queue
    <2>1. old \in Seq(JobRecord)
      BY <1>1
    <2> HIDE DEF old
    <2>2. jobs \in Seq(JobRecord)
      BY <1>5
    <2>3. /\ old \o jobs \in Seq(JobRecord)
          /\ Len(old \o jobs) = Len(old) + Len(jobs)
          /\ \A i \in 1..Len(old) : (old \o jobs)[i] = old[i]
          /\ \A i \in 1..Len(jobs) : (old \o jobs)[Len(old) + i] = jobs[i]
      BY <2>1, <2>2
    <2> QED
      BY <1>5, <2>3 DEF old
  <1>9. <<note>> \o r.unhandled \in Seq(NoteRecord)
    BY <1>1, <1>7, Prepended
  <1>10. /\ s \in Runtime
         /\ s.minted = r.minted
         /\ s.promise = [r.promise EXCEPT ![p] = rec]
         /\ s.queue = r.queue \o jobs
         /\ s.unhandled = r.unhandled
    BY <1>1, <1>6, <1>8 DEF Runtime
  <1> HIDE DEF s
  <1>11. Settle(r, p, state, v) = IF state = "rejected" /\ cbs = <<>>
                                  THEN [s EXCEPT !.unhandled = <<note>> \o @] ELSE s
    BY DEF Settle, IsPending, NoteUnhandled, s, jobs, rec, cbs, note
  <1> DEFINE t == Settle(r, p, state, v)
  <1>12. /\ t \in Runtime
         /\ t.minted = r.minted
         /\ t.promise = [r.promise EXCEPT ![p] = rec]
         /\ t.queue = r.queue \o jobs
         /\ t.unhandled = IF state = "rejected" /\ cbs = <<>> THEN <<note>> \o r.unhandled
                          ELSE r.unhandled
    BY <1>9, <1>10, <1>11, ZenonT(40) DEF Runtime
  <1> HIDE DEF t
  <1>13. \A i \in 1..Len(cbs) :
            /\ jobs[i].fn = IF state = "fulfilled" THEN cbs[i].onFulfilled ELSE cbs[i].onRejected
            /\ jobs[i].caps = cbs[i].caps
            /\ jobs[i].arg = v
    BY <1>3
  <1>14. t.promise[p] = rec /\ \A q \in Ids \ {p} : t.promise[q] = r.promise[q]
    BY <1>1, <1>12
  <1>15. rec.state = state /\ rec.value = v /\ rec.callbacks = <<>>
    BY DEF rec
  <1>16. t.unhandled = IF state = "rejected" /\ Reactions(r, p) = <<>>
                       THEN <<[promise |-> p, handled |-> FALSE]>> \o r.unhandled
                       ELSE r.unhandled
    BY <1>12 DEF Reactions, cbs, note
  <1>17. Reactions(r, p) = cbs
    BY DEF Reactions, cbs
  <1>18. Settles(r, t, p, state, v)
    BY <1>8, <1>12, <1>13, <1>14, <1>15, <1>16, <1>17 DEF Settles
  <1> QED
    BY <1>18 DEF t

\* React on a pending promise.
LEMMA Listing ==
    ASSUME NEW r \in Runtime, NEW p \in Ids, NEW f \in FulfillFns \cup {"restore_settle"},
           NEW g \in RejectFns \cup {"restore_reject"}, NEW caps \in Captures, IsPending(r, p)
    PROVE  Lists(r, React(r, p, f, g, caps), p,
                 [onFulfilled |-> f, onRejected |-> g, caps |-> caps])
  <1> DEFINE cbs == r.promise[p].callbacks
             node == [onFulfilled |-> f, onRejected |-> g, caps |-> caps]
             t == React(r, p, f, g, caps)
  <1>1. cbs \in Seq(Reaction) /\ r.promise \in [Ids -> PromiseRecord] /\ r.promise[p] \in PromiseRecord
    BY DEF Runtime, PromiseRecord
  <1>2. node \in Reaction
    BY DEF Reaction
  <1>3. /\ <<node>> \o cbs \in Seq(Reaction)
        /\ Len(<<node>> \o cbs) = Len(cbs) + 1
        /\ (<<node>> \o cbs)[1] = node
        /\ \A i \in 1..Len(cbs) : (<<node>> \o cbs)[i + 1] = cbs[i]
    BY <1>1, <1>2, Prepended
  <1> DEFINE new == <<node>> \o cbs
  <1>4. t = [r EXCEPT !.promise[p].callbacks = new]
    BY DEF React, IsPending
  <1> HIDE DEF new, node, cbs, t
  <1> DEFINE rec == [r.promise[p] EXCEPT !.callbacks = new]
  <1>5. /\ rec \in PromiseRecord
        /\ rec.callbacks = new
        /\ rec.state = r.promise[p].state
        /\ rec.value = r.promise[p].value
    BY <1>1, <1>3 DEF PromiseRecord, new
  <1>6. t = [r EXCEPT !.promise = [r.promise EXCEPT ![p] = rec]]
    BY <1>1, <1>4 DEF Runtime
  <1> HIDE DEF rec
  <1>7. /\ t \in Runtime
        /\ t.minted = r.minted
        /\ t.promise = [r.promise EXCEPT ![p] = rec]
        /\ t.queue = r.queue
        /\ t.unhandled = r.unhandled
    BY <1>1, <1>5, <1>6 DEF Runtime
  <1>8. t.promise[p] = rec /\ \A q \in Ids \ {p} : t.promise[q] = r.promise[q]
    BY <1>1, <1>7
  <1> QED
    BY <1>3, <1>5, <1>7, <1>8 DEF Lists, Reactions, node, new, cbs, t

\* Enqueue.
LEMMA Queueing ==
    ASSUME NEW r \in Runtime, NEW f \in ReactionFns \cup {"thenable_job"}, NEW caps \in Captures,
           NEW v \in Plain \cup {Thenable}
    PROVE  Queues(r, Enqueue(r, f, caps, v), [fn |-> f, caps |-> caps, arg |-> v])
  <1> DEFINE job == [fn |-> f, caps |-> caps, arg |-> v]
             t == Enqueue(r, f, caps, v)
  <1>1. job \in JobRecord
    BY DEF JobRecord
  <1>2. r.queue \in Seq(JobRecord)
    BY DEF Runtime
  <1>3. t = [r EXCEPT !.queue = Append(r.queue, job)]
    BY DEF Enqueue
  <1> HIDE DEF job, t
  <1>4. /\ Append(r.queue, job) \in Seq(JobRecord)
        /\ Len(Append(r.queue, job)) = Len(r.queue) + 1
        /\ \A i \in 1..Len(r.queue) : Append(r.queue, job)[i] = r.queue[i]
        /\ Append(r.queue, job)[Len(r.queue) + 1] = job
    BY <1>1, <1>2
  <1>5. /\ t \in Runtime
        /\ t.minted = r.minted
        /\ t.promise = r.promise
        /\ t.queue = Append(r.queue, job)
        /\ t.unhandled = r.unhandled
    BY <1>3, <1>4 DEF Runtime
  <1> QED
    BY <1>4, <1>5 DEF Queues, job, t

\* Mint.
LEMMA Minting ==
    ASSUME NEW r \in Runtime, r.minted < 2 * MaxCalls, NEW record \in PromiseRecord
    PROVE  Mints(r, Mint(r, record), record) /\ r.minted + 1 \in Ids
  <1> DEFINE n == r.minted + 1
             t == Mint(r, record)
  <1>1. MaxCalls \in Nat /\ r.minted \in 0..(2 * MaxCalls)
    BY MaxCallsAssumption DEF Runtime
  <1>2. n \in Ids /\ n \in 0..(2 * MaxCalls)
    BY <1>1 DEF Ids
  <1>3. t = [r EXCEPT !.minted = n, !.promise = [r.promise EXCEPT ![n] = record]]
    BY DEF Mint, Runtime
  <1> HIDE DEF n, t
  <1>4. [r.promise EXCEPT ![n] = record] \in [Ids -> PromiseRecord]
    BY <1>2 DEF Runtime
  <1>5. /\ t \in Runtime
        /\ t.minted = n
        /\ t.promise = [r.promise EXCEPT ![n] = record]
        /\ t.queue = r.queue
        /\ t.unhandled = r.unhandled
    BY <1>2, <1>3, <1>4 DEF Runtime
  <1> QED
    BY <1>2, <1>5 DEF Mints, Runtime, n, t
-----------------------------------------------------------------------------
(***************************************************************************)
(* What stays as long as settled promises stay as they are.                *)
(***************************************************************************)

\* A settled promise stays as it is.
Kept(r, s) ==
    /\ r.minted <= s.minted
    /\ \A q \in Ids : ~IsPending(r, q) => s.promise[q].state = r.promise[q].state
                                          /\ s.promise[q].value = r.promise[q].value

\* Settling a pending promise keeps the settled ones.
LEMMA SettlesKept ==
    ASSUME NEW r \in Runtime, NEW s, NEW p \in Ids, NEW state, NEW v, IsPending(r, p),
           Settles(r, s, p, state, v)
    PROVE  Kept(r, s)
  BY DEF Kept, Settles, IsPending, Runtime

\* So does listing a reaction ...
LEMMA ListsKept ==
    ASSUME NEW r \in Runtime, NEW s, NEW p \in Ids, NEW node, Lists(r, s, p, node)
    PROVE  Kept(r, s)
  <1>1. r.minted <= s.minted
    BY DEF Lists, Runtime
  <1>2. \A q \in Ids : s.promise[q].state = r.promise[q].state /\ s.promise[q].value = r.promise[q].value
    BY DEF Lists
  <1> QED
    BY <1>1, <1>2 DEF Kept

\* ... queueing a job ...
LEMMA QueuesKept ==
    ASSUME NEW r \in Runtime, NEW s, NEW job, Queues(r, s, job)
    PROVE  Kept(r, s)
  BY DEF Kept, Queues, IsPending, Runtime

\* ... and allocating a promise.
LEMMA MintsKept ==
    ASSUME NEW r, NEW s, TypedRuntime(r), NEW record, Mints(r, s, record)
    PROVE  Kept(r, s)
  <1>1. r \in Runtime /\ r.minted \in Nat /\ s.minted = r.minted + 1
    BY DEF TypedRuntime, Runtime, Mints
  <1>2. \A q \in Ids : ~IsPending(r, q) => q # s.minted
    BY <1>1 DEF TypedRuntime, InOrder, IsPending, NewPromise, Ids
  <1> QED
    BY <1>1, <1>2 DEF Kept, Mints

\* What reactions were given stays the outcome of their sources.
LEMMA KeptAttached ==
    ASSUME NEW r \in Runtime, NEW s \in Runtime, NEW h \in History, Kept(r, s), Attached(r, h)
    PROVE  Attached(s, h)
  <1>1. \A c \in Ids : h.source[c] # NoValue => h.source[c] \in Ids /\ h.source[c] \in Int
    <2>1. \A c \in Ids : h.source[c] # NoValue => h.source[c] \in Ids
      BY DEF History
    <2> QED
      BY <2>1 DEF Ids
  <1>2. r.minted \in Int /\ s.minted \in Int /\ r.minted <= s.minted /\ \A c \in Ids : c \in Int
    BY DEF Runtime, Kept, Ids
  <1> SUFFICES ASSUME NEW c \in Ids
               PROVE  /\ h.source[c] # NoValue => c <= s.minted /\ h.source[c] <= s.minted
                      /\ h.delivered[c] # NoValue =>
                            /\ h.source[c] # NoValue
                            /\ ~IsPending(s, h.source[c])
                            /\ h.delivered[c] = Result(s, h.source[c])
    BY DEF Attached
  <1>3. /\ h.source[c] # NoValue => c <= r.minted /\ h.source[c] <= r.minted
        /\ h.delivered[c] # NoValue =>
              /\ h.source[c] # NoValue
              /\ ~IsPending(r, h.source[c])
              /\ h.delivered[c] = Result(r, h.source[c])
    BY DEF Attached
  <1>4. h.source[c] # NoValue => c <= s.minted /\ h.source[c] <= s.minted
    BY <1>1, <1>2, <1>3
  <1>5. ASSUME h.delivered[c] # NoValue
        PROVE  ~IsPending(s, h.source[c]) /\ h.delivered[c] = Result(s, h.source[c])
    BY <1>1, <1>3, <1>5 DEF Kept, IsPending, Result
  <1> QED
    BY <1>3, <1>4, <1>5

\* Captured settlements stay right.
LEMMA KeptRemembers ==
    ASSUME NEW r, NEW s, NEW h \in History, Kept(r, s), Attached(r, h),
           NEW caps \in Captures, h.delivered[caps.chained] # NoValue, Remembers(r, h, caps)
    PROVE  Remembers(s, h, caps)
  <1> DEFINE q == h.source[caps.chained]
  <1>1. caps.chained \in Ids
    BY DEF Captures
  <1>2. q \in Ids /\ ~IsPending(r, q)
    BY <1>1 DEF Attached, History
  <1>3. s.promise[q].state = r.promise[q].state /\ s.promise[q].value = r.promise[q].value
    BY <1>2 DEF Kept
  <1> QED
    BY <1>3 DEF Remembers

\* A restoring job stays right.
LEMMA KeptRestoreJob ==
    ASSUME NEW r, NEW s, NEW h \in History, NEW res, Kept(r, s), Attached(r, h), Returned(r, h, res),
           NEW job \in JobRecord, RestoreJob(r, h, res, job)
    PROVE  RestoreJob(s, h, res, job)
  <1>1. job.caps \in Captures /\ job.caps.chained \in Ids
    BY DEF JobRecord, Captures
  <1> PICK m \in Ids :
          /\ Restores(h, res, m, job.caps.chained)
          /\ job.arg = r.promise[m].value
          /\ \/ job.fn = "restore_settle" /\ r.promise[m].state = "fulfilled"
             \/ job.fn = "restore_reject" /\ r.promise[m].state = "rejected"
    BY DEF RestoreJob
  <1>2. h.delivered[job.caps.chained] # NoValue
    BY <1>1 DEF Restores, Returned
  <1>3. Remembers(s, h, job.caps)
    BY <1>1, <1>2, KeptRemembers DEF RestoreJob
  <1>4. s.promise[m].state = r.promise[m].state /\ s.promise[m].value = r.promise[m].value
    BY DEF Kept, IsPending
  <1> QED
    BY <1>3, <1>4 DEF RestoreJob

\* A finally's promise stays settled as it should be.
LEMMA KeptPassed ==
    ASSUME NEW r, NEW s, NEW h \in History, Kept(r, s), Attached(r, h), NEW c \in Ids,
           h.delivered[c] # NoValue, ~IsPending(r, c), Passed(r, h, c)
    PROVE  Passed(s, h, c)
  <1> DEFINE q == h.source[c]
             w == h.finallyReturned[c]
  <1>1. q \in Ids /\ ~IsPending(r, q)
    BY DEF Attached, History
  <1>2. Result(s, q) = Result(r, q) /\ Result(s, c) = Result(r, c)
        /\ s.promise[c].state = r.promise[c].state
    BY <1>1 DEF Kept, Result
  <1>3. w \in Ids => ~IsPending(r, w)
    BY DEF Passed
  <1>4. w \in Ids => /\ Result(s, w) = Result(r, w)
                     /\ s.promise[w].state = r.promise[w].state
                     /\ ~IsPending(s, w)
    BY <1>3 DEF Kept, Result, IsPending
  <1> QED
    BY <1>2, <1>3, <1>4 DEF Passed
-----------------------------------------------------------------------------
(***************************************************************************)
(* A promise is settled.                                                   *)
(***************************************************************************)
\* A job of the queue was there, or is a reaction that was on the list.
LEMMA SettlesJobs ==
    ASSUME NEW r \in Runtime, NEW s, NEW p \in Ids, NEW state, NEW v, Settles(r, s, p, state, v)
    PROVE  /\ \A i \in 1..Len(r.queue) : i \in 1..Len(s.queue) /\ s.queue[i] = r.queue[i]
           /\ \A j \in 1..Len(Reactions(r, p)) :
                 LET job == s.queue[Len(r.queue) + j]
                     node == Reactions(r, p)[j]
                 IN  /\ Len(r.queue) + j \in 1..Len(s.queue)
                     /\ Len(r.queue) + j \notin 1..Len(r.queue)
                     /\ job.caps = node.caps
                     /\ job.arg = v
                     /\ job.fn = IF state = "fulfilled" THEN node.onFulfilled ELSE node.onRejected
           /\ \A i \in 1..Len(s.queue) :
                 i \in 1..Len(r.queue) \/ \E j \in 1..Len(Reactions(r, p)) : i = Len(r.queue) + j
  <1> DEFINE n == Len(r.queue)
             k == Len(Reactions(r, p))
  <1>1. n \in Nat /\ k \in Nat
    BY DEF Runtime, PromiseRecord, Reactions
  <1>2. ASSUME NEW i \in 1..Len(s.queue), i \notin 1..n
        PROVE  \E j \in 1..k : i = n + j
    <2>1. i - n \in 1..k /\ i = n + (i - n)
      BY <1>1, <1>2 DEF Settles
    <2> QED
      BY <2>1
  <1>3. \A i \in 1..n : i \in 1..Len(s.queue) /\ s.queue[i] = r.queue[i]
    BY <1>1 DEF Settles
  <1>4. \A j \in 1..k : n + j \in 1..Len(s.queue) /\ n + j \notin 1..n
    BY <1>1 DEF Settles
  <1> QED
    BY <1>2, <1>3, <1>4 DEF Settles

\* The same, for one job.
LEMMA SettlesSplit ==
    ASSUME NEW r \in Runtime, NEW s, NEW p \in Ids, NEW state, NEW v, Settles(r, s, p, state, v),
           NEW i \in 1..Len(s.queue)
    PROVE  i \in 1..Len(r.queue) \/ \E j \in 1..Len(Reactions(r, p)) : i = Len(r.queue) + j
  BY SettlesJobs

\* The other lists stay, and that of p is empty.
LEMMA SettlesLists ==
    ASSUME NEW r, NEW s, NEW p \in Ids, NEW state, NEW v, Settles(r, s, p, state, v), NEW q \in Ids
    PROVE  Reactions(s, q) = IF q = p THEN <<>> ELSE Reactions(r, q)
  BY DEF Settles, Reactions

\* Settling keeps the runtime well formed.
LEMMA SettlesInOrder ==
    ASSUME NEW r, NEW s, TypedRuntime(r), NEW p \in Ids, p <= r.minted,
           NEW state \in {"fulfilled", "rejected"}, NEW v \in Plain,
           Settles(r, s, p, state, v)
    PROVE  TypedRuntime(s)
  <1> DEFINE n == Len(r.queue)
             k == Len(Reactions(r, p))
  <1>1. r \in Runtime /\ s \in Runtime /\ InOrder(r) /\ s.minted = r.minted
    BY DEF TypedRuntime, Settles
  <1>2. \A q \in Ids : q > s.minted => q # p
    BY <1>1 DEF Ids, Runtime
  <1>3. \A q \in Ids : q > s.minted => s.promise[q] = NewPromise
    BY <1>1, <1>2 DEF Settles, InOrder
  <1>4. \A q \in Ids : \A i \in 1..Len(Reactions(s, q)) : Reactions(s, q)[i].caps.chained <= s.minted
    BY <1>1, SMTT(30) DEF Settles, InOrder, Reactions
  <1>5. \A q \in Ids : ~IsPending(s, q) => Reactions(s, q) = <<>>
    BY <1>1 DEF Settles, InOrder, Reactions, IsPending
  <1>6. ASSUME NEW i \in 1..Len(s.queue)
        PROVE  /\ s.queue[i].caps.chained <= s.minted
               /\ s.queue[i].fn # "thenable_job" => s.queue[i].arg \in Plain
    <2>1. CASE i \in 1..n
      BY <1>1, <2>1 DEF Settles, InOrder
    <2>2. ASSUME NEW j \in 1..k, i = n + j
          PROVE  s.queue[i].caps.chained <= s.minted /\ s.queue[i].arg \in Plain
      <3>1. s.queue[n + j].caps = Reactions(r, p)[j].caps /\ s.queue[n + j].arg = v
        BY DEF Settles
      <3>2. Reactions(r, p)[j].caps.chained <= r.minted
        BY <1>1 DEF InOrder
      <3> QED
        BY <1>1, <2>2, <3>1, <3>2
    <2>3. i \in 1..n \/ \E j \in 1..k : i = n + j
      BY <1>1, SettlesSplit
    <2> QED
      BY <2>1, <2>2, <2>3
  <1> QED
    BY <1>1, <1>3, <1>4, <1>5, <1>6 DEF TypedRuntime, InOrder

\* The reactions to p move from its list to the queue, each once.
LEMMA SettlesPlaced ==
    ASSUME NEW r, NEW s, TypedRuntime(r), NEW h \in History, NEW p \in Ids,
           NEW state \in {"fulfilled", "rejected"}, NEW v,
           IsPending(r, p), Settles(r, s, p, state, v), Placed(r, h)
    PROVE  Placed(s, h)
  <1> DEFINE n == Len(r.queue)
             k == Len(Reactions(r, p))
             m == Len(s.queue)
  <1>1. r \in Runtime
    BY DEF TypedRuntime
  <1>2. /\ \A i \in 1..n : i \in 1..m /\ s.queue[i] = r.queue[i]
        /\ \A j \in 1..k :
              /\ n + j \in 1..m
              /\ s.queue[n + j].caps = Reactions(r, p)[j].caps
              /\ s.queue[n + j].arg = v
              /\ s.queue[n + j].fn = IF state = "fulfilled" THEN Reactions(r, p)[j].onFulfilled
                                     ELSE Reactions(r, p)[j].onRejected
        /\ \A i \in 1..m : i \in 1..n \/ \E j \in 1..k : i = n + j
    BY <1>1, SettlesJobs
  <1> SUFFICES ASSUME NEW c \in Ids, Waiting(h, c)
               PROVE  /\ \A q \in Ids : q # h.source[c] => NotOnList(s, q, c)
                      /\ IsPending(s, h.source[c]) => OnList(s, h.source[c], c) /\ NotInQueue(s, c)
                      /\ ~IsPending(s, h.source[c]) => InQueue(s, h.source[c], c)
    BY DEF Placed, InPlace
  <1> DEFINE q0 == h.source[c]
  <1>3. q0 \in Ids
    BY DEF History, Waiting
  <1>4. /\ \A q \in Ids : q # q0 => NotOnList(r, q, c)
        /\ IsPending(r, q0) => OnList(r, q0, c) /\ NotInQueue(r, c)
        /\ ~IsPending(r, q0) => InQueue(r, q0, c)
    BY DEF Placed, InPlace
  <1> HIDE DEF q0
  <1>5. \A q \in Ids : q # q0 => NotOnList(s, q, c)
    BY <1>4 DEF NotOnList, Settles, Reactions
  <1>6. CASE q0 # p
    <2>1. s.promise[q0] = r.promise[q0]
      BY <1>3, <1>6 DEF Settles
    <2>2. \A j \in 1..k : Reactions(r, p)[j].caps.chained # c
      BY <1>4, <1>6 DEF NotOnList
    <2> HIDE DEF n, k, m
    <2>3. \A i \in 1..m : s.queue[i].caps.chained = c => i \in 1..n /\ r.queue[i].caps.chained = c
      BY <1>2, <2>2
    <2>4. ASSUME IsPending(s, q0) PROVE OnList(s, q0, c) /\ NotInQueue(s, c)
      <3>1. OnList(r, q0, c) /\ NotInQueue(r, c)
        BY <1>4, <2>1, <2>4 DEF IsPending
      <3>2. OnList(s, q0, c)
        BY <2>1, <3>1 DEF OnList, Reactions
      <3> QED
        BY <2>3, <3>1, <3>2 DEF NotInQueue, n, m
    <2>5. ASSUME ~IsPending(s, q0) PROVE InQueue(s, q0, c)
      <3>1. InQueue(r, q0, c)
        BY <1>4, <2>1, <2>5 DEF IsPending
      <3> PICK i \in 1..n : /\ r.queue[i].caps.chained = c
                            /\ Fits(r.queue[i].fn, r.promise[q0].state)
                            /\ r.queue[i].arg = r.promise[q0].value
                            /\ \A j \in 1..n : r.queue[j].caps.chained = c => j = i
        BY <3>1 DEF InQueue, n
      <3>2. \A j \in 1..m : s.queue[j].caps.chained = c => j = i
        BY <2>3
      <3>3. i \in 1..m /\ s.queue[i] = r.queue[i]
        BY <1>2
      <3> QED
        BY <2>1, <3>2, <3>3 DEF InQueue, m
    <2> QED
      BY <1>5, <2>4, <2>5 DEF q0
  <1>7. CASE q0 = p
    <2>1. OnList(r, p, c) /\ NotInQueue(r, c)
      BY <1>4, <1>7
    <2> PICK i \in 1..k : /\ Reactions(r, p)[i].caps.chained = c
                          /\ Reactions(r, p)[i].onFulfilled \in FulfillFns
                          /\ Reactions(r, p)[i].onRejected \in RejectFns
                          /\ \A j \in 1..k : Reactions(r, p)[j].caps.chained = c => j = i
      BY <2>1 DEF OnList
    <2>2. ~IsPending(s, p) /\ s.promise[p].state = state /\ s.promise[p].value = v
      BY DEF Settles, IsPending
    <2>3. \A j \in 1..n : r.queue[j].caps.chained # c
      BY <2>1 DEF NotInQueue
    <2> HIDE DEF n, k, m
    <2>4. \A j \in 1..m : s.queue[j].caps.chained = c => j = n + i
      BY <1>2, <2>3
    <2>5. Fits(s.queue[n + i].fn, state)
      BY <1>2 DEF Fits
    <2>6. /\ n + i \in 1..m
          /\ s.queue[n + i].caps.chained = c
          /\ s.queue[n + i].arg = v
      BY <1>2
    <2> DEFINE x == n + i
    <2> HIDE DEF x
    <2>7. \E y \in 1..m : /\ s.queue[y].caps.chained = c
                          /\ Fits(s.queue[y].fn, state)
                          /\ s.queue[y].arg = v
                          /\ \A j \in 1..m : s.queue[j].caps.chained = c => j = y
      <3> x \in 1..m
        BY <2>6 DEF x
      <3> WITNESS x \in 1..m
      <3> QED
        BY <2>4, <2>5, <2>6 DEF x
    <2>8. InQueue(s, p, c)
      BY <2>2, <2>7 DEF InQueue, m
    <2> QED
      BY <1>5, <1>7, <2>2, <2>8 DEF q0
  <1> QED
    BY <1>6, <1>7

\* A rejection without reactions gets its entry, and only that.
LEMMA SettlesNoted ==
    ASSUME NEW r, NEW s, TypedRuntime(r), NEW h \in History, NEW p \in Ids, p <= r.minted,
           NEW state \in {"fulfilled", "rejected"}, NEW v,
           IsPending(r, p), Settles(r, s, p, state, v), Attached(r, h), Placed(r, h), Noted(r, h)
    PROVE  Noted(s, h)
  <1> DEFINE u == r.unhandled
             t == s.unhandled
             note == [promise |-> p, handled |-> FALSE]
  <1>1. r \in Runtime /\ s \in Runtime /\ u \in Seq(NoteRecord) /\ s.minted = r.minted
    BY DEF TypedRuntime, Settles, Runtime
  <1>2. \A i \in 1..Len(u) : u[i].promise # p /\ u[i].promise \in Ids
    <2>1. \A i \in 1..Len(u) : u[i] \in NoteRecord
      BY <1>1
    <2> QED
      BY <1>1, <2>1 DEF Noted, IsPending, NoteRecord
  <1>3. Chains(h, p) => Reactions(r, p) # <<>>
    <2> SUFFICES ASSUME NEW c \in Ids, h.source[c] = p, Reactions(r, p) = <<>>
                 PROVE  FALSE
      BY DEF Chains
    <2>1. h.source[c] # NoValue
      BY KindsAssumption
    <2>2. Waiting(h, c)
      BY <2>1 DEF Attached, Waiting
    <2>3. OnList(r, p, c)
      BY <2>2 DEF Placed, InPlace
    <2> QED
      BY <2>3 DEF OnList
  <1>4. p \notin h.consumed /\ Reactions(r, p) # <<>> => Chains(h, p)
    <2> SUFFICES ASSUME p \notin h.consumed, Reactions(r, p) # <<>>
                 PROVE  Chains(h, p)
      OBVIOUS
    <2>1. Reactions(r, p) \in Seq(Reaction)
      BY <1>1 DEF Runtime, PromiseRecord, Reactions
    <2>2. 1 \in 1..Len(Reactions(r, p)) /\ Reactions(r, p)[1] \in Reaction
      BY <2>1, EmptySeq
    <2>3. h.source[Reactions(r, p)[1].caps.chained] = p
      BY <2>2 DEF Noted
    <2>4. Reactions(r, p)[1].caps.chained \in Ids
      BY <2>2 DEF Reaction, Captures
    <2> QED
      BY <2>3, <2>4 DEF Chains
  <1>5. ASSUME NEW q \in Ids \ h.consumed, NEW i \in 1..Len(Reactions(s, q))
        PROVE  h.source[Reactions(s, q)[i].caps.chained] = q
    <2>1. CASE q = p
      <3>1. Reactions(s, q) = <<>>
        BY <2>1 DEF Settles, Reactions
      <3> QED
        BY <3>1
    <2>2. CASE q # p
      <3>1. Reactions(s, q) = Reactions(r, q)
        BY <2>2 DEF Settles, Reactions
      <3> QED
        BY <3>1 DEF Noted
    <2> QED
      BY <2>1, <2>2
  <1>6. CASE state = "rejected" /\ Reactions(r, p) = <<>>
    <2>1. t = <<note>> \o u
      BY <1>6 DEF Settles
    <2>2. note \in NoteRecord /\ note.promise = p /\ note.handled = FALSE
      BY DEF NoteRecord
    <2> HIDE DEF u, t, note
    <2>3. /\ Len(t) = Len(u) + 1
          /\ t[1] = note
          /\ \A k \in 1..Len(u) : t[k + 1] = u[k]
          /\ \A k \in 1..Len(t) : k = 1 \/ (k - 1 \in 1..Len(u) /\ t[k] = u[k - 1])
      BY <1>1, <2>1, <2>2, Prepended
    <2>4. Len(u) \in Nat
      BY <1>1
    <2>5. \A i \in 1..Len(t) : t[i].promise <= s.minted /\ s.promise[t[i].promise].state = "rejected"
      <3> SUFFICES ASSUME NEW i \in 1..Len(t)
                   PROVE  t[i].promise <= s.minted /\ s.promise[t[i].promise].state = "rejected"
        OBVIOUS
      <3>1. CASE i = 1
        BY <1>1, <1>6, <2>2, <2>3, <3>1 DEF Settles
      <3>2. CASE i # 1
        <4>1. PICK k \in 1..Len(u) : t[i] = u[k]
          BY <2>3, <3>2
        <4>2. u[k].promise <= r.minted /\ r.promise[u[k].promise].state = "rejected"
          BY <4>1 DEF Noted, u
        <4>3. s.minted = r.minted /\ s.promise[u[k].promise] = r.promise[u[k].promise]
          BY <1>1, <1>2, <4>1, <4>2 DEF Settles
        <4> QED
          BY <4>1, <4>2, <4>3
      <3> QED
        BY <3>1, <3>2
    <2>6. \A i, j \in 1..Len(t) : t[i].promise = t[j].promise => i = j
      <3>1. \A i, j \in 1..Len(u) : u[i].promise = u[j].promise => i = j
        BY DEF Noted, u
      <3> SUFFICES ASSUME NEW i \in 1..Len(t), NEW j \in 1..Len(t), t[i].promise = t[j].promise
                   PROVE  i = j
        OBVIOUS
      <3>2. i = 1 \/ (i - 1 \in 1..Len(u) /\ t[i].promise = u[i - 1].promise)
        BY <2>3
      <3>3. j = 1 \/ (j - 1 \in 1..Len(u) /\ t[j].promise = u[j - 1].promise)
        BY <2>3
      <3>4. t[1].promise = p /\ \A k \in 1..Len(u) : u[k].promise # p
        BY <1>2, <2>2, <2>3
      <3>5. CASE i = 1 \/ j = 1
        BY <3>2, <3>3, <3>4, <3>5
      <3>6. CASE i # 1 /\ j # 1
        <4>1. i - 1 = j - 1
          BY <3>1, <3>2, <3>3, <3>6
        <4>2. Len(t) \in Nat
          BY <2>3, <2>4
        <4> QED
          BY <4>1, <4>2
      <3> QED
        BY <3>5, <3>6
    <2>7. ASSUME NEW q \in Ids \ h.consumed
          PROVE  /\ s.promise[q].state = "rejected" /\ ~Chains(h, q) =>
                       \E i \in 1..Len(t) : t[i].promise = q /\ ~t[i].handled
                 /\ Chains(h, q) => \A i \in 1..Len(t) : t[i].promise = q => t[i].handled
      <3>1. CASE q = p
        <4>1. 1 \in 1..Len(t)
          BY <2>3, <2>4
        <4> QED
          BY <1>3, <1>6, <2>2, <2>3, <3>1, <4>1
      <3>2. CASE q # p
        <4>1. s.promise[q] = r.promise[q]
          BY <3>2 DEF Settles
        <4>2. /\ r.promise[q].state = "rejected" /\ ~Chains(h, q) =>
                    \E i \in 1..Len(u) : u[i].promise = q /\ ~u[i].handled
              /\ Chains(h, q) => \A i \in 1..Len(u) : u[i].promise = q => u[i].handled
          BY DEF Noted, u
        <4>3. \A k \in 1..Len(u) : k + 1 \in 1..Len(t)
          BY <2>3, <2>4
        <4>4. s.promise[q].state = "rejected" /\ ~Chains(h, q) =>
                    \E i \in 1..Len(t) : t[i].promise = q /\ ~t[i].handled
          BY <2>3, <4>1, <4>2, <4>3
        <4>5. Chains(h, q) => \A i \in 1..Len(t) : t[i].promise = q => t[i].handled
          BY <2>2, <2>3, <3>2, <4>2
        <4> QED
          BY <4>4, <4>5
      <3> QED
        BY <3>1, <3>2
    <2> QED
      BY <1>5, <2>5, <2>6, <2>7 DEF Noted, t
  <1>7. CASE ~(state = "rejected" /\ Reactions(r, p) = <<>>)
    <2>1. t = u
      BY <1>7 DEF Settles
    <2>2. ASSUME NEW i \in 1..Len(t)
          PROVE  t[i].promise <= s.minted /\ s.promise[t[i].promise].state = "rejected"
      <3>1. u[i].promise <= r.minted /\ r.promise[u[i].promise].state = "rejected"
        BY <2>1 DEF Noted
      <3>2. s.promise[u[i].promise] = r.promise[u[i].promise]
        BY <1>2, <2>1 DEF Settles
      <3> QED
        BY <1>1, <2>1, <3>1, <3>2
    <2>3. \A i, j \in 1..Len(t) : t[i].promise = t[j].promise => i = j
      BY <2>1 DEF Noted
    <2>4. ASSUME NEW q \in Ids \ h.consumed
          PROVE  /\ s.promise[q].state = "rejected" /\ ~Chains(h, q) =>
                       \E i \in 1..Len(t) : t[i].promise = q /\ ~t[i].handled
                 /\ Chains(h, q) => \A i \in 1..Len(t) : t[i].promise = q => t[i].handled
      <3>1. CASE q = p
        <4>1. s.promise[p].state = state
          BY DEF Settles
        <4> QED
          BY <1>2, <1>4, <1>7, <2>1, <3>1, <4>1
      <3>2. CASE q # p
        <4>1. s.promise[q] = r.promise[q]
          BY <3>2 DEF Settles
        <4>2. /\ r.promise[q].state = "rejected" /\ ~Chains(h, q) =>
                    \E i \in 1..Len(u) : u[i].promise = q /\ ~u[i].handled
              /\ Chains(h, q) => \A i \in 1..Len(u) : u[i].promise = q => u[i].handled
          BY DEF Noted
        <4> QED
          BY <2>1, <4>1, <4>2
      <3> QED
        BY <3>1, <3>2
    <2> QED
      BY <1>5, <2>2, <2>3, <2>4 DEF Noted
  <1> QED
    BY <1>6, <1>7

\* The callbacks on the list of p have not run when they become jobs.
LEMMA SettlesCallbacksWait ==
    ASSUME NEW r, NEW s, TypedRuntime(r), NEW h, NEW p \in Ids,
           NEW state, NEW v, Settles(r, s, p, state, v), CallbacksWait(r, h)
    PROVE  CallbacksWait(s, h)
  <1>1. r \in Runtime
    BY DEF TypedRuntime
  <1>2. \A q \in Ids : \A i \in 1..Len(Reactions(s, q)) :
          CallsBack(Reactions(s, q)[i].onFulfilled) \/ CallsBack(Reactions(s, q)[i].onRejected)
             => Waiting(h, Reactions(s, q)[i].caps.chained)
    <2> SUFFICES ASSUME NEW q \in Ids, q # p
                 PROVE  \A i \in 1..Len(Reactions(r, q)) :
                            \/ CallsBack(Reactions(r, q)[i].onFulfilled)
                            \/ CallsBack(Reactions(r, q)[i].onRejected)
                            => Waiting(h, Reactions(r, q)[i].caps.chained)
      BY SettlesLists
    <2> QED
      BY DEF CallbacksWait
  <1>3. ASSUME NEW i \in 1..Len(s.queue), CallsBack(s.queue[i].fn)
        PROVE  Waiting(h, s.queue[i].caps.chained)
    <2>1. CASE i \in 1..Len(r.queue)
      BY <1>3, <2>1 DEF Settles, CallbacksWait
    <2>2. ASSUME NEW j \in 1..Len(Reactions(r, p)), i = Len(r.queue) + j
          PROVE  Waiting(h, s.queue[i].caps.chained)
      <3>1. /\ s.queue[i].caps = Reactions(r, p)[j].caps
            /\ \/ s.queue[i].fn = Reactions(r, p)[j].onFulfilled
               \/ s.queue[i].fn = Reactions(r, p)[j].onRejected
        BY <2>2 DEF Settles
      <3> QED
        BY <1>3, <3>1 DEF CallbacksWait
    <2> QED
      BY <1>1, <2>1, <2>2, SettlesSplit
  <1> QED
    BY <1>2, <1>3 DEF CallbacksWait

\* A promise that nothing settles is left alone when another one is settled.
LEMMA SettlesFresh ==
    ASSUME NEW r, NEW s, TypedRuntime(r), NEW p \in Ids, NEW c \in Ids, c # p,
           NEW state, NEW v, Settles(r, s, p, state, v), Fresh(r, c)
    PROVE  Fresh(s, c)
  <1>1. r \in Runtime
    BY DEF TypedRuntime
  <1>2. IsPending(s, c)
    BY DEF Fresh, Settles, IsPending
  <1>3. \A q \in Ids : NotOnList(s, q, c)
    BY SMTT(40) DEF Fresh, Settles, NotOnList, Reactions
  <1>4. ASSUME NEW i \in 1..Len(s.queue)
        PROVE  s.queue[i].caps.chained # c
    <2>1. CASE i \in 1..Len(r.queue)
      BY <2>1 DEF Settles, Fresh, NotInQueue
    <2>2. ASSUME NEW j \in 1..Len(Reactions(r, p)), i = Len(r.queue) + j
          PROVE  s.queue[i].caps.chained # c
      BY <2>2, ZenonT(40) DEF Settles, Fresh, NotOnList
    <2> QED
      BY <1>1, <2>1, <2>2, SettlesSplit
  <1> QED
    BY <1>2, <1>3, <1>4 DEF Fresh, NotInQueue

\* The promises that wait for a first attempt still do.
LEMMA SettlesUnstarted ==
    ASSUME NEW r, NEW s, TypedRuntime(r), NEW h \in History, NEW res \in SUBSET Ids, NEW p \in Ids,
           NEW state, NEW v, Settles(r, s, p, state, v), Unstarted(r, h, res),
           ~Waiting(h, p), p \in res => h.first[p] # NoValue
    PROVE  Unstarted(s, h, res)
  <1>1. r \in Runtime /\ s.minted = r.minted
    BY DEF TypedRuntime, Settles
  <1>2. \A c \in Ids : Waiting(h, c) =>
          h.first[c] = NoValue /\ IsPending(s, c) /\ c \notin res /\ h.finallyReturned[c] = NoValue
    BY DEF Unstarted, Settles, IsPending
  <1>3. \A q \in res : q \in 1..s.minted /\ (h.first[q] = NoValue => Fresh(s, q))
    BY <1>1, SettlesFresh DEF Unstarted
  <1>4. ASSUME NEW i \in 1..Len(s.queue), s.queue[i].fn = "thenable_job"
        PROVE  LET q == s.queue[i].caps.chained
               IN  h.first[q] # NoValue /\ (q \notin h.again => h.first[q].value = Thenable)
    <2>1. CASE i \in 1..Len(r.queue)
      BY <1>4, <2>1 DEF Settles, Unstarted
    <2>2. ASSUME NEW j \in 1..Len(Reactions(r, p)), i = Len(r.queue) + j
          PROVE  FALSE
      <3>1. \/ s.queue[i].fn = Reactions(r, p)[j].onFulfilled
            \/ s.queue[i].fn = Reactions(r, p)[j].onRejected
        BY <2>2 DEF Settles
      <3> QED
        BY <1>1, <1>4, <3>1, ListTyped DEF FulfillFns, RejectFns
    <2> QED
      BY <1>1, <2>1, <2>2, SettlesSplit, SMTT(30)
  <1> QED
    BY <1>1, <1>2, <1>3, <1>4 DEF Unstarted

\* Promises that follow p will be settled the way p is; the others stay decided.
LEMMA SettlesDecided ==
    ASSUME NEW r, NEW s, TypedRuntime(r), NEW h \in History, NEW p \in Ids,
           NEW state \in {"fulfilled", "rejected"}, NEW v, IsPending(r, p), Settles(r, s, p, state, v),
           NEW q \in Ids, q # p, Decided(r, h, q)
    PROVE  Decided(s, h, q)
  <1> DEFINE w == h.first[q].value
  <1>1. r \in Runtime
    BY DEF TypedRuntime
  <1>2. s.promise[q] = r.promise[q]
    BY DEF Settles
  <1>3. w \in Value => Result(s, q) = [state |-> "fulfilled", value |-> w]
    BY <1>2 DEF Decided, Result
  <1>4. w = Poisoned => Result(s, q) = [state |-> "rejected", value |-> Thrown]
    BY <1>2 DEF Decided, Result
  <1>5. ASSUME w \in Ids \ {q}
        PROVE  /\ ~IsPending(s, q) => ~IsPending(s, w) /\ Result(s, q) = Result(s, w)
               /\ \A x \in Ids : \A i \in 1..Len(Reactions(s, x)) :
                     Reactions(s, x)[i].caps.chained = q =>
                        /\ x = w
                        /\ Reactions(s, x)[i].onFulfilled = "identity_fulfill"
                        /\ Reactions(s, x)[i].onRejected = "identity_reject"
               /\ \A i \in 1..Len(s.queue) : s.queue[i].caps.chained = q =>
                    /\ s.queue[i].fn = IF s.promise[w].state = "fulfilled" THEN "identity_fulfill"
                                       ELSE "identity_reject"
                    /\ ~IsPending(s, w)
                    /\ s.queue[i].arg = s.promise[w].value
    <2> HIDE DEF w
    <2>1. /\ ~IsPending(r, q) => ~IsPending(r, w) /\ Result(r, q) = Result(r, w)
          /\ \A x \in Ids : \A i \in 1..Len(Reactions(r, x)) :
                     Reactions(r, x)[i].caps.chained = q =>
                        /\ x = w
                        /\ Reactions(r, x)[i].onFulfilled = "identity_fulfill"
                        /\ Reactions(r, x)[i].onRejected = "identity_reject"
          /\ \A i \in 1..Len(r.queue) : r.queue[i].caps.chained = q =>
                    /\ r.queue[i].fn = IF r.promise[w].state = "fulfilled" THEN "identity_fulfill"
                                       ELSE "identity_reject"
                    /\ ~IsPending(r, w)
                    /\ r.queue[i].arg = r.promise[w].value
      BY <1>5 DEF Decided, w
    <2>2. w # p => s.promise[w] = r.promise[w]
      BY <1>5 DEF Settles
    <2>3. ~IsPending(s, q) => ~IsPending(s, w) /\ Result(s, q) = Result(s, w)
      BY <1>2, <2>1, <2>2, SMTT(30) DEF IsPending, Result
    <2>4. \A x \in Ids : \A i \in 1..Len(Reactions(s, x)) :
                     Reactions(s, x)[i].caps.chained = q =>
                        /\ x = w
                        /\ Reactions(s, x)[i].onFulfilled = "identity_fulfill"
                        /\ Reactions(s, x)[i].onRejected = "identity_reject"
      BY <2>1, SMTT(40) DEF Settles, Reactions
    <2>5. ASSUME NEW i \in 1..Len(s.queue), s.queue[i].caps.chained = q
          PROVE  /\ s.queue[i].fn = IF s.promise[w].state = "fulfilled" THEN "identity_fulfill"
                                    ELSE "identity_reject"
                 /\ ~IsPending(s, w)
                 /\ s.queue[i].arg = s.promise[w].value
      <3>1. CASE i \in 1..Len(r.queue)
        <4>1. s.queue[i] = r.queue[i]
          BY <3>1 DEF Settles
        <4>2. w # p
          BY <2>1, <2>5, <3>1, <4>1
        <4> QED
          BY <2>1, <2>2, <2>5, <3>1, <4>1, <4>2 DEF IsPending
      <3>2. ASSUME NEW j \in 1..Len(Reactions(r, p)), i = Len(r.queue) + j
            PROVE  /\ s.queue[i].fn = IF s.promise[w].state = "fulfilled" THEN "identity_fulfill"
                                      ELSE "identity_reject"
                   /\ ~IsPending(s, w)
                   /\ s.queue[i].arg = s.promise[w].value
        <4>1. /\ s.queue[i].caps = Reactions(r, p)[j].caps
              /\ s.queue[i].arg = v
              /\ s.queue[i].fn = IF state = "fulfilled" THEN Reactions(r, p)[j].onFulfilled
                                 ELSE Reactions(r, p)[j].onRejected
          BY <3>2 DEF Settles
        <4>2. /\ p = w
              /\ Reactions(r, p)[j].onFulfilled = "identity_fulfill"
              /\ Reactions(r, p)[j].onRejected = "identity_reject"
          BY <2>1, <2>5, <4>1
        <4>3. s.promise[p].state = state /\ s.promise[p].value = v
          BY DEF Settles
        <4> QED
          BY <4>1, <4>2, <4>3 DEF IsPending
      <3> QED
        BY <1>1, <3>1, <3>2, SettlesSplit
    <2> QED
      BY <2>3, <2>4, <2>5
  <1> QED
    BY <1>3, <1>4, <1>5 DEF Decided

\* A restoring reaction on the list of p becomes the job that p's outcome asks for.
LEMMA SettlesRestoring ==
    ASSUME NEW r, NEW s, TypedRuntime(r), NEW h \in History, NEW res \in SUBSET Ids, NEW p \in Ids,
           NEW state \in {"fulfilled", "rejected"}, NEW v, IsPending(r, p),
           Settles(r, s, p, state, v), Attached(r, h), Restoring(r, h, res),
           h.finallyReturned[p] # NoValue => Passed(s, h, p)
    PROVE  Restoring(s, h, res)
  <1>1. r \in Runtime /\ s \in Runtime
    BY DEF TypedRuntime, Settles
  <1>2. Kept(r, s)
    BY <1>1, SettlesKept
  <1>3. \A q \in Ids : \A i \in 1..Len(Reactions(r, q)) :
           Reactions(r, q)[i].caps \in Captures /\ Reactions(r, q)[i].caps.chained \in Ids
    BY <1>1, ListTyped
  <1>4. ASSUME NEW m \in Ids, NEW i \in 1..Len(Reactions(r, m)), IsRestore(h, Reactions(r, m)[i])
        PROVE  /\ Reactions(r, m)[i].onFulfilled = "restore_settle"
               /\ Reactions(r, m)[i].onRejected = "restore_reject"
               /\ Restores(h, res, m, Reactions(r, m)[i].caps.chained)
               /\ Remembers(s, h, Reactions(r, m)[i].caps)
    <2>1. /\ Reactions(r, m)[i].onFulfilled = "restore_settle"
          /\ Reactions(r, m)[i].onRejected = "restore_reject"
          /\ Restores(h, res, m, Reactions(r, m)[i].caps.chained)
          /\ Remembers(r, h, Reactions(r, m)[i].caps)
      BY <1>4 DEF Restoring, RestoresListed
    <2>2. h.delivered[Reactions(r, m)[i].caps.chained] # NoValue
      BY <1>3, <2>1 DEF Restores, Restoring, Returned
    <2> QED
      BY <1>2, <1>3, <2>1, <2>2, KeptRemembers
  <1>5. RestoresListed(s, h, res)
    <2> SUFFICES ASSUME NEW m \in Ids, m # p, NEW i \in 1..Len(Reactions(r, m)),
                        IsRestore(h, Reactions(r, m)[i])
                 PROVE  /\ Reactions(r, m)[i].onFulfilled = "restore_settle"
                        /\ Reactions(r, m)[i].onRejected = "restore_reject"
                        /\ Restores(h, res, m, Reactions(r, m)[i].caps.chained)
                        /\ Remembers(s, h, Reactions(r, m)[i].caps)
      BY SettlesLists DEF RestoresListed
    <2> QED
      BY <1>4
  <1>6. ASSUME NEW i \in 1..Len(s.queue), IsRestoreJob(h, s.queue[i])
        PROVE  RestoreJob(s, h, res, s.queue[i])
    <2>1. CASE i \in 1..Len(r.queue)
      <3>1. s.queue[i] = r.queue[i] /\ r.queue[i] \in JobRecord
        BY <1>1, <2>1 DEF Settles, Runtime
      <3>2. RestoreJob(r, h, res, r.queue[i])
        BY <1>6, <2>1, <3>1 DEF Restoring, RestoresQueued
      <3> QED
        BY <1>2, <3>1, <3>2, KeptRestoreJob DEF Restoring
    <2>2. ASSUME NEW j \in 1..Len(Reactions(r, p)), i = Len(r.queue) + j
          PROVE  RestoreJob(s, h, res, s.queue[i])
      <3>1. /\ s.queue[i].caps = Reactions(r, p)[j].caps
            /\ s.queue[i].arg = v
            /\ s.queue[i].fn = IF state = "fulfilled" THEN Reactions(r, p)[j].onFulfilled
                               ELSE Reactions(r, p)[j].onRejected
        BY <2>2 DEF Settles
      <3>2. IsRestore(h, Reactions(r, p)[j])
        <4>1. CASE h.finallyReturned[Reactions(r, p)[j].caps.chained] # NoValue
          BY <4>1 DEF IsRestore
        <4>2. CASE s.queue[i].fn \in RestoreFns
          <5>1. /\ Reactions(r, p)[j].onFulfilled # "restore_reject"
                /\ Reactions(r, p)[j].onRejected # "restore_settle"
            BY <1>1, ListTyped DEF FulfillFns, RejectFns
          <5> QED
            BY <3>1, <4>2, <5>1 DEF IsRestore, RestoreFns
        <4> QED
          BY <1>6, <3>1, <4>1, <4>2 DEF IsRestoreJob
      <3>3. s.promise[p].state = state /\ s.promise[p].value = v
        BY DEF Settles
      <3> QED
        BY <1>4, <3>1, <3>2, <3>3 DEF RestoreJob
    <2> QED
      BY <1>1, <2>1, <2>2, SettlesSplit
  <1>7. ASSUME NEW c \in Ids, h.finallyReturned[c] # NoValue
        PROVE  /\ h.delivered[c] # NoValue
               /\ c \notin res
               /\ h.first[c] = NoValue
               /\ ~IsPending(s, c) => Passed(s, h, c)
    <2>1. h.delivered[c] # NoValue /\ c \notin res /\ h.first[c] = NoValue
      BY <1>7 DEF Restoring, Returned
    <2>2. ASSUME c # p, ~IsPending(s, c) PROVE Passed(s, h, c)
      <3>1. ~IsPending(r, c)
        BY <2>2 DEF Settles, IsPending
      <3>2. Passed(r, h, c)
        BY <1>7, <3>1 DEF Restoring, Returned
      <3> QED
        BY <1>2, <2>1, <3>1, <3>2, KeptPassed
    <2> QED
      BY <1>7, <2>1, <2>2
  <1> QED
    BY <1>5, <1>6, <1>7 DEF Restoring, RestoresQueued, Returned
-----------------------------------------------------------------------------
(***************************************************************************)
(* A reaction is put on a list.                                            *)
(***************************************************************************)

\* A reaction on the list is the new one or was there.
LEMMA ListsSplit ==
    ASSUME NEW r \in Runtime, NEW s, NEW p \in Ids, NEW node, Lists(r, s, p, node),
           NEW i \in 1..Len(Reactions(s, p))
    PROVE  \/ i = 1 /\ Reactions(s, p)[i] = node
           \/ \E j \in 1..Len(Reactions(r, p)) :
                 i = j + 1 /\ Reactions(s, p)[i] = Reactions(r, p)[j]
  <1> DEFINE k == Len(Reactions(r, p))
  <1>1. k \in Nat
    BY DEF Runtime, PromiseRecord, Reactions
  <1>2. CASE i # 1
    <2>1. i - 1 \in 1..k /\ i = (i - 1) + 1
      BY <1>1, <1>2 DEF Lists
    <2> QED
      BY <2>1 DEF Lists
  <1> QED
    BY <1>2 DEF Lists

\* The same for any list.
LEMMA ListsAny ==
    ASSUME NEW r \in Runtime, NEW s, NEW p \in Ids, NEW node, Lists(r, s, p, node),
           NEW q \in Ids, NEW i \in 1..Len(Reactions(s, q))
    PROVE  \/ q = p /\ i = 1 /\ Reactions(s, q)[i] = node
           \/ \E j \in 1..Len(Reactions(r, q)) : Reactions(s, q)[i] = Reactions(r, q)[j]
  <1>1. CASE q = p
    BY <1>1, ListsSplit
  <1>2. CASE q # p
    BY <1>2 DEF Lists, Reactions
  <1> QED
    BY <1>1, <1>2

\* Listing a reaction keeps the runtime well formed.
LEMMA ListsInOrder ==
    ASSUME NEW r, NEW s, TypedRuntime(r), NEW p \in Ids, p <= r.minted, IsPending(r, p),
           NEW node, node.caps.chained <= r.minted, Lists(r, s, p, node)
    PROVE  TypedRuntime(s)
  <1>1. r \in Runtime /\ s \in Runtime /\ InOrder(r) /\ s.minted = r.minted /\ s.queue = r.queue
    BY DEF TypedRuntime, Lists
  <1>2. \A q \in Ids : q > s.minted => q # p
    BY <1>1 DEF Ids, Runtime
  <1>3. \A q \in Ids : q > s.minted => s.promise[q] = NewPromise
    BY <1>1, <1>2 DEF Lists, InOrder
  <1>4. \A q \in Ids : \A i \in 1..Len(Reactions(s, q)) : Reactions(s, q)[i].caps.chained <= s.minted
    BY <1>1, ListsAny DEF InOrder
  <1>5. \A q \in Ids : ~IsPending(s, q) => Reactions(s, q) = <<>>
    BY <1>1 DEF Lists, InOrder, Reactions, IsPending
  <1> QED
    BY <1>1, <1>3, <1>4, <1>5 DEF TypedRuntime, InOrder

\* The other reactions stay where they are.
LEMMA ListsPlaced ==
    ASSUME NEW r, NEW s, TypedRuntime(r), NEW h \in History, NEW p \in Ids, IsPending(r, p),
           NEW node, Lists(r, s, p, node),
           \A c \in Ids : Waiting(h, c) /\ c # node.caps.chained => InPlace(r, h.source[c], c),
           NEW c0 \in Ids, node.caps.chained = c0,
           Waiting(h, c0) => /\ h.source[c0] = p
                             /\ node.onFulfilled \in FulfillFns
                             /\ node.onRejected \in RejectFns
                             /\ \A q \in Ids : NotOnList(r, q, c0)
                             /\ NotInQueue(r, c0)
    PROVE  Placed(s, h)
  <1> DEFINE k == Len(Reactions(r, p))
  <1>1. r \in Runtime /\ s.queue = r.queue
    BY DEF TypedRuntime, Lists
  <1>2. k \in Nat /\ Len(Reactions(s, p)) = k + 1 /\ Reactions(s, p)[1] = node
        /\ \A i \in 1..k : i + 1 \in 1..(k + 1) /\ Reactions(s, p)[i + 1] = Reactions(r, p)[i]
    BY <1>1 DEF Lists, Runtime, PromiseRecord, Reactions
  <1> SUFFICES ASSUME NEW c \in Ids, Waiting(h, c)
               PROVE  InPlace(s, h.source[c], c)
    BY DEF Placed
  <1>3. h.source[c] \in Ids
    BY DEF Waiting, History
  <1>4. \A q \in Ids : IsPending(s, q) = IsPending(r, q) /\ s.promise[q].state = r.promise[q].state
                       /\ s.promise[q].value = r.promise[q].value
    BY DEF Lists, IsPending
  <1>5. CASE c = c0
    <2>1. \A q \in Ids : q # p => NotOnList(s, q, c)
      BY <1>5 DEF NotOnList, Lists, Reactions
    <2>2. \A j \in 1..Len(Reactions(s, p)) : Reactions(s, p)[j].caps.chained = c => j = 1
      BY <1>1, <1>5, ListsSplit DEF NotOnList
    <2>3. OnList(s, p, c)
      BY <1>2, <1>5, <2>2 DEF OnList
    <2> QED
      BY <1>1, <1>4, <1>5, <2>1, <2>3 DEF InPlace, NotInQueue
  <1>6. CASE c # c0
    <2>1. InPlace(r, h.source[c], c)
      BY <1>6
    <2>2. \A q \in Ids : NotOnList(r, q, c) => NotOnList(s, q, c)
      BY <1>1, <1>6, ListsAny DEF NotOnList
    <2>3. ASSUME OnList(r, h.source[c], c)
          PROVE  OnList(s, h.source[c], c)
      <3>1. CASE h.source[c] = p
        <4> PICK i \in 1..k : /\ Reactions(r, p)[i].caps.chained = c
                              /\ Reactions(r, p)[i].onFulfilled \in FulfillFns
                              /\ Reactions(r, p)[i].onRejected \in RejectFns
                              /\ \A j \in 1..k : Reactions(r, p)[j].caps.chained = c => j = i
          BY <2>3, <3>1 DEF OnList
        <4>1. \A j \in 1..Len(Reactions(s, p)) : Reactions(s, p)[j].caps.chained = c => j = i + 1
          <5> SUFFICES ASSUME NEW j \in 1..Len(Reactions(s, p)), Reactions(s, p)[j].caps.chained = c
                       PROVE  j = i + 1
            OBVIOUS
          <5>1. Reactions(s, p)[j] # node
            BY <1>6
          <5> PICK l \in 1..k : j = l + 1 /\ Reactions(s, p)[j] = Reactions(r, p)[l]
            BY <1>1, <5>1, ListsSplit
          <5>2. l = i
            OBVIOUS
          <5> QED
            BY <5>2
        <4> DEFINE x == i + 1
        <4>2. x \in 1..Len(Reactions(s, p)) /\ Reactions(s, p)[x] = Reactions(r, p)[i]
          BY <1>2
        <4> HIDE DEF k
        <4> QED
          BY <3>1, <4>1, <4>2 DEF OnList
      <3>2. CASE h.source[c] # p
        <4>1. Reactions(s, h.source[c]) = Reactions(r, h.source[c])
          BY <1>3, <3>2 DEF Lists, Reactions
        <4> QED
          BY <2>3, <4>1 DEF OnList
      <3> QED
        BY <3>1, <3>2
    <2>4. NotInQueue(r, c) => NotInQueue(s, c)
      BY <1>1 DEF NotInQueue
    <2>5. InQueue(r, h.source[c], c) => InQueue(s, h.source[c], c)
      BY <1>1, <1>3, <1>4 DEF InQueue
    <2> QED
      BY <1>3, <1>4, <2>1, <2>2, <2>3, <2>4, <2>5 DEF InPlace
  <1> QED
    BY <1>5, <1>6

\* The list of unhandled rejections stays exact.
LEMMA ListsNoted ==
    ASSUME NEW r, NEW s, TypedRuntime(r), NEW h \in History, NEW p \in Ids,
           NEW node, Lists(r, s, p, node), Noted(r, h),
           p \notin h.consumed => h.source[node.caps.chained] = p
    PROVE  Noted(s, h)
  <1>1. r \in Runtime /\ s.unhandled = r.unhandled /\ s.minted = r.minted
    BY DEF TypedRuntime, Lists
  <1>2. \A q \in Ids : s.promise[q].state = r.promise[q].state
    BY DEF Lists
  <1>3. \A i \in 1..Len(r.unhandled) : r.unhandled[i].promise \in Ids
    <2>1. \A i \in 1..Len(r.unhandled) : r.unhandled[i] \in NoteRecord
      BY <1>1 DEF Runtime
    <2> QED
      BY <2>1 DEF NoteRecord
  <1>4. \A q \in Ids \ h.consumed : \A i \in 1..Len(Reactions(s, q)) :
           h.source[Reactions(s, q)[i].caps.chained] = q
    BY <1>1, ListsAny DEF Noted
  <1>5. \A i \in 1..Len(s.unhandled) : s.unhandled[i].promise <= s.minted
                                       /\ s.promise[s.unhandled[i].promise].state = "rejected"
    BY <1>1, <1>2, <1>3 DEF Noted
  <1>6. ASSUME NEW q \in Ids \ h.consumed
        PROVE  /\ s.promise[q].state = "rejected" /\ ~Chains(h, q) =>
                    \E i \in 1..Len(s.unhandled) : s.unhandled[i].promise = q /\ ~s.unhandled[i].handled
               /\ Chains(h, q) => \A i \in 1..Len(s.unhandled) :
                    s.unhandled[i].promise = q => s.unhandled[i].handled
    <2>1. /\ r.promise[q].state = "rejected" /\ ~Chains(h, q) =>
                \E i \in 1..Len(r.unhandled) : r.unhandled[i].promise = q /\ ~r.unhandled[i].handled
          /\ Chains(h, q) => \A i \in 1..Len(r.unhandled) :
                r.unhandled[i].promise = q => r.unhandled[i].handled
      BY DEF Noted
    <2> QED
      BY <1>1, <1>2, <2>1
  <1>7. \A i, j \in 1..Len(s.unhandled) : s.unhandled[i].promise = s.unhandled[j].promise => i = j
    BY <1>1 DEF Noted
  <1> QED
    BY <1>4, <1>5, <1>6, <1>7 DEF Noted

\* The callbacks on the lists have not run.
LEMMA ListsCallbacksWait ==
    ASSUME NEW r, NEW s, TypedRuntime(r), NEW h, NEW p \in Ids, NEW node, Lists(r, s, p, node),
           CallbacksWait(r, h),
           CallsBack(node.onFulfilled) \/ CallsBack(node.onRejected) => Waiting(h, node.caps.chained)
    PROVE  CallbacksWait(s, h)
  <1>1. r \in Runtime /\ s.queue = r.queue
    BY DEF TypedRuntime, Lists
  <1> SUFFICES ASSUME NEW q \in Ids, NEW i \in 1..Len(Reactions(s, q)),
                      \/ CallsBack(Reactions(s, q)[i].onFulfilled)
                      \/ CallsBack(Reactions(s, q)[i].onRejected)
               PROVE  Waiting(h, Reactions(s, q)[i].caps.chained)
    BY <1>1 DEF CallbacksWait
  <1> QED
    BY <1>1, ListsAny, SMTT(40) DEF CallbacksWait

\* Only the promise of the new reaction has something that will settle it.
LEMMA ListsFresh ==
    ASSUME NEW r, NEW s, TypedRuntime(r), NEW p \in Ids, NEW node, Lists(r, s, p, node),
           NEW c \in Ids, c # node.caps.chained, Fresh(r, c)
    PROVE  Fresh(s, c)
  <1>1. r \in Runtime /\ s.queue = r.queue
    BY DEF TypedRuntime, Lists
  <1>2. IsPending(s, c)
    BY DEF Fresh, Lists, IsPending
  <1>3. \A q \in Ids : NotOnList(s, q, c)
    BY <1>1, ListsAny DEF Fresh, NotOnList
  <1> QED
    BY <1>1, <1>2, <1>3 DEF Fresh, NotInQueue

\* The other promises that wait for a first attempt still do.
LEMMA ListsUnstarted ==
    ASSUME NEW r, NEW s, TypedRuntime(r), NEW h \in History, NEW res \in SUBSET Ids, NEW p \in Ids,
           NEW node, Lists(r, s, p, node), Unstarted(r, h, res),
           node.caps.chained \in res => h.first[node.caps.chained] # NoValue
    PROVE  Unstarted(s, h, res)
  <1>1. r \in Runtime /\ s.minted = r.minted /\ s.queue = r.queue
    BY DEF TypedRuntime, Lists
  <1>2. \A c \in Ids : Waiting(h, c) =>
          h.first[c] = NoValue /\ IsPending(s, c) /\ c \notin res /\ h.finallyReturned[c] = NoValue
    BY DEF Unstarted, Lists, IsPending
  <1>3. \A q \in res : q \in 1..s.minted /\ (h.first[q] = NoValue => Fresh(s, q))
    BY <1>1, ListsFresh DEF Unstarted
  <1> QED
    BY <1>1, <1>2, <1>3 DEF Unstarted

\* The other decided promises stay decided.
LEMMA ListsDecided ==
    ASSUME NEW r, NEW s, TypedRuntime(r), NEW h \in History, NEW p \in Ids, NEW node,
           Lists(r, s, p, node), NEW q \in Ids, q # node.caps.chained, Decided(r, h, q)
    PROVE  Decided(s, h, q)
  <1> DEFINE w == h.first[q].value
  <1>1. r \in Runtime /\ s.queue = r.queue
    BY DEF TypedRuntime, Lists
  <1>2. \A x \in Ids : /\ Result(s, x) = Result(r, x)
                       /\ IsPending(s, x) = IsPending(r, x)
                       /\ s.promise[x].state = r.promise[x].state
                       /\ s.promise[x].value = r.promise[x].value
    BY DEF Lists, Result, IsPending
  <1>3. \A x \in Ids : \A i \in 1..Len(Reactions(s, x)) :
           Reactions(s, x)[i].caps.chained = q =>
               \E j \in 1..Len(Reactions(r, x)) : Reactions(s, x)[i] = Reactions(r, x)[j]
    BY <1>1, ListsAny
  <1>4. ASSUME w \in Ids \ {q}
        PROVE  /\ ~IsPending(s, q) => ~IsPending(s, w) /\ Result(s, q) = Result(s, w)
               /\ \A i \in 1..Len(s.queue) : s.queue[i].caps.chained = q =>
                    /\ s.queue[i].fn = IF s.promise[w].state = "fulfilled" THEN "identity_fulfill"
                                       ELSE "identity_reject"
                    /\ ~IsPending(s, w)
                    /\ s.queue[i].arg = s.promise[w].value
    BY <1>1, <1>2, <1>4, SMTT(40) DEF Decided
  <1>5. ASSUME w \in Ids \ {q}, NEW x \in Ids, NEW i \in 1..Len(Reactions(s, x)),
               Reactions(s, x)[i].caps.chained = q
        PROVE  /\ x = w
               /\ Reactions(s, x)[i].onFulfilled = "identity_fulfill"
               /\ Reactions(s, x)[i].onRejected = "identity_reject"
    BY <1>3, <1>5 DEF Decided
  <1>6. w \in Value => Result(s, q) = [state |-> "fulfilled", value |-> w]
    BY <1>2 DEF Decided
  <1>7. w = Poisoned => Result(s, q) = [state |-> "rejected", value |-> Thrown]
    BY <1>2 DEF Decided
  <1> QED
    BY <1>4, <1>5, <1>6, <1>7 DEF Decided

\* c adopts w, which is pending.
LEMMA ListsAdopted ==
    ASSUME NEW r, NEW s, TypedRuntime(r), NEW h \in History, NEW c \in Ids, NEW w \in Ids \ {c},
           NEW node, Lists(r, s, w, node), Fresh(r, c), h.first[c].value = w,
           node.caps.chained = c,
           node.onFulfilled = "identity_fulfill", node.onRejected = "identity_reject"
    PROVE  Decided(s, h, c)
  <1>1. r \in Runtime /\ s.queue = r.queue
    BY DEF TypedRuntime, Lists
  <1>2. IsPending(s, c)
    BY DEF Fresh, Lists, IsPending
  <1>3. \A i \in 1..Len(s.queue) : s.queue[i].caps.chained # c
    BY <1>1 DEF Fresh, NotInQueue
  <1>4. \A q \in Ids : \A i \in 1..Len(Reactions(s, q)) :
           Reactions(s, q)[i].caps.chained = c => q = w /\ Reactions(s, q)[i] = node
    BY <1>1, ListsAny DEF Fresh, NotOnList
  <1>5. w \notin Value /\ w # Poisoned
    BY KindsAssumption
  <1> QED
    BY <1>2, <1>3, <1>4, <1>5 DEF Decided

\* The restoring reactions stay right.
LEMMA ListsRestoring ==
    ASSUME NEW r, NEW s, TypedRuntime(r), NEW h \in History, NEW res \in SUBSET Ids, NEW p \in Ids,
           NEW node, Lists(r, s, p, node), Attached(r, h), Restoring(r, h, res),
           IsRestore(h, node) => /\ node.onFulfilled = "restore_settle"
                                 /\ node.onRejected = "restore_reject"
                                 /\ Restores(h, res, p, node.caps.chained)
                                 /\ Remembers(s, h, node.caps)
    PROVE  Restoring(s, h, res)
  <1>1. r \in Runtime /\ s \in Runtime /\ s.queue = r.queue
    BY DEF TypedRuntime, Lists
  <1>2. Kept(r, s)
    BY <1>1, ListsKept
  <1>3. ASSUME NEW m \in Ids, NEW i \in 1..Len(Reactions(s, m)), IsRestore(h, Reactions(s, m)[i])
        PROVE  /\ Reactions(s, m)[i].onFulfilled = "restore_settle"
               /\ Reactions(s, m)[i].onRejected = "restore_reject"
               /\ Restores(h, res, m, Reactions(s, m)[i].caps.chained)
               /\ Remembers(s, h, Reactions(s, m)[i].caps)
    <2>1. CASE m = p /\ Reactions(s, m)[i] = node
      BY <1>3, <2>1
    <2>2. ASSUME NEW j \in 1..Len(Reactions(r, m)), Reactions(s, m)[i] = Reactions(r, m)[j]
          PROVE  /\ Reactions(r, m)[j].onFulfilled = "restore_settle"
                 /\ Reactions(r, m)[j].onRejected = "restore_reject"
                 /\ Restores(h, res, m, Reactions(r, m)[j].caps.chained)
                 /\ Remembers(s, h, Reactions(r, m)[j].caps)
      <3>1. /\ Reactions(r, m)[j].onFulfilled = "restore_settle"
            /\ Reactions(r, m)[j].onRejected = "restore_reject"
            /\ Restores(h, res, m, Reactions(r, m)[j].caps.chained)
            /\ Remembers(r, h, Reactions(r, m)[j].caps)
        BY <1>3, <2>2 DEF Restoring, RestoresListed
      <3>2. Reactions(r, m)[j].caps \in Captures /\ Reactions(r, m)[j].caps.chained \in Ids
        BY <1>1, ListTyped
      <3>3. h.delivered[Reactions(r, m)[j].caps.chained] # NoValue
        BY <3>1, <3>2 DEF Restores, Restoring, Returned
      <3> QED
        BY <1>2, <3>1, <3>2, <3>3, KeptRemembers
    <2> QED
      BY <1>1, <2>1, <2>2, ListsAny
  <1>4. RestoresQueued(s, h, res)
    <2> SUFFICES ASSUME NEW i \in 1..Len(r.queue), IsRestoreJob(h, r.queue[i])
                 PROVE  RestoreJob(s, h, res, r.queue[i])
      BY <1>1 DEF RestoresQueued
    <2>1. r.queue[i] \in JobRecord
      BY <1>1 DEF Runtime
    <2> QED
      BY <1>2, <2>1, KeptRestoreJob DEF Restoring, RestoresQueued
  <1>5. ASSUME NEW c \in Ids, h.finallyReturned[c] # NoValue
        PROVE  /\ h.delivered[c] # NoValue
               /\ c \notin res
               /\ h.first[c] = NoValue
               /\ ~IsPending(s, c) => Passed(s, h, c)
    <2>1. /\ h.delivered[c] # NoValue
          /\ c \notin res
          /\ h.first[c] = NoValue
          /\ ~IsPending(r, c) => Passed(r, h, c)
      BY <1>5 DEF Restoring, Returned
    <2>2. IsPending(s, c) = IsPending(r, c)
      BY DEF Lists, IsPending
    <2> QED
      BY <1>2, <2>1, <2>2, KeptPassed
  <1> QED
    BY <1>3, <1>4, <1>5 DEF Restoring, RestoresListed, Returned
-----------------------------------------------------------------------------
(***************************************************************************)
(* A job is queued.                                                        *)
(***************************************************************************)

\* A job is the new one or was there.
LEMMA QueuesSplit ==
    ASSUME NEW r \in Runtime, NEW s, NEW job, Queues(r, s, job), NEW i \in 1..Len(s.queue)
    PROVE  \/ i = Len(r.queue) + 1 /\ s.queue[i] = job
           \/ i \in 1..Len(r.queue) /\ s.queue[i] = r.queue[i]
  <1>1. Len(r.queue) \in Nat
    BY DEF Runtime
  <1>2. i = Len(r.queue) + 1 \/ i \in 1..Len(r.queue)
    BY <1>1 DEF Queues
  <1> QED
    BY <1>2 DEF Queues

\* Queueing a job keeps the runtime well formed.
LEMMA QueuesInOrder ==
    ASSUME NEW r, NEW s, TypedRuntime(r), NEW job, job.caps.chained <= r.minted,
           job.fn # "thenable_job" => job.arg \in Plain, Queues(r, s, job)
    PROVE  TypedRuntime(s)
  <1>1. r \in Runtime /\ s \in Runtime /\ InOrder(r) /\ s.minted = r.minted /\ s.promise = r.promise
    BY DEF TypedRuntime, Queues
  <1>2. \A i \in 1..Len(s.queue) : s.queue[i].caps.chained <= s.minted
    BY <1>1, QueuesSplit DEF InOrder
  <1>3. \A i \in 1..Len(s.queue) : s.queue[i].fn # "thenable_job" => s.queue[i].arg \in Plain
    BY <1>1, QueuesSplit DEF InOrder
  <1> QED
    BY <1>1, <1>2, <1>3 DEF TypedRuntime, InOrder, Reactions, IsPending

\* The other reactions stay where they are.
LEMMA QueuesPlaced ==
    ASSUME NEW r, NEW s, TypedRuntime(r), NEW h \in History, NEW job, Queues(r, s, job),
           \A c \in Ids : Waiting(h, c) /\ c # job.caps.chained => InPlace(r, h.source[c], c),
           NEW c0 \in Ids, job.caps.chained = c0,
           Waiting(h, c0) => /\ ~IsPending(r, h.source[c0])
                             /\ Fits(job.fn, r.promise[h.source[c0]].state)
                             /\ job.arg = r.promise[h.source[c0]].value
                             /\ \A q \in Ids : NotOnList(r, q, c0)
                             /\ NotInQueue(r, c0)
    PROVE  Placed(s, h)
  <1> DEFINE n == Len(r.queue)
  <1>1. r \in Runtime /\ s.promise = r.promise
    BY DEF TypedRuntime, Queues
  <1>2. /\ n \in Nat
        /\ Len(s.queue) = n + 1
        /\ n + 1 \in 1..Len(s.queue)
        /\ s.queue[n + 1] = job
        /\ \A i \in 1..n : i \in 1..Len(s.queue) /\ s.queue[i] = r.queue[i]
    BY <1>1 DEF Queues, Runtime
  <1> SUFFICES ASSUME NEW c \in Ids, Waiting(h, c)
               PROVE  InPlace(s, h.source[c], c)
    BY DEF Placed
  <1>3. \A q \in Ids : /\ IsPending(s, q) = IsPending(r, q)
                       /\ NotOnList(s, q, c) = NotOnList(r, q, c)
    BY <1>1 DEF IsPending, NotOnList, Reactions
  <1>4. h.source[c] \in Ids
    BY DEF Waiting, History
  <1>5. CASE c = c0
    <2>1. \A j \in 1..Len(s.queue) : s.queue[j].caps.chained = c => j = n + 1
      BY <1>1, <1>5, QueuesSplit DEF NotInQueue
    <2>2. InQueue(s, h.source[c], c)
      <3> DEFINE x == n + 1
      <3>1. x \in 1..Len(s.queue) /\ s.queue[x] = job
            /\ \A j \in 1..Len(s.queue) : s.queue[j].caps.chained = c => j = x
        BY <1>2, <2>1
      <3> HIDE DEF x
      <3> QED
        BY <1>1, <1>5, <3>1 DEF InQueue
    <2> QED
      BY <1>3, <1>4, <1>5, <2>2 DEF InPlace
  <1>6. CASE c # c0
    <2>1. InPlace(r, h.source[c], c)
      BY <1>6
    <2>2. \A j \in 1..Len(s.queue) : s.queue[j].caps.chained = c =>
             j \in 1..n /\ r.queue[j].caps.chained = c
      BY <1>1, <1>6, QueuesSplit, SMTT(30)
    <2>3. OnList(r, h.source[c], c) => OnList(s, h.source[c], c)
      BY <1>1 DEF OnList, Reactions
    <2>4. NotInQueue(r, c) => NotInQueue(s, c)
      BY <2>2 DEF NotInQueue
    <2>5. ASSUME InQueue(r, h.source[c], c)
          PROVE  InQueue(s, h.source[c], c)
      <3> PICK i \in 1..n : /\ r.queue[i].caps.chained = c
                            /\ Fits(r.queue[i].fn, r.promise[h.source[c]].state)
                            /\ r.queue[i].arg = r.promise[h.source[c]].value
                            /\ \A j \in 1..n : r.queue[j].caps.chained = c => j = i
        BY <2>5 DEF InQueue
      <3>1. \A j \in 1..Len(s.queue) : s.queue[j].caps.chained = c => j = i
        BY <2>2
      <3>2. i \in 1..Len(s.queue) /\ s.queue[i] = r.queue[i]
        BY <1>2
      <3> QED
        BY <1>1, <3>1, <3>2 DEF InQueue
    <2> QED
      BY <1>3, <1>4, <2>1, <2>3, <2>4, <2>5 DEF InPlace
  <1> QED
    BY <1>5, <1>6

\* The list of unhandled rejections stays exact.
LEMMA QueuesNoted ==
    ASSUME NEW r, NEW s, NEW h, NEW job, Queues(r, s, job), Noted(r, h)
    PROVE  Noted(s, h)
  <1>1. s.minted = r.minted /\ s.promise = r.promise /\ s.unhandled = r.unhandled
    BY DEF Queues
  <1>2. \A p : Reactions(s, p) = Reactions(r, p)
    BY <1>1 DEF Reactions
  <1> QED
    BY <1>1, <1>2 DEF Noted

\* The callbacks of the jobs have not run.
LEMMA QueuesCallbacksWait ==
    ASSUME NEW r, NEW s, TypedRuntime(r), NEW h, NEW job, Queues(r, s, job), CallbacksWait(r, h),
           CallsBack(job.fn) => Waiting(h, job.caps.chained)
    PROVE  CallbacksWait(s, h)
  <1>1. r \in Runtime /\ \A q \in Ids : Reactions(s, q) = Reactions(r, q)
    BY DEF TypedRuntime, Queues, Reactions
  <1>2. \A i \in 1..Len(s.queue) : CallsBack(s.queue[i].fn) => Waiting(h, s.queue[i].caps.chained)
    <2> SUFFICES ASSUME NEW i \in 1..Len(s.queue), CallsBack(s.queue[i].fn), s.queue[i] # job
                 PROVE  Waiting(h, s.queue[i].caps.chained)
      OBVIOUS
    <2>1. i \in 1..Len(r.queue) /\ s.queue[i] = r.queue[i]
      BY <1>1, QueuesSplit
    <2> QED
      BY <2>1 DEF CallbacksWait
  <1> QED
    BY <1>1, <1>2 DEF CallbacksWait

\* Only the promise of the new job has something that will settle it.
LEMMA QueuesFresh ==
    ASSUME NEW r, NEW s, TypedRuntime(r), NEW job, Queues(r, s, job),
           NEW c \in Ids, c # job.caps.chained, Fresh(r, c)
    PROVE  Fresh(s, c)
  <1>1. r \in Runtime /\ s.promise = r.promise
    BY DEF TypedRuntime, Queues
  <1>2. NotInQueue(s, c)
    BY <1>1, QueuesSplit, SMTT(30) DEF Fresh, NotInQueue
  <1> QED
    BY <1>1, <1>2 DEF Fresh, NotOnList, Reactions, IsPending

\* The other promises that wait for a first attempt still do.
LEMMA QueuesUnstarted ==
    ASSUME NEW r, NEW s, TypedRuntime(r), NEW h \in History, NEW res \in SUBSET Ids,
           NEW job, Queues(r, s, job), Unstarted(r, h, res), NEW c \in Ids, job.caps.chained = c,
           c \in res => h.first[c] # NoValue,
           job.fn = "thenable_job" =>
               h.first[c] # NoValue /\ (c \notin h.again => h.first[c].value = Thenable)
    PROVE  Unstarted(s, h, res)
  <1>1. r \in Runtime /\ s.minted = r.minted /\ s.promise = r.promise
    BY DEF TypedRuntime, Queues
  <1>2. \A q \in res : q \in 1..s.minted /\ (h.first[q] = NoValue => Fresh(s, q))
    BY <1>1, QueuesFresh, SMTT(30) DEF Unstarted
  <1>3. ASSUME NEW i \in 1..Len(s.queue), s.queue[i].fn = "thenable_job"
        PROVE  LET q == s.queue[i].caps.chained
               IN  h.first[q] # NoValue /\ (q \notin h.again => h.first[q].value = Thenable)
    <2>1. CASE s.queue[i] = job
      BY <1>3, <2>1
    <2>2. CASE i \in 1..Len(r.queue) /\ s.queue[i] = r.queue[i]
      BY <1>3, <2>2 DEF Unstarted
    <2> QED
      BY <1>1, <2>1, <2>2, QueuesSplit
  <1>4. \A x : IsPending(s, x) <=> IsPending(r, x)
    BY <1>1 DEF IsPending
  <1> QED
    BY <1>1, <1>2, <1>3, <1>4 DEF Unstarted

\* The other decided promises stay decided.
LEMMA QueuesDecided ==
    ASSUME NEW r, NEW s, TypedRuntime(r), NEW h \in History, NEW job, Queues(r, s, job),
           NEW q \in Ids, q # job.caps.chained, Decided(r, h, q)
    PROVE  Decided(s, h, q)
  <1>1. r \in Runtime /\ s.promise = r.promise
    BY DEF TypedRuntime, Queues
  <1>2. \A i \in 1..Len(s.queue) : s.queue[i].caps.chained = q =>
           i \in 1..Len(r.queue) /\ s.queue[i] = r.queue[i]
    BY <1>1, QueuesSplit
  <1>3. \A z : Reactions(s, z) = Reactions(r, z) /\ Result(s, z) = Result(r, z) /\ (IsPending(s, z) <=> IsPending(r, z))
    BY <1>1 DEF Reactions, Result, IsPending
  <1> QED
    BY <1>1, <1>2, <1>3 DEF Decided

\* c adopts w, which is settled.
LEMMA QueuesAdopted ==
    ASSUME NEW r, NEW s, TypedRuntime(r), NEW h \in History, NEW c \in Ids, NEW w \in Ids \ {c},
           NEW job, Queues(r, s, job), Fresh(r, c), h.first[c].value = w, ~IsPending(r, w),
           job.caps.chained = c, job.arg = r.promise[w].value,
           job.fn = IF r.promise[w].state = "fulfilled" THEN "identity_fulfill" ELSE "identity_reject"
    PROVE  Decided(s, h, c)
  <1>1. r \in Runtime /\ s.promise = r.promise
    BY DEF TypedRuntime, Queues
  <1>2. \A i \in 1..Len(s.queue) : s.queue[i].caps.chained = c => s.queue[i] = job
    BY <1>1, QueuesSplit DEF Fresh, NotInQueue
  <1>3. \A q \in Ids : \A i \in 1..Len(Reactions(s, q)) : Reactions(s, q)[i].caps.chained # c
    BY <1>1 DEF Fresh, NotOnList, Reactions
  <1>4. IsPending(s, c) /\ ~IsPending(s, w)
    BY <1>1 DEF Fresh, IsPending
  <1>5. w \notin Value /\ w # Poisoned
    BY KindsAssumption
  <1> QED
    BY <1>1, <1>2, <1>3, <1>4, <1>5 DEF Decided

\* The restoring reactions stay right.
LEMMA QueuesRestoring ==
    ASSUME NEW r, NEW s, TypedRuntime(r), NEW h \in History, NEW res \in SUBSET Ids,
           NEW job, Queues(r, s, job), Attached(r, h), Restoring(r, h, res), ~IsRestoreJob(h, job)
    PROVE  Restoring(s, h, res)
  <1>1. r \in Runtime /\ s.promise = r.promise
    BY DEF TypedRuntime, Queues
  <1>2. Kept(r, s)
    BY <1>1, QueuesKept
  <1>3. RestoresListed(s, h, res)
    <2>1. \A m \in Ids : Reactions(s, m) = Reactions(r, m)
      BY <1>1 DEF Reactions
    <2>2. \A caps : Remembers(s, h, caps) <=> Remembers(r, h, caps)
      BY <1>1 DEF Remembers
    <2> QED
      BY <2>1, <2>2 DEF Restoring, RestoresListed
  <1>4. ASSUME NEW i \in 1..Len(s.queue), IsRestoreJob(h, s.queue[i])
        PROVE  RestoreJob(s, h, res, s.queue[i])
    <2>1. i \in 1..Len(r.queue) /\ s.queue[i] = r.queue[i]
      BY <1>1, <1>4, QueuesSplit
    <2>2. r.queue[i] \in JobRecord
      BY <1>1, <2>1 DEF Runtime
    <2>3. RestoreJob(r, h, res, r.queue[i])
      BY <1>4, <2>1 DEF Restoring, RestoresQueued
    <2> QED
      BY <1>2, <2>1, <2>2, <2>3, KeptRestoreJob DEF Restoring
  <1>5. Returned(s, h, res)
    <2>1. \A z : Result(s, z) = Result(r, z) /\ (IsPending(s, z) <=> IsPending(r, z))
      BY <1>1 DEF Result, IsPending
    <2>2. \A c : Passed(s, h, c) <=> Passed(r, h, c)
      BY <1>1, <2>1 DEF Passed
    <2> QED
      BY <2>1, <2>2 DEF Restoring, Returned
  <1> QED
    BY <1>3, <1>4, <1>5 DEF Restoring, RestoresQueued
-----------------------------------------------------------------------------
(***************************************************************************)
(* What holds of the runtime between two calls of the emitted functions.   *)
(***************************************************************************)

\* The parts of the invariant that are about the runtime and the history.
Sound(r, h, res) ==
    /\ TypedRuntime(r)
    /\ Attached(r, h)
    /\ Placed(r, h)
    /\ Noted(r, h)
    /\ CallbacksWait(r, h)
    /\ Unstarted(r, h, res)
    /\ Restoring(r, h, res)

\* Only promise p may be undecided.
DecidedBut(r, h, p) ==
    \A q \in Ids \ h.again :
        q # p /\ h.first[q] # NoValue /\ h.first[q].how = "resolve" => Decided(r, h, q)

\* A promise is allocated: it was pending, without reactions, before.
LEMMA MintsSame ==
    ASSUME NEW r, NEW s, TypedRuntime(r), Mints(r, s, NewPromise)
    PROVE  s.promise = r.promise
  <1>1. /\ r \in Runtime /\ s \in Runtime /\ s.minted = r.minted + 1
        /\ r.promise \in [Ids -> PromiseRecord] /\ s.promise \in [Ids -> PromiseRecord]
    BY DEF TypedRuntime, Mints, Runtime
  <1>2. ASSUME NEW q \in Ids
        PROVE  s.promise[q] = r.promise[q]
    <2>1. CASE q = s.minted
      <3>1. q > r.minted
        BY <1>1, <2>1 DEF Runtime
      <3> QED
        BY <2>1, <3>1 DEF TypedRuntime, InOrder, Mints
    <2>2. CASE q # s.minted
      BY <2>2 DEF Mints
    <2> QED
      BY <2>1, <2>2
  <1> QED
    BY <1>1, <1>2

\* Allocating a promise keeps the runtime sound, and nothing settles the new one.
LEMMA MintsSound ==
    ASSUME NEW r, NEW s, NEW h \in History, NEW res \in SUBSET Ids, Sound(r, h, res),
           Mints(r, s, NewPromise)
    PROVE  /\ Sound(s, h, res)
           /\ \A c \in Ids : Fresh(r, c) => Fresh(s, c)
           /\ \A c \in Ids : Decided(r, h, c) => Decided(s, h, c)
           /\ Fresh(s, s.minted)
           /\ s.minted \in Ids => /\ h.source[s.minted] = NoValue
                                  /\ h.delivered[s.minted] = NoValue
                                  /\ h.first[s.minted] = NoValue
                                  /\ s.minted \notin h.again
                                  /\ h.finallyReturned[s.minted] = NoValue
                                  /\ s.minted \notin res
  <1>1. /\ r \in Runtime /\ s \in Runtime /\ TypedRuntime(r) /\ InOrder(r)
        /\ s.minted = r.minted + 1 /\ s.queue = r.queue /\ s.unhandled = r.unhandled
    BY DEF Sound, TypedRuntime, Mints
  <1>2. s.promise = r.promise
    BY <1>1, MintsSame
  <1>3. Kept(r, s)
    BY <1>1, MintsKept
  <1>4. r.minted \in Nat /\ s.minted \in Nat
    BY <1>1 DEF Runtime
  <1>5. \A q \in Ids : /\ Reactions(s, q) = Reactions(r, q)
                       /\ IsPending(s, q) = IsPending(r, q)
                       /\ Result(s, q) = Result(r, q)
    BY <1>2 DEF Reactions, IsPending, Result
  <1>6. TypedRuntime(s)
    <2>1. \A q \in Ids : \A i \in 1..Len(Reactions(r, q)) : Reactions(r, q)[i].caps.chained \in Int
      BY <1>1, ListTyped DEF Ids
    <2>2. \A i \in 1..Len(r.queue) : r.queue[i].caps.chained \in Int
      <3>1. \A i \in 1..Len(r.queue) : r.queue[i] \in JobRecord
        BY <1>1 DEF Runtime
      <3> QED
        BY <3>1 DEF JobRecord, Captures, Ids
    <2>3. \A q \in Ids : q > s.minted => s.promise[q] = NewPromise
      BY <1>1, <1>2, <1>4 DEF InOrder, Ids
    <2>4. \A q \in Ids : \A i \in 1..Len(Reactions(s, q)) :
             Reactions(s, q)[i].caps.chained <= s.minted
      BY <1>1, <1>4, <1>5, <2>1 DEF InOrder
    <2>5. \A i \in 1..Len(s.queue) : s.queue[i].caps.chained <= s.minted
      BY <1>1, <1>4, <2>2 DEF InOrder
    <2> QED
      BY <1>1, <1>5, <2>3, <2>4, <2>5 DEF TypedRuntime, InOrder
  <1>7. Attached(s, h)
    BY <1>1, <1>3, KeptAttached DEF Sound
  <1>8. \A q, c \in Ids : /\ NotOnList(s, q, c) = NotOnList(r, q, c)
                          /\ OnList(s, q, c) = OnList(r, q, c)
                          /\ InQueue(s, q, c) = InQueue(r, q, c)
                          /\ NotInQueue(s, c) = NotInQueue(r, c)
    BY <1>1, <1>2, <1>5 DEF NotOnList, OnList, InQueue, NotInQueue
  <1>9. Placed(s, h)
    <2>1. \A c \in Ids : Waiting(h, c) => h.source[c] \in Ids
      BY DEF Waiting, History
    <2> QED
      BY <1>5, <1>8, <2>1 DEF Sound, Placed, InPlace
  <1>10. Noted(s, h)
    <2>1. \A i \in 1..Len(r.unhandled) : r.unhandled[i].promise \in Int
      <3>1. \A i \in 1..Len(r.unhandled) : r.unhandled[i] \in NoteRecord
        BY <1>1 DEF Runtime
      <3> QED
        BY <3>1 DEF NoteRecord, Ids
    <2>2. \A i \in 1..Len(r.unhandled) : r.unhandled[i].promise <= s.minted
      BY <1>1, <1>4, <2>1 DEF Sound, Noted
    <2> QED
      BY <1>1, <1>2, <1>5, <2>2 DEF Sound, Noted
  <1>11. CallbacksWait(s, h)
    BY <1>1, <1>5 DEF Sound, CallbacksWait
  <1>12. \A c \in Ids : Fresh(s, c) = Fresh(r, c)
    BY <1>5, <1>8, SMTT(30) DEF Fresh
  <1>13. Unstarted(s, h, res)
    <2>1. \A q \in res : q \in 1..s.minted
      BY <1>1, <1>4 DEF Sound, Unstarted
    <2>2. \A q \in Ids : q > s.minted => q > r.minted
      BY <1>1, <1>4 DEF Ids
    <2> QED
      BY <1>1, <1>5, <1>12, <2>1, <2>2 DEF Sound, Unstarted
  <1>14. Restoring(s, h, res)
    <2>1. \A caps : Remembers(s, h, caps) <=> Remembers(r, h, caps)
      BY <1>2 DEF Remembers
    <2>2. RestoresListed(s, h, res)
      BY <1>5, <2>1 DEF Sound, Restoring, RestoresListed
    <2>3. RestoresQueued(s, h, res)
      BY <1>1, <1>2, <2>1, SMTT(30) DEF Sound, Restoring, RestoresQueued, RestoreJob
    <2>4. Returned(s, h, res)
      BY <1>2, SMTT(40) DEF Sound, Restoring, Returned, Passed, Result, IsPending
    <2> QED
      BY <2>2, <2>3, <2>4 DEF Restoring
  <1>15. \A c \in Ids : Decided(r, h, c) => Decided(s, h, c)
    BY <1>1, <1>2, <1>5 DEF Decided
  <1>16. s.minted \in Ids => /\ h.source[s.minted] = NoValue
                             /\ h.delivered[s.minted] = NoValue
                             /\ h.first[s.minted] = NoValue
                             /\ s.minted \notin h.again
                             /\ h.finallyReturned[s.minted] = NoValue
                             /\ s.minted \notin res
    <2> SUFFICES ASSUME s.minted \in Ids
                 PROVE  /\ h.source[s.minted] = NoValue
                        /\ h.delivered[s.minted] = NoValue
                        /\ h.first[s.minted] = NoValue
                        /\ s.minted \notin h.again
                        /\ h.finallyReturned[s.minted] = NoValue
                        /\ s.minted \notin res
      OBVIOUS
    <2>1. s.minted > r.minted /\ ~(s.minted <= r.minted)
      BY <1>1, <1>4
    <2>2. h.source[s.minted] = NoValue /\ h.delivered[s.minted] = NoValue
      BY <2>1 DEF Sound, Attached
    <2>3. h.first[s.minted] = NoValue /\ s.minted \notin h.again
          /\ h.finallyReturned[s.minted] = NoValue
      BY <2>1 DEF Sound, Unstarted
    <2>4. s.minted \notin res
      BY <1>4, <2>1 DEF Sound, Unstarted
    <2> QED
      BY <2>2, <2>3, <2>4
  <1>17. Fresh(s, s.minted)
    <2>1. s.minted > r.minted /\ ~(s.minted <= r.minted)
      BY <1>1, <1>4
    <2>2. IsPending(s, s.minted)
      BY DEF Mints, IsPending, NewPromise
    <2> QED
      BY <1>1, <1>5, <2>1, <2>2 DEF Fresh, NotOnList, NotInQueue, InOrder
  <1> QED
    BY <1>6, <1>7, <1>9, <1>10, <1>11, <1>12, <1>13, <1>14, <1>15, <1>16, <1>17 DEF Sound
-----------------------------------------------------------------------------
(***************************************************************************)
(* The emitted functions keep the runtime sound.                           *)
(***************************************************************************)

\* What a call that settles p, or will, leaves alone.
Spares(r, s, h, p) ==
    /\ s.minted = r.minted
    /\ Kept(r, s)
    /\ \A c \in Ids : c # p /\ Fresh(r, c) => Fresh(s, c)
    /\ \A q \in Ids : q # p /\ Decided(r, h, q) => Decided(s, h, q)

\* p waits for nothing but the call that is made now, or for calls of the
\* resolving functions it has given out and that have been called.
Open(h, res, p) ==
    /\ ~Waiting(h, p)
    /\ p \in res => h.first[p] # NoValue
    /\ h.finallyReturned[p] = NoValue

\* Doing nothing spares every promise.
LEMMA Unchanged ==
    ASSUME NEW r \in Runtime, NEW h, NEW p
    PROVE  Spares(r, r, h, p)
  BY DEF Spares, Kept, Runtime

\* Settling a pending promise keeps the runtime sound.
LEMMA SettlesSound ==
    ASSUME NEW r, NEW s, NEW h \in History, NEW res \in SUBSET Ids, Sound(r, h, res),
           NEW p \in Ids, p <= r.minted, NEW state \in {"fulfilled", "rejected"}, NEW v \in Plain,
           IsPending(r, p), Settles(r, s, p, state, v),
           ~Waiting(h, p), p \in res => h.first[p] # NoValue,
           h.finallyReturned[p] # NoValue => Passed(s, h, p)
    PROVE  Sound(s, h, res) /\ Spares(r, s, h, p)
  <1>1. /\ r \in Runtime /\ s \in Runtime /\ TypedRuntime(r)
        /\ Attached(r, h) /\ Placed(r, h) /\ Noted(r, h) /\ CallbacksWait(r, h)
        /\ Unstarted(r, h, res) /\ Restoring(r, h, res)
    BY DEF Sound, TypedRuntime, Settles
  <1>2. Kept(r, s)
    BY <1>1, SettlesKept
  <1>3. TypedRuntime(s)
    BY <1>1, SettlesInOrder
  <1>4. Attached(s, h)
    BY <1>1, <1>2, KeptAttached
  <1>5. Placed(s, h)
    BY <1>1, SettlesPlaced
  <1>6. Noted(s, h)
    BY <1>1, SettlesNoted
  <1>7. CallbacksWait(s, h)
    BY <1>1, SettlesCallbacksWait
  <1>8. Unstarted(s, h, res)
    BY <1>1, SettlesUnstarted
  <1>9. Restoring(s, h, res)
    BY <1>1, SettlesRestoring
  <1>10. \A c \in Ids : c # p /\ Fresh(r, c) => Fresh(s, c)
    BY <1>1, SettlesFresh
  <1>11. \A q \in Ids : q # p /\ Decided(r, h, q) => Decided(s, h, q)
    BY <1>1, SettlesDecided
  <1> QED
    BY <1>2, <1>3, <1>4, <1>5, <1>6, <1>7, <1>8, <1>9, <1>10, <1>11 DEF Sound, Spares, Settles

\* __promise_fulfill and __promise_reject.
LEMMA SettleSound ==
    ASSUME NEW r, NEW h \in History, NEW res \in SUBSET Ids, Sound(r, h, res),
           NEW p \in Ids, p <= r.minted, NEW state \in {"fulfilled", "rejected"}, NEW v \in Plain,
           Open(h, res, p)
    PROVE  LET s == Settle(r, p, state, v)
           IN  /\ Sound(s, h, res)
               /\ Spares(r, s, h, p)
               /\ IsPending(r, p) => Settles(r, s, p, state, v)
               /\ ~IsPending(r, p) => s = r
  <1> DEFINE s == Settle(r, p, state, v)
  <1>1. r \in Runtime
    BY DEF Sound, TypedRuntime
  <1>2. CASE IsPending(r, p)
    <2>1. Settles(r, s, p, state, v)
      BY <1>1, <1>2, Settling
    <2> HIDE DEF s
    <2>2. Sound(s, h, res) /\ Spares(r, s, h, p)
      BY <1>2, <2>1, SettlesSound DEF Open
    <2> QED
      BY <1>2, <2>1, <2>2 DEF s
  <1>3. CASE ~IsPending(r, p)
    <2>1. s = r
      BY <1>3 DEF Settle, IsPending
    <2> QED
      BY <1>1, <1>3, <2>1, Unchanged
  <1> QED
    BY <1>2, <1>3

\* p adopts q.
LEMMA AdoptSound ==
    ASSUME NEW r, NEW h \in History, NEW res \in SUBSET Ids, Sound(r, h, res),
           NEW p \in Ids, p <= r.minted, NEW q \in Ids \ {p}, q <= r.minted, q \in h.consumed,
           Open(h, res, p)
    PROVE  LET s == React(r, q, "identity_fulfill", "identity_reject", Caps(p))
           IN  /\ Sound(s, h, res)
               /\ Spares(r, s, h, p)
               /\ Fresh(r, p) /\ h.first[p].value = q => Decided(s, h, p)
  <1> DEFINE s == React(r, q, "identity_fulfill", "identity_reject", Caps(p))
  <1>1. /\ r \in Runtime /\ TypedRuntime(r)
        /\ Attached(r, h) /\ Placed(r, h) /\ Noted(r, h) /\ CallbacksWait(r, h)
        /\ Unstarted(r, h, res) /\ Restoring(r, h, res)
    BY DEF Sound, TypedRuntime
  <1>2. Caps(p) \in Captures /\ Caps(p).chained = p
    BY DEF Caps, Captures, Plain
  <1>3. ~CallsBack("identity_fulfill") /\ ~CallsBack("identity_reject")
    BY DEF CallsBack
  <1>4. ~Waiting(h, p) /\ (p \in res => h.first[p] # NoValue) /\ h.finallyReturned[p] = NoValue
    BY DEF Open
  <1>5. r.promise[q] \in PromiseRecord
    BY <1>1 DEF Runtime
  <1>6. CASE IsPending(r, q)
    <2> DEFINE node == [onFulfilled |-> "identity_fulfill", onRejected |-> "identity_reject",
                        caps |-> Caps(p)]
    <2>1. Lists(r, s, q, node)
      BY <1>1, <1>2, <1>6, Listing DEF FulfillFns, RejectFns
    <2>2. node.caps.chained = p /\ node.onFulfilled = "identity_fulfill"
          /\ node.onRejected = "identity_reject" /\ ~IsRestore(h, node)
      BY <1>2, <1>4 DEF IsRestore
    <2> HIDE DEF s, node
    <2>3. TypedRuntime(s) /\ s \in Runtime /\ s.minted = r.minted
      BY <1>1, <1>6, <2>1, <2>2, ListsInOrder DEF Lists
    <2>4. Kept(r, s)
      BY <1>1, <2>1, ListsKept
    <2>5. Attached(s, h)
      BY <1>1, <2>3, <2>4, KeptAttached
    <2>6. Placed(s, h)
      <3>1. \A c \in Ids : Waiting(h, c) => InPlace(r, h.source[c], c)
        BY <1>1 DEF Placed
      <3> QED
        BY <1>1, <1>4, <1>6, <2>1, <2>2, <3>1, ListsPlaced
    <2>7. Noted(s, h)
      BY <1>1, <2>1, ListsNoted
    <2>8. CallbacksWait(s, h)
      BY <1>1, <1>3, <2>1, <2>2, ListsCallbacksWait
    <2>9. Unstarted(s, h, res)
      BY <1>1, <1>4, <2>1, <2>2, ListsUnstarted
    <2>10. Restoring(s, h, res)
      BY <1>1, <2>1, <2>2, ListsRestoring
    <2>11. \A c \in Ids : c # p /\ Fresh(r, c) => Fresh(s, c)
      BY <1>1, <2>1, <2>2, ListsFresh
    <2>12. \A x \in Ids : x # p /\ Decided(r, h, x) => Decided(s, h, x)
      BY <1>1, <2>1, <2>2, ListsDecided
    <2>13. Fresh(r, p) /\ h.first[p].value = q => Decided(s, h, p)
      BY <1>1, <2>1, <2>2, ListsAdopted
    <2> QED
      BY <2>3, <2>4, <2>5, <2>6, <2>7, <2>8, <2>9, <2>10, <2>11, <2>12, <2>13 DEF Sound, Spares, s
  <1>7. CASE ~IsPending(r, q)
    <2> DEFINE fn == IF r.promise[q].state = "fulfilled" THEN "identity_fulfill" ELSE "identity_reject"
               job == [fn |-> fn, caps |-> Caps(p), arg |-> r.promise[q].value]
    <2>1. s = Enqueue(r, fn, Caps(p), r.promise[q].value)
      BY <1>5, <1>7 DEF React, IsPending, PromiseRecord, States
    <2>2. fn \in ReactionFns /\ r.promise[q].value \in Plain
      BY <1>5 DEF ReactionFns, FulfillFns, RejectFns, PromiseRecord
    <2>3. Queues(r, s, job)
      BY <1>1, <1>2, <2>1, <2>2, Queueing
    <2>4. /\ job.caps.chained = p /\ job.arg = r.promise[q].value /\ job.arg \in Plain
          /\ job.fn = IF r.promise[q].state = "fulfilled" THEN "identity_fulfill" ELSE "identity_reject"
      BY <1>2, <2>2
    <2> HIDE DEF s, job, fn
    <2>5. job.fn # "thenable_job" /\ ~IsRestoreJob(h, job) /\ ~CallsBack(job.fn)
      BY <1>4, <2>4 DEF IsRestoreJob, RestoreFns, CallsBack
    <2>6. TypedRuntime(s) /\ s \in Runtime /\ s.minted = r.minted
      BY <1>1, <2>3, <2>4, QueuesInOrder DEF Queues
    <2>7. Kept(r, s)
      BY <1>1, <2>3, QueuesKept
    <2>8. Attached(s, h)
      BY <1>1, <2>6, <2>7, KeptAttached
    <2>9. Placed(s, h)
      <3>1. \A c \in Ids : Waiting(h, c) => InPlace(r, h.source[c], c)
        BY <1>1 DEF Placed
      <3> QED
        BY <1>1, <1>4, <2>3, <2>4, <3>1, QueuesPlaced
    <2>10. Noted(s, h)
      BY <1>1, <2>3, QueuesNoted
    <2>11. CallbacksWait(s, h)
      BY <1>1, <2>3, <2>5, QueuesCallbacksWait
    <2>12. Unstarted(s, h, res)
      BY <1>1, <1>4, <2>3, <2>4, <2>5, QueuesUnstarted
    <2>13. Restoring(s, h, res)
      BY <1>1, <2>3, <2>5, QueuesRestoring
    <2>14. \A c \in Ids : c # p /\ Fresh(r, c) => Fresh(s, c)
      BY <1>1, <2>3, <2>4, QueuesFresh
    <2>15. \A x \in Ids : x # p /\ Decided(r, h, x) => Decided(s, h, x)
      BY <1>1, <2>3, <2>4, QueuesDecided
    <2>16. Fresh(r, p) /\ h.first[p].value = q => Decided(s, h, p)
      BY <1>1, <1>7, <2>3, <2>4, QueuesAdopted
    <2> QED
      BY <2>6, <2>7, <2>8, <2>9, <2>10, <2>11, <2>12, <2>13, <2>14, <2>15, <2>16
         DEF Sound, Spares, s
  <1> QED
    BY <1>6, <1>7

\* p is resolved with a thenable.
LEMMA ThenableSound ==
    ASSUME NEW r, NEW h \in History, NEW res \in SUBSET Ids, Sound(r, h, res),
           NEW p \in Ids, p <= r.minted, Open(h, res, p),
           h.first[p] # NoValue, p \notin h.again => h.first[p].value = Thenable
    PROVE  LET s == Enqueue(r, "thenable_job", Caps(p), Thenable)
           IN  Sound(s, h, res) /\ Spares(r, s, h, p)
  <1> DEFINE s == Enqueue(r, "thenable_job", Caps(p), Thenable)
             job == [fn |-> "thenable_job", caps |-> Caps(p), arg |-> Thenable]
  <1>1. /\ r \in Runtime /\ TypedRuntime(r)
        /\ Attached(r, h) /\ Placed(r, h) /\ Noted(r, h) /\ CallbacksWait(r, h)
        /\ Unstarted(r, h, res) /\ Restoring(r, h, res)
    BY DEF Sound, TypedRuntime
  <1>2. Caps(p) \in Captures /\ Caps(p).chained = p
    BY DEF Caps, Captures, Plain
  <1>3. ~Waiting(h, p) /\ (p \in res => h.first[p] # NoValue) /\ h.finallyReturned[p] = NoValue
    BY DEF Open
  <1>4. Queues(r, s, job)
    BY <1>1, <1>2, Queueing
  <1>5. job.caps.chained = p /\ job.fn = "thenable_job"
    BY <1>2
  <1> HIDE DEF s, job
  <1>6. ~IsRestoreJob(h, job) /\ ~CallsBack(job.fn)
    BY <1>3, <1>5 DEF IsRestoreJob, RestoreFns, CallsBack
  <1>7. TypedRuntime(s) /\ s \in Runtime /\ s.minted = r.minted
    BY <1>1, <1>4, <1>5, QueuesInOrder DEF Queues
  <1>8. Kept(r, s)
    BY <1>1, <1>4, QueuesKept
  <1>9. Attached(s, h)
    BY <1>1, <1>7, <1>8, KeptAttached
  <1>10. Placed(s, h)
    <2>1. \A c \in Ids : Waiting(h, c) => InPlace(r, h.source[c], c)
      BY <1>1 DEF Placed
    <2> QED
      BY <1>1, <1>3, <1>4, <1>5, <2>1, QueuesPlaced
  <1>11. Noted(s, h)
    BY <1>1, <1>4, QueuesNoted
  <1>12. CallbacksWait(s, h)
    BY <1>1, <1>4, <1>6, QueuesCallbacksWait
  <1>13. Unstarted(s, h, res)
    BY <1>1, <1>3, <1>4, <1>5, QueuesUnstarted
  <1>14. Restoring(s, h, res)
    BY <1>1, <1>4, <1>6, QueuesRestoring
  <1>15. \A c \in Ids : c # p /\ Fresh(r, c) => Fresh(s, c)
    BY <1>1, <1>4, <1>5, QueuesFresh
  <1>16. \A x \in Ids : x # p /\ Decided(r, h, x) => Decided(s, h, x)
    BY <1>1, <1>4, <1>5, QueuesDecided
  <1> QED
    BY <1>7, <1>8, <1>9, <1>10, <1>11, <1>12, <1>13, <1>14, <1>15, <1>16 DEF Sound, Spares, s

\* __promise_resolve_value.
LEMMA ResolveSound ==
    ASSUME NEW r, NEW h \in History, NEW res \in SUBSET Ids, Sound(r, h, res),
           NEW p \in Ids, p <= r.minted, Open(h, res, p),
           NEW v \in Value \cup {Thenable, Poisoned} \cup Ids,
           v \in Ids /\ v # p => v \in h.consumed /\ v <= r.minted,
           v = Thenable => h.first[p] # NoValue /\ (p \notin h.again => h.first[p].value = Thenable)
    PROVE  LET s == ResolveValue(r, p, v)
           IN  /\ Sound(s, h, res)
               /\ Spares(r, s, h, p)
               /\ Fresh(r, p) /\ h.first[p].value = v => Decided(s, h, p)
  <1> DEFINE s == ResolveValue(r, p, v)
  <1>1. CASE v = p
    <2>1. s = Settle(r, p, "rejected", CycleError)
      BY <1>1 DEF ResolveValue, Adopt, Reject
    <2>2. CycleError \in Plain /\ p \notin Value /\ p # Poisoned
      BY KindsAssumption DEF Plain
    <2> HIDE DEF s
    <2>3. Sound(s, h, res) /\ Spares(r, s, h, p)
      BY <2>1, <2>2, SettleSound
    <2>4. h.first[p].value = v => Decided(s, h, p)
      BY <1>1, <2>2 DEF Decided
    <2> QED
      BY <2>3, <2>4 DEF s
  <1>2. CASE v \in Ids /\ v # p
    <2>1. s = React(r, v, "identity_fulfill", "identity_reject", Caps(p))
      BY <1>2 DEF ResolveValue, Adopt
    <2> QED
      BY <1>2, <2>1, AdoptSound
  <1>3. CASE v = Poisoned
    <2>1. s = Settle(r, p, "rejected", Thrown)
      BY <1>3, KindsAssumption DEF ResolveValue, Assimilate, Reject
    <2>2. Thrown \in Plain /\ v \notin Value /\ v \notin Ids
      BY <1>3, KindsAssumption DEF Plain
    <2> HIDE DEF s
    <2>3. /\ Sound(s, h, res) /\ Spares(r, s, h, p)
          /\ IsPending(r, p) => Settles(r, s, p, "rejected", Thrown)
      BY <2>1, <2>2, SettleSound
    <2>4. Fresh(r, p) /\ h.first[p].value = v => Decided(s, h, p)
      BY <1>3, <2>2, <2>3 DEF Decided, Fresh, Settles, Result
    <2> QED
      BY <2>3, <2>4 DEF s
  <1>4. CASE v = Thenable
    <2>1. s = Enqueue(r, "thenable_job", Caps(p), Thenable)
      BY <1>4, KindsAssumption DEF ResolveValue, Assimilate
    <2>2. v \notin Value /\ v \notin Ids /\ v # Poisoned
      BY <1>4, KindsAssumption
    <2>3. Sound(s, h, res) /\ Spares(r, s, h, p)
      BY <1>4, <2>1, ThenableSound
    <2> HIDE DEF s
    <2>4. h.first[p].value = v => Decided(s, h, p)
      BY <2>2 DEF Decided
    <2> QED
      BY <2>3, <2>4 DEF s
  <1>5. CASE v \in Value
    <2>1. v \notin Ids /\ v # Poisoned /\ v # Thenable /\ v \in Plain
      BY <1>5, KindsAssumption DEF Plain
    <2>2. s = Settle(r, p, "fulfilled", v)
      BY <2>1 DEF ResolveValue, Assimilate, Fulfill
    <2> HIDE DEF s
    <2>3. /\ Sound(s, h, res) /\ Spares(r, s, h, p)
          /\ IsPending(r, p) => Settles(r, s, p, "fulfilled", v)
      BY <2>1, <2>2, SettleSound
    <2>4. Fresh(r, p) /\ h.first[p].value = v => Decided(s, h, p)
      BY <2>1, <2>3 DEF Decided, Fresh, Settles, Result
    <2> QED
      BY <2>3, <2>4 DEF s
  <1> QED
    BY <1>1, <1>2, <1>3, <1>4, <1>5
-----------------------------------------------------------------------------
(***************************************************************************)
(* The history.                                                            *)
(***************************************************************************)

\* A resolving function of p is called, or its handler ends.
FirstCalled(h, g, p, how, v) ==
    /\ g \in History
    /\ g.source = h.source
    /\ g.delivered = h.delivered
    /\ g.finallyReturned = h.finallyReturned
    /\ h.consumed \subseteq g.consumed
    /\ \A q \in Ids \ {p} : g.first[q] = h.first[q]
    /\ h.first[p] = NoValue => g.first[p] = [how |-> how, value |-> v] /\ g.again = h.again
    /\ h.first[p] # NoValue => g.first[p] = h.first[p] /\ g.again = h.again \cup {p}

\* FirstCall records the first call and keeps the rest of the history.
LEMMA FirstCallShape ==
    ASSUME hist \in History, NEW p \in Ids, NEW how \in {"resolve", "reject"}, NEW v \in Resolutions
    PROVE  /\ FirstCalled(hist, FirstCall(p, how, v), p, how, v)
           /\ FirstCall(p, how, v).consumed = hist.consumed
  <1> DEFINE rec == [how |-> how, value |-> v]
             g == FirstCall(p, how, v)
  <1>1. rec \in FirstRecord
    BY DEF FirstRecord
  <1>2. CASE hist.first[p] = NoValue
    <2>1. g = [hist EXCEPT !.first = [hist.first EXCEPT ![p] = rec]]
      BY <1>2 DEF FirstCall
    <2> HIDE DEF rec, g
    <2>2. [hist.first EXCEPT ![p] = rec] \in [Ids -> FirstRecord \cup {NoValue}]
      BY <1>1 DEF History
    <2>3. /\ g \in History
          /\ g.first = [hist.first EXCEPT ![p] = rec]
          /\ g.again = hist.again /\ g.source = hist.source /\ g.delivered = hist.delivered
          /\ g.finallyReturned = hist.finallyReturned /\ g.consumed = hist.consumed
      BY <2>1, <2>2 DEF History
    <2>4. hist.first \in [Ids -> FirstRecord \cup {NoValue}]
      BY DEF History
    <2> QED
      BY <1>2, <2>3, <2>4 DEF FirstCalled, rec, g
  <1>3. CASE hist.first[p] # NoValue
    <2>1. g = [hist EXCEPT !.again = hist.again \cup {p}]
      BY <1>3 DEF FirstCall
    <2> HIDE DEF g
    <2>2. /\ g \in History
          /\ g.first = hist.first
          /\ g.again = hist.again \cup {p} /\ g.source = hist.source
          /\ g.delivered = hist.delivered
          /\ g.finallyReturned = hist.finallyReturned /\ g.consumed = hist.consumed
      BY <2>1 DEF History
    <2> QED
      BY <1>3, <2>2 DEF FirstCalled, g
  <1> QED
    BY <1>2, <1>3

\* A larger set of followed promises.
LEMMA FollowsShape ==
    ASSUME NEW h, NEW g, NEW p, NEW how, NEW v, FirstCalled(h, g, p, how, v), p \in Ids
    PROVE  /\ FirstCalled(h, Follows(g, p, v), p, how, v)
           /\ v \in Ids /\ v # p => v \in Follows(g, p, v).consumed
  <1>1. g \in History
    BY DEF FirstCalled
  <1>2. CASE v \in Ids /\ v # p
    <2> DEFINE f == Follows(g, p, v)
    <2>1. f = [g EXCEPT !.consumed = g.consumed \cup {v}]
      BY <1>2 DEF Follows
    <2> HIDE DEF f
    <2>2. /\ f \in History
          /\ f.first = g.first
          /\ f.again = g.again /\ f.source = g.source
          /\ f.delivered = g.delivered
          /\ f.finallyReturned = g.finallyReturned /\ f.consumed = g.consumed \cup {v}
      BY <1>1, <1>2, <2>1 DEF History
    <2> QED
      BY <1>2, <2>2 DEF FirstCalled, f
  <1>3. CASE ~(v \in Ids /\ v # p)
    BY <1>3 DEF Follows
  <1> QED
    BY <1>2, <1>3

\* Recording a call keeps the runtime sound.
LEMMA FirstCallSound ==
    ASSUME NEW r, NEW h \in History, NEW g, NEW res \in SUBSET Ids, Sound(r, h, res),
           NEW p \in Ids, p <= r.minted, NEW how \in {"resolve", "reject"}, NEW v \in Resolutions,
           FirstCalled(h, g, p, how, v), ~Waiting(h, p), h.finallyReturned[p] = NoValue,
           h.first[p] # NoValue => p \in res
    PROVE  Sound(r, g, res) /\ Open(g, res, p)
  <1>1. \A c \in Ids : Waiting(g, c) <=> Waiting(h, c)
    BY DEF FirstCalled, Waiting
  <1>2. g.first[p] # NoValue
    BY NotNullAssumption DEF FirstCalled, Resolutions
  <1>3. TypedRuntime(r) /\ r \in Runtime
    BY DEF Sound, TypedRuntime
  <1>4. Attached(r, g)
    BY DEF Sound, Attached, FirstCalled
  <1>5. Placed(r, g)
    BY <1>1 DEF Sound, Placed, FirstCalled
  <1>6. Noted(r, g)
    <2>1. \A q \in Ids : Chains(g, q) <=> Chains(h, q)
      BY DEF Chains, FirstCalled
    <2>2. Ids \ g.consumed \subseteq Ids \ h.consumed /\ g.source = h.source
      BY DEF FirstCalled
    <2> QED
      BY <2>1, <2>2 DEF Sound, Noted
  <1>7. CallbacksWait(r, g)
    <2>1. \A q \in Ids : \A i \in 1..Len(Reactions(r, q)) : Reactions(r, q)[i].caps.chained \in Ids
      BY <1>3, ListTyped
    <2>2. \A i \in 1..Len(r.queue) : r.queue[i].caps.chained \in Ids
      <3>1. \A i \in 1..Len(r.queue) : r.queue[i] \in JobRecord
        BY <1>3 DEF Runtime
      <3> QED
        BY <3>1 DEF JobRecord, Captures
    <2> QED
      BY <1>1, <2>1, <2>2 DEF Sound, CallbacksWait
  <1>8. Unstarted(r, g, res)
    <2>1. Unstarted(r, h, res)
      BY DEF Sound
    <2>2. \A c \in Ids : Waiting(g, c) =>
             g.first[c] = NoValue /\ IsPending(r, c) /\ c \notin res /\ g.finallyReturned[c] = NoValue
      BY <1>1, <2>1 DEF Unstarted, FirstCalled
    <2>3. \A q \in Ids : q > r.minted => q # p
      BY <1>3 DEF Runtime, Ids
    <2>4. \A q \in Ids : q > r.minted =>
             g.first[q] = NoValue /\ q \notin g.again /\ g.finallyReturned[q] = NoValue
      BY <2>1, <2>3 DEF Unstarted, FirstCalled
    <2>5. \A q \in res : q \in 1..r.minted /\ (g.first[q] = NoValue => Fresh(r, q))
      BY <1>2, <2>1 DEF Unstarted, FirstCalled
    <2>6. ASSUME NEW i \in 1..Len(r.queue), r.queue[i].fn = "thenable_job"
          PROVE  LET q == r.queue[i].caps.chained
                 IN  g.first[q] # NoValue /\ (q \notin g.again => g.first[q].value = Thenable)
      <3> DEFINE q == r.queue[i].caps.chained
      <3>1. r.queue[i] \in JobRecord
        BY <1>3 DEF Runtime
      <3>2. q \in Ids
        BY <3>1 DEF JobRecord, Captures
      <3>3. h.first[q] # NoValue /\ (q \notin h.again => h.first[q].value = Thenable)
        BY <2>1, <2>6 DEF Unstarted
      <3> HIDE DEF q
      <3>4. g.first[q] = h.first[q] /\ h.again \subseteq g.again
        BY <3>2, <3>3 DEF FirstCalled
      <3> QED
        BY <3>3, <3>4 DEF q
    <2> QED
      BY <2>2, <2>4, <2>5, <2>6 DEF Unstarted
  <1>9. Restoring(r, g, res)
    <2>1. Restoring(r, h, res)
      BY DEF Sound
    <2>2. g.finallyReturned = h.finallyReturned /\ g.source = h.source /\ g.delivered = h.delivered
      BY DEF FirstCalled
    <2>3. \A m, c \in Ids : Restores(h, res, m, c) => Restores(g, res, m, c)
      <3> SUFFICES ASSUME NEW m \in Ids, NEW c \in Ids, Restores(h, res, m, c)
                   PROVE  Restores(g, res, m, c)
        OBVIOUS
      <3>1. h.first[m] # NoValue
        <4>1. /\ h.first[m] = [how |-> "resolve", value |-> h.finallyReturned[c]]
              /\ h.finallyReturned[c] # NoValue
          BY DEF Restores
        <4>2. h.finallyReturned[c] \in Resolutions
          BY <4>1 DEF History
        <4> QED
          BY <4>1, <4>2, NotNullAssumption DEF Resolutions
      <3>2. g.first[m] = h.first[m]
        BY <3>1 DEF FirstCalled
      <3>3. m \in g.again \cup res => m \in h.again \cup res
        BY <3>1 DEF FirstCalled
      <3> QED
        BY <2>2, <3>2, <3>3 DEF Restores
    <2>4. \A caps : Remembers(r, g, caps) <=> Remembers(r, h, caps)
      BY <2>2 DEF Remembers
    <2>5. RestoresListed(r, g, res)
      <3> SUFFICES ASSUME NEW m \in Ids, NEW i \in 1..Len(Reactions(r, m)),
                          IsRestore(g, Reactions(r, m)[i])
                   PROVE  /\ Reactions(r, m)[i].onFulfilled = "restore_settle"
                          /\ Reactions(r, m)[i].onRejected = "restore_reject"
                          /\ Restores(g, res, m, Reactions(r, m)[i].caps.chained)
                          /\ Remembers(r, g, Reactions(r, m)[i].caps)
        BY DEF RestoresListed
      <3>1. IsRestore(h, Reactions(r, m)[i])
        BY <2>2 DEF IsRestore
      <3>2. Reactions(r, m)[i].caps.chained \in Ids
        BY <1>3, ListTyped
      <3> QED
        BY <2>1, <2>3, <2>4, <3>1, <3>2 DEF Restoring, RestoresListed
    <2>6. RestoresQueued(r, g, res)
      <3> SUFFICES ASSUME NEW i \in 1..Len(r.queue), IsRestoreJob(g, r.queue[i])
                   PROVE  RestoreJob(r, g, res, r.queue[i])
        BY DEF RestoresQueued
      <3>1. IsRestoreJob(h, r.queue[i])
        BY <2>2 DEF IsRestoreJob
      <3>2. RestoreJob(r, h, res, r.queue[i])
        BY <2>1, <3>1 DEF Restoring, RestoresQueued
      <3>3. r.queue[i] \in JobRecord
        BY <1>3 DEF Runtime
      <3>4. r.queue[i].caps.chained \in Ids
        BY <3>3 DEF JobRecord, Captures
      <3> QED
        BY <2>3, <2>4, <3>2, <3>4 DEF RestoreJob
    <2>7. Returned(r, g, res)
      <3> SUFFICES ASSUME NEW c \in Ids, g.finallyReturned[c] # NoValue
                   PROVE  /\ g.delivered[c] # NoValue
                          /\ c \notin res
                          /\ g.first[c] = NoValue
                          /\ ~IsPending(r, c) => Passed(r, g, c)
        BY DEF Returned
      <3>1. c # p
        BY <2>2
      <3>2. Passed(r, g, c) <=> Passed(r, h, c)
        BY <2>2 DEF Passed
      <3> QED
        BY <2>1, <2>2, <3>1, <3>2 DEF Restoring, Returned, FirstCalled
    <2> QED
      BY <2>5, <2>6, <2>7 DEF Restoring
  <1>10. Open(g, res, p)
    BY <1>1, <1>2 DEF Open, FirstCalled
  <1> QED
    BY <1>3, <1>4, <1>5, <1>6, <1>7, <1>8, <1>9, <1>10 DEF Sound

\* Recording a call of p leaves the other promises decided.
LEMMA FirstCallDecided ==
    ASSUME NEW r, NEW h \in History, NEW g, NEW p \in Ids, NEW how, NEW v,
           FirstCalled(h, g, p, how, v), FirstDecides(r, h)
    PROVE  DecidedBut(r, g, p)
  <1> SUFFICES ASSUME NEW q \in Ids \ g.again, q # p, g.first[q] # NoValue,
                      g.first[q].how = "resolve"
               PROVE  Decided(r, g, q)
    BY DEF DecidedBut
  <1>1. g.first[q] = h.first[q] /\ q \notin h.again
    BY DEF FirstCalled
  <1>2. Decided(r, h, q)
    BY <1>1, SMTT(30) DEF FirstDecides
  <1> QED
    BY <1>1, <1>2 DEF Decided
-----------------------------------------------------------------------------
(***************************************************************************)
(* A job is taken from the queue.                                          *)
(***************************************************************************)

\* A promise that follows another one is settled by the reaction to it.
LEMMA SettlesDecidedSelf ==
    ASSUME NEW r, NEW s, TypedRuntime(r), NEW h \in History, NEW p \in Ids,
           NEW state \in {"fulfilled", "rejected"}, NEW v, IsPending(r, p), Settles(r, s, p, state, v),
           Decided(r, h, p),
           h.first[p].value \in Ids \ {p} => /\ r.promise[h.first[p].value].state = state
                                             /\ r.promise[h.first[p].value].value = v
    PROVE  Decided(s, h, p)
  <1> DEFINE w == h.first[p].value
  <1>1. r \in Runtime
    BY DEF TypedRuntime
  <1>2. w \notin Value /\ w # Poisoned
    BY DEF Decided, IsPending, Result
  <1>3. ASSUME w \in Ids \ {p}
        PROVE  /\ ~IsPending(s, p) => ~IsPending(s, w) /\ Result(s, p) = Result(s, w)
               /\ \A x \in Ids : \A i \in 1..Len(Reactions(s, x)) :
                     Reactions(s, x)[i].caps.chained = p =>
                        /\ x = w
                        /\ Reactions(s, x)[i].onFulfilled = "identity_fulfill"
                        /\ Reactions(s, x)[i].onRejected = "identity_reject"
               /\ \A i \in 1..Len(s.queue) : s.queue[i].caps.chained = p =>
                    /\ s.queue[i].fn = IF s.promise[w].state = "fulfilled" THEN "identity_fulfill"
                                       ELSE "identity_reject"
                    /\ ~IsPending(s, w)
                    /\ s.queue[i].arg = s.promise[w].value
    <2>1. /\ \A x \in Ids : \A i \in 1..Len(Reactions(r, x)) :
                     Reactions(r, x)[i].caps.chained = p =>
                        /\ x = w
                        /\ Reactions(r, x)[i].onFulfilled = "identity_fulfill"
                        /\ Reactions(r, x)[i].onRejected = "identity_reject"
          /\ \A i \in 1..Len(r.queue) : r.queue[i].caps.chained = p =>
                    /\ r.queue[i].fn = IF r.promise[w].state = "fulfilled" THEN "identity_fulfill"
                                       ELSE "identity_reject"
                    /\ ~IsPending(r, w)
                    /\ r.queue[i].arg = r.promise[w].value
      BY <1>3 DEF Decided
    <2>2. r.promise[w].state = state /\ r.promise[w].value = v
      BY <1>3
    <2> HIDE DEF w
    <2>3. s.promise[w] = r.promise[w]
      BY <1>3 DEF Settles
    <2>4. ~IsPending(s, w) /\ Result(s, p) = Result(s, w)
      BY <2>2, <2>3, SMTT(30) DEF IsPending, Result, Settles
    <2>5. \A x \in Ids : \A i \in 1..Len(Reactions(s, x)) :
                     Reactions(s, x)[i].caps.chained = p =>
                        /\ x = w
                        /\ Reactions(s, x)[i].onFulfilled = "identity_fulfill"
                        /\ Reactions(s, x)[i].onRejected = "identity_reject"
      BY <2>1, SMTT(40) DEF Settles, Reactions
    <2>6. ASSUME NEW i \in 1..Len(s.queue), s.queue[i].caps.chained = p
          PROVE  /\ s.queue[i].fn = IF s.promise[w].state = "fulfilled" THEN "identity_fulfill"
                                    ELSE "identity_reject"
                 /\ s.queue[i].arg = s.promise[w].value
      <3>1. CASE i \in 1..Len(r.queue)
        <4>1. s.queue[i] = r.queue[i]
          BY <3>1 DEF Settles
        <4> QED
          BY <2>1, <2>3, <2>6, <3>1, <4>1
      <3>2. ASSUME NEW j \in 1..Len(Reactions(r, p)), i = Len(r.queue) + j
            PROVE  FALSE
        <4>1. Reactions(r, p)[j].caps.chained = p
          BY <2>6, <3>2 DEF Settles
        <4> QED
          BY <1>3, <2>1, <4>1
      <3> QED
        BY <1>1, <3>1, <3>2, SettlesSplit
    <2> QED
      BY <2>4, <2>5, <2>6
  <1> QED
    BY <1>2, <1>3 DEF Decided

\* The first job is taken from the queue.
Dequeues(r, s) ==
    /\ s \in Runtime
    /\ s.minted = r.minted
    /\ s.promise = r.promise
    /\ s.unhandled = r.unhandled
    /\ r.queue # <<>>
    /\ Len(s.queue) = Len(r.queue) - 1
    /\ \A i \in 1..Len(s.queue) : i + 1 \in 1..Len(r.queue) /\ s.queue[i] = r.queue[i + 1]

\* The reaction that c stands for, if it is waiting, is given the outcome of
\* its source.
DeliversTo(r, h, g, c) ==
    /\ g \in History
    /\ g.source = h.source
    /\ g.first = h.first
    /\ g.again = h.again
    /\ g.finallyReturned = h.finallyReturned
    /\ g.consumed = h.consumed
    /\ \A x \in Ids \ {c} : g.delivered[x] = h.delivered[x]
    /\ g.delivered[c] = IF Waiting(h, c) THEN Result(r, h.source[c]) ELSE h.delivered[c]

\* Dequeued.
LEMMA Dequeueing ==
    ASSUME rt \in Runtime, rt.queue # <<>>
    PROVE  Dequeues(rt, Dequeued) /\ Job = rt.queue[1] /\ Job \in JobRecord
           /\ 1 \in 1..Len(rt.queue)
  <1>1. rt.queue \in Seq(JobRecord)
    BY DEF Runtime
  <1> DEFINE q == rt.queue
             t == Tail(q)
  <1>2. /\ t \in Seq(JobRecord)
        /\ Len(q) \in Nat /\ Len(q) > 0
        /\ Len(t) = Len(q) - 1
        /\ Head(q) = q[1] /\ Head(q) \in JobRecord
        /\ \A k \in 1..Len(t) : k + 1 \in 1..Len(q) /\ t[k] = q[k + 1]
    <2> HIDE DEF q
    <2>1. q \in Seq(JobRecord) /\ q # <<>>
      BY <1>1 DEF q
    <2> QED
      BY <2>1, Popped
  <1> HIDE DEF t
  <1>3. Dequeued = [rt EXCEPT !.queue = t]
    BY DEF Dequeued, t
  <1>4. /\ Dequeued \in Runtime
        /\ Dequeued.minted = rt.minted
        /\ Dequeued.promise = rt.promise
        /\ Dequeued.unhandled = rt.unhandled
        /\ Dequeued.queue = t
    BY <1>2, <1>3 DEF Runtime
  <1> QED
    BY <1>2, <1>4 DEF Dequeues, Job

\* The first job, if it is the one reaction that c stands for.
LEMMA HeadDelivers ==
    ASSUME NEW r, NEW h \in History, NEW res \in SUBSET Ids, Sound(r, h, res),
           NEW c \in Ids, 1 \in 1..Len(r.queue), r.queue[1].caps.chained = c, Waiting(h, c)
    PROVE  /\ h.source[c] \in Ids
           /\ ~IsPending(r, h.source[c])
           /\ Fits(r.queue[1].fn, r.promise[h.source[c]].state)
           /\ r.queue[1].arg = r.promise[h.source[c]].value
           /\ \A j \in 1..Len(r.queue) : r.queue[j].caps.chained = c => j = 1
           /\ \A q \in Ids : NotOnList(r, q, c)
  <1> DEFINE p == h.source[c]
  <1>1. p \in Ids
    BY DEF Waiting, History
  <1>2. InPlace(r, p, c)
    BY DEF Sound, Placed
  <1> HIDE DEF p
  <1>3. ~IsPending(r, p) /\ InQueue(r, p, c)
    BY <1>2 DEF InPlace, NotInQueue
  <1>4. PICK i \in 1..Len(r.queue) :
           /\ r.queue[i].caps.chained = c
           /\ Fits(r.queue[i].fn, r.promise[p].state)
           /\ r.queue[i].arg = r.promise[p].value
           /\ \A j \in 1..Len(r.queue) : r.queue[j].caps.chained = c => j = i
    BY <1>3 DEF InQueue
  <1>5. i = 1
    BY <1>4
  <1>6. Reactions(r, p) = <<>>
    BY <1>1, <1>3 DEF Sound, TypedRuntime, InOrder
  <1>7. NotOnList(r, p, c)
    BY <1>6 DEF NotOnList
  <1> QED
    BY <1>1, <1>2, <1>3, <1>4, <1>5, <1>7 DEF InPlace, p

\* Delivers gives the reaction the outcome of its source.
LEMMA DeliversShape ==
    ASSUME hist \in History, NEW res \in SUBSET Ids, Sound(rt, hist, res), rt.queue # <<>>
    PROVE  DeliversTo(rt, hist, Delivers(hist), Job.caps.chained)
  <1> DEFINE c == Job.caps.chained
             p == hist.source[c]
             g == Delivers(hist)
  <1>1. rt \in Runtime
    BY DEF Sound, TypedRuntime
  <1>2. Job = rt.queue[1] /\ Job \in JobRecord /\ 1 \in 1..Len(rt.queue)
    BY <1>1, Dequeueing
  <1>3. c \in Ids
    BY <1>2 DEF JobRecord, Captures
  <1>4. CASE Waiting(hist, c)
    <2> DEFINE rec == [state |-> IF Job.fn \in FulfillFns THEN "fulfilled" ELSE "rejected",
                       value |-> Job.arg]
    <2>1. g = [hist EXCEPT !.delivered = [hist.delivered EXCEPT ![c] = rec]]
      BY <1>4 DEF Delivers, Waiting
    <2>2. rec = Result(rt, p) /\ p \in Ids /\ ~IsPending(rt, p)
      <3> HIDE DEF c
      <3>1. /\ p \in Ids
            /\ ~IsPending(rt, p)
            /\ Fits(Job.fn, rt.promise[p].state)
            /\ Job.arg = rt.promise[p].value
        BY <1>2, <1>3, <1>4, HeadDelivers, ZenonT(40) DEF c
      <3>2. FulfillFns \cap RejectFns = {}
        BY DEF FulfillFns, RejectFns
      <3> QED
        BY <3>1, <3>2, SMTT(30) DEF Fits, Result
    <2>3. rec \in Outcomes
      <3>1. rt.promise[p] \in PromiseRecord
        BY <1>1, <2>2 DEF Runtime
      <3> QED
        BY <2>2, <3>1 DEF PromiseRecord, Outcomes, Result, IsPending, States
    <2> HIDE DEF rec, g, c
    <2>4. [hist.delivered EXCEPT ![c] = rec] \in [Ids -> Outcomes \cup {NoValue}]
      BY <1>3, <2>3 DEF History
    <2>5. /\ g \in History
          /\ g.delivered = [hist.delivered EXCEPT ![c] = rec]
          /\ g.source = hist.source /\ g.first = hist.first /\ g.again = hist.again
          /\ g.finallyReturned = hist.finallyReturned /\ g.consumed = hist.consumed
      BY <2>1, <2>4 DEF History
    <2>6. hist.delivered \in [Ids -> Outcomes \cup {NoValue}]
      BY DEF History
    <2> QED
      BY <1>3, <1>4, <2>2, <2>5, <2>6 DEF DeliversTo, c, g
  <1>5. CASE ~Waiting(hist, c)
    <2>1. g = hist
      BY <1>5 DEF Delivers, Waiting
    <2> QED
      BY <1>5, <2>1 DEF DeliversTo
  <1> QED
    BY <1>4, <1>5

\* A job that is not a waiting reaction changes nothing in the history.
LEMMA DeliversNothing ==
    ASSUME NEW r, NEW h \in History, NEW c, ~Waiting(h, c)
    PROVE  DeliversTo(r, h, h, c)
  BY DEF DeliversTo

\* The job at the head of the queue is for c.
MayDequeue(r, s, h, g, res, c) ==
    /\ h \in History /\ res \in SUBSET Ids /\ Sound(r, h, res)
    /\ Dequeues(r, s) /\ c \in Ids /\ 1 \in 1..Len(r.queue) /\ r.queue[1].caps.chained = c
    /\ DeliversTo(r, h, g, c)

\* It is taken, and given what its source is settled with.
LEMMA DequeueSound ==
    ASSUME NEW r, NEW s, NEW h, NEW g, NEW res, NEW c, MayDequeue(r, s, h, g, res, c)
    PROVE  /\ Sound(s, g, res)
           /\ Kept(r, s)
           /\ \A x \in Ids : Fresh(r, x) => Fresh(s, x)
           /\ \A x \in Ids : Decided(r, h, x) => Decided(s, g, x)
           /\ Waiting(h, c) => Fresh(s, c) /\ g.delivered[c] # NoValue
           /\ ~Waiting(g, c)
  <1> USE DEF MayDequeue
  <1>1. /\ r \in Runtime /\ s \in Runtime /\ TypedRuntime(r) /\ InOrder(r)
        /\ Attached(r, h) /\ Placed(r, h) /\ Noted(r, h) /\ CallbacksWait(r, h)
        /\ Unstarted(r, h, res) /\ Restoring(r, h, res)
        /\ s.minted = r.minted /\ s.promise = r.promise /\ s.unhandled = r.unhandled
    BY DEF Sound, TypedRuntime, Dequeues
  <1>2. /\ Len(r.queue) \in Nat /\ Len(s.queue) \in Nat /\ Len(s.queue) = Len(r.queue) - 1
        /\ \A i \in 1..Len(s.queue) : i + 1 \in 1..Len(r.queue) /\ s.queue[i] = r.queue[i + 1]
    BY <1>1, SMTT(30) DEF Dequeues, Runtime
  <1>3. \A i \in 1..Len(s.queue) : \E j \in 1..Len(r.queue) : j # 1 /\ s.queue[i] = r.queue[j]
    <2> TAKE i \in 1..Len(s.queue)
    <2> DEFINE j == i + 1
    <2>1. j \in 1..Len(r.queue) /\ j # 1 /\ s.queue[i] = r.queue[j]
      BY <1>2
    <2> HIDE DEF j
    <2> QED
      BY <2>1
  <1>4. \A q \in Ids : /\ Reactions(s, q) = Reactions(r, q)
                       /\ IsPending(s, q) = IsPending(r, q)
                       /\ Result(s, q) = Result(r, q)
    BY <1>1 DEF Reactions, IsPending, Result
  <1>5. /\ g \in History /\ g.source = h.source /\ g.first = h.first /\ g.again = h.again
        /\ g.finallyReturned = h.finallyReturned /\ g.consumed = h.consumed
        /\ \A x \in Ids \ {c} : g.delivered[x] = h.delivered[x]
        /\ ~Waiting(h, c) => g.delivered[c] = h.delivered[c]
        /\ Waiting(h, c) => g.delivered[c] = Result(r, h.source[c])
    BY DEF DeliversTo
  <1>6. ASSUME Waiting(h, c)
        PROVE  /\ h.source[c] \in Ids
               /\ ~IsPending(r, h.source[c])
               /\ \A j \in 1..Len(r.queue) : r.queue[j].caps.chained = c => j = 1
               /\ \A q \in Ids : NotOnList(r, q, c)
    BY <1>6, HeadDelivers
  <1>7. Waiting(h, c) => g.delivered[c] # NoValue
    <2> SUFFICES ASSUME Waiting(h, c)
                 PROVE  Result(r, h.source[c]) # NoValue
      BY <1>5
    <2>1. r.promise[h.source[c]] \in PromiseRecord
      BY <1>1, <1>6 DEF Runtime
    <2> QED
      BY <1>6, <2>1, NotNullAssumption DEF PromiseRecord, States, Result, IsPending, Plain
  <1>8. ~Waiting(g, c)
    BY <1>5, <1>7 DEF Waiting
  <1>9. \A x \in Ids : Waiting(g, x) => x # c /\ Waiting(h, x)
    BY <1>5, <1>8 DEF Waiting
  <1>10. \A x \in Ids : x # c /\ Waiting(h, x) => Waiting(g, x)
    BY <1>5 DEF Waiting
  <1>11. TypedRuntime(s)
    <2>1. \A i \in 1..Len(s.queue) : s.queue[i].caps.chained <= s.minted
      BY <1>1, <1>3 DEF InOrder
    <2>2. \A i \in 1..Len(s.queue) : s.queue[i].fn # "thenable_job" => s.queue[i].arg \in Plain
      BY <1>1, <1>3 DEF InOrder
    <2> QED
      BY <1>1, <1>4, <2>1, <2>2 DEF TypedRuntime, InOrder
  <1>12. Kept(r, s)
    BY <1>1 DEF Kept, Runtime
  <1>13. Attached(s, g)
    <2> SUFFICES ASSUME NEW x \in Ids
                 PROVE  /\ g.source[x] # NoValue => x <= s.minted /\ g.source[x] <= s.minted
                        /\ g.delivered[x] # NoValue =>
                              /\ g.source[x] # NoValue
                              /\ ~IsPending(s, g.source[x])
                              /\ g.delivered[x] = Result(s, g.source[x])
      BY DEF Attached
    <2>1. g.source[x] # NoValue => x <= s.minted /\ g.source[x] <= s.minted
      BY <1>1, <1>5 DEF Attached
    <2>2. CASE x = c /\ Waiting(h, c)
      BY <1>4, <1>5, <1>6, <2>1, <2>2 DEF Waiting
    <2>3. CASE ~(x = c /\ Waiting(h, c))
      <3>1. g.delivered[x] = h.delivered[x]
        BY <1>5, <2>3
      <3>2. g.source[x] # NoValue => g.source[x] \in Ids
        BY <1>5 DEF History
      <3> QED
        BY <1>1, <1>4, <1>5, <2>1, <3>1, <3>2 DEF Attached
    <2> QED
      BY <2>2, <2>3
  <1>14. Placed(s, g)
    <2> SUFFICES ASSUME NEW x \in Ids, Waiting(g, x)
                 PROVE  InPlace(s, g.source[x], x)
      BY DEF Placed
    <2> DEFINE p == h.source[x]
    <2>1. x # c /\ Waiting(h, x) /\ g.source[x] = p /\ p \in Ids
      BY <1>5, <1>9 DEF Waiting, History
    <2>2. InPlace(r, p, x)
      BY <1>1, <2>1 DEF Placed
    <2> HIDE DEF p
    <2>3. \A q \in Ids : NotOnList(r, q, x) => NotOnList(s, q, x)
      BY <1>4 DEF NotOnList
    <2>4. OnList(r, p, x) => OnList(s, p, x)
      BY <1>4, <2>1 DEF OnList
    <2>5. NotInQueue(r, x) => NotInQueue(s, x)
      BY <1>3 DEF NotInQueue
    <2>6. ASSUME InQueue(r, p, x)
          PROVE  InQueue(s, p, x)
      <3> PICK i \in 1..Len(r.queue) :
              /\ r.queue[i].caps.chained = x
              /\ Fits(r.queue[i].fn, r.promise[p].state)
              /\ r.queue[i].arg = r.promise[p].value
              /\ \A j \in 1..Len(r.queue) : r.queue[j].caps.chained = x => j = i
        BY <2>6 DEF InQueue
      <3>1. i # 1
        BY <2>1
      <3> DEFINE k == i - 1
      <3>2. k \in 1..Len(s.queue) /\ s.queue[k] = r.queue[i]
        BY <1>2, <3>1
      <3>3. \A j \in 1..Len(s.queue) : s.queue[j].caps.chained = x => j = k
        BY <1>2, SMTT(30)
      <3> HIDE DEF k
      <3> QED
        BY <1>1, <3>2, <3>3 DEF InQueue
    <2> QED
      BY <1>4, <2>1, <2>2, <2>3, <2>4, <2>5, <2>6 DEF InPlace
  <1>15. Noted(s, g)
    <2>1. \A q : Chains(g, q) <=> Chains(h, q)
      BY <1>5 DEF Chains
    <2> QED
      BY <1>1, <1>4, <1>5, <2>1 DEF Noted
  <1>16. CallbacksWait(s, g)
    <2>1. ASSUME NEW q \in Ids, NEW i \in 1..Len(Reactions(s, q)),
                 \/ CallsBack(Reactions(s, q)[i].onFulfilled)
                 \/ CallsBack(Reactions(s, q)[i].onRejected)
          PROVE  Waiting(g, Reactions(s, q)[i].caps.chained)
      <3> DEFINE x == Reactions(r, q)[i].caps.chained
      <3>1. Reactions(s, q) = Reactions(r, q) /\ i \in 1..Len(Reactions(r, q))
        BY <1>4, <2>1
      <3>2. Waiting(h, x) /\ x \in Ids
        BY <1>1, <2>1, <3>1, ListTyped DEF CallbacksWait
      <3>3. x # c
        BY <1>6, <3>1, <3>2 DEF NotOnList
      <3> QED
        BY <1>10, <3>1, <3>2, <3>3
    <2>2. ASSUME NEW i \in 1..Len(s.queue), CallsBack(s.queue[i].fn)
          PROVE  Waiting(g, s.queue[i].caps.chained)
      <3>1. PICK j \in 1..Len(r.queue) : j # 1 /\ s.queue[i] = r.queue[j]
        BY <1>3
      <3> DEFINE x == r.queue[j].caps.chained
      <3>2. r.queue[j] \in JobRecord
        BY <1>1 DEF Runtime
      <3>3. x \in Ids /\ Waiting(h, x)
        BY <1>1, <2>2, <3>1, <3>2 DEF CallbacksWait, JobRecord, Captures
      <3>4. x # c
        BY <1>6, <3>1, <3>3
      <3> QED
        BY <1>10, <3>1, <3>3, <3>4
    <2> QED
      BY <2>1, <2>2 DEF CallbacksWait
  <1>17. \A x \in Ids : Fresh(r, x) => Fresh(s, x)
    BY <1>3, <1>4, SMTT(40) DEF Fresh, NotOnList, NotInQueue
  <1>18. Unstarted(s, g, res)
    <2>1. \A x \in Ids : Waiting(g, x) =>
             g.first[x] = NoValue /\ IsPending(s, x) /\ x \notin res /\ g.finallyReturned[x] = NoValue
      BY <1>1, <1>4, <1>5, <1>9 DEF Unstarted
    <2>2. \A q \in res : q \in 1..s.minted /\ (g.first[q] = NoValue => Fresh(s, q))
      BY <1>1, <1>5, <1>17 DEF Unstarted
    <2>3. ASSUME NEW i \in 1..Len(s.queue), s.queue[i].fn = "thenable_job"
          PROVE  LET p == s.queue[i].caps.chained
                 IN  g.first[p] # NoValue /\ (p \notin g.again => g.first[p].value = Thenable)
      <3>1. PICK j \in 1..Len(r.queue) : s.queue[i] = r.queue[j]
        BY <1>3
      <3> DEFINE p == r.queue[j].caps.chained
      <3>2. h.first[p] # NoValue /\ (p \notin h.again => h.first[p].value = Thenable)
        BY <1>1, <2>3, <3>1 DEF Unstarted
      <3> QED
        BY <1>5, <3>1, <3>2
    <2>4. \A p \in Ids : p > s.minted =>
             g.first[p] = NoValue /\ p \notin g.again /\ g.finallyReturned[p] = NoValue
      BY <1>1, <1>5 DEF Unstarted
    <2> QED
      BY <2>1, <2>2, <2>3, <2>4 DEF Unstarted
  <1>19. Restoring(s, g, res)
    <2>1. \A caps : Remembers(s, g, caps) <=> Remembers(r, h, caps)
      BY <1>1, <1>5 DEF Remembers
    <2>2. \A m, x : Restores(g, res, m, x) <=> Restores(h, res, m, x)
      BY <1>5 DEF Restores
    <2>3. \A node : IsRestore(g, node) <=> IsRestore(h, node)
      BY <1>5 DEF IsRestore
    <2>4. RestoresListed(s, g, res)
      BY <1>1, <1>4, <2>1, <2>2, <2>3 DEF Restoring, RestoresListed
    <2>5. \A job : RestoreJob(s, g, res, job) <=> RestoreJob(r, h, res, job)
      BY <1>1, <2>1, <2>2 DEF RestoreJob
    <2>6. \A job : IsRestoreJob(g, job) <=> IsRestoreJob(h, job)
      BY <1>5 DEF IsRestoreJob
    <2>7. RestoresQueued(s, g, res)
      BY <1>1, <1>3, <2>5, <2>6 DEF Restoring, RestoresQueued
    <2>8. \A x : Passed(s, g, x) <=> Passed(r, h, x)
      BY <1>1, <1>5 DEF Passed, Result, IsPending
    <2>9. Returned(s, g, res)
      <3>1. \A x \in Ids : h.delivered[x] # NoValue => g.delivered[x] # NoValue
        BY <1>5 DEF Waiting
      <3> QED
        BY <1>1, <1>4, <1>5, <2>8, <3>1 DEF Restoring, Returned
    <2> QED
      BY <2>4, <2>7, <2>9 DEF Restoring
  <1> HIDE DEF MayDequeue
  <1>20. \A x \in Ids : Decided(r, h, x) => Decided(s, g, x)
    <2> SUFFICES ASSUME NEW x \in Ids, Decided(r, h, x)
                 PROVE  Decided(s, g, x)
      OBVIOUS
    <2> DEFINE w == h.first[x].value
    <2>1. g.first[x].value = w /\ s.promise = r.promise
      BY <1>1, <1>5
    <2>2. \A i \in 1..Len(s.queue) : s.queue[i].caps.chained = x /\ w \in Ids \ {x} =>
                /\ s.queue[i].fn = IF r.promise[w].state = "fulfilled" THEN "identity_fulfill"
                                   ELSE "identity_reject"
                /\ ~IsPending(r, w)
                /\ s.queue[i].arg = r.promise[w].value
      <3> SUFFICES ASSUME NEW i \in 1..Len(s.queue), s.queue[i].caps.chained = x, w \in Ids \ {x}
                   PROVE  /\ s.queue[i].fn = IF r.promise[w].state = "fulfilled" THEN "identity_fulfill"
                                             ELSE "identity_reject"
                          /\ ~IsPending(r, w)
                          /\ s.queue[i].arg = r.promise[w].value
        OBVIOUS
      <3>1. PICK j \in 1..Len(r.queue) : s.queue[i] = r.queue[j]
        BY <1>3
      <3> QED
        BY <3>1 DEF Decided
    <2> HIDE DEF w
    <2>3. /\ w \in Value => Result(r, x) = [state |-> "fulfilled", value |-> w]
          /\ w = Poisoned => Result(r, x) = [state |-> "rejected", value |-> Thrown]
          /\ w \in Ids \ {x} =>
                /\ ~IsPending(r, x) => ~IsPending(r, w) /\ Result(r, x) = Result(r, w)
                /\ \A q \in Ids : \A i \in 1..Len(Reactions(r, q)) :
                      Reactions(r, q)[i].caps.chained = x =>
                          /\ q = w
                          /\ Reactions(r, q)[i].onFulfilled = "identity_fulfill"
                          /\ Reactions(r, q)[i].onRejected = "identity_reject"
      BY DEF Decided, w
    <2> QED
      BY <1>4, <2>1, <2>2, <2>3 DEF Decided
  <1>21. Waiting(h, c) => Fresh(s, c)
    <2> SUFFICES ASSUME Waiting(h, c)
                 PROVE  Fresh(s, c)
      OBVIOUS
    <2>1. IsPending(s, c)
      BY <1>1, <1>4 DEF Unstarted, MayDequeue
    <2>2. \A q \in Ids : NotOnList(s, q, c)
      BY <1>4, <1>6 DEF NotOnList
    <2>3. NotInQueue(s, c)
      BY <1>3, <1>6 DEF NotInQueue
    <2> QED
      BY <2>1, <2>2, <2>3 DEF Fresh
  <1> QED
    BY <1>7, <1>8, <1>11, <1>12, <1>13, <1>14, <1>15, <1>16, <1>17, <1>18, <1>19, <1>20, <1>21
       DEF Sound

\* The resolving functions of p are given to user code.
LEMMA ResolvableSound ==
    ASSUME NEW r, NEW h \in History, NEW res \in SUBSET Ids, Sound(r, h, res),
           NEW p \in Ids, p <= r.minted, ~Waiting(h, p), h.finallyReturned[p] = NoValue,
           h.first[p] = NoValue => Fresh(r, p),
           h.first[p] # NoValue => (p \notin h.again => h.first[p].value = Thenable)
    PROVE  Sound(r, h, res \cup {p})
  <1> DEFINE all == res \cup {p}
  <1>1. r \in Runtime /\ Unstarted(r, h, res) /\ Restoring(r, h, res)
    BY DEF Sound, TypedRuntime
  <1>2. p \in 1..r.minted
    BY <1>1 DEF Runtime, Ids
  <1>3. Unstarted(r, h, all)
    BY <1>1, <1>2 DEF Unstarted
  <1>4. \A m, c \in Ids : Restores(h, res, m, c) => Restores(h, all, m, c)
    <2> SUFFICES ASSUME NEW m \in Ids, NEW c \in Ids, Restores(h, res, m, c), m = p
                 PROVE  h.finallyReturned[c] = Thenable
      BY DEF Restores
    <2>1. /\ h.first[m] = [how |-> "resolve", value |-> h.finallyReturned[c]]
          /\ h.finallyReturned[c] # NoValue
          /\ m \in h.again => h.finallyReturned[c] = Thenable
      BY DEF Restores
    <2>2. h.finallyReturned[c] \in Resolutions
      BY <2>1 DEF History
    <2>3. h.first[m] # NoValue
      BY <2>1, <2>2, NotNullAssumption DEF Resolutions
    <2> QED
      BY <2>1, <2>3
  <1>5. RestoresListed(r, h, all)
    BY <1>1, <1>4, ListTyped DEF Restoring, RestoresListed
  <1>6. RestoresQueued(r, h, all)
    <2>1. \A i \in 1..Len(r.queue) : r.queue[i].caps.chained \in Ids
      <3>1. \A i \in 1..Len(r.queue) : r.queue[i] \in JobRecord
        BY <1>1 DEF Runtime
      <3> QED
        BY <3>1 DEF JobRecord, Captures
    <2> QED
      BY <1>1, <1>4, <2>1 DEF Restoring, RestoresQueued, RestoreJob
  <1>7. Returned(r, h, all)
    BY <1>1 DEF Restoring, Returned
  <1> QED
    BY <1>3, <1>5, <1>6, <1>7 DEF Sound, Restoring
-----------------------------------------------------------------------------
(***************************************************************************)
(* The calls of the program, and the ends of its callbacks.                *)
(***************************************************************************)

\* Every promise but p is decided, and p too, if nothing else was called.
LEMMA AllDecided ==
    ASSUME NEW r, NEW s, NEW h, NEW p \in Ids, DecidedBut(r, h, p), Spares(r, s, h, p),
           p \notin h.again /\ h.first[p] # NoValue /\ h.first[p].how = "resolve" => Decided(s, h, p)
    PROVE  FirstDecides(s, h)
  BY DEF FirstDecides, DecidedBut, Spares

\* A resolving function of p is called with v, or a handler returns it.
LEMMA ResolveCall ==
    ASSUME NEW r, hist \in History, NEW res \in SUBSET Ids, Sound(r, hist, res), FirstDecides(r, hist),
           NEW p \in Ids, p <= r.minted, ~Waiting(hist, p), hist.finallyReturned[p] = NoValue,
           hist.first[p] # NoValue => p \in res, hist.first[p] = NoValue => Fresh(r, p),
           NEW v \in Resolutions, v \in Ids => v <= r.minted
    PROVE  LET g == Follows(FirstCall(p, "resolve", v), p, v)
               s == ResolveValue(r, p, v)
           IN  /\ FirstCalled(hist, g, p, "resolve", v)
               /\ Sound(s, g, res)
               /\ FirstDecides(s, g)
               /\ Spares(r, s, g, p)
  <1> DEFINE g == Follows(FirstCall(p, "resolve", v), p, v)
             s == ResolveValue(r, p, v)
  <1>1. FirstCalled(hist, g, p, "resolve", v) /\ (v \in Ids /\ v # p => v \in g.consumed)
    BY FirstCallShape, FollowsShape
  <1> HIDE DEF g
  <1>2. g \in History
    BY <1>1 DEF FirstCalled
  <1>3. Sound(r, g, res) /\ Open(g, res, p)
    BY <1>1, FirstCallSound
  <1>4. DecidedBut(r, g, p)
    BY <1>1, FirstCallDecided
  <1>5. g.first[p] # NoValue /\ (p \notin g.again => hist.first[p] = NoValue /\ g.first[p].value = v)
    <2>1. [how |-> "resolve", value |-> v] # NoValue
      BY NotNullAssumption DEF Resolutions
    <2> QED
      BY <1>1, <2>1 DEF FirstCalled
  <1>6. /\ Sound(s, g, res)
        /\ Spares(r, s, g, p)
        /\ Fresh(r, p) /\ g.first[p].value = v => Decided(s, g, p)
    BY <1>1, <1>2, <1>3, <1>5, ResolveSound DEF Resolutions
  <1> HIDE DEF s
  <1>7. FirstDecides(s, g)
    BY <1>4, <1>5, <1>6, AllDecided
  <1> QED
    BY <1>1, <1>6, <1>7 DEF s, g

\* A reject function of p is called with v, or a callback throws it.
LEMMA RejectCall ==
    ASSUME NEW r, hist \in History, NEW res \in SUBSET Ids, Sound(r, hist, res), FirstDecides(r, hist),
           NEW p \in Ids, p <= r.minted, ~Waiting(hist, p), hist.finallyReturned[p] = NoValue,
           hist.first[p] # NoValue => p \in res, NEW v \in Value
    PROVE  LET g == FirstCall(p, "reject", v)
               s == Reject(r, p, v)
           IN  /\ FirstCalled(hist, g, p, "reject", v)
               /\ Sound(s, g, res)
               /\ FirstDecides(s, g)
               /\ Spares(r, s, g, p)
  <1> DEFINE g == FirstCall(p, "reject", v)
             s == Reject(r, p, v)
  <1>1. v \in Resolutions /\ v \in Plain
    BY DEF Resolutions, Plain
  <1>2. FirstCalled(hist, g, p, "reject", v)
    BY <1>1, FirstCallShape
  <1> HIDE DEF g
  <1>3. g \in History
    BY <1>2 DEF FirstCalled
  <1>4. Sound(r, g, res) /\ Open(g, res, p)
    BY <1>1, <1>2, FirstCallSound
  <1>5. DecidedBut(r, g, p)
    BY <1>2, FirstCallDecided
  <1>6. s = Settle(r, p, "rejected", v)
    BY DEF Reject
  <1> HIDE DEF s
  <1>7. Sound(s, g, res) /\ Spares(r, s, g, p)
    BY <1>1, <1>3, <1>4, <1>6, SettleSound
  <1>8. p \in g.again \/ g.first[p].how # "resolve"
    BY <1>2 DEF FirstCalled
  <1>9. FirstDecides(s, g)
    BY <1>5, <1>7, <1>8, AllDecided
  <1> QED
    BY <1>2, <1>7, <1>9 DEF s, g

\* The entry for p in the list of unhandled rejections is marked.
Marks(r, s, p) ==
    /\ s \in Runtime
    /\ s.minted = r.minted
    /\ s.promise = r.promise
    /\ s.queue = r.queue
    /\ Len(s.unhandled) = Len(r.unhandled)
    /\ \A i \in 1..Len(r.unhandled) :
          /\ s.unhandled[i].promise = r.unhandled[i].promise
          /\ r.unhandled[i].promise # p => s.unhandled[i] = r.unhandled[i]
          /\ r.unhandled[i].promise = p => s.unhandled[i].handled

\* __mark_rejection_handled marks the one entry of p, if there is one.
LEMMA Marking ==
    ASSUME NEW r \in Runtime, NEW h, Noted(r, h), NEW p \in Ids
    PROVE  Marks(r, IF r.promise[p].state = "rejected" THEN MarkHandled(r, p) ELSE r, p)
  <1> DEFINE notes == r.unhandled
             hits == {i \in DOMAIN notes : notes[i].promise = p}
             s == IF r.promise[p].state = "rejected" THEN MarkHandled(r, p) ELSE r
  <1>1. notes \in Seq(NoteRecord) /\ DOMAIN notes = 1..Len(notes) /\ Len(notes) \in Nat
    BY DEF Runtime
  <1>2. \A i, j \in 1..Len(notes) : notes[i].promise = notes[j].promise => i = j
    BY DEF Noted
  <1>3. \A i \in 1..Len(notes) : r.promise[notes[i].promise].state = "rejected"
    BY DEF Noted
  <1>4. CASE \A i \in 1..Len(notes) : notes[i].promise # p
    <2>1. s = r
      BY <1>1, <1>4 DEF MarkHandled
    <2> QED
      BY <1>4, <2>1 DEF Marks
  <1>5. ASSUME NEW k \in 1..Len(notes), notes[k].promise = p
        PROVE  Marks(r, s, p)
    <2>1. hits = {k}
      BY <1>1, <1>2, <1>5
    <2>2. Min(hits) = k
      <3> HIDE DEF hits
      <3>1. k \in Int
        OBVIOUS
      <3>2. Min({k}) = k
        BY <3>1 DEF Min
      <3> QED
        BY <2>1, <3>2
    <2>3. s = MarkHandled(r, p)
      BY <1>3, <1>5
    <2> HIDE DEF s
    <2> DEFINE rec == [notes[k] EXCEPT !.handled = TRUE]
               new == [notes EXCEPT ![k] = rec]
    <2>4. s = [r EXCEPT !.unhandled = new]
      BY <2>1, <2>2, <2>3 DEF MarkHandled, Runtime
    <2>5. notes[k] \in NoteRecord
      BY <1>1
    <2>6. rec \in NoteRecord /\ rec.promise = p /\ rec.handled
      BY <1>5, <2>5 DEF NoteRecord
    <2> HIDE DEF rec, notes
    <2>7. /\ new \in Seq(NoteRecord) /\ Len(new) = Len(notes)
          /\ new[k] = rec
          /\ \A i \in 1..Len(notes) : i # k => new[i] = notes[i]
      BY <1>1, <2>6
    <2> HIDE DEF new
    <2>8. /\ s \in Runtime
          /\ s.minted = r.minted /\ s.promise = r.promise /\ s.queue = r.queue
          /\ s.unhandled = new
      BY <2>4, <2>7 DEF Runtime
    <2>9. \A i \in 1..Len(notes) :
             /\ new[i].promise = notes[i].promise
             /\ notes[i].promise # p => new[i] = notes[i]
             /\ notes[i].promise = p => new[i].handled
      BY <1>2, <1>5, <2>6, <2>7
    <2> QED
      BY <2>7, <2>8, <2>9 DEF Marks, notes
  <1> QED
    BY <1>4, <1>5

\* What was decided looks at the promises, the queue and the first calls only.
LEMMA DecidedElsewhere ==
    ASSUME NEW r, NEW s, NEW h, NEW g, NEW x, s.promise = r.promise, s.queue = r.queue,
           g.first = h.first, Decided(r, h, x)
    PROVE  Decided(s, g, x)
  <1>1. \A q : Reactions(s, q) = Reactions(r, q) /\ Result(s, q) = Result(r, q)
               /\ (IsPending(s, q) <=> IsPending(r, q))
    BY DEF Reactions, Result, IsPending
  <1> QED
    BY <1>1 DEF Decided

\* c becomes a reaction of p.
AttachesTo(h, g, p, c) ==
    /\ g \in History
    /\ \A x \in Ids \ {c} : g.source[x] = h.source[x]
    /\ g.source[c] = p
    /\ g.delivered = h.delivered
    /\ g.first = h.first
    /\ g.again = h.again
    /\ g.finallyReturned = h.finallyReturned
    /\ g.consumed = h.consumed

\* The history after a then or a finally on p.
LEMMA AttachShape ==
    ASSUME NEW h \in History, NEW c \in Ids, NEW p \in Ids
    PROVE  AttachesTo(h, [h EXCEPT !.source[c] = p], p, c)
  <1> DEFINE g == [h EXCEPT !.source[c] = p]
             new == [h.source EXCEPT ![c] = p]
  <1>1. g = [h EXCEPT !.source = new]
    OBVIOUS
  <1>2. h.source \in [Ids -> Ids \cup {NoValue}]
    BY DEF History
  <1>3. new \in [Ids -> Ids \cup {NoValue}] /\ new[c] = p /\ \A x \in Ids \ {c} : new[x] = h.source[x]
    BY <1>2
  <1> HIDE DEF g, new
  <1>4. /\ g \in History
        /\ g.source = new
        /\ g.delivered = h.delivered /\ g.first = h.first /\ g.again = h.again
        /\ g.finallyReturned = h.finallyReturned /\ g.consumed = h.consumed
    BY <1>1, <1>3 DEF History
  <1> QED
    BY <1>3, <1>4 DEF AttachesTo, g

\* c is to react to p, and is neither on a list nor in the queue yet.
LEMMA AttachSound ==
    ASSUME NEW r, NEW s, NEW h \in History, NEW g, NEW res \in SUBSET Ids, Sound(r, h, res),
           NEW p \in Ids, p <= r.minted, NEW c \in Ids, c <= r.minted,
           Marks(r, s, p), AttachesTo(h, g, p, c), Fresh(r, c), c \notin res,
           h.source[c] = NoValue, h.delivered[c] = NoValue, h.first[c] = NoValue,
           h.finallyReturned[c] = NoValue
    PROVE  /\ TypedRuntime(s) /\ Attached(s, g) /\ Noted(s, g) /\ CallbacksWait(s, g)
           /\ Unstarted(s, g, res) /\ Restoring(s, g, res)
           /\ \A x \in Ids : Waiting(g, x) /\ x # c => InPlace(s, g.source[x], x)
           /\ \A x \in Ids : Fresh(r, x) => Fresh(s, x)
           /\ \A x \in Ids : Decided(r, h, x) => Decided(s, g, x)
           /\ Waiting(g, c)
  <1>1. /\ r \in Runtime /\ s \in Runtime /\ TypedRuntime(r)
        /\ Attached(r, h) /\ Placed(r, h) /\ Noted(r, h) /\ CallbacksWait(r, h)
        /\ Unstarted(r, h, res) /\ Restoring(r, h, res)
        /\ s.minted = r.minted /\ s.promise = r.promise /\ s.queue = r.queue
    BY DEF Sound, TypedRuntime, Marks
  <1>2. \A q \in Ids : /\ Reactions(s, q) = Reactions(r, q)
                       /\ IsPending(s, q) = IsPending(r, q)
                       /\ Result(s, q) = Result(r, q)
    BY <1>1 DEF Reactions, IsPending, Result
  <1>3. /\ g \in History /\ g.delivered = h.delivered /\ g.first = h.first /\ g.again = h.again
        /\ g.finallyReturned = h.finallyReturned /\ g.consumed = h.consumed /\ g.source[c] = p
        /\ \A x \in Ids \ {c} : g.source[x] = h.source[x]
    BY DEF AttachesTo
  <1>4. p # NoValue
    BY KindsAssumption
  <1>5. Waiting(g, c) /\ \A x \in Ids : x # c => (Waiting(g, x) <=> Waiting(h, x))
    BY <1>3, <1>4 DEF Waiting
  <1>6. \A q \in Ids : \A i \in 1..Len(Reactions(r, q)) :
           Reactions(r, q)[i].caps.chained # c /\ Reactions(r, q)[i].caps.chained \in Ids
    BY <1>1, ListTyped DEF Fresh, NotOnList
  <1>7. \A i \in 1..Len(r.queue) : r.queue[i].caps.chained # c /\ r.queue[i].caps.chained \in Ids
    <2>1. \A i \in 1..Len(r.queue) : r.queue[i] \in JobRecord
      BY <1>1 DEF Runtime
    <2> QED
      BY <2>1 DEF JobRecord, Captures, Fresh, NotInQueue
  <1>8. TypedRuntime(s)
    BY <1>1, <1>2 DEF TypedRuntime, InOrder
  <1>9. Attached(s, g)
    <2> SUFFICES ASSUME NEW x \in Ids
                 PROVE  /\ g.source[x] # NoValue => x <= s.minted /\ g.source[x] <= s.minted
                        /\ g.delivered[x] # NoValue =>
                              /\ g.source[x] # NoValue
                              /\ ~IsPending(s, g.source[x])
                              /\ g.delivered[x] = Result(s, g.source[x])
      BY DEF Attached
    <2>1. CASE x = c
      BY <1>1, <1>3, <2>1
    <2>2. CASE x # c
      <3>1. g.source[x] # NoValue => g.source[x] \in Ids
        BY <1>3 DEF History
      <3> QED
        BY <1>1, <1>2, <1>3, <2>2, <3>1 DEF Attached
    <2> QED
      BY <2>1, <2>2
  <1>10. \A x \in Ids : Waiting(g, x) /\ x # c => InPlace(s, g.source[x], x)
    <2> SUFFICES ASSUME NEW x \in Ids, Waiting(g, x), x # c
                 PROVE  InPlace(s, g.source[x], x)
      OBVIOUS
    <2> DEFINE q == h.source[x]
    <2>1. g.source[x] = q /\ q \in Ids /\ InPlace(r, q, x)
      BY <1>1, <1>3, <1>5 DEF Placed, History, Waiting
    <2> HIDE DEF q
    <2>2. \A y \in Ids : NotOnList(s, y, x) = NotOnList(r, y, x)
      BY <1>2 DEF NotOnList
    <2>3. OnList(s, q, x) = OnList(r, q, x)
      BY <1>2, <2>1 DEF OnList
    <2>4. InQueue(s, q, x) = InQueue(r, q, x) /\ NotInQueue(s, x) = NotInQueue(r, x)
      BY <1>1 DEF InQueue, NotInQueue
    <2> QED
      BY <1>2, <2>1, <2>2, <2>3, <2>4 DEF InPlace
  <1>11. Noted(s, g)
    <2> DEFINE n == Len(r.unhandled)
    <2>1. /\ Len(s.unhandled) = n
          /\ \A i \in 1..n :
                /\ s.unhandled[i].promise = r.unhandled[i].promise
                /\ r.unhandled[i].promise # p => s.unhandled[i] = r.unhandled[i]
                /\ r.unhandled[i].promise = p => s.unhandled[i].handled
      BY DEF Marks
    <2>2. /\ \A i \in 1..n :
                /\ r.unhandled[i].promise <= r.minted
                /\ r.promise[r.unhandled[i].promise].state = "rejected"
          /\ \A i, j \in 1..n : r.unhandled[i].promise = r.unhandled[j].promise => i = j
      BY <1>1 DEF Noted
    <2>3. Chains(g, p) /\ \A q \in Ids : q # p => (Chains(g, q) <=> Chains(h, q))
      <3>1. Chains(g, p)
        BY <1>3 DEF Chains
      <3>2. \A q \in Ids : q # NoValue
        BY KindsAssumption
      <3>3. ASSUME NEW q \in Ids, q # p
            PROVE  Chains(g, q) <=> Chains(h, q)
        <4>1. \A x \in Ids : g.source[x] = q <=> h.source[x] = q
          BY <1>3, <3>2, <3>3
        <4> QED
          BY <4>1 DEF Chains
      <3> QED
        BY <3>1, <3>3
    <2>4. ASSUME NEW q \in Ids \ g.consumed
          PROVE  /\ s.promise[q].state = "rejected" /\ ~Chains(g, q) =>
                       \E i \in 1..Len(s.unhandled) :
                           s.unhandled[i].promise = q /\ ~s.unhandled[i].handled
                 /\ Chains(g, q) => \A i \in 1..Len(s.unhandled) :
                       s.unhandled[i].promise = q => s.unhandled[i].handled
                 /\ \A i \in 1..Len(Reactions(s, q)) :
                       g.source[Reactions(s, q)[i].caps.chained] = q
      <3>1. q \in Ids \ h.consumed
        BY <1>3
      <3>2. \A i \in 1..Len(Reactions(s, q)) : g.source[Reactions(s, q)[i].caps.chained] = q
        BY <1>1, <1>2, <1>3, <1>6, <3>1 DEF Noted
      <3>3. CASE q = p
        BY <2>1, <2>3, <3>2, <3>3
      <3>4. CASE q # p
        <4>1. Chains(g, q) <=> Chains(h, q)
          BY <2>3, <3>4
        <4>2. /\ r.promise[q].state = "rejected" /\ ~Chains(h, q) =>
                   \E i \in 1..n : r.unhandled[i].promise = q /\ ~r.unhandled[i].handled
              /\ Chains(h, q) => \A i \in 1..n :
                       r.unhandled[i].promise = q => r.unhandled[i].handled
          BY <1>1, <3>1 DEF Noted
        <4>3. \A i \in 1..n : r.unhandled[i].promise = q <=> s.unhandled[i].promise = q
          BY <2>1
        <4>4. \A i \in 1..n : r.unhandled[i].promise = q => s.unhandled[i] = r.unhandled[i]
          BY <2>1, <3>4
        <4> HIDE DEF n
        <4> QED
          BY <1>1, <2>1, <3>2, <4>1, <4>2, <4>3, <4>4
      <3> QED
        BY <3>3, <3>4
    <2> QED
      BY <1>1, <2>1, <2>2, <2>4 DEF Noted
  <1>12. CallbacksWait(s, g)
    BY <1>1, <1>2, <1>5, <1>6, <1>7 DEF CallbacksWait
  <1>13. \A x \in Ids : Fresh(r, x) <=> Fresh(s, x)
    BY <1>1, <1>2, SMTT(30) DEF Fresh, NotOnList, NotInQueue
  <1>14. Unstarted(s, g, res)
    <2>1. \A x \in Ids : Waiting(g, x) =>
             g.first[x] = NoValue /\ IsPending(s, x) /\ x \notin res /\ g.finallyReturned[x] = NoValue
      <3>1. IsPending(s, c)
        BY <1>2 DEF Fresh
      <3> QED
        BY <1>1, <1>2, <1>3, <1>5, <3>1 DEF Unstarted
    <2> QED
      BY <1>1, <1>3, <1>13, <2>1 DEF Unstarted
  <1>15. Restoring(s, g, res)
    <2>1. \A caps : caps.chained \in Ids /\ caps.chained # c =>
                       (Remembers(s, g, caps) <=> Remembers(r, h, caps))
      BY <1>1, <1>3 DEF Remembers
    <2>2. \A m, x : Restores(g, res, m, x) <=> Restores(h, res, m, x)
      BY <1>3 DEF Restores
    <2>3. \A node : IsRestore(g, node) <=> IsRestore(h, node)
      BY <1>3 DEF IsRestore
    <2>4. RestoresListed(s, g, res)
      BY <1>1, <1>2, <1>6, <2>1, <2>2, <2>3 DEF Restoring, RestoresListed
    <2>5. \A job : job.caps.chained \in Ids /\ job.caps.chained # c =>
                      (RestoreJob(s, g, res, job) <=> RestoreJob(r, h, res, job))
      BY <1>1, <2>1, <2>2 DEF RestoreJob
    <2>6. \A job : IsRestoreJob(g, job) <=> IsRestoreJob(h, job)
      BY <1>3 DEF IsRestoreJob
    <2>7. RestoresQueued(s, g, res)
      BY <1>1, <1>7, <2>5, <2>6 DEF Restoring, RestoresQueued
    <2>8. \A x \in Ids : x # c => (Passed(s, g, x) <=> Passed(r, h, x))
      BY <1>1, <1>3 DEF Passed, Result, IsPending
    <2>9. Returned(s, g, res)
      BY <1>1, <1>2, <1>3, <2>8 DEF Restoring, Returned
    <2> QED
      BY <2>4, <2>7, <2>9 DEF Restoring
  <1>16. \A x \in Ids : Decided(r, h, x) => Decided(s, g, x)
    <2>1. s.promise = r.promise /\ s.queue = r.queue /\ g.first = h.first
      BY <1>1, <1>3
    <2> QED
      BY <2>1, DecidedElsewhere
  <1> QED
    BY <1>5, <1>8, <1>9, <1>10, <1>11, <1>12, <1>13, <1>14, <1>15, <1>16

\* then and finally, after the chained promise c was allocated.
LEMMA ReactSound ==
    ASSUME NEW r, NEW h \in History, NEW g, NEW res \in SUBSET Ids, Sound(r, h, res),
           FirstDecides(r, h),
           NEW p \in Ids, p <= r.minted, NEW c \in Ids, c <= r.minted,
           AttachesTo(h, g, p, c), Fresh(r, c), c \notin res,
           h.source[c] = NoValue, h.delivered[c] = NoValue, h.first[c] = NoValue,
           h.finallyReturned[c] = NoValue,
           NEW onFul \in FulfillFns, NEW onRej \in RejectFns
    PROVE  LET s == ReactAndMark(r, p, onFul, onRej, Caps(c))
           IN  /\ Sound(s, g, res)
               /\ FirstDecides(s, g)
               /\ s.minted = r.minted
               /\ Kept(r, s)
               /\ \A x \in Ids : x # c /\ Fresh(r, x) => Fresh(s, x)
  <1> DEFINE t == IF r.promise[p].state = "rejected" THEN MarkHandled(r, p) ELSE r
             s == React(t, p, onFul, onRej, Caps(c))
  <1>1. ReactAndMark(r, p, onFul, onRej, Caps(c)) = s
    BY DEF ReactAndMark
  <1>2. r \in Runtime /\ Noted(r, h)
    BY DEF Sound, TypedRuntime
  <1>3. Marks(r, t, p)
    BY <1>2, Marking
  <1> HIDE DEF t
  <1>4. /\ TypedRuntime(t) /\ Attached(t, g) /\ Noted(t, g) /\ CallbacksWait(t, g)
        /\ Unstarted(t, g, res) /\ Restoring(t, g, res)
        /\ \A x \in Ids : Waiting(g, x) /\ x # c => InPlace(t, g.source[x], x)
        /\ \A x \in Ids : Fresh(r, x) => Fresh(t, x)
        /\ \A x \in Ids : Decided(r, h, x) => Decided(t, g, x)
        /\ Waiting(g, c)
    BY <1>3, AttachSound
  <1>5. /\ g \in History /\ g.source[c] = p /\ g.first = h.first /\ g.again = h.again
        /\ g.finallyReturned[c] = NoValue
        /\ t \in Runtime /\ t.minted = r.minted /\ t.promise = r.promise
    BY <1>3 DEF AttachesTo, Marks
  <1>6. Caps(c) \in Captures /\ Caps(c).chained = c
    BY DEF Caps, Captures, Plain
  <1>7. (\A q \in Ids : NotOnList(t, q, c)) /\ NotInQueue(t, c)
    BY <1>4 DEF Fresh
  <1>8. Kept(r, t)
    BY <1>2, <1>5 DEF Kept, Runtime
  <1>9. t.promise[p] \in PromiseRecord
    BY <1>5 DEF Runtime
  <1>10. ASSUME NEW u, \A x \in Ids : x # c /\ Decided(t, g, x) => Decided(u, g, x)
         PROVE  FirstDecides(u, g)
    BY <1>4, <1>5, <1>10 DEF FirstDecides
  <1>11. ASSUME NEW u, Kept(t, u)
         PROVE  Kept(r, u)
    BY <1>5, <1>11 DEF Kept, IsPending
  <1>12. CASE IsPending(t, p)
    <2> DEFINE node == [onFulfilled |-> onFul, onRejected |-> onRej, caps |-> Caps(c)]
    <2>1. Lists(t, s, p, node)
      BY <1>5, <1>6, <1>12, Listing
    <2>2. node.caps.chained = c /\ node.onFulfilled = onFul /\ node.onRejected = onRej
      BY <1>6
    <2> HIDE DEF s, node
    <2>3. ~IsRestore(g, node)
      BY <1>5, <2>2 DEF IsRestore, FulfillFns, RejectFns
    <2>4. TypedRuntime(s) /\ s \in Runtime /\ s.minted = r.minted
      BY <1>4, <1>5, <1>12, <2>1, <2>2, ListsInOrder DEF Lists
    <2>5. Kept(t, s)
      BY <1>5, <2>1, ListsKept
    <2>6. Attached(s, g)
      BY <1>4, <1>5, <2>4, <2>5, KeptAttached
    <2>7. Placed(s, g)
      BY <1>4, <1>5, <1>7, <1>12, <2>1, <2>2, ListsPlaced
    <2>8. Noted(s, g)
      BY <1>4, <1>5, <2>1, <2>2, ListsNoted
    <2>9. CallbacksWait(s, g)
      BY <1>4, <2>1, <2>2, ListsCallbacksWait
    <2>10. Unstarted(s, g, res)
      BY <1>4, <1>5, <2>1, <2>2, ListsUnstarted
    <2>11. Restoring(s, g, res)
      BY <1>4, <1>5, <2>1, <2>3, ListsRestoring
    <2>12. \A x \in Ids : x # c /\ Fresh(r, x) => Fresh(s, x)
      BY <1>4, <2>1, <2>2, ListsFresh
    <2>13. \A x \in Ids : x # c /\ Decided(t, g, x) => Decided(s, g, x)
      BY <1>4, <1>5, <2>1, <2>2, ListsDecided
    <2>14. FirstDecides(s, g) /\ Kept(r, s)
      BY <1>10, <1>11, <2>5, <2>13
    <2> QED
      BY <1>1, <2>4, <2>6, <2>7, <2>8, <2>9, <2>10, <2>11, <2>12, <2>14 DEF Sound, s
  <1>13. CASE ~IsPending(t, p)
    <2> DEFINE fn == IF t.promise[p].state = "fulfilled" THEN onFul ELSE onRej
               job == [fn |-> fn, caps |-> Caps(c), arg |-> t.promise[p].value]
    <2>1. s = Enqueue(t, fn, Caps(c), t.promise[p].value)
      BY <1>9, <1>13 DEF React, IsPending, PromiseRecord, States
    <2>2. fn \in ReactionFns /\ t.promise[p].value \in Plain /\ fn \notin RestoreFns
          /\ fn # "thenable_job" /\ Fits(fn, t.promise[p].state)
      BY <1>9, <1>13 DEF ReactionFns, FulfillFns, RejectFns, PromiseRecord, RestoreFns, Fits, States,
                         IsPending
    <2>3. Queues(t, s, job)
      BY <1>5, <1>6, <2>1, <2>2, Queueing
    <2>4. job.caps.chained = c /\ job.arg = t.promise[p].value /\ job.arg \in Plain /\ job.fn = fn
      BY <1>6, <2>2
    <2> HIDE DEF s, job, fn
    <2>5. job.fn # "thenable_job" /\ ~IsRestoreJob(g, job)
      BY <1>5, <2>2, <2>4 DEF IsRestoreJob
    <2>6. TypedRuntime(s) /\ s \in Runtime /\ s.minted = r.minted
      BY <1>4, <1>5, <2>3, <2>4, QueuesInOrder DEF Queues
    <2>7. Kept(t, s)
      BY <1>5, <2>3, QueuesKept
    <2>8. Attached(s, g)
      BY <1>4, <1>5, <2>6, <2>7, KeptAttached
    <2>9. Placed(s, g)
      BY <1>4, <1>5, <1>7, <1>13, <2>2, <2>3, <2>4, QueuesPlaced
    <2>10. Noted(s, g)
      BY <1>4, <2>3, QueuesNoted
    <2>11. CallbacksWait(s, g)
      BY <1>4, <2>3, <2>4, QueuesCallbacksWait
    <2>12. Unstarted(s, g, res)
      BY <1>4, <1>5, <2>3, <2>4, <2>5, QueuesUnstarted
    <2>13. Restoring(s, g, res)
      BY <1>4, <1>5, <2>3, <2>5, QueuesRestoring
    <2>14. \A x \in Ids : x # c /\ Fresh(r, x) => Fresh(s, x)
      BY <1>4, <2>3, <2>4, QueuesFresh
    <2>15. \A x \in Ids : x # c /\ Decided(t, g, x) => Decided(s, g, x)
      BY <1>4, <1>5, <2>3, <2>4, QueuesDecided
    <2>16. FirstDecides(s, g) /\ Kept(r, s)
      BY <1>10, <1>11, <2>7, <2>15
    <2> QED
      BY <1>1, <2>6, <2>8, <2>9, <2>10, <2>11, <2>12, <2>13, <2>14, <2>16 DEF Sound, s
  <1> QED
    BY <1>12, <1>13

\* Promise.reject: as if the new promise were rejected after its allocation.
LEMMA BornRejected ==
    ASSUME NEW r \in Runtime, r.minted < 2 * MaxCalls, NEW v \in Plain
    PROVE  Settles(Mint(r, NewPromise),
                   NoteUnhandled(Mint(r, [NewPromise EXCEPT !.state = "rejected", !.value = v]),
                                 r.minted + 1),
                   r.minted + 1, "rejected", v)
  <1> DEFINE n == r.minted + 1
             rec == [NewPromise EXCEPT !.state = "rejected", !.value = v]
             a == Mint(r, NewPromise)
             b == Mint(r, rec)
             note == [promise |-> n, handled |-> FALSE]
             s == NoteUnhandled(b, n)
  <1>1. NewPromise \in PromiseRecord /\ NewPromise.callbacks = <<>>
    BY DEF NewPromise, PromiseRecord, States, Plain
  <1>2. rec \in PromiseRecord /\ rec.state = "rejected" /\ rec.value = v /\ rec.callbacks = <<>>
    <2> DEFINE half == [NewPromise EXCEPT !.state = "rejected"]
    <2>1. half \in PromiseRecord /\ half.state = "rejected" /\ half.callbacks = <<>>
      BY <1>1 DEF PromiseRecord, States
    <2>2. rec = [half EXCEPT !.value = v]
      OBVIOUS
    <2> HIDE DEF half, rec
    <2> QED
      BY <2>1, <2>2 DEF PromiseRecord
  <1> HIDE DEF rec
  <1>3. Mints(r, a, NewPromise) /\ n \in Ids
    BY <1>1, Minting
  <1>4. Mints(r, b, rec)
    BY <1>2, Minting
  <1> HIDE DEF a, b
  <1>5. s = [b EXCEPT !.unhandled = <<note>> \o b.unhandled]
    BY DEF NoteUnhandled
  <1>6. b \in Runtime /\ b.unhandled = r.unhandled /\ b.minted = n /\ b.queue = r.queue
        /\ b.promise[n] = rec /\ \A q \in Ids \ {n} : b.promise[q] = r.promise[q]
    BY <1>4 DEF Mints
  <1>7. a \in Runtime /\ a.unhandled = r.unhandled /\ a.minted = n /\ a.queue = r.queue
        /\ a.promise[n] = NewPromise /\ \A q \in Ids \ {n} : a.promise[q] = r.promise[q]
    BY <1>3 DEF Mints
  <1> HIDE DEF n, s
  <1>8. note \in NoteRecord /\ b.unhandled \in Seq(NoteRecord)
    BY <1>3, <1>6 DEF NoteRecord, Runtime
  <1> HIDE DEF note
  <1>9. <<note>> \o b.unhandled \in Seq(NoteRecord)
    BY <1>8, Prepended
  <1>10. /\ s \in Runtime /\ s.minted = b.minted /\ s.promise = b.promise /\ s.queue = b.queue
         /\ s.unhandled = <<note>> \o b.unhandled
    BY <1>5, <1>6, <1>9 DEF Runtime
  <1>11. Reactions(a, n) = <<>> /\ Len(Reactions(a, n)) = 0
    BY <1>1, <1>7 DEF Reactions
  <1>12. Len(a.queue) \in Nat
    BY <1>7 DEF Runtime
  <1>13. Settles(a, s, n, "rejected", v)
    BY <1>2, <1>6, <1>7, <1>10, <1>11, <1>12 DEF Settles, note
  <1> QED
    BY <1>13 DEF a, s, n, b, rec

\* The callback of the finally that c stands for returns v.
ReturnsTo(h, g, c, n, v) ==
    /\ g \in History
    /\ g.source = h.source
    /\ g.delivered = h.delivered
    /\ g.first = h.first
    /\ g.again = h.again
    /\ \A x \in Ids \ {c} : g.finallyReturned[x] = h.finallyReturned[x]
    /\ g.finallyReturned[c] = v
    /\ h.consumed \subseteq g.consumed
    /\ n \in g.consumed
    /\ v \in Ids /\ v # n => v \in g.consumed

\* The history after the callback of a finally has returned v.
LEMMA ReturnShape ==
    ASSUME NEW h \in History, NEW c \in Ids, NEW n \in Ids, NEW v \in Resolutions
    PROVE  ReturnsTo(h, Follows([h EXCEPT !.finallyReturned[c] = v, !.consumed = @ \cup {n}], n, v),
                     c, n, v)
  <1> DEFINE f == [h EXCEPT !.finallyReturned[c] = v, !.consumed = @ \cup {n}]
             new == [h.finallyReturned EXCEPT ![c] = v]
             g == Follows(f, n, v)
  <1>1. f = [h EXCEPT !.finallyReturned = new, !.consumed = h.consumed \cup {n}]
    OBVIOUS
  <1>2. h.finallyReturned \in [Ids -> Resolutions \cup {NoValue}]
    BY DEF History
  <1>3. /\ new \in [Ids -> Resolutions \cup {NoValue}] /\ new[c] = v
        /\ \A x \in Ids \ {c} : new[x] = h.finallyReturned[x]
    BY <1>2
  <1> HIDE DEF new, f
  <1>4. /\ f \in History
        /\ f.finallyReturned = new /\ f.consumed = h.consumed \cup {n}
        /\ f.source = h.source /\ f.delivered = h.delivered /\ f.first = h.first /\ f.again = h.again
    BY <1>1, <1>3 DEF History
  <1>5. CASE v \in Ids /\ v # n
    <2>1. g = [f EXCEPT !.consumed = f.consumed \cup {v}]
      BY <1>5 DEF Follows
    <2> HIDE DEF g
    <2>2. /\ g \in History
          /\ g.finallyReturned = new /\ g.consumed = h.consumed \cup {n} \cup {v}
          /\ g.source = h.source /\ g.delivered = h.delivered /\ g.first = h.first
          /\ g.again = h.again
      BY <1>4, <1>5, <2>1 DEF History
    <2> QED
      BY <1>3, <2>2 DEF ReturnsTo, g, f
  <1>6. CASE ~(v \in Ids /\ v # n)
    <2>1. g = f
      BY <1>6 DEF Follows
    <2> QED
      BY <1>3, <1>4, <1>6, <2>1, ZenonT(40) DEF ReturnsTo, f
  <1> QED
    BY <1>5, <1>6

\* Recording that return keeps the runtime sound.
LEMMA ReturnSound ==
    ASSUME NEW r, NEW h \in History, NEW g, NEW res \in SUBSET Ids, Sound(r, h, res),
           NEW c \in Ids, NEW n, NEW v, ReturnsTo(h, g, c, n, v), Fresh(r, c), c \notin res,
           h.delivered[c] # NoValue, h.first[c] = NoValue
    PROVE  /\ Sound(r, g, res)
           /\ \A x \in Ids : Decided(r, h, x) => Decided(r, g, x)
  <1>1. /\ r \in Runtime /\ TypedRuntime(r)
        /\ Attached(r, h) /\ Placed(r, h) /\ Noted(r, h) /\ CallbacksWait(r, h)
        /\ Unstarted(r, h, res) /\ Restoring(r, h, res)
    BY DEF Sound, TypedRuntime
  <1>2. /\ g \in History /\ g.source = h.source /\ g.delivered = h.delivered
        /\ g.first = h.first /\ g.again = h.again
        /\ \A x \in Ids \ {c} : g.finallyReturned[x] = h.finallyReturned[x]
        /\ h.consumed \subseteq g.consumed
    BY DEF ReturnsTo
  <1>3. \A x : Waiting(g, x) <=> Waiting(h, x)
    BY <1>2 DEF Waiting
  <1>4. ~Waiting(h, c) /\ c <= r.minted
    BY <1>1 DEF Waiting, Attached
  <1>5. \A q \in Ids : \A i \in 1..Len(Reactions(r, q)) :
           Reactions(r, q)[i].caps.chained # c /\ Reactions(r, q)[i].caps.chained \in Ids
    BY <1>1, ListTyped DEF Fresh, NotOnList
  <1>6. \A i \in 1..Len(r.queue) : r.queue[i].caps.chained # c /\ r.queue[i].caps.chained \in Ids
    <2>1. \A i \in 1..Len(r.queue) : r.queue[i] \in JobRecord
      BY <1>1 DEF Runtime
    <2> QED
      BY <2>1 DEF JobRecord, Captures, Fresh, NotInQueue
  <1>7. Attached(r, g)
    BY <1>1, <1>2 DEF Attached
  <1>8. Placed(r, g)
    BY <1>1, <1>2, <1>3 DEF Placed
  <1>9. Noted(r, g)
    <2>1. \A q : Chains(g, q) <=> Chains(h, q)
      BY <1>2 DEF Chains
    <2>2. Ids \ g.consumed \subseteq Ids \ h.consumed
      BY <1>2
    <2> QED
      BY <1>1, <1>2, <2>1, <2>2 DEF Noted
  <1>10. CallbacksWait(r, g)
    BY <1>1, <1>3 DEF CallbacksWait
  <1>11. Unstarted(r, g, res)
    <2>1. \A q \in Ids : q > r.minted => q # c
      BY <1>1, <1>4 DEF Runtime, Ids
    <2>2. \A x \in Ids : Waiting(g, x) =>
             g.first[x] = NoValue /\ IsPending(r, x) /\ x \notin res /\ g.finallyReturned[x] = NoValue
      BY <1>1, <1>2, <1>3, <1>4 DEF Unstarted
    <2> QED
      BY <1>1, <1>2, <2>1, <2>2, SMTT(40) DEF Unstarted
  <1>12. Restoring(r, g, res)
    <2>1. \A caps : Remembers(r, g, caps) <=> Remembers(r, h, caps)
      BY <1>2 DEF Remembers
    <2>2. \A m, x \in Ids : x # c => (Restores(g, res, m, x) <=> Restores(h, res, m, x))
      BY <1>2 DEF Restores
    <2>3. \A q \in Ids : \A i \in 1..Len(Reactions(r, q)) :
             IsRestore(g, Reactions(r, q)[i]) <=> IsRestore(h, Reactions(r, q)[i])
      BY <1>2, <1>5 DEF IsRestore
    <2>4. RestoresListed(r, g, res)
      BY <1>1, <1>5, <2>1, <2>2, <2>3 DEF Restoring, RestoresListed
    <2>5. \A i \in 1..Len(r.queue) :
             /\ IsRestoreJob(g, r.queue[i]) <=> IsRestoreJob(h, r.queue[i])
             /\ RestoreJob(r, g, res, r.queue[i]) <=> RestoreJob(r, h, res, r.queue[i])
      BY <1>2, <1>6, <2>1, <2>2 DEF IsRestoreJob, RestoreJob
    <2>6. RestoresQueued(r, g, res)
      BY <1>1, <2>5 DEF Restoring, RestoresQueued
    <2>7. \A x \in Ids : x # c => (Passed(r, g, x) <=> Passed(r, h, x))
      BY <1>2 DEF Passed
    <2>8. IsPending(r, c)
      BY DEF Fresh
    <2>9. Returned(r, g, res)
      BY <1>1, <1>2, <2>7, <2>8 DEF Restoring, Returned
    <2> QED
      BY <2>4, <2>6, <2>9 DEF Restoring
  <1>13. \A x \in Ids : Decided(r, h, x) => Decided(r, g, x)
    BY <1>2 DEF Decided
  <1> QED
    BY <1>1, <1>7, <1>8, <1>9, <1>10, <1>11, <1>12, <1>13 DEF Sound

\* The promise that a finally allocates is born with one reaction.
LEMMA BornRestoring ==
    ASSUME NEW r \in Runtime, r.minted < 2 * MaxCalls, NEW caps \in Captures
    PROVE  LET node == [onFulfilled |-> "restore_settle", onRejected |-> "restore_reject",
                        caps |-> caps]
           IN  Lists(Mint(r, NewPromise), Mint(r, [NewPromise EXCEPT !.callbacks = <<node>>]),
                     r.minted + 1, node)
  <1> DEFINE n == r.minted + 1
             node == [onFulfilled |-> "restore_settle", onRejected |-> "restore_reject",
                      caps |-> caps]
             rec == [NewPromise EXCEPT !.callbacks = <<node>>]
             a == Mint(r, NewPromise)
             b == Mint(r, rec)
  <1>1. /\ NewPromise \in PromiseRecord /\ NewPromise.callbacks = <<>>
        /\ NewPromise.state = "pending" /\ NewPromise.value = NoValue
    BY DEF NewPromise, PromiseRecord, States, Plain
  <1>2. node \in Reaction
    BY DEF Reaction
  <1> HIDE DEF node
  <1>3. <<node>> \in Seq(Reaction) /\ Len(<<node>>) = 1 /\ <<node>>[1] = node
    BY <1>2
  <1>4. /\ rec \in PromiseRecord /\ rec.callbacks = <<node>>
        /\ rec.state = "pending" /\ rec.value = NoValue
    BY <1>3 DEF NewPromise, PromiseRecord, States, Plain
  <1> HIDE DEF rec
  <1>5. Mints(r, a, NewPromise) /\ n \in Ids
    BY <1>1, Minting
  <1>6. Mints(r, b, rec)
    BY <1>4, Minting
  <1> HIDE DEF a, b
  <1>7. b \in Runtime /\ b.unhandled = r.unhandled /\ b.minted = n /\ b.queue = r.queue
        /\ b.promise[n] = rec /\ \A q \in Ids \ {n} : b.promise[q] = r.promise[q]
    BY <1>6 DEF Mints
  <1>8. a \in Runtime /\ a.unhandled = r.unhandled /\ a.minted = n /\ a.queue = r.queue
        /\ a.promise[n] = NewPromise /\ \A q \in Ids \ {n} : a.promise[q] = r.promise[q]
    BY <1>5 DEF Mints
  <1> HIDE DEF n
  <1>9. Len(Reactions(a, n)) = 0 /\ Reactions(b, n) = <<node>>
    BY <1>1, <1>4, <1>7, <1>8 DEF Reactions
  <1>10. Lists(a, b, n, node)
    BY <1>1, <1>3, <1>4, <1>7, <1>8, <1>9 DEF Lists
  <1> QED
    BY <1>10 DEF a, b, n, rec, node

\* The callback of the finally that c stands for returns v: a promise n is
\* allocated that will restore the settlement, and is resolved with v.
MayReturn(res, c, value, isReject, v) ==
    /\ hist \in History /\ res \in SUBSET Ids /\ Sound(rt, hist, res) /\ FirstDecides(rt, hist)
    /\ rt.minted < 2 * MaxCalls /\ c \in Ids /\ hist.delivered[c] # NoValue
    /\ hist.first[c] = NoValue /\ c \notin res /\ Fresh(rt, c)
    /\ value = hist.delivered[c].value
    /\ isReject \in BOOLEAN /\ (isReject <=> hist.delivered[c].state = "rejected")
    /\ v \in Resolutions /\ (v \in Ids => v <= rt.minted)

\* The fresh promise is allocated and resolved, and c waits for it.
ReturnDone(res, c, n, s, g) ==
    /\ Sound(s, g, res) /\ FirstDecides(s, g)
    /\ s.minted = n /\ Kept(rt, s)
    /\ g \in History /\ g.source = hist.source /\ g.delivered = hist.delivered
    /\ \A x \in Ids : x # c /\ Fresh(rt, x) => x = n \/ Fresh(s, x)
    /\ \A x \in Ids : x # c /\ x # n => /\ g.first[x] = hist.first[x]
                                        /\ g.finallyReturned[x] = hist.finallyReturned[x]

\* What __finally_after does.
LEMMA FinallyCall ==
    ASSUME NEW res, NEW c, NEW value, NEW isReject, NEW v, MayReturn(res, c, value, isReject, v)
    PROVE  LET n == rt.minted + 1
               s == FinallyAfter(rt, v, c, value, isReject)
               g == Follows([FirstCall(n, "resolve", v) EXCEPT
                                !.finallyReturned[c] = v, !.consumed = @ \cup {n}], n, v)
           IN  ReturnDone(res, c, n, s, g)
  <1> USE DEF MayReturn
  <1> DEFINE n == rt.minted + 1
             caps == [chained |-> c, value |-> value, isReject |-> isReject]
             node == [onFulfilled |-> "restore_settle", onRejected |-> "restore_reject",
                      caps |-> caps]
             a == Mint(rt, NewPromise)
             b == Mint(rt, [NewPromise EXCEPT !.callbacks = <<node>>])
             s == ResolveValue(b, n, v)
             f == FirstCall(n, "resolve", v)
             g == Follows([f EXCEPT !.finallyReturned[c] = v, !.consumed = @ \cup {n}], n, v)
  <1>1. rt \in Runtime /\ TypedRuntime(rt) /\ Attached(rt, hist)
    BY DEF Sound, TypedRuntime
  <1>2. NewPromise \in PromiseRecord
    BY DEF NewPromise, PromiseRecord, States, Plain
  <1>3. Mints(rt, a, NewPromise) /\ n \in Ids /\ a.minted = n /\ a \in Runtime
    BY <1>1, <1>2, Minting DEF Mints
  <1>4. /\ hist.source[c] # NoValue /\ hist.source[c] \in Ids
        /\ hist.delivered[c] = Result(rt, hist.source[c])
        /\ c <= rt.minted /\ rt.minted \in Nat
    BY <1>1 DEF Attached, History, Runtime
  <1>5. /\ value = rt.promise[hist.source[c]].value
        /\ isReject <=> rt.promise[hist.source[c]].state = "rejected"
    BY <1>4 DEF Result
  <1>6. caps \in Captures /\ caps.chained = c /\ caps.value = value /\ caps.isReject = isReject
    <2>1. rt.promise[hist.source[c]] \in PromiseRecord
      BY <1>1, <1>4 DEF Runtime
    <2>2. value \in Plain
      BY <1>5, <2>1 DEF PromiseRecord
    <2> QED
      BY <2>2 DEF Captures
  <1>7. c # n /\ v # n
    <2>1. c # n
      BY <1>4
    <2> QED
      BY <1>3, <1>4, <2>1 DEF Ids
  <1> HIDE DEF caps
  <1>8. Lists(a, b, n, node)
    BY <1>1, <1>6, BornRestoring
  <1>9. FinallyAfter(rt, v, c, value, isReject) = s
    <2>1. b.minted = n
      BY <1>3, <1>8 DEF Lists
    <2> QED
      BY <2>1 DEF FinallyAfter, caps
  <1>10. node.caps = caps /\ node.onFulfilled = "restore_settle" /\ node.onRejected = "restore_reject"
    OBVIOUS
  <1> HIDE DEF a, b, node
  <1>11. /\ Sound(a, hist, res)
         /\ \A x \in Ids : Fresh(rt, x) => Fresh(a, x)
         /\ \A x \in Ids : Decided(rt, hist, x) => Decided(a, hist, x)
         /\ Fresh(a, n)
         /\ hist.source[n] = NoValue /\ hist.delivered[n] = NoValue /\ hist.first[n] = NoValue
         /\ n \notin hist.again /\ hist.finallyReturned[n] = NoValue /\ n \notin res
    <2>1. a.minted \in Ids
      BY <1>3
    <2>2. /\ Sound(a, hist, res)
          /\ \A x \in Ids : Fresh(rt, x) => Fresh(a, x)
          /\ \A x \in Ids : Decided(rt, hist, x) => Decided(a, hist, x)
          /\ Fresh(a, a.minted)
          /\ hist.source[a.minted] = NoValue /\ hist.delivered[a.minted] = NoValue
          /\ hist.first[a.minted] = NoValue /\ a.minted \notin hist.again
          /\ hist.finallyReturned[a.minted] = NoValue /\ a.minted \notin res
      BY <1>3, <2>1, MintsSound
    <2> QED
      BY <1>3, <2>2
  <1>12. FirstCalled(hist, f, n, "resolve", v)
    BY <1>3, FirstCallShape
  <1> HIDE DEF f
  <1>13. f \in History /\ f.source = hist.source /\ f.delivered = hist.delivered
         /\ f.finallyReturned = hist.finallyReturned /\ f.again = hist.again
         /\ f.first[n] = [how |-> "resolve", value |-> v]
         /\ \A q \in Ids \ {n} : f.first[q] = hist.first[q]
    BY <1>11, <1>12 DEF FirstCalled
  <1> HIDE DEF n
  <1>14. ~Waiting(hist, n) /\ n <= a.minted /\ FirstDecides(a, hist)
    BY <1>3, <1>4, <1>11 DEF Waiting, FirstDecides, n
  <1>15. Sound(a, f, res) /\ DecidedBut(a, f, n)
    BY <1>3, <1>11, <1>12, <1>14, FirstCallSound, FirstCallDecided
  <1>16. ReturnsTo(f, g, c, n, v)
    BY <1>3, <1>13, ReturnShape
  <1> HIDE DEF g
  <1>17. /\ g \in History /\ g.source = hist.source /\ g.delivered = hist.delivered
         /\ g.again = hist.again
         /\ g.first[n] = [how |-> "resolve", value |-> v]
         /\ \A q \in Ids \ {n} : g.first[q] = hist.first[q]
         /\ \A q \in Ids \ {c} : g.finallyReturned[q] = hist.finallyReturned[q]
         /\ g.finallyReturned[c] = v
         /\ n \in g.consumed
         /\ v \in Ids /\ v # n => v \in g.consumed
         /\ g.first = f.first /\ g.again = f.again
    BY <1>13, <1>16 DEF ReturnsTo
  <1>18. Fresh(a, c)
    BY <1>11
  <1>19. Sound(a, g, res) /\ \A x \in Ids : Decided(a, f, x) => Decided(a, g, x)
    BY <1>7, <1>13, <1>15, <1>16, <1>18, ReturnSound
  <1>20. DecidedBut(a, g, n)
    BY <1>15, <1>17, <1>19 DEF DecidedBut
  <1>21. v # NoValue /\ g.first[n] # NoValue /\ g.first[c] = NoValue
    <2>1. v # NoValue
      BY KindsAssumption DEF Resolutions
    <2>2. g.first[n] # NoValue
      BY <1>17, NotNullAssumption DEF Resolutions
    <2> QED
      BY <1>7, <1>17, <2>1, <2>2
  <1>22. /\ TypedRuntime(a) /\ Attached(a, g) /\ Placed(a, g) /\ Noted(a, g) /\ CallbacksWait(a, g)
         /\ Unstarted(a, g, res) /\ Restoring(a, g, res)
    BY <1>19 DEF Sound
  <1>23. Kept(rt, a)
    BY <1>1, <1>3, MintsKept
  <1>24. Kept(a, b)
    BY <1>3, <1>8, ListsKept
  <1>25. IsPending(a, n) /\ ~Waiting(g, c) /\ ~Waiting(g, n)
    BY <1>11, <1>17 DEF Fresh, Waiting
  <1>26. TypedRuntime(b) /\ b \in Runtime /\ b.minted = n
    <2>1. node.caps.chained <= a.minted
      BY <1>3, <1>4, <1>6, <1>10 DEF Ids, n
    <2> QED
      BY <1>3, <1>8, <1>14, <1>22, <1>25, <2>1, ListsInOrder DEF Lists
  <1>27. Sound(b, g, res)
    <2>1. Attached(b, g)
      BY <1>3, <1>17, <1>22, <1>24, <1>26, KeptAttached
    <2>2. Placed(b, g)
      <3>1. \A x \in Ids : Waiting(g, x) => InPlace(a, g.source[x], x)
        BY <1>22 DEF Placed
      <3> QED
        BY <1>3, <1>6, <1>8, <1>10, <1>17, <1>22, <1>25, <3>1, ListsPlaced
    <2>3. Noted(b, g)
      BY <1>3, <1>8, <1>17, <1>22, ListsNoted
    <2>4. CallbacksWait(b, g)
      <3>1. ~CallsBack("restore_settle") /\ ~CallsBack("restore_reject")
        BY DEF CallsBack
      <3> QED
        BY <1>3, <1>8, <1>10, <1>22, <3>1, ListsCallbacksWait
    <2>5. Unstarted(b, g, res)
      BY <1>3, <1>6, <1>8, <1>10, <1>17, <1>22, ListsUnstarted
    <2>6. Restores(g, res, n, c)
      BY <1>7, <1>11, <1>17, <1>21 DEF Restores
    <2>7. Remembers(b, g, node.caps)
      <3>1. Remembers(rt, hist, caps)
        BY <1>5, <1>6 DEF Remembers
      <3>2. ~IsPending(rt, hist.source[c])
        BY <1>1 DEF Attached
      <3>3. /\ b.promise[hist.source[c]].state = rt.promise[hist.source[c]].state
            /\ b.promise[hist.source[c]].value = rt.promise[hist.source[c]].value
        BY <1>4, <1>23, <1>24, <3>2 DEF Kept, IsPending
      <3> QED
        BY <1>6, <1>10, <1>17, <3>1, <3>3 DEF Remembers
    <2>8. Restoring(b, g, res)
      BY <1>3, <1>6, <1>8, <1>10, <1>17, <1>22, <2>6, <2>7, ListsRestoring
    <2> QED
      BY <1>26, <2>1, <2>2, <2>3, <2>4, <2>5, <2>8 DEF Sound
  <1>28. \A x \in Ids : x # c /\ Fresh(a, x) => Fresh(b, x)
    BY <1>3, <1>6, <1>8, <1>10, <1>22, ListsFresh
  <1>29. \A x \in Ids : x # c /\ Decided(a, g, x) => Decided(b, g, x)
    BY <1>3, <1>6, <1>8, <1>10, <1>17, <1>22, ListsDecided
  <1>30. DecidedBut(b, g, n)
    BY <1>20, <1>21, <1>29 DEF DecidedBut
  <1>31. Open(g, res, n)
    BY <1>3, <1>7, <1>11, <1>17, <1>25 DEF Open
  <1>32. Fresh(b, n) /\ n <= b.minted
    BY <1>3, <1>7, <1>11, <1>26, <1>28 DEF Ids
  <1>33. v \in Ids /\ v # n => v <= b.minted
    BY <1>3, <1>4, <1>26 DEF n, Ids
  <1>34. /\ Sound(s, g, res)
         /\ Spares(b, s, g, n)
         /\ Decided(s, g, n)
    BY <1>3, <1>17, <1>21, <1>27, <1>31, <1>32, <1>33, ResolveSound DEF Resolutions
  <1> HIDE DEF s
  <1>35. FirstDecides(s, g)
    BY <1>3, <1>30, <1>34, AllDecided
  <1>36. s.minted = n /\ Kept(b, s)
    BY <1>26, <1>34 DEF Spares
  <1>37. Kept(rt, s)
    <2>1. rt.minted <= s.minted
      BY <1>4, <1>36 DEF n
    <2> QED
      BY <1>23, <1>24, <1>36, <2>1 DEF Kept, IsPending
  <1>38. \A x \in Ids : x # c /\ Fresh(rt, x) => x = n \/ Fresh(s, x)
    BY <1>11, <1>28, <1>34 DEF Spares
  <1>39. ReturnDone(res, c, n, s, g)
    <2> HIDE DEF MayReturn
    <2>1. /\ g \in History /\ g.source = hist.source /\ g.delivered = hist.delivered
          /\ \A x \in Ids : x # c /\ x # n => /\ g.first[x] = hist.first[x]
                                              /\ g.finallyReturned[x] = hist.finallyReturned[x]
      BY <1>17
    <2> QED
      BY <1>34, <1>35, <1>36, <1>37, <1>38, <2>1 DEF ReturnDone
  <1> HIDE DEF MayReturn
  <1> QED
    BY <1>9, <1>39 DEF n, s, g, f
=============================================================================

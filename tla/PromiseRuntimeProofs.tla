------------------------ MODULE PromiseRuntimeProofs ------------------------
(***************************************************************************)
(* Proofs about PromiseRuntime, for every program: any number of calls, in *)
(* any order and from any callback.                                        *)
(*                                                                         *)
(* The inductive invariant adds two things to what PromiseOpsProofs says   *)
(* of the runtime and the history.  Framed: while a then handler or a      *)
(* finally callback runs, nothing but the end of its frame can settle the  *)
(* promise it stands for, however many drains are nested inside it.        *)
(* Budget: allocated promises and the ones finallys will still allocate    *)
(* are paid for by the calls made, so that allocation stays inside Ids.    *)
(***************************************************************************)
EXTENDS PromiseOpsProofs

\* The kinds of the frames of the call stack.
FrameKinds == {"main", "drain", "executor", "handler", "finally", "thenable"}

\* A frame of the call stack.
FrameRecord == [kind : FrameKinds, promise : Nat, value : Plain, isReject : BOOLEAN]

\* The call stack: the entry function or the last drain is at the bottom, and the
\* promise of a handler's or finally's frame is settled by that frame only.
Framed(r, h, st, res) ==
    /\ st # <<>>
    /\ st[Len(st)].kind \in {"main", "drain"}
    /\ \A i \in 1..Len(st) : st[i].kind \notin {"main", "drain"} => st[i].promise \in 1..r.minted
    /\ \A i \in 1..Len(st) : st[i].kind \in {"main", "drain"} => st[i].promise = 0
    /\ \A i \in 1..Len(st) : st[i].kind \in {"executor", "thenable"} => st[i].promise \in res
    /\ \A i \in 1..Len(st) : st[i].kind \in {"handler", "finally"} =>
          LET c == st[i].promise
          IN  /\ h.delivered[c] # NoValue
              /\ h.first[c] = NoValue
              /\ h.finallyReturned[c] = NoValue
              /\ c \notin res
              /\ Fresh(r, c)
              /\ \A j \in 1..Len(st) : st[j].promise = c => j = i
              /\ st[i].kind = "finally" => 
                   /\ st[i].value = h.delivered[c].value
                   /\ st[i].isReject <=> h.delivered[c].state = "rejected"

\* The reactions that may still be a finally whose callback has not returned.
Owed(h, st) ==
    {c \in Ids : h.source[c] # NoValue /\
        (h.delivered[c] = NoValue \/ \E i \in 1..Len(st) : st[i].kind = "finally" /\ st[i].promise = c)}

\* Every call of the program pays for two promises; the second one is owed to
\* a finally.
Budget == rt.minted + Cardinality(Owed(hist, stack)) <= 2 * calls

\* The variables are what they should be.
Typed ==
    /\ TypedRuntime(rt)
    /\ hist \in History
    /\ stack \in Seq(FrameRecord)
    /\ resolvable \in SUBSET Ids
    /\ calls \in 0..MaxCalls
    /\ exit \in {"running", "ok", "unhandled rejection", "uncaught"}
-----------------------------------------------------------------------------
(***************************************************************************)
(* The call stack.                                                         *)
(***************************************************************************)

\* The frames stay right when the promises they stand for are left alone.
LEMMA FramedKept ==
    ASSUME NEW r \in Runtime, NEW s \in Runtime, NEW h, NEW g, NEW st \in Seq(FrameRecord),
           NEW res, NEW all, Framed(r, h, st, res), r.minted <= s.minted, res \subseteq all,
           \A i \in 1..Len(st) : st[i].kind \in {"handler", "finally"} =>
               LET c == st[i].promise
               IN  /\ Fresh(s, c)
                   /\ g.delivered[c] = h.delivered[c]
                   /\ g.first[c] = h.first[c]
                   /\ g.finallyReturned[c] = h.finallyReturned[c]
                   /\ c \in all => c \in res
    PROVE  Framed(s, g, st, all)
  <1>1. r.minted \in Nat /\ s.minted \in Nat
    BY DEF Runtime
  <1>2. \A i \in 1..Len(st) : st[i].kind \notin {"main", "drain"} => st[i].promise \in 1..s.minted
    <2>1. \A i \in 1..Len(st) : st[i].kind \notin {"main", "drain"} => st[i].promise \in 1..r.minted
      BY DEF Framed
    <2>2. 1..r.minted \subseteq 1..s.minted
      BY <1>1
    <2> QED
      BY <2>1, <2>2
  <1>3. \A i \in 1..Len(st) : st[i].kind \in {"executor", "thenable"} => st[i].promise \in all
    BY DEF Framed
  <1>4. ASSUME NEW i \in 1..Len(st), st[i].kind \in {"handler", "finally"}
        PROVE  LET c == st[i].promise
               IN  /\ g.delivered[c] # NoValue
                   /\ g.first[c] = NoValue
                   /\ g.finallyReturned[c] = NoValue
                   /\ c \notin all
                   /\ Fresh(s, c)
                   /\ \A j \in 1..Len(st) : st[j].promise = c => j = i
                   /\ st[i].kind = "finally" =>
                        /\ st[i].value = g.delivered[c].value
                        /\ st[i].isReject <=> g.delivered[c].state = "rejected"
    BY <1>4 DEF Framed
  <1>5. st # <<>> /\ st[Len(st)].kind \in {"main", "drain"}
        /\ \A i \in 1..Len(st) : st[i].kind \in {"main", "drain"} => st[i].promise = 0
    BY DEF Framed
  <1> QED
    BY <1>2, <1>3, <1>4, <1>5 DEF Framed

\* What the frame of a handler or finally callback says of its promise.
LEMMA Held ==
    ASSUME NEW r \in Runtime, NEW h, NEW st \in Seq(FrameRecord), NEW res, Framed(r, h, st, res),
           NEW i \in 1..Len(st), st[i].kind \in {"handler", "finally"}
    PROVE  LET c == st[i].promise
           IN  /\ c \in Ids /\ c <= r.minted
               /\ h.delivered[c] # NoValue
               /\ h.first[c] = NoValue
               /\ h.finallyReturned[c] = NoValue
               /\ c \notin res
               /\ Fresh(r, c)
  <1>1. st[i].kind \notin {"main", "drain"}
    OBVIOUS
  <1>2. st[i].promise \in 1..r.minted
    BY <1>1 DEF Framed
  <1>3. st[i].promise \in Ids /\ st[i].promise <= r.minted
    BY <1>2, MaxCallsAssumption DEF Ids, Runtime
  <1> QED
    BY <1>3 DEF Framed

\* A frame is popped.
LEMMA FramedPop ==
    ASSUME NEW r, NEW h, NEW st \in Seq(FrameRecord), NEW res, Framed(r, h, st, res),
           Head(st).kind \in {"main", "drain"} => Len(st) > 1
    PROVE  /\ Tail(st) \in Seq(FrameRecord)
           /\ Framed(r, h, Tail(st), res)
           /\ Head(st) = st[1] /\ 1 \in 1..Len(st) /\ Head(st) \in FrameRecord
           /\ \A i \in 1..Len(Tail(st)) : i + 1 \in 1..Len(st) /\ Tail(st)[i] = st[i + 1]
           /\ Head(st).kind \in {"handler", "finally"} =>
                 \A i \in 1..Len(Tail(st)) : Tail(st)[i].promise # Head(st).promise
  <1> DEFINE t == Tail(st)
  <1>1. st # <<>> /\ st[Len(st)].kind \in {"main", "drain"}
    BY DEF Framed
  <1>2. /\ t \in Seq(FrameRecord)
        /\ Len(st) \in Nat /\ Len(st) > 0
        /\ Len(t) = Len(st) - 1
        /\ Head(st) = st[1] /\ Head(st) \in FrameRecord
        /\ \A k \in 1..Len(t) : k + 1 \in 1..Len(st) /\ t[k] = st[k + 1]
    BY <1>1, Popped
  <1> HIDE DEF t
  <1>3. Len(st) > 1
    BY <1>1, <1>2
  <1>4. t # <<>> /\ Len(t) \in Nat /\ Len(t) > 0 /\ t[Len(t)] = st[Len(st)]
    BY <1>2, <1>3
  <1>5. ASSUME NEW i \in 1..Len(t)
        PROVE  \E k \in 1..Len(st) : k = i + 1 /\ t[i] = st[k]
    <2> DEFINE k == i + 1
    <2>1. k \in 1..Len(st) /\ t[i] = st[k] /\ k = i + 1
      BY <1>2
    <2> HIDE DEF k
    <2> QED
      BY <2>1
  <1>6. ASSUME NEW i \in 1..Len(t), t[i].kind \in {"handler", "finally"}
        PROVE  LET c == t[i].promise
               IN  /\ h.delivered[c] # NoValue
                   /\ h.first[c] = NoValue
                   /\ h.finallyReturned[c] = NoValue
                   /\ c \notin res
                   /\ Fresh(r, c)
                   /\ \A j \in 1..Len(t) : t[j].promise = c => j = i
                   /\ t[i].kind = "finally" =>
                        /\ t[i].value = h.delivered[c].value
                        /\ t[i].isReject <=> h.delivered[c].state = "rejected"
    <2>1. PICK k \in 1..Len(st) : k = i + 1 /\ t[i] = st[k]
      BY <1>5
    <2>2. LET c == st[k].promise
          IN  /\ h.delivered[c] # NoValue
              /\ h.first[c] = NoValue
              /\ h.finallyReturned[c] = NoValue
              /\ c \notin res
              /\ Fresh(r, c)
              /\ \A j \in 1..Len(st) : st[j].promise = c => j = k
              /\ st[k].kind = "finally" =>
                   /\ st[k].value = h.delivered[c].value
                   /\ st[k].isReject <=> h.delivered[c].state = "rejected"
      BY <1>6, <2>1 DEF Framed
    <2>3. ASSUME NEW j \in 1..Len(t), t[j].promise = t[i].promise
          PROVE  j = i
      <3>1. PICK l \in 1..Len(st) : l = j + 1 /\ t[j] = st[l]
        BY <1>5
      <3> QED
        BY <2>1, <2>2, <2>3, <3>1
    <2> QED
      BY <2>1, <2>2, <2>3
  <1>7. /\ \A i \in 1..Len(t) : t[i].kind \notin {"main", "drain"} => t[i].promise \in 1..r.minted
        /\ \A i \in 1..Len(t) : t[i].kind \in {"main", "drain"} => t[i].promise = 0
        /\ \A i \in 1..Len(t) : t[i].kind \in {"executor", "thenable"} => t[i].promise \in res
    BY <1>5 DEF Framed
  <1>8. Framed(r, h, t, res)
    BY <1>1, <1>4, <1>6, <1>7 DEF Framed
  <1>9. ASSUME Head(st).kind \in {"handler", "finally"}, NEW i \in 1..Len(t)
        PROVE  t[i].promise # Head(st).promise
    <2>1. PICK k \in 1..Len(st) : k = i + 1 /\ t[i] = st[k]
      BY <1>5
    <2>2. 1 \in 1..Len(st) /\ k # 1
      BY <1>2, <2>1
    <2>3. \A j \in 1..Len(st) : st[j].promise = st[1].promise => j = 1
      BY <1>2, <1>9, <2>2 DEF Framed
    <2> QED
      BY <1>2, <2>1, <2>2, <2>3
  <1> QED
    BY <1>2, <1>8, <1>9 DEF t

\* A frame is pushed.
LEMMA FramedPush ==
    ASSUME NEW r \in Runtime, NEW h, NEW st \in Seq(FrameRecord), NEW res, Framed(r, h, st, res),
           NEW f \in FrameRecord,
           f.kind = "drain" => f.promise = 0, f.kind # "main",
           f.kind # "drain" => f.promise \in 1..r.minted,
           f.kind \in {"executor", "thenable"} => f.promise \in res,
           f.kind \in {"handler", "finally"} =>
               /\ h.delivered[f.promise] # NoValue
               /\ h.first[f.promise] = NoValue
               /\ h.finallyReturned[f.promise] = NoValue
               /\ f.promise \notin res
               /\ Fresh(r, f.promise)
               /\ \A j \in 1..Len(st) : st[j].kind \in {"handler", "finally"} =>
                     st[j].promise # f.promise
               /\ f.kind = "finally" =>
                     /\ f.value = h.delivered[f.promise].value
                     /\ f.isReject <=> h.delivered[f.promise].state = "rejected"
    PROVE  <<f>> \o st \in Seq(FrameRecord) /\ Framed(r, h, <<f>> \o st, res)
  <1> DEFINE t == <<f>> \o st
  <1>1. /\ t \in Seq(FrameRecord)
        /\ Len(t) = Len(st) + 1
        /\ t[1] = f
        /\ \A k \in 1..Len(st) : t[k + 1] = st[k]
        /\ \A k \in 1..Len(t) : k = 1 \/ (k - 1 \in 1..Len(st) /\ t[k] = st[k - 1])
    BY Prepended
  <1> HIDE DEF t
  <1>2. st # <<>> /\ st[Len(st)].kind \in {"main", "drain"} /\ Len(st) \in Nat /\ Len(st) > 0
    BY DEF Framed
  <1>3. t # <<>> /\ t[Len(t)] = st[Len(st)]
    BY <1>1, <1>2
  <1>4. \A i \in 1..Len(t) : t[i] = f \/ \E k \in 1..Len(st) : t[i] = st[k]
    BY <1>1
  <1>5. /\ \A i \in 1..Len(t) : t[i].kind \notin {"main", "drain"} => t[i].promise \in 1..r.minted
        /\ \A i \in 1..Len(t) : t[i].kind \in {"main", "drain"} => t[i].promise = 0
        /\ \A i \in 1..Len(t) : t[i].kind \in {"executor", "thenable"} => t[i].promise \in res
    BY <1>4, SMTT(40) DEF Framed
  <1>6. \A j \in 1..Len(st) : st[j].promise = f.promise =>
           f.kind \notin {"handler", "finally"} /\ st[j].kind \notin {"handler", "finally"}
    <2> SUFFICES ASSUME NEW j \in 1..Len(st), st[j].promise = f.promise
                 PROVE  f.kind \notin {"handler", "finally"} /\ st[j].kind \notin {"handler", "finally"}
      OBVIOUS
    <2>1. st[j] \in FrameRecord
      OBVIOUS
    <2>2. st[j].kind \in {"main", "drain", "executor", "thenable", "handler", "finally"}
          /\ f.kind \in {"main", "drain", "executor", "thenable", "handler", "finally"}
      BY <2>1 DEF FrameRecord, FrameKinds
    <2>3. st[j].kind \in {"main", "drain"} => st[j].promise = 0
      BY DEF Framed
    <2>4. st[j].kind \in {"executor", "thenable"} => st[j].promise \in res
      BY DEF Framed
    <2>5. st[j].kind \in {"handler", "finally"} => st[j].promise \notin res /\ st[j].promise \in 1..r.minted
      BY DEF Framed
    <2>6. 0 \notin 1..r.minted
      BY DEF Runtime
    <2> QED
      BY <2>2, <2>3, <2>4, <2>5, <2>6
  <1>7. ASSUME NEW i \in 1..Len(t), t[i].kind \in {"handler", "finally"}
        PROVE  LET c == t[i].promise
               IN  /\ h.delivered[c] # NoValue
                   /\ h.first[c] = NoValue
                   /\ h.finallyReturned[c] = NoValue
                   /\ c \notin res
                   /\ Fresh(r, c)
                   /\ \A j \in 1..Len(t) : t[j].promise = c => j = i
                   /\ t[i].kind = "finally" =>
                        /\ t[i].value = h.delivered[c].value
                        /\ t[i].isReject <=> h.delivered[c].state = "rejected"
    <2>1. CASE i = 1
      <3>1. ASSUME NEW j \in 1..Len(t), t[j].promise = f.promise, j # 1
            PROVE  FALSE
        <4> DEFINE l == j - 1
        <4>1. l \in 1..Len(st) /\ t[j] = st[l]
          BY <1>1, <3>1
        <4> HIDE DEF l
        <4> QED
          BY <1>1, <1>6, <1>7, <2>1, <3>1, <4>1
      <3> QED
        BY <1>1, <1>7, <2>1, <3>1
    <2>2. CASE i # 1
      <3> DEFINE k == i - 1
      <3>1. k \in 1..Len(st) /\ t[i] = st[k] /\ i = k + 1
        BY <1>1, <2>2
      <3> HIDE DEF k
      <3>2. LET c == st[k].promise
            IN  /\ h.delivered[c] # NoValue
                /\ h.first[c] = NoValue
                /\ h.finallyReturned[c] = NoValue
                /\ c \notin res
                /\ Fresh(r, c)
                /\ \A j \in 1..Len(st) : st[j].promise = c => j = k
                /\ st[k].kind = "finally" =>
                     /\ st[k].value = h.delivered[c].value
                     /\ st[k].isReject <=> h.delivered[c].state = "rejected"
        BY <1>7, <3>1 DEF Framed
      <3>3. ASSUME NEW j \in 1..Len(t), t[j].promise = t[i].promise
            PROVE  j = i
        <4>1. j # 1
          BY <1>1, <1>6, <1>7, <3>1, <3>3
        <4> DEFINE l == j - 1
        <4>2. l \in 1..Len(st) /\ t[j] = st[l] /\ j = l + 1
          BY <1>1, <4>1
        <4> HIDE DEF l
        <4> QED
          BY <3>1, <3>2, <3>3, <4>2
      <3> QED
        BY <3>1, <3>2, <3>3
    <2> QED
      BY <2>1, <2>2
  <1>8. Framed(r, h, t, res)
    BY <1>2, <1>3, <1>5, <1>7 DEF Framed
  <1> QED
    BY <1>1, <1>8 DEF t
-----------------------------------------------------------------------------
(***************************************************************************)
(* The number of promises is bounded: a call allocates one, and a finally  *)
(* whose callback has not returned is owed another one.                    *)
(***************************************************************************)

\* Owed is finite.
LEMMA OwedFinite ==
    ASSUME NEW h, NEW st
    PROVE  IsFiniteSet(Owed(h, st)) /\ Cardinality(Owed(h, st)) \in Nat
  <1>1. IsFiniteSet(Ids)
    BY MaxCallsAssumption, FS_Interval DEF Ids
  <1>2. Owed(h, st) \in SUBSET Ids
    BY DEF Owed
  <1> QED
    BY <1>1, <1>2, FS_Subset, FS_CardinalityType

\* It does not grow ...
LEMMA OwedKept ==
    ASSUME NEW h, NEW g, NEW st, NEW t, Owed(g, t) \subseteq Owed(h, st)
    PROVE  Cardinality(Owed(g, t)) <= Cardinality(Owed(h, st))
  BY OwedFinite, FS_Subset

\* ... or grows by one ...
LEMMA OwedMore ==
    ASSUME NEW h, NEW g, NEW st, NEW t, NEW c, Owed(g, t) \subseteq Owed(h, st) \cup {c}
    PROVE  Cardinality(Owed(g, t)) <= Cardinality(Owed(h, st)) + 1
  <1> DEFINE A == Owed(g, t)
             B == Owed(h, st)
  <1>1. IsFiniteSet(B) /\ Cardinality(B) \in Nat /\ Cardinality(A) \in Nat
    BY OwedFinite
  <1> HIDE DEF A, B
  <1>2. IsFiniteSet(B \cup {c}) /\ Cardinality(B \cup {c}) <= Cardinality(B) + 1
        /\ Cardinality(B \cup {c}) \in Nat
    BY <1>1, FS_AddElement
  <1>3. A \in SUBSET (B \cup {c})
    BY DEF A, B
  <1>4. Cardinality(A) <= Cardinality(B \cup {c})
    BY <1>2, <1>3, FS_Subset
  <1> QED
    BY <1>1, <1>2, <1>4 DEF A, B

\* ... or shrinks.
LEMMA OwedLess ==
    ASSUME NEW h, NEW g, NEW st, NEW t, NEW c \in Owed(h, st), Owed(g, t) \subseteq Owed(h, st) \ {c}
    PROVE  Cardinality(Owed(g, t)) + 1 <= Cardinality(Owed(h, st))
  <1> DEFINE A == Owed(g, t)
             B == Owed(h, st)
  <1>1. IsFiniteSet(B) /\ Cardinality(B) \in Nat /\ Cardinality(A) \in Nat /\ c \in B
    BY OwedFinite
  <1> HIDE DEF A, B
  <1>2. IsFiniteSet(B \ {c}) /\ Cardinality(B \ {c}) = Cardinality(B) - 1
    BY <1>1, FS_RemoveElement
  <1>3. A \in SUBSET (B \ {c})
    BY DEF A, B
  <1>4. Cardinality(A) <= Cardinality(B \ {c})
    BY <1>2, <1>3, FS_Subset
  <1> QED
    BY <1>1, <1>2, <1>4 DEF A, B
-----------------------------------------------------------------------------
(***************************************************************************)
(* The inductive invariant.                                                *)
(***************************************************************************)

\* The inductive invariant.
IndInv ==
    /\ Typed
    /\ Sound(rt, hist, resolvable)
    /\ FirstDecides(rt, hist)
    /\ Framed(rt, hist, stack, resolvable)
    /\ Budget

\* What the step owes to the contract: a settled promise stays as it is, and a
\* reaction is given the outcome of its source, once.
Delivery(r, h, g) ==
    \A c \in Ids :
        /\ h.source[c] # NoValue => g.source[c] = h.source[c]
        /\ \/ g.delivered[c] = h.delivered[c]
           \/ /\ h.delivered[c] = NoValue
              /\ h.source[c] # NoValue
              /\ ~IsPending(r, h.source[c])
              /\ g.delivered[c] = Result(r, h.source[c])

\* What a step may do to the promises and to the reactions.
Keeps(r, s, h, g) == Kept(r, s) /\ Delivery(r, h, g)

\* The parts of the invariant.
LEMMA Parts ==
    ASSUME IndInv
    PROVE  /\ rt \in Runtime /\ hist \in History /\ stack \in Seq(FrameRecord)
           /\ resolvable \in SUBSET Ids
           /\ exit \in {"running", "ok", "unhandled rejection", "uncaught"}
           /\ Sound(rt, hist, resolvable) /\ FirstDecides(rt, hist)
           /\ Framed(rt, hist, stack, resolvable)
           /\ Unstarted(rt, hist, resolvable) /\ Restoring(rt, hist, resolvable)
           /\ Attached(rt, hist)
  <1>1. TypedRuntime(rt) /\ hist \in History /\ stack \in Seq(FrameRecord)
        /\ resolvable \in SUBSET Ids
        /\ exit \in {"running", "ok", "unhandled rejection", "uncaught"}
    BY DEF IndInv, Typed
  <1>2. /\ Sound(rt, hist, resolvable) /\ FirstDecides(rt, hist)
        /\ Framed(rt, hist, stack, resolvable)
    BY DEF IndInv
  <1>3. rt \in Runtime
    BY <1>1 DEF TypedRuntime
  <1> QED
    BY <1>1, <1>2, <1>3 DEF Sound

\* Its arithmetic.
LEMMA Counts ==
    ASSUME IndInv
    PROVE  /\ calls \in 0..MaxCalls /\ MaxCalls \in Nat
           /\ rt.minted \in Nat
           /\ Cardinality(Owed(hist, stack)) \in Nat
           /\ rt.minted + Cardinality(Owed(hist, stack)) <= 2 * calls
  <1>1. calls \in 0..MaxCalls
    BY DEF IndInv, Typed
  <1>2. rt.minted \in Nat
    <2>1. rt \in Runtime
      BY Parts
    <2> QED
      BY <2>1 DEF Runtime
  <1>3. rt.minted + Cardinality(Owed(hist, stack)) <= 2 * calls
    BY DEF IndInv, Budget
  <1> QED
    BY <1>1, <1>2, <1>3, MaxCallsAssumption, OwedFinite

\* The invariant of the next state, put together again.
LEMMA Whole ==
    ASSUME Sound(rt', hist', resolvable'), FirstDecides(rt', hist'),
           Framed(rt', hist', stack', resolvable'), hist' \in History, stack' \in Seq(FrameRecord),
           resolvable' \in SUBSET Ids, calls' \in 0..MaxCalls,
           exit' \in {"running", "ok", "unhandled rejection", "uncaught"},
           rt'.minted + Cardinality(Owed(hist', stack')) <= 2 * calls'
    PROVE  IndInv'
  BY DEF IndInv, Typed, Sound, Budget

\* There is room for the promise that a call allocates.
LEMMA Room ==
    ASSUME IndInv, calls < MaxCalls, calls' = calls + 1
    PROVE  /\ rt.minted < 2 * MaxCalls
           /\ calls' \in 0..MaxCalls
           /\ rt.minted + Cardinality(Owed(hist, stack)) + 2 <= 2 * calls'
  <1>1. /\ calls \in 0..MaxCalls /\ MaxCalls \in Nat /\ rt.minted \in Nat
        /\ Cardinality(Owed(hist, stack)) \in Nat
        /\ rt.minted + Cardinality(Owed(hist, stack)) <= 2 * calls
    BY Counts
  <1> DEFINE k == Cardinality(Owed(hist, stack))
             m == rt.minted
  <1> HIDE DEF k, m
  <1>2. calls \in 0..MaxCalls /\ MaxCalls \in Nat /\ m \in Nat /\ k \in Nat /\ m + k <= 2 * calls
    BY <1>1 DEF k, m
  <1>3. m < 2 * MaxCalls /\ calls' \in 0..MaxCalls /\ m + k + 2 <= 2 * calls'
    BY <1>2
  <1> QED
    BY <1>3 DEF k, m

\* A frame that is not a finally's owes nothing.
LEMMA OwedPush ==
    ASSUME NEW h, NEW st \in Seq(FrameRecord), NEW f \in FrameRecord, f.kind # "finally"
    PROVE  Owed(h, <<f>> \o st) \subseteq Owed(h, st)
  <1> DEFINE t == <<f>> \o st
  <1>1. /\ t[1] = f
        /\ \A k \in 1..Len(t) : k = 1 \/ (k - 1 \in 1..Len(st) /\ t[k] = st[k - 1])
    BY Prepended
  <1> HIDE DEF t
  <1>2. \A i \in 1..Len(t) : t[i].kind = "finally" => \E k \in 1..Len(st) : t[i] = st[k]
    BY <1>1
  <1>3. Owed(h, t) \subseteq Owed(h, st)
    BY <1>2 DEF Owed
  <1> QED
    BY <1>3 DEF t

\* A frame that ends owes nothing any more.
LEMMA OwedPop ==
    ASSUME NEW h, NEW st \in Seq(FrameRecord), st # <<>>
    PROVE  Owed(h, Tail(st)) \subseteq Owed(h, st)
  <1> DEFINE t == Tail(st)
  <1>1. \A k \in 1..Len(t) : k + 1 \in 1..Len(st) /\ t[k] = st[k + 1]
    BY Popped
  <1> HIDE DEF t
  <1>2. Owed(h, t) \subseteq Owed(h, st)
    BY <1>1 DEF Owed
  <1> QED
    BY <1>2 DEF t

\* What is owed depends on sources and deliveries only.
LEMMA OwedSame ==
    ASSUME NEW h, NEW g, NEW st, g.source = h.source, g.delivered = h.delivered
    PROVE  Owed(g, st) = Owed(h, st)
  BY DEF Owed

\* A call about p, for which no handler is running, leaves the frames alone.
LEMMA FramedCall ==
    ASSUME NEW r \in Runtime, NEW s \in Runtime, NEW h, NEW g, NEW st \in Seq(FrameRecord), NEW res,
           Framed(r, h, st, res), NEW p, NEW how, NEW v, Spares(r, s, g, p),
           FirstCalled(h, g, p, how, v),
           \A i \in 1..Len(st) : st[i].kind \in {"handler", "finally"} => st[i].promise # p
    PROVE  Framed(s, g, st, res)
  <1>1. r.minted <= s.minted
    BY DEF Spares, Runtime
  <1>2. ASSUME NEW i \in 1..Len(st), st[i].kind \in {"handler", "finally"}
        PROVE  LET c == st[i].promise
               IN  /\ Fresh(s, c)
                   /\ g.delivered[c] = h.delivered[c]
                   /\ g.first[c] = h.first[c]
                   /\ g.finallyReturned[c] = h.finallyReturned[c]
                   /\ c \in res => c \in res
    <2>1. st[i].promise \in Ids /\ Fresh(r, st[i].promise)
      BY <1>2, Held
    <2> QED
      BY <1>2, <2>1 DEF Spares, FirstCalled
  <1> QED
    BY <1>1, <1>2, FramedKept

\* A step that attaches and delivers nothing.
LEMMA DeliveryCall ==
    ASSUME NEW r, NEW h, NEW g, g.source = h.source, g.delivered = h.delivered
    PROVE  Delivery(r, h, g)
  BY DEF Delivery
-----------------------------------------------------------------------------
(***************************************************************************)
(* Every step keeps the invariant.                                         *)
(***************************************************************************)

\* The initial state.
LEMMA InitInv ==
    Init => IndInv
  <1> SUFFICES ASSUME Init
               PROVE  IndInv
    OBVIOUS
  <1>1. /\ rt = NoPromises /\ stack = <<Frame("main", 0)>> /\ resolvable = {} /\ calls = 0
        /\ exit = "running"
        /\ hist.source = [p \in Ids |-> NoValue] /\ hist.delivered = [p \in Ids |-> NoValue]
        /\ hist.first = [p \in Ids |-> NoValue] /\ hist.again = {}
        /\ hist.finallyReturned = [p \in Ids |-> NoValue] /\ hist.consumed = {}
    BY DEF Init
  <1>2. hist \in History
    BY DEF Init, History
  <1>3. NewPromise \in PromiseRecord /\ NewPromise.state = "pending" /\ NewPromise.callbacks = <<>>
    BY DEF NewPromise, PromiseRecord, States, Plain
  <1>4. /\ rt.promise = [p \in Ids |-> NewPromise] /\ rt.minted = 0 /\ rt.queue = <<>>
        /\ rt.unhandled = <<>> /\ rt \in Runtime
    BY <1>1, <1>3, MaxCallsAssumption DEF NoPromises, Runtime
  <1>5. \A p \in Ids : /\ rt.promise[p] = NewPromise
                       /\ IsPending(rt, p)
                       /\ Reactions(rt, p) = <<>>
                       /\ Len(Reactions(rt, p)) = 0
    BY <1>3, <1>4 DEF IsPending, Reactions
  <1>6. Len(rt.queue) = 0 /\ Len(rt.unhandled) = 0
    BY <1>4
  <1>7. \A c \in Ids : /\ hist.source[c] = NoValue /\ hist.delivered[c] = NoValue
                       /\ hist.first[c] = NoValue /\ hist.finallyReturned[c] = NoValue
                       /\ ~Waiting(hist, c) /\ c # NoValue
    BY <1>1, KindsAssumption DEF Waiting
  <1>8. TypedRuntime(rt)
    BY <1>4, <1>5, <1>6 DEF TypedRuntime, InOrder
  <1>9. Attached(rt, hist) /\ Placed(rt, hist)
    BY <1>7 DEF Attached, Placed
  <1>10. Noted(rt, hist)
    <2>1. \A p \in Ids : rt.promise[p].state # "rejected"
      BY <1>3, <1>5
    <2> QED
      BY <1>5, <1>6, <2>1 DEF Noted
  <1>11. CallbacksWait(rt, hist)
    BY <1>5, <1>6 DEF CallbacksWait
  <1>12. Unstarted(rt, hist, resolvable)
    BY <1>1, <1>6, <1>7 DEF Unstarted
  <1>13. Restoring(rt, hist, resolvable)
    BY <1>5, <1>6, <1>7 DEF Restoring, RestoresListed, RestoresQueued, Returned
  <1>14. Sound(rt, hist, resolvable)
    BY <1>8, <1>9, <1>10, <1>11, <1>12, <1>13 DEF Sound
  <1>15. FirstDecides(rt, hist)
    BY <1>7 DEF FirstDecides
  <1>16. Frame("main", 0) \in FrameRecord /\ Frame("main", 0).kind = "main" /\ Frame("main", 0).promise = 0
    BY DEF Frame, FrameRecord, FrameKinds, Plain
  <1>17. stack \in Seq(FrameRecord) /\ Len(stack) = 1 /\ stack[1] = Frame("main", 0) /\ stack # <<>>
    BY <1>1, <1>16
  <1>18. Framed(rt, hist, stack, resolvable)
    BY <1>16, <1>17 DEF Framed
  <1>19. Budget
    <2>1. Owed(hist, stack) = {}
      BY <1>7 DEF Owed
    <2>2. Cardinality(Owed(hist, stack)) = 0
      BY <2>1, FS_EmptySet
    <2> QED
      BY <1>1, <1>4, <2>2 DEF Budget
  <1> QED
    BY <1>1, <1>2, <1>8, <1>14, <1>15, <1>17, <1>18, <1>19, MaxCallsAssumption DEF IndInv, Typed

\* new Promise(executor).
LEMMA NewPromiseWithExecutorInv ==
    ASSUME IndInv, NewPromiseWithExecutor
    PROVE  IndInv' /\ Keeps(rt, rt', hist, hist')
  <1> DEFINE n == rt.minted + 1
             f == Frame("executor", n)
  <1>1. /\ calls < MaxCalls /\ calls' = calls + 1 /\ exit' = exit
        /\ rt' = Mint(rt, NewPromise) /\ stack' = <<f>> \o stack
        /\ resolvable' = resolvable \cup {n} /\ hist' = hist
    BY DEF NewPromiseWithExecutor, Call, Push
  <1>2. NewPromise \in PromiseRecord
    BY DEF NewPromise, PromiseRecord, States, Plain
  <1>3. rt.minted < 2 * MaxCalls /\ calls' \in 0..MaxCalls
        /\ rt.minted + Cardinality(Owed(hist, stack)) + 2 <= 2 * calls'
    BY <1>1, Room
  <1>4. Mints(rt, rt', NewPromise) /\ n \in Ids /\ rt'.minted = n /\ rt' \in Runtime
    BY <1>1, <1>2, <1>3, Minting, Parts, ZenonT(40) DEF Mints
  <1>5. f \in FrameRecord /\ f.kind = "executor" /\ f.promise = n
    BY <1>4 DEF Frame, FrameRecord, FrameKinds, Plain, Ids
  <1> HIDE DEF f, n
  <1>6. /\ Sound(rt', hist, resolvable)
        /\ \A c \in Ids : Fresh(rt, c) => Fresh(rt', c)
        /\ \A c \in Ids : Decided(rt, hist, c) => Decided(rt', hist, c)
        /\ Fresh(rt', n)
        /\ hist.source[n] = NoValue /\ hist.first[n] = NoValue
        /\ hist.finallyReturned[n] = NoValue
    <2>1. rt'.minted \in Ids
      BY <1>4
    <2>2. /\ Sound(rt', hist, resolvable)
          /\ \A c \in Ids : Fresh(rt, c) => Fresh(rt', c)
          /\ \A c \in Ids : Decided(rt, hist, c) => Decided(rt', hist, c)
          /\ Fresh(rt', rt'.minted)
          /\ hist.source[rt'.minted] = NoValue /\ hist.first[rt'.minted] = NoValue
          /\ hist.finallyReturned[rt'.minted] = NoValue
      BY <1>4, <2>1, MintsSound, Parts
    <2> QED
      BY <1>4, <2>2
  <1>7. n <= rt'.minted /\ ~Waiting(hist, n)
    BY <1>4, <1>6 DEF Ids, Waiting
  <1>8. Sound(rt', hist', resolvable')
    BY <1>1, <1>4, <1>6, <1>7, ResolvableSound, Parts
  <1>9. FirstDecides(rt', hist')
    BY <1>1, <1>6, Parts DEF FirstDecides
  <1>10. Framed(rt', hist', stack, resolvable')
    <2>1. rt.minted <= rt'.minted
      BY <1>4, Counts DEF n
    <2>2. ASSUME NEW i \in 1..Len(stack), stack[i].kind \in {"handler", "finally"}
          PROVE  LET c == stack[i].promise
                 IN  /\ Fresh(rt', c)
                     /\ c \in resolvable' => c \in resolvable
      <3>1. stack[i].promise \in Ids /\ stack[i].promise <= rt.minted /\ Fresh(rt, stack[i].promise)
        BY <2>2, Held, Parts
      <3>2. stack[i].promise # n
        BY <3>1, Counts DEF n, Ids
      <3> QED
        BY <1>1, <1>6, <3>1, <3>2
    <2> QED
      BY <1>1, <1>4, <2>1, <2>2, FramedKept, Parts
  <1>11. stack' \in Seq(FrameRecord) /\ Framed(rt', hist', stack', resolvable')
    <2>1. n \in 1..rt'.minted
      BY <1>4 DEF Ids
    <2>2. f.promise \in 1..rt'.minted /\ f.promise \in resolvable'
      BY <1>1, <1>5, <2>1
    <2>3. f.kind \notin {"main", "drain", "handler", "finally"}
      BY <1>5
    <2>4. stack \in Seq(FrameRecord)
      BY Parts
    <2>5. <<f>> \o stack \in Seq(FrameRecord) /\ Framed(rt', hist', <<f>> \o stack, resolvable')
      BY <1>4, <1>5, <1>10, <2>2, <2>3, <2>4, FramedPush
    <2> QED
      BY <1>1, <2>5
  <1>12. rt'.minted + Cardinality(Owed(hist', stack')) <= 2 * calls'
    <2>1. Cardinality(Owed(hist', stack')) <= Cardinality(Owed(hist, stack))
      BY <1>1, <1>5, OwedPush, OwedKept, Parts
    <2>2. Cardinality(Owed(hist', stack')) \in Nat
      BY OwedFinite
    <2> QED
      BY <1>3, <1>4, <2>1, <2>2, Counts DEF n
  <1>13. IndInv'
    BY <1>1, <1>3, <1>4, <1>8, <1>9, <1>11, <1>12, Whole, Parts
  <1>14. Kept(rt, rt')
    BY <1>4, MintsKept, Parts DEF Sound
  <1> QED
    BY <1>1, <1>13, <1>14, DeliveryCall DEF Keeps

\* A resolution is a value, an object or an allocated promise.
LEMMA ResolutionKinds ==
    ASSUME IndInv, NEW v \in Resolution
    PROVE  v \in Resolutions /\ (v \in Ids => v <= rt.minted)
  <1>1. rt \in Runtime
    BY Parts
  <1>2. 1..rt.minted \subseteq Ids
    BY <1>1, MaxCallsAssumption DEF Ids, Runtime
  <1>3. v \in Resolutions
    BY <1>2, ExoticAssumption DEF Resolution, Resolutions
  <1>4. v \in Ids => v \in 1..rt.minted
    BY ExoticAssumption, KindsAssumption DEF Resolution
  <1> QED
    BY <1>3, <1>4, Counts

\* A promise whose resolving functions user code holds.
LEMMA Resolvable ==
    ASSUME IndInv, NEW p \in resolvable
    PROVE  /\ p \in Ids /\ p <= rt.minted /\ ~Waiting(hist, p)
           /\ hist.finallyReturned[p] = NoValue
           /\ hist.first[p] = NoValue => Fresh(rt, p)
           /\ \A i \in 1..Len(stack) : stack[i].kind \in {"handler", "finally"} => stack[i].promise # p
  <1>1. p \in Ids
    BY Parts
  <1>2. Unstarted(rt, hist, resolvable) /\ Restoring(rt, hist, resolvable)
    BY Parts
  <1>3. p \in 1..rt.minted /\ (hist.first[p] = NoValue => Fresh(rt, p))
    BY <1>2 DEF Unstarted
  <1>4. ~Waiting(hist, p)
    BY <1>1, <1>2 DEF Unstarted
  <1>5. hist.finallyReturned[p] = NoValue
    BY <1>1, <1>2 DEF Restoring, Returned
  <1>6. \A i \in 1..Len(stack) : stack[i].kind \in {"handler", "finally"} => stack[i].promise # p
    <2> SUFFICES ASSUME NEW i \in 1..Len(stack), stack[i].kind \in {"handler", "finally"}
                 PROVE  stack[i].promise # p
      OBVIOUS
    <2>1. stack[i].promise \notin resolvable
      BY Held, Parts
    <2> QED
      BY <2>1
  <1> QED
    BY <1>1, <1>3, <1>4, <1>5, <1>6, Counts

\* A resolve function is called.
LEMMA CallResolveInv ==
    ASSUME IndInv, NEW p \in Ids, NEW v \in Resolution, CallResolve(p, v)
    PROVE  IndInv' /\ Keeps(rt, rt', hist, hist')
  <1>1. /\ calls < MaxCalls /\ calls' = calls + 1 /\ exit' = exit /\ p \in resolvable
        /\ rt' = ResolveValue(rt, p, v)
        /\ hist' = Follows(FirstCall(p, "resolve", v), p, v)
        /\ stack' = stack /\ resolvable' = resolvable
    BY DEF CallResolve, Call
  <1>2. calls' \in 0..MaxCalls /\ rt.minted + Cardinality(Owed(hist, stack)) + 2 <= 2 * calls'
    BY <1>1, Room
  <1>3. v \in Resolutions /\ (v \in Ids => v <= rt.minted)
    BY ResolutionKinds
  <1>4. /\ FirstCalled(hist, hist', p, "resolve", v)
        /\ Sound(rt', hist', resolvable) /\ FirstDecides(rt', hist')
        /\ Spares(rt, rt', hist', p)
    BY <1>1, <1>3, ResolveCall, Resolvable, Parts
  <1>5. hist' \in History /\ hist'.source = hist.source /\ hist'.delivered = hist.delivered
    BY <1>4 DEF FirstCalled
  <1>6. rt' \in Runtime /\ rt'.minted = rt.minted /\ Kept(rt, rt')
    BY <1>4 DEF Sound, TypedRuntime, Spares
  <1>7. Framed(rt', hist', stack, resolvable)
    BY <1>1, <1>4, <1>6, FramedCall, Resolvable, Parts
  <1>8. rt'.minted + Cardinality(Owed(hist', stack')) <= 2 * calls'
    <2>1. Owed(hist', stack') = Owed(hist, stack)
      BY <1>1, <1>5, OwedSame
    <2> QED
      BY <1>1, <1>2, <1>6, <2>1, Counts
  <1>9. IndInv'
    BY <1>1, <1>2, <1>4, <1>5, <1>7, <1>8, Whole, Parts
  <1> QED
    BY <1>5, <1>6, <1>9, DeliveryCall DEF Keeps

\* A reject function is called.
LEMMA CallRejectInv ==
    ASSUME IndInv, NEW p \in Ids, NEW v \in Value, CallReject(p, v)
    PROVE  IndInv' /\ Keeps(rt, rt', hist, hist')
  <1>1. /\ calls < MaxCalls /\ calls' = calls + 1 /\ exit' = exit /\ p \in resolvable
        /\ rt' = Reject(rt, p, v)
        /\ hist' = FirstCall(p, "reject", v)
        /\ stack' = stack /\ resolvable' = resolvable
    BY DEF CallReject, Call
  <1>2. calls' \in 0..MaxCalls /\ rt.minted + Cardinality(Owed(hist, stack)) + 2 <= 2 * calls'
    BY <1>1, Room
  <1>3. /\ FirstCalled(hist, hist', p, "reject", v)
        /\ Sound(rt', hist', resolvable) /\ FirstDecides(rt', hist')
        /\ Spares(rt, rt', hist', p)
    BY <1>1, RejectCall, Resolvable, Parts
  <1>4. hist' \in History /\ hist'.source = hist.source /\ hist'.delivered = hist.delivered
    BY <1>3 DEF FirstCalled
  <1>5. rt' \in Runtime /\ rt'.minted = rt.minted /\ Kept(rt, rt')
    BY <1>3 DEF Sound, TypedRuntime, Spares
  <1>6. Framed(rt', hist', stack, resolvable)
    BY <1>1, <1>3, <1>5, FramedCall, Resolvable, Parts
  <1>7. rt'.minted + Cardinality(Owed(hist', stack')) <= 2 * calls'
    <2>1. Owed(hist', stack') = Owed(hist, stack)
      BY <1>1, <1>4, OwedSame
    <2> QED
      BY <1>1, <1>2, <1>5, <2>1, Counts
  <1>8. IndInv'
    BY <1>1, <1>2, <1>3, <1>4, <1>6, <1>7, Whole, Parts
  <1> QED
    BY <1>4, <1>5, <1>8, DeliveryCall DEF Keeps

\* The promise that a call allocates: what holds once it is there.
LEMMA MintCall ==
    ASSUME IndInv, calls < MaxCalls, calls' = calls + 1
    PROVE  LET n == rt.minted + 1
               a == Mint(rt, NewPromise)
           IN  /\ n \in Ids /\ a \in Runtime /\ a.minted = n /\ n <= a.minted
               /\ Sound(a, hist, resolvable) /\ FirstDecides(a, hist) /\ Kept(rt, a)
               /\ \A c \in Ids : Fresh(rt, c) => Fresh(a, c)
               /\ Fresh(a, n) /\ ~Waiting(hist, n)
               /\ hist.source[n] = NoValue /\ hist.delivered[n] = NoValue
               /\ hist.first[n] = NoValue /\ n \notin hist.again
               /\ hist.finallyReturned[n] = NoValue /\ n \notin resolvable
               /\ \A i \in 1..Len(stack) :
                     stack[i].kind \in {"handler", "finally"} => stack[i].promise # n
               /\ Framed(a, hist, stack, resolvable)
  <1> DEFINE n == rt.minted + 1
             a == Mint(rt, NewPromise)
  <1>1. NewPromise \in PromiseRecord
    BY DEF NewPromise, PromiseRecord, States, Plain
  <1>2. rt.minted < 2 * MaxCalls
    BY Room
  <1>3. Mints(rt, a, NewPromise) /\ n \in Ids /\ a.minted = n /\ a \in Runtime
    BY <1>1, <1>2, Minting, Parts DEF Mints
  <1> HIDE DEF a
  <1>4. /\ Sound(a, hist, resolvable)
        /\ \A c \in Ids : Fresh(rt, c) => Fresh(a, c)
        /\ \A c \in Ids : Decided(rt, hist, c) => Decided(a, hist, c)
        /\ Fresh(a, a.minted)
        /\ hist.source[a.minted] = NoValue /\ hist.delivered[a.minted] = NoValue
        /\ hist.first[a.minted] = NoValue
        /\ a.minted \notin hist.again /\ hist.finallyReturned[a.minted] = NoValue
        /\ a.minted \notin resolvable
    <2>1. a.minted \in Ids
      BY <1>3
    <2> QED
      BY <1>3, <2>1, MintsSound, Parts
  <1>5. n <= a.minted /\ ~Waiting(hist, n) /\ rt.minted <= a.minted
    <2>1. n <= a.minted /\ rt.minted <= a.minted
      BY <1>3, Counts
    <2>2. ~Waiting(hist, n)
      BY <1>3, <1>4 DEF Waiting
    <2> QED
      BY <2>1, <2>2
  <1>6. FirstDecides(a, hist)
    BY <1>4, Parts DEF FirstDecides
  <1>7. Kept(rt, a)
    BY <1>3, MintsKept, Parts DEF Sound
  <1>8. ASSUME NEW i \in 1..Len(stack), stack[i].kind \in {"handler", "finally"}
        PROVE  stack[i].promise # n /\ Fresh(a, stack[i].promise)
    <2>1. stack[i].promise \in Ids /\ stack[i].promise <= rt.minted /\ Fresh(rt, stack[i].promise)
      BY <1>8, Held, Parts
    <2>2. stack[i].promise # n
      BY <2>1, Counts DEF Ids
    <2> QED
      BY <1>4, <2>1, <2>2
  <1>9. Framed(a, hist, stack, resolvable)
    BY <1>3, <1>5, <1>8, FramedKept, Parts
  <1> QED
    BY <1>3, <1>4, <1>5, <1>6, <1>7, <1>8, <1>9 DEF a

\* Promise.resolve(v).
LEMMA PromiseResolveInv ==
    ASSUME IndInv, NEW v \in Resolution, PromiseResolve(v)
    PROVE  IndInv' /\ Keeps(rt, rt', hist, hist')
  <1> DEFINE n == rt.minted + 1
             a == Mint(rt, NewPromise)
  <1>1. /\ calls < MaxCalls /\ calls' = calls + 1 /\ exit' = exit /\ v \notin Ids
        /\ rt' = ResolveValue(a, n, v)
        /\ hist' = FirstCall(n, "resolve", v)
        /\ stack' = stack /\ resolvable' = resolvable
    BY DEF PromiseResolve, Call
  <1>2. calls' \in 0..MaxCalls /\ rt.minted + Cardinality(Owed(hist, stack)) + 2 <= 2 * calls'
    BY <1>1, Room
  <1>3. v \in Resolutions
    BY ResolutionKinds
  <1>4. hist' = Follows(FirstCall(n, "resolve", v), n, v)
    BY <1>1 DEF Follows
  <1>5. /\ n \in Ids /\ a \in Runtime /\ a.minted = n /\ n <= a.minted
        /\ Sound(a, hist, resolvable) /\ FirstDecides(a, hist) /\ Kept(rt, a)
        /\ Fresh(a, n) /\ ~Waiting(hist, n) /\ hist.first[n] = NoValue
        /\ hist.finallyReturned[n] = NoValue
        /\ \A i \in 1..Len(stack) : stack[i].kind \in {"handler", "finally"} => stack[i].promise # n
        /\ Framed(a, hist, stack, resolvable)
    BY <1>1, MintCall
  <1> HIDE DEF n, a
  <1>6. /\ FirstCalled(hist, hist', n, "resolve", v)
        /\ Sound(rt', hist', resolvable) /\ FirstDecides(rt', hist')
        /\ Spares(a, rt', hist', n)
    BY <1>1, <1>3, <1>4, <1>5, ResolveCall, Parts
  <1>7. hist' \in History /\ hist'.source = hist.source /\ hist'.delivered = hist.delivered
    BY <1>6 DEF FirstCalled
  <1>8. rt' \in Runtime /\ rt'.minted = n /\ Kept(a, rt')
    BY <1>5, <1>6 DEF Sound, TypedRuntime, Spares
  <1>9. Kept(rt, rt')
    <2>1. rt.minted <= rt'.minted
      BY <1>8, Counts DEF n
    <2> QED
      BY <1>5, <1>8, <2>1 DEF Kept, IsPending
  <1>10. Framed(rt', hist', stack, resolvable)
    BY <1>5, <1>6, <1>8, FramedCall, Parts
  <1>11. rt'.minted + Cardinality(Owed(hist', stack')) <= 2 * calls'
    <2>1. Owed(hist', stack') = Owed(hist, stack)
      BY <1>1, <1>7, OwedSame
    <2> QED
      BY <1>1, <1>2, <1>8, <2>1, Counts DEF n
  <1>12. IndInv'
    BY <1>1, <1>2, <1>6, <1>7, <1>10, <1>11, Whole, Parts
  <1> QED
    BY <1>7, <1>9, <1>12, DeliveryCall DEF Keeps

\* Promise.reject(v).
LEMMA PromiseRejectInv ==
    ASSUME IndInv, NEW v \in Value, PromiseReject(v)
    PROVE  IndInv' /\ Keeps(rt, rt', hist, hist')
  <1> DEFINE n == rt.minted + 1
             a == Mint(rt, NewPromise)
  <1>1. /\ calls < MaxCalls /\ calls' = calls + 1 /\ exit' = exit /\ hist' = hist
        /\ rt' = NoteUnhandled(Mint(rt, [NewPromise EXCEPT !.state = "rejected", !.value = v]), n)
        /\ stack' = stack /\ resolvable' = resolvable
    BY DEF PromiseReject, Call
  <1>2. calls' \in 0..MaxCalls /\ rt.minted + Cardinality(Owed(hist, stack)) + 2 <= 2 * calls'
        /\ rt.minted < 2 * MaxCalls
    BY <1>1, Room
  <1>3. v \in Plain
    BY DEF Plain
  <1>4. Settles(a, rt', n, "rejected", v)
    BY <1>1, <1>2, <1>3, BornRejected, Parts
  <1>5. /\ n \in Ids /\ a \in Runtime /\ a.minted = n /\ n <= a.minted
        /\ Sound(a, hist, resolvable) /\ FirstDecides(a, hist) /\ Kept(rt, a)
        /\ Fresh(a, n) /\ ~Waiting(hist, n) /\ hist.first[n] = NoValue /\ n \notin resolvable
        /\ hist.finallyReturned[n] = NoValue
        /\ \A i \in 1..Len(stack) : stack[i].kind \in {"handler", "finally"} => stack[i].promise # n
        /\ Framed(a, hist, stack, resolvable)
    BY <1>1, MintCall
  <1> HIDE DEF n, a
  <1>6. Sound(rt', hist, resolvable) /\ Spares(a, rt', hist, n)
    <2>1. IsPending(a, n)
      BY <1>5 DEF Fresh
    <2> QED
      BY <1>3, <1>4, <1>5, <2>1, SettlesSound, Parts
  <1>7. FirstDecides(rt', hist)
    BY <1>5, <1>6 DEF FirstDecides, Spares
  <1>8. rt' \in Runtime /\ rt'.minted = n /\ Kept(a, rt')
    BY <1>5, <1>6 DEF Sound, TypedRuntime, Spares
  <1>9. Kept(rt, rt')
    <2>1. rt.minted <= rt'.minted
      BY <1>8, Counts DEF n
    <2> QED
      BY <1>5, <1>8, <2>1 DEF Kept, IsPending
  <1>10. Framed(rt', hist, stack, resolvable)
    <2>1. ASSUME NEW i \in 1..Len(stack), stack[i].kind \in {"handler", "finally"}
          PROVE  Fresh(rt', stack[i].promise)
      <3>1. stack[i].promise \in Ids /\ Fresh(a, stack[i].promise)
        BY <1>5, <2>1, Held, Parts
      <3> QED
        BY <1>5, <1>6, <2>1, <3>1 DEF Spares
    <2>2. a.minted <= rt'.minted
      BY <1>5, <1>8
    <2> QED
      BY <1>5, <1>8, <2>1, <2>2, FramedKept, Parts
  <1>11. rt'.minted + Cardinality(Owed(hist', stack')) <= 2 * calls'
    BY <1>1, <1>2, <1>8, Counts DEF n
  <1>12. IndInv'
    BY <1>1, <1>2, <1>6, <1>7, <1>10, <1>11, Whole, Parts
  <1> QED
    BY <1>1, <1>9, <1>12, DeliveryCall DEF Keeps

\* then and finally: the chained promise is allocated and reacts to p.
LEMMA Attaching ==
    ASSUME IndInv, calls < MaxCalls, calls' = calls + 1, exit' = exit, NEW p \in 1..rt.minted,
           NEW onFul \in FulfillFns, NEW onRej \in RejectFns,
           rt' = ReactAndMark(Mint(rt, NewPromise), p, onFul, onRej, Caps(rt.minted + 1)),
           AttachesTo(hist, hist', p, rt.minted + 1),
           stack' = stack, resolvable' = resolvable
    PROVE  IndInv' /\ Keeps(rt, rt', hist, hist')
  <1> DEFINE n == rt.minted + 1
             a == Mint(rt, NewPromise)
  <1>1. rt' = ReactAndMark(a, p, onFul, onRej, Caps(n)) /\ AttachesTo(hist, hist', p, n)
    OBVIOUS
  <1>2. calls' \in 0..MaxCalls /\ rt.minted + Cardinality(Owed(hist, stack)) + 2 <= 2 * calls'
    BY Room
  <1>3. /\ n \in Ids /\ a \in Runtime /\ a.minted = n /\ n <= a.minted
        /\ Sound(a, hist, resolvable) /\ FirstDecides(a, hist) /\ Kept(rt, a)
        /\ Fresh(a, n) /\ hist.source[n] = NoValue /\ hist.delivered[n] = NoValue
        /\ hist.first[n] = NoValue /\ n \notin resolvable
        /\ hist.finallyReturned[n] = NoValue
        /\ \A i \in 1..Len(stack) : stack[i].kind \in {"handler", "finally"} => stack[i].promise # n
        /\ Framed(a, hist, stack, resolvable)
    BY MintCall
  <1>4. p \in Ids /\ p <= a.minted
    <2>1. rt \in Runtime
      BY Parts
    <2> QED
      BY <1>3, <2>1, MaxCallsAssumption DEF Runtime, Ids
  <1> HIDE DEF n, a
  <1>h. hist \in History /\ resolvable \in SUBSET Ids /\ stack \in Seq(FrameRecord)
    BY Parts
  <1>6. /\ Sound(rt', hist', resolvable)
        /\ FirstDecides(rt', hist')
        /\ rt'.minted = n
        /\ Kept(a, rt')
        /\ \A x \in Ids : x # n /\ Fresh(a, x) => Fresh(rt', x)
    <2>0. /\ hist \in History /\ resolvable \in SUBSET Ids
          /\ Sound(a, hist, resolvable) /\ FirstDecides(a, hist)
          /\ p \in Ids /\ p <= a.minted /\ n \in Ids /\ n <= a.minted
          /\ AttachesTo(hist, hist', p, n) /\ Fresh(a, n) /\ n \notin resolvable
          /\ hist.source[n] = NoValue /\ hist.delivered[n] = NoValue
          /\ hist.first[n] = NoValue /\ hist.finallyReturned[n] = NoValue
      BY <1>1, <1>3, <1>4, <1>h
    <2>1. LET s == ReactAndMark(a, p, onFul, onRej, Caps(n))
          IN  /\ Sound(s, hist', resolvable)
              /\ FirstDecides(s, hist')
              /\ s.minted = a.minted
              /\ Kept(a, s)
              /\ \A x \in Ids : x # n /\ Fresh(a, x) => Fresh(s, x)
      BY <2>0, ReactSound, ZenonT(100)
    <2> QED
      BY <1>1, <1>3, <2>1
  <1>7. rt' \in Runtime
    BY <1>6 DEF Sound, TypedRuntime
  <1>8. Kept(rt, rt')
    <2>1. rt.minted <= rt'.minted
      BY <1>6, Counts DEF n
    <2> QED
      BY <1>3, <1>6, <2>1 DEF Kept, IsPending
  <1>9. /\ hist' \in History /\ hist'.delivered = hist.delivered /\ hist'.first = hist.first
        /\ hist'.finallyReturned = hist.finallyReturned
        /\ \A x \in Ids \ {n} : hist'.source[x] = hist.source[x]
    BY <1>1 DEF AttachesTo
  <1>10. Framed(rt', hist', stack, resolvable)
    <2>1. ASSUME NEW i \in 1..Len(stack), stack[i].kind \in {"handler", "finally"}
          PROVE  Fresh(rt', stack[i].promise)
      <3>1. stack[i].promise \in Ids /\ Fresh(a, stack[i].promise)
        BY <1>3, <2>1, Held, Parts
      <3> QED
        BY <1>3, <1>6, <2>1, <3>1
    <2>2. a.minted <= rt'.minted /\ a \in Runtime /\ Framed(a, hist, stack, resolvable)
      BY <1>3, <1>6
    <2> QED
      BY <1>7, <1>9, <1>h, <2>1, <2>2, FramedKept
  <1>11. rt'.minted + Cardinality(Owed(hist', stack')) <= 2 * calls'
    <2>1. Owed(hist', stack') \subseteq Owed(hist, stack) \cup {n}
      BY <1>9 DEF Owed
    <2>2. Cardinality(Owed(hist', stack')) <= Cardinality(Owed(hist, stack)) + 1
      BY <2>1, OwedMore
    <2>3. Cardinality(Owed(hist', stack')) \in Nat
      BY OwedFinite
    <2> QED
      BY <1>2, <1>6, <2>2, <2>3, Counts DEF n
  <1>12. IndInv'
    BY <1>2, <1>6, <1>9, <1>10, <1>11, Whole, Parts
  <1>13. Delivery(rt, hist, hist')
    BY <1>3, <1>9 DEF Delivery
  <1> QED
    BY <1>8, <1>12, <1>13 DEF Keeps

\* p.then(f, g).
LEMMA ThenInv ==
    ASSUME IndInv, NEW p \in Ids, NEW f \in BOOLEAN, NEW g \in BOOLEAN, Then(p, f, g)
    PROVE  IndInv' /\ Keeps(rt, rt', hist, hist')
  <1> DEFINE onFul == IF f THEN "then_fulfill" ELSE "identity_fulfill"
             onRej == IF g THEN "then_reject" ELSE "identity_reject"
  <1>1. /\ calls < MaxCalls /\ calls' = calls + 1 /\ exit' = exit /\ p \in 1..rt.minted
        /\ rt' = ReactAndMark(Mint(rt, NewPromise), p, onFul, onRej, Caps(rt.minted + 1))
        /\ hist' = [hist EXCEPT !.source[rt.minted + 1] = p]
        /\ stack' = stack /\ resolvable' = resolvable
    BY DEF Then, Call
  <1>2. onFul \in FulfillFns /\ onRej \in RejectFns
    BY DEF FulfillFns, RejectFns
  <1> HIDE DEF onFul, onRej
  <1>3. AttachesTo(hist, hist', p, rt.minted + 1)
    <2>1. rt.minted + 1 \in Ids /\ hist \in History
      BY <1>1, MintCall, Parts
    <2> QED
      BY <1>1, <2>1, AttachShape
  <1>4. /\ calls < MaxCalls /\ calls' = calls + 1 /\ exit' = exit /\ p \in 1..rt.minted
        /\ rt' = ReactAndMark(Mint(rt, NewPromise), p, onFul, onRej, Caps(rt.minted + 1))
        /\ stack' = stack /\ resolvable' = resolvable
    BY <1>1
  <1> QED
    BY <1>2, <1>3, <1>4, Attaching

\* p.finally(f).
LEMMA FinallyInv ==
    ASSUME IndInv, NEW p \in Ids, Finally(p)
    PROVE  IndInv' /\ Keeps(rt, rt', hist, hist')
  <1>1. /\ calls < MaxCalls /\ calls' = calls + 1 /\ exit' = exit /\ p \in 1..rt.minted
        /\ rt' = ReactAndMark(Mint(rt, NewPromise), p, "finally_fulfill", "finally_reject",
                              Caps(rt.minted + 1))
        /\ hist' = [hist EXCEPT !.source[rt.minted + 1] = p]
        /\ stack' = stack /\ resolvable' = resolvable
    BY DEF Finally, Call
  <1>2. "finally_fulfill" \in FulfillFns /\ "finally_reject" \in RejectFns
    BY DEF FulfillFns, RejectFns
  <1>3. AttachesTo(hist, hist', p, rt.minted + 1)
    <2>1. rt.minted + 1 \in Ids /\ hist \in History
      BY <1>1, MintCall, Parts
    <2> QED
      BY <1>1, <2>1, AttachShape
  <1>4. /\ calls < MaxCalls /\ calls' = calls + 1 /\ exit' = exit /\ p \in 1..rt.minted
        /\ rt' = ReactAndMark(Mint(rt, NewPromise), p, "finally_fulfill", "finally_reject",
                              Caps(rt.minted + 1))
        /\ stack' = stack /\ resolvable' = resolvable
    BY <1>1
  <1> QED
    BY <1>2, <1>3, <1>4, Attaching

\* The runtime and the history stay as they are.
StackStep ==
    /\ rt' = rt /\ hist' = hist /\ resolvable' = resolvable
    /\ stack' \in Seq(FrameRecord) /\ Framed(rt, hist, stack', resolvable)
    /\ calls' \in {calls, calls + 1} /\ calls' <= MaxCalls
    /\ exit' \in {"running", "ok", "unhandled rejection", "uncaught"}
    /\ Owed(hist, stack') \subseteq Owed(hist, stack)

\* Such a step keeps the invariant.
LEMMA OnlyStack ==
    ASSUME IndInv, StackStep
    PROVE  IndInv' /\ Keeps(rt, rt', hist, hist')
  <1>1. rt'.minted + Cardinality(Owed(hist', stack')) <= 2 * calls'
    <2>1. Cardinality(Owed(hist, stack')) <= Cardinality(Owed(hist, stack))
      BY OwedKept DEF StackStep
    <2>2. Cardinality(Owed(hist, stack')) \in Nat
      BY OwedFinite
    <2>3. /\ calls \in Nat /\ rt.minted \in Nat
          /\ Cardinality(Owed(hist, stack)) \in Nat
          /\ rt.minted + Cardinality(Owed(hist, stack)) <= 2 * calls
      BY Counts
    <2>4. calls' \in {calls, calls + 1}
      BY DEF StackStep
    <2>5. rt.minted + Cardinality(Owed(hist, stack')) <= 2 * calls'
      BY <2>1, <2>2, <2>3, <2>4
    <2> QED
      BY <2>5 DEF StackStep
  <1>2. calls' \in 0..MaxCalls
    <2>1. calls \in Nat /\ MaxCalls \in Nat
      BY Counts
    <2>2. calls' \in {calls, calls + 1} /\ calls' <= MaxCalls
      BY DEF StackStep
    <2> QED
      BY <2>1, <2>2
  <1>3. /\ Sound(rt, hist, resolvable) /\ FirstDecides(rt, hist)
        /\ hist \in History /\ resolvable \in SUBSET Ids
    BY Parts
  <1>4. IndInv'
    BY <1>1, <1>2, <1>3, Whole DEF StackStep
  <1>5. Kept(rt, rt')
    <2>1. rt.minted <= rt.minted
      BY Counts
    <2> QED
      BY <2>1 DEF Kept, StackStep
  <1>6. Delivery(rt, hist, hist')
    BY DeliveryCall DEF StackStep
  <1> QED
    BY <1>4, <1>5, <1>6 DEF Keeps

\* The drain intrinsic is called.
LEMMA CallDrainInv ==
    ASSUME IndInv, CallDrain
    PROVE  IndInv' /\ Keeps(rt, rt', hist, hist')
  <1> DEFINE f == Frame("drain", 0)
  <1>1. /\ calls < MaxCalls /\ calls' = calls + 1 /\ exit' = exit /\ stack' = <<f>> \o stack
        /\ rt' = rt /\ resolvable' = resolvable /\ hist' = hist
    BY DEF CallDrain, Call, Push
  <1>2. f \in FrameRecord /\ f.kind = "drain" /\ f.promise = 0
    BY DEF Frame, FrameRecord, FrameKinds, Plain
  <1> HIDE DEF f
  <1>3. stack \in Seq(FrameRecord) /\ rt \in Runtime /\ Framed(rt, hist, stack, resolvable)
    BY Parts
  <1>4. stack' \in Seq(FrameRecord) /\ Framed(rt, hist, stack', resolvable)
    BY <1>1, <1>2, <1>3, FramedPush
  <1>5. Owed(hist, stack') \subseteq Owed(hist, stack)
    BY <1>1, <1>2, <1>3, OwedPush
  <1>6. calls' <= MaxCalls
    BY <1>1, Counts
  <1>7. StackStep
    BY <1>1, <1>4, <1>5, <1>6, Parts DEF StackStep
  <1> QED
    BY <1>7, OnlyStack

\* The innermost frame is a handler's or a finally's: its promise is settled
\* by nothing but the end of that call.
LEMMA TopHeld ==
    ASSUME IndInv, Top.kind \in {"handler", "finally"}
    PROVE  LET c == Top.promise
           IN  /\ c \in Ids /\ c <= rt.minted /\ ~Waiting(hist, c)
               /\ hist.delivered[c] # NoValue /\ hist.first[c] = NoValue
               /\ hist.finallyReturned[c] = NoValue /\ c \notin resolvable /\ Fresh(rt, c)
               /\ \A i \in 1..Len(Tail(stack)) : Tail(stack)[i].promise # c
  <1>1. stack \in Seq(FrameRecord) /\ rt \in Runtime /\ Framed(rt, hist, stack, resolvable)
    BY Parts
  <1>2. Head(stack).kind \notin {"main", "drain"}
    BY DEF Top
  <1>3. /\ Head(stack) = stack[1] /\ 1 \in 1..Len(stack)
        /\ \A i \in 1..Len(Tail(stack)) : Tail(stack)[i].promise # Head(stack).promise
    BY <1>1, <1>2, FramedPop DEF Top
  <1>4. Top = stack[1] /\ stack[1].kind \in {"handler", "finally"}
    BY <1>3 DEF Top
  <1>5. ASSUME NEW i \in 1..Len(stack), stack[i].kind \in {"handler", "finally"}
        PROVE  /\ stack[i].promise \in Ids /\ stack[i].promise <= rt.minted
               /\ hist.delivered[stack[i].promise] # NoValue
               /\ hist.first[stack[i].promise] = NoValue
               /\ hist.finallyReturned[stack[i].promise] = NoValue
               /\ stack[i].promise \notin resolvable /\ Fresh(rt, stack[i].promise)
    BY <1>1, <1>5, Held
  <1> QED
    BY <1>3, <1>4, <1>5 DEF Waiting

\* The innermost frame is removed.
LEMMA TopPopped ==
    ASSUME IndInv, Top.kind \in {"main", "drain"} => Len(stack) > 1
    PROVE  /\ Tail(stack) \in Seq(FrameRecord)
           /\ Framed(rt, hist, Tail(stack), resolvable)
           /\ Owed(hist, Tail(stack)) \subseteq Owed(hist, stack)
           /\ Top = stack[1] /\ 1 \in 1..Len(stack)
           /\ \A i \in 1..Len(Tail(stack)) : i + 1 \in 1..Len(stack) /\ Tail(stack)[i] = stack[i + 1]
  <1>1. stack \in Seq(FrameRecord) /\ Framed(rt, hist, stack, resolvable)
    BY Parts
  <1>2. stack # <<>>
    BY <1>1 DEF Framed
  <1>3. Owed(hist, Tail(stack)) \subseteq Owed(hist, stack)
    BY <1>1, <1>2, OwedPop
  <1> QED
    BY <1>1, <1>3, FramedPop DEF Top

\* A wrapper settles, or begins to settle, the promise of the frame it leaves.
WrapperSettles(p, how, v) ==
    /\ Top.kind \notin {"main", "drain"}
    /\ stack' = Tail(stack) /\ resolvable' = resolvable /\ calls' = calls /\ exit' = exit
    /\ FirstCalled(hist, hist', p, how, v)
    /\ Sound(rt', hist', resolvable) /\ FirstDecides(rt', hist')
    /\ Spares(rt, rt', hist', p)
    /\ \A i \in 1..Len(Tail(stack)) :
          Tail(stack)[i].kind \in {"handler", "finally"} => Tail(stack)[i].promise # p

\* Such a step keeps the invariant.
LEMMA WrapperSettlesInv ==
    ASSUME IndInv, NEW p, NEW how, NEW v, WrapperSettles(p, how, v)
    PROVE  IndInv' /\ Keeps(rt, rt', hist, hist')
  <1>1. /\ hist' \in History /\ hist'.source = hist.source /\ hist'.delivered = hist.delivered
    BY DEF WrapperSettles, FirstCalled
  <1>2. rt' \in Runtime /\ rt'.minted = rt.minted /\ Kept(rt, rt')
    BY DEF WrapperSettles, Sound, TypedRuntime, Spares
  <1>3. /\ Tail(stack) \in Seq(FrameRecord) /\ Framed(rt, hist, Tail(stack), resolvable)
        /\ Owed(hist, Tail(stack)) \subseteq Owed(hist, stack)
    BY TopPopped DEF WrapperSettles
  <1>4. Framed(rt', hist', Tail(stack), resolvable)
    <2>1. rt \in Runtime
      BY Parts
    <2>2. /\ Spares(rt, rt', hist', p) /\ FirstCalled(hist, hist', p, how, v)
          /\ \A i \in 1..Len(Tail(stack)) :
                Tail(stack)[i].kind \in {"handler", "finally"} => Tail(stack)[i].promise # p
      BY DEF WrapperSettles
    <2> QED
      BY <1>2, <1>3, <2>1, <2>2, FramedCall
  <1>5. rt'.minted + Cardinality(Owed(hist', stack')) <= 2 * calls'
    <2>1. Owed(hist', Tail(stack)) = Owed(hist, Tail(stack))
      BY <1>1, OwedSame
    <2>2. Cardinality(Owed(hist', Tail(stack))) <= Cardinality(Owed(hist, stack))
      BY <1>3, <2>1, OwedKept
    <2>3. Cardinality(Owed(hist', Tail(stack))) \in Nat
      BY OwedFinite
    <2>4. stack' = Tail(stack) /\ calls' = calls
      BY DEF WrapperSettles
    <2>5. rt'.minted + Cardinality(Owed(hist', Tail(stack))) <= 2 * calls
      BY <1>2, <2>2, <2>3, Counts
    <2> QED
      BY <2>4, <2>5
  <1>6. /\ Sound(rt', hist', resolvable') /\ FirstDecides(rt', hist')
        /\ Framed(rt', hist', stack', resolvable') /\ stack' \in Seq(FrameRecord)
    BY <1>3, <1>4 DEF WrapperSettles
  <1>7. /\ resolvable' \in SUBSET Ids
        /\ exit' \in {"running", "ok", "unhandled rejection", "uncaught"}
    BY Parts DEF WrapperSettles
  <1>8. calls' \in 0..MaxCalls
    BY Counts DEF WrapperSettles
  <1>9. IndInv'
    BY <1>1, <1>5, <1>6, <1>7, <1>8, Whole
  <1> QED
    BY <1>1, <1>2, <1>9, DeliveryCall DEF Keeps

\* A then handler returns.
LEMMA HandlerReturnInv ==
    ASSUME IndInv, NEW v \in Resolution, HandlerReturn(v)
    PROVE  IndInv' /\ Keeps(rt, rt', hist, hist')
  <1> DEFINE c == Top.promise
  <1>1. /\ Top.kind = "handler" /\ stack' = Tail(stack)
        /\ rt' = ResolveValue(rt, c, v)
        /\ hist' = Follows(FirstCall(c, "resolve", v), c, v)
        /\ resolvable' = resolvable /\ calls' = calls /\ exit' = exit
    BY DEF HandlerReturn, Pop
  <1>2. v \in Resolutions /\ (v \in Ids => v <= rt.minted)
    BY ResolutionKinds
  <1>3. /\ c \in Ids /\ c <= rt.minted /\ ~Waiting(hist, c) /\ hist.first[c] = NoValue
        /\ hist.finallyReturned[c] = NoValue /\ Fresh(rt, c)
        /\ \A i \in 1..Len(Tail(stack)) : Tail(stack)[i].promise # c
    BY <1>1, TopHeld
  <1>4. /\ hist \in History /\ resolvable \in SUBSET Ids
        /\ Sound(rt, hist, resolvable) /\ FirstDecides(rt, hist)
    BY Parts
  <1> HIDE DEF c
  <1>5. /\ FirstCalled(hist, hist', c, "resolve", v)
        /\ Sound(rt', hist', resolvable) /\ FirstDecides(rt', hist')
        /\ Spares(rt, rt', hist', c)
    BY <1>1, <1>2, <1>3, <1>4, ResolveCall
  <1>6. WrapperSettles(c, "resolve", v)
    BY <1>1, <1>3, <1>5 DEF WrapperSettles
  <1> QED
    BY <1>6, WrapperSettlesInv

\* A callback throws.
LEMMA CallbackThrowInv ==
    ASSUME IndInv, NEW v \in Value, CallbackThrow(v)
    PROVE  IndInv' /\ Keeps(rt, rt', hist, hist')
  <1> DEFINE c == Top.promise
  <1>1. /\ Top.kind \notin {"main", "drain"} /\ stack' = Tail(stack)
        /\ rt' = Reject(rt, c, v)
        /\ hist' = FirstCall(c, "reject", v)
        /\ resolvable' = resolvable /\ calls' = calls /\ exit' = exit
    BY DEF CallbackThrow, InUserCode, Pop
  <1>2. /\ Tail(stack) \in Seq(FrameRecord) /\ Top = stack[1] /\ 1 \in 1..Len(stack)
        /\ \A i \in 1..Len(Tail(stack)) : i + 1 \in 1..Len(stack) /\ Tail(stack)[i] = stack[i + 1]
    BY <1>1, TopPopped
  <1>3. /\ hist \in History /\ resolvable \in SUBSET Ids
        /\ Sound(rt, hist, resolvable) /\ FirstDecides(rt, hist)
        /\ stack \in Seq(FrameRecord) /\ Framed(rt, hist, stack, resolvable)
    BY Parts
  <1>4. /\ c \in Ids /\ c <= rt.minted /\ ~Waiting(hist, c)
        /\ hist.first[c] # NoValue => c \in resolvable
        /\ hist.finallyReturned[c] = NoValue
        /\ \A i \in 1..Len(Tail(stack)) :
              Tail(stack)[i].kind \in {"handler", "finally"} => Tail(stack)[i].promise # c
    <2>1. CASE Top.kind \in {"handler", "finally"}
      BY <2>1, TopHeld
    <2>2. CASE Top.kind \in {"executor", "thenable"}
      <3>1. c \in resolvable
        BY <1>2, <1>3, <2>2 DEF Framed
      <3>2. /\ c \in Ids /\ c <= rt.minted /\ ~Waiting(hist, c)
            /\ hist.finallyReturned[c] = NoValue
            /\ \A i \in 1..Len(stack) :
                  stack[i].kind \in {"handler", "finally"} => stack[i].promise # c
        BY <3>1, Resolvable
      <3> QED
        BY <1>2, <3>1, <3>2
    <2>3. Top \in FrameRecord
      BY <1>2, <1>3
    <2>4. Top.kind \in FrameKinds
      BY <2>3 DEF FrameRecord
    <2> QED
      BY <1>1, <2>1, <2>2, <2>4 DEF FrameKinds
  <1> HIDE DEF c
  <1>5. /\ FirstCalled(hist, hist', c, "reject", v)
        /\ Sound(rt', hist', resolvable) /\ FirstDecides(rt', hist')
        /\ Spares(rt, rt', hist', c)
    BY <1>1, <1>3, <1>4, RejectCall
  <1>6. WrapperSettles(c, "reject", v)
    BY <1>1, <1>4, <1>5 DEF WrapperSettles
  <1> QED
    BY <1>6, WrapperSettlesInv

\* An executor or a thenable's "then" returns.
LEMMA PlainReturnInv ==
    ASSUME IndInv, PlainReturn
    PROVE  IndInv' /\ Keeps(rt, rt', hist, hist')
  <1>1. /\ Top.kind \in {"executor", "thenable"} /\ stack' = Tail(stack)
        /\ rt' = rt /\ hist' = hist /\ resolvable' = resolvable /\ calls' = calls /\ exit' = exit
    BY DEF PlainReturn, Pop
  <1>2. /\ Tail(stack) \in Seq(FrameRecord) /\ Framed(rt, hist, Tail(stack), resolvable)
        /\ Owed(hist, Tail(stack)) \subseteq Owed(hist, stack)
    BY <1>1, TopPopped
  <1>3. StackStep
    <2>1. calls <= MaxCalls
      BY Counts
    <2>2. exit \in {"running", "ok", "unhandled rejection", "uncaught"}
      BY Parts
    <2> QED
      BY <1>1, <1>2, <2>1, <2>2 DEF StackStep
  <1> QED
    BY <1>3, OnlyStack

\* A nested drain returns.
LEMMA DrainReturnInv ==
    ASSUME IndInv, DrainReturn
    PROVE  IndInv' /\ Keeps(rt, rt', hist, hist')
  <1>1. /\ Len(stack) > 1 /\ stack' = Tail(stack)
        /\ rt' = rt /\ hist' = hist /\ resolvable' = resolvable /\ calls' = calls /\ exit' = exit
    BY DEF DrainReturn, Pop
  <1>2. /\ Tail(stack) \in Seq(FrameRecord) /\ Framed(rt, hist, Tail(stack), resolvable)
        /\ Owed(hist, Tail(stack)) \subseteq Owed(hist, stack)
    BY <1>1, TopPopped
  <1>3. StackStep
    <2>1. calls <= MaxCalls
      BY Counts
    <2>2. exit \in {"running", "ok", "unhandled rejection", "uncaught"}
      BY Parts
    <2> QED
      BY <1>1, <1>2, <2>1, <2>2 DEF StackStep
  <1> QED
    BY <1>3, OnlyStack

\* The main frame is the only one that MainReturn can find on top of the stack.
LEMMA MainReturnInv ==
    ASSUME IndInv, MainReturn
    PROVE  IndInv' /\ Keeps(rt, rt', hist, hist')
  <1> DEFINE f == Frame("drain", 0)
  <1>1. /\ stack' = <<f>>
        /\ rt' = rt /\ hist' = hist /\ resolvable' = resolvable /\ calls' = calls /\ exit' = exit
    BY DEF MainReturn
  <1>2. f \in FrameRecord /\ f.kind = "drain" /\ f.promise = 0
    BY DEF Frame, FrameRecord, FrameKinds, Plain
  <1> HIDE DEF f
  <1>3. /\ <<f>> \in Seq(FrameRecord) /\ Len(<<f>>) = 1 /\ <<f>>[1] = f /\ <<f>> # <<>>
    BY <1>2
  <1>4. Framed(rt, hist, <<f>>, resolvable)
    BY <1>2, <1>3 DEF Framed
  <1>5. Owed(hist, <<f>>) \subseteq Owed(hist, stack)
    BY <1>2, <1>3 DEF Owed
  <1>6. StackStep
    <2>1. calls <= MaxCalls
      BY Counts
    <2>2. exit \in {"running", "ok", "unhandled rejection", "uncaught"}
      BY Parts
    <2> QED
      BY <1>1, <1>3, <1>4, <1>5, <2>1, <2>2 DEF StackStep
  <1> QED
    BY <1>6, OnlyStack

\* The process ends.
LEMMA EndInv ==
    ASSUME IndInv, MainThrow \/ Report
    PROVE  IndInv' /\ Keeps(rt, rt', hist, hist')
  <1>1. /\ stack' = stack /\ rt' = rt /\ hist' = hist /\ resolvable' = resolvable /\ calls' = calls
        /\ exit' \in {"running", "ok", "unhandled rejection", "uncaught"}
    BY DEF MainThrow, Report
  <1>2. StackStep
    <2>1. calls <= MaxCalls
      BY Counts
    <2>2. stack \in Seq(FrameRecord) /\ Framed(rt, hist, stack, resolvable)
      BY Parts
    <2> QED
      BY <1>1, <2>1, <2>2 DEF StackStep
  <1> QED
    BY <1>2, OnlyStack

\* A finally callback returns: the fresh promise is paid for by what it was owed.
LEMMA FinallyReturnInv ==
    ASSUME IndInv, NEW v \in Resolution, FinallyReturn(v)
    PROVE  IndInv' /\ Keeps(rt, rt', hist, hist')
  <1> DEFINE c == Top.promise
             n == rt.minted + 1
             t == Tail(stack)
  <1>1. /\ Top.kind = "finally" /\ stack' = t
        /\ rt' = FinallyAfter(rt, v, c, Top.value, Top.isReject)
        /\ hist' = Follows([FirstCall(n, "resolve", v) EXCEPT
                                !.finallyReturned[c] = v, !.consumed = @ \cup {n}], n, v)
        /\ resolvable' = resolvable /\ calls' = calls /\ exit' = exit
    BY DEF FinallyReturn, Pop
  <1>2. v \in Resolutions /\ (v \in Ids => v <= rt.minted)
    BY ResolutionKinds
  <1>3. /\ c \in Ids /\ c <= rt.minted /\ hist.delivered[c] # NoValue /\ hist.first[c] = NoValue
        /\ c \notin resolvable /\ Fresh(rt, c)
        /\ \A i \in 1..Len(t) : t[i].promise # c
    BY <1>1, TopHeld
  <1>4. /\ t \in Seq(FrameRecord) /\ Framed(rt, hist, t, resolvable)
        /\ Owed(hist, t) \subseteq Owed(hist, stack)
        /\ Top = stack[1] /\ 1 \in 1..Len(stack)
    BY <1>1, TopPopped
  <1>5. /\ hist \in History /\ resolvable \in SUBSET Ids /\ rt \in Runtime /\ Attached(rt, hist)
        /\ Sound(rt, hist, resolvable) /\ FirstDecides(rt, hist)
        /\ stack \in Seq(FrameRecord) /\ Framed(rt, hist, stack, resolvable)
    BY Parts
  <1>6. /\ Top.value = hist.delivered[c].value
        /\ Top.isReject <=> hist.delivered[c].state = "rejected"
    BY <1>1, <1>4, <1>5 DEF Framed
  <1>7. Top.isReject \in BOOLEAN
    <2>1. Top \in FrameRecord
      BY <1>4, <1>5
    <2> QED
      BY <2>1 DEF FrameRecord
  <1>8. c \in Owed(hist, stack)
    <2>1. hist.source[c] # NoValue
      BY <1>3, <1>5 DEF Attached
    <2>2. \E i \in 1..Len(stack) : stack[i].kind = "finally" /\ stack[i].promise = c
      BY <1>1, <1>4
    <2> QED
      BY <1>3, <2>1, <2>2 DEF Owed
  <1>9. Owed(hist, t) \subseteq Owed(hist, stack) \ {c}
    <2>1. c \notin Owed(hist, t)
      BY <1>3 DEF Owed
    <2> QED
      BY <1>4, <2>1
  <1>10. Cardinality(Owed(hist, t)) + 1 <= Cardinality(Owed(hist, stack))
    BY <1>8, <1>9, OwedLess
  <1>11. Cardinality(Owed(hist, t)) \in Nat
    BY OwedFinite
  <1>12. rt.minted < 2 * MaxCalls /\ n + Cardinality(Owed(hist, t)) <= 2 * calls /\ rt.minted \in Nat
    BY <1>10, <1>11, Counts
  <1> HIDE DEF c, t
  <1>13. /\ Sound(rt', hist', resolvable) /\ FirstDecides(rt', hist')
         /\ rt'.minted = n /\ Kept(rt, rt')
         /\ hist' \in History /\ hist'.source = hist.source /\ hist'.delivered = hist.delivered
         /\ \A x \in Ids : x # c /\ Fresh(rt, x) => x = n \/ Fresh(rt', x)
         /\ \A x \in Ids : x # c /\ x # n => /\ hist'.first[x] = hist.first[x]
                                             /\ hist'.finallyReturned[x] = hist.finallyReturned[x]
    <2>1. MayReturn(resolvable, c, Top.value, Top.isReject, v)
      BY <1>2, <1>3, <1>5, <1>6, <1>7, <1>12 DEF MayReturn
    <2>2. ReturnDone(resolvable, c, n, rt', hist')
      BY <1>1, <2>1, FinallyCall
    <2> QED
      BY <2>2 DEF ReturnDone
  <1>14. rt' \in Runtime
    BY <1>13 DEF Sound, TypedRuntime
  <1>15. Framed(rt', hist', t, resolvable)
    <2>1. ASSUME NEW i \in 1..Len(t), t[i].kind \in {"handler", "finally"}
          PROVE  /\ Fresh(rt', t[i].promise)
                 /\ hist'.first[t[i].promise] = hist.first[t[i].promise]
                 /\ hist'.finallyReturned[t[i].promise] = hist.finallyReturned[t[i].promise]
      <3>1. t[i].promise \in Ids /\ t[i].promise <= rt.minted /\ Fresh(rt, t[i].promise)
        BY <1>4, <1>5, <2>1, Held
      <3>2. t[i].promise # c
        BY <1>3
      <3>3. t[i].promise # n
        BY <1>12, <3>1 DEF Ids
      <3> QED
        BY <1>13, <3>1, <3>2, <3>3
    <2>2. rt.minted <= rt'.minted
      BY <1>12, <1>13
    <2> HIDE DEF n
    <2> QED
      BY <1>4, <1>5, <1>13, <1>14, <2>1, <2>2, FramedKept
  <1>16. rt'.minted + Cardinality(Owed(hist', stack')) <= 2 * calls'
    <2>1. Owed(hist', t) = Owed(hist, t)
      BY <1>13, OwedSame
    <2> QED
      BY <1>1, <1>12, <1>13, <2>1
  <1>17. IndInv'
    <2>1. calls' \in 0..MaxCalls
      BY <1>1, Counts
    <2>2. exit' \in {"running", "ok", "unhandled rejection", "uncaught"}
      BY <1>1, Parts
    <2>3. /\ stack' \in Seq(FrameRecord) /\ resolvable' \in SUBSET Ids
          /\ Framed(rt', hist', stack', resolvable') /\ Sound(rt', hist', resolvable')
      BY <1>1, <1>4, <1>5, <1>13, <1>15
    <2> QED
      BY <1>13, <1>16, <2>1, <2>2, <2>3, Whole
  <1> QED
    BY <1>13, <1>17, DeliveryCall DEF Keeps

\* The job at the head of the queue: the promise it stands for is not held by
\* a handler's or a finally's frame.
LEMMA Taken ==
    ASSUME IndInv, rt.queue # <<>>
    PROVE  LET c == Job.caps.chained
           IN  /\ Dequeues(rt, Dequeued) /\ Job = rt.queue[1] /\ 1 \in 1..Len(rt.queue)
               /\ Job \in JobRecord /\ c \in Ids /\ c <= rt.minted
               /\ Job.fn # "thenable_job" => Job.arg \in Plain
               /\ ~Fresh(rt, c)
               /\ \A i \in 1..Len(stack) :
                     stack[i].kind \in {"handler", "finally"} => stack[i].promise # c
  <1> DEFINE c == Job.caps.chained
  <1>1. rt \in Runtime /\ Sound(rt, hist, resolvable)
    BY Parts
  <1>2. Dequeues(rt, Dequeued) /\ Job = rt.queue[1] /\ Job \in JobRecord /\ 1 \in 1..Len(rt.queue)
    BY <1>1, Dequeueing
  <1>3. c \in Ids
    BY <1>2 DEF JobRecord, Captures
  <1>4. InOrder(rt)
    BY <1>1 DEF Sound, TypedRuntime
  <1>5. c <= rt.minted /\ (Job.fn # "thenable_job" => Job.arg \in Plain)
    BY <1>2, <1>4 DEF InOrder
  <1>6. ~Fresh(rt, c)
    BY <1>2 DEF Fresh, NotInQueue
  <1>7. ASSUME NEW i \in 1..Len(stack), stack[i].kind \in {"handler", "finally"}
        PROVE  stack[i].promise # c
    <2>1. Fresh(rt, stack[i].promise)
      BY <1>7, Held, Parts
    <2> QED
      BY <1>6, <2>1
  <1> QED
    BY <1>2, <1>3, <1>5, <1>6, <1>7

\* The job is taken from the queue, and the history says what it was given.
LEMMA TakenSound ==
    ASSUME IndInv, rt.queue # <<>>, NEW g, DeliversTo(rt, hist, g, Job.caps.chained)
    PROVE  LET c == Job.caps.chained
           IN  /\ Sound(Dequeued, g, resolvable) /\ FirstDecides(Dequeued, g)
               /\ Framed(Dequeued, g, stack, resolvable)
               /\ Dequeued \in Runtime /\ Dequeued.minted = rt.minted
               /\ Dequeued.promise = rt.promise
               /\ g \in History /\ ~Waiting(g, c)
               /\ Kept(rt, Dequeued) /\ Delivery(rt, hist, g)
               /\ Owed(g, stack) \subseteq Owed(hist, stack)
               /\ Waiting(hist, c) => Fresh(Dequeued, c) /\ g.delivered[c] # NoValue
  <1> DEFINE c == Job.caps.chained
             d == Dequeued
  <1>1. /\ Dequeues(rt, d) /\ Job = rt.queue[1] /\ 1 \in 1..Len(rt.queue) /\ c \in Ids
        /\ \A i \in 1..Len(stack) : stack[i].kind \in {"handler", "finally"} => stack[i].promise # c
        /\ rt.queue[1].caps.chained = c
    BY Taken
  <1>2. /\ hist \in History /\ resolvable \in SUBSET Ids /\ rt \in Runtime
        /\ Sound(rt, hist, resolvable) /\ FirstDecides(rt, hist)
        /\ stack \in Seq(FrameRecord) /\ Framed(rt, hist, stack, resolvable)
    BY Parts
  <1>3. DeliversTo(rt, hist, g, c)
    OBVIOUS
  <1> HIDE DEF c, d
  <1>4. /\ Sound(d, g, resolvable) /\ Kept(rt, d)
        /\ \A x \in Ids : Fresh(rt, x) => Fresh(d, x)
        /\ \A x \in Ids : Decided(rt, hist, x) => Decided(d, g, x)
        /\ Waiting(hist, c) => Fresh(d, c) /\ g.delivered[c] # NoValue
        /\ ~Waiting(g, c)
    <2>1. MayDequeue(rt, d, hist, g, resolvable, c)
      BY <1>1, <1>2, <1>3 DEF MayDequeue
    <2> QED
      BY <2>1, DequeueSound
  <1>5. d \in Runtime /\ d.minted = rt.minted /\ d.promise = rt.promise
    BY <1>1 DEF Dequeues
  <1>6. /\ g \in History /\ g.source = hist.source /\ g.first = hist.first /\ g.again = hist.again
        /\ g.finallyReturned = hist.finallyReturned
        /\ \A x \in Ids \ {c} : g.delivered[x] = hist.delivered[x]
        /\ g.delivered[c] = IF Waiting(hist, c) THEN Result(rt, hist.source[c]) ELSE hist.delivered[c]
    BY <1>3 DEF DeliversTo
  <1>7. FirstDecides(d, g)
    BY <1>2, <1>4, <1>6 DEF FirstDecides
  <1>8. Framed(d, g, stack, resolvable)
    <2>1. ASSUME NEW i \in 1..Len(stack), stack[i].kind \in {"handler", "finally"}
          PROVE  /\ Fresh(d, stack[i].promise)
                 /\ g.delivered[stack[i].promise] = hist.delivered[stack[i].promise]
      <3>1. stack[i].promise \in Ids /\ Fresh(rt, stack[i].promise)
        BY <1>2, <2>1, Held
      <3>2. stack[i].promise # c
        BY <1>1, <2>1
      <3> QED
        BY <1>4, <1>6, <3>1, <3>2
    <2>2. rt.minted <= d.minted
      BY <1>5, Counts
    <2> QED
      BY <1>2, <1>5, <1>6, <2>1, <2>2, FramedKept
  <1>9. Delivery(rt, hist, g)
    <2>1. Waiting(hist, c) => ~IsPending(rt, hist.source[c])
      BY <1>1, <1>2, HeadDelivers
    <2> QED
      BY <1>6, <2>1 DEF Delivery, Waiting
  <1>10. Owed(g, stack) \subseteq Owed(hist, stack)
    <2>1. ASSUME NEW x \in Ids, g.source[x] # NoValue, g.delivered[x] = NoValue
          PROVE  hist.delivered[x] = NoValue
      <3>1. x # c
        BY <1>4, <2>1 DEF Waiting
      <3> QED
        BY <1>6, <2>1, <3>1
    <2> QED
      BY <1>6, <2>1 DEF Owed
  <1> QED
    BY <1>4, <1>5, <1>6, <1>7, <1>8, <1>9, <1>10 DEF c, d

\* A job settles the promise it stands for.
JobSettles ==
    /\ rt.queue # <<>>
    /\ DeliversTo(rt, hist, hist', Job.caps.chained)
    /\ Sound(rt', hist', resolvable) /\ FirstDecides(rt', hist')
    /\ Spares(Dequeued, rt', hist', Job.caps.chained)
    /\ stack' = stack /\ resolvable' = resolvable /\ calls' = calls /\ exit' = exit

\* Such a step keeps the invariant.
LEMMA JobSettlesInv ==
    ASSUME IndInv, JobSettles
    PROVE  IndInv' /\ Keeps(rt, rt', hist, hist')
  <1> DEFINE c == Job.caps.chained
             d == Dequeued
  <1>1. /\ Sound(rt', hist', resolvable) /\ FirstDecides(rt', hist')
        /\ rt.queue # <<>> /\ DeliversTo(rt, hist, hist', c)
        /\ Spares(d, rt', hist', c)
        /\ stack' = stack /\ resolvable' = resolvable /\ calls' = calls /\ exit' = exit
    BY DEF JobSettles
  <1>2. /\ Framed(d, hist', stack, resolvable) /\ d \in Runtime /\ d.minted = rt.minted
        /\ d.promise = rt.promise
        /\ hist' \in History /\ Kept(rt, d) /\ Delivery(rt, hist, hist')
        /\ Owed(hist', stack) \subseteq Owed(hist, stack)
    BY <1>1, TakenSound
  <1>3. \A i \in 1..Len(stack) : stack[i].kind \in {"handler", "finally"} => stack[i].promise # c
    BY <1>1, Taken
  <1>4. stack \in Seq(FrameRecord) /\ resolvable \in SUBSET Ids
        /\ exit \in {"running", "ok", "unhandled rejection", "uncaught"}
    BY Parts
  <1> HIDE DEF c, d
  <1>5. /\ rt' \in Runtime /\ rt'.minted = d.minted /\ Kept(d, rt')
        /\ \A x \in Ids : x # c /\ Fresh(d, x) => Fresh(rt', x)
    BY <1>1 DEF Sound, TypedRuntime, Spares
  <1>6. Framed(rt', hist', stack, resolvable)
    <2>1. ASSUME NEW i \in 1..Len(stack), stack[i].kind \in {"handler", "finally"}
          PROVE  Fresh(rt', stack[i].promise)
      <3>1. stack[i].promise \in Ids /\ Fresh(d, stack[i].promise)
        BY <1>2, <1>4, <2>1, Held
      <3> QED
        BY <1>3, <1>5, <2>1, <3>1
    <2>2. d.minted <= rt'.minted
      BY <1>2, <1>5, Counts
    <2> QED
      BY <1>2, <1>4, <1>5, <2>1, <2>2, FramedKept
  <1>7. Kept(rt, rt')
    <2>1. rt.minted <= rt'.minted
      BY <1>2, <1>5, Counts
    <2> QED
      BY <1>2, <1>5, <2>1 DEF Kept, IsPending
  <1>8. rt'.minted + Cardinality(Owed(hist', stack')) <= 2 * calls'
    <2>1. Cardinality(Owed(hist', stack)) <= Cardinality(Owed(hist, stack))
      BY <1>2, OwedKept
    <2>2. Cardinality(Owed(hist', stack)) \in Nat
      BY OwedFinite
    <2>3. rt'.minted = rt.minted
      BY <1>2, <1>5
    <2>4. rt.minted + Cardinality(Owed(hist', stack)) <= 2 * calls
      BY <2>1, <2>2, Counts
    <2> QED
      BY <1>1, <2>3, <2>4
  <1>9. calls' \in 0..MaxCalls
    BY <1>1, Counts
  <1>10. IndInv'
    BY <1>1, <1>2, <1>4, <1>6, <1>8, <1>9, Whole
  <1> QED
    BY <1>2, <1>7, <1>10 DEF Keeps

\* An absent handler, or an adopted promise that has settled.
LEMMA RunIdentityInv ==
    ASSUME IndInv, RunIdentity
    PROVE  IndInv' /\ Keeps(rt, rt', hist, hist')
  <1> DEFINE c == Job.caps.chained
             d == Dequeued
             state == IF Job.fn = "identity_fulfill" THEN "fulfilled" ELSE "rejected"
  <1>1. /\ rt.queue # <<>> /\ Job.fn \in {"identity_fulfill", "identity_reject"}
        /\ rt' = IF Job.fn = "identity_fulfill" THEN ResolveValue(d, c, Job.arg)
                 ELSE Reject(d, c, Job.arg)
        /\ hist' = Delivers(hist)
        /\ stack' = stack /\ resolvable' = resolvable /\ calls' = calls /\ exit' = exit
    BY DEF RunIdentity, TakeJob
  <1>2. /\ Job = rt.queue[1] /\ 1 \in 1..Len(rt.queue) /\ c \in Ids /\ c <= rt.minted
        /\ Job.arg \in Plain /\ ~Fresh(rt, c)
    BY <1>1, Taken
  <1>3. /\ hist \in History /\ resolvable \in SUBSET Ids /\ rt \in Runtime
        /\ Sound(rt, hist, resolvable) /\ FirstDecides(rt, hist)
        /\ Unstarted(rt, hist, resolvable) /\ Restoring(rt, hist, resolvable)
    BY Parts
  <1>4. DeliversTo(rt, hist, hist', c)
    BY <1>1, <1>3, DeliversShape
  <1>5. /\ Sound(d, hist', resolvable) /\ FirstDecides(d, hist')
        /\ d \in Runtime /\ d.minted = rt.minted /\ d.promise = rt.promise
        /\ hist' \in History /\ ~Waiting(hist', c)
    BY <1>1, <1>4, TakenSound
  <1>6. rt' = Settle(d, c, state, Job.arg) /\ state \in {"fulfilled", "rejected"}
    <2>1. Job.arg \notin Ids /\ Job.arg # Poisoned /\ Job.arg # Thenable
      BY <1>2, KindsAssumption DEF Plain
    <2> QED
      BY <1>1, <2>1 DEF ResolveValue, Assimilate, Fulfill, Reject
  <1>7. /\ hist'.first = hist.first /\ hist'.again = hist.again
        /\ hist'.finallyReturned = hist.finallyReturned
    BY <1>4 DEF DeliversTo
  <1>8. Open(hist', resolvable, c)
    <2>1. c \in resolvable => hist.first[c] # NoValue
      BY <1>2, <1>3 DEF Unstarted
    <2>2. hist.finallyReturned[c] = NoValue
      <3>1. IsRestoreJob(hist, rt.queue[1]) => RestoreJob(rt, hist, resolvable, rt.queue[1])
        BY <1>2, <1>3 DEF Restoring, RestoresQueued
      <3>2. ~RestoreJob(rt, hist, resolvable, rt.queue[1])
        BY <1>1, <1>2 DEF RestoreJob
      <3> QED
        BY <1>2, <3>1, <3>2 DEF IsRestoreJob
    <2> QED
      BY <1>5, <1>7, <2>1, <2>2 DEF Open
  <1> HIDE DEF d, state
  <1>9. /\ Sound(rt', hist', resolvable)
        /\ Spares(d, rt', hist', c)
        /\ IsPending(d, c) => Settles(d, rt', c, state, Job.arg)
        /\ ~IsPending(d, c) => rt' = d
    <2>1. c <= d.minted
      BY <1>2, <1>5
    <2> HIDE DEF c
    <2> QED
      BY <1>2, <1>3, <1>5, <1>6, <1>8, <2>1, SettleSound
  <1>10. FirstDecides(rt', hist')
    <2>1. CASE ~IsPending(d, c)
      BY <1>5, <1>9, <2>1
    <2>2. CASE IsPending(d, c)
      <3>1. DecidedBut(d, hist', c)
        BY <1>5, SMTT(30) DEF FirstDecides, DecidedBut
      <3>2. ASSUME c \notin hist'.again, hist'.first[c] # NoValue, hist'.first[c].how = "resolve"
            PROVE  Decided(rt', hist', c)
        <4>1. Decided(rt, hist, c) /\ Decided(d, hist', c)
          BY <1>2, <1>3, <1>5, <1>7, <3>2, SMTT(30) DEF FirstDecides
        <4>2. ASSUME hist.first[c].value \in Ids \ {c}
              PROVE  /\ d.promise[hist.first[c].value].state = state
                     /\ d.promise[hist.first[c].value].value = Job.arg
          <5> DEFINE w == hist.first[c].value
          <5>1. /\ Job.fn = IF rt.promise[w].state = "fulfilled" THEN "identity_fulfill"
                            ELSE "identity_reject"
                /\ ~IsPending(rt, w)
                /\ Job.arg = rt.promise[w].value
            BY <1>2, <4>1, <4>2 DEF Decided
          <5>2. rt.promise[w] \in PromiseRecord
            BY <1>3, <4>2, SMTT(30) DEF Runtime
          <5>3. rt.promise[w].state \in {"fulfilled", "rejected"}
            BY <5>1, <5>2 DEF PromiseRecord, States, IsPending
          <5> QED
            BY <1>5, <5>1, <5>3, SMTT(30) DEF state
        <4>3. TypedRuntime(d) /\ Settles(d, rt', c, state, Job.arg)
          BY <1>5, <1>9, <2>2 DEF Sound
        <4> QED
          BY <1>2, <1>5, <1>6, <1>7, <2>2, <4>1, <4>2, <4>3, SettlesDecidedSelf
      <3> QED
        BY <1>2, <1>9, <3>1, <3>2, AllDecided
    <2> QED
      BY <2>1, <2>2
  <1>11. JobSettles
    BY <1>1, <1>4, <1>9, <1>10, SMTT(30) DEF JobSettles, d
  <1> QED
    BY <1>11, JobSettlesInv

\* A restoring job: either it passes on a rejection of the fresh promise m, or
\* m was fulfilled and the job restores the settlement of the source.
LEMMA RestoreCases ==
    ASSUME IndInv, rt.queue # <<>>, Job.fn \in RestoreFns,
           NEW m \in Ids, Restores(hist, resolvable, m, Job.caps.chained),
           Remembers(rt, hist, Job.caps), Job.arg = rt.promise[m].value,
           \/ Job.fn = "restore_settle" /\ rt.promise[m].state = "fulfilled"
           \/ Job.fn = "restore_reject" /\ rt.promise[m].state = "rejected",
           NEW s, s = IF Job.fn = "restore_reject" THEN Reject(Dequeued, Job.caps.chained, Job.arg)
                      ELSE IF Job.caps.isReject
                           THEN Reject(Dequeued, Job.caps.chained, Job.caps.value)
                           ELSE ResolveValue(Dequeued, Job.caps.chained, Job.caps.value)
    PROVE  LET c == Job.caps.chained
           IN  /\ hist.source[c] \in Ids /\ ~IsPending(rt, hist.source[c]) /\ ~IsPending(rt, m)
               /\ \E state \in {"fulfilled", "rejected"}, v \in Plain :
                     /\ s = Settle(Dequeued, c, state, v)
                     /\ \/ /\ rt.promise[m].state = "rejected"
                           /\ [state |-> state, value |-> v] = Result(rt, m)
                        \/ /\ rt.promise[m].state = "fulfilled"
                           /\ [state |-> state, value |-> v] = Result(rt, hist.source[c])
  <1> DEFINE c == Job.caps.chained
             p == hist.source[c]
             d == Dequeued
  <1>1. Job \in JobRecord /\ c \in Ids /\ Job.arg \in Plain
    BY Taken DEF RestoreFns
  <1>2. /\ hist \in History /\ rt \in Runtime
        /\ Attached(rt, hist) /\ Restoring(rt, hist, resolvable)
    BY Parts
  <1>3. hist.delivered[c] # NoValue
    BY <1>1, <1>2 DEF Restores, Restoring, Returned
  <1>4. p \in Ids /\ ~IsPending(rt, p)
    BY <1>1, <1>2, <1>3 DEF Attached, History
  <1>5. ~IsPending(rt, m)
    BY SMTT(30) DEF IsPending
  <1>6. rt.promise[p].state \in {"fulfilled", "rejected"} /\ rt.promise[p].value \in Plain
    <2>1. rt.promise[p] \in PromiseRecord
      BY <1>2, <1>4 DEF Runtime
    <2> QED
      BY <1>4, <2>1 DEF PromiseRecord, States, IsPending
  <1>7. /\ Job.caps.value = rt.promise[p].value
        /\ Job.caps.isReject <=> rt.promise[p].state = "rejected"
    BY SMTT(30) DEF Remembers
  <1>8. Job.caps.value \notin Ids /\ Job.caps.value # Poisoned /\ Job.caps.value # Thenable
    BY <1>6, <1>7, KindsAssumption DEF Plain
  <1> HIDE DEF p
  <1>9. CASE Job.fn = "restore_reject"
    <2>1. s = Settle(d, c, "rejected", Job.arg)
      BY <1>9 DEF Reject
    <2>2. rt.promise[m].state = "rejected" /\ [state |-> "rejected", value |-> Job.arg] = Result(rt, m)
      BY <1>9 DEF Result
    <2> HIDE DEF c, d
    <2> QED
      BY <1>1, <1>4, <1>5, <2>1, <2>2 DEF c, d, p
  <1>10. CASE Job.fn = "restore_settle" /\ Job.caps.isReject
    <2>1. s = Settle(d, c, "rejected", Job.caps.value)
      BY <1>10 DEF Reject
    <2>2. /\ rt.promise[m].state = "fulfilled"
          /\ [state |-> "rejected", value |-> Job.caps.value] = Result(rt, p)
      BY <1>7, <1>10 DEF Result
    <2>3. Job.caps.value \in Plain
      BY <1>6, <1>7
    <2> HIDE DEF c, d
    <2> QED
      BY <1>4, <1>5, <2>1, <2>2, <2>3 DEF c, d, p
  <1>11. CASE Job.fn = "restore_settle" /\ ~Job.caps.isReject
    <2>1. s = Settle(d, c, "fulfilled", Job.caps.value)
      BY <1>8, <1>11 DEF ResolveValue, Assimilate, Fulfill
    <2>2. /\ rt.promise[m].state = "fulfilled"
          /\ [state |-> "fulfilled", value |-> Job.caps.value] = Result(rt, p)
      BY <1>6, <1>7, <1>11 DEF Result
    <2>3. Job.caps.value \in Plain
      BY <1>6, <1>7
    <2> HIDE DEF c, d
    <2> QED
      BY <1>4, <1>5, <2>1, <2>2, <2>3 DEF c, d, p
  <1> QED
    BY <1>9, <1>10, <1>11 DEF RestoreFns

\* What the fresh promise m was resolved with decides how c is settled.
LEMMA RestorePasses ==
    ASSUME IndInv, NEW c \in Ids, NEW m \in Ids, Restores(hist, resolvable, m, c),
           hist.source[c] \in Ids, ~IsPending(rt, hist.source[c]), ~IsPending(rt, m),
           IsPending(rt, c), NEW s, \A q \in Ids \ {c} : s.promise[q] = rt.promise[q],
           \/ rt.promise[m].state = "rejected" /\ Result(s, c) = Result(rt, m)
           \/ rt.promise[m].state = "fulfilled" /\ Result(s, c) = Result(rt, hist.source[c])
    PROVE  Passed(s, hist, c)
  <1> DEFINE w == hist.finallyReturned[c]
             p == hist.source[c]
  <1>1. /\ w # NoValue /\ w # m
        /\ hist.first[m] = [how |-> "resolve", value |-> w]
        /\ m \in hist.again \cup resolvable => w = Thenable
    BY DEF Restores
  <1>2. hist.first[m] # NoValue /\ hist.first[m].how = "resolve" /\ hist.first[m].value = w
    <2>1. hist \in History
      BY Parts
    <2>2. w \in Resolutions
      BY <1>1, <2>1 DEF History
    <2> QED
      BY <1>1, <2>2, NotNullAssumption DEF Resolutions
  <1>3. w # Thenable => Decided(rt, hist, m)
    BY <1>1, <1>2, Parts DEF FirstDecides
  <1>4. Result(s, p) = Result(rt, p)
    <2>1. p # c
      OBVIOUS
    <2> QED
      BY <2>1 DEF Result
  <1> HIDE DEF p, w
  <1>5. w \in Value => Result(s, c) = Result(s, p)
    <2> SUFFICES ASSUME w \in Value PROVE Result(s, c) = Result(s, p)
      OBVIOUS
    <2>1. Result(rt, m) = [state |-> "fulfilled", value |-> w]
      BY <1>2, <1>3, KindsAssumption DEF Decided
    <2>2. rt.promise[m].state = "fulfilled"
      BY <2>1 DEF Result
    <2> QED
      BY <1>4, <2>2 DEF p
  <1>6. w = Poisoned => Result(s, c) = [state |-> "rejected", value |-> Thrown]
    <2> SUFFICES ASSUME w = Poisoned PROVE Result(s, c) = [state |-> "rejected", value |-> Thrown]
      OBVIOUS
    <2>1. Result(rt, m) = [state |-> "rejected", value |-> Thrown]
      BY <1>2, <1>3, KindsAssumption DEF Decided
    <2>2. rt.promise[m].state = "rejected"
      BY <2>1 DEF Result
    <2> QED
      BY <2>1, <2>2
  <1>7. w \in Ids => /\ ~IsPending(s, w)
                     /\ Result(s, c) = IF s.promise[w].state = "fulfilled"
                                       THEN Result(s, p) ELSE Result(s, w)
    <2> SUFFICES ASSUME w \in Ids
                 PROVE  /\ ~IsPending(s, w)
                        /\ Result(s, c) = IF s.promise[w].state = "fulfilled"
                                          THEN Result(s, p) ELSE Result(s, w)
      OBVIOUS
    <2>1. w # Thenable
      BY KindsAssumption
    <2>2. ~IsPending(rt, w) /\ Result(rt, m) = Result(rt, w)
      BY <1>1, <1>2, <1>3, <2>1 DEF Decided
    <2>3. s.promise[w] = rt.promise[w]
      BY <2>2
    <2>4. ~IsPending(s, w) /\ Result(s, w) = Result(rt, m)
      BY <2>2, <2>3 DEF IsPending, Result
    <2>5. s.promise[w].state = rt.promise[m].state
      BY <2>4 DEF Result
    <2> QED
      BY <1>4, <2>4, <2>5 DEF p
  <1>8. w = Thenable => Result(s, c) = Result(s, p) \/ s.promise[c].state = "rejected"
    BY <1>4 DEF Result, p
  <1> QED
    BY <1>5, <1>6, <1>7, <1>8 DEF Passed, w, p

\* A finally's settlement is restored.
LEMMA RunRestoreInv ==
    ASSUME IndInv, RunRestore
    PROVE  IndInv' /\ Keeps(rt, rt', hist, hist')
  <1> DEFINE c == Job.caps.chained
             d == Dequeued
  <1>1. /\ rt.queue # <<>> /\ Job.fn \in RestoreFns
        /\ rt' = IF Job.fn = "restore_reject" THEN Reject(d, c, Job.arg)
                 ELSE IF Job.caps.isReject THEN Reject(d, c, Job.caps.value)
                      ELSE ResolveValue(d, c, Job.caps.value)
        /\ hist' = hist
        /\ stack' = stack /\ resolvable' = resolvable /\ calls' = calls /\ exit' = exit
    BY DEF RunRestore, TakeJob, RestoreFns
  <1>2. /\ Job = rt.queue[1] /\ 1 \in 1..Len(rt.queue) /\ c \in Ids /\ c <= rt.minted
    BY <1>1, Taken
  <1>3. /\ hist \in History /\ resolvable \in SUBSET Ids /\ rt \in Runtime
        /\ Restoring(rt, hist, resolvable)
    BY Parts
  <1>4. RestoreJob(rt, hist, resolvable, Job)
    BY <1>1, <1>2, <1>3 DEF Restoring, RestoresQueued, IsRestoreJob
  <1>5. PICK m \in Ids : /\ Restores(hist, resolvable, m, c)
                         /\ Job.arg = rt.promise[m].value
                         /\ \/ Job.fn = "restore_settle" /\ rt.promise[m].state = "fulfilled"
                            \/ Job.fn = "restore_reject" /\ rt.promise[m].state = "rejected"
    BY <1>4 DEF RestoreJob
  <1>6. Remembers(rt, hist, Job.caps)
    BY <1>4 DEF RestoreJob
  <1>7. /\ hist.source[c] \in Ids /\ ~IsPending(rt, hist.source[c]) /\ ~IsPending(rt, m)
        /\ \E state \in {"fulfilled", "rejected"}, v \in Plain :
              /\ rt' = Settle(d, c, state, v)
              /\ \/ /\ rt.promise[m].state = "rejected"
                    /\ [state |-> state, value |-> v] = Result(rt, m)
                 \/ /\ rt.promise[m].state = "fulfilled"
                    /\ [state |-> state, value |-> v] = Result(rt, hist.source[c])
    BY <1>1, <1>5, <1>6, RestoreCases
  <1>8. PICK state \in {"fulfilled", "rejected"}, v \in Plain :
              /\ rt' = Settle(d, c, state, v)
              /\ \/ /\ rt.promise[m].state = "rejected"
                    /\ [state |-> state, value |-> v] = Result(rt, m)
                 \/ /\ rt.promise[m].state = "fulfilled"
                    /\ [state |-> state, value |-> v] = Result(rt, hist.source[c])
    BY <1>7
  <1>9. /\ hist.finallyReturned[c] # NoValue /\ hist.delivered[c] # NoValue /\ c \notin resolvable
        /\ hist.first[c] = NoValue
    BY <1>2, <1>3, <1>5 DEF Restores, Restoring, Returned
  <1>10. DeliversTo(rt, hist, hist', c)
    <2>1. ~Waiting(hist, c)
      BY <1>9 DEF Waiting
    <2> QED
      BY <1>1, <1>3, <2>1, DeliversNothing
  <1>11. /\ Sound(d, hist, resolvable) /\ FirstDecides(d, hist)
         /\ d \in Runtime /\ d.minted = rt.minted /\ d.promise = rt.promise /\ ~Waiting(hist, c)
    BY <1>1, <1>10, TakenSound
  <1> HIDE DEF c, d
  <1>12. Sound(rt', hist, resolvable) /\ Spares(d, rt', hist, c) /\ FirstDecides(rt', hist)
    <2>1. CASE ~IsPending(d, c)
      <3>1. rt' = d
        BY <1>8, <2>1 DEF Settle, IsPending
      <3> QED
        BY <1>11, <3>1, Unchanged
    <2>2. CASE IsPending(d, c)
      <3>1. Settles(d, rt', c, state, v)
        BY <1>2, <1>8, <1>11, <2>2, Settling
      <3>2. Passed(rt', hist, c)
        <4>1. \A q \in Ids \ {c} : rt'.promise[q] = rt.promise[q]
          BY <1>11, <3>1 DEF Settles
        <4>2. Result(rt', c) = [state |-> state, value |-> v]
          BY <3>1 DEF Settles, Result
        <4>3. IsPending(rt, c)
          BY <1>11, <2>2 DEF IsPending
        <4>4. \/ rt.promise[m].state = "rejected" /\ Result(rt', c) = Result(rt, m)
              \/ rt.promise[m].state = "fulfilled" /\ Result(rt', c) = Result(rt, hist.source[c])
          BY <1>8, <4>2
        <4> QED
          BY <1>2, <1>5, <1>7, <4>1, <4>3, <4>4, RestorePasses
      <3>3. c <= d.minted
        BY <1>2, <1>11
      <3>4. Sound(rt', hist, resolvable) /\ Spares(d, rt', hist, c)
        BY <1>2, <1>3, <1>9, <1>11, <2>2, <3>1, <3>2, <3>3, SettlesSound
      <3>5. DecidedBut(d, hist, c)
        BY <1>11 DEF FirstDecides, DecidedBut
      <3> QED
        BY <1>2, <1>9, <3>4, <3>5, AllDecided
    <2> QED
      BY <2>1, <2>2
  <1>13. JobSettles
    BY <1>1, <1>10, <1>12 DEF JobSettles, c, d
  <1> QED
    BY <1>13, JobSettlesInv

\* A job calls a callback of the program, in a new frame.
JobCalls(f) ==
    /\ rt.queue # <<>> /\ Waiting(hist, Job.caps.chained)
    /\ DeliversTo(rt, hist, hist', Job.caps.chained)
    /\ f \in FrameRecord /\ f.promise = Job.caps.chained /\ f.kind \in {"handler", "finally"}
    /\ f.kind = "finally" => /\ f.value = hist'.delivered[Job.caps.chained].value
                             /\ f.isReject <=> hist'.delivered[Job.caps.chained].state = "rejected"
    /\ rt' = Dequeued /\ stack' = <<f>> \o stack
    /\ resolvable' = resolvable /\ calls' = calls /\ exit' = exit

\* Such a step keeps the invariant.
LEMMA JobCallsInv ==
    ASSUME IndInv, NEW f, JobCalls(f)
    PROVE  IndInv' /\ Keeps(rt, rt', hist, hist')
  <1> DEFINE c == Job.caps.chained
             d == Dequeued
  <1>1. /\ rt.queue # <<>> /\ Waiting(hist, c) /\ DeliversTo(rt, hist, hist', c)
        /\ f \in FrameRecord /\ f.promise = c /\ f.kind \in {"handler", "finally"}
        /\ f.kind = "finally" => /\ f.value = hist'.delivered[c].value
                                 /\ f.isReject <=> hist'.delivered[c].state = "rejected"
        /\ rt' = d /\ stack' = <<f>> \o stack
        /\ resolvable' = resolvable /\ calls' = calls /\ exit' = exit
    BY DEF JobCalls
  <1>2. /\ Sound(d, hist', resolvable) /\ FirstDecides(d, hist')
        /\ Framed(d, hist', stack, resolvable)
        /\ d \in Runtime /\ d.minted = rt.minted
        /\ hist' \in History /\ Kept(rt, d) /\ Delivery(rt, hist, hist')
        /\ Owed(hist', stack) \subseteq Owed(hist, stack)
        /\ Fresh(d, c) /\ hist'.delivered[c] # NoValue
    BY <1>1, TakenSound
  <1>3. /\ c \in Ids /\ c <= rt.minted
        /\ \A i \in 1..Len(stack) : stack[i].kind \in {"handler", "finally"} => stack[i].promise # c
    BY <1>1, Taken
  <1>4. /\ stack \in Seq(FrameRecord) /\ resolvable \in SUBSET Ids
        /\ exit \in {"running", "ok", "unhandled rejection", "uncaught"}
        /\ Unstarted(rt, hist, resolvable)
    BY Parts
  <1> HIDE DEF c, d
  <1>5. hist'.first[c] = NoValue /\ hist'.finallyReturned[c] = NoValue /\ c \notin resolvable
    BY <1>1, <1>3, <1>4 DEF Unstarted, DeliversTo
  <1>6. c \in 1..d.minted
    BY <1>2, <1>3, Counts DEF Ids
  <1>7. <<f>> \o stack \in Seq(FrameRecord) /\ Framed(d, hist', <<f>> \o stack, resolvable)
    <2>1. /\ f.kind # "main" /\ f.kind # "drain" /\ f.promise \in 1..d.minted
          /\ f.kind \notin {"executor", "thenable"}
          /\ hist'.delivered[f.promise] # NoValue /\ hist'.first[f.promise] = NoValue
          /\ hist'.finallyReturned[f.promise] = NoValue /\ f.promise \notin resolvable
          /\ Fresh(d, f.promise)
          /\ \A j \in 1..Len(stack) :
                stack[j].kind \in {"handler", "finally"} => stack[j].promise # f.promise
          /\ f.kind = "finally" =>
                /\ f.value = hist'.delivered[f.promise].value
                /\ f.isReject <=> hist'.delivered[f.promise].state = "rejected"
      BY <1>1, <1>2, <1>3, <1>5, <1>6
    <2> QED
      BY <1>1, <1>2, <1>4, <2>1, FramedPush
  <1>8. Owed(hist', <<f>> \o stack) \subseteq Owed(hist, stack)
    <2> DEFINE t == <<f>> \o stack
    <2>0. f \in FrameRecord /\ stack \in Seq(FrameRecord)
      BY <1>1, <1>4
    <2>1. \A k \in 1..Len(t) : k = 1 \/ (k - 1 \in 1..Len(stack) /\ t[k] = stack[k - 1])
      BY <2>0, Prepended
    <2>2. t[1] = f
      BY <2>0, Prepended
    <2>3. c \in Owed(hist, stack)
      BY <1>1, <1>3 DEF Owed, Waiting
    <2> HIDE DEF t
    <2>4. Owed(hist', t) \subseteq Owed(hist', stack) \cup {c}
      <3> SUFFICES ASSUME NEW x \in Owed(hist', t), x # c
                   PROVE  x \in Owed(hist', stack)
        OBVIOUS
      <3>1. /\ x \in Ids /\ hist'.source[x] # NoValue
            /\ \/ hist'.delivered[x] = NoValue
               \/ \E i \in 1..Len(t) : t[i].kind = "finally" /\ t[i].promise = x
        BY DEF Owed
      <3>2. CASE hist'.delivered[x] = NoValue
        BY <3>1, <3>2 DEF Owed
      <3>3. CASE \E i \in 1..Len(t) : t[i].kind = "finally" /\ t[i].promise = x
        <4>1. PICK i \in 1..Len(t) : t[i].kind = "finally" /\ t[i].promise = x
          BY <3>3
        <4>2. i # 1
          BY <1>1, <2>2, <4>1
        <4>3. i - 1 \in 1..Len(stack) /\ t[i] = stack[i - 1]
          BY <2>1, <4>2
        <4>4. \E j \in 1..Len(stack) : stack[j].kind = "finally" /\ stack[j].promise = x
          BY <4>1, <4>3
        <4> QED
          BY <3>1, <4>4 DEF Owed
      <3> QED
        BY <3>1, <3>2, <3>3
    <2> QED
      BY <1>2, <2>3, <2>4 DEF t
  <1>9. rt'.minted + Cardinality(Owed(hist', stack')) <= 2 * calls'
    <2>1. Cardinality(Owed(hist', stack')) <= Cardinality(Owed(hist, stack))
      BY <1>1, <1>8, OwedKept
    <2>2. Cardinality(Owed(hist', stack')) \in Nat
      BY OwedFinite
    <2>3. rt.minted + Cardinality(Owed(hist', stack')) <= 2 * calls
      BY <2>1, <2>2, Counts
    <2> QED
      BY <1>1, <1>2, <2>3
  <1>10. calls' \in 0..MaxCalls
    BY <1>1, Counts
  <1>11. IndInv'
    BY <1>1, <1>2, <1>4, <1>7, <1>9, <1>10, Whole, ZenonT(40)
  <1> QED
    BY <1>1, <1>2, <1>11 DEF Keeps

\* The callback of a reaction is called once: its reaction has not run.
LEMMA CallbackWaits ==
    ASSUME IndInv, rt.queue # <<>>, CallsBack(Job.fn)
    PROVE  /\ Waiting(hist, Job.caps.chained)
           /\ DeliversTo(rt, hist, Delivers(hist), Job.caps.chained)
           /\ Delivers(hist).delivered[Job.caps.chained].value = Job.arg
           /\ Fits(Job.fn, Delivers(hist).delivered[Job.caps.chained].state)
  <1> DEFINE c == Job.caps.chained
             g == Delivers(hist)
  <1>1. Job = rt.queue[1] /\ 1 \in 1..Len(rt.queue) /\ c \in Ids /\ rt.queue[1].caps.chained = c
    BY Taken
  <1>2. /\ hist \in History /\ resolvable \in SUBSET Ids /\ Sound(rt, hist, resolvable)
    BY Parts
  <1>3. Waiting(hist, c)
    BY <1>1, <1>2 DEF Sound, CallbacksWait
  <1>4. DeliversTo(rt, hist, g, c)
    BY <1>2, DeliversShape
  <1> HIDE DEF c, g
  <1>5. g.delivered[c] = Result(rt, hist.source[c])
    BY <1>3, <1>4 DEF DeliversTo
  <1>6. /\ Fits(rt.queue[1].fn, rt.promise[hist.source[c]].state)
        /\ rt.queue[1].arg = rt.promise[hist.source[c]].value
    BY <1>1, <1>2, <1>3, HeadDelivers
  <1>7. /\ g.delivered[c].state = rt.promise[hist.source[c]].state
        /\ g.delivered[c].value = rt.promise[hist.source[c]].value
    BY <1>5 DEF Result
  <1> QED
    BY <1>1, <1>3, <1>4, <1>6, <1>7 DEF c, g

\* The wrapper of a then handler calls it.
LEMMA CallHandlerInv ==
    ASSUME IndInv, CallHandler
    PROVE  IndInv' /\ Keeps(rt, rt', hist, hist')
  <1> DEFINE c == Job.caps.chained
             f == Frame("handler", c)
  <1>1. /\ rt.queue # <<>> /\ Job.fn \in {"then_fulfill", "then_reject"}
        /\ rt' = Dequeued /\ stack' = <<f>> \o stack /\ hist' = Delivers(hist)
        /\ resolvable' = resolvable /\ calls' = calls /\ exit' = exit
    BY DEF CallHandler, TakeJob, Push
  <1>2. Waiting(hist, c) /\ DeliversTo(rt, hist, hist', c)
    BY <1>1, CallbackWaits DEF CallsBack
  <1>3. c \in Ids
    BY <1>1, Taken
  <1> HIDE DEF c
  <1>4. f \in FrameRecord /\ f.promise = c /\ f.kind = "handler"
    BY <1>3, MaxCallsAssumption DEF Frame, FrameRecord, FrameKinds, Plain, Ids
  <1> HIDE DEF f
  <1>5. JobCalls(f)
    BY <1>1, <1>2, <1>4 DEF JobCalls, c
  <1> QED
    BY <1>5, JobCallsInv

\* The wrapper of a finally callback calls it.
LEMMA CallFinallyInv ==
    ASSUME IndInv, CallFinally
    PROVE  IndInv' /\ Keeps(rt, rt', hist, hist')
  <1> DEFINE c == Job.caps.chained
             b == Job.fn = "finally_reject"
             f == [kind |-> "finally", promise |-> c, value |-> Job.arg, isReject |-> b]
  <1>1. /\ rt.queue # <<>> /\ Job.fn \in {"finally_fulfill", "finally_reject"}
        /\ rt' = Dequeued /\ stack' = <<f>> \o stack /\ hist' = Delivers(hist)
        /\ resolvable' = resolvable /\ calls' = calls /\ exit' = exit
    BY DEF CallFinally, TakeJob, Push
  <1>2. /\ Waiting(hist, c) /\ DeliversTo(rt, hist, hist', c)
        /\ hist'.delivered[c].value = Job.arg /\ Fits(Job.fn, hist'.delivered[c].state)
    BY <1>1, CallbackWaits DEF CallsBack
  <1>3. c \in Ids /\ Job.arg \in Plain
    BY <1>1, Taken
  <1>b. b \in BOOLEAN /\ (b <=> hist'.delivered[c].state = "rejected")
    BY <1>1, <1>2 DEF Fits, FulfillFns, RejectFns
  <1> HIDE DEF c, b
  <1>4. /\ f \in FrameRecord /\ f.promise = c /\ f.kind = "finally" /\ f.value = Job.arg
        /\ f.isReject = b
    BY <1>3, <1>b, MaxCallsAssumption DEF FrameRecord, FrameKinds, Ids
  <1>5. f.isReject <=> hist'.delivered[c].state = "rejected"
    BY <1>b, <1>4
  <1> HIDE DEF f
  <1>6. JobCalls(f)
    BY <1>1, <1>2, <1>4, <1>5 DEF JobCalls, c
  <1> QED
    BY <1>6, JobCallsInv

\* The thenable job: the promise gets fresh resolving functions.
LEMMA CallThenableInv ==
    ASSUME IndInv, CallThenable
    PROVE  IndInv' /\ Keeps(rt, rt', hist, hist')
  <1> DEFINE c == Job.caps.chained
             d == Dequeued
             f == Frame("thenable", c)
             all == resolvable \cup {c}
  <1>1. /\ rt.queue # <<>> /\ Job.fn = "thenable_job"
        /\ rt' = d /\ stack' = <<f>> \o stack /\ hist' = hist
        /\ resolvable' = all /\ calls' = calls /\ exit' = exit
    BY DEF CallThenable, TakeJob, Push
  <1>2. /\ Job = rt.queue[1] /\ 1 \in 1..Len(rt.queue) /\ c \in Ids /\ c <= rt.minted
        /\ \A i \in 1..Len(stack) : stack[i].kind \in {"handler", "finally"} => stack[i].promise # c
    BY <1>1, Taken
  <1>3. /\ stack \in Seq(FrameRecord) /\ resolvable \in SUBSET Ids /\ hist \in History
        /\ exit \in {"running", "ok", "unhandled rejection", "uncaught"}
        /\ Unstarted(rt, hist, resolvable) /\ Restoring(rt, hist, resolvable)
    BY Parts, ZenonT(40)
  <1>4. hist.first[c] # NoValue /\ (c \notin hist.again => hist.first[c].value = Thenable)
    BY <1>1, <1>2, <1>3 DEF Unstarted
  <1>5. ~Waiting(hist, c)
    BY <1>2, <1>3, <1>4 DEF Unstarted
  <1>6. hist.finallyReturned[c] = NoValue
    <2>1. IsRestoreJob(hist, rt.queue[1]) => RestoreJob(rt, hist, resolvable, rt.queue[1])
      BY <1>2, <1>3 DEF Restoring, RestoresQueued
    <2>2. ~RestoreJob(rt, hist, resolvable, rt.queue[1])
      BY <1>1, <1>2 DEF RestoreJob
    <2> QED
      BY <1>2, <2>1, <2>2 DEF IsRestoreJob
  <1>7. DeliversTo(rt, hist, hist, c)
    BY <1>3, <1>5, DeliversNothing
  <1>8. /\ Sound(d, hist, resolvable) /\ FirstDecides(d, hist)
        /\ Framed(d, hist, stack, resolvable)
        /\ d \in Runtime /\ d.minted = rt.minted /\ Kept(rt, d)
    BY <1>1, <1>7, TakenSound
  <1> HIDE DEF c, d
  <1>9. Sound(d, hist, all)
    <2>1. c <= d.minted
      BY <1>2, <1>8
    <2> QED
      BY <1>2, <1>3, <1>4, <1>5, <1>6, <1>8, <2>1, ResolvableSound
  <1>10. all \in SUBSET Ids
    BY <1>2, <1>3
  <1>11. f \in FrameRecord /\ f.promise = c /\ f.kind = "thenable"
    BY <1>2, MaxCallsAssumption DEF Frame, FrameRecord, FrameKinds, Plain, Ids
  <1>12. c \in 1..d.minted /\ c \in all /\ resolvable \subseteq all
    BY <1>2, <1>8, Counts DEF Ids
  <1>13. Framed(d, hist, stack, all)
    <2>1. ASSUME NEW i \in 1..Len(stack), stack[i].kind \in {"handler", "finally"}
          PROVE  Fresh(d, stack[i].promise) /\ (stack[i].promise \in all => stack[i].promise \in resolvable)
      <3>1. Fresh(d, stack[i].promise)
        BY <1>3, <1>8, <2>1, Held
      <3>2. stack[i].promise # c
        BY <1>2, <2>1
      <3> QED
        BY <3>1, <3>2
    <2>2. d.minted <= d.minted
      BY <1>8, Counts
    <2> HIDE DEF all
    <2> QED
      BY <1>3, <1>8, <1>12, <2>1, <2>2, FramedKept, ZenonT(40)
  <1> HIDE DEF f, all
  <1>14. stack' \in Seq(FrameRecord) /\ Framed(d, hist, stack', all)
    <2>1. /\ f \in FrameRecord /\ f.kind # "drain" /\ f.kind # "main" /\ f.promise \in 1..d.minted
          /\ f.promise \in all /\ f.kind \notin {"handler", "finally"}
      BY <1>11, <1>12
    <2> QED
      BY <1>1, <1>3, <1>8, <1>13, <2>1, FramedPush
  <1>15. rt'.minted + Cardinality(Owed(hist', stack')) <= 2 * calls'
    <2>1. Owed(hist, stack') \subseteq Owed(hist, stack)
      BY <1>1, <1>3, <1>11, OwedPush
    <2>2. Cardinality(Owed(hist, stack')) <= Cardinality(Owed(hist, stack))
      BY <2>1, OwedKept
    <2>3. Cardinality(Owed(hist, stack')) \in Nat
      BY OwedFinite
    <2>4. rt.minted + Cardinality(Owed(hist, stack')) <= 2 * calls
      BY <2>2, <2>3, Counts
    <2> QED
      BY <1>1, <1>8, <2>4
  <1>16. calls' \in 0..MaxCalls
    BY <1>1, Counts
  <1>17. IndInv'
    BY <1>1, <1>3, <1>8, <1>9, <1>10, <1>14, <1>15, <1>16, Whole
  <1>18. Delivery(rt, hist, hist')
    BY <1>1, DeliveryCall
  <1> QED
    BY <1>1, <1>8, <1>17, <1>18 DEF Keeps

\* Every step of the program and of the drain loop.
LEMMA NextInv ==
    ASSUME IndInv, [Next]_vars
    PROVE  IndInv' /\ Keeps(rt, rt', hist, hist')
  <1>1. ASSUME ProgramCall
        PROVE  IndInv' /\ Keeps(rt, rt', hist, hist')
    BY <1>1, NewPromiseWithExecutorInv, CallResolveInv, CallRejectInv, PromiseResolveInv,
       PromiseRejectInv, ThenInv, FinallyInv, CallDrainInv, ZenonT(30) DEF ProgramCall
  <1>2. ASSUME CallbackEnds
        PROVE  IndInv' /\ Keeps(rt, rt', hist, hist')
    BY <1>2, HandlerReturnInv, FinallyReturnInv, PlainReturnInv, CallbackThrowInv, MainReturnInv,
       EndInv, ZenonT(30) DEF CallbackEnds
  <1>3. ASSUME DrainTurn
        PROVE  IndInv' /\ Keeps(rt, rt', hist, hist')
    BY <1>3, RunIdentityInv, RunRestoreInv, CallHandlerInv, CallFinallyInv, CallThenableInv,
       DrainReturnInv, EndInv, ZenonT(30) DEF DrainTurn
  <1>4. ASSUME UNCHANGED vars
        PROVE  IndInv' /\ Keeps(rt, rt', hist, hist')
    <2>1. /\ rt' = rt /\ stack' = stack /\ resolvable' = resolvable /\ calls' = calls
          /\ exit' = exit /\ hist' = hist
      BY <1>4 DEF vars
    <2>2. StackStep
      <3>1. calls <= MaxCalls
        BY Counts
      <3>2. /\ stack \in Seq(FrameRecord) /\ Framed(rt, hist, stack, resolvable)
            /\ exit \in {"running", "ok", "unhandled rejection", "uncaught"}
        BY Parts
      <3> QED
        BY <2>1, <3>1, <3>2 DEF StackStep
    <2> QED
      BY <2>2, OnlyStack
  <1> QED
    BY <1>1, <1>2, <1>3, <1>4 DEF Next

\* The invariant holds in every reachable state.
LEMMA Inductive ==
    Spec => []IndInv
  <1>1. IndInv /\ [Next]_vars => IndInv'
    BY NextInv
  <1> QED
    BY InitInv, <1>1, PTL DEF Spec
-----------------------------------------------------------------------------
(***************************************************************************)
(* The theorems.                                                           *)
(***************************************************************************)

\* What the inductive invariant says of the runtime and the history.
LEMMA Facts ==
    ASSUME IndInv
    PROVE  /\ rt \in Runtime /\ InOrder(rt) /\ hist \in History
           /\ Attached(rt, hist) /\ Placed(rt, hist) /\ Noted(rt, hist)
           /\ Unstarted(rt, hist, resolvable) /\ Returned(rt, hist, resolvable)
           /\ FirstDecides(rt, hist)
  BY DEF IndInv, Typed, Sound, TypedRuntime, Restoring

\* Promises are allocated in order and never more than the program's calls
\* allow, nothing refers to one that is not allocated, and a promise is
\* settled with a plain value only, never with a promise or a thenable.
THEOREM RuntimeStaysTyped == Spec => []TypeOK
  <1>1. ASSUME IndInv PROVE TypeOK
    <2>1. /\ rt \in Runtime /\ InOrder(rt) /\ Unstarted(rt, hist, resolvable)
      BY <1>1, Facts
    <2>2. rt.minted \in 0..(2 * MaxCalls)
      BY <2>1, SMTT(30) DEF Runtime
    <2>3. ASSUME NEW p \in Ids
          PROVE  /\ rt.promise[p].state \in {"pending", "fulfilled", "rejected"}
                 /\ rt.promise[p].value \in Value \cup {NoValue, Thrown, CycleError}
                 /\ p > rt.minted => rt.promise[p] = NewPromise
                 /\ \A i \in DOMAIN rt.promise[p].callbacks :
                       rt.promise[p].callbacks[i].caps.chained \in 1..rt.minted
      <3>1. rt.promise[p] \in PromiseRecord
        BY <2>1 DEF Runtime
      <3>2. rt.promise[p].callbacks \in Seq(Reaction)
        BY <3>1 DEF PromiseRecord
      <3>3. DOMAIN rt.promise[p].callbacks = 1..Len(Reactions(rt, p))
        BY <3>2, SMTT(30) DEF Reactions
      <3>4. ASSUME NEW i \in 1..Len(Reactions(rt, p))
            PROVE  rt.promise[p].callbacks[i].caps.chained \in 1..rt.minted
        <4>1. Reactions(rt, p)[i].caps.chained \in Ids
          BY <2>1, ListTyped
        <4>2. Reactions(rt, p)[i].caps.chained <= rt.minted
          BY <2>1 DEF InOrder
        <4> QED
          BY <2>2, <4>1, <4>2, MaxCallsAssumption DEF Ids, Reactions
      <3>5. p > rt.minted => rt.promise[p] = NewPromise
        BY <2>1 DEF InOrder
      <3> QED
        BY <3>1, <3>3, <3>4, <3>5 DEF PromiseRecord, States, Plain
    <2>4. ASSUME NEW i \in DOMAIN rt.queue
          PROVE  rt.queue[i].caps.chained \in 1..rt.minted
      <3>1. rt.queue \in Seq(JobRecord)
        BY <2>1 DEF Runtime
      <3>2. i \in 1..Len(rt.queue)
        BY <3>1
      <3>3. rt.queue[i] \in JobRecord
        BY <3>1, <3>2
      <3>4. rt.queue[i].caps.chained \in Ids
        BY <3>3 DEF JobRecord, Captures
      <3>5. rt.queue[i].caps.chained <= rt.minted
        BY <2>1, <3>2 DEF InOrder
      <3> QED
        BY <2>2, <3>4, <3>5, MaxCallsAssumption DEF Ids
    <2>5. resolvable \subseteq 1..rt.minted
      BY <2>1 DEF Unstarted
    <2>6. exit \in {"running", "ok", "unhandled rejection", "uncaught"}
      BY <1>1, Parts
    <2> QED
      BY <2>2, <2>3, <2>4, <2>5, <2>6 DEF TypeOK
  <1> QED
    BY <1>1, Inductive, PTL

\* A reaction that has not run is in exactly one place, and that is the queue
\* once its source is settled: no then, settle, drain or throw, in whatever
\* order and from whatever callback, drops or doubles it.
THEOREM ReactionsStay == Spec => []NoReactionLost
  <1>1. ASSUME IndInv PROVE NoReactionLost
    <2> SUFFICES ASSUME NEW c \in Ids, hist.source[c] # NoValue, hist.delivered[c] = NoValue
                 PROVE  /\ Cardinality(Places(c)) = 1
                        /\ Settled(hist.source[c]) => \A x \in Places(c) : x[1] = "job"
      BY DEF NoReactionLost
    <2> DEFINE p == hist.source[c]
    <2>1. rt \in Runtime /\ InOrder(rt) /\ hist \in History /\ Placed(rt, hist)
      BY <1>1, Facts
    <2>2. InPlace(rt, p, c) /\ p \in Ids
      BY <2>1 DEF Placed, Waiting, History
    <2>3. DOMAIN rt.queue = 1..Len(rt.queue)
      <3>1. rt.queue \in Seq(JobRecord)
        BY <2>1 DEF Runtime
      <3> QED
        BY <3>1
    <2>4. DOMAIN rt.promise[p].callbacks = 1..Len(Reactions(rt, p))
      <3>1. rt.promise[p] \in PromiseRecord
        BY <2>1, <2>2 DEF Runtime
      <3>2. rt.promise[p].callbacks \in Seq(Reaction)
        BY <3>1, SMTT(30) DEF PromiseRecord
      <3> QED
        BY <3>2 DEF Reactions
    <2> DEFINE L == {j \in DOMAIN rt.promise[hist.source[c]].callbacks :
                        rt.promise[hist.source[c]].callbacks[j].caps.chained = c}
               Q == {j \in DOMAIN rt.queue : rt.queue[j].caps.chained = c}
               S == {hist.source[c]}
    <2>l. \A i : i \in L <=> i \in 1..Len(Reactions(rt, p)) /\ Reactions(rt, p)[i].caps.chained = c
      BY <2>4 DEF Reactions
    <2>q. \A i : i \in Q <=> i \in 1..Len(rt.queue) /\ rt.queue[i].caps.chained = c
      BY <2>3
    <2>s. S = {p}
      OBVIOUS
    <2>d. Places(c) = {<<"list", x, i>> : x \in S, i \in L} \cup {<<"job", 0, i>> : i \in Q}
      BY DEF Places
    <2> HIDE DEF L, Q, S, p
    <2>5. Places(c) = {<<"list", p, i>> : i \in L} \cup {<<"job", 0, i>> : i \in Q}
      BY <2>s, <2>d
    <2>6. CASE IsPending(rt, p)
      <3>1. PICK i \in 1..Len(Reactions(rt, p)) :
                /\ Reactions(rt, p)[i].caps.chained = c
                /\ \A j \in 1..Len(Reactions(rt, p)) : Reactions(rt, p)[j].caps.chained = c => j = i
        BY <2>2, <2>6 DEF InPlace, OnList
      <3>2. \A j \in 1..Len(rt.queue) : rt.queue[j].caps.chained # c
        BY <2>2, <2>6 DEF InPlace, NotInQueue
      <3>3. L = {i} /\ Q = {}
        BY <2>l, <2>q, <3>1, <3>2
      <3>4. Places(c) = {<<"list", p, i>>}
        BY <2>5, <3>3
      <3> QED
        BY <2>6, <3>4, FS_Singleton DEF Settled, IsPending, p
    <2>7. CASE ~IsPending(rt, p)
      <3>1. PICK i \in 1..Len(rt.queue) :
                /\ rt.queue[i].caps.chained = c
                /\ \A j \in 1..Len(rt.queue) : rt.queue[j].caps.chained = c => j = i
        BY <2>2, <2>7 DEF InPlace, InQueue
      <3>2. \A j \in 1..Len(Reactions(rt, p)) : FALSE
        <4>1. Reactions(rt, p) = <<>>
          BY <2>1, <2>2, <2>7 DEF InOrder
        <4> QED
          BY <4>1
      <3>3. L = {} /\ Q = {i}
        BY <2>l, <2>q, <3>1, <3>2
      <3>4. Places(c) = {<<"job", 0, i>>}
        BY <2>5, <3>3
      <3>5. Cardinality(Places(c)) = 1
        BY <3>4, FS_Singleton
      <3>6. ASSUME NEW x \in Places(c) PROVE x[1] = "job"
        <4>1. x = <<"job", 0, i>>
          BY <3>4
        <4> QED
          BY <4>1
      <3> QED
        BY <3>5, <3>6
    <2> QED
      BY <2>6, <2>7
  <1> QED
    BY <1>1, Inductive, PTL

\* A promise that was resolved with another promise, by its only resolving
\* call, is settled only after that promise, and the same way.
THEOREM AdoptionFollows == Spec => []AdoptionFollowsInner
  <1>1. ASSUME IndInv PROVE AdoptionFollowsInner
    <2> SUFFICES ASSUME NEW p \in Ids \ hist.again, hist.first[p] # NoValue,
                        hist.first[p].how = "resolve", hist.first[p].value \in Ids \ {p}, Settled(p)
                 PROVE  Outcome(p) = Outcome(hist.first[p].value)
      BY DEF AdoptionFollowsInner
    <2> DEFINE w == hist.first[p].value
    <2>1. Decided(rt, hist, p)
      BY <1>1, Facts DEF FirstDecides
    <2>2. ~IsPending(rt, p)
      BY DEF Settled, IsPending
    <2>3. ~IsPending(rt, w) /\ Result(rt, p) = Result(rt, w)
      BY <2>1, <2>2 DEF Decided
    <2> HIDE DEF w
    <2>4. Outcome(w) = Result(rt, w) /\ Outcome(p) = Result(rt, p)
      BY <2>2, <2>3 DEF Outcome, Settled, Result, IsPending
    <2> QED
      BY <2>3, <2>4 DEF w
  <1> QED
    BY <1>1, Inductive, PTL

\* A finally settles its promise the way the receiver was settled, unless
\* the callback returned a promise or thenable that rejects.
THEOREM FinallyIsTransparent == Spec => []FinallyPassesThrough
  <1>1. ASSUME IndInv PROVE FinallyPassesThrough
    <2> DEFINE result(c) == hist.finallyReturned[c]
               Says(c) ==
                CASE result(c) \in Value -> Outcome(c) = Outcome(hist.source[c])
                  [] result(c) = Poisoned -> Outcome(c) = [state |-> "rejected", value |-> Thrown]
                  [] result(c) \in Ids   -> /\ Settled(result(c))
                                            /\ Outcome(c) = IF rt.promise[result(c)].state = "fulfilled"
                                                            THEN Outcome(hist.source[c])
                                                            ELSE Outcome(result(c))
                  [] result(c) = Thenable -> \/ Outcome(c) = Outcome(hist.source[c])
                                             \/ rt.promise[c].state = "rejected"
    <2> SUFFICES ASSUME NEW c \in Ids, result(c) # NoValue, Settled(c)
                 PROVE  Says(c)
      BY DEF FinallyPassesThrough
    <2> DEFINE p == hist.source[c]
               w == result(c)
    <2>1. hist \in History /\ Attached(rt, hist) /\ Returned(rt, hist, resolvable)
      BY <1>1, Facts
    <2>2. ~IsPending(rt, c) /\ hist.delivered[c] # NoValue
      BY <2>1 DEF Settled, IsPending, Returned
    <2>3. Passed(rt, hist, c)
      BY <2>1, <2>2 DEF Returned
    <2>4. ~IsPending(rt, p)
      BY <2>1, <2>2 DEF Attached
    <2>5. Outcome(p) = Result(rt, p) /\ Outcome(c) = Result(rt, c)
      BY <2>2, <2>4 DEF Outcome, Settled, Result, IsPending
    <2>6. w \in Resolutions
      BY <2>1 DEF History
    <2>7. CASE w \in Value
      <3>1. Outcome(c) = Outcome(p)
        BY <2>3, <2>5, <2>7 DEF Passed
      <3>2. w # Poisoned /\ w \notin Ids /\ w # Thenable
        BY <2>7, KindsAssumption
      <3> QED
        BY <2>7, <3>1, <3>2
    <2>8. CASE w = Poisoned
      <3>1. Outcome(c) = [state |-> "rejected", value |-> Thrown]
        BY <2>3, <2>5, <2>8 DEF Passed
      <3>2. w \notin Value /\ w \notin Ids /\ w # Thenable
        BY <2>8, KindsAssumption
      <3> QED
        BY <2>8, <3>1, <3>2
    <2>9. CASE w \in Ids
      <3>1. /\ ~IsPending(rt, w)
            /\ Result(rt, c) = IF rt.promise[w].state = "fulfilled" THEN Result(rt, p)
                               ELSE Result(rt, w)
        BY <2>3, <2>9 DEF Passed
      <3>2. Settled(w) /\ Outcome(w) = Result(rt, w)
        BY <3>1 DEF Outcome, Settled, Result, IsPending
      <3>3. Outcome(c) = IF rt.promise[w].state = "fulfilled" THEN Outcome(p) ELSE Outcome(w)
        BY <2>5, <3>1, <3>2
      <3>4. w # Poisoned /\ w \notin Value /\ w # Thenable
        BY <2>9, KindsAssumption
      <3> QED
        BY <2>9, <3>2, <3>3, <3>4
    <2>10. CASE w = Thenable
      <3>1. Outcome(c) = Outcome(p) \/ rt.promise[c].state = "rejected"
        BY <2>3, <2>5, <2>10 DEF Passed
      <3>2. w # Poisoned /\ w \notin Value /\ w \notin Ids
        BY <2>10, KindsAssumption
      <3> QED
        BY <2>10, <3>1, <3>2
    <2> QED
      BY <2>6, <2>7, <2>8, <2>9, <2>10 DEF Resolutions
  <1> QED
    BY <1>1, Inductive, PTL

\* The list of unhandled rejections is exact for every promise that no other
\* one follows: one open entry as long as nothing reacts to its rejection.
THEOREM UnhandledIsExact == Spec => []UnhandledListExact
  <1>1. ASSUME IndInv PROVE UnhandledListExact
    <2> SUFFICES ASSUME NEW p \in (1..rt.minted) \ hist.consumed
                 PROVE  Cardinality(OpenNotes(p)) =
                            IF rt.promise[p].state = "rejected" /\ Chained(p) = {} THEN 1 ELSE 0
      BY DEF UnhandledListExact
    <2>1. rt \in Runtime /\ Noted(rt, hist)
      BY <1>1, Facts
    <2>2. p \in Ids
      BY <2>1, MaxCallsAssumption DEF Runtime, Ids
    <2>3. DOMAIN rt.unhandled = 1..Len(rt.unhandled)
      <3>1. rt.unhandled \in Seq(NoteRecord)
        BY <2>1 DEF Runtime
      <3> QED
        BY <3>1
    <2>4. OpenNotes(p) = {i \in 1..Len(rt.unhandled) :
                            rt.unhandled[i].promise = p /\ ~rt.unhandled[i].handled}
      BY <2>3 DEF OpenNotes
    <2>5. Chained(p) = {} <=> ~Chains(hist, p)
      BY DEF Chained, Chains
    <2>6. CASE rt.promise[p].state = "rejected" /\ Chained(p) = {}
      <3>1. PICK i \in 1..Len(rt.unhandled) :
                rt.unhandled[i].promise = p /\ ~rt.unhandled[i].handled
        BY <2>1, <2>2, <2>5, <2>6 DEF Noted
      <3>2. \A j \in 1..Len(rt.unhandled) : rt.unhandled[j].promise = p => j = i
        BY <2>1, <3>1 DEF Noted
      <3>3. OpenNotes(p) = {i}
        BY <2>4, <3>1, <3>2
      <3> QED
        BY <2>6, <3>3, FS_Singleton
    <2>7. CASE ~(rt.promise[p].state = "rejected" /\ Chained(p) = {})
      <3>1. \A i \in 1..Len(rt.unhandled) : rt.unhandled[i].promise = p => rt.unhandled[i].handled
        <4>1. CASE rt.promise[p].state # "rejected"
          BY <2>1, <4>1 DEF Noted
        <4>2. CASE Chains(hist, p)
          BY <2>1, <2>2, <4>2 DEF Noted
        <4> QED
          BY <2>5, <2>7, <4>1, <4>2
      <3>2. OpenNotes(p) = {}
        BY <2>4, <3>1
      <3> QED
        BY <2>7, <3>2, FS_EmptySet
    <2> QED
      BY <2>6, <2>7
  <1> QED
    BY <1>1, Inductive, PTL

\* The runtime implements the contract of a promise: every step, of whatever
\* callback or drain, settles promises that were pending, attaches reactions
\* once and hands each of them the outcome of its source once, after that
\* was settled.
THEOREM RuntimeImplementsContract == Spec => ImplementsContract
  <1>1. Init => Contract!ContractInit
    <2> SUFFICES ASSUME Init PROVE Contract!ContractInit
      OBVIOUS
    <2>1. ASSUME NEW p \in Ids PROVE Outcome(p) = NoValue
      BY DEF Init, NoPromises, NewPromise, Outcome, Settled
    <2>2. hist.source = [p \in Ids |-> NoValue] /\ hist.delivered = [p \in Ids |-> NoValue]
      BY DEF Init
    <2>3. [p \in Ids |-> Outcome(p)] = [p \in Ids |-> NoValue]
      BY <2>1
    <2> QED
      BY <2>2, <2>3 DEF Contract!ContractInit
  <1>2. IndInv /\ [Next]_vars => Contract!ContractNext
    <2> SUFFICES ASSUME IndInv, [Next]_vars PROVE Contract!ContractNext
      OBVIOUS
    <2>1. Kept(rt, rt') /\ Delivery(rt, hist, hist') /\ rt \in Runtime /\ hist \in History
      BY NextInv, Parts DEF Keeps
    <2>2. \A p \in Ids : Outcome(p) # NoValue => ~IsPending(rt, p)
      BY DEF Outcome, Settled, IsPending
    <2>3. ASSUME NEW p \in Ids, ~IsPending(rt, p)
          PROVE  Outcome(p) = Result(rt, p) /\ Outcome(p)' = Outcome(p) /\ Outcome(p) # NoValue
      <3>1. rt.promise[p] \in PromiseRecord
        BY <2>1 DEF Runtime
      <3>2. Outcome(p) = Result(rt, p)
        BY <2>3 DEF Outcome, Settled, IsPending, Result
      <3>3. rt'.promise[p].state = rt.promise[p].state /\ rt'.promise[p].value = rt.promise[p].value
        BY <2>1, <2>3 DEF Kept
      <3>4. Outcome(p)' = Outcome(p)
        BY <3>3 DEF Outcome, Settled
      <3>5. Result(rt, p) # NoValue
        BY <2>3, <3>1, NotNullAssumption DEF PromiseRecord, States, Result, IsPending, Plain
      <3> QED
        BY <3>2, <3>4, <3>5
    <2>4. ASSUME NEW p \in Ids
          PROVE  /\ Contract!SettledOnce(p) /\ Contract!AttachedOnce(p) /\ Contract!DeliveredOnce(p)
      <3>1. Contract!SettledOnce(p)
        BY <2>2, <2>3 DEF Contract!SettledOnce
      <3>2. Contract!AttachedOnce(p)
        BY <2>1 DEF Contract!AttachedOnce, Delivery
      <3>3. Contract!DeliveredOnce(p)
        <4>1. CASE hist'.delivered[p] = hist.delivered[p]
          BY <4>1 DEF Contract!DeliveredOnce
        <4>2. CASE /\ hist.delivered[p] = NoValue /\ hist.source[p] # NoValue
                   /\ ~IsPending(rt, hist.source[p])
                   /\ hist'.delivered[p] = Result(rt, hist.source[p])
          <5>1. hist.source[p] \in Ids
            BY <2>1, <4>2 DEF History
          <5>2. /\ Outcome(hist.source[p]) = Result(rt, hist.source[p])
                /\ Outcome(hist.source[p]) # NoValue
            BY <2>3, <4>2, <5>1
          <5> QED
            BY <4>2, <5>1, <5>2 DEF Contract!DeliveredOnce
        <4> QED
          BY <2>1, <4>1, <4>2 DEF Delivery
      <3> QED
        BY <3>1, <3>2, <3>3
    <2> QED
      BY <2>4 DEF Contract!ContractNext
  <1> QED
    BY <1>1, <1>2, Inductive, PTL DEF Spec, ImplementsContract, Contract!ContractSpec
=============================================================================

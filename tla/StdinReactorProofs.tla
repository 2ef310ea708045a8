------------------------- MODULE StdinReactorProofs -------------------------
(***************************************************************************)
(* Proofs about StdinReactor, for every size of the reactor's buffer, every *)
(* number of bytes, listeners and calls, and every nesting of listeners    *)
(* and pumps: no byte is lost, repeated or overtaken on its way from the   *)
(* descriptor to the program, and 'end' comes last.                        *)
(***************************************************************************)
EXTENDS StdinReactor, SequenceTheorems, TLAPS

PumpRecord == [fn : {"pump"}, at : {"readable", "flow", "data", "end", "ended"}, i : Nat,
               eof : BOOLEAN, chunk : Seq(Nat)]

Activation == [fn : {"code"}, ev : Events \cup {"main", "job", "timer"}]
              \cup PumpRecord
              \cup [fn : {"destroy"}, i : Nat]

FlagRecord == [flowing : BOOLEAN, paused : BOOLEAN, ended : BOOLEAN, armed : BOOLEAN,
               eofReadableFired : BOOLEAN, destroyed : BOOLEAN]

\* The types of what the properties speak of.
Typed ==
    /\ taken \in Nat
    /\ fdActive \in BOOLEAN
    /\ sbuf \in Seq(Nat)
    /\ pos \in Nat
    /\ pos <= Len(sbuf)
    /\ Len(sbuf) <= Cap
    /\ buf \in Seq(Nat)
    /\ out \in Seq(Nat)
    /\ flag \in FlagRecord
    /\ listeners \in [Events -> Nat]
    /\ stack \in Seq(Activation)
    /\ heard \in Seq(Seq(Nat))
    /\ Len(heard) = listeners["data"]

\* The bytes read so far, in order.
Counted == out \o buf \o Unread = [k \in 1..taken |-> k]

\* pump() left nothing unread when it began, the descriptor is read outside
\* of it only, and a descriptor that became inactive stays so.
Drained == \A k \in 1..Len(stack) :
    stack[k].fn = "pump" => pos = Len(sbuf) /\ (stack[k].eof => ~fdActive)

\* Nothing is left, and nothing can come.
Ended == flag.ended => ~fdActive /\ buf = <<>> /\ pos = Len(sbuf)

Emits(p) == p.fn = "pump" /\ p.at = "data"

\* The bytes that left the stream before the chunk of p.
Before(p) == Len(out) - Len(p.chunk)

\* While a chunk is being emitted the stream holds nothing, so no second chunk
\* is; what has not been given the chunk yet has heard earlier bytes only.
Emission ==
    /\ \A j, k \in 1..Len(stack) : Emits(stack[j]) /\ Emits(stack[k]) => j = k
    /\ \A k \in 1..Len(stack) : Emits(stack[k]) =>
          /\ buf = <<>>
          /\ Len(stack[k].chunk) <= Len(out)
          /\ \A b \in 1..Len(stack[k].chunk) : stack[k].chunk[b] = Before(stack[k]) + b
          /\ \A l \in 1..Len(heard) : l > stack[k].i =>
                \A b \in 1..Len(heard[l]) : heard[l][b] <= Before(stack[k])

\* An emission that has called no listener yet is at the top of the stack and
\* not behind 'end': pump() can be called again, and 'end' announced, only
\* from inside a listener.
Underway == \A k \in 1..Len(stack) :
    Emits(stack[k]) /\ stack[k].i = 0 => k = 1 /\ ~flag.ended

\* Every data listener hears a rising run of the bytes that left the stream.
Hearing ==
    \A l \in 1..Len(heard) :
        /\ \A b \in 1..Len(heard[l]) : heard[l][b] <= Len(out)
        /\ \A j, k \in 1..Len(heard[l]) : j < k => heard[l][j] < heard[l][k]

\* The inductive invariant.
IndInv == Typed /\ Counted /\ Drained /\ Ended /\ Emission /\ Underway /\ Hearing
-----------------------------------------------------------------------------
(***************************************************************************)
(* The stack.                                                              *)
(***************************************************************************)

\* A call begins.
LEMMA Pushed ==
    ASSUME NEW S, NEW s \in Seq(S), NEW x \in S
    PROVE  LET t == <<x>> \o s
           IN  /\ t \in Seq(S)
               /\ Len(t) = Len(s) + 1
               /\ t[1] = x
               /\ \A k \in 1..Len(t) : k = 1 \/ (k - 1 \in 1..Len(s) /\ t[k] = s[k - 1])
  OBVIOUS

\* A call ends.
LEMMA Popped ==
    ASSUME NEW S, NEW s \in Seq(S), s # <<>>
    PROVE  LET t == Tail(s)
           IN  /\ t \in Seq(S)
               /\ Len(s) \in Nat /\ Len(s) > 0
               /\ Len(t) = Len(s) - 1
               /\ Head(s) = s[1] /\ Head(s) \in S
               /\ \A k \in 1..Len(t) : k + 1 \in 1..Len(s) /\ t[k] = s[k + 1]
  <1>1. Len(s) \in Nat /\ Len(s) > 0
    BY EmptySeq
  <1>2. /\ Tail(s) \in Seq(S)
        /\ Len(Tail(s)) = Len(s) - 1
        /\ \A i \in 1..Len(Tail(s)) : Tail(s)[i] = s[i + 1]
        /\ Head(s) \in S
    BY HeadTailProperties
  <1>3. Head(s) = s[1]
    BY <1>1
  <1> QED
    BY <1>1, <1>2, <1>3

\* A call goes on.
LEMMA Replaced ==
    ASSUME NEW S, NEW s \in Seq(S), s # <<>>, NEW x \in S
    PROVE  LET t == <<x>> \o Tail(s)
           IN  /\ t \in Seq(S)
               /\ Len(t) = Len(s)
               /\ t[1] = x
               /\ \A k \in 1..Len(t) : k = 1 \/ (k \in 1..Len(s) /\ t[k] = s[k])
  <1> DEFINE u == Tail(s)
  <1>1. /\ u \in Seq(S) /\ Len(u) = Len(s) - 1 /\ Len(s) \in Nat /\ Len(s) > 0
        /\ \A k \in 1..Len(u) : u[k] = s[k + 1]
    BY Popped
  <1> HIDE DEF u
  <1>2. /\ <<x>> \o u \in Seq(S)
        /\ Len(<<x>> \o u) = Len(u) + 1
        /\ (<<x>> \o u)[1] = x
        /\ \A k \in 1..(Len(u) + 1) : k = 1 \/ (k - 1 \in 1..Len(u) /\ (<<x>> \o u)[k] = u[k - 1])
    BY <1>1, Pushed
  <1>3. \A k \in 1..Len(s) : k = 1 \/ (<<x>> \o u)[k] = s[k]
    BY <1>1, <1>2
  <1> QED
    BY <1>1, <1>2, <1>3 DEF u

\* A call goes on by calling another one.
LEMMA Called ==
    ASSUME NEW S, NEW s \in Seq(S), s # <<>>, NEW x \in S, NEW y \in S
    PROVE  LET t == <<y, x>> \o Tail(s)
           IN  /\ t \in Seq(S)
               /\ Len(t) = Len(s) + 1
               /\ t[1] = y
               /\ t[2] = x
               /\ \A k \in 1..Len(t) : k = 1 \/ k = 2 \/ (k - 1 \in 1..Len(s) /\ t[k] = s[k - 1])
  <1> DEFINE u == Tail(s)
  <1>1. /\ u \in Seq(S) /\ Len(u) = Len(s) - 1 /\ Len(s) \in Nat /\ Len(s) > 0
        /\ \A k \in 1..Len(u) : u[k] = s[k + 1]
    BY Popped
  <1> HIDE DEF u
  <1>2. /\ <<y, x>> \o u \in Seq(S)
        /\ Len(<<y, x>> \o u) = Len(u) + 2
        /\ (<<y, x>> \o u)[1] = y
        /\ (<<y, x>> \o u)[2] = x
        /\ \A k \in 3..(Len(u) + 2) : (<<y, x>> \o u)[k] = u[k - 2]
    BY <1>1
  <1>3. \A k \in 1..(Len(s) + 1) : k = 1 \/ k = 2 \/ (k - 1 \in 1..Len(s) /\ (<<y, x>> \o u)[k] = s[k - 1])
    BY <1>1, <1>2
  <1> QED
    BY <1>1, <1>2, <1>3 DEF u

\* An activation that neither emits a chunk nor is wrong about the end.
Harmless(p) ==
    /\ p \in Activation
    /\ p.fn = "pump" => p.at # "data" /\ pos = Len(sbuf) /\ (p.eof => ~fdActive)

\* What is on the stack is new and harmless, or was there before, d places
\* further down.
Shifted(d) ==
    /\ stack' \in Seq(Activation)
    /\ \A k \in 1..Len(stack') :
          \/ Harmless(stack[k])'
          \/ k + d \in 1..Len(stack) /\ stack'[k] = stack[k + d]

\* Steps that leave the bytes of a chunk in progress alone.
LEMMA StackSteps ==
    ASSUME Typed, Drained, Emission, NEW d \in Int,
           Shifted(d),
           ~fdActive => ~fdActive',
           pos = Len(sbuf) => pos' = Len(sbuf'),
           (\E k \in 1..Len(stack) : Emits(stack[k])) => buf' = <<>> /\ out' = out,
           heard' \in Seq(Seq(Nat)),
           Len(heard') >= Len(heard),
           \A l \in 1..Len(heard') : IF l <= Len(heard) THEN heard'[l] = heard[l] ELSE heard'[l] = <<>>
    PROVE  Drained' /\ Emission'
  <1>1. Drained'
    BY DEF Shifted, Drained, Harmless
  <1>2. \A k \in 1..Len(stack') : Emits(stack'[k]) =>
            k + d \in 1..Len(stack) /\ stack'[k] = stack[k + d] /\ Emits(stack[k + d])
    BY DEF Shifted, Emits, Harmless
  <1>3. \A j, k \in 1..Len(stack') : Emits(stack'[j]) /\ Emits(stack'[k]) => j = k
    BY <1>2 DEF Emission
  <1>4. ASSUME NEW k \in 1..Len(stack'), Emits(stack'[k])
        PROVE  /\ buf' = <<>>
               /\ Len(stack'[k].chunk) <= Len(out')
               /\ \A b \in 1..Len(stack'[k].chunk) : stack'[k].chunk[b] = Before(stack[k])' + b
               /\ \A l \in 1..Len(heard') : l > stack'[k].i =>
                    \A b \in 1..Len(heard'[l]) : heard'[l][b] <= Before(stack[k])'
    <2> DEFINE p == stack[k + d]
    <2>1. k + d \in 1..Len(stack) /\ stack'[k] = p /\ Emits(p) /\ buf' = <<>> /\ out' = out
      BY <1>2, <1>4
    <2>2. /\ Len(p.chunk) <= Len(out)
          /\ \A b \in 1..Len(p.chunk) : p.chunk[b] = Before(p) + b
          /\ \A l \in 1..Len(heard) : l > p.i => \A b \in 1..Len(heard[l]) : heard[l][b] <= Before(p)
      BY <2>1 DEF Emission
    <2>3. Before(stack[k])' = Before(p)
      BY <2>1 DEF Before
    <2>4. \A l \in 1..Len(heard') : l > p.i => \A b \in 1..Len(heard'[l]) : heard'[l][b] <= Before(p)
      <3> SUFFICES ASSUME NEW l \in 1..Len(heard'), l > p.i, NEW b \in 1..Len(heard'[l])
                   PROVE  heard'[l][b] <= Before(p)
        OBVIOUS
      <3>1. CASE l <= Len(heard)
        <4>1. l \in 1..Len(heard)
          BY <3>1 DEF Typed
        <4>2. heard'[l] = heard[l]
          BY <3>1
        <4> QED
          BY <2>2, <4>1, <4>2
      <3>2. CASE ~(l <= Len(heard))
        <4>1. heard'[l] = <<>> /\ Len(heard'[l]) = 0
          BY <3>2, EmptySeq
        <4> QED
          BY <4>1
      <3> QED
        BY <3>1, <3>2
    <2> QED
      BY <2>1, <2>2, <2>3, <2>4
  <1> QED
    BY <1>1, <1>3, <1>4 DEF Emission

\* A call begins only when the running one is no emission, or has called a
\* listener.
LEMMA UnderwaySteps ==
    ASSUME Underway, NEW d \in -1..1,
           Shifted(d),
           d = -1 /\ stack # <<>> => ~Emits(stack[1]),
           flag'.ended = flag.ended,
           stack \in Seq(Activation)
    PROVE  Underway'
  <1> SUFFICES ASSUME NEW k \in 1..Len(stack'), Emits(stack'[k]), stack'[k].i = 0
               PROVE  k = 1 /\ ~flag.ended
    BY DEF Underway, Emits
  <1>1. k + d \in 1..Len(stack) /\ stack'[k] = stack[k + d]
    BY DEF Shifted, Emits, Harmless
  <1>2. Emits(stack[k + d]) /\ stack[k + d].i = 0
    BY <1>1
  <1>3. k + d = 1 /\ ~flag.ended
    BY <1>1, <1>2 DEF Underway
  <1>4. d # -1
    <2>1. stack # <<>>
      BY <1>1, EmptySeq
    <2> QED
      BY <1>2, <1>3, <2>1
  <1> QED
    BY <1>3, <1>4

-----------------------------------------------------------------------------
(***************************************************************************)
(* Steps that move no byte.                                                *)
(***************************************************************************)

\* The stack changes, as in StackSteps, and the rest stays as it is.
LEMMA Quiet ==
    ASSUME IndInv, NEW d \in -1..1,
           Shifted(d),
           d = -1 /\ stack # <<>> => ~Emits(stack[1]),
           fdActive' \in BOOLEAN,
           ~fdActive => ~fdActive',
           flag' \in FlagRecord,
           flag'.ended = flag.ended,
           UNCHANGED <<taken, sbuf, pos, buf, out, heard, listeners>>
    PROVE  IndInv'
  <1>1. Typed' /\ Counted' /\ Ended' /\ Hearing'
    BY DEF Shifted, IndInv, Typed, Counted, Unread, Ended, Hearing
  <1>2. (\E k \in 1..Len(stack) : Emits(stack[k])) => buf' = <<>> /\ out' = out
    BY DEF IndInv, Emission
  <1>3. /\ heard' \in Seq(Seq(Nat)) /\ Len(heard') >= Len(heard)
        /\ \A l \in 1..Len(heard') : IF l <= Len(heard) THEN heard'[l] = heard[l] ELSE heard'[l] = <<>>
    BY DEF IndInv, Typed
  <1>4. Drained' /\ Emission'
    BY <1>2, <1>3, StackSteps DEF IndInv
  <1>5. Underway'
    BY UnderwaySteps DEF IndInv, Typed
  <1> QED
    BY <1>1, <1>4, <1>5 DEF IndInv

\* The stack is not touched either.
LEMMA Still ==
    ASSUME IndInv, flag' \in FlagRecord, flag'.ended = flag.ended,
           UNCHANGED <<taken, fdActive, sbuf, pos, buf, out, heard, listeners, stack>>
    PROVE  IndInv'
  <1>1. Shifted(0)
    BY DEF Shifted, IndInv, Typed
  <1>2. fdActive' \in BOOLEAN /\ (~fdActive => ~fdActive')
    BY DEF IndInv, Typed
  <1> QED
    BY <1>1, <1>2, Quiet

\* A call of the program's code is harmless.
LEMMA CodeHarmless ==
    ASSUME NEW ev \in Events \cup {"main", "job", "timer"}
    PROVE  Code(ev) \in Activation /\ Harmless(Code(ev)) /\ Harmless(Code(ev))'
  BY DEF Code, Activation, Harmless

\* What is known of a pump that is running.
LEMMA TopPump ==
    ASSUME IndInv, Running("pump")
    PROVE  /\ stack # <<>> /\ Head(stack) = stack[1] /\ 1 \in 1..Len(stack)
           /\ Head(stack) \in PumpRecord
           /\ pos = Len(sbuf)
           /\ Head(stack).eof => ~fdActive
  <1>1. stack # <<>> /\ Head(stack) = stack[1] /\ 1 \in 1..Len(stack) /\ Head(stack) \in Activation
    BY Popped DEF IndInv, Typed, Running
  <1>2. Head(stack).fn = "pump"
    BY DEF Running
  <1>3. Head(stack) \in PumpRecord
    BY <1>1, <1>2 DEF Activation
  <1> QED
    BY <1>1, <1>2, <1>3 DEF IndInv, Drained

\* The shapes that the stack takes, in terms of what it was.
LEMMA EndsShifted ==
    ASSUME Typed, stack # <<>>, Ends PROVE Shifted(1)
  BY Popped DEF Typed, Ends, Shifted

LEMMA GoesShifted ==
    ASSUME Typed, stack # <<>>, NEW top, Harmless(top)', Goes(top) PROVE Shifted(0)
  <1>1. top \in Activation
    BY DEF Harmless
  <1>2. /\ stack' \in Seq(Activation)
        /\ Len(stack') = Len(stack)
        /\ stack'[1] = top
        /\ \A k \in 1..Len(stack') : k = 1 \/ (k \in 1..Len(stack) /\ stack'[k] = stack[k])
    BY <1>1, Replaced DEF Typed, Goes
  <1> QED
    BY <1>2 DEF Shifted, Harmless

LEMMA CallsShifted ==
    ASSUME Typed, stack # <<>>, NEW ev \in Events, NEW top, Harmless(top)', Calls(Code(ev), top)
    PROVE  Shifted(-1)
  <1>1. top \in Activation /\ Code(ev) \in Activation /\ Harmless(Code(ev))'
    BY CodeHarmless DEF Harmless
  <1>2. /\ stack' \in Seq(Activation)
        /\ Len(stack') = Len(stack) + 1
        /\ stack'[1] = Code(ev)
        /\ stack'[2] = top
        /\ \A k \in 1..Len(stack') : k = 1 \/ k = 2 \/ (k - 1 \in 1..Len(stack) /\ stack'[k] = stack[k - 1])
    BY <1>1, Called DEF Typed, Calls
  <1> QED
    BY <1>1, <1>2 DEF Shifted, Harmless

LEMMA PushShifted ==
    ASSUME Typed, NEW top, Harmless(top)', stack' = <<top>> \o stack
    PROVE  Shifted(-1)
  <1>1. top \in Activation
    BY DEF Harmless
  <1>2. /\ stack' \in Seq(Activation)
        /\ Len(stack') = Len(stack) + 1
        /\ stack'[1] = top
        /\ \A k \in 1..Len(stack') : k = 1 \/ (k - 1 \in 1..Len(stack) /\ stack'[k] = stack[k - 1])
    BY <1>1, Pushed DEF Typed
  <1> QED
    BY <1>2 DEF Shifted, Harmless

\* The peer, the loop and the calls that the stream does not notice.
LEMMA StillSteps ==
    ASSUME IndInv,
           \/ PeerWrites \/ PeerCloses \/ Pause \/ SetTimer \/ QueueMicrotask
           \/ TimersDone \/ Decide \/ PollReturns \/ PollFails
    PROVE  IndInv'
  <1>1. flag' \in FlagRecord /\ flag'.ended = flag.ended
    BY DEF IndInv, Typed, FlagRecord, PeerWrites, PeerCloses, Pause, SetTimer, QueueMicrotask, TimersDone,
           Decide, PollReturns, PollFails, stream
  <1>2. UNCHANGED <<taken, fdActive, sbuf, pos, buf, out, heard, listeners, stack>>
    BY DEF PeerWrites, PeerCloses, Pause, SetTimer, QueueMicrotask, TimersDone, Decide, PollReturns, PollFails,
           ProgramCalls, InLoop, reactor, stream, history
  <1> QED
    BY <1>1, <1>2, Still

\* The program's code begins and ends.
LEMMA CodeSteps ==
    ASSUME IndInv, (\E p \in {"drain", "settle"} : RunJob(p)) \/ FireTimer \/ Return \/ Throw
    PROVE  IndInv'
  <1>1. UNCHANGED <<taken, fdActive, sbuf, pos, buf, flag, out, heard, listeners>>
    BY DEF RunJob, FireTimer, Return, Throw, InLoop, reactor, stream, history
  <1>2. flag' \in FlagRecord /\ fdActive' \in BOOLEAN
    BY <1>1 DEF IndInv, Typed
  <1>3. CASE Return
    <2>1. stack # <<>> /\ Ends
      BY <1>3 DEF Return, Running
    <2>2. Shifted(1)
      BY <2>1, EndsShifted DEF IndInv
    <2> QED
      BY <1>1, <1>2, <2>2, Quiet
  <1>4. CASE Throw
    <2>1. Shifted(0)
      BY <1>4 DEF Throw, Shifted
    <2> QED
      BY <1>1, <1>2, <2>1, Quiet
  <1>5. CASE (\E p \in {"drain", "settle"} : RunJob(p)) \/ FireTimer
    <2>1. PICK c \in {Code("job"), Code("timer")} : stack' = <<c>>
      BY <1>5 DEF RunJob, FireTimer
    <2>3. c \in Activation /\ Harmless(c)'
      BY <2>1, CodeHarmless DEF Events
    <2>2. Shifted(0)
      BY <2>1, <2>3 DEF Shifted, Harmless
    <2> QED
      BY <1>1, <1>2, <2>2, Quiet
  <1> QED
    BY <1>3, <1>4, <1>5

\* A running pump stays harmless as long as it emits nothing.
LEMMA StaysHarmless ==
    ASSUME IndInv, Running("pump"), UNCHANGED <<pos, sbuf, fdActive>>,
           NEW p \in PumpRecord, p.at # "data", p.eof = Head(stack).eof
    PROVE  Harmless(p)'
  BY TopPump DEF Harmless, Activation

\* It calls a listener.
LEMMA ListenerShifted ==
    ASSUME IndInv, Running("pump"), Head(stack).at # "data", UNCHANGED <<pos, sbuf, fdActive>>,
           NEW ev \in Events, NextListener(ev)
    PROVE  Shifted(-1)
  <1>1. stack # <<>> /\ Head(stack) \in PumpRecord
    BY TopPump
  <1>2. PICK top : top = [Head(stack) EXCEPT !.i = Head(stack).i + 1]
    OBVIOUS
  <1>3. top \in PumpRecord /\ top.at = Head(stack).at /\ top.eof = Head(stack).eof
    BY <1>1, <1>2 DEF PumpRecord
  <1>4. Calls(Code(ev), top)
    BY <1>2 DEF NextListener
  <1>5. Harmless(top)'
    BY <1>3, StaysHarmless
  <1> QED
    BY <1>1, <1>4, <1>5, CallsShifted DEF IndInv

\* It goes on to another place.
LEMMA PlaceShifted ==
    ASSUME IndInv, Running("pump"), UNCHANGED <<pos, sbuf, fdActive>>,
           NEW at \in {"readable", "flow", "end", "ended"},
           \/ Goes([Head(stack) EXCEPT !.at = at])
           \/ Goes([Head(stack) EXCEPT !.at = at, !.i = 0])
    PROVE  Shifted(0)
  <1>1. stack # <<>> /\ Head(stack) \in PumpRecord
    BY TopPump
  <1>2. PICK top : /\ \/ top = [Head(stack) EXCEPT !.at = at]
                      \/ top = [Head(stack) EXCEPT !.at = at, !.i = 0]
                   /\ Goes(top)
    OBVIOUS
  <1>3. top \in PumpRecord /\ top.at = at /\ top.eof = Head(stack).eof
    <2>1. CASE top = [Head(stack) EXCEPT !.at = at]
      BY <1>1, <2>1 DEF PumpRecord
    <2>2. CASE top = [Head(stack) EXCEPT !.at = at, !.i = 0]
      BY <1>1, <2>2 DEF PumpRecord
    <2> QED
      BY <1>2, <2>1, <2>2
  <1>4. Harmless(top)'
    BY <1>3, StaysHarmless
  <1> QED
    BY <1>1, <1>2, <1>4, GoesShifted DEF IndInv

\* The readable listeners are called one after the other.
LEMMA PumpReadableInv == ASSUME IndInv, PumpReadable PROVE IndInv'
  <1>1. /\ UNCHANGED <<taken, fdActive, sbuf, pos, buf, flag, out, heard, listeners>>
        /\ Running("pump") /\ Head(stack).at # "data"
    BY DEF PumpReadable, InPump, reactor, history
  <1>2. flag' \in FlagRecord /\ fdActive' \in BOOLEAN
    BY <1>1 DEF IndInv, Typed
  <1>3. Shifted(-1) \/ Shifted(0)
    BY <1>1, ListenerShifted, PlaceShifted DEF PumpReadable, Events
  <1>4. ~Emits(stack[1])
    BY <1>1, TopPump DEF Emits
  <1> QED
    BY <1>1, <1>2, <1>3, <1>4, Quiet

\* The end listeners are, and pump() returns.
LEMMA PumpEndedInv == ASSUME IndInv, PumpEnded PROVE IndInv'
  <1>1. /\ UNCHANGED <<taken, fdActive, sbuf, pos, buf, flag, out, heard, listeners>>
        /\ Running("pump") /\ Head(stack).at # "data"
    BY DEF PumpEnded, InPump, reactor, history
  <1>2. flag' \in FlagRecord /\ fdActive' \in BOOLEAN
    BY <1>1 DEF IndInv, Typed
  <1>3. Shifted(-1) \/ Shifted(1)
    BY <1>1, TopPump, ListenerShifted, EndsShifted DEF PumpEnded, Events, IndInv
  <1>4. ~Emits(stack[1])
    BY <1>1, TopPump DEF Emits
  <1> QED
    BY <1>1, <1>2, <1>3, <1>4, Quiet

\* 'end' is due: pump() left nothing unread and holds nothing, and its atEof
\* is right.
LEMMA PumpEndInv == ASSUME IndInv, PumpEnd PROVE IndInv'
  <1>1. /\ UNCHANGED <<taken, fdActive, sbuf, pos, buf, out, heard, listeners>>
        /\ Running("pump")
    BY DEF PumpEnd, InPump, reactor, history
  <1>2. fdActive' \in BOOLEAN
    BY <1>1 DEF IndInv, Typed
  <1>3. CASE EndDue
    <2>1. flag' = [flag EXCEPT !.ended = TRUE] /\ Goes([Head(stack) EXCEPT !.at = "ended", !.i = 0])
      BY <1>3 DEF PumpEnd
    <2>2. flag' \in FlagRecord
      BY <2>1 DEF IndInv, Typed, FlagRecord
    <2>3. Shifted(0)
      BY <1>1, <2>1, PlaceShifted
    <2>4. /\ (\E k \in 1..Len(stack) : Emits(stack[k])) => buf' = <<>> /\ out' = out
          /\ heard' \in Seq(Seq(Nat)) /\ Len(heard') >= Len(heard)
          /\ \A l \in 1..Len(heard') : IF l <= Len(heard) THEN heard'[l] = heard[l] ELSE heard'[l] = <<>>
      BY <1>1, SMTT(40) DEF IndInv, Typed, Emission
    <2>5. Drained' /\ Emission'
      BY <1>1, <2>3, <2>4, StackSteps DEF IndInv
    <2>6. Ended'
      BY <1>1, <1>3, TopPump DEF Ended, EndDue
    <2>7. Typed' /\ Counted' /\ Hearing'
      BY <1>1, <2>2, <2>3 DEF IndInv, Typed, Shifted, Counted, Unread, Hearing
    <2>8. Underway'
      <3> SUFFICES ASSUME NEW k \in 1..Len(stack'), Emits(stack'[k]), stack'[k].i = 0 PROVE FALSE
        BY DEF Underway, Emits
      <3>1. k \in 1..Len(stack) /\ stack'[k] = stack[k]
        BY <2>3 DEF Shifted, Emits, Harmless
      <3>2. k = 1
        BY <3>1 DEF IndInv, Underway
      <3>3. ~Emits(stack[1])
        BY <1>1, TopPump DEF PumpEnd, InPump, Emits
      <3> QED
        BY <3>1, <3>2, <3>3
    <2> QED
      BY <2>5, <2>6, <2>7, <2>8 DEF IndInv
  <1>4. CASE ~EndDue
    <2>1. Ends /\ UNCHANGED flag
      BY <1>4 DEF PumpEnd
    <2>2. Shifted(1)
      BY <1>1, <2>1, TopPump, EndsShifted DEF IndInv
    <2>3. flag' \in FlagRecord
      BY <2>1 DEF IndInv, Typed
    <2> QED
      BY <1>1, <1>2, <2>1, <2>2, <2>3, Quiet
  <1> QED
    BY <1>3, <1>4

\* The close listeners are called, and destroy() returns.
LEMMA DestroyEndsInv == ASSUME IndInv, DestroyEnds PROVE IndInv'
  <1>1. /\ UNCHANGED <<taken, fdActive, sbuf, pos, buf, flag, out, heard, listeners>>
        /\ stack # <<>> /\ Head(stack).fn = "destroy" /\ Head(stack) \in Activation
    BY Popped DEF DestroyEnds, Running, reactor, stream, history, IndInv, Typed
  <1>2. flag' \in FlagRecord /\ fdActive' \in BOOLEAN
    BY <1>1 DEF IndInv, Typed
  <1>3. CASE NextListener("close")
    <2>0. PICK top : top = [Head(stack) EXCEPT !.i = Head(stack).i + 1]
      OBVIOUS
    <2>1. Head(stack) \in [fn : {"destroy"}, i : Nat]
      BY <1>1 DEF Activation, PumpRecord
    <2>2. top \in [fn : {"destroy"}, i : Nat]
      BY <2>0, <2>1
    <2>3. Calls(Code("close"), top)
      BY <1>3, <2>0 DEF NextListener
    <2>4. Harmless(top)'
      BY <2>2 DEF Harmless, Activation
    <2>5. Shifted(-1)
      BY <1>1, <2>3, <2>4, CallsShifted DEF IndInv, Events
    <2>6. ~Emits(stack[1])
      BY <1>1, Popped DEF IndInv, Typed, Emits
    <2> QED
      BY <1>1, <1>2, <2>5, <2>6, Quiet
  <1>4. CASE Ends
    <2>1. Shifted(1)
      BY <1>1, <1>4, EndsShifted DEF IndInv
    <2> QED
      BY <1>1, <1>2, <2>1, Quiet
  <1> QED
    BY <1>3, <1>4 DEF DestroyEnds

\* destroy() gives up the descriptor.
LEMMA DestroyInv == ASSUME IndInv, Destroy PROVE IndInv'
  <1>1. UNCHANGED <<taken, sbuf, pos, buf, out, heard, listeners>>
    BY DEF Destroy, history
  <1>2. flag' \in FlagRecord /\ flag'.ended = flag.ended
    BY DEF Destroy, IndInv, Typed, FlagRecord
  <1>3. Harmless(Destroying)'
    BY DEF Harmless, Destroying, Activation
  <1>4. Shifted(-1)
    BY <1>3, PushShifted DEF IndInv, Destroy
  <1>5. fdActive' \in BOOLEAN /\ ~fdActive'
    BY DEF Destroy
  <1>6. ~Emits(stack[1])
    BY Popped DEF IndInv, Typed, Emits, Destroy, ProgramCalls, Running
  <1> QED
    BY <1>1, <1>2, <1>4, <1>5, <1>6, Quiet

-----------------------------------------------------------------------------
(***************************************************************************)
(* Steps that move bytes.                                                  *)
(***************************************************************************)

\* What the reactor holds for the stream.
LEMMA UnreadSeq ==
    ASSUME Typed
    PROVE  /\ Unread \in Seq(Nat)
           /\ Len(Unread) = Len(sbuf) - pos
           /\ pos = Len(sbuf) => Unread = <<>>
  <1>1. Len(sbuf) \in Nat /\ pos \in Nat /\ \A k \in (pos + 1)..Len(sbuf) : sbuf[k] \in Nat
    BY DEF Typed
  <1>2. Unread \in Seq(Nat) /\ Len(Unread) = Len(sbuf) - pos
    BY <1>1, SubSeqProperties DEF Unread, Typed
  <1>3. pos = Len(sbuf) => Unread = <<>>
    BY <1>1, SubSeqEmpty DEF Unread
  <1> QED
    BY <1>2, <1>3

\* It holds nothing after everything has been taken.
LEMMA UnreadTaken ==
    ASSUME Typed, UNCHANGED sbuf, pos' = Len(sbuf) PROVE Unread' = <<>>
  <1>1. Len(sbuf) \in Nat
    BY DEF Typed
  <1> QED
    BY <1>1, SubSeqEmpty DEF Unread

\* Concatenation is associative.
LEMMA Regrouped == \A a, b, c \in Seq(Nat) : (a \o b) \o c = a \o (b \o c)
  BY ConcatAssociative, SMTT(40)

\* Bytes that move from the reactor into the stream stay in order.
LEMMA MovedIn ==
    ASSUME NEW a \in Seq(Nat), NEW b \in Seq(Nat), NEW c \in Seq(Nat)
    PROVE  a \o (b \o c) \o <<>> = a \o b \o c
  <1>1. b \o c \in Seq(Nat) /\ a \o (b \o c) \in Seq(Nat)
    BY ConcatProperties
  <1>2. a \o (b \o c) \o <<>> = a \o (b \o c)
    BY <1>1, ConcatEmptySeq
  <1>3. (a \o b) \o c = a \o (b \o c)
    BY Regrouped
  <1> QED
    BY <1>2, <1>3

\* Bytes that leave the stream stay in order.
LEMMA MovedOut ==
    ASSUME NEW a \in Seq(Nat), NEW b \in Seq(Nat), NEW n \in 0..Len(b)
    PROVE  /\ SubSeq(b, 1, n) \in Seq(Nat) /\ SubSeq(b, n + 1, Len(b)) \in Seq(Nat)
           /\ Len(SubSeq(b, 1, n)) = n
           /\ (a \o SubSeq(b, 1, n)) \o SubSeq(b, n + 1, Len(b)) = a \o b
  <1>1. Len(b) \in Nat /\ n \in Nat /\ \A k \in 1..Len(b) : b[k] \in Nat
    BY LenProperties, ElementOfSeq
  <1>2. SubSeq(b, 1, n) \in Seq(Nat) /\ Len(SubSeq(b, 1, n)) = n
    BY <1>1, SubSeqProperties
  <1>3. SubSeq(b, n + 1, Len(b)) \in Seq(Nat)
    BY <1>1, SubSeqProperties
  <1>4. SubSeq(b, 1, n) \o SubSeq(b, n + 1, Len(b)) = SubSeq(b, 1, Len(b))
    <2>1. 1 \in 1..(Len(b) + 1) /\ n \in (1 - 1)..Len(b) /\ Len(b) \in n..Len(b)
      BY <1>1
    <2> QED
      BY <2>1, ConcatAdjacentSubSeq
  <1>5. SubSeq(b, 1, Len(b)) = b
    BY SubSeqFull
  <1>6. (a \o SubSeq(b, 1, n)) \o SubSeq(b, n + 1, Len(b)) = a \o (SubSeq(b, 1, n) \o SubSeq(b, n + 1, Len(b)))
    BY <1>2, <1>3, Regrouped, ZenonT(40)
  <1> QED
    BY <1>2, <1>3, <1>4, <1>5, <1>6

\* A pump on the stack, or the end, leaves nothing to come.
LEMMA NothingLeft ==
    ASSUME IndInv
    PROVE  /\ (\E k \in 1..Len(stack) : Emits(stack[k])) => buf = <<>> /\ Unread = <<>>
           /\ flag.ended => buf = <<>> /\ Unread = <<>> /\ ~fdActive
  BY UnreadSeq DEF IndInv, Emission, Emits, Drained, Ended

\* pump() takes everything that the reactor holds.
LEMMA PumpCallInv ==
    ASSUME IndInv, NEW f \in FlagRecord, f.ended = flag.ended, PumpCall(f, stack),
           stack # <<>> => ~Emits(stack[1]),
           UNCHANGED <<taken, fdActive, sbuf, listeners, out, heard>>
    PROVE  IndInv'
  <1>1. CASE f.destroyed /\ flag' = f /\ stack' = stack /\ UNCHANGED <<pos, buf>>
    BY <1>1, Still
  <1>2. CASE /\ ~f.destroyed
             /\ pos' = Len(sbuf)
             /\ buf' = buf \o Unread
             /\ \E e, r \in BOOLEAN : /\ flag' = [f EXCEPT !.eofReadableFired = f.eofReadableFired \/ e]
                                      /\ stack' = <<Pump(IF r THEN "readable" ELSE "flow", ~fdActive)>> \o stack
    <2>1. PICK e \in BOOLEAN, r \in BOOLEAN :
                /\ flag' = [f EXCEPT !.eofReadableFired = f.eofReadableFired \/ e]
                /\ stack' = <<Pump(IF r THEN "readable" ELSE "flow", ~fdActive)>> \o stack
      BY <1>2
    <2>2. flag' \in FlagRecord /\ flag'.ended = flag.ended
      BY <2>1 DEF FlagRecord
    <2>3. PICK top : top = Pump(IF r THEN "readable" ELSE "flow", ~fdActive)
      OBVIOUS
    <2>4. Harmless(top)'
      <3>1. /\ top.fn = "pump" /\ top.at \in {"readable", "flow"} /\ top.i = 0
            /\ top.eof = ~fdActive /\ top.chunk = <<>>
        BY <2>3 DEF Pump
      <3>2. top \in PumpRecord
        BY <2>3 DEF Pump, PumpRecord, IndInv, Typed
      <3> QED
        BY <1>2, <3>1, <3>2 DEF Harmless, Activation
    <2>5. Shifted(-1)
      BY <2>1, <2>3, <2>4, PushShifted DEF IndInv
    <2>6. Unread \in Seq(Nat) /\ buf' \in Seq(Nat) /\ Unread' = <<>>
      BY <1>2, UnreadSeq, UnreadTaken, ConcatProperties DEF IndInv, Typed
    <2>7. buf = <<>> /\ Unread = <<>> => buf' = <<>>
      BY <1>2, EmptySeq, ConcatEmptySeq
    <2>8. Typed'
      BY <1>2, <2>2, <2>5, <2>6 DEF IndInv, Typed, Shifted
    <2>9. Counted'
      BY <1>2, <2>6, MovedIn, ZenonT(40) DEF IndInv, Typed, Counted
    <2>10. Ended'
      BY <1>2, <2>2, <2>7, NothingLeft DEF Ended
    <2>11. Hearing'
      BY DEF IndInv, Hearing
    <2>12. /\ (\E k \in 1..Len(stack) : Emits(stack[k])) => buf' = <<>> /\ out' = out
           /\ heard' \in Seq(Seq(Nat)) /\ Len(heard') >= Len(heard)
           /\ \A l \in 1..Len(heard') : IF l <= Len(heard) THEN heard'[l] = heard[l] ELSE heard'[l] = <<>>
      BY <2>7, NothingLeft DEF IndInv, Typed
    <2>13. Drained' /\ Emission'
      BY <1>2, <2>5, <2>12, StackSteps DEF IndInv
    <2>14. Underway'
      BY <2>2, <2>5, UnderwaySteps DEF IndInv, Typed
    <2> QED
      BY <2>8, <2>9, <2>10, <2>11, <2>13, <2>14 DEF IndInv
  <1> QED
    BY <1>1, <1>2 DEF PumpCall

\* resume() calls pump() with the flags changed.
LEMMA ResumeInv == ASSUME IndInv, Resume PROVE IndInv'
  <1> DEFINE f == [flag EXCEPT !.paused = FALSE, !.flowing = TRUE, !.armed = TRUE]
  <1>1. f \in FlagRecord /\ f.ended = flag.ended
    BY DEF IndInv, Typed, FlagRecord
  <1>2. PumpCall(f, stack) /\ UNCHANGED <<taken, fdActive, sbuf, listeners, out, heard>>
    BY DEF Resume, history
  <1>3. ~Emits(stack[1])
    BY Popped DEF IndInv, Typed, Emits, Resume, ProgramCalls, Running
  <1> QED
    BY <1>1, <1>2, <1>3, PumpCallInv

\* The loop calls pump() once per turn.
LEMMA CallHookInv == ASSUME IndInv, CallHook PROVE IndInv'
  <1>1. /\ stack = <<>> /\ flag \in FlagRecord
        /\ UNCHANGED <<taken, fdActive, sbuf, listeners, out, heard>>
    BY DEF CallHook, InLoop, history, IndInv, Typed
  <1>2. CASE flag.armed
    <2>1. PumpCall(flag, stack)
      BY <1>1, <1>2 DEF CallHook
    <2> QED
      BY <1>1, <2>1, PumpCallInv
  <1>3. CASE ~flag.armed
    BY <1>1, <1>3, Still DEF CallHook
  <1> QED
    BY <1>2, <1>3

\* A new data listener has heard nothing.
LEMMA OnInv == ASSUME IndInv, NEW ev \in Events, On(ev) PROVE IndInv'
  <1>1. UNCHANGED <<taken, fdActive, sbuf, pos, buf, stack, out>>
    BY DEF On, reactor
  <1>2. flag' \in FlagRecord /\ flag'.ended = flag.ended
    BY DEF On, IndInv, Typed, FlagRecord
  <1>3. listeners' \in [Events -> Nat]
    BY DEF On, IndInv, Typed
  <1>4. Len(heard) \in Nat /\ heard \in Seq(Seq(Nat)) /\ <<>> \in Seq(Nat) /\ Len(<<>>) = 0
    BY DEF IndInv, Typed
  <1>5. /\ heard' \in Seq(Seq(Nat)) /\ Len(heard') = listeners'["data"] /\ Len(heard') >= Len(heard)
        /\ \A l \in 1..Len(heard') : IF l <= Len(heard) THEN heard'[l] = heard[l] ELSE heard'[l] = <<>>
    <2>1. CASE ev = "data"
      <3>1. heard' = Append(heard, <<>>)
        BY <2>1 DEF On
      <3>2. /\ heard' \in Seq(Seq(Nat)) /\ Len(heard') = Len(heard) + 1
            /\ \A l \in 1..Len(heard) : heard'[l] = heard[l]
            /\ heard'[Len(heard) + 1] = <<>>
        BY <1>4, <3>1, AppendProperties
      <3>3. listeners'["data"] = listeners["data"] + 1
        BY <2>1 DEF On, IndInv, Typed, Events
      <3>4. Len(heard') = listeners'["data"]
        BY <3>2, <3>3 DEF IndInv, Typed
      <3>5. \A l \in 1..Len(heard') : l \in 1..Len(heard) \/ (l = Len(heard) + 1 /\ ~(l <= Len(heard)))
        BY <1>4, <3>2
      <3>6. \A l \in 1..Len(heard') : IF l <= Len(heard) THEN heard'[l] = heard[l] ELSE heard'[l] = <<>>
        BY <3>2, <3>5, SMTT(30)
      <3>7. Len(heard') >= Len(heard)
        BY <1>4, <3>2
      <3> QED
        BY <3>2, <3>4, <3>6, <3>7, ZenonT(40)
    <2>2. CASE ev # "data"
      BY <1>4, <2>2 DEF On, IndInv, Typed, Events
    <2> QED
      BY <2>1, <2>2
  <1>6. Typed'
    BY <1>1, <1>2, <1>3, <1>5 DEF IndInv, Typed
  <1>7. Counted' /\ Ended'
    BY <1>1, <1>2 DEF IndInv, Counted, Unread, Ended
  <1>8. Hearing'
    <2> SUFFICES ASSUME NEW l \in 1..Len(heard')
                 PROVE  /\ \A b \in 1..Len(heard'[l]) : heard'[l][b] <= Len(out')
                        /\ \A j, k \in 1..Len(heard'[l]) : j < k => heard'[l][j] < heard'[l][k]
      BY DEF Hearing
    <2>1. CASE l <= Len(heard)
      <3>1. l \in 1..Len(heard) /\ heard'[l] = heard[l]
        BY <1>4, <1>5, <2>1
      <3> QED
        BY <1>1, <3>1 DEF IndInv, Hearing
    <2>2. CASE ~(l <= Len(heard))
      <3>1. heard'[l] = <<>> /\ Len(heard'[l]) = 0
        BY <1>4, <1>5, <2>2
      <3> QED
        BY <3>1
    <2> QED
      BY <2>1, <2>2
  <1>9. Shifted(0)
    BY <1>1 DEF Shifted, IndInv, Typed
  <1>10. (\E k \in 1..Len(stack) : Emits(stack[k])) => buf' = <<>> /\ out' = out
    BY <1>1 DEF IndInv, Emission
  <1>11. Drained' /\ Emission'
    BY <1>1, <1>5, <1>9, <1>10, StackSteps DEF IndInv
  <1>12. Underway'
    BY <1>1, <1>2 DEF IndInv, Underway, Emits
  <1> QED
    BY <1>6, <1>7, <1>8, <1>11, <1>12 DEF IndInv

\* read() returns at most what there is.
LEMMA ReadCountBound ==
    ASSUME NEW n \in Nat, NEW size \in Sizes \cup {All} PROVE ReadCount(n, size) \in 0..n
  BY SizesAssumption DEF ReadCount

\* read() takes the first bytes, and while a chunk is emitted there are none.
LEMMA ReadInv == ASSUME IndInv, NEW size \in Sizes \cup {All}, Read(size) PROVE IndInv'
  <1>1. UNCHANGED <<taken, fdActive, sbuf, flag, listeners, stack, heard>> /\ pos' = Len(sbuf)
    BY DEF Read
  <1>2. PICK all : all = buf \o Unread
    OBVIOUS
  <1>3. /\ all \in Seq(Nat) /\ Len(all) \in Nat /\ out \in Seq(Nat) /\ buf \in Seq(Nat) /\ Unread \in Seq(Nat)
        /\ buf = <<>> /\ Unread = <<>> => all = <<>>
    BY <1>2, UnreadSeq, ConcatProperties, EmptySeq, ConcatEmptySeq, LenProperties DEF IndInv, Typed
  <1>4. PICK n : n = ReadCount(Len(all), size)
    OBVIOUS
  <1>5. n \in 0..Len(all)
    BY <1>3, <1>4, ReadCountBound
  <1>6. buf' = SubSeq(all, n + 1, Len(all)) /\ out' = out \o SubSeq(all, 1, n)
    BY <1>2, <1>4 DEF Read
  <1>7. /\ SubSeq(all, 1, n) \in Seq(Nat) /\ Len(SubSeq(all, 1, n)) = n /\ buf' \in Seq(Nat)
        /\ out' \o buf' = out \o all
    BY <1>3, <1>5, <1>6, MovedOut
  <1>8. out' \in Seq(Nat) /\ Len(out') = Len(out) + n /\ Len(out) \in Nat
    BY <1>3, <1>6, <1>7, ConcatProperties, LenProperties, SMTT(30)
  <1>9. Unread' = <<>>
    BY <1>1, UnreadTaken DEF IndInv
  <1>10. all = <<>> => buf' = <<>> /\ out' = out
    <2> SUFFICES ASSUME all = <<>> PROVE buf' = <<>> /\ out' = out
      OBVIOUS
    <2>1. Len(all) = 0 /\ n = 0
      BY <1>5, EmptySeq
    <2>2. SubSeq(all, 1, n) = <<>> /\ SubSeq(all, n + 1, Len(all)) = <<>>
      BY <2>1, SubSeqEmpty
    <2> QED
      BY <1>3, <1>6, <2>2, ConcatEmptySeq
  <1>11. Typed'
    BY <1>1, <1>7, <1>8 DEF IndInv, Typed
  <1>12. Counted'
    <2>1. out' \o buf' \o Unread' = out \o (buf \o Unread) \o <<>>
      BY <1>2, <1>7, <1>9
    <2>2. out \o (buf \o Unread) \o <<>> = out \o buf \o Unread
      BY <1>3, MovedIn, ZenonT(40)
    <2> QED
      BY <1>1, <2>1, <2>2 DEF IndInv, Counted
  <1>13. Ended'
    BY <1>1, <1>3, <1>10, NothingLeft DEF Ended
  <1>14. Hearing'
    <2>1. \A l \in 1..Len(heard) : \A b \in 1..Len(heard[l]) : heard[l][b] \in Nat
      BY ElementOfSeq DEF IndInv, Typed
    <2> QED
      BY <1>1, <1>5, <1>8, <2>1, SMTT(40) DEF IndInv, Hearing
  <1>15. Shifted(0)
    BY <1>1 DEF Shifted, IndInv, Typed
  <1>16. /\ (\E k \in 1..Len(stack) : Emits(stack[k])) => buf' = <<>> /\ out' = out
         /\ heard' \in Seq(Seq(Nat)) /\ Len(heard') >= Len(heard)
         /\ \A l \in 1..Len(heard') : IF l <= Len(heard) THEN heard'[l] = heard[l] ELSE heard'[l] = <<>>
    BY <1>1, <1>3, <1>10, NothingLeft DEF IndInv, Typed
  <1>17. Drained' /\ Emission'
    BY <1>1, <1>15, <1>16, StackSteps DEF IndInv
  <1>18. Underway'
    BY <1>1 DEF IndInv, Underway, Emits
  <1> QED
    BY <1>11, <1>12, <1>13, <1>14, <1>17, <1>18 DEF IndInv

\* What the stream holds comes right after what left it.
LEMMA BufferedNext ==
    ASSUME IndInv, pos = Len(sbuf)
    PROVE  /\ Len(out) \in Nat /\ Len(buf) \in Nat
           /\ out \o buf = [k \in 1..taken |-> k]
           /\ \A b \in 1..Len(buf) : buf[b] = Len(out) + b
  <1>1. Unread = <<>> /\ out \in Seq(Nat) /\ buf \in Seq(Nat) /\ taken \in Nat
    BY UnreadSeq DEF IndInv, Typed
  <1>2. /\ out \o buf \in Seq(Nat)
        /\ Len(out \o buf) = Len(out) + Len(buf)
        /\ \A k \in 1..(Len(out) + Len(buf)) :
              (out \o buf)[k] = IF k <= Len(out) THEN out[k] ELSE buf[k - Len(out)]
    BY <1>1, ConcatProperties
  <1>3. out \o buf = [k \in 1..taken |-> k]
    <2>1. (out \o buf) \o <<>> = out \o buf
      BY <1>2, ConcatEmptySeq
    <2> QED
      BY <1>1, <2>1 DEF IndInv, Counted
  <1>4. Len(out) \in Nat /\ Len(buf) \in Nat
    BY <1>1, LenProperties
  <1>5. Len(out) + Len(buf) = taken
    <2>1. DOMAIN (out \o buf) = 1..(Len(out) + Len(buf))
      BY <1>2, LenProperties
    <2>2. 1..(Len(out) + Len(buf)) = 1..taken
      BY <1>3, <2>1
    <2> QED
      BY <1>1, <1>4, <2>2
  <1>6. ASSUME NEW b \in 1..Len(buf) PROVE buf[b] = Len(out) + b
    <2>1. /\ Len(out) + b \in 1..(Len(out) + Len(buf)) /\ ~(Len(out) + b <= Len(out))
          /\ (Len(out) + b) - Len(out) = b
      BY <1>4
    <2>2. (out \o buf)[Len(out) + b] = buf[b]
      BY <1>2, <2>1
    <2>3. (out \o buf)[Len(out) + b] = Len(out) + b
      BY <1>3, <1>5, <2>1
    <2> QED
      BY <2>2, <2>3
  <1> QED
    BY <1>3, <1>4, <1>6

\* emitChunk: the chunk is what the stream held, and no other chunk is being
\* emitted, for the stream would hold nothing.
LEMMA EmitChunkInv == ASSUME IndInv, EmitChunk PROVE IndInv'
  <1>1. /\ UNCHANGED <<taken, fdActive, sbuf, pos, flag, listeners, heard>>
        /\ Running("pump") /\ Head(stack).at = "flow"
    BY DEF EmitChunk, InPump, reactor
  <1>2. /\ stack # <<>> /\ Head(stack) = stack[1] /\ 1 \in 1..Len(stack)
        /\ Head(stack) \in PumpRecord /\ pos = Len(sbuf) /\ (Head(stack).eof => ~fdActive)
    BY <1>1, TopPump
  <1>3. CASE flag.flowing /\ ~flag.paused /\ buf # <<>>
    <2>1. PICK top : top = [Head(stack) EXCEPT !.at = "data", !.i = 0, !.chunk = buf]
      OBVIOUS
    <2>2. buf' = <<>> /\ out' = out \o buf /\ Goes(top)
      BY <1>3, <2>1 DEF EmitChunk
    <2>3. buf \in Seq(Nat) /\ out \in Seq(Nat) /\ Unread = <<>> /\ Unread' = <<>>
      BY <1>1, <1>2, UnreadSeq, UnreadTaken DEF IndInv, Typed
    <2>4. /\ top \in PumpRecord /\ top.fn = "pump" /\ top.at = "data" /\ top.i = 0
          /\ top.eof = Head(stack).eof /\ top.chunk = buf
      BY <1>2, <2>1, <2>3 DEF PumpRecord
    <2>5. /\ stack' \in Seq(Activation) /\ Len(stack') = Len(stack) /\ stack'[1] = top
          /\ \A k \in 1..Len(stack') : k = 1 \/ (k \in 1..Len(stack) /\ stack'[k] = stack[k])
      <3>1. stack \in Seq(Activation) /\ top \in Activation /\ stack # <<>>
        BY <1>2, <2>4 DEF IndInv, Typed, Activation
      <3>2. stack' = <<top>> \o Tail(stack)
        BY <2>2 DEF Goes
      <3> QED
        BY <3>1, <3>2, Replaced
    <2>6. /\ Len(out) \in Nat /\ Len(buf) \in Nat
          /\ out \o buf = [k \in 1..taken |-> k]
          /\ \A b \in 1..Len(buf) : buf[b] = Len(out) + b
      BY <1>2, BufferedNext
    <2>7. out' \in Seq(Nat) /\ Len(out') = Len(out) + Len(buf)
      BY <2>2, <2>3, ConcatProperties
    <2>8. Typed'
      BY <1>1, <2>2, <2>5, <2>7, EmptySeq DEF IndInv, Typed
    <2>9. Counted'
      <3>1. (out' \o <<>>) \o <<>> = out'
        BY <2>7, ConcatEmptySeq
      <3> QED
        BY <1>1, <2>2, <2>3, <2>6, <3>1 DEF Counted
    <2>10. Drained'
      BY <1>1, <1>2, <2>4, <2>5 DEF IndInv, Drained
    <2>11. Ended'
      BY <1>1, <1>3, NothingLeft DEF Ended
    <2>12. \A k \in 1..Len(stack') : Emits(stack'[k]) => k = 1
      BY <1>3, <2>5, NothingLeft
    <2>13. Before(top)' = Len(out)
      BY <2>4, <2>6, <2>7 DEF Before
    <2>14. Emission'
      <3>1. /\ Len(top.chunk) <= Len(out')
            /\ \A b \in 1..Len(top.chunk) : top.chunk[b] = Before(top)' + b
        BY <2>4, <2>6, <2>7, <2>13
      <3>2. \A l \in 1..Len(heard') : l > top.i => \A b \in 1..Len(heard'[l]) : heard'[l][b] <= Before(top)'
        BY <1>1, <2>13 DEF IndInv, Hearing
      <3> QED
        BY <2>2, <2>5, <2>12, <3>1, <3>2 DEF Emission, Before
    <2>15. Hearing'
      <3>1. \A l \in 1..Len(heard) : \A b \in 1..Len(heard[l]) : heard[l][b] \in Nat
        BY ElementOfSeq DEF IndInv, Typed
      <3> QED
        BY <1>1, <2>6, <2>7, <3>1, SMTT(40) DEF IndInv, Hearing
    <2>16. Underway'
      BY <1>1, <1>3, <2>12, NothingLeft DEF Underway, Emits
    <2> QED
      BY <2>8, <2>9, <2>10, <2>11, <2>14, <2>15, <2>16 DEF IndInv
  <1>4. CASE ~(flag.flowing /\ ~flag.paused /\ buf # <<>>)
    <2>1. Goes([Head(stack) EXCEPT !.at = "end"]) /\ UNCHANGED <<buf, out>>
      BY <1>4 DEF EmitChunk
    <2>2. Shifted(0)
      BY <1>1, <2>1, PlaceShifted
    <2>3. flag' \in FlagRecord /\ fdActive' \in BOOLEAN
      BY <1>1 DEF IndInv, Typed
    <2> QED
      BY <1>1, <2>1, <2>2, <2>3, Quiet
  <1> QED
    BY <1>3, <1>4

\* A rising run goes on with the next bytes.
LEMMA RisingConcat ==
    ASSUME NEW s \in Seq(Nat), NEW c \in Seq(Nat), NEW base \in Nat,
           \A b \in 1..Len(s) : s[b] <= base,
           \A j, k \in 1..Len(s) : j < k => s[j] < s[k],
           \A b \in 1..Len(c) : c[b] = base + b
    PROVE  /\ s \o c \in Seq(Nat)
           /\ \A b \in 1..Len(s \o c) : (s \o c)[b] <= base + Len(c)
           /\ \A j, k \in 1..Len(s \o c) : j < k => (s \o c)[j] < (s \o c)[k]
  <1>1. PICK m, n, h : m = Len(s) /\ n = Len(c) /\ h = s \o c
    OBVIOUS
  <1>2. m \in Nat /\ n \in Nat /\ \A b \in 1..m : s[b] \in Nat
    BY <1>1, LenProperties, ElementOfSeq
  <1>3. /\ h \in Seq(Nat) /\ Len(h) = m + n
        /\ \A b \in 1..(m + n) : h[b] = IF b <= m THEN s[b] ELSE c[b - m]
    BY <1>1, ConcatProperties
  <1>4. \A b \in 1..m : b \in 1..(m + n) /\ h[b] = s[b] /\ h[b] \in Nat /\ h[b] <= base
    BY <1>1, <1>2, <1>3
  <1>5. ASSUME NEW b \in 1..(m + n), ~(b <= m) PROVE h[b] = base + (b - m)
    <2>1. b - m \in 1..n
      BY <1>2, <1>5
    <2> QED
      BY <1>1, <1>3, <1>5, <2>1
  <1>6. ASSUME NEW b \in 1..(m + n) PROVE h[b] <= base + n
    <2>1. CASE b <= m
      BY <1>2, <1>4, <2>1
    <2>2. CASE ~(b <= m)
      BY <1>2, <1>5, <2>2
    <2> QED
      BY <2>1, <2>2
  <1>7. ASSUME NEW j \in 1..(m + n), NEW k \in 1..(m + n), j < k PROVE h[j] < h[k]
    <2>1. CASE k <= m
      <3>1. j \in 1..m /\ k \in 1..m
        BY <1>2, <1>7, <2>1
      <3> QED
        BY <1>1, <1>4, <1>7, <3>1
    <2>2. CASE ~(k <= m)
      <3>1. h[k] = base + (k - m) /\ k - m > 0
        BY <1>2, <1>5, <2>2
      <3>2. CASE j <= m
        <4>1. j \in 1..m
          BY <1>2, <3>2
        <4> QED
          BY <1>2, <1>4, <3>1, <4>1
      <3>3. CASE ~(j <= m)
        <4>1. h[j] = base + (j - m)
          BY <1>5, <3>3, SMTT(30)
        <4> QED
          BY <1>2, <1>7, <3>1, <4>1
      <3> QED
        BY <3>2, <3>3
    <2> QED
      BY <2>1, <2>2
  <1> QED
    BY <1>1, <1>3, <1>6, <1>7

\* A data listener is given the chunk: it has heard earlier bytes only.
LEMMA PumpDataInv == ASSUME IndInv, PumpData PROVE IndInv'
  <1>1. /\ UNCHANGED <<taken, fdActive, sbuf, pos, buf, flag, out, listeners>>
        /\ Running("pump") /\ Head(stack).at = "data"
    BY DEF PumpData, InPump, reactor
  <1>2. /\ stack # <<>> /\ Head(stack) = stack[1] /\ 1 \in 1..Len(stack)
        /\ Head(stack) \in PumpRecord /\ pos = Len(sbuf) /\ (Head(stack).eof => ~fdActive)
    BY <1>1, TopPump
  <1>3. flag' \in FlagRecord /\ fdActive' \in BOOLEAN
    BY <1>1 DEF IndInv, Typed
  <1>4. CASE Goes([Head(stack) EXCEPT !.at = "end"]) /\ UNCHANGED heard
    <2>1. Shifted(0)
      BY <1>1, <1>4, PlaceShifted
    <2> QED
      BY <1>1, <1>3, <1>4, <2>1, Quiet
  <1>5. CASE /\ NextListener("data")
             /\ heard' = [heard EXCEPT ![Head(stack).i + 1] = @ \o Head(stack).chunk]
    <2>1. PICK p : p = Head(stack)
      OBVIOUS
    <2>0. PICK top : top = [p EXCEPT !.i = p.i + 1]
      OBVIOUS
    <2>2. /\ p \in PumpRecord /\ p.i \in Nat /\ p.chunk \in Seq(Nat) /\ p = stack[1] /\ p.at = "data"
          /\ top \in PumpRecord /\ top.fn = "pump" /\ top.at = "data" /\ top.i = p.i + 1
          /\ top.eof = p.eof /\ top.chunk = p.chunk
      <3>1. p \in PumpRecord /\ p = stack[1] /\ p.at = "data"
        BY <1>1, <1>2, <2>1
      <3> QED
        BY <2>0, <3>1 DEF PumpRecord
    <2>3. Emits(p)
      BY <1>1, <2>1, <2>2 DEF Emits, Running
    <2>4. Code("data") \in Activation /\ Code("data").fn = "code"
      BY CodeHarmless DEF Code, Events
    <2>5. /\ stack' \in Seq(Activation) /\ Len(stack') = Len(stack) + 1
          /\ stack'[1] = Code("data") /\ stack'[2] = top
          /\ \A k \in 1..Len(stack') : k = 1 \/ k = 2 \/ (k - 1 \in 1..Len(stack) /\ stack'[k] = stack[k - 1])
      <3>1. top \in Activation
        BY <2>2 DEF Activation
      <3>2. stack' = <<Code("data"), top>> \o Tail(stack)
        BY <1>5, <2>0, <2>1 DEF NextListener, Calls
      <3> QED
        BY <1>2, <2>4, <3>1, <3>2, Called DEF IndInv, Typed
    <2>6. PICK q : q = p.i + 1
      OBVIOUS
    <2>7. /\ Len(heard) \in Nat /\ heard \in Seq(Seq(Nat)) /\ q \in 1..Len(heard)
          /\ heard[q] \in Seq(Nat)
      <3>1. Len(heard) \in Nat /\ heard \in Seq(Seq(Nat)) /\ p.i < Len(heard)
        BY <1>5, <2>1 DEF IndInv, Typed, NextListener
      <3>2. q \in 1..Len(heard)
        BY <2>2, <2>6, <3>1
      <3> QED
        BY <3>1, <3>2, ElementOfSeq
    <2>8. PICK h : h = heard[q] \o p.chunk
      OBVIOUS
    <2>9. h \in Seq(Nat)
      BY <2>2, <2>7, <2>8, ConcatProperties
    <2>10. /\ heard' \in Seq(Seq(Nat)) /\ Len(heard') = Len(heard) /\ heard'[q] = h
           /\ \A l \in 1..Len(heard) : l # q => heard'[l] = heard[l]
      <3>1. heard' = [heard EXCEPT ![q] = h]
        BY <1>5, <2>1, <2>6, <2>8
      <3> QED
        BY <2>7, <2>9, <3>1, ExceptSeq
    <2>11. /\ buf = <<>> /\ Len(p.chunk) <= Len(out) /\ Len(out) \in Nat /\ Len(p.chunk) \in Nat
           /\ Len(heard[q]) \in Nat
           /\ \A b \in 1..Len(p.chunk) : p.chunk[b] = Before(p) + b
           /\ \A l \in 1..Len(heard) : l > p.i => \A b \in 1..Len(heard[l]) : heard[l][b] <= Before(p)
      <3>1. Len(out) \in Nat /\ Len(p.chunk) \in Nat /\ Len(heard[q]) \in Nat
        BY <2>2, <2>7, LenProperties DEF IndInv, Typed
      <3> QED
        BY <1>2, <2>2, <2>3, <3>1 DEF IndInv, Emission
    <2>12. Before(p) = Len(out) - Len(p.chunk) /\ Before(top)' = Before(p)
      BY <1>1, <2>2 DEF Before
    <2>13. \A l \in 1..Len(heard) : \A b \in 1..Len(heard[l]) : heard[l][b] \in Nat
      BY ElementOfSeq DEF IndInv, Typed
    <2>14. Typed'
      BY <1>1, <2>5, <2>10 DEF IndInv, Typed
    <2>15. Counted' /\ Ended'
      BY <1>1 DEF IndInv, Counted, Unread, Ended
    <2>16. Drained'
      BY <1>1, <1>2, <2>1, <2>2, <2>4, <2>5 DEF IndInv, Drained
    <2>17. \A k \in 1..Len(stack') : Emits(stack'[k]) => k = 2
      <3> SUFFICES ASSUME NEW k \in 1..Len(stack'), Emits(stack'[k]), k # 2 PROVE FALSE
        OBVIOUS
      <3>1. k # 1
        BY <2>4, <2>5 DEF Emits
      <3>2. k - 1 \in 1..Len(stack) /\ stack'[k] = stack[k - 1]
        BY <2>5, <3>1
      <3>3. k - 1 = 1
        BY <1>2, <2>2, <2>3, <3>2 DEF IndInv, Emission
      <3> QED
        BY <3>3
    <2>18. Emission'
      <3>1. \A l \in 1..Len(heard') : l > top.i => \A b \in 1..Len(heard'[l]) : heard'[l][b] <= Before(top)'
        <4> SUFFICES ASSUME NEW l \in 1..Len(heard), l > q PROVE \A b \in 1..Len(heard'[l]) : heard'[l][b] <= Before(p)
          BY <2>2, <2>6, <2>10, <2>12
        <4>1. heard'[l] = heard[l] /\ l > p.i
          <5>1. l # q /\ l > p.i
            BY <2>2, <2>6, <2>7, SMTT(40)
          <5> QED
            BY <2>10, <5>1
        <4> QED
          BY <2>11, <4>1
      <3>2. /\ buf' = <<>> /\ Len(top.chunk) <= Len(out')
            /\ \A b \in 1..Len(top.chunk) : top.chunk[b] = Before(top)' + b
        BY <1>1, <2>2, <2>11, <2>12
      <3> QED
        BY <2>5, <2>17, <3>1, <3>2 DEF Emission, Before
    <2>19. Hearing'
      <3> SUFFICES ASSUME NEW l \in 1..Len(heard)
                   PROVE  /\ \A b \in 1..Len(heard'[l]) : heard'[l][b] <= Len(out)
                          /\ \A j, k \in 1..Len(heard'[l]) : j < k => heard'[l][j] < heard'[l][k]
        BY <1>1, <2>10 DEF Hearing
      <3>1. CASE l # q
        BY <2>10, <3>1 DEF IndInv, Hearing
      <3>2. CASE l = q
        <4>1. q > p.i
          BY <2>2, <2>6
        <4>2. Before(p) \in Nat /\ Before(p) + Len(p.chunk) = Len(out)
          BY <2>11, <2>12
        <4>3. /\ \A b \in 1..Len(heard[q]) : heard[q][b] <= Before(p)
              /\ \A j, k \in 1..Len(heard[q]) : j < k => heard[q][j] < heard[q][k]
              /\ \A b \in 1..Len(p.chunk) : p.chunk[b] = Before(p) + b
          BY <2>7, <2>11, <4>1 DEF IndInv, Hearing
        <4>4. /\ \A b \in 1..Len(h) : h[b] <= Before(p) + Len(p.chunk)
              /\ \A j, k \in 1..Len(h) : j < k => h[j] < h[k]
          BY <2>2, <2>7, <2>8, <4>2, <4>3, RisingConcat, ZenonT(40)
        <4> QED
          BY <2>10, <3>2, <4>2, <4>4
      <3> QED
        BY <3>1, <3>2
    <2>20. Underway'
      BY <2>2, <2>5, <2>17, SMTT(30) DEF Underway, Emits
    <2> QED
      BY <2>14, <2>15, <2>16, <2>18, <2>19, <2>20 DEF IndInv
  <1> QED
    BY <1>4, <1>5 DEF PumpData


\* Bytes read behind the ones that are there.
LEMMA GrownTail ==
    ASSUME NEW s \in Seq(Nat), NEW c \in Seq(Nat), NEW p \in 0..Len(s)
    PROVE  SubSeq(s \o c, p + 1, Len(s \o c)) = SubSeq(s, p + 1, Len(s)) \o c
  <1>1. PICK m, n, h : m = Len(s) /\ n = Len(c) /\ h = s \o c
    OBVIOUS
  <1>2. m \in Nat /\ n \in Nat /\ p \in Nat /\ p <= m /\ \A b \in 1..m : s[b] \in Nat
    BY <1>1, LenProperties, ElementOfSeq
  <1>3. /\ h \in Seq(Nat) /\ Len(h) = m + n
        /\ \A b \in 1..(m + n) : h[b] = IF b <= m THEN s[b] ELSE c[b - m]
    BY <1>1, ConcatProperties
  <1>4. PICK u : u = SubSeq(s, p + 1, m)
    OBVIOUS
  <1>5. /\ u \in Seq(Nat) /\ Len(u) = m - p
        /\ \A b \in 1..(m - p) : u[b] = s[p + b]
    <2>1. \A b \in (p + 1)..m : s[b] \in Nat
      BY <1>2
    <2>2. /\ u \in Seq(Nat) /\ Len(u) = IF p + 1 <= m THEN m - (p + 1) + 1 ELSE 0
          /\ \A b \in 1..(m - (p + 1) + 1) : u[b] = s[(p + 1) + b - 1]
      BY <1>2, <1>4, <2>1, SubSeqProperties
    <2> QED
      BY <1>2, <2>2
  <1>6. PICK v : v = SubSeq(h, p + 1, m + n)
    OBVIOUS
  <1>7. /\ v \in Seq(Nat) /\ Len(v) = (m - p) + n
        /\ \A b \in 1..((m - p) + n) : v[b] = h[p + b]
    <2>1. \A b \in (p + 1)..(m + n) : h[b] \in Nat
      BY <1>2, <1>3, ElementOfSeq
    <2>2. /\ v \in Seq(Nat) /\ Len(v) = IF p + 1 <= m + n THEN (m + n) - (p + 1) + 1 ELSE 0
          /\ \A b \in 1..((m + n) - (p + 1) + 1) : v[b] = h[(p + 1) + b - 1]
      BY <1>2, <1>6, <2>1, SubSeqProperties
    <2> QED
      BY <1>2, <2>2
  <1>8. PICK w : w = u \o c
    OBVIOUS
  <1>9. /\ w \in Seq(Nat) /\ Len(w) = (m - p) + n
        /\ \A b \in 1..((m - p) + n) : w[b] = IF b <= m - p THEN u[b] ELSE c[b - (m - p)]
    <2>1. /\ w \in Seq(Nat) /\ Len(w) = Len(u) + Len(c)
          /\ \A b \in 1..(Len(u) + Len(c)) : w[b] = IF b <= Len(u) THEN u[b] ELSE c[b - Len(u)]
      BY <1>5, <1>8, ConcatProperties
    <2> QED
      BY <1>1, <1>5, <2>1
  <1>10. ASSUME NEW b \in 1..((m - p) + n) PROVE v[b] = w[b]
    <2>1. p + b \in 1..(m + n) /\ v[b] = h[p + b]
      BY <1>2, <1>7
    <2>2. CASE b <= m - p
      <3>1. p + b <= m /\ b \in 1..(m - p)
        BY <1>2, <2>2
      <3> QED
        BY <1>3, <1>5, <1>9, <2>1, <2>2, <3>1
    <2>3. CASE ~(b <= m - p)
      <3>1. ~(p + b <= m) /\ (p + b) - m = b - (m - p)
        BY <1>2, <2>3
      <3> QED
        BY <1>3, <1>9, <2>1, <2>3, <3>1
    <2> QED
      BY <2>2, <2>3
  <1>11. v = w
    BY <1>7, <1>9, <1>10, SeqEqual
  <1> QED
    BY <1>1, <1>3, <1>4, <1>6, <1>8, <1>11

\* The bytes of the pipe are numbered.
LEMMA CountedOn ==
    ASSUME NEW t \in Nat, NEW n \in Nat
    PROVE  /\ [k \in 1..n |-> t + k] \in Seq(Nat) /\ Len([k \in 1..n |-> t + k]) = n
           /\ [k \in 1..t |-> k] \o [k \in 1..n |-> t + k] = [k \in 1..(t + n) |-> k]
  <1>1. PICK a, b, c : /\ a = [k \in 1..t |-> k] /\ b = [k \in 1..n |-> t + k]
                       /\ c = [k \in 1..(t + n) |-> k]
    OBVIOUS
  <1>2. /\ a \in Seq(Nat) /\ Len(a) = t /\ b \in Seq(Nat) /\ Len(b) = n
        /\ c \in Seq(Nat) /\ Len(c) = t + n
        /\ \A k \in 1..t : a[k] = k
        /\ \A k \in 1..n : b[k] = t + k
        /\ \A k \in 1..(t + n) : c[k] = k
    BY <1>1
  <1>3. /\ a \o b \in Seq(Nat) /\ Len(a \o b) = t + n
        /\ \A k \in 1..(t + n) : (a \o b)[k] = IF k <= t THEN a[k] ELSE b[k - t]
    BY <1>2, ConcatProperties, SMTT(40)
  <1>4. ASSUME NEW k \in 1..(t + n) PROVE (a \o b)[k] = c[k]
    <2>1. CASE k <= t
      BY <1>2, <1>3, <2>1
    <2>2. CASE ~(k <= t)
      <3>1. k - t \in 1..n /\ t + (k - t) = k
        BY <2>2
      <3> QED
        BY <1>2, <1>3, <2>2, <3>1
    <2> QED
      BY <2>1, <2>2
  <1>5. a \o b = c
    BY <1>2, <1>3, <1>4, SeqEqual
  <1> QED
    BY <1>1, <1>2, <1>5

\* The descriptor is read outside of pump() and of all other calls, while it
\* is active: what it yields follows what is there.
LEMMA ReadFdInv == ASSUME IndInv, ReadFd PROVE IndInv'
  <1>1. /\ stack = <<>> /\ UNCHANGED <<buf, flag, listeners, stack, out, heard>>
    BY DEF ReadFd, InLoop, stream, history
  <1>2. CASE ~fdActive
    <2>1. flag' \in FlagRecord /\ UNCHANGED <<taken, fdActive, sbuf, pos>>
      BY <1>1, <1>2 DEF ReadFd, reactor, IndInv, Typed
    <2> QED
      BY <1>1, <2>1, Still
  <1>3. CASE fdActive
    <2>1. PICK kept, start : /\ kept = IF Reclaim THEN <<>> ELSE sbuf
                             /\ start = IF Reclaim THEN 0 ELSE pos
      OBVIOUS
    <2>2. StdinDrain /\ pos' = start
      BY <1>3, <2>1 DEF ReadFd, StdinDrain
    <2>3. /\ kept \in Seq(Nat) /\ Len(kept) \in Nat /\ Len(kept) <= Cap /\ Cap \in Nat
          /\ start \in 0..Len(kept)
          /\ Unread \in Seq(Nat) /\ SubSeq(kept, start + 1, Len(kept)) = Unread
      <3>1. Len(sbuf) \in Nat /\ Cap \in Nat /\ Unread \in Seq(Nat)
        BY CapAssumption, UnreadSeq, LenProperties DEF IndInv, Typed
      <3>2. CASE Reclaim
        <4>1. pos = Len(sbuf) /\ kept = <<>> /\ start = 0
          BY <2>1, <3>1, <3>2 DEF Reclaim, IndInv, Typed
        <4>2. Unread = <<>> /\ Len(kept) = 0 /\ kept \in Seq(Nat)
          BY <4>1, UnreadSeq, EmptySeq DEF IndInv
        <4>3. SubSeq(kept, start + 1, Len(kept)) = <<>>
          BY <4>1, <4>2, SubSeqEmpty
        <4> QED
          BY <3>1, <4>1, <4>2, <4>3
      <3>3. CASE ~Reclaim
        BY <2>1, <3>1, <3>3, SMTT(40) DEF Unread, IndInv, Typed
      <3> QED
        BY <3>2, <3>3
    <2>4. Drained' /\ Emission' /\ Underway' /\ Hearing'
      BY <1>1 DEF IndInv, Drained, Emission, Underway, Emits, Hearing
    <2>5. Ended'
      BY <1>1, <1>3 DEF IndInv, Ended
    <2>6. CASE sbuf' = kept /\ UNCHANGED taken /\ fdActive' \in BOOLEAN
      <3>1. Typed'
        BY <1>1, <2>2, <2>3, <2>6 DEF IndInv, Typed
      <3>2. Unread' = Unread
        BY <2>2, <2>3, <2>6 DEF Unread
      <3>3. Counted'
        BY <1>1, <2>6, <3>2 DEF IndInv, Counted
      <3> QED
        BY <2>4, <2>5, <3>1, <3>3 DEF IndInv
    <2>7. CASE /\ UNCHANGED fdActive
               /\ \E n \in 1..Room(kept) : /\ sbuf' = kept \o [k \in 1..n |-> taken + k]
                                           /\ taken' = taken + n
      <3>1. PICK n \in 1..Room(kept) : sbuf' = kept \o [k \in 1..n |-> taken + k] /\ taken' = taken + n
        BY <2>7
      <3>2. n \in Nat /\ Len(kept) + n <= Cap /\ taken \in Nat /\ taken' \in Nat
        BY <2>3, <3>1 DEF Room, IndInv, Typed
      <3>3. PICK c : c = [k \in 1..n |-> taken + k]
        OBVIOUS
      <3>4. /\ c \in Seq(Nat) /\ Len(c) = n
            /\ [k \in 1..taken |-> k] \o c = [k \in 1..(taken + n) |-> k]
        BY <3>2, <3>3, CountedOn
      <3>5. sbuf' \in Seq(Nat) /\ Len(sbuf') = Len(kept) + n
        BY <2>3, <3>1, <3>3, <3>4, ConcatProperties
      <3>6. Typed'
        BY <1>1, <1>3, <2>2, <2>3, <2>7, <3>2, <3>5, SMTT(30) DEF IndInv, Typed
      <3>7. Unread' = Unread \o c
        <4>1. SubSeq(kept \o c, start + 1, Len(kept \o c)) = SubSeq(kept, start + 1, Len(kept)) \o c
          BY <2>3, <3>4, GrownTail
        <4> QED
          BY <2>2, <2>3, <3>1, <3>3, <4>1 DEF Unread
      <3>8. Counted'
        <4>0. PICK o : o = out \o buf
          OBVIOUS
        <4>1. o \in Seq(Nat)
          BY <4>0, ConcatProperties DEF IndInv, Typed
        <4>2. o \o (Unread \o c) = (o \o Unread) \o c
          BY <2>3, <3>4, <4>1, Regrouped, ZenonT(40)
        <4> QED
          BY <1>1, <3>1, <3>4, <3>7, <4>0, <4>2 DEF IndInv, Counted
      <3> QED
        BY <2>4, <2>5, <3>6, <3>8 DEF IndInv
    <2> QED
      BY <1>3, <2>1, <2>2, <2>6, <2>7 DEF StdinDrain, IndInv, Typed
  <1> QED
    BY <1>2, <1>3
-----------------------------------------------------------------------------
(***************************************************************************)
(* The theorems.                                                           *)
(***************************************************************************)

\* Initially nothing has been read.
LEMMA InitInv == Init => IndInv
  <1> SUFFICES ASSUME Init PROVE IndInv
    OBVIOUS
  <1>1. Code("main") \in Activation /\ Code("main").fn = "code"
    BY CodeHarmless DEF Code
  <1>2. Len(stack) = 1 /\ stack[1].fn = "code" /\ stack \in Seq(Activation)
    BY <1>1 DEF Init
  <1>3. Typed
    BY <1>2, CapAssumption DEF Init, Typed, FlagRecord, Events
  <1>4. Drained /\ Emission /\ Underway /\ Ended /\ Hearing
    BY <1>2 DEF Init, Drained, Emission, Underway, Emits, Ended, Hearing
  <1>5. Counted
    <2>1. Unread = <<>>
      BY <1>3, UnreadSeq DEF Init
    <2> QED
      BY <2>1 DEF Init, Counted
  <1> QED
    BY <1>3, <1>4, <1>5 DEF IndInv

\* Every step keeps the inductive invariant.
LEMMA StepInv == IndInv /\ [Next]_vars => IndInv'
  <1> SUFFICES ASSUME IndInv, [Next]_vars PROVE IndInv'
    OBVIOUS
  <1>1. CASE Program
    BY <1>1, PumpReadableInv, EmitChunkInv, PumpDataInv, PumpEndInv, PumpEndedInv, OnInv, ReadInv,
       StillSteps, ResumeInv, DestroyInv, DestroyEndsInv, CodeSteps, ReadFdInv, CallHookInv
       DEF Program
  <1>2. CASE PeerWrites \/ PeerCloses \/ PollFails
    BY <1>2, StillSteps
  <1>3. CASE UNCHANGED vars
    <2>1. flag' \in FlagRecord /\ UNCHANGED <<taken, fdActive, sbuf, pos, buf, flag, out, heard, listeners, stack>>
      BY <1>3 DEF vars, reactor, stream, history, IndInv, Typed
    <2> QED
      BY <2>1, Still
  <1> QED
    BY <1>1, <1>2, <1>3 DEF Next

\* The inductive invariant holds throughout.
LEMMA Invariance == Spec => []IndInv
  BY InitInv, StepInv, PTL DEF Spec

\* Between fd_read and the program no byte is lost, repeated or overtaken, the
\* reactor's buffer never overflows, and every data listener hears a rising
\* run: however the program's listeners nest pump() by resume(), read and
\* pause, whatever fd_read returns, and for every size of the buffer.
THEOREM NoByteLost == Spec => []BytesInOrder
  <1>1. IndInv => BytesInOrder
    BY DEF IndInv, Typed, Counted, Hearing, BytesInOrder
  <1> QED
    BY <1>1, Invariance, PTL

\* 'end' is announced when neither the stream nor the reactor holds a byte and
\* nothing can come any more, no pump on the stack has a stale atEof, and the
\* first data listener was given everything before: a stream with one data
\* listener announces 'end' after its last chunk, however pump() is nested.
\* Nothing is claimed for a second listener, which may be given the last chunk
\* after 'end' (the run of EndAfterDelivery).
THEOREM EndComesLast == Spec => []EndIsLast
  <1>1. ASSUME IndInv PROVE EndIsLast
    <2>1. DOMAIN stack = 1..Len(stack)
      BY <1>1, LenProperties DEF IndInv, Typed
    <2>2. /\ flag.ended => ~fdActive /\ buf = <<>> /\ Unread = <<>>
          /\ \A k \in DOMAIN stack : stack[k].fn = "pump" /\ stack[k].eof => ~fdActive
      BY <1>1, <2>1, NothingLeft DEF IndInv, Drained
    <2>3. ASSUME flag.ended, NEW k \in Emitting
          PROVE  stack[k].i \in Nat /\ stack[k].i > 0
      <3>1. k \in 1..Len(stack) /\ Emits(stack[k])
        BY <2>1, <2>3 DEF Emitting, Emits
      <3>2. stack[k] \in Activation
        BY <1>1, <3>1, ElementOfSeq DEF IndInv, Typed
      <3>3. stack[k].i \in Nat
        BY <3>1, <3>2 DEF Activation, PumpRecord, Emits
      <3>4. stack[k].i # 0
        BY <1>1, <2>3, <3>1 DEF IndInv, Underway
      <3> QED
        BY <3>3, <3>4
    <2>4. listeners["data"] \in Nat
      BY <1>1 DEF IndInv, Typed, Events
    <2>5. listeners["data"] <= 1 => EndAfterDelivery
      BY <2>3, <2>4 DEF EndAfterDelivery
    <2> QED
      BY <2>2, <2>3, <2>5 DEF EndIsLast
  <1> QED
    BY <1>1, Invariance, PTL

=============================================================================

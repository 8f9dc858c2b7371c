-------------------------- MODULE MockWorker_proofs --------------------------
(***************************************************************************)
(* Theorems of MockWorker for any listeners on either side and any number  *)
(* of messages and callbacks.                                              *)
(***************************************************************************)
EXTENDS MockWorker, SequenceTheorems, TLAPS

\* A new mock worker has its types.
LEMMA TypesAtStart == ASSUME MockInit PROVE MockTypeOK
<1>1. held \in BOOLEAN /\ exited \in BOOLEAN
  BY DEF MockInit
<1>2. /\ pc \in {"none", "script", "main", "idle", "tick"}
      /\ immediates = <<>> /\ ticks = <<>>
      /\ {posted, posts, scheduled} \subseteq Nat
  BY DEF MockInit
<1>3. immediates \in Seq(Callback) /\ ticks \in Seq({"start", "code"})
  BY <1>2, EmptySeq
<1> QED BY <1>1, <1>2, <1>3, Zenon DEF MockTypeOK

\* Every step of the mock keeps the types.
LEMMA TypesKept ==
  ASSUME MockTypeOK, [MockNext]_mockVars PROVE MockTypeOK'
<1>1. /\ immediates \in Seq(Callback) /\ ticks \in Seq({"start", "code"})
      /\ posted \in Nat /\ posts \in Nat /\ scheduled \in Nat
      /\ pc \in {"none", "script", "main", "idle", "tick"}
      /\ held \in BOOLEAN /\ exited \in BOOLEAN
  BY DEF MockTypeOK
<1>2. pc' \in {"none", "script", "main", "idle", "tick"}
  BY <1>1
  DEF MockNext, mockVars, New, ScriptEnds, MainEnds, PostMessage,
      InsidePostMessage, OutsideOnMessage, OutsideRemoveOnMessage,
      InsideOnMessage, InsideRemoveOnMessage, InsideNextTick, RunTick,
      TickEnds, RunImmediate, InPortRuns, OutPortRuns
<1>3. held' \in BOOLEAN /\ exited' \in BOOLEAN
  BY <1>1, Zenon
  DEF MockNext, mockVars, New, ScriptEnds, MainEnds, PostMessage,
      InsidePostMessage, OutsideOnMessage, OutsideRemoveOnMessage,
      InsideOnMessage, InsideRemoveOnMessage, InsideNextTick, RunTick,
      TickEnds, RunImmediate, InPortRuns, OutPortRuns, Uncaught
<1>4. posted' \in Nat /\ posts' \in Nat /\ scheduled' \in Nat
  BY <1>1
  DEF MockNext, mockVars, counts, New, ScriptEnds, MainEnds, PostMessage,
      InsidePostMessage, OutsideOnMessage, OutsideRemoveOnMessage,
      InsideOnMessage, InsideRemoveOnMessage, InsideNextTick, NextTick, RunTick,
      TickEnds, RunImmediate, InPortRuns, OutPortRuns
<1>5. immediates' \in Seq(Callback)
  <2>1. CASE PostMessage \/ InsidePostMessage
    <3>1. PICK c \in Callback : immediates' = Append(immediates, c)
      <4>1. CASE PostMessage
        <5>1. [to |-> "in", message |-> posted + 1] \in Callback
          BY <1>1 DEF Callback
        <5> QED BY <4>1, <5>1 DEF PostMessage, SetImmediate
      <4>2. CASE InsidePostMessage
        <5>1. [to |-> "out", message |-> posts + 1] \in Callback
          BY <1>1 DEF Callback
        <5> QED BY <4>2, <5>1 DEF InsidePostMessage, SetImmediate
      <4> QED BY <2>1, <4>1, <4>2
    <3> QED BY <1>1, <3>1, AppendProperties
  <2>2. CASE RunImmediate
    BY <1>1, <2>2, HeadTailProperties DEF RunImmediate
  <2>3. CASE UNCHANGED immediates
    BY <1>1, <2>3
  <2> QED
    BY <2>1, <2>2, <2>3
    DEF MockNext, mockVars, New, ScriptEnds, MainEnds, OutsideOnMessage,
        OutsideRemoveOnMessage, InsideOnMessage, InsideRemoveOnMessage,
        InsideNextTick, RunTick, TickEnds, InPortRuns, OutPortRuns
<1>6. ticks' \in Seq({"start", "code"})
  <2>1. CASE NextTick("start") \/ NextTick("code")
    BY <1>1, <2>1, AppendProperties DEF NextTick
  <2>2. CASE RunTick
    BY <1>1, <2>2, HeadTailProperties DEF RunTick
  <2>3. CASE UNCHANGED ticks
    BY <1>1, <2>3
  <2> QED
    BY <2>1, <2>2, <2>3
    DEF MockNext, mockVars, New, ScriptEnds, MainEnds, PostMessage,
        InsidePostMessage, OutsideOnMessage, OutsideRemoveOnMessage,
        InsideOnMessage, InsideRemoveOnMessage, InsideNextTick, TickEnds,
        RunImmediate, InPortRuns, OutPortRuns
<1> QED BY <1>2, <1>3, <1>4, <1>5, <1>6 DEF MockTypeOK

\* The variables of lib/mock.js keep their types.
THEOREM MockTypes == MockSpec => []MockTypeOK
BY TypesAtStart, TypesKept, PTL DEF MockSpec

-----------------------------------------------------------------------------
\* The port into the worker starts and hands on only from the event loop.
LEMMA LoopKept ==
  ASSUME CalledFromLoop, [MockNext]_mockVars PROVE CalledFromLoop'
<1>1. CASE New \/ ScriptEnds \/ MainEnds \/ TickEnds
  BY <1>1 DEF New, ScriptEnds, MainEnds, TickEnds, inVars, CalledFromLoop
<1>2. CASE PostMessage \/ InsidePostMessage \/ InsideNextTick
  BY <1>2 DEF PostMessage, InsidePostMessage, InsideNextTick, inVars,
              CalledFromLoop
<1>3. CASE \E l \in OutsideListener :
             OutsideOnMessage(l) \/ OutsideRemoveOnMessage(l)
  BY <1>3 DEF OutsideOnMessage, OutsideRemoveOnMessage, inVars, CalledFromLoop
<1>4. CASE \E l \in InsideListener :
             InsideOnMessage(l) \/ InsideRemoveOnMessage(l)
  BY <1>4 DEF InsideOnMessage, InsideRemoveOnMessage, In!AddListener,
              In!RemoveOnMessage, CalledFromLoop
<1>5. CASE RunTick
  BY <1>5 DEF RunTick, LoopTurn, PortsIdle, In!PortIdle, inVars, CalledFromLoop
<1>6. CASE RunImmediate
  BY <1>6 DEF RunImmediate, LoopTurn, CalledFromLoop
<1>7. CASE InPortRuns
  BY <1>7 DEF InPortRuns, In!DrainNext, In!DrainDone, In!ListenerReturns,
              In!ListenerThrows, CalledFromLoop
<1>8. CASE OutPortRuns
  BY <1>8 DEF OutPortRuns, inVars, CalledFromLoop
<1>9. CASE UNCHANGED mockVars
  BY <1>9 DEF mockVars, inVars, CalledFromLoop
<1> QED
  BY <1>1, <1>2, <1>3, <1>4, <1>5, <1>6, <1>7, <1>8, <1>9 DEF MockNext

(***************************************************************************)
(* No listener inside is called on top of the code that registers it: the  *)
(* promise callback of onMessage (mock.js:177-179) and the setImmediate    *)
(* callbacks of postMessage run from the event loop only.                  *)
(***************************************************************************)
THEOREM MockCalledFromLoop == MockSpec => []CalledFromLoop
<1>1. MockInit => CalledFromLoop
  BY DEF MockInit, In!PortInit, CalledFromLoop
<1> QED BY <1>1, LoopKept, PTL DEF MockSpec

-----------------------------------------------------------------------------
(***************************************************************************)
(* The callbacks for a port, index by index: Waiting says of immediates    *)
(* what Carries says of any queue.                                         *)
(***************************************************************************)
Carries(q, to, n, sent) ==
  /\ \A i \in 1..Len(q) : q[i].to = to => q[i].message \in (n + 1)..sent
  /\ \A m \in (n + 1)..sent :
       \E i \in 1..Len(q) : q[i].to = to /\ q[i].message = m
  /\ \A i, j \in 1..Len(q) :
       q[i].to = to /\ q[j].to = to /\ i < j => q[i].message < q[j].message

\* To carry the messages after n up to the last is what Waiting says by sets.
LEMMA CarriesIsWaiting ==
  ASSUME immediates \in Seq(Callback), NEW to, NEW n \in Nat, NEW sent \in Nat
  PROVE  Carries(immediates, to, n, sent) <=> Waiting(to, n, sent)
<1>1. DOMAIN immediates = 1..Len(immediates) BY LenProperties
<1> QED BY <1>1 DEF Carries, Waiting

\* The callback of the next message for the port is queued.
LEMMA CarriesNext ==
  ASSUME NEW q \in Seq(Callback), NEW to \in {"in", "out"}, NEW n \in Nat,
         NEW sent \in Nat, n <= sent, Carries(q, to, n, sent)
  PROVE  Carries(Append(q, [to |-> to, message |-> sent + 1]), to, n, sent + 1)
<1> DEFINE c == [to |-> to, message |-> sent + 1]
           r == Append(q, c)
<1>1. c \in Callback /\ c.to = to /\ c.message = sent + 1 BY DEF Callback
<1>2. /\ Len(q) \in Nat /\ Len(r) = Len(q) + 1 /\ r[Len(q) + 1] = c
      /\ \A i \in 1..Len(q) : r[i] = q[i]
  BY <1>1, LenProperties, AppendProperties
<1>3. \A i \in 1..Len(q) : q[i].to = to => q[i].message \in (n + 1)..sent
  BY DEF Carries
<1> HIDE DEF c, r
<1>4. \A i \in 1..(Len(q) + 1) : i \in 1..Len(q) \/ i = Len(q) + 1 BY <1>2
<1>5. \A i \in 1..Len(q) : r[i].to = to => r[i].message \in (n + 1)..sent
  BY <1>2, <1>3
<1>6. ASSUME NEW i \in 1..Len(r), r[i].to = to
      PROVE  r[i].message \in (n + 1)..(sent + 1)
  BY <1>1, <1>2, <1>4, <1>5, <1>6
<1>7. ASSUME NEW m \in (n + 1)..(sent + 1)
      PROVE  \E i \in 1..Len(r) : r[i].to = to /\ r[i].message = m
  <2>1. CASE m \in (n + 1)..sent
    <3>1. PICK i \in 1..Len(q) : q[i].to = to /\ q[i].message = m
      BY <2>1 DEF Carries
    <3> QED BY <1>2, <3>1
  <2>2. CASE m = sent + 1
    <3>1. Len(q) + 1 \in 1..Len(r) BY <1>2
    <3> QED BY <1>1, <1>2, <2>2, <3>1
  <2> QED BY <2>1, <2>2
<1>8. ASSUME NEW i \in 1..Len(r), NEW j \in 1..Len(r),
             r[i].to = to, r[j].to = to, i < j
      PROVE  r[i].message < r[j].message
  <2>1. i \in 1..Len(q) BY <1>2, <1>8
  <2>2. CASE j \in 1..Len(q) BY <1>2, <1>8, <2>1, <2>2 DEF Carries
  <2>3. CASE j = Len(q) + 1
    <3>1. r[i].message \in (n + 1)..sent BY <1>5, <1>8, <2>1
    <3> QED BY <1>1, <1>2, <2>3, <3>1
  <2> QED BY <1>2, <1>4, <2>2, <2>3
<1>9. Carries(r, to, n, sent + 1) BY <1>6, <1>7, <1>8 DEF Carries
<1> QED BY <1>9 DEF r, c

\* A callback for the other port is queued.
LEMMA CarriesAppendOther ==
  ASSUME NEW q \in Seq(Callback), NEW c \in Callback, NEW to, c.to # to,
         NEW n \in Nat, NEW sent \in Nat, Carries(q, to, n, sent)
  PROVE  Carries(Append(q, c), to, n, sent)
<1> DEFINE r == Append(q, c)
<1>1. /\ Len(q) \in Nat /\ Len(r) = Len(q) + 1 /\ r[Len(q) + 1] = c
      /\ \A i \in 1..Len(q) : r[i] = q[i]
  BY LenProperties, AppendProperties
<1> HIDE DEF r
<1>2. \A i \in 1..Len(r) : r[i].to = to => i \in 1..Len(q) /\ r[i] = q[i]
  BY <1>1
<1>3. \A i \in 1..Len(q) : i \in 1..Len(r) BY <1>1
<1>4. Carries(r, to, n, sent) BY <1>1, <1>2, <1>3 DEF Carries
<1> QED BY <1>4 DEF r

\* The event loop takes the first callback, which is for the port.
LEMMA CarriesFirst ==
  ASSUME NEW q \in Seq(Callback), q # <<>>, NEW to, Head(q).to = to,
         NEW n \in Nat, NEW sent \in Nat, Carries(q, to, n, sent)
  PROVE  /\ Head(q).message = n + 1 /\ n + 1 <= sent
         /\ Carries(Tail(q), to, n + 1, sent)
<1> DEFINE r == Tail(q)
<1>1. /\ Len(q) \in Nat /\ Len(q) >= 1 /\ Len(r) = Len(q) - 1 /\ Head(q) = q[1]
      /\ \A i \in 1..(Len(q) - 1) : r[i] = q[i + 1] /\ i + 1 \in 1..Len(q)
  BY EmptySeq, LenProperties, HeadTailProperties
<1>2. \A i \in 1..Len(q) : i = 1 \/ (i - 1 \in 1..(Len(q) - 1) /\ q[i] = r[i - 1])
  BY <1>1
<1> HIDE DEF r
<1>3. q[1].message \in (n + 1)..sent /\ 1 \in 1..Len(q)
  BY <1>1 DEF Carries
<1>4. q[1].message = n + 1
  <2>1. n + 1 \in (n + 1)..sent BY <1>3
  <2>2. PICK i \in 1..Len(q) : q[i].to = to /\ q[i].message = n + 1
    BY <2>1 DEF Carries
  <2>3. i # 1 => q[1].message < q[i].message
    BY <1>1, <1>3, <2>2 DEF Carries
  <2> QED BY <1>3, <2>2, <2>3
<1>5. ASSUME NEW i \in 1..Len(r), r[i].to = to
      PROVE  r[i].message \in ((n + 1) + 1)..sent
  <2>1. r[i] = q[i + 1] /\ i + 1 \in 1..Len(q) /\ 1 < i + 1 BY <1>1
  <2>2. q[1].message < q[i + 1].message BY <1>1, <1>3, <1>5, <2>1 DEF Carries
  <2>3. q[i + 1].message \in (n + 1)..sent BY <1>5, <2>1 DEF Carries
  <2> QED BY <1>4, <2>1, <2>2, <2>3
<1>6. ASSUME NEW m \in ((n + 1) + 1)..sent
      PROVE  \E i \in 1..Len(r) : r[i].to = to /\ r[i].message = m
  <2>1. m \in (n + 1)..sent /\ m # n + 1 OBVIOUS
  <2>2. PICK i \in 1..Len(q) : q[i].to = to /\ q[i].message = m
    BY <2>1 DEF Carries
  <2> QED BY <1>1, <1>2, <1>4, <2>1, <2>2
<1>7. ASSUME NEW i \in 1..Len(r), NEW j \in 1..Len(r),
             r[i].to = to, r[j].to = to, i < j
      PROVE  r[i].message < r[j].message
  <2>1. /\ i + 1 \in 1..Len(q) /\ j + 1 \in 1..Len(q) /\ i + 1 < j + 1
        /\ r[i] = q[i + 1] /\ r[j] = q[j + 1]
    BY <1>1, <1>7
  <2>2. q[i + 1].message < q[j + 1].message BY <1>7, <2>1 DEF Carries
  <2> QED BY <2>1, <2>2
<1>8. Carries(r, to, n + 1, sent) BY <1>5, <1>6, <1>7 DEF Carries
<1> QED BY <1>1, <1>3, <1>4, <1>8 DEF r

\* The event loop takes the first callback, which is for the other port.
LEMMA CarriesFirstOther ==
  ASSUME NEW q \in Seq(Callback), q # <<>>, NEW to, Head(q).to # to,
         NEW n \in Nat, NEW sent \in Nat, Carries(q, to, n, sent)
  PROVE  Carries(Tail(q), to, n, sent)
<1> DEFINE r == Tail(q)
<1>1. /\ Len(q) \in Nat /\ Len(q) >= 1 /\ Len(r) = Len(q) - 1 /\ Head(q) = q[1]
      /\ \A i \in 1..(Len(q) - 1) : r[i] = q[i + 1] /\ i + 1 \in 1..Len(q)
  BY EmptySeq, LenProperties, HeadTailProperties
<1>2. \A i \in 1..Len(q) : i = 1 \/ (i - 1 \in 1..(Len(q) - 1) /\ q[i] = r[i - 1])
  BY <1>1
<1> HIDE DEF r
<1>3. \A i \in 1..Len(r) : r[i].to = to => r[i].message \in (n + 1)..sent
  BY <1>1 DEF Carries
<1>4. ASSUME NEW m \in (n + 1)..sent
      PROVE  \E i \in 1..Len(r) : r[i].to = to /\ r[i].message = m
  <2>1. PICK i \in 1..Len(q) : q[i].to = to /\ q[i].message = m
    BY DEF Carries
  <2> QED BY <1>1, <1>2, <2>1
<1>5. ASSUME NEW i \in 1..Len(r), NEW j \in 1..Len(r),
             r[i].to = to, r[j].to = to, i < j
      PROVE  r[i].message < r[j].message
  <2>1. /\ i + 1 \in 1..Len(q) /\ j + 1 \in 1..Len(q) /\ i + 1 < j + 1
        /\ r[i] = q[i + 1] /\ r[j] = q[j + 1]
    BY <1>1, <1>5
  <2>2. q[i + 1].message < q[j + 1].message BY <1>5, <2>1 DEF Carries
  <2> QED BY <2>1, <2>2
<1>6. Carries(r, to, n, sent) BY <1>3, <1>4, <1>5 DEF Carries
<1> QED BY <1>6 DEF r

-----------------------------------------------------------------------------
(***************************************************************************)
(* The two ports run as MessagePort says: the callbacks that emit on one   *)
(* carry the messages that follow the last one emitted on it.              *)
(***************************************************************************)
Counted ==
  /\ posted <= MaxPosted /\ posts <= MaxPosts
  /\ inLast \in 0..posted /\ Carries(immediates, "in", inLast, posted)
  /\ outLast \in 0..posts /\ Carries(immediates, "out", outLast, posts)

\* At the start nothing was posted and nothing waits.
LEMMA CountedAtStart == ASSUME MockInit PROVE Counted
<1>1. immediates = <<>> /\ posted = 0 /\ posts = 0 /\ inLast = 0 /\ outLast = 0
  BY DEF MockInit, In!PortInit, Out!PortInit
<1>2. Carries(immediates, "in", 0, 0) /\ Carries(immediates, "out", 0, 0)
  BY <1>1, EmptySeq DEF Carries
<1> QED BY <1>1, <1>2, MockAssumption DEF Counted

\* What a step does to the event loop's queue and to the ports' numbers.
LEMMA OnlyThreeCount ==
  ASSUME MockNext, ~(posted < MaxPosted /\ PostMessage),
         ~(posts < MaxPosts /\ InsidePostMessage), ~RunImmediate
  PROVE  UNCHANGED <<immediates, posted, posts, inLast, outLast>>
<1>1. CASE New \/ ScriptEnds \/ MainEnds \/ TickEnds \/ InsideNextTick
  BY <1>1 DEF New, ScriptEnds, MainEnds, TickEnds, InsideNextTick, inVars,
     outVars, counts
<1>2. CASE \E l \in OutsideListener :
             OutsideOnMessage(l) \/ OutsideRemoveOnMessage(l)
  BY <1>2 DEF OutsideOnMessage, OutsideRemoveOnMessage, Out!OnMessage,
     Out!RemoveOnMessage, inVars, counts
<1>3. CASE \E l \in InsideListener :
             InsideOnMessage(l) \/ InsideRemoveOnMessage(l)
  BY <1>3 DEF InsideOnMessage, InsideRemoveOnMessage, In!AddListener,
     In!RemoveOnMessage, outVars, counts
<1>4. CASE RunTick
  BY <1>4 DEF RunTick, In!StartPort, inVars, outVars, counts
<1>5. CASE InPortRuns
  BY <1>5 DEF InPortRuns, In!DrainNext, In!DrainDone, In!ListenerReturns,
     In!ListenerThrows, outVars, counts
<1>6. CASE OutPortRuns
  BY <1>6 DEF OutPortRuns, Out!DrainNext, Out!DrainDone, Out!ListenerReturns,
     Out!ListenerThrows, inVars, counts
<1> QED BY <1>1, <1>2, <1>3, <1>4, <1>5, <1>6 DEF MockNext

\* The callback that emits carries the next message.
LEMMA EmitsNext ==
  ASSUME MockTypeOK, Counted, RunImmediate
  PROVE  /\ Counted'
         /\ \/ UNCHANGED outVars /\ inLast < MaxPosted /\ In!Emit(inLast + 1)
            \/ UNCHANGED inVars /\ outLast < MaxPosts /\ Out!Emit(outLast + 1)
<1>1. /\ immediates \in Seq(Callback) /\ posted \in Nat /\ posts \in Nat
      /\ inLast \in Nat /\ outLast \in Nat /\ MaxPosted \in Nat /\ MaxPosts \in Nat
  BY MockAssumption DEF MockTypeOK, Counted
<1>2. /\ immediates # <<>> /\ immediates' = Tail(immediates)
      /\ posted' = posted /\ posts' = posts
  BY DEF RunImmediate, counts
<1>3. CASE Head(immediates).to = "in"
  <2>1. Head(immediates).message = inLast + 1 /\ inLast + 1 <= posted
        /\ Carries(immediates', "in", inLast + 1, posted)
    BY <1>1, <1>2, <1>3, CarriesFirst DEF Counted
  <2>2. Carries(immediates', "out", outLast, posts)
    BY <1>1, <1>2, <1>3, CarriesFirstOther DEF Counted
  <2>3. In!Emit(inLast + 1) /\ UNCHANGED outVars
    BY <1>3, <2>1 DEF RunImmediate
  <2>4. inLast' = inLast + 1 /\ outLast' = outLast
    BY <2>3 DEF In!Emit, outVars
  <2>5. Counted' /\ inLast < MaxPosted
    BY <1>1, <1>2, <2>1, <2>2, <2>4 DEF Counted
  <2> QED BY <2>3, <2>5
<1>4. CASE Head(immediates).to = "out"
  <2>1. Head(immediates).message = outLast + 1 /\ outLast + 1 <= posts
        /\ Carries(immediates', "out", outLast + 1, posts)
    BY <1>1, <1>2, <1>4, CarriesFirst DEF Counted
  <2>2. Carries(immediates', "in", inLast, posted)
    BY <1>1, <1>2, <1>4, CarriesFirstOther DEF Counted
  <2>3. Out!Emit(outLast + 1) /\ UNCHANGED inVars
    BY <1>4, <2>1 DEF RunImmediate
  <2>4. outLast' = outLast + 1 /\ inLast' = inLast
    BY <2>3 DEF Out!Emit, inVars
  <2>5. Counted' /\ outLast < MaxPosts
    BY <1>1, <1>2, <2>1, <2>2, <2>4 DEF Counted
  <2> QED BY <2>3, <2>5
<1> QED BY <1>3, <1>4 DEF RunImmediate

\* Every step keeps what the event loop's queue carries.
LEMMA CountedKept ==
  ASSUME MockTypeOK, Counted, [MockNext]_mockVars PROVE Counted'
<1>1. /\ immediates \in Seq(Callback) /\ posted \in Nat /\ posts \in Nat
      /\ inLast \in Nat /\ outLast \in Nat /\ MaxPosted \in Nat /\ MaxPosts \in Nat
  BY MockAssumption DEF MockTypeOK, Counted
<1>2. CASE PostMessage /\ posted < MaxPosted
  <2> DEFINE c == [to |-> "in", message |-> posted + 1]
  <2>1. /\ immediates' = Append(immediates, c) /\ posted' = posted + 1
        /\ UNCHANGED <<posts, inLast, outLast>>
    BY <1>2 DEF PostMessage, SetImmediate, inVars, outVars
  <2>2. Carries(immediates', "in", inLast, posted + 1)
    BY <1>1, <2>1, CarriesNext DEF Counted
  <2>3. c \in Callback /\ c.to # "out" BY <1>1 DEF Callback
  <2>4. Carries(immediates', "out", outLast, posts)
    <3> HIDE DEF c
    <3> QED BY <1>1, <2>1, <2>3, CarriesAppendOther DEF Counted
  <2> QED BY <1>1, <1>2, <2>1, <2>2, <2>4 DEF Counted
<1>3. CASE InsidePostMessage /\ posts < MaxPosts
  <2> DEFINE c == [to |-> "out", message |-> posts + 1]
  <2>1. /\ immediates' = Append(immediates, c) /\ posts' = posts + 1
        /\ UNCHANGED <<posted, inLast, outLast>>
    BY <1>3 DEF InsidePostMessage, SetImmediate, inVars, outVars
  <2>2. Carries(immediates', "out", outLast, posts + 1)
    BY <1>1, <2>1, CarriesNext DEF Counted
  <2>3. c \in Callback /\ c.to # "in" BY <1>1 DEF Callback
  <2>4. Carries(immediates', "in", inLast, posted)
    <3> HIDE DEF c
    <3> QED BY <1>1, <2>1, <2>3, CarriesAppendOther DEF Counted
  <2> QED BY <1>1, <1>3, <2>1, <2>2, <2>4 DEF Counted
<1>4. CASE RunImmediate
  BY <1>4, EmitsNext
<1>5. CASE UNCHANGED <<immediates, posted, posts, inLast, outLast>>
  BY <1>5 DEF Counted
<1>6. CASE UNCHANGED mockVars
  BY <1>5, <1>6 DEF mockVars, inVars, outVars, counts
<1> QED
  BY <1>2, <1>3, <1>4, <1>5, <1>6, OnlyThreeCount

\* Whatever happens to a worker is a step of either port, or leaves it alone.
LEMMA InPortSteps ==
  ASSUME MockTypeOK, Counted, [MockNext]_mockVars
  PROVE  [In!PortNext]_(In!portVars)
<1> SUFFICES In!PortNext \/ UNCHANGED inVars
  BY DEF In!portVars, inVars
<1>1. CASE \E l \in InsideListener :
             \/ Len(inListeners) < MaxListeners /\ InsideOnMessage(l)
             \/ InsideRemoveOnMessage(l)
  BY <1>1 DEF InsideOnMessage, InsideRemoveOnMessage, In!PortNext
<1>2. CASE RunTick
  BY <1>2 DEF RunTick, In!PortNext
<1>3. CASE RunImmediate
  BY <1>3, EmitsNext DEF In!PortNext
<1>4. CASE InPortRuns
  BY <1>4 DEF InPortRuns, In!PortNext, In!PortStep
<1> QED
  BY <1>1, <1>2, <1>3, <1>4
  DEF MockNext, mockVars, New, ScriptEnds, MainEnds, PostMessage,
      InsidePostMessage, OutsideOnMessage, OutsideRemoveOnMessage,
      InsideNextTick, TickEnds, OutPortRuns

\* Every step of the mock is a step of the outer port or leaves it alone.
LEMMA OutPortSteps ==
  ASSUME MockTypeOK, Counted, [MockNext]_mockVars
  PROVE  [Out!PortNext]_(Out!portVars)
<1> SUFFICES Out!PortNext \/ UNCHANGED outVars
  BY DEF Out!portVars, outVars
<1>1. CASE \E l \in OutsideListener :
             \/ Len(outListeners) < MaxListeners /\ OutsideOnMessage(l)
             \/ OutsideRemoveOnMessage(l)
  BY <1>1 DEF OutsideOnMessage, OutsideRemoveOnMessage, Out!PortNext
<1>2. CASE RunImmediate
  BY <1>2, EmitsNext DEF Out!PortNext
<1>3. CASE OutPortRuns
  BY <1>3 DEF OutPortRuns, Out!PortNext, Out!PortStep
<1> QED
  BY <1>1, <1>2, <1>3
  DEF MockNext, mockVars, New, ScriptEnds, MainEnds, PostMessage,
      InsidePostMessage, InsideOnMessage, InsideRemoveOnMessage,
      InsideNextTick, RunTick, TickEnds, InPortRuns

(***************************************************************************)
(* Each of the two ports of lib/mock.js behaves as MessagePort specifies:  *)
(* the worker around it emits the messages in turn, and calls it only when *)
(* JavaScript's call stack allows.                                         *)
(***************************************************************************)
THEOREM MockPorts ==
  MockSpec => /\ In!PortInit /\ [][In!PortNext]_(In!portVars)
              /\ Out!PortInit /\ [][Out!PortNext]_(Out!portVars)
<1>1. MockInit => In!PortInit /\ Out!PortInit
  BY DEF MockInit
<1> QED
  BY <1>1, TypesAtStart, TypesKept, CountedAtStart, CountedKept, InPortSteps,
     OutPortSteps, PTL
  DEF MockSpec

-----------------------------------------------------------------------------
(***************************************************************************)
(* So the theorems of MessagePort hold of both.                            *)
(***************************************************************************)
InThms == INSTANCE MessagePort_proofs
            WITH Listener <- InsideListener, MaxMessages <- MaxPosted,
                 started <- inStarted, queuedBeforeStarting <- inQueue,
                 listeners <- inListeners, draining <- inDraining,
                 calling <- inCalling, lastEmitted <- inLast,
                 abandoned <- inAbandoned, dispatched <- inDispatched,
                 received <- inReceived
OutThms == INSTANCE MessagePort_proofs
             WITH Listener <- OutsideListener, MaxMessages <- MaxPosts,
                  started <- outStarted, queuedBeforeStarting <- outQueue,
                  listeners <- outListeners, draining <- outDraining,
                  calling <- outCalling, lastEmitted <- outLast,
                  abandoned <- outAbandoned, dispatched <- outDispatched,
                  received <- outReceived

\* The inner port of the module is the one the theorems of MessagePort are
\* about.
LEMMA InIsPort ==
  /\ In!PortInit => InThms!PortInit
  /\ [In!PortNext]_(In!portVars) => [InThms!PortNext]_(InThms!portVars)
<1>1. In!PortInit => InThms!PortInit
  BY DEF In!PortInit, InThms!PortInit
<1>2. In!PortNext => InThms!PortNext
  BY
  DEF In!PortNext, InThms!PortNext, In!Emit, InThms!Emit, In!StartPort,
      InThms!StartPort, In!OnMessage, InThms!OnMessage, In!AddListener,
      InThms!AddListener, In!RemoveOnMessage, InThms!RemoveOnMessage,
      In!PortStep, InThms!PortStep, In!DrainNext, InThms!DrainNext,
      In!DrainDone, InThms!DrainDone, In!ListenerReturns,
      InThms!ListenerReturns, In!ListenerThrows, InThms!ListenerThrows,
      In!PortIdle, InThms!PortIdle, In!AppRuns, InThms!AppRuns, In!Start,
      InThms!Start, In!SuperEmit, InThms!SuperEmit, In!ShiftFirst,
      InThms!ShiftFirst, In!Heard, InThms!Heard, In!Splice, InThms!Splice,
      In!Last, InThms!Last, In!RemoveAt, InThms!RemoveAt, In!Contains,
      InThms!Contains
<1> QED BY <1>1, <1>2 DEF In!portVars, InThms!portVars

\* And so is the outer one.
LEMMA OutIsPort ==
  /\ Out!PortInit => OutThms!PortInit
  /\ [Out!PortNext]_(Out!portVars) => [OutThms!PortNext]_(OutThms!portVars)
<1>1. Out!PortInit => OutThms!PortInit
  BY DEF Out!PortInit, OutThms!PortInit
<1>2. Out!PortNext => OutThms!PortNext
  BY
  DEF Out!PortNext, OutThms!PortNext, Out!Emit, OutThms!Emit, Out!StartPort,
      OutThms!StartPort, Out!OnMessage, OutThms!OnMessage, Out!AddListener,
      OutThms!AddListener, Out!RemoveOnMessage, OutThms!RemoveOnMessage,
      Out!PortStep, OutThms!PortStep, Out!DrainNext, OutThms!DrainNext,
      Out!DrainDone, OutThms!DrainDone, Out!ListenerReturns,
      OutThms!ListenerReturns, Out!ListenerThrows, OutThms!ListenerThrows,
      Out!PortIdle, OutThms!PortIdle, Out!AppRuns, OutThms!AppRuns, Out!Start,
      OutThms!Start, Out!SuperEmit, OutThms!SuperEmit, Out!ShiftFirst,
      OutThms!ShiftFirst, Out!Heard, OutThms!Heard, Out!Splice, OutThms!Splice,
      Out!Last, OutThms!Last, Out!RemoveAt, OutThms!RemoveAt, Out!Contains,
      OutThms!Contains
<1> QED BY <1>1, <1>2 DEF Out!portVars, OutThms!portVars

\* The invariants of the mock and of both its ports, together.
LEMMA PortsInvariant ==
  MockSpec => [](/\ MockTypeOK /\ Counted
                 /\ InThms!PortInv /\ InThms!Unbroken
                 /\ OutThms!PortInv /\ OutThms!Unbroken)
<1>0. {MaxPosted, MaxPosts, MaxListeners} \subseteq Nat
  BY MockAssumption
<1>1. InThms!PortInit => InThms!PortInv /\ InThms!Unbroken
  BY <1>0, InThms!PortInvInit, InThms!UnbrokenInit
<1>2. InThms!PortInv /\ InThms!Unbroken /\ [InThms!PortNext]_(InThms!portVars)
        => InThms!PortInv' /\ InThms!Unbroken'
  BY <1>0, InThms!PortInvNext, InThms!UnbrokenNext
<1>3. OutThms!PortInit => OutThms!PortInv /\ OutThms!Unbroken
  BY <1>0, OutThms!PortInvInit, OutThms!UnbrokenInit
<1>4. OutThms!PortInv /\ OutThms!Unbroken /\ [OutThms!PortNext]_(OutThms!portVars)
        => OutThms!PortInv' /\ OutThms!Unbroken'
  BY <1>0, OutThms!PortInvNext, OutThms!UnbrokenNext
<1> QED
  BY <1>1, <1>2, <1>3, <1>4, TypesAtStart, TypesKept, CountedAtStart, CountedKept,
     MockPorts, InIsPort, OutIsPort, PTL
  DEF MockSpec

\* What an unbroken port and the callbacks for it hold is all that was sent.
LEMMA NothingLostThen ==
  ASSUME NEW to, NEW d \in Seq(Nat \ {0}), NEW q \in Seq(Nat \ {0}),
         NEW last, NEW sent \in Nat, last \in 0..sent,
         \A i \in 1..Len(d) : d[i] = i,
         \A i \in 1..Len(q) : q[i] = Len(d) + i,
         Len(d) + Len(q) = last,
         immediates \in Seq(Callback), Carries(immediates, to, last, sent)
  PROVE  NothingLost(to, d, q, sent)
<1>1. Len(d) \in Nat /\ Len(q) \in Nat /\ DOMAIN d = 1..Len(d) /\ DOMAIN q = 1..Len(q)
  BY LenProperties
<1>2. Follows(d, 0)
  <2>1. \A i \in 1..Len(d) : d[i] = 0 + i OBVIOUS
  <2>2. d = [i \in DOMAIN d |-> d[i]] BY SeqDef
  <2> QED BY <1>1, <2>1, <2>2 DEF Follows
<1>3. Follows(q, Len(d))
  <2>1. q = [i \in DOMAIN q |-> q[i]] BY SeqDef
  <2> QED BY <1>1, <2>1 DEF Follows
<1>4. Waiting(to, Len(d) + Len(q), sent) /\ Len(d) + Len(q) <= sent
  BY CarriesIsWaiting
<1> QED BY <1>2, <1>3, <1>4 DEF NothingLost

(***************************************************************************)
(* worker.postMessage of lib/mock.js loses, doubles and reorders nothing,  *)
(* for any number of messages and listeners, until a listener's exception  *)
(* unwinds start().                                                        *)
(***************************************************************************)
THEOREM MockInward == MockSpec => []NothingLostInward
<1>1. MockTypeOK /\ Counted /\ InThms!PortInv /\ InThms!Unbroken
        => NothingLostInward
  <2> SUFFICES ASSUME MockTypeOK, Counted, InThms!PortInv, InThms!Unbroken,
                      ~inAbandoned
               PROVE  NothingLost("in", inDispatched, inQueue, posted)
    BY DEF NothingLostInward
  <2>1. inDispatched \in Seq(Nat \ {0}) /\ inQueue \in Seq(Nat \ {0})
    BY DEF InThms!PortInv, InThms!PortTypeOK, InThms!Message
  <2>2. /\ posted \in Nat /\ inLast \in 0..posted /\ immediates \in Seq(Callback)
        /\ Carries(immediates, "in", inLast, posted)
    BY DEF MockTypeOK, Counted
  <2>3. /\ \A i \in 1..Len(inDispatched) : inDispatched[i] = i
        /\ \A i \in 1..Len(inQueue) : inQueue[i] = Len(inDispatched) + i
        /\ Len(inDispatched) + Len(inQueue) = inLast
    BY DEF InThms!Unbroken
  <2> QED BY <2>1, <2>2, <2>3, NothingLostThen
<1> QED BY <1>1, PortsInvariant, PTL

\* The same for SecureWorker.postMessage inside.
THEOREM MockOutward == MockSpec => []NothingLostOutward
<1>1. MockTypeOK /\ Counted /\ OutThms!PortInv /\ OutThms!Unbroken
        => NothingLostOutward
  <2> SUFFICES ASSUME MockTypeOK, Counted, OutThms!PortInv, OutThms!Unbroken,
                      ~outAbandoned
               PROVE  NothingLost("out", outDispatched, outQueue, posts)
    BY DEF NothingLostOutward
  <2>1. outDispatched \in Seq(Nat \ {0}) /\ outQueue \in Seq(Nat \ {0})
    BY DEF OutThms!PortInv, OutThms!PortTypeOK, OutThms!Message
  <2>2. /\ posts \in Nat /\ outLast \in 0..posts /\ immediates \in Seq(Callback)
        /\ Carries(immediates, "out", outLast, posts)
    BY DEF MockTypeOK, Counted
  <2>3. /\ \A i \in 1..Len(outDispatched) : outDispatched[i] = i
        /\ \A i \in 1..Len(outQueue) : outQueue[i] = Len(outDispatched) + i
        /\ Len(outDispatched) + Len(outQueue) = outLast
    BY DEF OutThms!Unbroken
  <2> QED BY <2>1, <2>2, <2>3, NothingLostThen
<1> QED BY <1>1, PortsInvariant, PTL

(***************************************************************************)
(* Between a worker of lib/mock.js and its application no listener, on     *)
(* either side, hears an earlier message after a later one, even when      *)
(* listeners throw.                                                        *)
(***************************************************************************)
THEOREM MockHeardInOrder == MockSpec => [](In!HeardInOrder /\ Out!HeardInOrder)
<1>1. InThms!PortInv => In!HeardInOrder
  BY DEF InThms!PortInv, InThms!HeardInOrder, In!HeardInOrder
<1>2. OutThms!PortInv => Out!HeardInOrder
  BY DEF OutThms!PortInv, OutThms!HeardInOrder, Out!HeardInOrder
<1> QED BY <1>1, <1>2, PortsInvariant, PTL

(***************************************************************************)
(* And even then no message of the two ports is dispatched twice or both   *)
(* queued and dispatched.                                                  *)
(***************************************************************************)
THEOREM MockExactlyOnce == MockSpec => [](In!ExactlyOnce /\ Out!ExactlyOnce)
<1>0. {MaxPosted, MaxPosts, MaxListeners} \subseteq Nat
  BY MockAssumption
<1>1. InThms!PortInv => InThms!ExactlyOnce
  BY <1>0, InThms!ExactlyOnceFromInv
<1>2. OutThms!PortInv => OutThms!ExactlyOnce
  BY <1>0, OutThms!ExactlyOnceFromInv
<1>3. InThms!ExactlyOnce => In!ExactlyOnce
  BY DEF InThms!ExactlyOnce, In!ExactlyOnce, InThms!Increasing, In!Increasing,
     InThms!InSeq, In!InSeq
<1>4. OutThms!ExactlyOnce => Out!ExactlyOnce
  BY DEF OutThms!ExactlyOnce, Out!ExactlyOnce, OutThms!Increasing,
     Out!Increasing, OutThms!InSeq, Out!InSeq
<1> QED BY <1>1, <1>2, <1>3, <1>4, PortsInvariant, PTL
=============================================================================

------------------------- MODULE MessagePort_proofs -------------------------
(***************************************************************************)
(* Theorems of MessagePort for every set of listeners and every bound.     *)
(***************************************************************************)
EXTENDS MessagePort, SequenceTheorems, TLAPS

(***************************************************************************)
(* The inductive invariant.  Order between the queue and the dispatched    *)
(* messages holds only until start() has left its loop: what a throwing    *)
(* listener strands is older than what is dispatched directly later.       *)
(***************************************************************************)
Numbered == \A s \in {queuedBeforeStarting, dispatched} :
              \A i \in DOMAIN s : s[i] <= lastEmitted

NoneMissing == \A m \in 1..lastEmitted :
                 InSeq(m, dispatched) \/ InSeq(m, queuedBeforeStarting)

Disjoint == \A i \in DOMAIN dispatched, j \in DOMAIN queuedBeforeStarting :
              dispatched[i] # queuedBeforeStarting[j]

Before == (~started \/ draining) =>
            \A i \in DOMAIN dispatched, j \in DOMAIN queuedBeforeStarting :
              dispatched[i] < queuedBeforeStarting[j]

QuietUntilStarted == ~started => ~draining /\ dispatched = <<>>

CallingHasMessage == calling # <<>> => dispatched # <<>>

HeardAreDispatched == \A l \in Listener : \A i \in DOMAIN received[l] :
                        dispatched # <<>> /\ received[l][i] <= Last(dispatched)

PortInv ==
  /\ PortTypeOK
  /\ Increasing(queuedBeforeStarting)
  /\ Increasing(dispatched)
  /\ Numbered
  /\ NoneMissing
  /\ Disjoint
  /\ Before
  /\ QuietUntilStarted
  /\ CallingHasMessage
  /\ HeardAreDispatched
  /\ HeardInOrder
  /\ StrandedOnlyByThrow

-----------------------------------------------------------------------------
\* Lemmas about sequences.

\* Appending an element: indices, elements and the last one.
LEMMA AppendFacts ==
  ASSUME NEW S, NEW s \in Seq(S), NEW e \in S
  PROVE  /\ Append(s, e) \in Seq(S)
         /\ Append(s, e) # <<>>
         /\ DOMAIN s = 1..Len(s)
         /\ Len(s) \in Nat
         /\ DOMAIN Append(s, e) = 1..(Len(s) + 1)
         /\ \A i \in 1..Len(s) : Append(s, e)[i] = s[i]
         /\ Append(s, e)[Len(s) + 1] = e
         /\ Last(Append(s, e)) = e
  BY AppendProperties, LenProperties DEF Last

\* Taking the head off a sequence that is not empty.
LEMMA ShiftFacts ==
  ASSUME NEW S, NEW s \in Seq(S), s # <<>>
  PROVE  /\ ShiftFirst(s).message = s[1]
         /\ ShiftFirst(s).left = Tail(s)
         /\ s[1] \in S
         /\ Tail(s) \in Seq(S)
         /\ Len(s) \in Nat \ {0}
         /\ DOMAIN s = 1..Len(s)
         /\ DOMAIN Tail(s) = 1..(Len(s) - 1)
         /\ \A i \in 1..(Len(s) - 1) : Tail(s)[i] = s[i + 1]
<1>1. Len(s) \in Nat \ {0} BY EmptySeq
<1>2. DOMAIN s = 1..Len(s) BY LenProperties
<1>3. s[1] \in S BY <1>1, ElementOfSeq
<1>4. Tail(s) \in Seq(S) /\ Len(Tail(s)) = Len(s) - 1
      /\ \A i \in 1..Len(Tail(s)) : Tail(s)[i] = s[i + 1]
  BY HeadTailProperties
<1>5. DOMAIN Tail(s) = 1..Len(Tail(s)) BY <1>4, LenProperties
<1>6. ShiftFirst(s).message = s[1] /\ ShiftFirst(s).left = Tail(s)
  BY DEF ShiftFirst
<1> QED BY <1>1, <1>2, <1>3, <1>4, <1>5, <1>6

\* Removing one element of a sequence leaves a sequence over the same set.
LEMMA SpliceType ==
  ASSUME NEW S, NEW s \in Seq(S), NEW i \in DOMAIN s
  PROVE  Splice(s, i) \in Seq(S)
<1>1. Len(s) \in Nat /\ DOMAIN s = 1..Len(s) /\ \A j \in 1..Len(s) : s[j] \in S
  BY LenProperties, ElementOfSeq
<1>2. i \in Nat /\ i - 1 \in Int /\ i + 1 \in Int /\ 1 \in Int /\ Len(s) \in Int
  BY <1>1
<1>3. SubSeq(s, 1, i - 1) \in Seq(S)
  <2>1. \A j \in 1..(i - 1) : s[j] \in S BY <1>1
  <2> QED BY <1>2, <2>1, SubSeqProperties
<1>4. SubSeq(s, i + 1, Len(s)) \in Seq(S)
  <2>1. \A j \in (i + 1)..Len(s) : s[j] \in S BY <1>1
  <2> QED BY <1>2, <2>1, SubSeqProperties
<1>5. SubSeq(s, 1, i - 1) \o SubSeq(s, i + 1, Len(s)) \in Seq(S)
  BY <1>3, <1>4, ConcatProperties
<1> QED BY <1>5 DEF Splice, RemoveAt

\* A sequence of numbers grows by a larger one, and loses its first.
LEMMA IncreasingAppend ==
  ASSUME NEW s \in Seq(Message), NEW e \in Message, Increasing(s),
         \A i \in DOMAIN s : s[i] < e
  PROVE  Increasing(Append(s, e))
  BY AppendFacts DEF Increasing, Message

\* What is left of a growing queue grows, and its head is older than all of it.
LEMMA IncreasingTail ==
  ASSUME NEW s \in Seq(Message), s # <<>>, Increasing(s)
  PROVE  /\ Increasing(Tail(s))
         /\ \A i \in DOMAIN Tail(s) : s[1] < Tail(s)[i]
<1>1. /\ Len(s) \in Nat \ {0} /\ DOMAIN s = 1..Len(s)
      /\ DOMAIN Tail(s) = 1..(Len(s) - 1)
      /\ \A i \in 1..(Len(s) - 1) : Tail(s)[i] = s[i + 1]
  BY ShiftFacts
<1>2. \A i, j \in 1..Len(s) : i < j => s[i] < s[j] BY <1>1 DEF Increasing
<1>3. \A i \in 1..(Len(s) - 1) : i + 1 \in 1..Len(s) /\ 1 < i + 1 /\ 1 \in 1..Len(s)
  BY <1>1
<1>4. \A i \in DOMAIN Tail(s) : s[1] < Tail(s)[i] BY <1>1, <1>2, <1>3
<1>5. ASSUME NEW i \in DOMAIN Tail(s), NEW j \in DOMAIN Tail(s), i < j
      PROVE  Tail(s)[i] < Tail(s)[j]
  <2>1. i + 1 \in 1..Len(s) /\ j + 1 \in 1..Len(s) /\ i + 1 < j + 1
    BY <1>1, <1>5
  <2>2. Tail(s)[i] = s[i + 1] /\ Tail(s)[j] = s[j + 1] BY <1>1
  <2> QED BY <1>2, <2>1, <2>2
<1> QED BY <1>4, <1>5 DEF Increasing

\* Membership in a sequence that grows, and in one that is shifted.
LEMMA InSeqAppend ==
  ASSUME NEW S, NEW s \in Seq(S), NEW e \in S, NEW m
  PROVE  InSeq(m, Append(s, e)) <=> InSeq(m, s) \/ m = e
<1>1. ASSUME InSeq(m, s) PROVE InSeq(m, Append(s, e))
  BY <1>1, AppendFacts DEF InSeq
<1>2. InSeq(e, Append(s, e))
  BY AppendFacts DEF InSeq
<1>3. ASSUME InSeq(m, Append(s, e)) PROVE InSeq(m, s) \/ m = e
  BY <1>3, AppendFacts DEF InSeq
<1> QED BY <1>1, <1>2, <1>3

\* A message of the queue is at its head or behind it.
LEMMA InSeqTail ==
  ASSUME NEW S, NEW s \in Seq(S), s # <<>>, NEW m
  PROVE  InSeq(m, s) => m = s[1] \/ InSeq(m, Tail(s))
<1> SUFFICES ASSUME NEW i \in DOMAIN s, s[i] = m, i # 1
             PROVE  InSeq(m, Tail(s))
  BY DEF InSeq
<1>1. i - 1 \in 1..(Len(s) - 1) /\ Tail(s)[i - 1] = s[(i - 1) + 1]
  BY ShiftFacts
<1>2. (i - 1) + 1 = i BY ShiftFacts
<1>3. i - 1 \in DOMAIN Tail(s) /\ Tail(s)[i - 1] = m
  BY <1>1, <1>2, ShiftFacts
<1> QED BY <1>3 DEF InSeq

-----------------------------------------------------------------------------
\* The invariant holds at the start.
LEMMA PortInvInit == PortInit => PortInv
<1> SUFFICES ASSUME PortInit PROVE PortInv OBVIOUS
<1> USE DEF PortInit
<1>1. PortTypeOK BY EmptySeq DEF PortTypeOK
<1>2. DOMAIN dispatched = {} /\ DOMAIN queuedBeforeStarting = {}
      /\ 1..lastEmitted = {} /\ \A l \in Listener : DOMAIN received[l] = {}
  OBVIOUS
<1> QED BY <1>1, <1>2 DEF PortInv, Increasing, Numbered, NoneMissing, Disjoint,
     Before, QuietUntilStarted, CallingHasMessage, HeardAreDispatched,
     HeardInOrder, StrandedOnlyByThrow

(***************************************************************************)
(* Each action preserves the invariant.  Emit appends a number larger than *)
(* any so far, to one of the two sequences; the loop moves the smallest    *)
(* queued number to the end of the dispatched ones.                        *)
(***************************************************************************)
LEMMA EmitPreserves ==
  ASSUME PortInv, Emit(lastEmitted + 1)
  PROVE  PortInv'
<1> DEFINE m == lastEmitted + 1
<1>1. PortTypeOK /\ m \in Message /\ lastEmitted \in Nat /\ lastEmitted' = m
  BY DEF PortInv, PortTypeOK, Message, Emit
<1>2. queuedBeforeStarting \in Seq(Message) /\ dispatched \in Seq(Message)
  BY <1>1 DEF PortTypeOK
<1>3. \A s \in {queuedBeforeStarting, dispatched} : \A i \in DOMAIN s :
        s[i] \in Nat /\ s[i] < m /\ s[i] <= m /\ s[i] # m
  <2>1. \A s \in {queuedBeforeStarting, dispatched} : \A i \in DOMAIN s : s[i] \in Nat
    BY <1>2, LenProperties, ElementOfSeq DEF Message
  <2> QED BY <1>1, <2>1 DEF PortInv, Numbered
<1>4. CASE ~started
  <2>1. queuedBeforeStarting' = Append(queuedBeforeStarting, m)
        /\ UNCHANGED <<started, listeners, draining, abandoned, calling, dispatched, received>>
    BY <1>4 DEF Emit
  <2>2. dispatched = <<>> /\ DOMAIN dispatched = {}
    BY <1>4 DEF PortInv, QuietUntilStarted
  <2>3. PortTypeOK'
    BY <1>1, <1>2, <2>1, AppendFacts DEF PortTypeOK
  <2>4. Increasing(queuedBeforeStarting)'
    BY <1>1, <1>2, <1>3, <2>1, IncreasingAppend DEF PortInv
  <2>5. Numbered'
    <3>1. ASSUME NEW i \in DOMAIN queuedBeforeStarting'
          PROVE  queuedBeforeStarting'[i] <= m
      <4>1. /\ DOMAIN queuedBeforeStarting = 1..Len(queuedBeforeStarting)
            /\ Len(queuedBeforeStarting) \in Nat
            /\ DOMAIN queuedBeforeStarting' = 1..(Len(queuedBeforeStarting) + 1)
            /\ \A j \in 1..Len(queuedBeforeStarting) :
                 queuedBeforeStarting'[j] = queuedBeforeStarting[j]
            /\ queuedBeforeStarting'[Len(queuedBeforeStarting) + 1] = m
        BY <1>1, <1>2, <2>1, AppendFacts
      <4>2. CASE i \in 1..Len(queuedBeforeStarting) BY <1>3, <4>1, <4>2
      <4>3. CASE i = Len(queuedBeforeStarting) + 1 BY <1>1, <4>1, <4>3 DEF Message
      <4> QED BY <3>1, <4>1, <4>2, <4>3
    <3>2. DOMAIN dispatched' = {} BY <2>1, <2>2
    <3> QED BY <1>1, <3>1, <3>2 DEF Numbered
  <2>6. NoneMissing'
    BY <1>1, <1>2, <2>1, InSeqAppend DEF PortInv, NoneMissing
  <2>7. (Disjoint /\ Before /\ QuietUntilStarted)'
    BY <2>1, <2>2 DEF PortInv, Disjoint, Before, QuietUntilStarted
  <2>8. (Increasing(dispatched) /\ CallingHasMessage /\ HeardAreDispatched
         /\ HeardInOrder)'
    BY <2>1 DEF PortInv, CallingHasMessage, HeardAreDispatched, HeardInOrder
  <2>9. StrandedOnlyByThrow'
    BY <1>4, <2>1 DEF StrandedOnlyByThrow
  <2> QED BY <2>3, <2>4, <2>5, <2>6, <2>7, <2>8, <2>9 DEF PortInv
<1>5. CASE started
  <2>1. /\ dispatched' = Append(dispatched, m) /\ calling' = listeners
        /\ UNCHANGED <<started, queuedBeforeStarting, listeners, draining, abandoned, received>>
        /\ ~draining
    BY <1>5 DEF Emit, SuperEmit, PortIdle
  <2>2. /\ DOMAIN dispatched = 1..Len(dispatched) /\ Len(dispatched) \in Nat
        /\ DOMAIN dispatched' = 1..(Len(dispatched) + 1)
        /\ \A i \in 1..Len(dispatched) : dispatched'[i] = dispatched[i]
        /\ dispatched'[Len(dispatched) + 1] = m
        /\ Last(dispatched)' = m /\ dispatched' # <<>>
        /\ dispatched' \in Seq(Message)
    BY <1>1, <1>2, <2>1, AppendFacts DEF Last
  <2>3. PortTypeOK'
    BY <1>1, <2>1, <2>2 DEF PortTypeOK, Message
  <2>4. Increasing(dispatched)'
    BY <1>1, <1>2, <1>3, <2>1, IncreasingAppend DEF PortInv
  <2>5. Numbered'
    <3>1. \A i \in DOMAIN dispatched' : dispatched'[i] <= m
      BY <1>1, <1>3, <2>2 DEF Message
    <3>2. \A i \in DOMAIN queuedBeforeStarting : queuedBeforeStarting[i] <= m
      BY <1>3
    <3> QED BY <1>1, <2>1, <3>1, <3>2 DEF Numbered
  <2>6. NoneMissing'
    BY <1>1, <1>2, <2>1, InSeqAppend DEF PortInv, NoneMissing
  <2>7. Disjoint'
    <3> SUFFICES ASSUME NEW i \in DOMAIN dispatched', NEW j \in DOMAIN queuedBeforeStarting
                 PROVE  dispatched'[i] # queuedBeforeStarting[j]
      BY <2>1 DEF Disjoint
    <3>1. CASE i \in DOMAIN dispatched
      BY <2>2, <3>1 DEF PortInv, Disjoint
    <3>2. CASE i = Len(dispatched) + 1
      BY <1>3, <2>2, <3>2
    <3> QED BY <2>2, <3>1, <3>2
  <2>8. (Increasing(queuedBeforeStarting) /\ Before /\ QuietUntilStarted
         /\ CallingHasMessage /\ HeardInOrder /\ StrandedOnlyByThrow)'
    BY <1>5, <2>1, <2>2 DEF PortInv, Before, QuietUntilStarted, CallingHasMessage,
       HeardInOrder, StrandedOnlyByThrow
  <2>9. HeardAreDispatched'
    <3> SUFFICES ASSUME NEW l \in Listener, NEW i \in DOMAIN received[l]
                 PROVE  received[l][i] <= m
      BY <2>1, <2>2 DEF HeardAreDispatched
    <3>1. received[l][i] <= Last(dispatched) /\ dispatched # <<>>
      BY DEF PortInv, HeardAreDispatched
    <3>2. Last(dispatched) \in Nat /\ Last(dispatched) < m
      <4>1. Len(dispatched) \in DOMAIN dispatched
        BY <1>2, <2>2, <3>1, EmptySeq
      <4> QED BY <1>3, <4>1 DEF Last
    <3>3. received[l][i] \in Nat
      BY <1>1, LenProperties, ElementOfSeq DEF PortTypeOK, Message
    <3> QED BY <1>1, <3>1, <3>2, <3>3
  <2> QED BY <2>3, <2>4, <2>5, <2>6, <2>7, <2>8, <2>9 DEF PortInv
<1> QED BY <1>4, <1>5

\* A turn of start()'s loop moves the head of the queue to the listeners.
LEMMA DrainNextPreserves ==
  ASSUME PortInv, DrainNext
  PROVE  PortInv'
<1> DEFINE q == queuedBeforeStarting
           m == queuedBeforeStarting[1]
<1>1. /\ PortTypeOK /\ q \in Seq(Message) /\ dispatched \in Seq(Message)
      /\ q # <<>> /\ draining /\ started /\ lastEmitted \in Nat
  BY DEF PortInv, PortTypeOK, DrainNext, QuietUntilStarted
<1>2. /\ m \in Message /\ m \in Nat /\ Tail(q) \in Seq(Message)
      /\ Len(q) \in Nat \ {0} /\ DOMAIN q = 1..Len(q)
      /\ DOMAIN Tail(q) = 1..(Len(q) - 1)
      /\ \A i \in 1..(Len(q) - 1) : Tail(q)[i] = q[i + 1]
      /\ ShiftFirst(q).message = m /\ ShiftFirst(q).left = Tail(q)
  BY <1>1, ShiftFacts DEF Message
<1>3. /\ dispatched' = Append(dispatched, m) /\ calling' = listeners
      /\ queuedBeforeStarting' = Tail(q)
      /\ UNCHANGED <<started, listeners, draining, lastEmitted, abandoned, received>>
  BY <1>2 DEF DrainNext, SuperEmit
<1>4. /\ DOMAIN dispatched = 1..Len(dispatched) /\ Len(dispatched) \in Nat
      /\ DOMAIN dispatched' = 1..(Len(dispatched) + 1)
      /\ \A i \in 1..Len(dispatched) : dispatched'[i] = dispatched[i]
      /\ dispatched'[Len(dispatched) + 1] = m
      /\ Last(dispatched)' = m /\ dispatched' # <<>>
      /\ dispatched' \in Seq(Message)
  BY <1>1, <1>2, <1>3, AppendFacts DEF Last
<1>5. /\ \A i \in DOMAIN dispatched : dispatched[i] \in Nat
      /\ \A i \in DOMAIN q : q[i] \in Nat
  BY <1>1, LenProperties, ElementOfSeq DEF Message
<1>6. \A i \in DOMAIN dispatched, j \in DOMAIN q : dispatched[i] < q[j]
  BY <1>1 DEF PortInv, Before
<1>7. \A i \in DOMAIN dispatched : dispatched[i] < m
  BY <1>2, <1>6
<1>8. \A j \in DOMAIN Tail(q) : m < Tail(q)[j] /\ \E k \in DOMAIN q : Tail(q)[j] = q[k]
  <2>1. Increasing(q) BY DEF PortInv
  <2>2. \A j \in DOMAIN Tail(q) : j + 1 \in DOMAIN q BY <1>2
  <2> QED BY <1>1, <1>2, <2>1, <2>2, IncreasingTail
<1>9. PortTypeOK'
  BY <1>1, <1>2, <1>3, <1>4 DEF PortTypeOK
<1>10. Increasing(queuedBeforeStarting)'
  BY <1>1, <1>3, IncreasingTail DEF PortInv
<1>11. Increasing(dispatched)'
  BY <1>1, <1>2, <1>3, <1>7, IncreasingAppend DEF PortInv
<1>12. Numbered'
  <2>1. m <= lastEmitted
    BY <1>2 DEF PortInv, Numbered
  <2>2. \A i \in DOMAIN dispatched' : dispatched'[i] <= lastEmitted
    BY <1>4, <2>1 DEF PortInv, Numbered
  <2>3. \A i \in DOMAIN Tail(q) : Tail(q)[i] <= lastEmitted
    BY <1>8 DEF PortInv, Numbered
  <2> QED BY <1>3, <2>2, <2>3 DEF Numbered
<1>13. NoneMissing'
  <2> SUFFICES ASSUME NEW n \in 1..lastEmitted
               PROVE  InSeq(n, Append(dispatched, m)) \/ InSeq(n, Tail(q))
    BY <1>3 DEF NoneMissing
  <2>1. InSeq(n, dispatched) \/ InSeq(n, q)
    BY DEF PortInv, NoneMissing
  <2> QED BY <1>1, <1>2, <2>1, InSeqAppend, InSeqTail
<1>14. (Disjoint /\ Before)'
  <2>1. \A i \in DOMAIN dispatched', j \in DOMAIN Tail(q) : dispatched'[i] < Tail(q)[j]
    <3> SUFFICES ASSUME NEW i \in DOMAIN dispatched', NEW j \in DOMAIN Tail(q)
                 PROVE  dispatched'[i] < Tail(q)[j]
      OBVIOUS
    <3>1. CASE i \in DOMAIN dispatched BY <1>4, <1>6, <1>8, <3>1
    <3>2. CASE i = Len(dispatched) + 1 BY <1>4, <1>8, <3>2
    <3> QED BY <1>4, <3>1, <3>2
  <2>2. \A i \in DOMAIN dispatched' : dispatched'[i] \in Nat
    BY <1>2, <1>4, <1>5
  <2>3. \A j \in DOMAIN Tail(q) : Tail(q)[j] \in Nat
    BY <1>5, <1>8
  <2> QED BY <1>3, <2>1, <2>2, <2>3 DEF Disjoint, Before
<1>15. (QuietUntilStarted /\ CallingHasMessage /\ HeardInOrder
        /\ StrandedOnlyByThrow)'
  BY <1>1, <1>3, <1>4 DEF PortInv, QuietUntilStarted, CallingHasMessage,
     HeardInOrder, StrandedOnlyByThrow
<1>16. HeardAreDispatched'
  <2> SUFFICES ASSUME NEW l \in Listener, NEW i \in DOMAIN received[l]
               PROVE  received[l][i] <= m
    BY <1>3, <1>4 DEF HeardAreDispatched
  <2>1. received[l][i] <= Last(dispatched) /\ dispatched # <<>>
    BY DEF PortInv, HeardAreDispatched
  <2>2. Len(dispatched) \in DOMAIN dispatched
    BY <1>1, <1>4, <2>1, EmptySeq
  <2>3. Last(dispatched) \in Nat /\ Last(dispatched) < m
    BY <1>5, <1>7, <2>2 DEF Last
  <2>4. received[l][i] \in Nat
    BY <1>1, LenProperties, ElementOfSeq DEF PortTypeOK, Message
  <2> QED BY <1>2, <2>1, <2>3, <2>4
<1> QED BY <1>9, <1>10, <1>11, <1>12, <1>13, <1>14, <1>15, <1>16 DEF PortInv

\* A listener hears the last dispatched message: nothing it heard is newer.
LEMMA HeardPreserves ==
  ASSUME PortInv, NEW l \in Listener, Heard(l), calling # <<>>, UNCHANGED dispatched
  PROVE  /\ received' \in [Listener -> Seq(Message)]
         /\ HeardAreDispatched'
         /\ HeardInOrder'
<1> DEFINE m == Last(dispatched)
<1>1. /\ received \in [Listener -> Seq(Message)] /\ dispatched \in Seq(Message)
      /\ dispatched # <<>>
  BY DEF PortInv, PortTypeOK, CallingHasMessage
<1>2. m \in Message /\ m \in Nat
  BY <1>1, EmptySeq, ElementOfSeq DEF Last, Message
<1>3. received' = [received EXCEPT ![l] = Append(received[l], m)]
  BY DEF Heard
<1>4. /\ received[l] \in Seq(Message)
      /\ received'[l] = Append(received[l], m)
      /\ \A k \in Listener \ {l} : received'[k] = received[k]
  BY <1>1, <1>3
<1>5. /\ received'[l] \in Seq(Message)
      /\ DOMAIN received[l] = 1..Len(received[l]) /\ Len(received[l]) \in Nat
      /\ DOMAIN received'[l] = 1..(Len(received[l]) + 1)
      /\ \A i \in 1..Len(received[l]) : received'[l][i] = received[l][i]
      /\ received'[l][Len(received[l]) + 1] = m
  BY <1>2, <1>4, AppendFacts
<1>6. \A k \in Listener : \A i \in DOMAIN received[k] : received[k][i] <= m
  BY DEF PortInv, HeardAreDispatched
<1>7. received' \in [Listener -> Seq(Message)]
  BY <1>1, <1>3, <1>5, <1>4
<1>8. HeardAreDispatched'
  <2>1. \A k \in Listener : \A i \in DOMAIN received'[k] : received'[k][i] <= m
    <3> SUFFICES ASSUME NEW k \in Listener, NEW i \in DOMAIN received'[k]
                 PROVE  received'[k][i] <= m
      OBVIOUS
    <3>1. CASE k # l BY <1>4, <1>6, <3>1
    <3>2. CASE k = l /\ i \in 1..Len(received[l]) BY <1>5, <1>6, <3>2
    <3>3. CASE k = l /\ i = Len(received[l]) + 1 BY <1>2, <1>5, <3>3
    <3> QED BY <1>5, <3>1, <3>2, <3>3
  <2> QED BY <1>1, <2>1 DEF HeardAreDispatched
<1>9. HeardInOrder'
  <2> SUFFICES ASSUME NEW k \in Listener, NEW i \in DOMAIN received'[k],
                      NEW j \in DOMAIN received'[k], i < j
               PROVE  received'[k][i] <= received'[k][j]
    BY DEF HeardInOrder
  <2>1. CASE k # l
    BY <1>4, <2>1 DEF PortInv, HeardInOrder
  <2>2. CASE k = l /\ j \in DOMAIN received[l]
    <3>1. i \in DOMAIN received[l] BY <1>5, <2>2
    <3> QED BY <1>5, <2>2, <3>1 DEF PortInv, HeardInOrder
  <2>3. CASE k = l /\ j = Len(received[l]) + 1
    <3>1. i \in DOMAIN received[l] BY <1>5, <2>3
    <3> QED BY <1>5, <1>6, <2>3, <3>1
  <2> QED BY <1>5, <2>1, <2>2, <2>3
<1> QED BY <1>7, <1>8, <1>9

\* The variables the other actions leave alone carry these conjuncts over.
Kept == UNCHANGED <<queuedBeforeStarting, dispatched, lastEmitted>>

\* What a step that neither emits nor dispatches leaves alone.
LEMMA KeptPreserves ==
  ASSUME PortInv, Kept
  PROVE  /\ (queuedBeforeStarting \in Seq(Message) /\ dispatched \in Seq(Message)
             /\ lastEmitted \in Nat)'
         /\ (Increasing(queuedBeforeStarting) /\ Increasing(dispatched)
             /\ Numbered /\ NoneMissing /\ Disjoint)'
  BY DEF PortInv, PortTypeOK, Kept, Numbered, NoneMissing, Disjoint

\* Registering and removing listeners, and leaving the loop.
LEMMA StartPreserves ==
  ASSUME PortInv, StartPort \/ \E l \in Listener : OnMessage(l)
  PROVE  PortInv'
<1>1. Kept /\ UNCHANGED <<calling, abandoned, received>> /\ started' = TRUE
      /\ draining' = (draining \/ ~started)
  BY DEF StartPort, OnMessage, Start, Kept
<1>2. PortTypeOK'
  <2>1. listeners' \in Seq(Listener)
    <3>1. listeners \in Seq(Listener) BY DEF PortInv, PortTypeOK
    <3>2. CASE StartPort BY <3>1, <3>2 DEF StartPort
    <3>3. CASE \E l \in Listener : OnMessage(l)
      BY <3>1, <3>3, AppendFacts DEF OnMessage
    <3> QED BY <3>2, <3>3
  <2>2. draining' \in BOOLEAN BY <1>1 DEF PortInv, PortTypeOK
  <2> QED BY <1>1, <2>1, <2>2, KeptPreserves DEF PortInv, PortTypeOK
<1>3. (Before /\ QuietUntilStarted /\ CallingHasMessage /\ HeardAreDispatched
       /\ HeardInOrder)'
  BY <1>1 DEF PortInv, Kept, Before, QuietUntilStarted, CallingHasMessage,
     HeardAreDispatched, HeardInOrder
<1>4. StrandedOnlyByThrow'
  BY <1>1 DEF PortInv, PortTypeOK, Kept, StrandedOnlyByThrow
<1> QED BY <1>1, <1>2, <1>3, <1>4, KeptPreserves DEF PortInv

\* A listener comes or goes.
LEMMA ListenersChangePreserves ==
  ASSUME PortInv, NEW l \in Listener, AddListener(l) \/ RemoveOnMessage(l)
  PROVE  PortInv'
<1>1. Kept /\ UNCHANGED <<started, draining, calling, abandoned, received>>
  BY DEF AddListener, RemoveOnMessage, Kept
<1>2. listeners' \in Seq(Listener)
  <2>1. listeners \in Seq(Listener) BY DEF PortInv, PortTypeOK
  <2>2. CASE AddListener(l) BY <2>1, <2>2, AppendFacts DEF AddListener
  <2>3. CASE RemoveOnMessage(l) BY <2>1, <2>3, SpliceType DEF RemoveOnMessage
  <2> QED BY <2>2, <2>3
<1>3. PortTypeOK'
  BY <1>1, <1>2, KeptPreserves DEF PortInv, PortTypeOK
<1> QED BY <1>1, <1>3, KeptPreserves DEF PortInv, Kept, Before,
     QuietUntilStarted, CallingHasMessage, HeardAreDispatched, HeardInOrder,
     StrandedOnlyByThrow

\* start()'s loop ends on an empty queue.
LEMMA DrainDonePreserves ==
  ASSUME PortInv, DrainDone
  PROVE  PortInv'
<1>1. Kept /\ UNCHANGED <<started, listeners, calling, abandoned, received>>
      /\ draining' = FALSE /\ draining /\ queuedBeforeStarting = <<>>
  BY DEF DrainDone, Kept
<1>2. PortTypeOK'
  BY <1>1, KeptPreserves DEF PortInv, PortTypeOK
<1> QED BY <1>1, <1>2, KeptPreserves DEF PortInv, Kept, Before,
     QuietUntilStarted, CallingHasMessage, HeardAreDispatched, HeardInOrder,
     StrandedOnlyByThrow

\* A listener that returns, and one that throws.
LEMMA ListenerEndsPreserves ==
  ASSUME PortInv, ListenerReturns \/ ListenerThrows
  PROVE  PortInv'
<1>1. Kept /\ UNCHANGED <<started, listeners>> /\ calling # <<>>
      /\ Heard(Head(calling))
  BY DEF ListenerReturns, ListenerThrows, Kept
<1>2. Head(calling) \in Listener /\ Tail(calling) \in Seq(Listener)
  BY <1>1, HeadTailProperties DEF PortInv, PortTypeOK
<1>3. calling' \in Seq(Listener) /\ draining' \in BOOLEAN /\ abandoned' \in BOOLEAN
  BY <1>2, EmptySeq DEF ListenerReturns, ListenerThrows, PortInv, PortTypeOK
<1>4. received' \in [Listener -> Seq(Message)] /\ (HeardAreDispatched /\ HeardInOrder)'
  <2>1. UNCHANGED dispatched BY <1>1 DEF Kept
  <2> QED BY <1>1, <1>2, <2>1, HeardPreserves
<1>5. PortTypeOK'
  BY <1>1, <1>3, <1>4, KeptPreserves DEF PortInv, PortTypeOK
<1>6. CallingHasMessage'
  BY <1>1 DEF PortInv, CallingHasMessage, Kept
<1>7. CASE ListenerReturns
  <2>1. UNCHANGED <<draining, abandoned>> BY <1>7 DEF ListenerReturns
  <2> QED BY <1>1, <1>4, <1>5, <1>6, <2>1, KeptPreserves DEF PortInv, Kept, Before,
       QuietUntilStarted, StrandedOnlyByThrow
<1>8. CASE ListenerThrows
  <2>1. draining' = FALSE /\ started /\ abandoned' = (abandoned \/ draining)
    BY <1>1, <1>8 DEF ListenerThrows, PortInv, QuietUntilStarted, CallingHasMessage
  <2> QED BY <1>1, <1>4, <1>5, <1>6, <2>1, KeptPreserves DEF PortInv, Kept, Before,
       QuietUntilStarted, StrandedOnlyByThrow
<1> QED BY <1>7, <1>8

\* Every step of the port keeps the invariant.
LEMMA PortInvNext == PortInv /\ [PortNext]_portVars => PortInv'
<1> SUFFICES ASSUME PortInv, [PortNext]_portVars PROVE PortInv'
  OBVIOUS
<1>1. CASE Emit(lastEmitted + 1)
  BY <1>1, EmitPreserves
<1>2. CASE StartPort \/ \E l \in Listener : OnMessage(l)
  BY <1>2, StartPreserves
<1>3. CASE \E l \in Listener : AddListener(l) \/ RemoveOnMessage(l)
  BY <1>3, ListenersChangePreserves
<1>4. CASE DrainNext
  BY <1>4, DrainNextPreserves
<1>5. CASE DrainDone
  BY <1>5, DrainDonePreserves
<1>6. CASE ListenerReturns \/ ListenerThrows
  BY <1>6, ListenerEndsPreserves
<1>7. CASE UNCHANGED portVars
  BY <1>7 DEF portVars, PortInv, PortTypeOK, Numbered, NoneMissing, Disjoint,
     Before, QuietUntilStarted, CallingHasMessage, HeardAreDispatched,
     HeardInOrder, StrandedOnlyByThrow
<1> QED BY <1>1, <1>2, <1>3, <1>4, <1>5, <1>6, <1>7 DEF PortNext, PortStep

-----------------------------------------------------------------------------
(***************************************************************************)
(* Until an exception unwinds start(), the messages dispatched and those   *)
(* in the queue are, in this order, all that were emitted.                 *)
(***************************************************************************)
Unbroken ==
  ~abandoned =>
    /\ \A i \in 1..Len(dispatched) : dispatched[i] = i
    /\ \A i \in 1..Len(queuedBeforeStarting) :
         queuedBeforeStarting[i] = Len(dispatched) + i
    /\ Len(dispatched) + Len(queuedBeforeStarting) = lastEmitted

\* A new port has dispatched and queued nothing.
LEMMA UnbrokenInit == PortInit => Unbroken
BY EmptySeq DEF PortInit, Unbroken

\* As long as no loop is abandoned, every step keeps the messages without a
\* gap.
LEMMA UnbrokenNext == PortInv /\ Unbroken /\ [PortNext]_portVars => Unbroken'
<1> SUFFICES ASSUME PortInv, Unbroken, [PortNext]_portVars, ~abandoned'
             PROVE  /\ \A i \in 1..Len(dispatched') : dispatched'[i] = i
                    /\ \A i \in 1..Len(queuedBeforeStarting') :
                         queuedBeforeStarting'[i] = Len(dispatched') + i
                    /\ Len(dispatched') + Len(queuedBeforeStarting') = lastEmitted'
  BY DEF Unbroken
<1> DEFINE d == dispatched
           q == queuedBeforeStarting
           m == lastEmitted + 1
<1>1. /\ d \in Seq(Message) /\ q \in Seq(Message)
      /\ Len(d) \in Nat /\ Len(q) \in Nat /\ lastEmitted \in Nat /\ m \in Message
  BY LenProperties DEF PortInv, PortTypeOK, Message
<1>2. ~abandoned
  BY Zenon DEF PortNext, PortStep, portVars, Emit, StartPort, OnMessage, AddListener,
     RemoveOnMessage, DrainNext, DrainDone, ListenerReturns, ListenerThrows
<1>3. /\ \A i \in 1..Len(d) : d[i] = i
      /\ \A i \in 1..Len(q) : q[i] = Len(d) + i
      /\ Len(d) + Len(q) = lastEmitted
  BY <1>2 DEF Unbroken
<1>4. CASE Emit(m) /\ ~started
  <2>1. q' = Append(q, m) /\ d' = d /\ lastEmitted' = m
    BY <1>4 DEF Emit
  <2>2. /\ Len(q') = Len(q) + 1 /\ q'[Len(q) + 1] = m
        /\ \A i \in 1..Len(q) : q'[i] = q[i]
    BY <1>1, <2>1, AppendProperties
  <2>3. \A i \in 1..(Len(q) + 1) : i \in 1..Len(q) \/ i = Len(q) + 1
    BY <1>1
  <2>4. Len(d) + Len(q') = m /\ Len(q) + 1 \in Nat
    BY <1>1, <1>3, <2>2
  <2>5. ASSUME NEW i \in 1..Len(q') PROVE q'[i] = Len(d) + i
    <3>1. CASE i \in 1..Len(q) BY <1>3, <2>2, <3>1
    <3>2. CASE i = Len(q) + 1 BY <1>1, <2>2, <2>4, <3>2
    <3> QED BY <2>2, <2>3, <3>1, <3>2
  <2> QED BY <1>3, <2>1, <2>4, <2>5
<1>5. CASE Emit(m) /\ started
  <2>1. d' = Append(d, m) /\ q' = q /\ lastEmitted' = m /\ ~draining
    BY <1>5 DEF Emit, SuperEmit, PortIdle
  <2>2. q = <<>> /\ Len(q) = 0
    BY <1>2, <1>5, <2>1, EmptySeq DEF PortInv, StrandedOnlyByThrow
  <2>3. /\ Len(d') = Len(d) + 1 /\ d'[Len(d) + 1] = m
        /\ \A i \in 1..Len(d) : d'[i] = d[i]
    BY <1>1, <2>1, AppendProperties
  <2>4. \A i \in 1..(Len(d) + 1) : i \in 1..Len(d) \/ i = Len(d) + 1
    BY <1>1
  <2>5. \A i \in 1..Len(d') : d'[i] = i
    BY <1>1, <1>3, <2>2, <2>3, <2>4
  <2> QED BY <1>1, <1>3, <2>1, <2>2, <2>3, <2>5
<1>6. CASE DrainNext
  <2>1. /\ q # <<>> /\ d' = Append(d, q[1]) /\ q' = Tail(q)
        /\ lastEmitted' = lastEmitted /\ q[1] \in Message /\ Len(q) >= 1
        /\ Len(q') = Len(q) - 1
        /\ \A i \in 1..(Len(q) - 1) : q'[i] = q[i + 1]
    <3>1. q # <<>> BY <1>6 DEF DrainNext
    <3>2. /\ ShiftFirst(q).message = q[1] /\ ShiftFirst(q).left = Tail(q)
          /\ q[1] \in Message /\ Len(q) \in Nat \ {0}
      BY <1>1, <3>1, ShiftFacts
    <3>3. /\ Len(Tail(q)) = Len(q) - 1
          /\ \A i \in 1..(Len(q) - 1) : Tail(q)[i] = q[i + 1]
      BY <1>1, <3>1, HeadTailProperties
    <3>4. d' = Append(d, q[1]) /\ q' = Tail(q) /\ lastEmitted' = lastEmitted
      BY <1>6, <3>2 DEF DrainNext, SuperEmit
    <3> HIDE DEF d, q
    <3> QED BY <3>1, <3>2, <3>3, <3>4
  <2>2. /\ Len(d') = Len(d) + 1 /\ d'[Len(d) + 1] = q[1]
        /\ \A i \in 1..Len(d) : d'[i] = d[i]
    BY <1>1, <2>1, AppendProperties
  <2>3. /\ \A i \in 1..(Len(d) + 1) : i \in 1..Len(d) \/ i = Len(d) + 1
        /\ \A i \in 1..(Len(q) - 1) : i + 1 \in 1..Len(q)
        /\ 1 \in 1..Len(q)
    BY <1>1, <2>1
  <2>4. \A i \in 1..Len(d') : d'[i] = i
    BY <1>1, <1>3, <2>2, <2>3
  <2>5. ASSUME NEW i \in 1..Len(q') PROVE q'[i] = Len(d') + i
    <3>1. i \in 1..(Len(q) - 1) /\ q'[i] = q[i + 1] BY <2>1
    <3>2. q[i + 1] = Len(d) + (i + 1) BY <1>3, <2>3, <3>1
    <3> QED BY <1>1, <2>2, <3>1, <3>2
  <2>6. Len(d') + Len(q') = lastEmitted'
    <3>1. /\ Len(d') = Len(d) + 1 /\ Len(q') = Len(q) - 1
          /\ lastEmitted' = lastEmitted
      BY <2>1, <2>2
    <3>2. Len(d) \in Nat /\ Len(q) \in Nat /\ Len(d) + Len(q) = lastEmitted
      BY <1>1, <1>3
    <3> QED BY <3>1, <3>2
  <2> QED BY <2>4, <2>5, <2>6
<1>7. CASE UNCHANGED <<d, q, lastEmitted>>
  BY <1>3, <1>7
<1> QED
  BY <1>4, <1>5, <1>6, <1>7, Zenon
  DEF PortNext, PortStep, portVars, StartPort, OnMessage, AddListener,
      RemoveOnMessage, DrainDone, ListenerReturns, ListenerThrows

-----------------------------------------------------------------------------
\* The invariant of the port holds in every reachable state.
THEOREM PortInvariant == PortSpec => []PortInv
<1>1. PortInit => PortInv BY PortInvInit
<1>2. PortInv /\ [PortNext]_portVars => PortInv' BY PortInvNext
<1> QED BY <1>1, <1>2, PTL DEF PortSpec

\* Every variable of the port keeps its type (lib/message-port.js).
THEOREM PortTypes == PortSpec => []PortTypeOK
<1>1. PortInv => PortTypeOK BY DEF PortInv
<1> QED BY <1>1, PortInvariant, PTL

\* Nothing is missing and nothing is in both: each message is in one.
LEMMA ExactlyOnceFromInv == PortInv => ExactlyOnce
<1> SUFFICES ASSUME PortInv, NEW m \in 1..lastEmitted
             PROVE  InSeq(m, dispatched) <=> ~InSeq(m, queuedBeforeStarting)
  BY DEF ExactlyOnce, PortInv
<1>1. InSeq(m, dispatched) \/ InSeq(m, queuedBeforeStarting)
  BY DEF PortInv, NoneMissing
<1>2. ~(InSeq(m, dispatched) /\ InSeq(m, queuedBeforeStarting))
  BY DEF PortInv, Disjoint, InSeq
<1> QED BY <1>1, <1>2

(***************************************************************************)
(* emit() and start() lose and duplicate no message, with any number of    *)
(* listeners and messages, even when listeners throw.                      *)
(***************************************************************************)
THEOREM PortExactlyOnce == PortSpec => []ExactlyOnce
BY ExactlyOnceFromInv, PortInvariant, PTL

\* Each listener hears messages in the order in which emit() got them.
THEOREM PortHeardInOrder == PortSpec => []HeardInOrder
<1>1. PortInv => HeardInOrder BY DEF PortInv
<1> QED BY <1>1, PortInvariant, PTL

\* Only an exception in its loop makes start() leave messages in the queue.
THEOREM PortStrandedOnlyByThrow == PortSpec => []StrandedOnlyByThrow
<1>1. PortInv => StrandedOnlyByThrow BY DEF PortInv
<1> QED BY <1>1, PortInvariant, PTL

(***************************************************************************)
(* emit() and start() hand messages on in the order they were emitted, and *)
(* leave no gap, until a listener throws in the loop of start(): the       *)
(* switch from the queue to direct calls reorders and drops nothing.       *)
(***************************************************************************)
THEOREM PortUnbroken == PortSpec => []Unbroken
BY PortInvInit, PortInvNext, UnbrokenInit, UnbrokenNext, PTL DEF PortSpec
=============================================================================

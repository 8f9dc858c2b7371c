------------------------ MODULE ImportScripts_proofs ------------------------
(***************************************************************************)
(* Theorems of ImportScripts for every import graph and depth of nesting,  *)
(* for the enclave's importScripts and for the mock's.                     *)
(***************************************************************************)
EXTENDS ImportScripts, SequenceTheorems, TLAPS

(***************************************************************************)
(* The inductive invariant adds to the lists how often each key was        *)
(* loaded: once for a key in one of the two lists, and once more for the   *)
(* main script where the lists do not start with it.                       *)
(***************************************************************************)
AtStart(k) == IF k = Main /\ ~mock THEN 1 ELSE 0

LoadsMatchLists ==
  \A k \in Key :
    loads[k] = AtStart(k) +
      (IF k \in alreadyImportedScripts \/ k \in beingImportedScripts THEN 1 ELSE 0)

ImportInv ==
  ImportTypeOK /\ ListsMatchStack /\ LoadsMatchLists /\ NextFrameIsAwaited

-----------------------------------------------------------------------------
\* Lemmas about the stack.

\* What is known of a stack.
LEMMA StackFacts ==
  ASSUME NEW s \in Seq(Frame), s # <<>>
  PROVE  /\ Len(s) \in Nat \ {0} /\ DOMAIN s = 1..Len(s)
         /\ \A i \in 1..Len(s) :
              s[i] \in Frame /\ s[i].script \in Key /\ s[i].pending \in Seq(Key)
<1>1. Len(s) \in Nat \ {0} BY EmptySeq
<1>2. DOMAIN s = 1..Len(s) BY LenProperties
<1>3. \A i \in 1..Len(s) : s[i] \in Frame BY ElementOfSeq
<1> QED BY <1>1, <1>2, <1>3 DEF Frame

\* Changing the arguments the top frame has still to treat.
LEMMA WithPendingFacts ==
  ASSUME NEW s \in Seq(Frame), s # <<>>, NEW p \in Seq(Key)
  PROVE  /\ WithPending(s, p) \in Seq(Frame)
         /\ Len(WithPending(s, p)) = Len(s) /\ WithPending(s, p) # <<>>
         /\ \A i \in 1..Len(s) : WithPending(s, p)[i].script = s[i].script
         /\ \A i \in 1..(Len(s) - 1) : WithPending(s, p)[i] = s[i]
         /\ WithPending(s, p)[Len(s)].pending = p
<1> DEFINE f == [s[Len(s)] EXCEPT !.pending = p]
<1>1. Len(s) \in 1..Len(s) /\ Len(s) \in Nat \ {0} /\ DOMAIN s = 1..Len(s)
      /\ s[Len(s)] \in Frame
  BY StackFacts
<1>2. f \in Frame /\ f.script = s[Len(s)].script /\ f.pending = p
  BY <1>1 DEF Frame
<1>3. WithPending(s, p) = [s EXCEPT ![Len(s)] = f]
  BY DEF WithPending
<1> HIDE DEF f
<1>4. /\ WithPending(s, p) \in Seq(Frame)
      /\ Len(WithPending(s, p)) = Len(s)
      /\ \A j \in 1..Len(s) : WithPending(s, p)[j] = IF j = Len(s) THEN f ELSE s[j]
  BY <1>1, <1>2, <1>3, ExceptSeq
<1> DEFINE w == WithPending(s, p)
<1> HIDE DEF w
<1>5. w \in Seq(Frame) /\ Len(w) = Len(s)
      /\ \A j \in 1..Len(s) : w[j] = IF j = Len(s) THEN f ELSE s[j]
  BY <1>4 DEF w
<1>6. w # <<>>
  BY <1>1, <1>5, EmptySeq
<1>7. \A i \in 1..Len(s) : w[i].script = s[i].script
  <2> SUFFICES ASSUME NEW i \in 1..Len(s) PROVE w[i].script = s[i].script
    OBVIOUS
  <2>1. CASE i = Len(s)
    <3>1. w[i] = f BY <1>5, <2>1
    <3> QED BY <1>2, <2>1, <3>1
  <2>2. CASE i # Len(s)
    <3>1. w[i] = s[i] BY <1>5, <2>2
    <3> QED BY <3>1
  <2> QED BY <2>1, <2>2
<1>8. \A i \in 1..(Len(s) - 1) : w[i] = s[i]
  <2> SUFFICES ASSUME NEW i \in 1..(Len(s) - 1) PROVE w[i] = s[i]
    OBVIOUS
  <2>1. Len(s) \in Int BY <1>1
  <2>2. i \in 1..Len(s) /\ i # Len(s) BY <2>1
  <2> QED BY <1>5, <2>2
<1>9. w[Len(s)].pending = p
  BY <1>1, <1>2, <1>5
<1> QED BY <1>5, <1>6, <1>7, <1>8, <1>9 DEF w

\* The stack below the top frame.
LEMMA FrontFacts ==
  ASSUME NEW s \in Seq(Frame), Len(s) > 1
  PROVE  /\ Front(s) \in Seq(Frame) /\ Front(s) # <<>>
         /\ Len(Front(s)) = Len(s) - 1
         /\ \A i \in 1..(Len(s) - 1) : Front(s)[i] = s[i]
         /\ Last(Front(s)) = s[Len(s) - 1]
<1>1. Len(s) \in Nat /\ 1 \in Int /\ Len(s) - 1 \in Int
  BY LenProperties
<1>2. \A i \in 1..(Len(s) - 1) : s[i] \in Frame
  BY <1>1, ElementOfSeq
<1> DEFINE t == Front(s)
           n == Len(s) - 1
<1>3. /\ t \in Seq(Frame)
      /\ Len(t) = IF 1 <= n THEN n - 1 + 1 ELSE 0
      /\ \A i \in 1..(n - 1 + 1) : t[i] = s[1 + i - 1]
  BY <1>1, <1>2, SubSeqProperties DEF Front
<1> HIDE DEF t
<1>4. Len(t) = Len(s) - 1 /\ \A i \in 1..(Len(s) - 1) : t[i] = s[i]
  BY <1>1, <1>3
<1>5. t # <<>>
  BY <1>1, <1>4, EmptySeq
<1>6. Last(t) = s[Len(s) - 1]
  BY <1>1, <1>4 DEF Last
<1> QED BY <1>3, <1>4, <1>5, <1>6 DEF t

-----------------------------------------------------------------------------
\* The invariant holds at the start.
LEMMA ImportInvInit == ImportInit => ImportInv
<1> SUFFICES ASSUME ImportInit PROVE ImportInv OBVIOUS
<1> DEFINE f == [script |-> Main, pending |-> <<>>]
<1>1. Main \in Key BY ImportAssumption
<1>2. f \in Frame BY <1>1, EmptySeq DEF Frame
<1>3. stack = <<f>> /\ stack \in Seq(Frame) /\ stack # <<>> /\ Len(stack) = 1
  BY <1>2 DEF ImportInit, ImportedAtFirst
<1>4. ImportTypeOK BY <1>1, <1>3 DEF ImportInit, ImportedAtFirst, ImportTypeOK
<1>5. ListsMatchStack BY <1>3 DEF ImportInit, ImportedAtFirst, ListsMatchStack
<1>6. LoadsMatchLists BY ImportAssumption DEF ImportInit, ImportedAtFirst, LoadsMatchLists, AtStart
<1>7. NextFrameIsAwaited BY <1>3 DEF NextFrameIsAwaited
<1> QED BY <1>4, <1>5, <1>6, <1>7 DEF ImportInv

(***************************************************************************)
(* Steps that only change what the top frame has still to treat.           *)
(***************************************************************************)
LEMMA PendingPreserves ==
  ASSUME ImportInv, NEW p \in Seq(Key), stack' = WithPending(stack, p),
         UNCHANGED <<mock, alreadyImportedScripts, beingImportedScripts, loads>>
  PROVE  ImportInv'
<1>1. stack \in Seq(Frame) /\ stack # <<>> BY DEF ImportInv, ImportTypeOK
<1>2. /\ stack' \in Seq(Frame) /\ Len(stack') = Len(stack) /\ stack' # <<>>
      /\ \A i \in 1..Len(stack) : stack'[i].script = stack[i].script
      /\ \A i \in 1..(Len(stack) - 1) : stack'[i] = stack[i]
  BY <1>1, WithPendingFacts
<1>3. Len(stack) \in Nat \ {0} BY <1>1, StackFacts
<1>4. ImportTypeOK' BY <1>2 DEF ImportInv, ImportTypeOK
<1>5. ListsMatchStack'
  <2>1. \A i \in 2..Len(stack) : stack'[i].script = stack[i].script BY <1>2, <1>3
  <2>2. ListsMatchStack BY DEF ImportInv
  <2> QED BY <1>2, <2>1, <2>2 DEF ListsMatchStack
<1>6. LoadsMatchLists' BY DEF ImportInv, LoadsMatchLists, AtStart
<1>7. NextFrameIsAwaited' BY <1>2, <1>3 DEF ImportInv, NextFrameIsAwaited
<1> QED BY <1>4, <1>5, <1>6, <1>7 DEF ImportInv

\* What an importScripts call still has to treat after an error is a list of
\* keys.
LEMMA AfterErrorType ==
  ASSUME NEW p \in Seq(Key), p # <<>>, NEW null
  PROVE  AfterError(p, null) \in Seq(Key)
  BY HeadTailProperties, EmptySeq DEF AfterError

\* A script that is found: it goes on the stack and into the list.
LEMMA LoadKeyPreserves ==
  ASSUME ImportInv, LoadKey, UNCHANGED mock
  PROVE  ImportInv'
<1> DEFINE k == Head(Top.pending)
           f == [script |-> k, pending |-> <<>>]
<1>1. stack \in Seq(Frame) /\ stack # <<>> /\ beingImportedScripts \subseteq Key
      /\ loads \in [Key -> Nat]
  BY DEF ImportInv, ImportTypeOK
<1>2. Len(stack) \in Nat \ {0} /\ Top.pending \in Seq(Key)
  BY <1>1, StackFacts DEF Top
<1>3. k \in Key /\ k \notin alreadyImportedScripts /\ k \notin beingImportedScripts
      /\ Top.pending # <<>>
  BY <1>2, HeadTailProperties DEF LoadKey, Skipped
<1>4. f \in Frame /\ f.script = k BY <1>3, EmptySeq DEF Frame
<1>5. /\ beingImportedScripts' = beingImportedScripts \cup {k}
      /\ stack' = Append(stack, f)
      /\ loads' = [loads EXCEPT ![k] = @ + 1]
      /\ UNCHANGED alreadyImportedScripts
  BY DEF LoadKey, MarkBeing
<1> HIDE DEF k, f
<1>6. /\ stack' \in Seq(Frame) /\ stack' # <<>> /\ Len(stack') = Len(stack) + 1
      /\ \A i \in 1..Len(stack) : stack'[i] = stack[i]
      /\ stack'[Len(stack) + 1] = f
  BY <1>1, <1>4, <1>5, AppendProperties
<1>7. ImportTypeOK'
  BY <1>1, <1>3, <1>5, <1>6 DEF ImportInv, ImportTypeOK
<1>8. ListsMatchStack'
  <2>1. ASSUME NEW c \in Key
        PROVE  c \in beingImportedScripts' <=>
                 \E i \in 2..Len(stack') : stack'[i].script = c
    <3>1. ASSUME c \in beingImportedScripts
          PROVE  \E i \in 2..Len(stack') : stack'[i].script = c
      BY <1>2, <1>6, <3>1 DEF ImportInv, ListsMatchStack
    <3>2. ASSUME c = k
          PROVE  \E i \in 2..Len(stack') : stack'[i].script = c
      <4>1. Len(stack) + 1 \in 2..Len(stack') BY <1>2, <1>6
      <4> QED BY <1>4, <1>6, <3>2, <4>1
    <3>3. ASSUME NEW i \in 2..Len(stack'), stack'[i].script = c
          PROVE  c \in beingImportedScripts \/ c = k
      <4>1. CASE i = Len(stack) + 1 BY <1>4, <1>6, <3>3, <4>1
      <4>2. CASE i \in 2..Len(stack)
        BY <1>2, <1>6, <3>3, <4>2 DEF ImportInv, ListsMatchStack
      <4> QED BY <1>2, <1>6, <4>1, <4>2
    <3> QED BY <1>5, <3>1, <3>2, <3>3
  <2>2. ASSUME NEW i \in 2..Len(stack'), NEW j \in 2..Len(stack'), i < j
        PROVE  stack'[i].script # stack'[j].script
    <3>1. i \in 2..Len(stack) /\ stack'[i] = stack[i]
          /\ stack[i].script \in beingImportedScripts
      BY <1>1, <1>2, <1>6, <2>2, StackFacts DEF ImportInv, ListsMatchStack
    <3>2. CASE j = Len(stack) + 1 BY <1>3, <1>4, <1>6, <3>1, <3>2
    <3>3. CASE j \in 2..Len(stack)
      <4>1. i # j /\ stack'[j] = stack[j] BY <1>2, <1>6, <2>2, <3>3
      <4> QED BY <3>1, <3>3, <4>1 DEF ImportInv, ListsMatchStack
    <3> QED BY <1>2, <1>6, <3>2, <3>3
  <2>3. \A i, j \in 2..Len(stack') : i # j => stack'[i].script # stack'[j].script
    <3> SUFFICES ASSUME NEW i \in 2..Len(stack'), NEW j \in 2..Len(stack'), i # j
                 PROVE  stack'[i].script # stack'[j].script
      OBVIOUS
    <3>1. i < j \/ j < i BY <1>2, <1>6
    <3> QED BY <2>2, <3>1
  <2>4. (beingImportedScripts \cap alreadyImportedScripts = {})'
    BY <1>3, <1>5 DEF ImportInv, ListsMatchStack
  <2> QED BY <2>1, <2>3, <2>4 DEF ListsMatchStack
<1>9. LoadsMatchLists'
  BY <1>1, <1>3, <1>5 DEF ImportInv, LoadsMatchLists, AtStart
<1>10. NextFrameIsAwaited'
  <2> SUFFICES ASSUME NEW i \in 1..(Len(stack') - 1)
               PROVE  /\ stack'[i].pending # <<>>
                      /\ Head(stack'[i].pending) = stack'[i + 1].script
    BY DEF NextFrameIsAwaited
  <2>1. CASE i = Len(stack)
    <3>1. stack'[i] = Top BY <1>2, <1>6, <2>1 DEF Top
    <3> QED BY <1>2, <1>3, <1>4, <1>6, <2>1, <3>1 DEF k
  <2>2. CASE i \in 1..(Len(stack) - 1)
    BY <1>2, <1>6, <2>2 DEF ImportInv, NextFrameIsAwaited
  <2> QED BY <1>2, <1>6, <2>1, <2>2
<1> QED BY <1>7, <1>8, <1>9, <1>10 DEF ImportInv

(***************************************************************************)
(* A script that ends, by returning or by throwing: its frame goes, its    *)
(* key leaves the list of those being imported, and no other key moves.    *)
(***************************************************************************)
LEMMA EndFacts ==
  ASSUME ImportInv, Imported
  PROVE  /\ Importer \in Seq(Frame) /\ Importer # <<>>
         /\ Last(Importer).pending \in Seq(Key) /\ Last(Importer).pending # <<>>
         /\ Top.script \in beingImportedScripts
         /\ Top.script \in Key
         /\ Top.script \notin alreadyImportedScripts
<1>1. stack \in Seq(Frame) /\ stack # <<>> /\ Len(stack) > 1
  BY DEF ImportInv, ImportTypeOK, Imported
<1>2. Len(stack) \in 2..Len(stack) /\ Len(stack) - 1 \in 1..(Len(stack) - 1)
      /\ Len(stack) \in Nat
  BY <1>1, StackFacts
<1>3. Importer \in Seq(Frame) /\ Importer # <<>> /\ Last(Importer) = stack[Len(stack) - 1]
  BY <1>1, FrontFacts DEF Importer
<1>4. Last(Importer).pending # <<>>
  BY <1>2, <1>3 DEF ImportInv, NextFrameIsAwaited
<1>5. Last(Importer).pending \in Seq(Key) /\ Top.script \in Key
  BY <1>1, <1>2, <1>3, StackFacts DEF Top
<1>6. Top.script \in beingImportedScripts
  BY <1>2, <1>5 DEF ImportInv, ListsMatchStack, Top
<1> QED BY <1>3, <1>4, <1>5, <1>6 DEF ImportInv, ListsMatchStack

\* A script that ends, with or without an exception, leaves the stack and the
\* list.
LEMMA ScriptEndsPreserves ==
  ASSUME ImportInv, Imported, NEW p \in Seq(Key),
         stack' = WithPending(Importer, p),
         beingImportedScripts' = Unmark(Top.script),
         \/ /\ alreadyImportedScripts' = alreadyImportedScripts \cup {Top.script}
            /\ UNCHANGED loads
         \/ /\ loads' = [loads EXCEPT ![Top.script] = @ - 1]
            /\ UNCHANGED alreadyImportedScripts,
         UNCHANGED mock
  PROVE  ImportInv'
<1> DEFINE k == Top.script
<1>1. stack \in Seq(Frame) /\ stack # <<>> /\ Len(stack) > 1
      /\ loads \in [Key -> Nat]
  BY DEF ImportInv, ImportTypeOK, Imported
<1>2. Len(stack) \in Nat BY <1>1, StackFacts
<1>3. Importer \in Seq(Frame) /\ Importer # <<>> /\ k \in beingImportedScripts
      /\ k \in Key /\ k \notin alreadyImportedScripts
  BY EndFacts
<1>4. /\ Len(Importer) = Len(stack) - 1
      /\ \A i \in 1..(Len(stack) - 1) : Importer[i] = stack[i]
  BY <1>1, FrontFacts DEF Importer
<1>5. /\ stack' \in Seq(Frame) /\ stack' # <<>> /\ Len(stack') = Len(stack) - 1
      /\ \A i \in 1..(Len(stack) - 1) : stack'[i].script = stack[i].script
      /\ \A i \in 1..(Len(stack) - 2) : stack'[i] = stack[i]
  <2>1. /\ stack' \in Seq(Frame) /\ stack' # <<>> /\ Len(stack') = Len(Importer)
        /\ \A i \in 1..Len(Importer) : stack'[i].script = Importer[i].script
        /\ \A i \in 1..(Len(Importer) - 1) : stack'[i] = Importer[i]
    BY <1>3, WithPendingFacts
  <2> QED BY <1>2, <1>4, <2>1
<1>6. beingImportedScripts' = beingImportedScripts \ {k}
  BY DEF Unmark
<1>7. k = stack[Len(stack)].script BY DEF Top
<1> HIDE DEF k
<1>8. /\ \A c \in Key \ {k} : c \in alreadyImportedScripts' <=> c \in alreadyImportedScripts
      /\ \A c \in Key \ {k} : loads'[c] = loads[c]
      /\ \/ k \in alreadyImportedScripts' /\ loads'[k] = loads[k]
         \/ k \notin alreadyImportedScripts' /\ loads'[k] = loads[k] - 1
  BY <1>1, <1>3 DEF k
<1>9. loads[k] = AtStart(k) + 1
  BY <1>3 DEF ImportInv, LoadsMatchLists
<1>10. ImportTypeOK'
  <2>1. loads' \in [Key -> Nat]
    <3>1. loads[k] - 1 \in Nat BY <1>9 DEF AtStart
    <3> QED BY <1>1, <3>1 DEF k
  <2>2. alreadyImportedScripts' \subseteq Key
    BY <1>3 DEF ImportInv, ImportTypeOK, k
  <2> QED BY <1>5, <1>6, <2>1, <2>2 DEF ImportInv, ImportTypeOK
<1>11. ListsMatchStack'
  <2>1. \A i \in 2..(Len(stack) - 1) : stack[i].script # k
    <3> SUFFICES ASSUME NEW i \in 2..(Len(stack) - 1) PROVE stack[i].script # k
      OBVIOUS
    <3>1. i \in 2..Len(stack) /\ Len(stack) \in 2..Len(stack) /\ i # Len(stack)
      BY <1>1, <1>2
    <3> QED BY <1>7, <3>1 DEF ImportInv, ListsMatchStack
  <2>2. ASSUME NEW c \in Key
        PROVE  c \in beingImportedScripts' <=>
                 \E i \in 2..Len(stack') : stack'[i].script = c
    <3>1. ASSUME c \in beingImportedScripts, c # k
          PROVE  \E i \in 2..Len(stack') : stack'[i].script = c
      <4>1. PICK i \in 2..Len(stack) : stack[i].script = c
        BY <3>1 DEF ImportInv, ListsMatchStack
      <4>2. i \in 2..(Len(stack) - 1) BY <1>2, <1>7, <3>1, <4>1
      <4> QED BY <1>2, <1>5, <4>1, <4>2
    <3>2. ASSUME NEW i \in 2..Len(stack'), stack'[i].script = c
          PROVE  c \in beingImportedScripts /\ c # k
      <4>1. i \in 2..(Len(stack) - 1) /\ i \in 2..Len(stack) /\ stack[i].script = c
        BY <1>2, <1>5, <3>2
      <4> QED BY <2>1, <4>1 DEF ImportInv, ListsMatchStack
    <3> QED BY <1>6, <3>1, <3>2
  <2>3. \A i, j \in 2..Len(stack') : i # j => stack'[i].script # stack'[j].script
    BY <1>2, <1>5 DEF ImportInv, ListsMatchStack
  <2>4. (beingImportedScripts \cap alreadyImportedScripts = {})'
    BY <1>6 DEF ImportInv, ListsMatchStack, k
  <2> QED BY <2>2, <2>3, <2>4 DEF ListsMatchStack
<1>12. LoadsMatchLists'
  <2> SUFFICES ASSUME NEW c \in Key
               PROVE  loads'[c] = AtStart(c) +
                 (IF c \in alreadyImportedScripts' \/ c \in beingImportedScripts' THEN 1 ELSE 0)
    BY DEF LoadsMatchLists, AtStart
  <2>1. CASE c # k
    BY <1>6, <1>8, <2>1 DEF ImportInv, LoadsMatchLists
  <2>2. CASE c = k
    BY <1>6, <1>8, <1>9, <2>2 DEF AtStart
  <2> QED BY <2>1, <2>2
<1>13. NextFrameIsAwaited'
  BY <1>2, <1>5 DEF ImportInv, NextFrameIsAwaited
<1> QED BY <1>10, <1>11, <1>12, <1>13 DEF ImportInv

\* Every step of importScripts keeps the invariant.
LEMMA ImportInvNext == ImportInv /\ [ImportNext]_importVars => ImportInv'
<1> SUFFICES ASSUME ImportInv, [ImportNext]_importVars PROVE ImportInv'
  OBVIOUS
<1>0. UNCHANGED mock
  BY DEF ImportNext, importVars
<1>1. stack \in Seq(Frame) /\ stack # <<>> /\ Top.pending \in Seq(Key)
  BY StackFacts DEF ImportInv, ImportTypeOK, Top
<1>2. ASSUME NEW args \in Arguments, Import(args) PROVE ImportInv'
  <2>1. args \in Seq(Key)
    BY ImportAssumption, SeqDef DEF Arguments
  <2> QED BY <1>0, <1>2, <2>1, PendingPreserves DEF Import
<1>3. ASSUME SkipKey PROVE ImportInv'
  <2>1. Tail(Top.pending) \in Seq(Key)
    BY <1>1, <1>3, HeadTailProperties DEF SkipKey
  <2> QED BY <1>0, <1>3, <2>1, PendingPreserves DEF SkipKey
<1>4. ASSUME LoadKey PROVE ImportInv'
  BY <1>0, <1>4, LoadKeyPreserves
<1>5. ASSUME MissingKey PROVE ImportInv'
  <2>1. AfterError(Top.pending, FALSE) \in Seq(Key)
    BY <1>1, <1>5, AfterErrorType DEF MissingKey
  <2> QED BY <1>0, <1>5, <2>1, PendingPreserves DEF MissingKey
<1>6. ASSUME ScriptReturns PROVE ImportInv'
  <2>1. Imported BY <1>6 DEF ScriptReturns
  <2>2. Tail(Last(Importer).pending) \in Seq(Key)
    BY <2>1, EndFacts, HeadTailProperties
  <2> QED BY <1>0, <1>6, <2>1, <2>2, ScriptEndsPreserves DEF ScriptReturns
<1>7. ASSUME NEW null \in BOOLEAN, ScriptThrows(null) PROVE ImportInv'
  <2>1. Imported BY <1>7 DEF ScriptThrows
  <2>2. AfterError(Last(Importer).pending, null) \in Seq(Key)
    BY <2>1, EndFacts, AfterErrorType
  <2> QED BY <1>0, <1>7, <2>1, <2>2, ScriptEndsPreserves DEF ScriptThrows
<1>8. CASE UNCHANGED importVars
  <2>1. ImportTypeOK' BY <1>0, <1>8 DEF importVars, ImportInv, ImportTypeOK
  <2>2. ListsMatchStack' BY <1>0, <1>8 DEF importVars, ImportInv, ListsMatchStack
  <2>3. LoadsMatchLists'
    BY <1>0, <1>8 DEF importVars, ImportInv, LoadsMatchLists, AtStart
  <2>4. NextFrameIsAwaited'
    BY <1>0, <1>8 DEF importVars, ImportInv, NextFrameIsAwaited
  <2> QED BY <2>1, <2>2, <2>3, <2>4 DEF ImportInv
<1> QED BY <1>2, <1>3, <1>4, <1>5, <1>6, <1>7, <1>8 DEF ImportNext, ImportStep

-----------------------------------------------------------------------------
\* The invariant holds in every reachable state.
THEOREM ImportInvariant == ImportSpec => []ImportInv
<1> QED BY ImportInvInit, ImportInvNext, PTL DEF ImportSpec

\* The scripts under evaluation, the lists and the count of loads keep types.
THEOREM ImportTypes == ImportSpec => []ImportTypeOK
<1>1. ImportInv => ImportTypeOK BY DEF ImportInv
<1> QED BY <1>1, ImportInvariant, PTL

\* The lists agree with the scripts under evaluation, whatever imports what.
THEOREM ImportLists == ImportSpec => []ListsMatchStack
<1>1. ImportInv => ListsMatchStack BY DEF ImportInv
<1> QED BY <1>1, ImportInvariant, PTL

\* Both load every key at most once, the main one only in the mock.
THEOREM ImportOnce == ImportSpec => []ImportedOnce
<1>1. ImportInv => ImportedOnce
  BY DEF ImportInv, LoadsMatchLists, AtStart, ImportedOnce
<1> QED BY <1>1, ImportInvariant, PTL
=============================================================================

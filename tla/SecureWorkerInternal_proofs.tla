--------------------- MODULE SecureWorkerInternal_proofs ---------------------
(***************************************************************************)
(* Theorems of SecureWorkerInternal for any number of workers and any      *)
(* depth of nested ECALLs.                                                 *)
(***************************************************************************)
EXTENDS SecureWorkerInternal, SequenceTheorems, TLAPS

(***************************************************************************)
(* The entry_info that is current while the lowest n calls are on the      *)
(* stack s: a handler runs under the entry of the ECALL below it.            *)
(***************************************************************************)
EntryAt(s, n) ==
  IF n = 0 THEN 0 ELSE IF s[n].method = "handler" THEN n - 1 ELSE n

(***************************************************************************)
(* Methods that enter an enclave alternate with handlers; each handler is  *)
(* the one of the object below it, and each entry_info remembers the entry *)
(* that was current when it was made.                                      *)
(***************************************************************************)
Alternates(s) ==
  \A i \in 1..Len(s) :
    s[i].method = "handler" =>
      /\ i > 1 /\ s[i - 1].method # "handler"
      /\ s[i].self = s[i - 1].self
      /\ s[i].enclave = s[i - 1].enclave

Remembers(s) ==
  \A i \in 1..Len(s) :
    s[i].method # "handler" => s[i].previous = EntryAt(s, i - 1)

StackInv ==
  /\ Alternates(calls) /\ Remembers(calls)
  /\ thread_entry = EntryAt(calls, Len(calls))

\* Each call on the stack is one of an object that holds a loaded enclave.
HeldInv ==
  \A i \in 1..Len(calls) :
    /\ object[calls[i].self] = "live"
    /\ enclave_id[calls[i].self] = calls[i].enclave
    /\ calls[i].enclave \in loaded

IdsInv ==
  /\ \A w \in Worker :
       enclave_id[w] # 0 => object[w] = "live" /\ enclave_id[w] \in loaded
  /\ \A v, w \in Worker :
       v # w /\ enclave_id[v] = enclave_id[w] => enclave_id[v] = 0

\* destroy() is a method of constructed objects.
NeverDestroyed == \A w \in Worker : object[w] = "unused" => ~destroyed[w]

InternalInv ==
  /\ InternalTypeOK /\ StackInv /\ HeldInv
  /\ IdsInv /\ NeverDestroyed /\ NothingLeaked

-----------------------------------------------------------------------------
\* Lemmas about the stack.

\* What is known of a stack and its frames.
LEMMA CallFacts ==
  ASSUME NEW s \in Seq(Frame)
  PROVE  /\ Len(s) \in Nat /\ DOMAIN s = 1..Len(s)
         /\ s # <<>> => Len(s) \in 1..Len(s)
         /\ \A i \in 1..Len(s) :
              /\ s[i] \in Frame /\ s[i].self \in Worker /\ s[i].enclave \in Nat
              /\ s[i].previous \in Nat
<1>1. Len(s) \in Nat /\ DOMAIN s = 1..Len(s) BY LenProperties
<1>2. s # <<>> => Len(s) \in 1..Len(s)
  <2>1. s # <<>> => Len(s) # 0 BY EmptySeq
  <2> QED BY <1>1, <2>1
<1>3. \A i \in 1..Len(s) : s[i] \in Frame BY ElementOfSeq
<1> QED BY <1>1, <1>2, <1>3 DEF Frame

\* The stack below the topmost call.
LEMMA FrontFacts ==
  ASSUME NEW s \in Seq(Frame), s # <<>>
  PROVE  /\ Front(s) \in Seq(Frame) /\ Len(Front(s)) = Len(s) - 1
         /\ \A i \in 1..(Len(s) - 1) : Front(s)[i] = s[i]
<1>1. Len(s) \in Nat \ {0}
  BY EmptySeq, LenProperties
<1>2. Len(s) \in Nat /\ 1 \in Int /\ Len(s) - 1 \in Int
  BY <1>1
<1>3. \A i \in 1..(Len(s) - 1) : s[i] \in Frame
  BY <1>2, ElementOfSeq
<1> DEFINE t == Front(s)
           n == Len(s) - 1
<1>4. /\ t \in Seq(Frame)
      /\ Len(t) = IF 1 <= n THEN n - 1 + 1 ELSE 0
      /\ \A i \in 1..(n - 1 + 1) : t[i] = s[1 + i - 1]
  BY <1>2, <1>3, SubSeqProperties DEF Front
<1> HIDE DEF t
<1> HIDE DEF n
<1>5. n \in Nat /\ n = Len(s) - 1
  BY <1>1 DEF n
<1>6. Len(t) = n
  <2>1. CASE n = 0 BY <1>4, <2>1
  <2>2. CASE n # 0
    <3>1. 1 <= n /\ n - 1 + 1 = n BY <1>5, <2>2
    <3> QED BY <1>4, <3>1
  <2> QED BY <2>1, <2>2
<1>7. \A i \in 1..n : t[i] = s[i]
  <2> SUFFICES ASSUME NEW i \in 1..n PROVE t[i] = s[i] OBVIOUS
  <2>1. i \in 1..(n - 1 + 1) /\ 1 + i - 1 = i BY <1>5
  <2>2. t[i] = s[1 + i - 1] BY <1>4, <2>1
  <2> QED BY <2>1, <2>2
<1> QED BY <1>4, <1>5, <1>6, <1>7 DEF t

\* A stack with one more call.
LEMMA AppendFacts ==
  ASSUME NEW s \in Seq(Frame), NEW f \in Frame
  PROVE  /\ Append(s, f) \in Seq(Frame) /\ Len(Append(s, f)) = Len(s) + 1
         /\ \A i \in 1..Len(s) : Append(s, f)[i] = s[i]
         /\ Append(s, f)[Len(s) + 1] = f
BY AppendProperties

\* A method that is pushed on a stack whose top is a handler.
LEMMA PushFacts ==
  ASSUME NEW s \in Seq(Frame), NEW f \in Frame,
         Alternates(s), Remembers(s),
         f.method # "handler", f.previous = EntryAt(s, Len(s))
  PROVE  LET t == Append(s, f)
         IN  /\ Alternates(t) /\ Remembers(t)
             /\ EntryAt(t, Len(t)) = Len(s) + 1
<1> DEFINE t == Append(s, f)
           n == Len(s)
<1>1. /\ t \in Seq(Frame) /\ Len(t) = n + 1
      /\ \A i \in 1..n : t[i] = s[i]
      /\ t[n + 1] = f
  BY AppendFacts
<1>2. n \in Nat
  BY CallFacts
<1> HIDE DEF t, n
<1>3. \A i \in 1..(n + 1) : i \in 1..n \/ i = n + 1
  BY <1>2
<1>4. Alternates(t)
  <2> SUFFICES ASSUME NEW i \in 1..(n + 1), t[i].method = "handler"
               PROVE  /\ i > 1 /\ t[i - 1].method # "handler"
                      /\ t[i].self = t[i - 1].self
                      /\ t[i].enclave = t[i - 1].enclave
    BY <1>1 DEF Alternates
  <2>1. i \in 1..n BY <1>1, <1>3
  <2>2. i > 1 /\ s[i - 1].method # "handler"
        /\ s[i].self = s[i - 1].self
        /\ s[i].enclave = s[i - 1].enclave
    BY <1>1, <2>1 DEF Alternates, n
  <2>3. i - 1 \in 1..n BY <1>2, <2>1, <2>2
  <2> QED BY <1>1, <2>1, <2>2, <2>3
<1>5. Remembers(t)
  <2> SUFFICES ASSUME NEW i \in 1..(n + 1), t[i].method # "handler"
               PROVE  t[i].previous = EntryAt(t, i - 1)
    BY <1>1 DEF Remembers
  <2>1. EntryAt(t, i - 1) = EntryAt(s, i - 1)
    <3>1. i - 1 = 0 \/ i - 1 \in 1..n BY <1>2
    <3> QED BY <1>1, <3>1 DEF EntryAt
  <2>2. CASE i \in 1..n BY <1>1, <2>1, <2>2 DEF Remembers, n
  <2>3. CASE i = n + 1
    <3>1. i - 1 = n BY <1>2, <2>3
    <3> QED BY <1>1, <2>1, <2>3, <3>1 DEF n
  <2> QED BY <1>3, <2>2, <2>3
<1>6. EntryAt(t, Len(t)) = n + 1
  <2>1. n + 1 # 0 BY <1>2
  <2> QED BY <1>1, <2>1 DEF EntryAt
<1> QED BY <1>4, <1>5, <1>6 DEF t, n

\* A handler that is pushed on the method whose OCALL it serves.
LEMMA PushHandlerFacts ==
  ASSUME NEW s \in Seq(Frame), NEW f \in Frame, s # <<>>,
         Alternates(s), Remembers(s),
         f.method = "handler", s[Len(s)].method # "handler",
         f.self = s[Len(s)].self, f.enclave = s[Len(s)].enclave
  PROVE  LET t == Append(s, f)
         IN  /\ Alternates(t) /\ Remembers(t)
             /\ EntryAt(t, Len(t)) = EntryAt(s, Len(s))
<1> DEFINE t == Append(s, f)
           n == Len(s)
<1>1. /\ t \in Seq(Frame) /\ Len(t) = n + 1
      /\ \A i \in 1..n : t[i] = s[i]
      /\ t[n + 1] = f
  BY AppendFacts
<1>2. n \in Nat /\ n \in 1..n
  BY CallFacts
<1> HIDE DEF t, n
<1>3. \A i \in 1..(n + 1) : i \in 1..n \/ i = n + 1
  BY <1>2
<1>4. Alternates(t)
  <2> SUFFICES ASSUME NEW i \in 1..(n + 1), t[i].method = "handler"
               PROVE  /\ i > 1 /\ t[i - 1].method # "handler"
                      /\ t[i].self = t[i - 1].self
                      /\ t[i].enclave = t[i - 1].enclave
    BY <1>1 DEF Alternates
  <2>1. CASE i \in 1..n
    <3>2. i > 1 /\ s[i - 1].method # "handler"
          /\ s[i].self = s[i - 1].self
          /\ s[i].enclave = s[i - 1].enclave
      BY <1>1, <2>1 DEF Alternates, n
    <3>3. i - 1 \in 1..n BY <1>2, <2>1, <3>2
    <3> QED BY <1>1, <2>1, <3>2, <3>3
  <2>2. CASE i = n + 1
    <3>1. i > 1 /\ i - 1 = n BY <1>2, <2>2
    <3> QED BY <1>1, <1>2, <2>2, <3>1 DEF n
  <2> QED BY <1>3, <2>1, <2>2
<1>5. Remembers(t)
  <2> SUFFICES ASSUME NEW i \in 1..(n + 1), t[i].method # "handler"
               PROVE  t[i].previous = EntryAt(t, i - 1)
    BY <1>1 DEF Remembers
  <2>1. i \in 1..n BY <1>1, <1>3
  <2>2. i - 1 = 0 \/ i - 1 \in 1..n BY <1>2
  <2>3. EntryAt(t, i - 1) = EntryAt(s, i - 1) BY <1>1, <2>2 DEF EntryAt
  <2> QED BY <1>1, <2>1, <2>3 DEF Remembers, n
<1>6. EntryAt(t, Len(t)) = EntryAt(s, n)
  <2>1. n # 0 /\ n + 1 # 0 /\ n + 1 - 1 = n BY <1>2
  <2> QED BY <1>1, <2>1 DEF EntryAt, n
<1> QED BY <1>4, <1>5, <1>6 DEF t, n

\* What is left when the topmost call ends.
LEMMA PopFacts ==
  ASSUME NEW s \in Seq(Frame), s # <<>>, Alternates(s), Remembers(s)
  PROVE  LET t == Front(s)
         IN  /\ Alternates(t) /\ Remembers(t)
             /\ IF s[Len(s)].method = "handler"
                  THEN EntryAt(t, Len(t)) = EntryAt(s, Len(s))
                  ELSE EntryAt(t, Len(t)) = s[Len(s)].previous
<1> DEFINE t == Front(s)
           n == Len(s) - 1
<1>1. /\ t \in Seq(Frame) /\ Len(t) = n
      /\ \A i \in 1..n : t[i] = s[i]
  BY FrontFacts
<1>2. n \in Nat /\ Len(s) = n + 1
  BY CallFacts
<1> HIDE DEF t, n
<1>3. \A i \in 1..n : i \in 1..(n + 1) /\ (i - 1 = 0 \/ i - 1 \in 1..n)
  BY <1>2
<1>4. \A i \in 0..n : EntryAt(t, i) = EntryAt(s, i)
  <2>1. \A i \in 0..n : i = 0 \/ i \in 1..n BY <1>2
  <2> QED BY <1>1, <2>1 DEF EntryAt
<1>5. Alternates(t)
  <2> SUFFICES ASSUME NEW i \in 1..n, t[i].method = "handler"
               PROVE  /\ i > 1 /\ t[i - 1].method # "handler"
                      /\ t[i].self = t[i - 1].self
                      /\ t[i].enclave = t[i - 1].enclave
    BY <1>1 DEF Alternates
  <2>1. i > 1 /\ s[i - 1].method # "handler"
        /\ s[i].self = s[i - 1].self
        /\ s[i].enclave = s[i - 1].enclave
    BY <1>1, <1>2, <1>3 DEF Alternates
  <2>2. i - 1 \in 1..n BY <1>2, <2>1
  <2> QED BY <1>1, <2>1, <2>2
<1>6. Remembers(t)
  <2> SUFFICES ASSUME NEW i \in 1..n, t[i].method # "handler"
               PROVE  t[i].previous = EntryAt(t, i - 1)
    BY <1>1 DEF Remembers
  <2>1. i - 1 \in 0..n BY <1>2
  <2>2. t[i].previous = EntryAt(s, i - 1)
    BY <1>1, <1>2, <1>3 DEF Remembers
  <2> QED BY <1>4, <2>1, <2>2
<1>7. EntryAt(t, n) = EntryAt(s, n)
  BY <1>2, <1>4
<1>8. CASE s[n + 1].method = "handler"
  <2>1. n + 1 \in 1..(n + 1) BY <1>2
  <2>2. n + 1 > 1 /\ s[n + 1 - 1].method # "handler"
    BY <1>2, <1>8, <2>1 DEF Alternates
  <2>3. n # 0 /\ n + 1 # 0 /\ n + 1 - 1 = n BY <1>2, <2>2
  <2>4. EntryAt(s, n) = n BY <2>2, <2>3 DEF EntryAt
  <2>5. EntryAt(s, n + 1) = n BY <1>2, <1>8, <2>3 DEF EntryAt
  <2> QED BY <1>1, <1>2, <1>5, <1>6, <1>7, <1>8, <2>4, <2>5 DEF t
<1>9. CASE s[n + 1].method # "handler"
  <2>1. n + 1 \in 1..(n + 1) /\ n + 1 - 1 = n BY <1>2
  <2>2. s[n + 1].previous = EntryAt(s, n) BY <1>2, <1>9, <2>1 DEF Remembers
  <2> QED BY <1>1, <1>2, <1>5, <1>6, <1>7, <1>9, <2>2 DEF t
<1> QED BY <1>8, <1>9

-----------------------------------------------------------------------------
\* The invariant holds at the start.
LEMMA InternalInvInit == InternalInit => InternalInv
<1> SUFFICES ASSUME InternalInit PROVE InternalInv OBVIOUS
<1>1. calls \in Seq(Frame) /\ Len(calls) = 0 BY EmptySeq DEF InternalInit
<1>2. InternalTypeOK BY <1>1 DEF InternalInit, InternalTypeOK
<1>3. StackInv
  BY <1>1 DEF InternalInit, StackInv, Alternates, Remembers, EntryAt
<1>4. HeldInv BY <1>1 DEF HeldInv
<1>5. IdsInv /\ NeverDestroyed BY DEF InternalInit, IdsInv, NeverDestroyed
<1>6. NothingLeaked BY DEF InternalInit, NothingLeaked
<1> QED BY <1>2, <1>3, <1>4, <1>5, <1>6 DEF InternalInv

-----------------------------------------------------------------------------
(***************************************************************************)
(* Steps that change the stack only, and what SGX says of a crash.         *)
(***************************************************************************)
LEMMA StackStep ==
  ASSUME InternalInv,
         calls' \in Seq(Frame), thread_entry' \in Nat,
         Alternates(calls'), Remembers(calls'),
         thread_entry' = EntryAt(calls', Len(calls')),
         \A i \in 1..Len(calls') :
           /\ object[calls'[i].self] = "live"
           /\ enclave_id[calls'[i].self] = calls'[i].enclave
           /\ calls'[i].enclave \in loaded,
         crashed' \in SUBSET (1..created),
         UNCHANGED <<objectVars, created, loaded, refused, blocked>>
  PROVE  InternalInv'
<1>1. InternalTypeOK'
  BY DEF InternalInv, InternalTypeOK, objectVars
<1>2. StackInv'
  BY DEF StackInv, Alternates, Remembers, EntryAt
<1>3. HeldInv'
  BY DEF HeldInv, objectVars
<1>4. IdsInv' /\ NeverDestroyed' /\ NothingLeaked'
  BY DEF InternalInv, IdsInv, NeverDestroyed, NothingLeaked, objectVars
<1> QED BY <1>1, <1>2, <1>3, <1>4 DEF InternalInv

\* A method enters an enclave.
LEMMA EcallPreserves ==
  ASSUME InternalInv, NEW w \in Worker, NEW m \in EntryMethods, Ecall(m, w)
  PROVE  InternalInv'
<1> DEFINE n == Len(calls)
           f == [method |-> m, self |-> w, enclave |-> enclave_id[w],
                 previous |-> thread_entry]
<1>1. calls \in Seq(Frame) /\ thread_entry \in Nat /\ enclave_id[w] \in Nat
  BY DEF InternalInv, InternalTypeOK
<1>2. f \in Frame
  BY <1>1 DEF Frame
<1>3. calls' = Append(calls, f) /\ thread_entry' = n + 1
  BY DEF Ecall, PushEntry
<1>4. /\ n \in Nat /\ calls' \in Seq(Frame) /\ Len(calls') = n + 1
      /\ \A i \in 1..n : calls'[i] = calls[i]
      /\ calls'[n + 1] = f
  BY <1>1, <1>2, <1>3, AppendFacts, CallFacts
<1>5. /\ UNCHANGED <<objectVars, sgxVars>> /\ object[w] = "live"
      /\ enclave_id[w] \in loaded
  BY DEF Ecall, CanEnter
<1>6. /\ f.method # "handler" /\ f.self = w /\ f.enclave = enclave_id[w]
      /\ f.previous = thread_entry
  BY DEF EntryMethods
<1> HIDE DEF f
<1>7. /\ Alternates(calls') /\ Remembers(calls')
      /\ thread_entry' = EntryAt(calls', Len(calls'))
  <2>1. /\ Alternates(calls) /\ Remembers(calls)
        /\ thread_entry = EntryAt(calls, Len(calls))
    BY DEF InternalInv, StackInv
  <2> QED BY <1>1, <1>2, <1>3, <1>6, <2>1, PushFacts
<1>8. ASSUME NEW i \in 1..(n + 1)
      PROVE  /\ object[calls'[i].self] = "live"
             /\ enclave_id[calls'[i].self] = calls'[i].enclave
             /\ calls'[i].enclave \in loaded
  <2>1. CASE i \in 1..n BY <1>4, <2>1 DEF InternalInv, HeldInv
  <2>2. CASE i = n + 1 BY <1>4, <1>5, <1>6, <2>2
  <2>3. i \in 1..n \/ i = n + 1 BY <1>4
  <2> QED BY <2>1, <2>2, <2>3
<1>9. thread_entry' \in Nat /\ crashed' \in SUBSET (1..created)
  BY <1>3, <1>4, <1>5 DEF InternalInv, InternalTypeOK, sgxVars
<1> QED BY <1>4, <1>5, <1>7, <1>8, <1>9, StackStep DEF sgxVars

\* An ECALL returns or crashes.
LEMMA EcallEndsPreserves ==
  ASSUME InternalInv, EcallEnds
  PROVE  InternalInv'
<1> DEFINE n == Len(calls)
<1>1. calls \in Seq(Frame) /\ calls # <<>> /\ calls[n].method # "handler"
  BY DEF InternalInv, InternalTypeOK, EcallEnds, EnclaveRuns, Top
<1>2. /\ n \in 1..n /\ n \in Nat /\ calls[n].previous \in Nat
  BY <1>1, CallFacts
<1>3. calls' = Front(calls) /\ thread_entry' = calls[n].previous
  BY DEF EcallEnds, PopEntry, Top
<1>4. /\ calls' \in Seq(Frame) /\ Len(calls') = n - 1
      /\ \A i \in 1..(n - 1) : calls'[i] = calls[i]
  BY <1>1, <1>3, FrontFacts
<1>5. /\ Alternates(calls') /\ Remembers(calls')
      /\ thread_entry' = EntryAt(calls', Len(calls'))
  BY <1>1, <1>3, PopFacts DEF InternalInv, StackInv
<1>6. \A i \in 1..Len(calls') :
        /\ object[calls'[i].self] = "live"
        /\ enclave_id[calls'[i].self] = calls'[i].enclave
        /\ calls'[i].enclave \in loaded
  <2>1. \A i \in 1..(n - 1) : i \in 1..n BY <1>2
  <2> QED BY <1>4, <2>1 DEF InternalInv, HeldInv
<1>7. crashed' \in SUBSET (1..created)
  <2>1. calls[n].enclave \in loaded BY <1>2 DEF InternalInv, HeldInv
  <2>2. loaded \subseteq 1..created /\ crashed \subseteq 1..created
    BY DEF InternalInv, InternalTypeOK
  <2> QED BY <2>1, <2>2 DEF EcallEnds, Top
<1>8. UNCHANGED <<objectVars, created, loaded, refused, blocked>>
  BY DEF EcallEnds
<1> QED BY <1>2, <1>3, <1>4, <1>5, <1>6, <1>7, <1>8, StackStep

\* The OCALL calls the handler of the object whose ECALL is on top.
LEMMA PostMessagePreserves ==
  ASSUME InternalInv, PostMessage
  PROVE  InternalInv'
<1> DEFINE n == Len(calls)
           f == [method |-> "handler", self |-> calls[n].self,
                 enclave |-> calls[n].enclave, previous |-> 0]
<1>1. calls \in Seq(Frame) /\ calls # <<>> /\ calls[n].method # "handler"
  BY DEF InternalInv, InternalTypeOK, PostMessage, EnclaveRuns, Top
<1>2. /\ n \in 1..n /\ n \in Nat /\ n # 0
      /\ calls[n].self \in Worker /\ calls[n].enclave \in Nat
  BY <1>1, CallFacts
<1>3. f \in Frame
  BY <1>2 DEF Frame
<1>4. /\ Alternates(calls) /\ Remembers(calls)
      /\ thread_entry = EntryAt(calls, n)
  BY DEF InternalInv, StackInv
<1>5. thread_entry = n
  BY <1>1, <1>2, <1>4 DEF EntryAt
<1>6. calls' = Append(calls, f) /\ thread_entry' = thread_entry
  BY <1>5 DEF PostMessage, Entrant, Top
<1>7. /\ calls' \in Seq(Frame) /\ Len(calls') = n + 1
      /\ \A i \in 1..n : calls'[i] = calls[i]
      /\ calls'[n + 1] = f
  BY <1>1, <1>3, <1>6, AppendFacts
<1>8. /\ f.method = "handler" /\ f.self = calls[n].self
      /\ f.enclave = calls[n].enclave
  OBVIOUS
<1> HIDE DEF f
<1>9. /\ Alternates(calls') /\ Remembers(calls')
      /\ thread_entry' = EntryAt(calls', Len(calls'))
  BY <1>1, <1>3, <1>4, <1>6, <1>8, PushHandlerFacts
<1>10. ASSUME NEW i \in 1..(n + 1)
       PROVE  /\ object[calls'[i].self] = "live"
              /\ enclave_id[calls'[i].self] = calls'[i].enclave
              /\ calls'[i].enclave \in loaded
  <2>1. CASE i \in 1..n BY <1>7, <2>1 DEF InternalInv, HeldInv
  <2>2. CASE i = n + 1 BY <1>2, <1>7, <1>8, <2>2 DEF InternalInv, HeldInv
  <2>3. i \in 1..n \/ i = n + 1 BY <1>2
  <2> QED BY <2>1, <2>2, <2>3
<1>11. /\ UNCHANGED <<objectVars, sgxVars>>
       /\ thread_entry' \in Nat /\ crashed' \in SUBSET (1..created)
  BY <1>6 DEF PostMessage, InternalInv, InternalTypeOK, sgxVars
<1> QED BY <1>7, <1>9, <1>10, <1>11, StackStep DEF sgxVars

\* A handler ends.
LEMMA HandlerEndsPreserves ==
  ASSUME InternalInv, HandlerEnds
  PROVE  InternalInv'
<1> DEFINE n == Len(calls)
<1>1. calls \in Seq(Frame) /\ calls # <<>> /\ calls[n].method = "handler"
  BY DEF InternalInv, InternalTypeOK, HandlerEnds, Top
<1>2. n \in Nat
  BY <1>1, CallFacts
<1>3. calls' = Front(calls) /\ thread_entry' = thread_entry
  BY DEF HandlerEnds
<1>4. /\ calls' \in Seq(Frame) /\ Len(calls') = n - 1
      /\ \A i \in 1..(n - 1) : calls'[i] = calls[i]
  BY <1>1, <1>3, FrontFacts
<1>5. /\ Alternates(calls') /\ Remembers(calls')
      /\ thread_entry' = EntryAt(calls', Len(calls'))
  BY <1>1, <1>3, PopFacts DEF InternalInv, StackInv
<1>6. \A i \in 1..Len(calls') :
        /\ object[calls'[i].self] = "live"
        /\ enclave_id[calls'[i].self] = calls'[i].enclave
        /\ calls'[i].enclave \in loaded
  <2>1. \A i \in 1..(n - 1) : i \in 1..n BY <1>2
  <2> QED BY <1>4, <2>1 DEF InternalInv, HeldInv
<1>7. /\ UNCHANGED <<objectVars, sgxVars>>
      /\ thread_entry' \in Nat /\ crashed' \in SUBSET (1..created)
  BY <1>3 DEF HandlerEnds, InternalInv, InternalTypeOK, sgxVars
<1> QED BY <1>4, <1>5, <1>6, <1>7, StackStep DEF sgxVars

-----------------------------------------------------------------------------
(***************************************************************************)
(* Steps that leave the stack alone.  What they must not disturb: an       *)
(* object with a call on the stack keeps its enclave, and the enclave      *)
(* stays loaded.                                                           *)
(***************************************************************************)
LEMMA ObjectStep ==
  ASSUME InternalInv, InternalTypeOK', UNCHANGED stackVars,
         \A i \in 1..Len(calls) :
           /\ object'[calls[i].self] = "live"
           /\ enclave_id'[calls[i].self] = enclave_id[calls[i].self]
           /\ calls[i].enclave \in loaded',
         IdsInv', NothingLeaked',
         \A w \in Worker : object'[w] = "unused" =>
           object[w] = "unused" /\ destroyed'[w] = destroyed[w]
  PROVE  InternalInv'
<1>1. StackInv'
  BY DEF InternalInv, StackInv, stackVars
<1>2. HeldInv'
  BY DEF InternalInv, HeldInv, stackVars
<1>3. NeverDestroyed'
  BY DEF InternalInv, NeverDestroyed
<1> QED BY <1>1, <1>2, <1>3 DEF InternalInv

\* The constructor.
LEMMA NewPreserves ==
  ASSUME InternalInv, NEW w \in Worker, New(w)
  PROVE  InternalInv'
<1>1. /\ object[w] = "unused"
      /\ UNCHANGED <<destroyed, handlePostMessage, stackVars, crashed, refused, blocked>>
  BY DEF New
<1>2. enclave_id[w] = 0 /\ \A i \in 1..Len(calls) : calls[i].self # w
  BY <1>1 DEF InternalInv, IdsInv, HeldInv
<1>3. /\ object \in [Worker -> {"unused", "live", "failed", "collected"}]
      /\ enclave_id \in [Worker -> Nat] /\ created \in Nat
      /\ loaded \subseteq 1..created /\ crashed \subseteq 1..created
      /\ refused \subseteq 1..created
  BY DEF InternalInv, InternalTypeOK
<1>4. \A i \in 1..Len(calls) : calls[i].self \in Worker
  BY CallFacts DEF InternalInv, InternalTypeOK
<1>5. CASE /\ object' = [object EXCEPT ![w] = "live"]
           /\ enclave_id' = [enclave_id EXCEPT ![w] = created + 1]
           /\ created' = created + 1
           /\ loaded' = loaded \cup {created + 1}
  <2>1. /\ \A v \in Worker : v # w => /\ object'[v] = object[v]
                                     /\ enclave_id'[v] = enclave_id[v]
        /\ object'[w] = "live" /\ enclave_id'[w] = created + 1
    BY <1>3, <1>5
  <2>2. /\ created + 1 \in Nat /\ created + 1 # 0 /\ created + 1 \notin loaded
        /\ 1..created \subseteq 1..(created + 1)
        /\ created + 1 \in 1..(created + 1)
        /\ \A v \in Worker : enclave_id[v] # created + 1
    <3>1. created + 1 \notin 1..created BY <1>3
    <3>2. \A v \in Worker : enclave_id[v] # 0 => enclave_id[v] \in loaded
      BY DEF InternalInv, IdsInv
    <3> QED BY <1>3, <3>1, <3>2
  <2>3. InternalTypeOK'
    <3>1. object' \in [Worker -> {"unused", "live", "failed", "collected"}]
      BY <1>3, <1>5
    <3>2. enclave_id' \in [Worker -> Nat] BY <1>3, <1>5, <2>2
    <3> QED BY <1>1, <1>3, <1>5, <2>2, <3>1, <3>2
            DEF InternalInv, InternalTypeOK, stackVars
  <2>4. IdsInv'
    BY <1>5, <2>1, <2>2 DEF InternalInv, IdsInv
  <2>5. NothingLeaked'
    <3> SUFFICES ASSUME NEW e \in loaded' \ refused
                 PROVE  \E v \in Worker :
                          /\ object'[v] = "live" /\ enclave_id'[v] = e
                          /\ blocked \/ ~destroyed[v]
      BY <1>1 DEF NothingLeaked
    <3>1. CASE e \in loaded
      <4>1. PICK v \in Worker : /\ object[v] = "live" /\ enclave_id[v] = e
                                /\ blocked \/ ~destroyed[v]
        BY <3>1 DEF InternalInv, NothingLeaked
      <4> QED BY <1>1, <2>1, <4>1
    <3>2. CASE e = created + 1
      <4>1. ~destroyed[w]
        BY <1>1 DEF InternalInv, NeverDestroyed
      <4> QED BY <2>1, <3>2, <4>1
    <3> QED BY <1>5, <3>1, <3>2
  <2> QED BY <1>1, <1>2, <1>4, <1>5, <2>1, <2>3, <2>4, <2>5, ObjectStep
          DEF InternalInv, HeldInv
<1>6. CASE /\ object' = [object EXCEPT ![w] = "failed"]
           /\ UNCHANGED <<enclave_id, created, loaded>>
  <2>1. \A v \in Worker : v # w => object'[v] = object[v]
    BY <1>3, <1>6
  <2>2. InternalTypeOK'
    <3>1. object' \in [Worker -> {"unused", "live", "failed", "collected"}]
      BY <1>3, <1>6
    <3> QED BY <1>1, <1>6, <3>1 DEF InternalInv, InternalTypeOK, stackVars
  <2>3. IdsInv'
    BY <1>2, <1>6, <2>1 DEF InternalInv, IdsInv
  <2>4. NothingLeaked'
    BY <1>1, <1>6, <2>1 DEF InternalInv, NothingLeaked
  <2> QED BY <1>1, <1>2, <1>4, <1>6, <2>1, <2>2, <2>3, <2>4, ObjectStep
          DEF InternalInv, HeldInv
<1> QED BY <1>5, <1>6 DEF New

\* The application sets or clears handlePostMessage.
LEMMA SetHandlerPreserves ==
  ASSUME InternalInv, NEW w \in Worker, SetHandler(w)
  PROVE  InternalInv'
<1>1. /\ handlePostMessage' \in [Worker -> BOOLEAN]
      /\ UNCHANGED <<object, enclave_id, destroyed, stackVars, sgxVars>>
  BY DEF InternalInv, InternalTypeOK, SetHandler
<1>2. InternalTypeOK'
  BY <1>1 DEF InternalInv, InternalTypeOK, stackVars, sgxVars
<1>3. IdsInv' /\ NothingLeaked'
  BY <1>1 DEF InternalInv, IdsInv, NothingLeaked, sgxVars
<1> QED BY <1>1, <1>2, <1>3, ObjectStep DEF InternalInv, HeldInv, sgxVars

(***************************************************************************)
(* SGX destroys enclave e of object w, which forgets it.  No call has      *)
(* entered e, so no call is one of w, and no other object names e.         *)
(***************************************************************************)
LEMMA DestroyedFacts ==
  ASSUME InternalInv, NEW w \in Worker,
         SgxDestroyed(enclave_id[w]), ClearId(w),
         \A v \in Worker : v # w => /\ object'[v] = object[v]
                                  /\ destroyed'[v] = destroyed[v]
  PROVE  /\ {loaded', crashed', refused'} \subseteq SUBSET (1..created')
         /\ enclave_id' \in [Worker -> Nat]
         /\ \A i \in 1..Len(calls) :
              /\ calls[i].self # w
              /\ object'[calls[i].self] = "live"
              /\ enclave_id'[calls[i].self] = enclave_id[calls[i].self]
              /\ calls[i].enclave \in loaded'
         /\ IdsInv' /\ NothingLeaked'
<1> DEFINE e == enclave_id[w]
<1>1. /\ e \in loaded /\ loaded' = loaded \ {e}
      /\ \A i \in 1..Len(calls) : calls[i].enclave # e
      /\ UNCHANGED <<created, crashed, refused, blocked>>
  <2>1. calls \in Seq(Frame) BY DEF InternalInv, InternalTypeOK
  <2>2. DOMAIN calls = 1..Len(calls) BY <2>1, CallFacts
  <2> QED BY <2>2 DEF SgxDestroyed, Entered
<1>2. /\ enclave_id \in [Worker -> Nat] /\ created \in Nat
      /\ loaded \subseteq 1..created /\ crashed \subseteq 1..created
      /\ refused \subseteq 1..created
      /\ \A i \in 1..Len(calls) : calls[i].self \in Worker
  BY CallFacts DEF InternalInv, InternalTypeOK
<1>3. e \in Nat \ {0}
  BY <1>1, <1>2
<1>4. /\ enclave_id' = [enclave_id EXCEPT ![w] = 0]
      /\ enclave_id'[w] = 0
      /\ \A v \in Worker : v # w => enclave_id'[v] = enclave_id[v]
  BY <1>2 DEF ClearId
<1>5. \A v \in Worker : v # w => enclave_id[v] # e
  BY <1>3 DEF InternalInv, IdsInv
<1> HIDE DEF e
<1>6. {loaded', crashed', refused'} \subseteq SUBSET (1..created')
  BY <1>1, <1>2
<1>7. enclave_id' \in [Worker -> Nat]
  BY <1>2, <1>4
<1>8. ASSUME NEW i \in 1..Len(calls)
      PROVE  /\ calls[i].self # w
             /\ object'[calls[i].self] = "live"
             /\ enclave_id'[calls[i].self] = enclave_id[calls[i].self]
             /\ calls[i].enclave \in loaded'
  <2>1. /\ object[calls[i].self] = "live" /\ calls[i].enclave \in loaded
        /\ enclave_id[calls[i].self] = calls[i].enclave
    BY DEF InternalInv, HeldInv
  <2>2. calls[i].self # w BY <1>1, <2>1 DEF e
  <2> QED BY <1>1, <1>2, <1>4, <2>1, <2>2
<1>9. IdsInv'
  <2>1. ASSUME NEW v \in Worker, enclave_id'[v] # 0
        PROVE  object'[v] = "live" /\ enclave_id'[v] \in loaded'
    <3>1. v # w BY <1>4, <2>1
    <3> QED BY <1>1, <1>4, <1>5, <2>1, <3>1 DEF InternalInv, IdsInv
  <2>2. ASSUME NEW u \in Worker, NEW v \in Worker,
               u # v, enclave_id'[u] = enclave_id'[v]
        PROVE  enclave_id'[u] = 0
    BY <1>4, <2>2 DEF InternalInv, IdsInv
  <2> QED BY <2>1, <2>2 DEF IdsInv
<1>10. NothingLeaked'
  <2> SUFFICES ASSUME NEW d \in loaded' \ refused'
               PROVE  \E v \in Worker : /\ object'[v] = "live" /\ enclave_id'[v] = d
                                        /\ blocked' \/ ~destroyed'[v]
    BY DEF NothingLeaked
  <2>1. PICK v \in Worker : /\ object[v] = "live" /\ enclave_id[v] = d
                            /\ blocked \/ ~destroyed[v]
    BY <1>1 DEF InternalInv, NothingLeaked
  <2>2. v # w BY <1>1, <2>1 DEF e
  <2> QED BY <1>1, <1>4, <2>1, <2>2
<1> QED BY <1>6, <1>7, <1>8, <1>9, <1>10

\* destroy().
LEMMA DestroyPreserves ==
  ASSUME InternalInv, NEW w \in Worker, Destroy(w)
  PROVE  InternalInv'
<1> DEFINE e == enclave_id[w]
<1>1. /\ object[w] = "live" /\ destroyed' = [destroyed EXCEPT ![w] = TRUE]
      /\ UNCHANGED <<object, handlePostMessage, stackVars>>
  BY DEF Destroy
<1>2. /\ calls \in Seq(Frame) /\ destroyed \in [Worker -> BOOLEAN]
      /\ loaded \subseteq 1..created /\ crashed \subseteq 1..created
      /\ refused \subseteq 1..created
  BY DEF InternalInv, InternalTypeOK
<1>3. destroyed' \in [Worker -> BOOLEAN]
  BY <1>1, <1>2
<1>4. \A v \in Worker : v # w => destroyed'[v] = destroyed[v]
  BY <1>1, <1>2
<1>5. \A v \in Worker : object[v] = "unused" => destroyed'[v] = destroyed[v]
  BY <1>1, <1>4
<1>6. CASE SgxDestroyed(e) /\ ClearId(w)
  <2>1. /\ {loaded', crashed', refused'} \subseteq SUBSET (1..created')
        /\ enclave_id' \in [Worker -> Nat]
        /\ \A i \in 1..Len(calls) :
             /\ object'[calls[i].self] = "live"
             /\ enclave_id'[calls[i].self] = enclave_id[calls[i].self]
             /\ calls[i].enclave \in loaded'
        /\ IdsInv' /\ NothingLeaked'
    BY <1>1, <1>4, <1>6, DestroyedFacts
  <2>2. InternalTypeOK'
    BY <1>1, <1>3, <1>6, <2>1
    DEF InternalInv, InternalTypeOK, SgxDestroyed, stackVars
  <2> QED BY <1>1, <1>5, <2>1, <2>2, ObjectStep
<1>7. CASE SgxRefuses(e) /\ UNCHANGED enclave_id
  <2>1. /\ refused' = refused \cup (loaded \cap {e})
        /\ UNCHANGED <<created, loaded, crashed, blocked>>
    BY <1>7 DEF SgxRefuses
  <2>2. InternalTypeOK'
    <3>1. refused' \in SUBSET (1..created) BY <1>2, <2>1
    <3> QED BY <1>1, <1>3, <1>7, <2>1, <3>1 DEF InternalInv, InternalTypeOK, stackVars
  <2>3. IdsInv'
    BY <1>1, <1>7, <2>1 DEF InternalInv, IdsInv
  <2>4. NothingLeaked'
    <3> SUFFICES ASSUME NEW d \in loaded' \ refused'
                 PROVE  \E v \in Worker : /\ object'[v] = "live" /\ enclave_id'[v] = d
                                          /\ blocked' \/ ~destroyed'[v]
      BY DEF NothingLeaked
    <3>1. d # e BY <2>1
    <3>2. PICK v \in Worker : /\ object[v] = "live" /\ enclave_id[v] = d
                              /\ blocked \/ ~destroyed[v]
      BY <2>1 DEF InternalInv, NothingLeaked
    <3>3. v # w BY <3>1, <3>2
    <3> QED BY <1>1, <1>4, <1>7, <2>1, <3>2, <3>3
  <2> QED BY <1>1, <1>5, <1>7, <2>1, <2>2, <2>3, <2>4, ObjectStep
          DEF InternalInv, HeldInv
<1>8. CASE SgxWaits(e) /\ UNCHANGED enclave_id
  <2>1. blocked' = TRUE /\ UNCHANGED <<created, loaded, crashed, refused>>
    BY <1>8 DEF SgxWaits
  <2>2. blocked' \in BOOLEAN
    BY <2>1
  <2>3. InternalTypeOK'
    BY <1>1, <1>3, <1>8, <2>1, <2>2 DEF InternalInv, InternalTypeOK, stackVars
  <2>4. IdsInv' /\ NothingLeaked'
    BY <1>1, <1>8, <2>1 DEF InternalInv, IdsInv, NothingLeaked
  <2> QED BY <1>1, <1>5, <1>8, <2>1, <2>3, <2>4, ObjectStep
          DEF InternalInv, HeldInv
<1> QED BY <1>6, <1>7, <1>8 DEF Destroy

(***************************************************************************)
(* The destructor.  SGX never waits here: an ECALL under way keeps its     *)
(* object reachable, and no other object names the enclave.                *)
(***************************************************************************)
LEMMA CollectPreserves ==
  ASSUME InternalInv, NEW w \in Worker, Collect(w)
  PROVE  InternalInv'
<1> DEFINE e == enclave_id[w]
<1>1. /\ object[w] = "live" /\ ~blocked
      /\ object' = [object EXCEPT ![w] = "collected"]
      /\ enclave_id' = [enclave_id EXCEPT ![w] = 0]
      /\ UNCHANGED <<destroyed, handlePostMessage, stackVars>>
  BY DEF Collect, NodeRuns, ClearId
<1>2. /\ calls \in Seq(Frame) /\ enclave_id \in [Worker -> Nat]
      /\ object \in [Worker -> {"unused", "live", "failed", "collected"}]
      /\ loaded \subseteq 1..created /\ crashed \subseteq 1..created
      /\ refused \subseteq 1..created /\ created \in Nat
  BY DEF InternalInv, InternalTypeOK
<1>3. /\ DOMAIN calls = 1..Len(calls)
      /\ \A i \in 1..Len(calls) : calls[i].self \in Worker \ {w}
  <2>1. /\ DOMAIN calls = 1..Len(calls)
        /\ \A i \in 1..Len(calls) : calls[i].self \in Worker
    BY <1>2, CallFacts
  <2> QED BY <2>1 DEF Collect, OnStack
<1>4. /\ object' \in [Worker -> {"unused", "live", "failed", "collected"}]
      /\ object'[w] = "collected" /\ enclave_id'[w] = 0
      /\ \A v \in Worker : v # w => /\ object'[v] = object[v]
                                   /\ enclave_id'[v] = enclave_id[v]
  BY <1>1, <1>2
<1>5. enclave_id' \in [Worker -> Nat]
  BY <1>1, <1>2
<1>6. \A v \in Worker : object'[v] = "unused" =>
        object[v] = "unused" /\ destroyed'[v] = destroyed[v]
  BY <1>1, <1>4
<1>7. CASE SgxDestroyed(e)
  <2>1. /\ {loaded', crashed', refused'} \subseteq SUBSET (1..created')
        /\ \A i \in 1..Len(calls) :
             /\ object'[calls[i].self] = "live"
             /\ enclave_id'[calls[i].self] = enclave_id[calls[i].self]
             /\ calls[i].enclave \in loaded'
        /\ IdsInv' /\ NothingLeaked'
    BY <1>1, <1>4, <1>7, DestroyedFacts DEF ClearId
  <2>2. InternalTypeOK'
    BY <1>1, <1>4, <1>5, <1>7, <2>1
    DEF InternalInv, InternalTypeOK, SgxDestroyed, stackVars
  <2> QED BY <1>1, <1>6, <2>1, <2>2, ObjectStep
<1>8. ASSUME /\ refused' \in SUBSET (1..created)
             /\ UNCHANGED <<created, loaded, crashed, blocked>>
             /\ \A d \in loaded \ refused' :
                  d \notin refused /\ (d = e => destroyed[w])
      PROVE  InternalInv'
  <2>1. InternalTypeOK'
    BY <1>1, <1>4, <1>5, <1>8 DEF InternalInv, InternalTypeOK, stackVars
  <2>2. IdsInv'
    BY <1>4, <1>8 DEF InternalInv, IdsInv
  <2>3. NothingLeaked'
    <3> SUFFICES ASSUME NEW d \in loaded' \ refused'
                 PROVE  \E v \in Worker : /\ object'[v] = "live" /\ enclave_id'[v] = d
                                          /\ blocked' \/ ~destroyed'[v]
      BY DEF NothingLeaked
    <3>1. PICK v \in Worker : /\ object[v] = "live" /\ enclave_id[v] = d
                              /\ blocked \/ ~destroyed[v]
      BY <1>8 DEF InternalInv, NothingLeaked
    <3>2. v # w BY <1>1, <1>8, <3>1
    <3> QED BY <1>1, <1>4, <1>8, <3>1, <3>2
  <2> QED BY <1>1, <1>3, <1>4, <1>6, <1>8, <2>1, <2>2, <2>3, ObjectStep
          DEF InternalInv, HeldInv
<1>9. CASE SgxRefuses(e)
  <2>1. /\ refused' = refused \cup (loaded \cap {e})
        /\ UNCHANGED <<created, loaded, crashed, blocked>>
    BY <1>9 DEF SgxRefuses
  <2>2. refused' \in SUBSET (1..created) BY <1>2, <2>1
  <2> QED BY <1>8, <2>1, <2>2
<1>10. CASE ~FreesEnclave(w) /\ UNCHANGED sgxVars
  BY <1>2, <1>8, <1>10 DEF FreesEnclave, sgxVars
<1>11. ~SgxWaits(e)
  <2> SUFFICES ASSUME Entered(e) PROVE FALSE BY DEF SgxWaits
  <2>1. PICK i \in 1..Len(calls) : calls[i].enclave = e
    BY <1>3 DEF Entered
  <2>2. /\ enclave_id[calls[i].self] = e /\ e \in loaded
    BY <2>1 DEF InternalInv, HeldInv
  <2>3. e = 0 BY <1>3, <2>2 DEF InternalInv, IdsInv
  <2> QED BY <1>2, <2>2, <2>3
<1> QED BY <1>7, <1>9, <1>10, <1>11 DEF Collect

-----------------------------------------------------------------------------
\* Every step of the addon keeps the invariant.
LEMMA InternalInvStep == InternalInv /\ [InternalNext]_internalVars => InternalInv'
<1> SUFFICES ASSUME InternalInv, [InternalNext]_internalVars PROVE InternalInv'
  OBVIOUS
<1>1. ASSUME NEW w \in Worker, New(w) PROVE InternalInv'
  BY <1>1, NewPreserves
<1>2. ASSUME NEW w \in Worker, SetHandler(w) PROVE InternalInv'
  BY <1>2, SetHandlerPreserves
<1>3. ASSUME NEW w \in Worker, Destroy(w) PROVE InternalInv'
  BY <1>3, DestroyPreserves
<1>4. ASSUME NEW w \in Worker, Collect(w) PROVE InternalInv'
  BY <1>4, CollectPreserves
<1>5. ASSUME NEW w \in Worker, Init(w) \/ Close(w) \/ EmitMessage(w) \/ BootstrapMock(w)
      PROVE  InternalInv'
  BY <1>5, EcallPreserves
  DEF Init, Close, EmitMessage, BootstrapMock, EntryMethods
<1>6. CASE PostMessage BY <1>6, PostMessagePreserves
<1>7. CASE EcallEnds BY <1>7, EcallEndsPreserves
<1>8. CASE HandlerEnds BY <1>8, HandlerEndsPreserves
<1>9. CASE UNCHANGED internalVars
  <2>1. InternalTypeOK' /\ IdsInv' /\ NothingLeaked'
    BY <1>9 DEF InternalInv, InternalTypeOK, IdsInv, NothingLeaked,
                internalVars, objectVars, stackVars, sgxVars
  <2> QED BY <1>9, <2>1, ObjectStep
          DEF InternalInv, HeldInv, internalVars, objectVars, sgxVars
<1> QED BY <1>1, <1>2, <1>3, <1>4, <1>5, <1>6, <1>7, <1>8, <1>9 DEF InternalNext

(***************************************************************************)
(* The inductive invariant of the addon's class: the stack of calls, the   *)
(* entries linked through it, and the three marks of every object agree.   *)
(***************************************************************************)
THEOREM InternalInvariant == InternalSpec => []InternalInv
BY InternalInvInit, InternalInvStep, PTL DEF InternalSpec

\* The variables of the addon keep their types.
THEOREM InternalTypes == InternalSpec => []InternalTypeOK
<1>1. InternalInv => InternalTypeOK BY DEF InternalInv
<1> QED BY <1>1, InternalInvariant, PTL

(***************************************************************************)
(* An OCALL reaches the object that holds the enclave it came from, for    *)
(* any number of objects and any depth of calls.                           *)
(***************************************************************************)
THEOREM InternalOcalls == InternalSpec => []OcallReachesItsWorker
<1>1. InternalInv => OcallReachesItsWorker
  <2>1. InternalInv => DOMAIN calls = 1..Len(calls)
    BY CallFacts DEF InternalInv, InternalTypeOK
  <2> QED BY <2>1 DEF InternalInv, HeldInv, OcallReachesItsWorker
<1> QED BY <1>1, InternalInvariant, PTL

(***************************************************************************)
(* The assertions on entry_info hold, for any number of objects and any    *)
(* depth of calls.                                                         *)
(***************************************************************************)
THEOREM InternalEntries == InternalSpec => []EntryIsOwn
<1>1. InternalInv => EntryIsOwn
  <2> SUFFICES ASSUME InternalInv PROVE EntryIsOwn OBVIOUS
  <2>1. calls \in Seq(Frame) /\ thread_entry = EntryAt(calls, Len(calls))
    BY DEF InternalInv, InternalTypeOK, StackInv
  <2>2. CASE calls = <<>>
    <3>1. Len(calls) = 0 BY <2>2, EmptySeq
    <3> QED BY <2>1, <2>2, <3>1 DEF EntryIsOwn, EntryAt, EnclaveRuns
  <2>3. CASE calls # <<>>
    <3>1. Len(calls) # 0 BY <2>1, <2>3, EmptySeq
    <3> QED BY <2>1, <2>3, <3>1 DEF EntryIsOwn, EntryAt, EnclaveRuns, Top
  <2> QED BY <2>2, <2>3
<1> QED BY <1>1, InternalInvariant, PTL

(***************************************************************************)
(* The id an object caches is never stale and no enclave is destroyed      *)
(* under an ECALL, for any number of objects and any depth of calls.       *)
(***************************************************************************)
THEOREM InternalIds == InternalSpec => []IdsAreCurrent
<1>1. InternalInv => IdsAreCurrent
  <2>1. InternalInv => DOMAIN calls = 1..Len(calls)
    BY CallFacts DEF InternalInv, InternalTypeOK
  <2> QED BY <2>1 DEF InternalInv, HeldInv, IdsInv, IdsAreCurrent
<1> QED BY <1>1, InternalInvariant, PTL

\* No enclave is leaked unless SGX refused to destroy it.
THEOREM InternalNoLeak == InternalSpec => []NothingLeaked
<1>1. InternalInv => NothingLeaked BY DEF InternalInv
<1> QED BY <1>1, InternalInvariant, PTL
=============================================================================

-------------------------- MODULE RealWorker_proofs --------------------------
(***************************************************************************)
(* Theorems of RealWorker for any listeners, any handlers and any number   *)
(* of messages, tasks and calls of terminate.                              *)
(***************************************************************************)
EXTENDS RealWorker, SequenceTheorems, TLAPS

(***************************************************************************)
(* The glue and its enclave: what lib/real.js holds says in which state    *)
(* the enclave is, unless it crashed.  A destroyed one that it still holds *)
(* is one that SGX refused to destroy.                                     *)
(***************************************************************************)
LifeInv ==
  /\ internal = "none" =>
       /\ state = "NASCENT" /\ crashed = "no" /\ pc = "idle" /\ ~destroyed
       /\ pse = 0
  /\ internal = "failed" => crashed # "no"
  /\ internal = "init" =>
       /\ pc # "finalize"
       /\ crashed # "no" \/ (state = "ACTIVE" /\ heap /\ pse = 1)
  /\ internal = "live" =>
       \/ crashed # "no" \/ destroyed
       \/ /\ state = (IF pc = "finalize" THEN "CLOSED" ELSE "ACTIVE")
          /\ heap /\ pse = 1
  /\ internal = "null" => destroyed /\ ~heap /\ pse = 0
  /\ destroyed => internal \in {"live", "null"} /\ state = "CLOSED" /\ pc = "idle"
  /\ pc # "idle" => internal \in {"init", "live"} /\ crashed = "no"
  /\ internal \notin {"live", "null"} => terminates = 0 /\ posted = 0

(***************************************************************************)
(* The callbacks under way.  Those of postMessage carry later and later    *)
(* messages; e is the number of messages the enclave has taken in, p that  *)
(* of those posted, b that of those posted before terminate.               *)
(***************************************************************************)
Increasing(q) ==
  \A i, j \in 1..Len(q) :
    i < j /\ q[i].kind = "post" /\ q[j].kind = "post"
      => q[i].message < q[j].message

Within(q, e, p) ==
  \A i \in 1..Len(q) :
    q[i].kind = "post" => q[i].message > e /\ q[i].message <= p

Complete(q, e, p) ==
  \A m \in (e + 1)..p :
    \E i \in 1..Len(q) : q[i].kind = "post" /\ q[i].message = m

NoTerminate(q) == \A i \in 1..Len(q) : q[i].kind # "terminate"

\* The first callback of terminate stands between those of the messages
\* posted before and after its call.
Divided(q, b) ==
  \E t \in 1..Len(q) :
    /\ q[t].kind = "terminate"
    /\ \A i \in 1..Len(q) :
         /\ i < t => /\ q[i].kind # "terminate"
                     /\ q[i].kind = "post" => q[i].message <= b
         /\ i > t /\ q[i].kind = "post" => q[i].message > b

Usable ==
  internal \in {"none", "init", "live"} /\ crashed = "no" /\ state # "CLOSED"

QueueInv ==
  /\ \A i \in 1..Len(emitted) : emitted[i] = i
  /\ Len(emitted) <= posted /\ postedBefore <= posted
  /\ Increasing(immediates) /\ Within(immediates, Len(emitted), posted)
  /\ Usable => Complete(immediates, Len(emitted), posted)
  /\ terminates = 0 => NoTerminate(immediates) /\ state # "CLOSED"
  /\ terminates > 0 => Len(emitted) <= postedBefore
  /\ Usable /\ terminates > 0 => Divided(immediates, postedBefore)
  /\ state = "CLOSED" => Len(emitted) = postedBefore

WorkerInv ==
  /\ WorkerTypeOK /\ emitted \in Seq(Nat) /\ posts \in Nat
  /\ LifeInv
  /\ QueueInv

-----------------------------------------------------------------------------
(***************************************************************************)
(* What the event loop's queue keeps when a callback is added.             *)
(***************************************************************************)
LEMMA AppendFacts ==
  ASSUME NEW q \in Seq(Callback), NEW c \in Callback
  PROVE  /\ Append(q, c) \in Seq(Callback) /\ Len(Append(q, c)) = Len(q) + 1
         /\ Len(q) \in Nat
         /\ \A i \in 1..Len(q) : Append(q, c)[i] = q[i] /\ q[i].message \in Nat
         /\ Append(q, c)[Len(q) + 1] = c
         /\ \A i \in 1..(Len(q) + 1) : i \in 1..Len(q) \/ i = Len(q) + 1
<1>1. \A i \in 1..Len(q) : q[i] \in Callback BY ElementOfSeq
<1>2. Len(q) \in Nat BY LenProperties
<1>3. \A i \in 1..Len(q) : q[i].message \in Nat BY <1>1 DEF Callback
<1>4. \A i \in 1..(Len(q) + 1) : i \in 1..Len(q) \/ i = Len(q) + 1 BY <1>2
<1> QED BY <1>2, <1>3, <1>4, AppendProperties

\* A callback that carries no message in: of the enclave's, or of terminate.
LEMMA AppendOther ==
  ASSUME NEW q \in Seq(Callback), NEW c \in Callback, c.kind # "post",
         NEW e \in Nat, NEW p \in Nat, NEW b \in Nat
  PROVE  LET r == Append(q, c)
         IN  /\ Increasing(q) => Increasing(r)
             /\ Within(q, e, p) => Within(r, e, p)
             /\ Complete(q, e, p) => Complete(r, e, p)
             /\ c.kind # "terminate" /\ NoTerminate(q) => NoTerminate(r)
             /\ Divided(q, b) => Divided(r, b)
             /\ c.kind = "terminate" /\ NoTerminate(q) /\ Within(q, e, p)
                  => Divided(r, p)
<1> DEFINE r == Append(q, c)
           n == Len(q)
<1>1. /\ n \in Nat /\ Len(r) = n + 1 /\ r[n + 1] = c
      /\ \A i \in 1..n : r[i] = q[i] /\ q[i].message \in Nat
      /\ \A i \in 1..(n + 1) : i \in 1..n \/ i = n + 1
  BY AppendFacts
<1> HIDE DEF r
<1>2. Increasing(q) => Increasing(r)
  BY <1>1 DEF Increasing
<1>3. Within(q, e, p) => Within(r, e, p)
  BY <1>1 DEF Within
<1>4. Complete(q, e, p) => Complete(r, e, p)
  <2> SUFFICES ASSUME Complete(q, e, p), NEW m \in (e + 1)..p
               PROVE  \E i \in 1..Len(r) : r[i].kind = "post" /\ r[i].message = m
    BY DEF Complete
  <2>1. PICK i \in 1..n : q[i].kind = "post" /\ q[i].message = m
    BY DEF Complete
  <2>2. i \in 1..Len(r) BY <1>1
  <2> QED BY <1>1, <2>1, <2>2
<1>5. c.kind # "terminate" /\ NoTerminate(q) => NoTerminate(r)
  BY <1>1 DEF NoTerminate
<1>6. Divided(q, b) => Divided(r, b)
  <2> SUFFICES ASSUME Divided(q, b) PROVE Divided(r, b) OBVIOUS
  <2>1. PICK t \in 1..n :
          /\ q[t].kind = "terminate"
          /\ \A i \in 1..n :
               /\ i < t => /\ q[i].kind # "terminate"
                           /\ q[i].kind = "post" => q[i].message <= b
               /\ i > t /\ q[i].kind = "post" => q[i].message > b
    BY DEF Divided
  <2>2. t \in 1..(n + 1) /\ ~(n + 1 < t) BY <1>1
  <2>3. \A i \in 1..(n + 1) :
          /\ i < t => /\ r[i].kind # "terminate"
                      /\ r[i].kind = "post" => r[i].message <= b
          /\ i > t /\ r[i].kind = "post" => r[i].message > b
    <3> SUFFICES ASSUME NEW i \in 1..(n + 1)
                 PROVE  /\ i < t => /\ r[i].kind # "terminate"
                                    /\ r[i].kind = "post" => r[i].message <= b
                        /\ i > t /\ r[i].kind = "post" => r[i].message > b
      OBVIOUS
    <3>1. CASE i \in 1..n BY <1>1, <2>1, <3>1
    <3>2. CASE i = n + 1 BY <1>1, <2>2, <3>2
    <3> QED BY <1>1, <3>1, <3>2
  <2> QED BY <1>1, <2>1, <2>2, <2>3 DEF Divided
<1>7. c.kind = "terminate" /\ NoTerminate(q) /\ Within(q, e, p) => Divided(r, p)
  <2> SUFFICES ASSUME c.kind = "terminate", NoTerminate(q), Within(q, e, p)
               PROVE  Divided(r, p)
    OBVIOUS
  <2>1. \A i \in 1..n : /\ r[i].kind # "terminate"
                        /\ r[i].kind = "post" => r[i].message <= p
    BY <1>1 DEF NoTerminate, Within
  <2>2. n + 1 \in 1..(n + 1) BY <1>1
  <2>3. \A i \in 1..(n + 1) : ~(i > n + 1) /\ (i < n + 1 => i \in 1..n)
    BY <1>1
  <2> QED BY <1>1, <2>1, <2>2, <2>3 DEF Divided
<1> QED BY <1>2, <1>3, <1>4, <1>5, <1>6, <1>7 DEF r

\* The callback of the next message.
LEMMA AppendPost ==
  ASSUME NEW q \in Seq(Callback), NEW c \in Callback,
         NEW e \in Nat, NEW p \in Nat, NEW b \in Nat, b <= p, e <= p,
         c.kind = "post", c.message = p + 1,
         Increasing(q), Within(q, e, p)
  PROVE  LET r == Append(q, c)
         IN  /\ Increasing(r) /\ Within(r, e, p + 1)
             /\ Complete(q, e, p) => Complete(r, e, p + 1)
             /\ NoTerminate(q) => NoTerminate(r)
             /\ Divided(q, b) => Divided(r, b)
<1> DEFINE r == Append(q, c)
           n == Len(q)
<1>1. /\ n \in Nat /\ Len(r) = n + 1 /\ r[n + 1] = c
      /\ \A i \in 1..n : r[i] = q[i] /\ q[i].message \in Nat
      /\ \A i \in 1..(n + 1) : i \in 1..n \/ i = n + 1
  BY AppendFacts
<1> HIDE DEF r
<1>2. \A i \in 1..n : q[i].kind = "post" => q[i].message > e /\ q[i].message <= p
  BY DEF Within
<1>3. Increasing(r)
  <2> SUFFICES ASSUME NEW i \in 1..(n + 1), NEW j \in 1..(n + 1),
                      i < j, r[i].kind = "post", r[j].kind = "post"
               PROVE  r[i].message < r[j].message
    BY <1>1 DEF Increasing
  <2>1. i \in 1..n BY <1>1
  <2>2. CASE j \in 1..n BY <1>1, <2>1, <2>2 DEF Increasing
  <2>3. CASE j = n + 1
    <3>1. r[i].message \in Nat /\ r[i].message <= p BY <1>1, <1>2, <2>1
    <3> QED BY <1>1, <2>3, <3>1
  <2> QED BY <1>1, <2>2, <2>3
<1>4. Within(r, e, p + 1)
  <2> SUFFICES ASSUME NEW i \in 1..(n + 1), r[i].kind = "post"
               PROVE  r[i].message > e /\ r[i].message <= p + 1
    BY <1>1 DEF Within
  <2>1. CASE i \in 1..n
    <3>1. r[i].message \in Nat /\ r[i].message > e /\ r[i].message <= p
      BY <1>1, <1>2, <2>1
    <3> QED BY <3>1
  <2>2. CASE i = n + 1 BY <1>1, <2>2
  <2> QED BY <1>1, <2>1, <2>2
<1>5. Complete(q, e, p) => Complete(r, e, p + 1)
  <2> SUFFICES ASSUME Complete(q, e, p), NEW m \in (e + 1)..(p + 1)
               PROVE  \E i \in 1..(n + 1) : r[i].kind = "post" /\ r[i].message = m
    BY <1>1 DEF Complete
  <2>1. m \in (e + 1)..p \/ m = p + 1 OBVIOUS
  <2>2. CASE m \in (e + 1)..p
    <3>1. PICK i \in 1..n : q[i].kind = "post" /\ q[i].message = m
      BY <2>2 DEF Complete
    <3>2. i \in 1..(n + 1) BY <1>1
    <3> QED BY <1>1, <3>1, <3>2
  <2>3. CASE m = p + 1
    <3>1. n + 1 \in 1..(n + 1) BY <1>1
    <3> QED BY <1>1, <2>3, <3>1
  <2> QED BY <2>1, <2>2, <2>3
<1>6. NoTerminate(q) => NoTerminate(r)
  BY <1>1 DEF NoTerminate
<1>7. Divided(q, b) => Divided(r, b)
  <2> SUFFICES ASSUME Divided(q, b) PROVE Divided(r, b) OBVIOUS
  <2>1. PICK t \in 1..n :
          /\ q[t].kind = "terminate"
          /\ \A i \in 1..n :
               /\ i < t => /\ q[i].kind # "terminate"
                           /\ q[i].kind = "post" => q[i].message <= b
               /\ i > t /\ q[i].kind = "post" => q[i].message > b
    BY DEF Divided
  <2>2. t \in 1..(n + 1) /\ ~(n + 1 < t) /\ p + 1 > b BY <1>1
  <2>3. \A i \in 1..(n + 1) :
          /\ i < t => /\ r[i].kind # "terminate"
                      /\ r[i].kind = "post" => r[i].message <= b
          /\ i > t /\ r[i].kind = "post" => r[i].message > b
    <3> SUFFICES ASSUME NEW i \in 1..(n + 1)
                 PROVE  /\ i < t => /\ r[i].kind # "terminate"
                                    /\ r[i].kind = "post" => r[i].message <= b
                        /\ i > t /\ r[i].kind = "post" => r[i].message > b
      OBVIOUS
    <3>1. CASE i \in 1..n BY <1>1, <2>1, <3>1
    <3>2. CASE i = n + 1 BY <1>1, <2>2, <3>2
    <3> QED BY <1>1, <3>1, <3>2
  <2> QED BY <1>1, <2>1, <2>2, <2>3 DEF Divided
<1> QED BY <1>3, <1>4, <1>5, <1>6, <1>7 DEF r

-----------------------------------------------------------------------------
(***************************************************************************)
(* What it keeps when the event loop takes its first callback.             *)
(***************************************************************************)
LEMMA TailFacts ==
  ASSUME NEW q \in Seq(Callback), q # <<>>
  PROVE  /\ Len(q) \in Nat /\ Len(q) >= 1
         /\ Head(q) = q[1] /\ Head(q) \in Callback
         /\ Tail(q) \in Seq(Callback) /\ Len(Tail(q)) = Len(q) - 1
         /\ \A i \in 1..(Len(q) - 1) : Tail(q)[i] = q[i + 1] /\ i + 1 \in 1..Len(q)
         /\ \A i \in 1..Len(q) : i = 1 \/ i - 1 \in 1..(Len(q) - 1)
         /\ \A i \in 1..Len(q) : q[i].message \in Nat
<1>1. Len(q) \in Nat /\ Len(q) >= 1
  BY EmptySeq, LenProperties
<1>2. /\ Head(q) = q[1] /\ Head(q) \in Callback
      /\ Tail(q) \in Seq(Callback) /\ Len(Tail(q)) = Len(q) - 1
      /\ \A i \in 1..(Len(q) - 1) : Tail(q)[i] = q[i + 1]
  BY HeadTailProperties
<1>3. \A i \in 1..Len(q) : q[i] \in Callback
  BY ElementOfSeq
<1>4. \A i \in 1..Len(q) : q[i].message \in Nat
  BY <1>3 DEF Callback
<1>5. /\ \A i \in 1..(Len(q) - 1) : i + 1 \in 1..Len(q)
      /\ \A i \in 1..Len(q) : i = 1 \/ i - 1 \in 1..(Len(q) - 1)
  BY <1>1
<1> QED BY <1>1, <1>2, <1>4, <1>5

\* A callback is taken that carries no message in.
LEMMA TailOther ==
  ASSUME NEW q \in Seq(Callback), q # <<>>,
         NEW e \in Nat, NEW p \in Nat, NEW b \in Nat
  PROVE  LET r == Tail(q)
         IN  /\ Increasing(q) => Increasing(r)
             /\ Within(q, e, p) => Within(r, e, p)
             /\ NoTerminate(q) => NoTerminate(r)
             /\ Head(q).kind # "post" /\ Complete(q, e, p) => Complete(r, e, p)
             /\ Head(q).kind # "terminate" /\ Divided(q, b) => Divided(r, b)
<1> DEFINE r == Tail(q)
           n == Len(q)
<1>1. /\ n \in Nat /\ n >= 1 /\ Head(q) = q[1] /\ Len(r) = n - 1
      /\ \A i \in 1..(n - 1) : r[i] = q[i + 1] /\ i + 1 \in 1..n
      /\ \A i \in 1..n : i = 1 \/ i - 1 \in 1..(n - 1)
  BY TailFacts
<1> HIDE DEF r
<1>2. Increasing(q) => Increasing(r)
  <2> SUFFICES ASSUME Increasing(q), NEW i \in 1..(n - 1), NEW j \in 1..(n - 1),
                      i < j, r[i].kind = "post", r[j].kind = "post"
               PROVE  r[i].message < r[j].message
    BY <1>1 DEF Increasing
  <2>1. i + 1 \in 1..n /\ j + 1 \in 1..n /\ i + 1 < j + 1 BY <1>1
  <2> QED BY <1>1, <2>1 DEF Increasing
<1>3. Within(q, e, p) => Within(r, e, p)
  BY <1>1 DEF Within
<1>4. NoTerminate(q) => NoTerminate(r)
  BY <1>1 DEF NoTerminate
<1>5. Head(q).kind # "post" /\ Complete(q, e, p) => Complete(r, e, p)
  <2> SUFFICES ASSUME Head(q).kind # "post", Complete(q, e, p), NEW m \in (e + 1)..p
               PROVE  \E i \in 1..(n - 1) : r[i].kind = "post" /\ r[i].message = m
    BY <1>1 DEF Complete
  <2>1. PICK i \in 1..n : q[i].kind = "post" /\ q[i].message = m
    BY DEF Complete
  <2>2. i - 1 \in 1..(n - 1) /\ i - 1 + 1 = i BY <1>1, <2>1
  <2> QED BY <1>1, <2>1, <2>2
<1>6. Head(q).kind # "terminate" /\ Divided(q, b) => Divided(r, b)
  <2> SUFFICES ASSUME Head(q).kind # "terminate", Divided(q, b)
               PROVE  Divided(r, b)
    OBVIOUS
  <2>1. PICK t \in 1..n :
          /\ q[t].kind = "terminate"
          /\ \A i \in 1..n :
               /\ i < t => /\ q[i].kind # "terminate"
                           /\ q[i].kind = "post" => q[i].message <= b
               /\ i > t /\ q[i].kind = "post" => q[i].message > b
    BY DEF Divided
  <2>2. t - 1 \in 1..(n - 1) /\ t - 1 + 1 = t BY <1>1, <2>1
  <2>3. \A i \in 1..(n - 1) : /\ i < t - 1 => i + 1 < t
                              /\ i > t - 1 => i + 1 > t
    BY <2>2
  <2>4. \A i \in 1..(n - 1) :
          /\ i < t - 1 => /\ r[i].kind # "terminate"
                          /\ r[i].kind = "post" => r[i].message <= b
          /\ i > t - 1 /\ r[i].kind = "post" => r[i].message > b
    BY <1>1, <2>1, <2>3
  <2>5. r[t - 1].kind = "terminate" BY <1>1, <2>1, <2>2
  <2> QED BY <1>1, <2>2, <2>4, <2>5 DEF Divided
<1> QED BY <1>2, <1>3, <1>4, <1>5, <1>6 DEF r

\* The callback of the next message is taken, and the message taken in.
LEMMA TailPost ==
  ASSUME NEW q \in Seq(Callback), q # <<>>, Head(q).kind = "post",
         NEW e \in Nat, NEW p \in Nat, NEW b \in Nat,
         Increasing(q), Within(q, e, p), Complete(q, e, p)
  PROVE  /\ Head(q).message = e + 1 /\ e + 1 <= p
         /\ Within(Tail(q), e + 1, p) /\ Complete(Tail(q), e + 1, p)
         /\ Divided(q, b) => e + 1 <= b
<1> DEFINE r == Tail(q)
           n == Len(q)
<1>1. /\ n \in Nat /\ n >= 1 /\ Head(q) = q[1] /\ Len(r) = n - 1
      /\ \A i \in 1..(n - 1) : r[i] = q[i + 1] /\ i + 1 \in 1..n
      /\ \A i \in 1..n : i = 1 \/ i - 1 \in 1..(n - 1)
      /\ \A i \in 1..n : q[i].message \in Nat
  BY TailFacts
<1> HIDE DEF r
<1>2. 1 \in 1..n /\ q[1].kind = "post" BY <1>1
<1>3. q[1].message > e /\ q[1].message <= p /\ q[1].message \in Nat
  BY <1>1, <1>2 DEF Within
<1>4. q[1].message = e + 1
  <2>1. e + 1 \in (e + 1)..p BY <1>3
  <2>2. PICK i \in 1..n : q[i].kind = "post" /\ q[i].message = e + 1
    BY <2>1 DEF Complete
  <2>3. i = 1 \/ q[1].message < e + 1
    <3>1. i = 1 \/ 1 < i OBVIOUS
    <3> QED BY <1>2, <2>2, <3>1 DEF Increasing
  <2> QED BY <1>3, <2>2, <2>3
<1>5. Within(r, e + 1, p)
  <2> SUFFICES ASSUME NEW i \in 1..(n - 1), r[i].kind = "post"
               PROVE  r[i].message > e + 1 /\ r[i].message <= p
    BY <1>1 DEF Within
  <2>1. i + 1 \in 1..n /\ 1 < i + 1 /\ r[i] = q[i + 1] BY <1>1
  <2>2. q[1].message < q[i + 1].message /\ q[i + 1].message <= p
    BY <1>2, <2>1 DEF Increasing, Within
  <2> QED BY <1>4, <2>1, <2>2
<1>6. Complete(r, e + 1, p)
  <2> SUFFICES ASSUME NEW m \in (e + 1 + 1)..p
               PROVE  \E i \in 1..(n - 1) : r[i].kind = "post" /\ r[i].message = m
    BY <1>1 DEF Complete
  <2>1. m \in (e + 1)..p /\ m # e + 1 OBVIOUS
  <2>2. PICK i \in 1..n : q[i].kind = "post" /\ q[i].message = m
    BY <2>1 DEF Complete
  <2>3. i - 1 \in 1..(n - 1) /\ i - 1 + 1 = i BY <1>1, <1>4, <2>1, <2>2
  <2> QED BY <1>1, <2>2, <2>3
<1>7. Divided(q, b) => e + 1 <= b
  <2> SUFFICES ASSUME Divided(q, b) PROVE e + 1 <= b OBVIOUS
  <2>1. PICK t \in 1..n :
          /\ q[t].kind = "terminate"
          /\ \A i \in 1..n :
               i < t /\ q[i].kind = "post" => q[i].message <= b
    BY DEF Divided
  <2>2. 1 < t BY <1>2, <2>1
  <2> QED BY <1>2, <1>4, <2>1, <2>2
<1> QED BY <1>1, <1>3, <1>4, <1>5, <1>6, <1>7 DEF r

\* When the first terminate is taken, every earlier message has been.
LEMMA TailTerminate ==
  ASSUME NEW q \in Seq(Callback), q # <<>>, Head(q).kind = "terminate",
         NEW e \in Nat, NEW p \in Nat, NEW b \in Nat, e <= b, b <= p,
         Complete(q, e, p), Divided(q, b)
  PROVE  e = b
<1> DEFINE n == Len(q)
<1>1. n \in Nat /\ n >= 1 /\ Head(q) = q[1]
  BY TailFacts
<1>2. PICK t \in 1..n :
        /\ q[t].kind = "terminate"
        /\ \A i \in 1..n :
             /\ i < t => q[i].kind # "terminate"
             /\ i > t /\ q[i].kind = "post" => q[i].message > b
  BY DEF Divided
<1>3. t = 1
  <2>1. 1 \in 1..n /\ ~(1 < t) BY <1>1, <1>2
  <2> QED BY <2>1
<1>4. ASSUME e # b PROVE FALSE
  <2>1. b \in (e + 1)..p BY <1>4
  <2>2. PICK i \in 1..n : q[i].kind = "post" /\ q[i].message = b
    BY <2>1 DEF Complete
  <2>3. i > t BY <1>1, <1>3, <2>2
  <2>4. b > b BY <1>2, <2>2, <2>3
  <2> QED BY <2>4
<1> QED BY <1>4

-----------------------------------------------------------------------------
(***************************************************************************)
(* What runs inside an ECALL moves neither the enclave's life nor what     *)
(* lib/real.js holds.                                                      *)
(***************************************************************************)
LEMMA ReturnsKeep ==
  Trusted!CodeReturns
    => /\ pc \notin {"idle", "finalize"} /\ pc' # "finalize"
       /\ UNCHANGED <<state, heap, pse, crashed, emitted, posts>>
<1>1. Trusted!ScriptEnds \/ Trusted!DispatchNext \/ Trusted!HandlerEnds
        => /\ pc \notin {"idle", "finalize"} /\ pc' # "finalize"
           /\ UNCHANGED <<state, heap, pse, crashed, emitted, posts>>
  BY DEF Trusted!ScriptEnds, Trusted!DispatchNext, Trusted!HandlerEnds,
         Trusted!lifeVars, Trusted!jsVars, Trusted!emitVars
<1>2. Trusted!HandlerThrowsNull \/ Trusted!DispatchDone
        => /\ pc \notin {"idle", "finalize"} /\ pc' # "finalize"
           /\ UNCHANGED <<state, heap, pse, crashed, emitted, posts>>
  BY DEF Trusted!HandlerThrowsNull, Trusted!DispatchDone,
         Trusted!lifeVars, Trusted!jsVars, Trusted!emitVars
<1>3. Trusted!SpinNext \/ Trusted!TaskEnds \/ Trusted!SpinDone
        => /\ pc \notin {"idle", "finalize"} /\ pc' # "finalize"
           /\ UNCHANGED <<state, heap, pse, crashed, emitted, posts>>
  BY DEF Trusted!SpinNext, Trusted!TaskEnds, Trusted!SpinDone,
         Trusted!lifeVars, Trusted!jsVars, Trusted!emitVars
<1> QED BY <1>1, <1>2, <1>3 DEF Trusted!CodeReturns

\* Code that runs in the enclave leaves alone what the host can see of it.
LEMMA CallsKeep ==
  EnclaveCalls
    => pc # "idle" /\ UNCHANGED <<state, heap, pse, crashed, pc, emitted, posts>>
<1> SUFFICES ASSUME EnclaveCalls
             PROVE  /\ pc \in Trusted!AppCode
                    /\ UNCHANGED <<state, heap, pse, crashed, pc, emitted, posts>>
  BY DEF Trusted!AppCode
<1>1. CASE \E h \in Handler : Trusted!OnMessage(h)
  BY <1>1 DEF Trusted!OnMessage, Trusted!lifeVars, Trusted!emitVars
<1>2. CASE \E h \in Handler : Trusted!RemoveOnMessage(h)
  BY <1>2 DEF Trusted!RemoveOnMessage, Trusted!lifeVars, Trusted!emitVars
<1>3. CASE Trusted!ImportFramework
  BY <1>3 DEF Trusted!ImportFramework, Trusted!lifeVars, Trusted!emitVars
<1>4. CASE Trusted!NextTick
  BY <1>4 DEF Trusted!NextTick, Trusted!lifeVars, Trusted!emitVars
<1> QED BY <1>1, <1>2, <1>3, <1>4 DEF EnclaveCalls

\* So it keeps the invariant of the worker.
LEMMA InsideStep ==
  ASSUME WorkerInv, pc # "idle", pc' = "finalize" <=> pc = "finalize",
         UNCHANGED jsSideVars,
         UNCHANGED <<state, heap, pse, crashed, emitted, posts>>
  PROVE  WorkerInv'
<1>1. (WorkerTypeOK /\ emitted \in Seq(Nat) /\ posts \in Nat)'
  BY DEF WorkerInv, WorkerTypeOK, jsSideVars
<1>2. LifeInv'
  BY DEF WorkerInv, LifeInv, jsSideVars
<1>3. QueueInv'
  BY DEF WorkerInv, QueueInv, Usable, jsSideVars
<1> QED BY <1>1, <1>2, <1>3 DEF WorkerInv

-----------------------------------------------------------------------------
(***************************************************************************)
(* The invariant holds in the initial state and after every step.          *)
(***************************************************************************)
LEMMA WorkerInvInit == WorkerInit => WorkerInv
<1> SUFFICES ASSUME WorkerInit PROVE WorkerInv OBVIOUS
<1>1. immediates = <<>> /\ emitted = <<>> /\ posts = 0
  BY DEF WorkerInit, Trusted!EnclaveInit
<1>2. WorkerTypeOK /\ emitted \in Seq(Nat) /\ posts \in Nat
  BY <1>1, EmptySeq DEF WorkerInit, WorkerTypeOK
<1>3. LifeInv
  BY DEF WorkerInit, Trusted!EnclaveInit, LifeInv
<1>4. QueueInv
  <2>1. state = "NASCENT" BY DEF WorkerInit, Trusted!EnclaveInit
  <2> QED BY <1>1, <2>1
          DEF WorkerInit, QueueInv, Increasing, Within, Complete, NoTerminate
<1> QED BY <1>2, <1>3, <1>4 DEF WorkerInv

\* The constructor creates an enclave and enters it.
LEMMA NewStep == ASSUME WorkerInv, New PROVE WorkerInv'
<1>1. /\ state' = "ACTIVE" /\ crashed = "no" /\ UNCHANGED <<emitted, posts>>
      /\ crashed' # "no" => pc' = "idle"
      /\ pc' # "finalize"
      /\ crashed' # "no" \/ (heap' /\ pse' = pse + 1)
  BY DEF New, Trusted!EcallInit, Trusted!Enter, Trusted!Abort,
         Trusted!jsVars, Trusted!emitVars
<1>2. /\ internal = "none" /\ internal' = "init"
      /\ UNCHANGED <<destroyed, immediates, posted, terminates, postedBefore, exited>>
  BY DEF New
<1>3. (WorkerTypeOK /\ emitted \in Seq(Nat) /\ posts \in Nat)'
  BY <1>1, <1>2 DEF WorkerInv, WorkerTypeOK
<1>4. LifeInv'
  BY <1>1, <1>2 DEF WorkerInv, LifeInv
<1>5. QueueInv'
  BY <1>1, <1>2 DEF WorkerInv, QueueInv, Usable, LifeInv
<1> QED BY <1>3, <1>4, <1>5 DEF WorkerInv

\* The constructor ends, with or without an exception.
LEMMA ConstructorEndsStep == ASSUME WorkerInv, ConstructorEnds PROVE WorkerInv'
<1>1. /\ internal = "init" /\ pc = "idle"
      /\ internal' = IF crashed = "no" THEN "live" ELSE "failed"
      /\ UNCHANGED <<destroyed, immediates, posted, terminates, postedBefore, exited>>
      /\ UNCHANGED <<state, heap, pse, crashed, pc, emitted, posts>>
  BY DEF ConstructorEnds, enclaveVars
<1>2. (WorkerTypeOK /\ emitted \in Seq(Nat) /\ posts \in Nat)'
  BY <1>1 DEF WorkerInv, WorkerTypeOK
<1>3. LifeInv'
  BY <1>1 DEF WorkerInv, LifeInv
<1>4. QueueInv'
  BY <1>1 DEF WorkerInv, QueueInv, Usable
<1> QED BY <1>2, <1>3, <1>4 DEF WorkerInv

\* worker.postMessage only queues its callback.
LEMMA PostMessageStep == ASSUME WorkerInv, PostMessage PROVE WorkerInv'
<1> DEFINE c == [kind |-> "post", message |-> posted + 1]
<1>1. /\ posted' = posted + 1 /\ immediates' = Append(immediates, c)
      /\ internal \in {"live", "null"}
      /\ UNCHANGED <<internal, destroyed, terminates, postedBefore, exited>>
      /\ UNCHANGED <<state, heap, pse, crashed, pc, emitted, posts>>
  BY DEF PostMessage, AppTurn, SetImmediate, enclaveVars
<1>2. /\ immediates \in Seq(Callback) /\ c \in Callback
      /\ c.kind = "post" /\ c.message = posted + 1
      /\ posted \in Nat /\ postedBefore \in Nat /\ Len(emitted) \in Nat
      /\ postedBefore <= posted /\ Len(emitted) <= posted
      /\ Increasing(immediates) /\ Within(immediates, Len(emitted), posted)
  BY LenProperties DEF WorkerInv, WorkerTypeOK, QueueInv, Callback
<1> HIDE DEF c
<1>3. /\ Increasing(immediates') /\ Within(immediates', Len(emitted), posted + 1)
      /\ Complete(immediates, Len(emitted), posted)
           => Complete(immediates', Len(emitted), posted + 1)
      /\ NoTerminate(immediates) => NoTerminate(immediates')
      /\ Divided(immediates, postedBefore) => Divided(immediates', postedBefore)
  BY <1>1, <1>2, AppendPost
<1>4. (WorkerTypeOK /\ emitted \in Seq(Nat) /\ posts \in Nat)'
  <2>1. immediates' \in Seq(Callback) BY <1>1, <1>2, AppendFacts
  <2> QED BY <1>1, <2>1 DEF WorkerInv, WorkerTypeOK
<1>5. LifeInv'
  BY <1>1 DEF WorkerInv, LifeInv
<1>6. QueueInv'
  BY <1>1, <1>2, <1>3 DEF WorkerInv, QueueInv, Usable
<1> QED BY <1>4, <1>5, <1>6 DEF WorkerInv

\* worker.terminate only queues its callback, behind those of the messages.
LEMMA TerminateStep == ASSUME WorkerInv, Terminate PROVE WorkerInv'
<1> DEFINE c == [kind |-> "terminate", message |-> 0]
<1>1. /\ terminates' = terminates + 1 /\ immediates' = Append(immediates, c)
      /\ postedBefore' = IF terminates = 0 THEN posted ELSE postedBefore
      /\ internal \in {"live", "null"}
      /\ UNCHANGED <<internal, destroyed, posted, exited>>
      /\ UNCHANGED <<state, heap, pse, crashed, pc, emitted, posts>>
  BY DEF Terminate, AppTurn, SetImmediate, enclaveVars
<1>2. /\ immediates \in Seq(Callback) /\ c \in Callback /\ c.kind = "terminate"
      /\ posted \in Nat /\ postedBefore \in Nat /\ Len(emitted) \in Nat
      /\ terminates \in Nat
      /\ Increasing(immediates) /\ Within(immediates, Len(emitted), posted)
  BY LenProperties DEF WorkerInv, WorkerTypeOK, QueueInv, Callback
<1> HIDE DEF c
<1>3. /\ Increasing(immediates') /\ Within(immediates', Len(emitted), posted)
      /\ Complete(immediates, Len(emitted), posted)
           => Complete(immediates', Len(emitted), posted)
      /\ Divided(immediates, postedBefore) => Divided(immediates', postedBefore)
      /\ NoTerminate(immediates) => Divided(immediates', posted)
  BY <1>1, <1>2, AppendOther
<1>4. (WorkerTypeOK /\ emitted \in Seq(Nat) /\ posts \in Nat)'
  <2>1. immediates' \in Seq(Callback) BY <1>1, <1>2, AppendFacts
  <2> QED BY <1>1, <1>2, <2>1 DEF WorkerInv, WorkerTypeOK
<1>5. LifeInv'
  BY <1>1, <1>2 DEF WorkerInv, LifeInv
<1>6. QueueInv'
  <2>1. CASE terminates = 0
    BY <1>1, <1>2, <1>3, <2>1 DEF WorkerInv, QueueInv, Usable
  <2>2. CASE terminates > 0
    BY <1>1, <1>2, <1>3, <2>2 DEF WorkerInv, QueueInv, Usable
  <2> QED BY <1>2, <2>1, <2>2
<1> QED BY <1>4, <1>5, <1>6 DEF WorkerInv

\* The port and the application's listeners touch nothing of this.
LEMMA PortStep ==
  ASSUME WorkerInv, ChangeListeners \/ PortRuns PROVE WorkerInv'
<1>1. /\ UNCHANGED <<internal, destroyed, immediates, posted, terminates,
                     postedBefore>>
      /\ UNCHANGED <<state, heap, pse, crashed, pc, emitted, posts>>
  BY DEF ChangeListeners, PortRuns, enclaveVars, jsSideVars
<1>2. exited' \in BOOLEAN
  <2>1. CASE ChangeListeners
    BY <2>1 DEF ChangeListeners, jsSideVars, WorkerInv, WorkerTypeOK
  <2>2. CASE PortRuns
    BY <2>2 DEF PortRuns, Uncaught, WorkerInv, WorkerTypeOK
  <2> QED BY <2>1, <2>2
<1>3. (WorkerTypeOK /\ emitted \in Seq(Nat) /\ posts \in Nat)'
  BY <1>1, <1>2 DEF WorkerInv, WorkerTypeOK
<1>4. LifeInv'
  BY <1>1 DEF WorkerInv, LifeInv
<1>5. QueueInv'
  BY <1>1 DEF WorkerInv, QueueInv, Usable
<1> QED BY <1>3, <1>4, <1>5 DEF WorkerInv

\* Code in the enclave posts a message: a callback is queued for it.
LEMMA EnclavePostsStep == ASSUME WorkerInv, EnclavePosts PROVE WorkerInv'
<1> DEFINE c == [kind |-> "emit", message |-> posts + 1]
<1>1. /\ immediates' = Append(immediates, c) /\ posts' = posts + 1
      /\ UNCHANGED <<internal, destroyed, posted, terminates, postedBefore, exited>>
      /\ UNCHANGED <<state, heap, pse, crashed, pc, emitted>>
  BY DEF EnclavePosts, SetImmediate, Trusted!PostMessage,
         Trusted!lifeVars, Trusted!emitVars
<1>2. /\ immediates \in Seq(Callback) /\ c \in Callback /\ c.kind = "emit"
      /\ posted \in Nat /\ postedBefore \in Nat /\ Len(emitted) \in Nat
      /\ Increasing(immediates) /\ Within(immediates, Len(emitted), posted)
  BY LenProperties DEF WorkerInv, WorkerTypeOK, QueueInv, Callback
<1> HIDE DEF c
<1>3. /\ Increasing(immediates') /\ Within(immediates', Len(emitted), posted)
      /\ Complete(immediates, Len(emitted), posted)
           => Complete(immediates', Len(emitted), posted)
      /\ NoTerminate(immediates) => NoTerminate(immediates')
      /\ Divided(immediates, postedBefore) => Divided(immediates', postedBefore)
  BY <1>1, <1>2, AppendOther
<1>4. (WorkerTypeOK /\ emitted \in Seq(Nat) /\ posts \in Nat)'
  <2>1. immediates' \in Seq(Callback) BY <1>1, <1>2, AppendFacts
  <2> QED BY <1>1, <2>1 DEF WorkerInv, WorkerTypeOK
<1>5. LifeInv'
  BY <1>1 DEF WorkerInv, LifeInv
<1>6. QueueInv'
  BY <1>1, <1>2, <1>3 DEF WorkerInv, QueueInv, Usable
<1> QED BY <1>4, <1>5, <1>6 DEF WorkerInv

\* The enclave crashes, in whatever call it is.
LEMMA EnclaveDiesStep == ASSUME WorkerInv, EnclaveDies PROVE WorkerInv'
<1>1. /\ pc # "idle" /\ pc' = "idle" /\ crashed' = "fatal"
      /\ UNCHANGED <<internal, destroyed, immediates, posted, terminates,
                     postedBefore>>
      /\ UNCHANGED <<state, heap, pse, emitted, posts>>
  BY DEF EnclaveDies, Trusted!Fatal, Trusted!Abort, Trusted!lifeVars,
         Trusted!jsVars, Trusted!emitVars
<1>2. exited' \in BOOLEAN
  BY DEF EnclaveDies, Uncaught, WorkerInv, WorkerTypeOK
<1>3. (WorkerTypeOK /\ emitted \in Seq(Nat) /\ posts \in Nat)'
  BY <1>1, <1>2 DEF WorkerInv, WorkerTypeOK
<1>4. LifeInv'
  BY <1>1 DEF WorkerInv, LifeInv
<1>5. QueueInv'
  BY <1>1 DEF WorkerInv, QueueInv, Usable
<1> QED BY <1>3, <1>4, <1>5 DEF WorkerInv

\* The event loop takes a callback: what holds whichever it is.
LEMMA TurnFacts ==
  ASSUME WorkerInv, immediates # <<>>
  PROVE  /\ immediates \in Seq(Callback) /\ Tail(immediates) \in Seq(Callback)
         /\ posted \in Nat /\ postedBefore \in Nat /\ terminates \in Nat
         /\ Len(emitted) \in Nat
         /\ Increasing(immediates) /\ Within(immediates, Len(emitted), posted)
         /\ Increasing(Tail(immediates))
         /\ Within(Tail(immediates), Len(emitted), posted)
         /\ NoTerminate(immediates)
              => /\ NoTerminate(Tail(immediates))
                 /\ Head(immediates).kind # "terminate"
         /\ Head(immediates).kind = "post" => posted > 0
         /\ Head(immediates).kind # "post"
            /\ Complete(immediates, Len(emitted), posted)
              => Complete(Tail(immediates), Len(emitted), posted)
         /\ Head(immediates).kind # "terminate"
            /\ Divided(immediates, postedBefore)
              => Divided(Tail(immediates), postedBefore)
<1>1. /\ immediates \in Seq(Callback) /\ emitted \in Seq(Nat)
      /\ posted \in Nat /\ postedBefore \in Nat /\ terminates \in Nat
      /\ Increasing(immediates) /\ Within(immediates, Len(emitted), posted)
  BY DEF WorkerInv, WorkerTypeOK, QueueInv
<1>2. Len(emitted) \in Nat
  BY <1>1, LenProperties
<1>3. /\ Tail(immediates) \in Seq(Callback)
      /\ Head(immediates) = immediates[1] /\ 1 \in 1..Len(immediates)
  BY <1>1, TailFacts
<1>4. NoTerminate(immediates) => Head(immediates).kind # "terminate"
  BY <1>3 DEF NoTerminate
<1>5. Head(immediates).kind = "post" => posted > 0
  <2>1. immediates[1].message \in Nat BY <1>1, <1>3, TailFacts
  <2> QED BY <1>1, <1>2, <1>3, <2>1 DEF Within
<1> QED BY <1>1, <1>2, <1>3, <1>4, <1>5, TailOther

\* The callback finds a closed enclave, which aborts.
LEMMA AbortStep ==
  ASSUME WorkerInv, immediates # <<>>, immediates' = Tail(immediates),
         internal \in {"live", "null"}, exited' \in BOOLEAN,
         UNCHANGED <<internal, destroyed, posted, terminates, postedBefore>>,
         EnclaveAborts
  PROVE  WorkerInv'
<1>1. /\ crashed' = "state" /\ pc = "idle" /\ pc' = "idle"
      /\ UNCHANGED <<state, heap, pse, emitted, posts>>
  BY DEF EnclaveAborts, Trusted!WrongState, Trusted!Enter, Trusted!Abort,
         Trusted!lifeVars, Trusted!jsVars, Trusted!emitVars
<1>2. (WorkerTypeOK /\ emitted \in Seq(Nat) /\ posts \in Nat)'
  BY <1>1, TurnFacts DEF WorkerInv, WorkerTypeOK
<1>3. LifeInv'
  BY <1>1 DEF WorkerInv, LifeInv
<1>4. QueueInv'
  BY <1>1, TurnFacts DEF WorkerInv, QueueInv, Usable
<1> QED BY <1>2, <1>3, <1>4 DEF WorkerInv

\* A message that finds its enclave gone or crashed is dropped.
LEMMA RunPostStep == ASSUME WorkerInv, RunPost PROVE WorkerInv'
<1> DEFINE m == Head(immediates).message
<1>1. /\ immediates # <<>> /\ Head(immediates).kind = "post"
      /\ immediates' = Tail(immediates)
      /\ UNCHANGED <<internal, destroyed, posted, terminates, postedBefore>>
      /\ pc = "idle" /\ internal # "init"
  BY DEF RunPost, NextIs, LoopTurn, RestOfImmediates
<1>2. exited' \in BOOLEAN
  BY DEF RunPost, Uncaught, WorkerInv, WorkerTypeOK
<1>3. CASE Unusable /\ UNCHANGED enclaveVars
  <2>1. UNCHANGED <<state, heap, pse, crashed, pc, emitted, posts>> /\ ~Usable
    BY <1>1, <1>3 DEF enclaveVars, Unusable, Usable
  <2>2. (WorkerTypeOK /\ emitted \in Seq(Nat) /\ posts \in Nat)'
    BY <1>1, <1>2, <2>1, TurnFacts DEF WorkerInv, WorkerTypeOK
  <2>3. LifeInv'
    BY <1>1, <2>1 DEF WorkerInv, LifeInv
  <2>4. QueueInv'
    BY <1>1, <2>1, TurnFacts DEF WorkerInv, QueueInv, Usable
  <2> QED BY <2>2, <2>3, <2>4 DEF WorkerInv
<1>4. CASE ~Unusable /\ Trusted!EcallEmit(m)
  <2>1. /\ state = "ACTIVE" /\ crashed = "no" /\ pc' = "dispatch"
        /\ emitted' = Append(emitted, m)
        /\ UNCHANGED <<state, heap, pse, crashed, posts>>
    BY <1>4 DEF Trusted!EcallEmit, Trusted!Enter, Trusted!lifeVars,
                Trusted!jsVars
  <2>2. internal = "live" /\ Usable /\ Usable' /\ ~destroyed
    BY <1>1, <1>4, <2>1 DEF Unusable, Usable, WorkerInv, WorkerTypeOK, LifeInv
  <2>3. /\ m = Len(emitted) + 1 /\ Len(emitted) + 1 <= posted
        /\ Within(Tail(immediates), Len(emitted) + 1, posted)
        /\ Complete(Tail(immediates), Len(emitted) + 1, posted)
        /\ Divided(immediates, postedBefore) => Len(emitted) + 1 <= postedBefore
    <3>1. Complete(immediates, Len(emitted), posted)
      BY <2>2 DEF WorkerInv, QueueInv
    <3> QED BY <1>1, <3>1, TurnFacts, TailPost
  <2> HIDE DEF m
  <2>4. /\ emitted \in Seq(Nat) /\ Len(emitted) \in Nat /\ m \in Nat
        /\ emitted' \in Seq(Nat) /\ Len(emitted') = Len(emitted) + 1
        /\ \A i \in 1..Len(emitted) : emitted'[i] = emitted[i]
        /\ emitted'[Len(emitted) + 1] = m
    <3>1. emitted \in Seq(Nat) /\ Len(emitted) \in Nat
      BY LenProperties DEF WorkerInv
    <3>2. m \in Nat BY <2>3, <3>1
    <3> QED BY <2>1, <3>1, <3>2, AppendProperties
  <2>5. \A i \in 1..Len(emitted') : emitted'[i] = i
    <3>1. \A i \in 1..(Len(emitted) + 1) : i \in 1..Len(emitted) \/ i = Len(emitted) + 1
      BY <2>4
    <3>2. \A i \in 1..Len(emitted) : emitted[i] = i BY DEF WorkerInv, QueueInv
    <3> QED BY <2>3, <2>4, <3>1, <3>2
  <2>6. (WorkerTypeOK /\ emitted \in Seq(Nat) /\ posts \in Nat)'
    BY <1>1, <1>2, <2>1, <2>4, TurnFacts DEF WorkerInv, WorkerTypeOK
  <2>7. LifeInv'
    BY <1>1, <2>1, <2>2 DEF WorkerInv, LifeInv
  <2>8. QueueInv'
    BY <1>1, <2>1, <2>2, <2>3, <2>4, <2>5, TurnFacts DEF WorkerInv, QueueInv
  <2> QED BY <2>6, <2>7, <2>8 DEF WorkerInv
<1>5. CASE EnclaveAborts
  <2>1. internal \in {"live", "null"}
    BY <1>1, TurnFacts DEF WorkerInv, WorkerTypeOK, LifeInv
  <2> QED BY <1>1, <1>2, <1>5, <2>1, AbortStep
<1> QED BY <1>3, <1>4, <1>5 DEF RunPost

\* A delivery of the enclave's message does not ask for the enclave.
LEMMA RunEmitStep == ASSUME WorkerInv, RunEmit PROVE WorkerInv'
<1>1. /\ immediates # <<>> /\ Head(immediates).kind = "emit"
      /\ immediates' = Tail(immediates)
      /\ UNCHANGED <<internal, destroyed, posted, terminates, postedBefore, exited>>
      /\ UNCHANGED <<state, heap, pse, crashed, pc, emitted, posts>>
  BY DEF RunEmit, NextIs, LoopTurn, RestOfImmediates, enclaveVars
<1>2. (WorkerTypeOK /\ emitted \in Seq(Nat) /\ posts \in Nat)'
  BY <1>1, TurnFacts DEF WorkerInv, WorkerTypeOK
<1>3. LifeInv'
  BY <1>1 DEF WorkerInv, LifeInv
<1>4. QueueInv'
  BY <1>1, TurnFacts DEF WorkerInv, QueueInv, Usable
<1> QED BY <1>2, <1>3, <1>4 DEF WorkerInv

\* The first terminate of a live worker finds all earlier messages taken in.
LEMMA RunTerminateStep == ASSUME WorkerInv, RunTerminate PROVE WorkerInv'
<1>1. /\ immediates # <<>> /\ Head(immediates).kind = "terminate"
      /\ immediates' = Tail(immediates)
      /\ UNCHANGED <<internal, destroyed, posted, terminates, postedBefore>>
      /\ pc = "idle" /\ internal # "init"
  BY DEF RunTerminate, NextIs, LoopTurn, RestOfImmediates
<1>2. exited' \in BOOLEAN
  BY DEF RunTerminate, Uncaught, WorkerInv, WorkerTypeOK
<1>3. terminates > 0
  BY <1>1, TurnFacts DEF WorkerInv, QueueInv
<1>4. CASE Unusable /\ UNCHANGED enclaveVars
  <2>1. UNCHANGED <<state, heap, pse, crashed, pc, emitted, posts>> /\ ~Usable
    BY <1>1, <1>4 DEF enclaveVars, Unusable, Usable
  <2>2. (WorkerTypeOK /\ emitted \in Seq(Nat) /\ posts \in Nat)'
    BY <1>1, <1>2, <2>1, TurnFacts DEF WorkerInv, WorkerTypeOK
  <2>3. LifeInv'
    BY <1>1, <2>1 DEF WorkerInv, LifeInv
  <2>4. QueueInv'
    BY <1>1, <1>3, <2>1, TurnFacts DEF WorkerInv, QueueInv, Usable
  <2> QED BY <2>2, <2>3, <2>4 DEF WorkerInv
<1>5. CASE ~Unusable /\ Trusted!EcallClose
  <2>1. /\ state = "ACTIVE" /\ state' = "CLOSED" /\ crashed = "no"
        /\ pc' = "finalize" /\ UNCHANGED <<heap, pse, crashed, emitted, posts>>
    BY <1>5 DEF Trusted!EcallClose, Trusted!Enter, Trusted!SetClosed,
                Trusted!jsVars, Trusted!emitVars
  <2>2. internal = "live" /\ Usable /\ ~Usable' /\ ~destroyed
    BY <1>1, <1>5, <2>1 DEF Unusable, Usable, WorkerInv, WorkerTypeOK, LifeInv
  <2>3. Len(emitted) = postedBefore
    <3>1. /\ Complete(immediates, Len(emitted), posted)
          /\ Divided(immediates, postedBefore)
          /\ Len(emitted) <= postedBefore /\ postedBefore <= posted
      BY <1>3, <2>2 DEF WorkerInv, QueueInv
    <3> QED BY <1>1, <3>1, TurnFacts, TailTerminate
  <2>4. (WorkerTypeOK /\ emitted \in Seq(Nat) /\ posts \in Nat)'
    BY <1>1, <1>2, <2>1, TurnFacts DEF WorkerInv, WorkerTypeOK
  <2>5. LifeInv'
    BY <1>1, <2>1, <2>2 DEF WorkerInv, LifeInv
  <2>6. QueueInv'
    BY <1>1, <1>3, <2>1, <2>2, <2>3, TurnFacts DEF WorkerInv, QueueInv
  <2> QED BY <2>4, <2>5, <2>6 DEF WorkerInv
<1>6. CASE EnclaveAborts
  <2>1. internal \in {"live", "null"}
    BY <1>1, <1>3 DEF WorkerInv, WorkerTypeOK, LifeInv
  <2> QED BY <1>1, <1>2, <1>6, <2>1, AbortStep
<1> QED BY <1>4, <1>5, <1>6 DEF RunTerminate

\* The finalizers have run: the enclave goes, unless it crashes at the end or
\* SGX refuses to destroy it.
LEMMA TerminateEndsStep == ASSUME WorkerInv, TerminateEnds PROVE WorkerInv'
<1>1. /\ pc = "finalize" /\ pc' = "idle" /\ heap' = FALSE
      /\ crashed' = "no" => pse' = pse - 1
      /\ UNCHANGED <<state, emitted, posts>>
      /\ UNCHANGED <<immediates, posted, terminates, postedBefore>>
  BY DEF TerminateEnds, Trusted!CloseReturns, Trusted!CloseSession,
         Trusted!Abort, Trusted!jsVars, Trusted!emitVars
<1>2. \/ /\ crashed' = "no" /\ destroyed' = TRUE
         /\ internal' = "null" \/ internal' = internal
      \/ crashed' # "no" /\ UNCHANGED <<internal, destroyed>>
  BY DEF TerminateEnds, ReleaseInternal
<1>3. exited' \in BOOLEAN
  BY DEF TerminateEnds, ReleaseInternal, Uncaught, WorkerInv, WorkerTypeOK
<1>4. /\ internal = "live" /\ ~destroyed /\ state = "CLOSED" /\ pse = 1
      /\ terminates > 0
  <2>1. /\ internal = "live" /\ ~destroyed /\ state = "CLOSED" /\ pse = 1
    BY <1>1 DEF WorkerInv, LifeInv
  <2>2. terminates \in Nat /\ terminates # 0
    BY <2>1 DEF WorkerInv, WorkerTypeOK, QueueInv
  <2> QED BY <2>1, <2>2
<1>5. (WorkerTypeOK /\ emitted \in Seq(Nat) /\ posts \in Nat)'
  <2>1. internal' \in {"live", "null"} /\ destroyed' \in BOOLEAN
    BY <1>2, <1>4 DEF WorkerInv, WorkerTypeOK
  <2> QED BY <1>1, <1>3, <2>1 DEF WorkerInv, WorkerTypeOK
<1>6. LifeInv'
  BY <1>1, <1>2, <1>4 DEF WorkerInv, LifeInv
<1>7. QueueInv'
  BY <1>1, <1>4 DEF WorkerInv, QueueInv, Usable
<1> QED BY <1>5, <1>6, <1>7 DEF WorkerInv

\* Every step of the worker keeps the invariant.
LEMMA WorkerInvStep ==
  ASSUME WorkerInv, [WorkerNext]_workerVars PROVE WorkerInv'
<1>1. CASE New BY <1>1, NewStep
<1>2. CASE ConstructorEnds BY <1>2, ConstructorEndsStep
<1>3. CASE PostMessage BY <1>3, PostMessageStep
<1>4. CASE Terminate BY <1>4, TerminateStep
<1>5. CASE ChangeListeners \/ PortRuns BY <1>5, PortStep
<1>6. CASE RunImmediate
  BY <1>6, RunPostStep, RunEmitStep, RunTerminateStep DEF RunImmediate
<1>7. CASE EnclaveReturns
  BY <1>7, ReturnsKeep, InsideStep DEF EnclaveReturns
<1>8. CASE EnclaveCalls
  BY <1>8, CallsKeep, InsideStep DEF EnclaveCalls
<1>9. CASE EnclavePosts BY <1>9, EnclavePostsStep
<1>10. CASE EnclaveDies BY <1>10, EnclaveDiesStep
<1>11. CASE UNCHANGED workerVars
  <2>1. /\ UNCHANGED <<internal, destroyed, immediates, posted, terminates,
                       postedBefore, exited>>
        /\ UNCHANGED <<state, heap, pse, crashed, pc, emitted, posts>>
    BY <1>11 DEF workerVars, enclaveVars, jsSideVars
  <2>2. (WorkerTypeOK /\ emitted \in Seq(Nat) /\ posts \in Nat)'
    BY <2>1 DEF WorkerInv, WorkerTypeOK
  <2>3. LifeInv'
    BY <2>1 DEF WorkerInv, LifeInv
  <2>4. QueueInv'
    BY <2>1 DEF WorkerInv, QueueInv, Usable
  <2> QED BY <2>2, <2>3, <2>4 DEF WorkerInv
<1>12. CASE TerminateEnds BY <1>12, TerminateEndsStep
<1> QED
  BY <1>1, <1>2, <1>3, <1>4, <1>5, <1>6, <1>7, <1>8, <1>9, <1>10, <1>11, <1>12
  DEF WorkerNext

(***************************************************************************)
(* The inductive invariant of a worker on SGX: what lib/real.js holds      *)
(* tells the state of the enclave, and the event loop's queue holds exactly*)
(* the messages the enclave has not taken in, with the first terminate     *)
(* between those posted before and after it.                               *)
(***************************************************************************)
THEOREM WorkerInvariant == WorkerSpec => []WorkerInv
BY WorkerInvInit, WorkerInvStep, PTL DEF WorkerSpec

-----------------------------------------------------------------------------
\* The variables of lib/real.js keep their types.
THEOREM WorkerTypes == WorkerSpec => []WorkerTypeOK
<1>1. WorkerInv => WorkerTypeOK BY DEF WorkerInv
<1> QED BY <1>1, WorkerInvariant, PTL

(***************************************************************************)
(* From the moment terminate closes it, the enclave has taken in exactly   *)
(* the messages posted before terminate was called, in order, however the  *)
(* callbacks of postMessage and terminate, the finalizers that close runs  *)
(* and the enclave's own messages interleave.                              *)
(***************************************************************************)
THEOREM WorkerTerminatedAfter == WorkerSpec => []TerminatedAfterEarlierPosts
<1>1. WorkerInv => TerminatedAfterEarlierPosts
  <2> SUFFICES ASSUME WorkerInv, state = "CLOSED"
               PROVE  emitted = [i \in 1..postedBefore |-> i]
    BY DEF TerminatedAfterEarlierPosts
  <2>1. /\ emitted \in Seq(Nat) /\ Len(emitted) = postedBefore
        /\ \A i \in 1..Len(emitted) : emitted[i] = i
    BY DEF WorkerInv, QueueInv
  <2>2. emitted = [i \in 1..Len(emitted) |-> emitted[i]]
    BY <2>1, SeqDef, LenProperties
  <2> QED BY <2>1, <2>2
<1> QED BY <1>1, WorkerInvariant, PTL

(***************************************************************************)
(* Between ECALLs an enclave that the glue still holds is active, unless   *)
(* it crashed or SGX refused to destroy it: nothing else makes an ECALL of *)
(* postMessage's or terminate's callback fail the state check of           *)
(* duk_enclave.cpp.                                                        *)
(***************************************************************************)
THEOREM WorkerHeld == WorkerSpec => []HeldIsActive
<1>1. WorkerInv => HeldIsActive BY DEF WorkerInv, LifeInv, HeldIsActive
<1> QED BY <1>1, WorkerInvariant, PTL

(***************************************************************************)
(* A terminated worker has released its enclave, its heap and its PSE      *)
(* session, and none is destroyed before its close returned.               *)
(***************************************************************************)
THEOREM WorkerReleased == WorkerSpec => []TerminatedHoldsNothing
<1>1. WorkerInv => TerminatedHoldsNothing
  BY DEF WorkerInv, LifeInv, TerminatedHoldsNothing
<1> QED BY <1>1, WorkerInvariant, PTL

-----------------------------------------------------------------------------
(***************************************************************************)
(* The messages that callbacks of a kind carry, and a queue whose          *)
(* callbacks of a kind carry the messages after the first n, in order.     *)
(***************************************************************************)
Of(q, k) == {c.message : c \in {c \in Range(q) : c.kind = k}}

Ordered(q, k) ==
  \A i, j \in 1..Len(q) :
    q[i].kind = k /\ q[j].kind = k /\ i < j => q[i].message < q[j].message

Carries(q, k, n, sent) ==
  /\ \A i \in 1..Len(q) : q[i].kind = k => q[i].message \in (n + 1)..sent
  /\ \A m \in (n + 1)..sent :
       \E i \in 1..Len(q) : q[i].kind = k /\ q[i].message = m
  /\ Ordered(q, k)

\* The messages of a kind are those of the callbacks of that kind.
LEMMA OfIs ==
  ASSUME NEW q \in Seq(Callback), NEW k, NEW m
  PROVE  m \in Of(q, k) <=> \E i \in 1..Len(q) : q[i].kind = k /\ q[i].message = m
<1>1. DOMAIN q = 1..Len(q) BY LenProperties
<1> QED BY <1>1 DEF Of, Range

\* A queue that carries the messages after n up to the last has exactly those.
LEMMA CarriesIsOf ==
  ASSUME NEW q \in Seq(Callback), NEW k, NEW n \in Nat, NEW sent \in Nat,
         Carries(q, k, n, sent)
  PROVE  Of(q, k) = (n + 1)..sent
<1>1. \A m \in Of(q, k) : m \in (n + 1)..sent BY OfIs DEF Carries
<1>2. \A m \in (n + 1)..sent : m \in Of(q, k) BY OfIs DEF Carries
<1> QED BY <1>1, <1>2

\* What is under way when a callback is queued.
LEMMA OfAppend ==
  ASSUME NEW q \in Seq(Callback), NEW c \in Callback, NEW k
  PROVE  /\ c.kind = k => Of(Append(q, c), k) = Of(q, k) \cup {c.message}
         /\ c.kind # k => Of(Append(q, c), k) = Of(q, k)
<1> DEFINE r == Append(q, c)
<1>1. /\ r \in Seq(Callback) /\ Len(q) \in Nat /\ Len(r) = Len(q) + 1
      /\ r[Len(q) + 1] = c /\ \A i \in 1..Len(q) : r[i] = q[i]
      /\ \A i \in 1..(Len(q) + 1) : i \in 1..Len(q) \/ i = Len(q) + 1
      /\ Len(q) + 1 \in 1..(Len(q) + 1)
  BY AppendFacts
<1> HIDE DEF r
<1>2. ASSUME NEW m
      PROVE  m \in Of(r, k) <=> m \in Of(q, k) \/ (c.kind = k /\ m = c.message)
  <2>1. ASSUME m \in Of(r, k)
        PROVE  m \in Of(q, k) \/ (c.kind = k /\ m = c.message)
    <3>1. PICK i \in 1..Len(r) : r[i].kind = k /\ r[i].message = m
      BY <1>1, <2>1, OfIs
    <3>2. CASE i \in 1..Len(q) BY <1>1, <3>1, <3>2, OfIs
    <3>3. CASE i = Len(q) + 1 BY <1>1, <3>1, <3>3
    <3> QED BY <1>1, <3>2, <3>3
  <2>2. ASSUME m \in Of(q, k) PROVE m \in Of(r, k)
    <3>1. PICK i \in 1..Len(q) : q[i].kind = k /\ q[i].message = m
      BY <2>2, OfIs
    <3>2. i \in 1..Len(r) BY <1>1
    <3> QED BY <1>1, <3>1, <3>2, OfIs
  <2>3. ASSUME c.kind = k PROVE c.message \in Of(r, k)
    <3>1. Len(q) + 1 \in 1..Len(r) BY <1>1
    <3> QED BY <1>1, <2>3, <3>1, OfIs
  <2> QED BY <2>1, <2>2, <2>3
<1>3. c.kind = k => Of(r, k) = Of(q, k) \cup {c.message} BY <1>2
<1>4. c.kind # k => Of(r, k) = Of(q, k) BY <1>2
<1> QED BY <1>3, <1>4 DEF r

\* The first callback is taken: of its kind its message is the least.
LEMMA OfTail ==
  ASSUME NEW q \in Seq(Callback), q # <<>>, NEW k, Ordered(q, k)
  PROVE  /\ Head(q).kind = k =>
              /\ Head(q).message \in Of(q, k)
              /\ \A m \in Of(q, k) : Head(q).message <= m
              /\ Of(Tail(q), k) = Of(q, k) \ {Head(q).message}
              /\ Of(Tail(q), k) = {m \in Of(q, k) : m > Head(q).message}
         /\ Head(q).kind # k => Of(Tail(q), k) = Of(q, k)
<1> DEFINE r == Tail(q)
           h == Head(q)
<1>1. /\ r \in Seq(Callback) /\ Len(q) \in Nat /\ Len(q) >= 1
      /\ Len(r) = Len(q) - 1 /\ h = q[1] /\ 1 \in 1..Len(q)
      /\ \A i \in 1..(Len(q) - 1) : r[i] = q[i + 1] /\ i + 1 \in 1..Len(q)
      /\ \A i \in 1..Len(q) : i = 1 \/ i - 1 \in 1..(Len(q) - 1)
      /\ \A i \in 1..Len(q) : q[i].message \in Nat
  BY TailFacts
<1> HIDE DEF r, h
<1>2. \A i \in 1..Len(q) : i = 1 \/ r[i - 1] = q[i]
  BY <1>1
<1>3. ASSUME NEW m
      PROVE  m \in Of(q, k) <=> m \in Of(r, k) \/ (h.kind = k /\ m = h.message)
  <2>1. ASSUME m \in Of(q, k)
        PROVE  m \in Of(r, k) \/ (h.kind = k /\ m = h.message)
    <3>1. PICK i \in 1..Len(q) : q[i].kind = k /\ q[i].message = m
      BY <2>1, OfIs
    <3>2. CASE i = 1 BY <1>1, <3>1, <3>2
    <3>3. CASE i - 1 \in 1..Len(r) /\ r[i - 1] = q[i]
      BY <1>1, <3>1, <3>3, OfIs
    <3> QED BY <1>1, <1>2, <3>2, <3>3
  <2>2. ASSUME m \in Of(r, k) PROVE m \in Of(q, k)
    <3>1. PICK i \in 1..Len(r) : r[i].kind = k /\ r[i].message = m
      BY <1>1, <2>2, OfIs
    <3>2. i + 1 \in 1..Len(q) /\ q[i + 1] = r[i] BY <1>1, <3>1
    <3> QED BY <3>1, <3>2, OfIs
  <2>3. ASSUME h.kind = k PROVE h.message \in Of(q, k)
    BY <1>1, <2>3, OfIs
  <2> QED BY <2>1, <2>2, <2>3
<1>4. ASSUME h.kind = k, NEW m \in Of(r, k)
      PROVE  m > h.message /\ m \in Nat /\ h.message \in Nat
  <2>1. PICK i \in 1..Len(r) : r[i].kind = k /\ r[i].message = m
    BY <1>1, OfIs
  <2>2. /\ i + 1 \in 1..Len(q) /\ q[i + 1] = r[i] /\ 1 < i + 1
    BY <1>1, <2>1
  <2>3. q[1].message < q[i + 1].message
    BY <1>1, <1>4, <2>1, <2>2 DEF Ordered
  <2> QED BY <1>1, <2>1, <2>2, <2>3
<1>5. h.kind # k => Of(r, k) = Of(q, k) BY <1>3
<1>6. ASSUME h.kind = k
      PROVE  /\ h.message \in Of(q, k)
             /\ \A m \in Of(q, k) : h.message <= m
             /\ Of(r, k) = Of(q, k) \ {h.message}
             /\ Of(r, k) = {m \in Of(q, k) : m > h.message}
  <2>1. h.message \in Nat BY <1>1
  <2>2. \A m \in Of(q, k) : m = h.message \/ m \in Of(r, k) BY <1>3
  <2>3. \A m \in Of(r, k) : m \in Of(q, k) BY <1>3
  <2>4. \A m \in Of(r, k) : m > h.message /\ m \in Nat BY <1>4, <1>6
  <2>5. h.message \in Of(q, k) BY <1>3, <1>6
  <2>6. \A m \in Of(q, k) : h.message <= m BY <2>1, <2>2, <2>4
  <2>7. Of(r, k) = Of(q, k) \ {h.message} BY <2>1, <2>2, <2>3, <2>4
  <2>8. Of(r, k) = {m \in Of(q, k) : m > h.message}
    BY <2>1, <2>2, <2>3, <2>4
  <2> QED BY <2>5, <2>6, <2>7, <2>8
<1> QED BY <1>5, <1>6 DEF r, h

\* The next message is carried behind the others.
LEMMA CarriesNext ==
  ASSUME NEW q \in Seq(Callback), NEW k \in {"post", "emit"}, NEW n \in Nat,
         NEW sent \in Nat, n <= sent, Carries(q, k, n, sent)
  PROVE  Carries(Append(q, [kind |-> k, message |-> sent + 1]), k, n, sent + 1)
<1> DEFINE c == [kind |-> k, message |-> sent + 1]
           r == Append(q, c)
<1>1. c \in Callback /\ c.kind = k /\ c.message = sent + 1 BY DEF Callback
<1>2. /\ Len(q) \in Nat /\ Len(r) = Len(q) + 1 /\ r[Len(q) + 1] = c
      /\ \A i \in 1..Len(q) : r[i] = q[i]
  BY <1>1, LenProperties, AppendProperties
<1>3. \A i \in 1..Len(q) : q[i].kind = k => q[i].message \in (n + 1)..sent
  BY DEF Carries, Ordered
<1> HIDE DEF c, r
<1>4. \A i \in 1..(Len(q) + 1) : i \in 1..Len(q) \/ i = Len(q) + 1 BY <1>2
<1>5. \A i \in 1..Len(q) : r[i].kind = k => r[i].message \in (n + 1)..sent
  BY <1>2, <1>3
<1>6. ASSUME NEW i \in 1..Len(r), r[i].kind = k
      PROVE  r[i].message \in (n + 1)..(sent + 1)
  BY <1>1, <1>2, <1>4, <1>5, <1>6
<1>7. ASSUME NEW m \in (n + 1)..(sent + 1)
      PROVE  \E i \in 1..Len(r) : r[i].kind = k /\ r[i].message = m
  <2>1. CASE m \in (n + 1)..sent
    <3>1. PICK i \in 1..Len(q) : q[i].kind = k /\ q[i].message = m
      BY <2>1 DEF Carries, Ordered
    <3> QED BY <1>2, <3>1
  <2>2. CASE m = sent + 1
    <3>1. Len(q) + 1 \in 1..Len(r) BY <1>2
    <3> QED BY <1>1, <1>2, <2>2, <3>1
  <2> QED BY <2>1, <2>2
<1>8. ASSUME NEW i \in 1..Len(r), NEW j \in 1..Len(r),
             r[i].kind = k, r[j].kind = k, i < j
      PROVE  r[i].message < r[j].message
  <2>1. i \in 1..Len(q) BY <1>2, <1>8
  <2>2. CASE j \in 1..Len(q) BY <1>2, <1>8, <2>1, <2>2 DEF Carries, Ordered
  <2>3. CASE j = Len(q) + 1
    <3>1. r[i].message \in (n + 1)..sent BY <1>5, <1>8, <2>1
    <3> QED BY <1>1, <1>2, <2>3, <3>1
  <2> QED BY <1>2, <1>4, <2>2, <2>3
<1>9. Carries(r, k, n, sent + 1) BY <1>6, <1>7, <1>8 DEF Carries, Ordered
<1> QED BY <1>9 DEF r, c

\* A callback of another kind is queued.
LEMMA CarriesAppendOther ==
  ASSUME NEW q \in Seq(Callback), NEW c \in Callback, NEW k, c.kind # k,
         NEW n \in Nat, NEW sent \in Nat, Carries(q, k, n, sent)
  PROVE  Carries(Append(q, c), k, n, sent)
<1> DEFINE r == Append(q, c)
<1>1. /\ Len(q) \in Nat /\ Len(r) = Len(q) + 1 /\ r[Len(q) + 1] = c
      /\ \A i \in 1..Len(q) : r[i] = q[i]
  BY LenProperties, AppendProperties
<1> HIDE DEF r
<1>2. \A i \in 1..Len(r) : r[i].kind = k => i \in 1..Len(q) /\ r[i] = q[i]
  BY <1>1
<1>3. \A i \in 1..Len(q) : i \in 1..Len(r) BY <1>1
<1>4. Carries(r, k, n, sent) BY <1>1, <1>2, <1>3 DEF Carries, Ordered
<1> QED BY <1>4 DEF r

\* The event loop takes the first callback, which is of the kind.
LEMMA CarriesFirst ==
  ASSUME NEW q \in Seq(Callback), q # <<>>, NEW k, Head(q).kind = k,
         NEW n \in Nat, NEW sent \in Nat, Carries(q, k, n, sent)
  PROVE  /\ Head(q).message = n + 1 /\ n + 1 <= sent
         /\ Carries(Tail(q), k, n + 1, sent)
<1> DEFINE r == Tail(q)
<1>1. /\ Len(q) \in Nat /\ Len(q) >= 1 /\ Len(r) = Len(q) - 1 /\ Head(q) = q[1]
      /\ \A i \in 1..(Len(q) - 1) : r[i] = q[i + 1] /\ i + 1 \in 1..Len(q)
  BY EmptySeq, LenProperties, HeadTailProperties
<1>2. \A i \in 1..Len(q) : i = 1 \/ (i - 1 \in 1..(Len(q) - 1) /\ q[i] = r[i - 1])
  BY <1>1
<1> HIDE DEF r
<1>3. q[1].message \in (n + 1)..sent /\ 1 \in 1..Len(q)
  BY <1>1 DEF Carries, Ordered
<1>4. q[1].message = n + 1
  <2>1. n + 1 \in (n + 1)..sent BY <1>3
  <2>2. PICK i \in 1..Len(q) : q[i].kind = k /\ q[i].message = n + 1
    BY <2>1 DEF Carries, Ordered
  <2>3. i # 1 => q[1].message < q[i].message
    BY <1>1, <1>3, <2>2 DEF Carries, Ordered
  <2> QED BY <1>3, <2>2, <2>3
<1>5. ASSUME NEW i \in 1..Len(r), r[i].kind = k
      PROVE  r[i].message \in ((n + 1) + 1)..sent
  <2>1. r[i] = q[i + 1] /\ i + 1 \in 1..Len(q) /\ 1 < i + 1 BY <1>1
  <2>2. q[1].message < q[i + 1].message BY <1>1, <1>3, <1>5, <2>1 DEF Carries, Ordered
  <2>3. q[i + 1].message \in (n + 1)..sent BY <1>5, <2>1 DEF Carries, Ordered
  <2> QED BY <1>4, <2>1, <2>2, <2>3
<1>6. ASSUME NEW m \in ((n + 1) + 1)..sent
      PROVE  \E i \in 1..Len(r) : r[i].kind = k /\ r[i].message = m
  <2>1. m \in (n + 1)..sent /\ m # n + 1 OBVIOUS
  <2>2. PICK i \in 1..Len(q) : q[i].kind = k /\ q[i].message = m
    BY <2>1 DEF Carries, Ordered
  <2> QED BY <1>1, <1>2, <1>4, <2>1, <2>2
<1>7. ASSUME NEW i \in 1..Len(r), NEW j \in 1..Len(r),
             r[i].kind = k, r[j].kind = k, i < j
      PROVE  r[i].message < r[j].message
  <2>1. /\ i + 1 \in 1..Len(q) /\ j + 1 \in 1..Len(q) /\ i + 1 < j + 1
        /\ r[i] = q[i + 1] /\ r[j] = q[j + 1]
    BY <1>1, <1>7
  <2>2. q[i + 1].message < q[j + 1].message BY <1>7, <2>1 DEF Carries, Ordered
  <2> QED BY <2>1, <2>2
<1>8. Carries(r, k, n + 1, sent) BY <1>5, <1>6, <1>7 DEF Carries, Ordered
<1> QED BY <1>1, <1>3, <1>4, <1>8 DEF r

\* The event loop takes the first callback, which is of another kind.
LEMMA CarriesFirstOther ==
  ASSUME NEW q \in Seq(Callback), q # <<>>, NEW k, Head(q).kind # k,
         NEW n \in Nat, NEW sent \in Nat, Carries(q, k, n, sent)
  PROVE  Carries(Tail(q), k, n, sent)
<1> DEFINE r == Tail(q)
<1>1. /\ Len(q) \in Nat /\ Len(q) >= 1 /\ Len(r) = Len(q) - 1 /\ Head(q) = q[1]
      /\ \A i \in 1..(Len(q) - 1) : r[i] = q[i + 1] /\ i + 1 \in 1..Len(q)
  BY EmptySeq, LenProperties, HeadTailProperties
<1>2. \A i \in 1..Len(q) : i = 1 \/ (i - 1 \in 1..(Len(q) - 1) /\ q[i] = r[i - 1])
  BY <1>1
<1> HIDE DEF r
<1>3. \A i \in 1..Len(r) : r[i].kind = k => r[i].message \in (n + 1)..sent
  BY <1>1 DEF Carries, Ordered
<1>4. ASSUME NEW m \in (n + 1)..sent
      PROVE  \E i \in 1..Len(r) : r[i].kind = k /\ r[i].message = m
  <2>1. PICK i \in 1..Len(q) : q[i].kind = k /\ q[i].message = m
    BY DEF Carries, Ordered
  <2> QED BY <1>1, <1>2, <2>1
<1>5. ASSUME NEW i \in 1..Len(r), NEW j \in 1..Len(r),
             r[i].kind = k, r[j].kind = k, i < j
      PROVE  r[i].message < r[j].message
  <2>1. /\ i + 1 \in 1..Len(q) /\ j + 1 \in 1..Len(q) /\ i + 1 < j + 1
        /\ r[i] = q[i + 1] /\ r[j] = q[j + 1]
    BY <1>1, <1>5
  <2>2. q[i + 1].message < q[j + 1].message BY <1>5, <2>1 DEF Carries, Ordered
  <2> QED BY <2>1, <2>2
<1>6. Carries(r, k, n, sent) BY <1>3, <1>4, <1>5 DEF Carries, Ordered
<1> QED BY <1>6 DEF r

-----------------------------------------------------------------------------
(***************************************************************************)
(* The port and the enclave of a worker run as MessagePort and Enclave     *)
(* specify: lib/real.js calls them in the order and with the messages that *)
(* the two specifications allow.                                           *)
(***************************************************************************)
Counted ==
  /\ posted <= MaxPosted /\ posts <= MaxPosts
  /\ lastEmitted \in 0..posts
  /\ Carries(immediates, "emit", lastEmitted, posts)

\* At the start nothing was posted and nothing waits.
LEMMA CountedAtStart == ASSUME WorkerInit PROVE Counted
<1>1. immediates = <<>> /\ posted = 0 /\ posts = 0 /\ lastEmitted = 0
  BY DEF WorkerInit, Port!PortInit, Trusted!EnclaveInit
<1>2. Carries(immediates, "emit", 0, 0)
  BY <1>1, EmptySeq DEF Carries, Ordered
<1> QED BY <1>1, <1>2, WorkerAssumption DEF Counted

\* The steps that touch neither the event loop's queue nor the counts.
LEMMA OthersKeepQueue ==
  ASSUME WorkerNext, ~(posted < MaxPosted /\ PostMessage), ~Terminate,
         ~RunImmediate, ~EnclavePosts
  PROVE  UNCHANGED <<immediates, posted, posts, emitted, lastEmitted>>
<1>1. CASE New
  BY <1>1 DEF New, Trusted!EcallInit, Trusted!jsVars, Trusted!emitVars, portVars
<1>2. CASE ConstructorEnds
  BY <1>2 DEF ConstructorEnds, portVars, enclaveVars
<1>3. CASE ChangeListeners
  BY <1>3 DEF ChangeListeners, Port!OnMessage, Port!RemoveOnMessage, enclaveVars,
     jsSideVars
<1>4. CASE PortRuns
  BY <1>4 DEF PortRuns, Port!DrainNext, Port!DrainDone, Port!ListenerReturns,
     Port!ListenerThrows, enclaveVars
<1>5. CASE EnclaveReturns
  BY <1>5, ReturnsKeep DEF EnclaveReturns, portVars, jsSideVars
<1>6. CASE EnclaveCalls
  <2>1. UNCHANGED <<portVars, jsSideVars>> BY <1>6 DEF EnclaveCalls
  <2> QED BY <1>6, <2>1, CallsKeep DEF portVars, jsSideVars
<1>7. CASE EnclaveDies
  BY <1>7 DEF EnclaveDies, Trusted!Fatal, Trusted!jsVars, Trusted!emitVars, portVars
<1>8. CASE TerminateEnds
  BY <1>8 DEF TerminateEnds, Trusted!CloseReturns, Trusted!jsVars, Trusted!emitVars,
     portVars
<1> QED BY <1>1, <1>2, <1>3, <1>4, <1>5, <1>6, <1>7, <1>8 DEF WorkerNext

\* The callback of postMessage hands a usable enclave the next message.
LEMMA RunPostTakesNext ==
  ASSUME WorkerInv, RunPost, ~Unusable, state = "ACTIVE"
  PROVE  /\ Trusted!EcallEmit(Len(emitted) + 1)
         /\ Head(immediates).message = Len(emitted) + 1
         /\ Len(emitted) + 1 <= posted
<1>1. /\ immediates # <<>> /\ Head(immediates).kind = "post"
      /\ pc = "idle" /\ internal # "init"
      /\ Trusted!EcallEmit(Head(immediates).message)
  BY DEF RunPost, NextIs, LoopTurn, EnclaveAborts, Trusted!WrongState
<1>2. state = "ACTIVE" /\ crashed = "no"
  BY <1>1 DEF Trusted!EcallEmit, Trusted!Enter
<1>3. Usable
  BY <1>1, <1>2 DEF Unusable, Usable, WorkerInv, WorkerTypeOK, LifeInv
<1>4. Complete(immediates, Len(emitted), posted)
  BY <1>3 DEF WorkerInv, QueueInv
<1> QED BY <1>1, <1>4, TurnFacts, TailPost

\* The callback of handlePostMessage emits the next message on the port.
LEMMA RunEmitTakesNext ==
  ASSUME WorkerInv, Counted, RunEmit
  PROVE  /\ Port!Emit(lastEmitted + 1) /\ lastEmitted < MaxPosts
         /\ lastEmitted' = lastEmitted + 1 /\ lastEmitted + 1 <= posts
         /\ Carries(immediates', "emit", lastEmitted + 1, posts)
<1>1. /\ immediates # <<>> /\ Head(immediates).kind = "emit"
      /\ immediates' = Tail(immediates)
      /\ Port!Emit(Head(immediates).message)
  BY DEF RunEmit, NextIs, LoopTurn, RestOfImmediates
<1>2. immediates \in Seq(Callback) /\ posts \in Nat /\ lastEmitted \in Nat
      /\ MaxPosts \in Nat
  BY WorkerAssumption DEF WorkerInv, WorkerTypeOK, Counted
<1>3. /\ Head(immediates).message = lastEmitted + 1 /\ lastEmitted + 1 <= posts
      /\ Carries(immediates', "emit", lastEmitted + 1, posts)
  BY <1>1, <1>2, CarriesFirst DEF Counted
<1>4. lastEmitted' = lastEmitted + 1
  BY <1>1, <1>3 DEF Port!Emit
<1> QED BY <1>1, <1>2, <1>3, <1>4 DEF Counted

\* Every step keeps what the event loop's queue carries.
LEMMA CountedKept ==
  ASSUME WorkerInv, Counted, [WorkerNext]_workerVars PROVE Counted'
<1>1. /\ immediates \in Seq(Callback) /\ posted \in Nat /\ posts \in Nat
      /\ lastEmitted \in Nat /\ MaxPosted \in Nat /\ MaxPosts \in Nat
  BY WorkerAssumption DEF WorkerInv, WorkerTypeOK, Counted
<1>2. ASSUME NEW c \in Callback, c.kind # "emit", immediates' = Append(immediates, c),
             posted' <= MaxPosted, UNCHANGED <<posts, lastEmitted>>
      PROVE  Counted'
  <2>1. Carries(immediates', "emit", lastEmitted, posts)
    BY <1>1, <1>2, CarriesAppendOther DEF Counted
  <2> QED BY <1>2, <2>1 DEF Counted
<1>3. CASE PostMessage /\ posted < MaxPosted
  <2> DEFINE c == [kind |-> "post", message |-> posted + 1]
  <2>1. /\ immediates' = Append(immediates, c) /\ posted' = posted + 1
        /\ UNCHANGED <<posts, lastEmitted>>
    BY <1>3 DEF PostMessage, SetImmediate, portVars, enclaveVars
  <2>2. c \in Callback /\ c.kind # "emit" BY <1>1 DEF Callback
  <2> HIDE DEF c
  <2> QED BY <1>1, <1>2, <1>3, <2>1, <2>2
<1>4. CASE Terminate
  <2> DEFINE c == [kind |-> "terminate", message |-> 0]
  <2>1. /\ immediates' = Append(immediates, c) /\ posted' = posted
        /\ UNCHANGED <<posts, lastEmitted>>
    BY <1>4 DEF Terminate, SetImmediate, portVars, enclaveVars
  <2>2. c \in Callback /\ c.kind # "emit" BY DEF Callback
  <2> HIDE DEF c
  <2> QED BY <1>2, <2>1, <2>2 DEF Counted
<1>5. CASE EnclavePosts
  <2>1. /\ immediates' = Append(immediates, [kind |-> "emit", message |-> posts + 1])
        /\ posts' = posts + 1 /\ posts < MaxPosts
        /\ UNCHANGED <<posted, lastEmitted>>
    BY <1>5 DEF EnclavePosts, SetImmediate, Trusted!PostMessage, portVars
  <2>2. Carries(immediates', "emit", lastEmitted, posts + 1)
    BY <1>1, <2>1, CarriesNext DEF Counted
  <2> QED BY <1>1, <2>1, <2>2 DEF Counted
<1>6. CASE RunEmit
  <2>1. posted' = posted /\ posts' = posts
    BY <1>6 DEF RunEmit, enclaveVars
  <2> QED BY <1>1, <1>6, <2>1, RunEmitTakesNext DEF Counted
<1>7. CASE RunPost \/ RunTerminate
  <2>1. /\ immediates # <<>> /\ Head(immediates).kind # "emit"
        /\ immediates' = Tail(immediates)
        /\ UNCHANGED <<posted, lastEmitted>>
    BY <1>7 DEF RunPost, RunTerminate, NextIs, LoopTurn, RestOfImmediates, portVars
  <2>2. posts' = posts
    BY <1>7 DEF RunPost, RunTerminate, Trusted!EcallEmit, Trusted!EcallClose,
       EnclaveAborts, Trusted!WrongState, Trusted!jsVars, enclaveVars
  <2>3. Carries(immediates', "emit", lastEmitted, posts)
    BY <1>1, <2>1, CarriesFirstOther DEF Counted
  <2> QED BY <2>1, <2>2, <2>3 DEF Counted
<1>8. CASE UNCHANGED <<immediates, posted, posts, emitted, lastEmitted>>
  BY <1>8 DEF Counted
<1>9. CASE UNCHANGED workerVars
  BY <1>8, <1>9 DEF workerVars, portVars, enclaveVars, jsSideVars
<1> QED
  BY <1>3, <1>4, <1>5, <1>6, <1>7, <1>8, <1>9, OthersKeepQueue DEF RunImmediate

\* Every step of the worker is a step of its port or leaves it alone.
LEMMA PortSteps ==
  ASSUME WorkerInv, Counted, [WorkerNext]_workerVars
  PROVE  [Port!PortNext]_(Port!portVars)
<1> SUFFICES Port!PortNext \/ UNCHANGED portVars
  BY DEF Port!portVars, portVars
<1>1. CASE ChangeListeners
  BY <1>1 DEF ChangeListeners, Port!PortNext
<1>2. CASE RunEmit
  BY <1>2, RunEmitTakesNext DEF Port!PortNext
<1>3. CASE PortRuns
  BY <1>3 DEF PortRuns, Port!PortNext, Port!PortStep
<1> QED
  BY <1>1, <1>2, <1>3
  DEF WorkerNext, workerVars, New, ConstructorEnds, PostMessage, Terminate,
      RunImmediate, RunPost, RunTerminate, TerminateEnds, EnclaveReturns,
      EnclaveCalls, EnclavePosts, EnclaveDies

\* Every step of the worker is a step of its enclave or leaves it alone.
LEMMA EnclaveSteps ==
  ASSUME WorkerInv, Counted, [WorkerNext]_workerVars
  PROVE  [Trusted!EnclaveNext]_(Trusted!enclaveVars)
<1> SUFFICES Trusted!EnclaveNext \/ UNCHANGED enclaveVars
  BY DEF Trusted!enclaveVars, enclaveVars
<1>1. CASE New
  BY <1>1 DEF New, Trusted!EnclaveNext, Trusted!Ecall
<1>8. ASSUME EnclaveAborts PROVE Trusted!EnclaveNext
  <2>1. "ACTIVE" \in Trusted!States \ {"CLOSED"} BY DEF Trusted!States
  <2>2. Trusted!Ecall BY <1>8, <2>1 DEF EnclaveAborts, Trusted!Ecall
  <2> QED BY <2>2 DEF Trusted!EnclaveNext
<1>2. CASE RunPost
  <2>1. CASE UNCHANGED enclaveVars BY <2>1
  <2>2. CASE ~Unusable /\ state = "ACTIVE"
    <3>1. /\ Trusted!EcallEmit(Len(emitted) + 1) /\ Len(emitted) + 1 <= posted
          /\ posted <= MaxPosted
      BY <1>2, <2>2, RunPostTakesNext DEF Counted
    <3>2. Len(emitted) < MaxPosted
      BY <3>1, WorkerAssumption, LenProperties DEF WorkerInv, WorkerTypeOK
    <3> QED BY <3>1, <3>2 DEF Trusted!EnclaveNext, Trusted!Ecall
  <2>3. CASE EnclaveAborts BY <1>8, <2>3
  <2>4. \/ ~Unusable /\ state = "ACTIVE"
        \/ UNCHANGED enclaveVars \/ EnclaveAborts
    BY <1>2 DEF RunPost, Trusted!EcallEmit
  <2> QED BY <2>1, <2>2, <2>3, <2>4
<1>3. CASE RunTerminate
  BY <1>3, <1>8 DEF RunTerminate, Trusted!EnclaveNext, Trusted!Ecall
<1>4. CASE EnclaveReturns \/ TerminateEnds
  BY <1>4 DEF EnclaveReturns, TerminateEnds, Trusted!EnclaveNext, Trusted!Returns
<1>5. CASE EnclaveCalls
  BY <1>5 DEF EnclaveCalls, Trusted!EnclaveNext, Trusted!AppCall
<1>6. CASE EnclavePosts
  BY <1>6 DEF EnclavePosts, Trusted!EnclaveNext, Trusted!AppCall
<1>7. CASE EnclaveDies
  BY <1>7 DEF EnclaveDies, Trusted!EnclaveNext
<1> QED
  BY <1>1, <1>2, <1>3, <1>4, <1>5, <1>6, <1>7
  DEF WorkerNext, workerVars, ConstructorEnds, PostMessage, Terminate,
      ChangeListeners, RunImmediate, RunEmit, PortRuns

\* Both invariants of the worker, together.
LEMMA CountedInvariant == WorkerSpec => [](WorkerInv /\ Counted)
BY WorkerInvInit, WorkerInvStep, CountedAtStart, CountedKept, PTL DEF WorkerSpec

(***************************************************************************)
(* A worker uses its port as MessagePort specifies: what the enclave posts *)
(* is emitted in turn, from the event loop.                                *)
(***************************************************************************)
THEOREM WorkerPort ==
  WorkerSpec => Port!PortInit /\ [][Port!PortNext]_(Port!portVars)
<1>1. WorkerInit => Port!PortInit BY DEF WorkerInit
<1> QED BY <1>1, CountedInvariant, PortSteps, PTL DEF WorkerSpec

(***************************************************************************)
(* A worker uses its enclave as Enclave specifies: it makes no ECALL while *)
(* another runs, and emits the posted messages in turn, none twice.        *)
(***************************************************************************)
THEOREM WorkerEnclave ==
  WorkerSpec => Trusted!EnclaveInit /\ [][Trusted!EnclaveNext]_(Trusted!enclaveVars)
<1>1. WorkerInit => Trusted!EnclaveInit BY DEF WorkerInit
<1> QED BY <1>1, CountedInvariant, EnclaveSteps, PTL DEF WorkerSpec

-----------------------------------------------------------------------------
(***************************************************************************)
(* So the theorems of MessagePort and Enclave hold of a worker's parts.    *)
(***************************************************************************)
PortThms == INSTANCE MessagePort_proofs WITH MaxMessages <- MaxPosts
EnclaveThms == INSTANCE Enclave_proofs WITH MaxMessages <- MaxPosted

\* The worker's port is the one the theorems of MessagePort are about.
LEMMA PortIsPort ==
  /\ Port!PortInit => PortThms!PortInit
  /\ [Port!PortNext]_(Port!portVars) => [PortThms!PortNext]_(PortThms!portVars)
<1>1. Port!PortInit => PortThms!PortInit
  BY DEF Port!PortInit, PortThms!PortInit
<1>2. Port!PortNext => PortThms!PortNext
  BY
  DEF Port!PortNext, PortThms!PortNext, Port!Emit, PortThms!Emit,
      Port!StartPort, PortThms!StartPort, Port!OnMessage, PortThms!OnMessage,
      Port!AddListener, PortThms!AddListener, Port!RemoveOnMessage,
      PortThms!RemoveOnMessage, Port!PortStep, PortThms!PortStep,
      Port!DrainNext, PortThms!DrainNext, Port!DrainDone, PortThms!DrainDone,
      Port!ListenerReturns, PortThms!ListenerReturns, Port!ListenerThrows,
      PortThms!ListenerThrows, Port!PortIdle, PortThms!PortIdle, Port!AppRuns,
      PortThms!AppRuns, Port!Start, PortThms!Start, Port!SuperEmit,
      PortThms!SuperEmit, Port!ShiftFirst, PortThms!ShiftFirst, Port!Heard,
      PortThms!Heard, Port!Splice, PortThms!Splice, Port!Last, PortThms!Last,
      Port!RemoveAt, PortThms!RemoveAt, Port!Contains, PortThms!Contains
<1> QED BY <1>1, <1>2 DEF Port!portVars, PortThms!portVars

\* So it keeps the invariant of a port.
LEMMA PortPartInvariant == WorkerSpec => []PortThms!PortInv
<1>0. {MaxPosts, MaxListeners} \subseteq Nat
  BY WorkerAssumption
<1>1. PortThms!PortInit => PortThms!PortInv
  BY <1>0, PortThms!PortInvInit
<1>2. PortThms!PortInv /\ [PortThms!PortNext]_(PortThms!portVars)
        => PortThms!PortInv'
  BY <1>0, PortThms!PortInvNext
<1> QED BY <1>1, <1>2, WorkerPort, PortIsPort, PTL

\* The worker's enclave is the one the theorems of Enclave are about.
LEMMA EnclaveIsEnclave ==
  /\ Trusted!EnclaveInit => EnclaveThms!EnclaveInit
  /\ [Trusted!EnclaveNext]_(Trusted!enclaveVars)
       => [EnclaveThms!EnclaveNext]_(EnclaveThms!enclaveVars)
<1>1. Trusted!EnclaveInit => EnclaveThms!EnclaveInit
  BY DEF Trusted!EnclaveInit, EnclaveThms!EnclaveInit
<1>2. Trusted!EnclaveNext => EnclaveThms!EnclaveNext
  BY
  DEF Trusted!EnclaveNext, EnclaveThms!EnclaveNext, Trusted!Ecall,
      EnclaveThms!Ecall, Trusted!Returns, EnclaveThms!Returns,
      Trusted!CodeReturns, EnclaveThms!CodeReturns, Trusted!CloseReturns,
      EnclaveThms!CloseReturns, Trusted!AppCall,
      EnclaveThms!AppCall, Trusted!Fatal, EnclaveThms!Fatal, Trusted!EcallInit,
      EnclaveThms!EcallInit, Trusted!EcallClose, EnclaveThms!EcallClose,
      Trusted!EcallInitRA, EnclaveThms!EcallInitRA, Trusted!EcallBootstrapRA,
      EnclaveThms!EcallBootstrapRA, Trusted!EcallBootstrapMock,
      EnclaveThms!EcallBootstrapMock, Trusted!EcallEmit, EnclaveThms!EcallEmit,
      Trusted!WrongState, EnclaveThms!WrongState, Trusted!States,
      EnclaveThms!States, Trusted!Enter, EnclaveThms!Enter, Trusted!Abort,
      EnclaveThms!Abort, Trusted!SetClosed, EnclaveThms!SetClosed,
      Trusted!CloseSession, EnclaveThms!CloseSession, Trusted!lifeVars,
      EnclaveThms!lifeVars, Trusted!jsVars, EnclaveThms!jsVars,
      Trusted!emitVars, EnclaveThms!emitVars, Trusted!ScriptEnds,
      EnclaveThms!ScriptEnds, Trusted!DispatchNext, EnclaveThms!DispatchNext,
      Trusted!HandlerEnds, EnclaveThms!HandlerEnds, Trusted!HandlerThrowsNull,
      EnclaveThms!HandlerThrowsNull, Trusted!DispatchDone,
      EnclaveThms!DispatchDone, Trusted!HandlersToCall,
      EnclaveThms!HandlersToCall, Trusted!AfterEmitCall,
      EnclaveThms!AfterEmitCall, Trusted!SpinNext, EnclaveThms!SpinNext,
      Trusted!ShiftTask, EnclaveThms!ShiftTask, Trusted!TaskEnds,
      EnclaveThms!TaskEnds, Trusted!SpinDone, EnclaveThms!SpinDone,
      Trusted!AfterSpin, EnclaveThms!AfterSpin, Trusted!OnMessage,
      EnclaveThms!OnMessage, Trusted!RemoveOnMessage,
      EnclaveThms!RemoveOnMessage, Trusted!RemoveAt, EnclaveThms!RemoveAt,
      Trusted!ImportFramework, EnclaveThms!ImportFramework, Trusted!NextTick,
      EnclaveThms!NextTick, Trusted!PostMessage, EnclaveThms!PostMessage,
      Trusted!AppCode, EnclaveThms!AppCode
<1> QED BY <1>1, <1>2 DEF Trusted!enclaveVars, EnclaveThms!enclaveVars

\* So it keeps the invariant of an enclave.
LEMMA EnclavePartInvariant == WorkerSpec => []EnclaveThms!EnclaveInv
<1>0. {MaxPosted, MaxTasks, MaxHandlers, MaxPosts} \subseteq Nat
  BY WorkerAssumption
<1>1. EnclaveThms!EnclaveInit => EnclaveThms!EnclaveInv
  BY <1>0, EnclaveThms!InvariantAtStart
<1>2. EnclaveThms!EnclaveInv /\ [EnclaveThms!EnclaveNext]_(EnclaveThms!enclaveVars)
        => EnclaveThms!EnclaveInv'
  BY <1>0, EnclaveThms!InvariantKept
<1> QED BY <1>1, <1>2, WorkerEnclave, EnclaveIsEnclave, PTL

(***************************************************************************)
(* What is proved of a port under any use holds of a worker's: no message  *)
(* the enclave posts is dispatched twice, each listener hears them in      *)
(* order, and only a listener that throws in start() strands any.          *)
(***************************************************************************)
THEOREM WorkerPortKeeps ==
  WorkerSpec => [](Port!ExactlyOnce /\ Port!HeardInOrder /\ Port!StrandedOnlyByThrow)
<1>0. {MaxPosts, MaxListeners} \subseteq Nat
  BY WorkerAssumption
<1>1. PortThms!PortInv => PortThms!ExactlyOnce
  BY <1>0, PortThms!ExactlyOnceFromInv
<1>2. PortThms!PortInv => PortThms!HeardInOrder /\ PortThms!StrandedOnlyByThrow
  BY DEF PortThms!PortInv
<1>3. PortThms!ExactlyOnce => Port!ExactlyOnce
  BY DEF PortThms!ExactlyOnce, Port!ExactlyOnce, PortThms!Increasing,
     Port!Increasing, PortThms!InSeq, Port!InSeq
<1>4. PortThms!HeardInOrder => Port!HeardInOrder
  BY DEF PortThms!HeardInOrder, Port!HeardInOrder
<1>5. PortThms!StrandedOnlyByThrow => Port!StrandedOnlyByThrow
  BY DEF PortThms!StrandedOnlyByThrow, Port!StrandedOnlyByThrow
<1> QED BY <1>1, <1>2, <1>3, <1>4, <1>5, PortPartInvariant, PTL

(***************************************************************************)
(* What is proved of an enclave under any host holds of a worker's: its    *)
(* resources match its state, emitMessage calls the handlers of its        *)
(* snapshot in order, and microtasks run in order until none is left when  *)
(* an ECALL other than close returns.                                      *)
(***************************************************************************)
THEOREM WorkerEnclaveKeeps ==
  WorkerSpec => [](/\ Trusted!ResourcesMatchState /\ Trusted!SnapshotDelivered
                   /\ Trusted!TasksInOrder /\ Trusted!TasksDrained)
<1>0. {MaxPosted, MaxTasks, MaxHandlers, MaxPosts} \subseteq Nat
  BY WorkerAssumption
<1>1. EnclaveThms!EnclaveInv
        => EnclaveThms!TasksInOrder /\ EnclaveThms!SnapshotDelivered
  BY <1>0, EnclaveThms!TasksFromInv, EnclaveThms!SnapshotFromInv
<1>2. EnclaveThms!EnclaveInv
        => EnclaveThms!ResourcesMatchState /\ EnclaveThms!TasksDrained
  BY DEF EnclaveThms!EnclaveInv, EnclaveThms!LifeInv, EnclaveThms!TaskInv
<1>3. /\ EnclaveThms!TasksInOrder => Trusted!TasksInOrder
      /\ EnclaveThms!TasksDrained => Trusted!TasksDrained
  BY DEF EnclaveThms!TasksInOrder, Trusted!TasksInOrder,
     EnclaveThms!TasksDrained, Trusted!TasksDrained,
     EnclaveThms!AppCode, Trusted!AppCode
<1>4. EnclaveThms!SnapshotDelivered => Trusted!SnapshotDelivered
  BY DEF EnclaveThms!SnapshotDelivered, Trusted!SnapshotDelivered,
     EnclaveThms!IsPrefix, Trusted!IsPrefix,
     EnclaveThms!AppCode, Trusted!AppCode
<1>5. EnclaveThms!ResourcesMatchState => Trusted!ResourcesMatchState
  BY DEF EnclaveThms!ResourcesMatchState, Trusted!ResourcesMatchState,
     EnclaveThms!Opened, Trusted!Opened
<1> QED BY <1>1, <1>2, <1>3, <1>4, <1>5, EnclavePartInvariant, PTL

-----------------------------------------------------------------------------
(***************************************************************************)
(* The way in: what is under way are the callbacks of postMessage.         *)
(***************************************************************************)
LEMMA WaitingIsOf ==
  ASSUME NEW k
  PROVE  Waiting(k) = Of(immediates, k) /\ Waiting(k)' = Of(immediates', k)
BY DEF Waiting, Of

\* The channel into the enclave starts empty.
LEMMA InwardStart == WorkerInit => Inward!ChannelInit
<1> SUFFICES ASSUME WorkerInit PROVE Inward!ChannelInit OBVIOUS
<1>1. immediates = <<>> /\ posted = 0 /\ emitted = <<>>
  BY DEF WorkerInit, Trusted!EnclaveInit
<1>2. Range(immediates) = {} BY <1>1 DEF Range
<1> QED BY <1>1, <1>2 DEF Inward!ChannelInit, Waiting

\* The event loop takes a callback: a message of postMessage reaches the
\* enclave or is dropped with those before it.
LEMMA InwardTurn ==
  ASSUME WorkerInv, Counted, RunImmediate
  PROVE  [Inward!ChannelNext]_(Inward!channelVars)
<1> DEFINE h == Head(immediates)
           w == Of(immediates, "post")
<1>1. /\ immediates # <<>> /\ immediates' = Tail(immediates) /\ posted' = posted
      /\ immediates \in Seq(Callback)
  BY DEF RunImmediate, RunPost, RunEmit, RunTerminate, NextIs, LoopTurn,
     RestOfImmediates, WorkerInv, WorkerTypeOK
<1>2. Ordered(immediates, "post")
  BY DEF WorkerInv, QueueInv, Increasing, Ordered
<1>3. /\ h.kind = "post" =>
           /\ h.message \in w
           /\ \A m \in w : h.message <= m
           /\ Of(immediates', "post") = w \ {h.message}
           /\ Of(immediates', "post") = {m \in w : m > h.message}
      /\ h.kind # "post" => Of(immediates', "post") = w
  BY <1>1, <1>2, OfTail
<1>4. CASE RunPost /\ (Unusable \/ state # "ACTIVE")
  <2>1. h.kind = "post" /\ emitted' = emitted
    BY <1>4 DEF RunPost, NextIs, enclaveVars, EnclaveAborts, Trusted!WrongState,
       Trusted!EcallEmit, Trusted!emitVars
  <2>2. Inward!Lose
    BY <1>1, <1>3, <2>1, WaitingIsOf DEF Inward!Lose
  <2> QED BY <2>2 DEF Inward!ChannelNext
<1>5. CASE RunPost /\ ~Unusable /\ state = "ACTIVE"
  <2>1. h.kind = "post" /\ emitted' = Append(emitted, h.message)
    <3>1. /\ Trusted!EcallEmit(Len(emitted) + 1)
          /\ h.message = Len(emitted) + 1 /\ h.kind = "post"
      BY <1>5, RunPostTakesNext DEF RunPost, NextIs
    <3> QED BY <3>1 DEF Trusted!EcallEmit
  <2>2. Inward!Deliver
    BY <1>1, <1>3, <2>1, WaitingIsOf DEF Inward!Deliver
  <2> QED BY <2>2 DEF Inward!ChannelNext
<1>6. CASE RunEmit \/ RunTerminate
  <2>1. h.kind # "post" /\ emitted' = emitted
    BY <1>6 DEF RunEmit, RunTerminate, NextIs, enclaveVars, Trusted!EcallClose,
       EnclaveAborts, Trusted!WrongState, Trusted!jsVars, Trusted!emitVars
  <2> QED BY <1>1, <1>3, <2>1, WaitingIsOf DEF Inward!channelVars
<1> QED BY <1>4, <1>5, <1>6 DEF RunImmediate

\* Every step of the worker sends, delivers or drops there, or leaves it alone.
LEMMA InwardStep ==
  ASSUME WorkerInv, Counted, [WorkerNext]_workerVars
  PROVE  [Inward!ChannelNext]_(Inward!channelVars)
<1>1. immediates \in Seq(Callback) /\ posted \in Nat /\ posts \in Nat
  BY DEF WorkerInv, WorkerTypeOK
<1>2. CASE PostMessage
  <2> DEFINE c == [kind |-> "post", message |-> posted + 1]
  <2>1. /\ immediates' = Append(immediates, c) /\ posted' = posted + 1
        /\ emitted' = emitted
    BY <1>2 DEF PostMessage, SetImmediate, enclaveVars
  <2>2. c \in Callback /\ c.kind = "post" /\ c.message = posted + 1
    BY <1>1 DEF Callback
  <2> HIDE DEF c
  <2>3. Of(immediates', "post") = Of(immediates, "post") \cup {posted + 1}
    BY <1>1, <2>1, <2>2, OfAppend
  <2> QED BY <2>1, <2>3, WaitingIsOf DEF Inward!ChannelNext, Inward!Send
<1>3. CASE Terminate \/ EnclavePosts
  <2>1. PICK c \in Callback : /\ immediates' = Append(immediates, c)
                              /\ c.kind # "post"
    <3>1. /\ [kind |-> "terminate", message |-> 0] \in Callback
          /\ [kind |-> "emit", message |-> posts + 1] \in Callback
      BY <1>1 DEF Callback
    <3> QED BY <1>3, <3>1 DEF Terminate, EnclavePosts, SetImmediate
  <2>2. posted' = posted /\ emitted' = emitted
    BY <1>3 DEF Terminate, EnclavePosts, enclaveVars, Trusted!PostMessage,
       Trusted!emitVars
  <2>3. Of(immediates', "post") = Of(immediates, "post")
    BY <1>1, <2>1, OfAppend
  <2> QED BY <2>2, <2>3, WaitingIsOf DEF Inward!channelVars
<1>4. CASE RunImmediate BY <1>4, InwardTurn
<1>5. CASE UNCHANGED <<immediates, posted, emitted>>
  BY <1>5, WaitingIsOf DEF Inward!channelVars
<1>6. CASE UNCHANGED workerVars
  BY <1>5, <1>6 DEF workerVars, enclaveVars, jsSideVars
<1> QED BY <1>2, <1>3, <1>4, <1>5, <1>6, OthersKeepQueue

(***************************************************************************)
(* worker.postMessage is a channel: the enclave takes in the messages in   *)
(* the order they were posted, each once, and none after a lost one came   *)
(* too late, whatever crashes or terminates it (lib/real.js:54-62).        *)
(***************************************************************************)
THEOREM WorkerInward == WorkerSpec => InwardChannel
BY InwardStart, CountedInvariant, InwardStep, PTL
DEF WorkerSpec, InwardChannel, Inward!ChannelSpec

-----------------------------------------------------------------------------
(***************************************************************************)
(* The way out: what is under way are the messages of the port's queue,    *)
(* while start() can still reach them, and those not emitted yet.          *)
(***************************************************************************)
LEMMA RangeAppend ==
  ASSUME NEW q \in Seq(Nat), NEW m \in Nat
  PROVE  Range(Append(q, m)) = Range(q) \cup {m}
<1> DEFINE r == Append(q, m)
<1>1. /\ DOMAIN q = 1..Len(q) /\ DOMAIN r = 1..(Len(q) + 1) /\ Len(q) \in Nat
      /\ r[Len(q) + 1] = m /\ \A i \in 1..Len(q) : r[i] = q[i]
  BY LenProperties, AppendProperties
<1> HIDE DEF r
<1>2. \A i \in 1..(Len(q) + 1) : i \in 1..Len(q) \/ i = Len(q) + 1
  BY <1>1
<1>3. /\ Len(q) + 1 \in 1..(Len(q) + 1)
      /\ \A i \in 1..Len(q) : i \in 1..(Len(q) + 1)
  BY <1>1
<1>4. \A x : x \in Range(r) <=> x \in Range(q) \/ x = m
  BY <1>1, <1>2, <1>3 DEF Range
<1>5. Range(r) = Range(q) \cup {m} BY <1>4
<1> QED BY <1>5 DEF r

\* The queue of the port: its first message is the least, its last the most.
LEMMA QueueFacts ==
  ASSUME NEW q \in Seq(Nat), q # <<>>,
         \A i, j \in 1..Len(q) : i < j => q[i] < q[j]
  PROVE  /\ Head(q) \in Range(q) /\ \A n \in Range(q) : Head(q) <= n /\ n \in Nat
         /\ Range(Tail(q)) = Range(q) \ {Head(q)}
         /\ q[Len(q)] \in Range(q) /\ \A n \in Range(q) : n <= q[Len(q)]
<1> DEFINE r == Tail(q)
<1>1. /\ Len(q) \in Nat /\ Len(q) >= 1 /\ Head(q) = q[1]
      /\ Len(r) = Len(q) - 1
      /\ \A i \in 1..(Len(q) - 1) : r[i] = q[i + 1] /\ i + 1 \in 1..Len(q)
      /\ \A i \in 1..Len(q) : q[i] \in Nat
  BY EmptySeq, LenProperties, HeadTailProperties, ElementOfSeq
<1>2. /\ \A x : x \in Range(q) <=> \E i \in 1..Len(q) : x = q[i]
      /\ \A x : x \in Range(r) <=> \E i \in 1..Len(r) : x = r[i]
  <2>1. DOMAIN q = 1..Len(q) /\ DOMAIN r = 1..Len(r)
    BY LenProperties, HeadTailProperties
  <2> QED BY <2>1 DEF Range
<1> HIDE DEF r
<1>3. /\ 1 \in 1..Len(q) /\ Len(q) \in 1..Len(q)
      /\ \A i \in 1..Len(q) : i = 1 \/ (i - 1 \in 1..Len(r) /\ r[i - 1] = q[i])
  BY <1>1
<1>4. ASSUME NEW i \in 1..Len(q)
      PROVE  q[1] <= q[i] /\ q[i] <= q[Len(q)] /\ (i # 1 => q[i] # q[1])
  <2>1. i # 1 => q[1] < q[i] BY <1>3
  <2>2. i # Len(q) => q[i] < q[Len(q)] BY <1>1, <1>3
  <2>3. q[1] \in Nat /\ q[i] \in Nat /\ q[Len(q)] \in Nat BY <1>1, <1>3
  <2> QED BY <2>1, <2>2, <2>3
<1>5. \A x : x \in Range(r) <=> x \in Range(q) /\ x # q[1]
  <2> TAKE x
  <2>1. ASSUME x \in Range(r) PROVE x \in Range(q) /\ x # q[1]
    <3>1. PICK i \in 1..Len(r) : x = r[i] BY <1>2, <2>1
    <3>2. i + 1 \in 1..Len(q) /\ x = q[i + 1] /\ i + 1 # 1 BY <1>1, <3>1
    <3> QED BY <1>2, <1>4, <3>2
  <2>2. ASSUME x \in Range(q), x # q[1] PROVE x \in Range(r)
    <3>1. PICK i \in 1..Len(q) : x = q[i] BY <1>2, <2>2
    <3> QED BY <1>2, <1>3, <2>2, <3>1
  <2> QED BY <2>1, <2>2
<1>6. Range(r) = Range(q) \ {q[1]} BY <1>5
<1>7. /\ q[1] \in Range(q) /\ q[Len(q)] \in Range(q)
      /\ \A n \in Range(q) : q[1] <= n /\ n \in Nat /\ n <= q[Len(q)]
  BY <1>1, <1>2, <1>3, <1>4
<1> QED BY <1>1, <1>6, <1>7 DEF r

Held == IF Stranded THEN {} ELSE Range(queuedBeforeStarting)

\* What waits to leave the enclave, before a step and after it, by numbers.
LEMMA PipeIs ==
  ASSUME WorkerInv, Counted, WorkerInv', Counted'
  PROVE  /\ Waiting("emit") = (lastEmitted + 1)..posts
         /\ Waiting("emit")' = (lastEmitted' + 1)..posts'
<1>1. /\ immediates \in Seq(Callback) /\ posts \in Nat /\ lastEmitted \in Nat
      /\ Carries(immediates, "emit", lastEmitted, posts)
  BY DEF WorkerInv, WorkerTypeOK, Counted
<1>2. /\ immediates' \in Seq(Callback) /\ posts' \in Nat /\ lastEmitted' \in Nat
      /\ Carries(immediates', "emit", lastEmitted', posts')
  BY DEF WorkerInv, WorkerTypeOK, Counted
<1>3. Of(immediates, "emit") = (lastEmitted + 1)..posts
  BY <1>1, CarriesIsOf
<1>4. Of(immediates', "emit") = (lastEmitted' + 1)..posts'
  BY <1>2, CarriesIsOf
<1> QED BY <1>3, <1>4, WaitingIsOf

\* The channel out of the enclave starts empty.
LEMMA OutwardStart == WorkerInit => Outward!ChannelInit
<1> SUFFICES ASSUME WorkerInit PROVE Outward!ChannelInit OBVIOUS
<1>1. /\ immediates = <<>> /\ posts = 0 /\ dispatched = <<>>
      /\ queuedBeforeStarting = <<>>
  BY DEF WorkerInit, Trusted!EnclaveInit, Port!PortInit
<1>2. Range(immediates) = {} /\ Range(queuedBeforeStarting) = {}
  BY <1>1 DEF Range
<1> QED BY <1>1, <1>2 DEF Outward!ChannelInit, Waiting, Stranded

\* What the proof needs of the port's invariant.
LEMMA PortFacts ==
  ASSUME PortThms!PortInv
  PROVE  /\ queuedBeforeStarting \in Seq(Nat) /\ lastEmitted \in Nat
         /\ \A i, j \in 1..Len(queuedBeforeStarting) :
              i < j => queuedBeforeStarting[i] < queuedBeforeStarting[j]
         /\ \A n \in Range(queuedBeforeStarting) : n <= lastEmitted
         /\ draining => started
         /\ started \in BOOLEAN /\ draining \in BOOLEAN
<1>1. /\ PortThms!PortTypeOK /\ PortThms!Increasing(queuedBeforeStarting)
      /\ PortThms!Numbered /\ PortThms!QuietUntilStarted
  BY DEF PortThms!PortInv
<1>2. queuedBeforeStarting \in Seq(PortThms!Message)
      /\ lastEmitted \in Nat /\ started \in BOOLEAN /\ draining \in BOOLEAN
  BY <1>1 DEF PortThms!PortTypeOK
<1>3. queuedBeforeStarting \in Seq(Nat)
  <2>1. PortThms!Message \subseteq Nat BY DEF PortThms!Message
  <2> QED BY <1>2, <2>1, SeqMonotonic
<1>4. \A n \in Range(queuedBeforeStarting) : n <= lastEmitted
  BY <1>1 DEF PortThms!Numbered, Range
<1>5. draining => started BY <1>1 DEF PortThms!QuietUntilStarted
<1>6. DOMAIN queuedBeforeStarting = 1..Len(queuedBeforeStarting)
  BY <1>3, LenProperties
<1> QED BY <1>1, <1>2, <1>3, <1>4, <1>5, <1>6 DEF PortThms!Increasing

\* An emitted message is queued, which changes nothing, or handed over.
LEMMA OutwardEmit ==
  ASSUME WorkerInv, Counted, WorkerInv', Counted', PortThms!PortInv, RunEmit
  PROVE  [Outward!ChannelNext]_(Outward!channelVars)
<1> DEFINE m == lastEmitted + 1
<1>1. /\ Port!Emit(m) /\ lastEmitted' = m /\ m <= posts /\ posts' = posts
  BY RunEmitTakesNext DEF RunEmit, enclaveVars
<1>2. /\ lastEmitted \in Nat /\ m \in Nat /\ posts \in Nat
      /\ queuedBeforeStarting \in Seq(Nat)
  BY PortFacts DEF WorkerInv
<1>3. m..posts = {m} \cup ((m + 1)..posts) /\ m \notin (m + 1)..posts
      /\ \A n \in m..posts : m <= n
  BY <1>1, <1>2
<1> HIDE DEF m
<1>4. /\ Waiting("emit") = m..posts /\ Waiting("emit")' = (m + 1)..posts
  BY <1>1, PipeIs DEF m
<1>5. CASE ~started
  <2>1. /\ queuedBeforeStarting' = Append(queuedBeforeStarting, m)
        /\ dispatched' = dispatched /\ ~Stranded /\ ~Stranded'
    BY <1>1, <1>5 DEF Port!Emit, Stranded
  <2>2. Range(queuedBeforeStarting') = Range(queuedBeforeStarting) \cup {m}
    BY <1>2, <2>1, RangeAppend
  <2> QED BY <1>1, <1>3, <1>4, <2>1, <2>2 DEF Outward!channelVars
<1>6. CASE started
  <2>1. /\ dispatched' = Append(dispatched, m) /\ Stranded /\ Stranded'
    BY <1>1, <1>6 DEF Port!Emit, Port!SuperEmit, Port!PortIdle, Stranded
  <2>2. Outward!Deliver
    BY <1>1, <1>3, <1>4, <2>1 DEF Outward!Deliver
  <2> QED BY <2>2 DEF Outward!ChannelNext
<1> QED BY <1>5, <1>6

\* start() hands on its oldest message, or loses those it still holds.
LEMMA OutwardPort ==
  ASSUME WorkerInv, Counted, WorkerInv', Counted', PortThms!PortInv, PortRuns
  PROVE  [Outward!ChannelNext]_(Outward!channelVars)
<1> DEFINE q == queuedBeforeStarting
           w == (lastEmitted + 1)..posts
<1>1. /\ posts' = posts /\ lastEmitted' = lastEmitted /\ started' = started
      /\ posts \in Nat
  BY DEF PortRuns, enclaveVars, Port!DrainNext, Port!DrainDone,
     Port!ListenerReturns, Port!ListenerThrows, WorkerInv
<1>2. /\ q \in Seq(Nat) /\ lastEmitted \in Nat
      /\ \A i, j \in 1..Len(q) : i < j => q[i] < q[j]
      /\ \A n \in Range(q) : n <= lastEmitted
      /\ draining => started
      /\ draining \in BOOLEAN
  BY PortFacts
<1>3. /\ Waiting("emit") = w /\ Waiting("emit")' = w
  BY <1>1, PipeIs
<1>4. q # <<>> =>
        /\ Head(q) \in Range(q) /\ \A n \in Range(q) : Head(q) <= n /\ n \in Nat
        /\ Range(Tail(q)) = Range(q) \ {Head(q)}
        /\ q[Len(q)] \in Range(q) /\ \A n \in Range(q) : n <= q[Len(q)]
  BY <1>2, QueueFacts
<1>5. \A n \in w : n \in Nat /\ n > lastEmitted BY <1>1, <1>2
<1> HIDE DEF w
<1>6. CASE Port!DrainNext
  <2>1. /\ q # <<>> /\ dispatched' = Append(dispatched, Head(q)) /\ q' = Tail(q)
        /\ draining /\ draining' = draining
    BY <1>6 DEF Port!DrainNext, Port!SuperEmit, Port!ShiftFirst
  <2>2. ~Stranded /\ ~Stranded' BY <1>1, <2>1 DEF Stranded
  <2> DEFINE m == Head(q)
             pipe == Range(q) \cup w
  <2>3. /\ m \in Range(q) /\ m \in Nat /\ m <= lastEmitted
        /\ Range(q') = Range(q) \ {m}
    BY <1>2, <1>4, <2>1
  <2>4. \A n \in pipe : m <= n
    BY <1>2, <1>4, <1>5, <2>1, <2>3
  <2>5. m \notin w BY <1>2, <1>5, <2>3
  <2>6. Range(q') \cup w = pipe \ {m} BY <2>3, <2>5
  <2>7. m \in pipe BY <2>3
  <2>8. Outward!Deliver
    BY <1>1, <1>3, <2>1, <2>2, <2>4, <2>6, <2>7 DEF Outward!Deliver
  <2> QED BY <2>8 DEF Outward!ChannelNext
<1>7. CASE Port!ListenerThrows /\ draining /\ q # <<>>
  <2>1. /\ q' = q /\ dispatched' = dispatched /\ draining' = FALSE
    BY <1>7 DEF Port!ListenerThrows
  <2>2. ~Stranded /\ Stranded' BY <1>1, <1>2, <1>7, <2>1 DEF Stranded
  <2> DEFINE m == q[Len(q)]
             pipe == Range(q) \cup w
  <2>3. /\ m \in Range(q) /\ m \in Nat /\ m <= lastEmitted
        /\ \A n \in Range(q) : n \in Nat /\ n <= m
    BY <1>2, <1>4, <1>7
  <2>4. \A n \in w : n > m BY <1>2, <1>5, <2>3
  <2>5. \A n \in Range(q) : ~(n > m) BY <2>3
  <2>6. w = {n \in pipe : n > m} BY <2>4, <2>5
  <2>7. m \in pipe BY <2>3
  <2>8. Outward!Lose
    BY <1>1, <1>3, <2>1, <2>2, <2>6, <2>7 DEF Outward!Lose
  <2> QED BY <2>8 DEF Outward!ChannelNext
<1>8. CASE /\ q' = q /\ dispatched' = dispatched
           /\ draining' = draining \/ q = <<>>
  <2>1. q = <<>> => Range(q) = {} BY DEF Range
  <2>2. CASE draining' = draining
    BY <1>1, <1>3, <1>8, <2>2 DEF Outward!channelVars, Stranded
  <2>3. CASE q = <<>>
    <3>1. Held = {} /\ Held' = {} BY <1>8, <2>1, <2>3 DEF Held
    <3> QED BY <1>1, <1>3, <1>8, <3>1 DEF Outward!channelVars, Held
  <2> QED BY <1>8, <2>2, <2>3
<1> QED
  BY <1>2, <1>6, <1>7, <1>8
  DEF PortRuns, Port!DrainDone, Port!ListenerReturns, Port!ListenerThrows

\* Every step of the worker sends, delivers or drops there, or leaves it alone.
LEMMA OutwardStep ==
  ASSUME WorkerInv, Counted, WorkerInv', Counted', PortThms!PortInv,
         [WorkerNext]_workerVars
  PROVE  [Outward!ChannelNext]_(Outward!channelVars)
<1>1. CASE EnclavePosts
  <2>1. posts' = posts + 1 /\ UNCHANGED portVars
    BY <1>1 DEF EnclavePosts, Trusted!PostMessage
  <2>2. posts \in Nat /\ lastEmitted \in 0..posts
    BY DEF WorkerInv, Counted
  <2>3. (lastEmitted + 1)..(posts + 1) = ((lastEmitted + 1)..posts) \cup {posts + 1}
    BY <2>2
  <2>4. Waiting("emit")' = Waiting("emit") \cup {posts + 1}
    BY <2>1, <2>3, PipeIs DEF portVars
  <2>5. Held' = Held BY <2>1 DEF portVars, Held, Stranded
  <2>6. Outward!Send
    BY <2>1, <2>4, <2>5 DEF Outward!Send, Held, portVars
  <2> QED BY <2>6 DEF Outward!ChannelNext
<1>2. CASE RunEmit BY <1>2, OutwardEmit
<1>3. CASE PortRuns BY <1>3, OutwardPort
<1>4. ASSUME UNCHANGED <<posts, lastEmitted, queuedBeforeStarting, dispatched>>,
             Stranded' = Stranded
      PROVE  [Outward!ChannelNext]_(Outward!channelVars)
  <2>1. Waiting("emit")' = Waiting("emit") BY <1>4, PipeIs
  <2> QED BY <1>4, <2>1 DEF Outward!channelVars
<1>5. CASE ChangeListeners
  <2>1. UNCHANGED <<posts, lastEmitted, queuedBeforeStarting, dispatched>>
    BY <1>5 DEF ChangeListeners, Port!OnMessage, Port!RemoveOnMessage, enclaveVars
  <2>2. \/ UNCHANGED <<started, draining>>
        \/ started' = TRUE /\ draining' = (draining \/ ~started)
    BY <1>5 DEF ChangeListeners, Port!OnMessage, Port!RemoveOnMessage, Port!Start
  <2>3. CASE UNCHANGED <<started, draining>> BY <1>4, <2>1, <2>3 DEF Stranded
  <2>4. CASE started' = TRUE /\ draining' = (draining \/ ~started)
    <3>1. draining' <=> draining \/ ~started BY <2>4, Zenon
    <3>2. Stranded' <=> Stranded BY <2>4, <3>1, Zenon DEF Stranded
    <3>3. Stranded' = Stranded BY <3>2 DEF Stranded
    <3> QED BY <1>4, <2>1, <3>3
  <2> QED BY <2>2, <2>3, <2>4, Zenon
<1>6. CASE UNCHANGED portVars /\ posts' = posts
  BY <1>4, <1>6 DEF portVars, Stranded
<1>7. CASE UNCHANGED workerVars
  BY <1>6, <1>7 DEF workerVars, enclaveVars
<1>8. CASE RunPost \/ RunTerminate
  <2>1. UNCHANGED portVars /\ posts' = posts
    BY <1>8 DEF RunPost, RunTerminate, Trusted!EcallEmit, Trusted!EcallClose,
       EnclaveAborts, Trusted!WrongState, Trusted!jsVars, enclaveVars
  <2> QED BY <1>6, <2>1
<1>9. CASE PostMessage \/ Terminate
  BY <1>6, <1>9 DEF PostMessage, Terminate, enclaveVars
<1>10. CASE \/ New \/ ConstructorEnds \/ EnclaveReturns \/ TerminateEnds
            \/ EnclaveCalls \/ EnclaveDies
  <2>1. UNCHANGED portVars
    BY <1>10 DEF New, ConstructorEnds, EnclaveReturns, TerminateEnds, EnclaveCalls,
       EnclaveDies
  <2>2. posts' = posts
    BY <1>10, OthersKeepQueue, ReturnsKeep, CallsKeep
    DEF New, ConstructorEnds, EnclaveReturns, TerminateEnds, EnclaveCalls,
        EnclaveDies, Trusted!EcallInit, Trusted!CloseReturns, Trusted!Fatal,
        Trusted!jsVars, enclaveVars
  <2> QED BY <1>6, <2>1, <2>2
<1> QED
  BY <1>1, <1>2, <1>3, <1>5, <1>7, <1>8, <1>9, <1>10 DEF WorkerNext, RunImmediate

(***************************************************************************)
(* SecureWorker.postMessage inside is a channel: what the enclave posts    *)
(* reaches the listeners in order, each message once, through the event    *)
(* loop and the queue of the port; only a listener that throws in start()  *)
(* loses messages, the oldest ones (lib/real.js:9-20, message-port.js).    *)
(***************************************************************************)
THEOREM WorkerOutward == WorkerSpec => OutwardChannel
BY OutwardStart, CountedInvariant, PortPartInvariant, OutwardStep, PTL
DEF WorkerSpec, OutwardChannel, Outward!ChannelSpec
=============================================================================

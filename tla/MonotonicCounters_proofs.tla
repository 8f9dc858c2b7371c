---------------------- MODULE MonotonicCounters_proofs ----------------------
(***************************************************************************)
(* Theorems of MonotonicCounters for any limit and any ids: the table with *)
(* its separate count is the service of CounterService.                    *)
(***************************************************************************)
EXTENDS MonotonicCounters, FiniteSetTheorems, TLAPS

CountersInv == CountersTypeOK /\ CountIsTrue

\* A table with a counter added or changed.
LEMMA WithFacts ==
  ASSUME NEW table, table \in [DOMAIN table -> Nat],
         NEW u, NEW n \in Nat, NEW t, t = Service!With(table, u, n)
  PROVE  /\ DOMAIN t = DOMAIN table \cup {u}
         /\ t \in [DOMAIN t -> Nat]
         /\ t[u] = n
         /\ \A v \in DOMAIN table : v # u => t[v] = table[v]
BY DEF Service!With

\* A table with a counter removed.
LEMMA WithoutFacts ==
  ASSUME NEW table, table \in [DOMAIN table -> Nat],
         NEW u, NEW t, t = Service!Without(table, u)
  PROVE  /\ DOMAIN t = DOMAIN table \ {u}
         /\ t \in [DOMAIN t -> Nat]
         /\ \A v \in DOMAIN t : t[v] = table[v]
BY DEF Service!Without

\* The count follows a creation.
LEMMA CreatePreserves ==
  ASSUME CountersInv, CreateMonotonicCounter
  PROVE  CountersInv'
<1>1. CASE Throw(Service!LimitReached)
  BY <1>1 DEF CountersInv, CountersTypeOK, CountIsTrue, Throw
<1>2. CASE ~Throw(Service!LimitReached)
  <2>1. PICK u \in Uuid :
          /\ ~Known(u)
          /\ monotonicCounters' = Service!With(monotonicCounters, u, 0)
          /\ monotonicCountersCount' = monotonicCountersCount + 1
    BY <1>2 DEF CreateMonotonicCounter
  <2>2. /\ DOMAIN monotonicCounters' = DOMAIN monotonicCounters \cup {u}
        /\ monotonicCounters' \in [DOMAIN monotonicCounters' -> Nat]
    BY <2>1, WithFacts DEF CountersInv, CountersTypeOK
  <2>3. u \notin DOMAIN monotonicCounters
    BY <2>1 DEF Known
  <2>4. /\ IsFiniteSet(DOMAIN monotonicCounters')
        /\ Cardinality(DOMAIN monotonicCounters')
             = Cardinality(DOMAIN monotonicCounters) + 1
    BY <2>2, <2>3, FS_AddElement DEF CountersInv, CountIsTrue
  <2> QED BY <2>1, <2>2, <2>4 DEF CountersInv, CountersTypeOK, CountIsTrue
<1> QED BY <1>1, <1>2

\* The count follows a destruction, and a second one does not change it.
LEMMA DestroyPreserves ==
  ASSUME CountersInv, NEW u \in Uuid, DestroyMonotonicCounter(u)
  PROVE  CountersInv'
<1>1. CASE ~Known(u)
  BY <1>1 DEF CountersInv, CountersTypeOK, CountIsTrue, DestroyMonotonicCounter,
              Throw
<1>2. CASE Known(u)
  <2>1. /\ monotonicCounters' = Service!Without(monotonicCounters, u)
        /\ monotonicCountersCount' = monotonicCountersCount - 1
        /\ u \in DOMAIN monotonicCounters
    BY <1>2 DEF DestroyMonotonicCounter, Known
  <2>2. /\ DOMAIN monotonicCounters' = DOMAIN monotonicCounters \ {u}
        /\ monotonicCounters' \in [DOMAIN monotonicCounters' -> Nat]
    BY <2>1, WithoutFacts DEF CountersInv, CountersTypeOK
  <2>3. /\ IsFiniteSet(DOMAIN monotonicCounters')
        /\ Cardinality(DOMAIN monotonicCounters')
             = Cardinality(DOMAIN monotonicCounters) - 1
    BY <2>1, <2>2, FS_RemoveElement DEF CountersInv, CountIsTrue
  <2>4. Cardinality(DOMAIN monotonicCounters') \in Nat
    BY <2>3, FS_CardinalityType
  <2> QED BY <2>1, <2>2, <2>3, <2>4
          DEF CountersInv, CountersTypeOK, CountIsTrue
<1> QED BY <1>1, <1>2

\* Reading changes nothing, and incrementing no counter's existence.
LEMMA ReadPreserves ==
  ASSUME CountersInv, NEW u \in Uuid, ReadMonotonicCounter(u)
  PROVE  CountersInv'
BY DEF CountersInv, CountersTypeOK, CountIsTrue, ReadMonotonicCounter, Throw

\* incrementMonotonicCounter changes no count of counters.
LEMMA IncrementPreserves ==
  ASSUME CountersInv, NEW u \in Uuid, IncrementMonotonicCounter(u)
  PROVE  CountersInv'
<1>1. CASE ~Known(u)
  BY <1>1 DEF CountersInv, CountersTypeOK, CountIsTrue,
              IncrementMonotonicCounter, Throw
<1>2. CASE Known(u)
  <2>1. /\ monotonicCounters' =
             Service!With(monotonicCounters, u, monotonicCounters[u] + 1)
        /\ monotonicCountersCount' = monotonicCountersCount
        /\ u \in DOMAIN monotonicCounters
        /\ monotonicCounters[u] + 1 \in Nat
    BY <1>2 DEF IncrementMonotonicCounter, Known, CountersInv, CountersTypeOK
  <2>2. DOMAIN monotonicCounters' = DOMAIN monotonicCounters
    <3>1. DOMAIN monotonicCounters' = DOMAIN monotonicCounters \cup {u}
      BY <2>1 DEF Service!With
    <3> QED BY <2>1, <3>1
  <2>3. monotonicCounters' \in [DOMAIN monotonicCounters' -> Nat]
    BY <2>1 DEF Service!With, CountersInv, CountersTypeOK
  <2> QED BY <2>1, <2>2, <2>3 DEF CountersInv, CountersTypeOK, CountIsTrue
<1> QED BY <1>1, <1>2

\* Every call keeps the invariant.
LEMMA CountersInvStep ==
  CountersInv /\ [CountersNext]_counterVars => CountersInv'
<1> SUFFICES ASSUME CountersInv, [CountersNext]_counterVars PROVE CountersInv'
  OBVIOUS
<1>1. CASE UNCHANGED counterVars
  BY <1>1 DEF CountersInv, CountersTypeOK, CountIsTrue, counterVars
<1> QED
  BY <1>1, CreatePreserves, DestroyPreserves, ReadPreserves, IncrementPreserves
  DEF CountersNext

(***************************************************************************)
(* The count is the number of counters that exist, for any limit.          *)
(***************************************************************************)
THEOREM CountersInvariant == CountersSpec => []CountersInv
<1>1. CountersInit => CountersInv
  <2> SUFFICES ASSUME CountersInit PROVE CountersInv OBVIOUS
  <2>1. DOMAIN monotonicCounters = {} /\ monotonicCountersCount = 0
    BY DEF CountersInit
  <2>2. monotonicCounters \in [DOMAIN monotonicCounters -> Nat]
    BY DEF CountersInit
  <2> QED BY <2>1, <2>2, FS_EmptySet
          DEF CountersInv, CountersTypeOK, CountIsTrue
<1> QED BY <1>1, CountersInvStep, PTL DEF CountersSpec

\* No call moves the count away from the table, or the table from the count.
THEOREM CountersCount == CountersSpec => []CountIsTrue
<1>1. CountersInv => CountIsTrue BY DEF CountersInv
<1> QED BY <1>1, CountersInvariant, PTL

\* There are never more counters than the limit.
THEOREM CountersLimit ==
  ASSUME Limit \in Nat
  PROVE  CountersSpec => []WithinLimit
<1>1. CountersInit => WithinLimit
  BY DEF CountersInit, WithinLimit
<1>2. WithinLimit /\ CountersInv /\ [CountersNext]_counterVars => WithinLimit'
  <2> SUFFICES ASSUME WithinLimit, CountersInv, [CountersNext]_counterVars
               PROVE  WithinLimit'
    OBVIOUS
  <2>1. monotonicCountersCount \in Nat BY DEF CountersInv, CountersTypeOK
  <2> USE DEF WithinLimit, Throw
  <2>2. CASE CreateMonotonicCounter
    BY <2>1, <2>2 DEF CreateMonotonicCounter
  <2>3. ASSUME NEW u \in Uuid, DestroyMonotonicCounter(u) PROVE WithinLimit'
    BY <2>1, <2>3 DEF DestroyMonotonicCounter
  <2>4. ASSUME NEW u \in Uuid, ReadMonotonicCounter(u) PROVE WithinLimit'
    BY <2>4 DEF ReadMonotonicCounter
  <2>5. ASSUME NEW u \in Uuid, IncrementMonotonicCounter(u) PROVE WithinLimit'
    BY <2>5 DEF IncrementMonotonicCounter
  <2>6. CASE UNCHANGED counterVars
    BY <2>6 DEF counterVars
  <2> QED BY <2>2, <2>3, <2>4, <2>5, <2>6 DEF CountersNext
<1> QED BY <1>1, <1>2, CountersInvariant, PTL DEF CountersSpec

\* A counter that exists never goes back.
THEOREM CountersNeverBack == CountersSpec => NeverBack
<1> DEFINE A == \A u \in DOMAIN monotonicCounters :
                  u \in DOMAIN monotonicCounters' =>
                    monotonicCounters'[u] >= monotonicCounters[u]
<1>1. CountersInv /\ [CountersNext]_counterVars => [A]_counterVars
  <2> SUFFICES ASSUME CountersInv, CountersNext PROVE A
    OBVIOUS
  <2>1. \A v \in DOMAIN monotonicCounters : monotonicCounters[v] \in Nat
    BY DEF CountersInv, CountersTypeOK
  <2>2. ASSUME monotonicCounters' = monotonicCounters PROVE A
    BY <2>1, <2>2
  <2>3. CASE CreateMonotonicCounter
    <3>1. CASE \E u \in Uuid :
                 /\ ~Known(u)
                 /\ monotonicCounters' = Service!With(monotonicCounters, u, 0)
      <4>1. PICK u \in Uuid :
              /\ ~Known(u)
              /\ monotonicCounters' = Service!With(monotonicCounters, u, 0)
        BY <3>1
      <4>2. \A v \in DOMAIN monotonicCounters :
              monotonicCounters'[v] = monotonicCounters[v]
        BY <4>1 DEF Known, Service!With
      <4> QED BY <2>1, <4>2
    <3> QED BY <2>2, <2>3, <3>1 DEF CreateMonotonicCounter, Throw
  <2>4. ASSUME NEW u \in Uuid, DestroyMonotonicCounter(u) PROVE A
    <3>1. CASE monotonicCounters' = Service!Without(monotonicCounters, u)
      <4>1. \A v \in DOMAIN monotonicCounters' :
              monotonicCounters'[v] = monotonicCounters[v]
        BY <3>1 DEF Service!Without
      <4> QED BY <2>1, <4>1
    <3> QED BY <2>2, <2>4, <3>1 DEF DestroyMonotonicCounter, Throw
  <2>5. ASSUME NEW u \in Uuid, ReadMonotonicCounter(u) PROVE A
    BY <2>2, <2>5 DEF ReadMonotonicCounter, Throw
  <2>6. ASSUME NEW u \in Uuid, IncrementMonotonicCounter(u) PROVE A
    <3>1. CASE /\ Known(u)
               /\ monotonicCounters' =
                    Service!With(monotonicCounters, u, monotonicCounters[u] + 1)
      <4>1. u \in DOMAIN monotonicCounters /\ monotonicCounters[u] \in Nat
            /\ monotonicCounters[u] + 1 \in Nat
        BY <2>1, <3>1 DEF Known
      <4>2. /\ monotonicCounters'[u] = monotonicCounters[u] + 1
            /\ \A v \in DOMAIN monotonicCounters :
                 v # u => monotonicCounters'[v] = monotonicCounters[v]
        BY <3>1, <4>1 DEF Service!With
      <4>3. ASSUME NEW v \in DOMAIN monotonicCounters
            PROVE  monotonicCounters'[v] >= monotonicCounters[v]
        BY <2>1, <4>1, <4>2
      <4> QED BY <4>3
    <3> QED BY <2>2, <2>6, <3>1 DEF IncrementMonotonicCounter, Throw
  <2> QED BY <2>3, <2>4, <2>5, <2>6 DEF CountersNext
<1>2. CountersSpec => [][A]_counterVars
  <2> HIDE DEF A
  <2> QED BY <1>1, CountersInvariant, PTL DEF CountersSpec
<1> QED BY <1>2 DEF NeverBack

(***************************************************************************)
(* The counters of lib/mock.js implement the service: every call is one    *)
(* step of it, and a creation is refused exactly when the limit of         *)
(* existing counters is reached.                                           *)
(***************************************************************************)
THEOREM CountersRefinement == CountersSpec => IsService
<1>1. CountersInit => Service!ServiceInit
  BY DEF CountersInit, Service!ServiceInit
<1>2. CountersInv /\ [CountersNext]_counterVars
        => [Service!ServiceNext]_(Service!serviceVars)
  <2> SUFFICES ASSUME CountersInv, [CountersNext]_counterVars
               PROVE  [Service!ServiceNext]_(Service!serviceVars)
    OBVIOUS
  <2>1. monotonicCountersCount >= Limit <=> Service!Full
    BY DEF CountersInv, CountIsTrue, Service!Full, Service!Cardinality, Cardinality
  <2>2. CASE CreateMonotonicCounter
    <3>1. Service!CreateRefused \/ \E u \in Uuid : Service!Create(u)
      BY <2>1, <2>2 DEF CreateMonotonicCounter, Throw, Known,
         Service!CreateRefused, Service!Create
    <3> QED BY <3>1 DEF Service!ServiceNext
  <2>3. ASSUME NEW u \in Uuid, DestroyMonotonicCounter(u)
        PROVE  Service!ServiceNext
    <3>1. Service!Destroy(u) \/ Service!Refused(u)
      BY <2>3 DEF DestroyMonotonicCounter, Throw, Known, Service!Destroy,
         Service!Refused
    <3> QED BY <3>1 DEF Service!ServiceNext
  <2>4. ASSUME NEW u \in Uuid, ReadMonotonicCounter(u)
        PROVE  Service!ServiceNext
    <3>1. Service!Read(u) \/ Service!Refused(u)
      BY <2>4 DEF ReadMonotonicCounter, Throw, Known, Service!Read,
         Service!Refused
    <3> QED BY <3>1 DEF Service!ServiceNext
  <2>5. ASSUME NEW u \in Uuid, IncrementMonotonicCounter(u)
        PROVE  Service!ServiceNext
    <3>1. Service!Increment(u) \/ Service!Refused(u)
      BY <2>5 DEF IncrementMonotonicCounter, Throw, Known, Service!Increment,
         Service!Refused
    <3> QED BY <3>1 DEF Service!ServiceNext
  <2>6. CASE UNCHANGED counterVars
    BY <2>6 DEF counterVars, Service!serviceVars
  <2> QED BY <2>2, <2>3, <2>4, <2>5, <2>6 DEF CountersNext
<1> QED BY <1>1, <1>2, CountersInvariant, PTL
        DEF CountersSpec, IsService, Service!ServiceSpec
=============================================================================

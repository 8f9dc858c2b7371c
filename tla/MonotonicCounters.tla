-------------------------- MODULE MonotonicCounters --------------------------
(***************************************************************************)
(* The monotonic counters of lib/mock.js: one table and one count for all  *)
(* the mock workers of a process.  The count is kept apart from the table  *)
(* and decides when the limit is reached, so a call that changes one of    *)
(* them without the other would lose a counter's place for good.           *)
(*                                                                         *)
(* The calls are synchronous: those of several workers follow each other.  *)
(***************************************************************************)
EXTENDS Naturals, FiniteSets

CONSTANTS
  Uuid,  \* what uuid.v4 can return
  Limit  \* 256 in the code

VARIABLES
  monotonicCounters,       \* the plain object, by unparsed uuid
  monotonicCountersCount,
  answer                   \* what the last call returned or threw

counterVars == <<monotonicCounters, monotonicCountersCount, answer>>

Service == INSTANCE CounterService WITH counters <- monotonicCounters

CountersInit ==
  /\ monotonicCounters = [u \in {} |-> 0]
  /\ monotonicCountersCount = 0
  /\ answer = <<>>

Throw(message) ==
  answer' = message /\ UNCHANGED <<monotonicCounters, monotonicCountersCount>>

\* hasOwnProperty
Known(u) == u \in DOMAIN monotonicCounters

\* uuid.v4 returns an id that no counter has.
CreateMonotonicCounter ==
  \/ /\ monotonicCountersCount >= Limit
     /\ Throw(Service!LimitReached)
  \/ /\ ~(monotonicCountersCount >= Limit)
     /\ monotonicCountersCount' = monotonicCountersCount + 1
     /\ \E u \in Uuid :
          /\ ~Known(u)
          /\ monotonicCounters' = Service!With(monotonicCounters, u, 0)
          /\ answer' = Service!Returned(u, 0)

DestroyMonotonicCounter(u) ==
  \/ ~Known(u) /\ Throw(Service!UnknownCounter)
  \/ /\ Known(u)
     /\ monotonicCounters' = Service!Without(monotonicCounters, u)
     /\ monotonicCountersCount' = monotonicCountersCount - 1
     /\ answer' = Service!Destroyed(u)

ReadMonotonicCounter(u) ==
  \/ ~Known(u) /\ Throw(Service!UnknownCounter)
  \/ /\ Known(u)
     /\ answer' = Service!Returned(u, monotonicCounters[u])
     /\ UNCHANGED <<monotonicCounters, monotonicCountersCount>>

IncrementMonotonicCounter(u) ==
  \/ ~Known(u) /\ Throw(Service!UnknownCounter)
  \/ /\ Known(u)
     /\ monotonicCounters' =
          Service!With(monotonicCounters, u, monotonicCounters[u] + 1)
     /\ answer' = Service!Returned(u, monotonicCounters[u] + 1)
     /\ UNCHANGED monotonicCountersCount

CountersNext ==
  \/ CreateMonotonicCounter
  \/ \E u \in Uuid :
       \/ DestroyMonotonicCounter(u)
       \/ ReadMonotonicCounter(u) \/ IncrementMonotonicCounter(u)

CountersSpec == CountersInit /\ [][CountersNext]_counterVars

-----------------------------------------------------------------------------
\* Properties.

\* The type of the table and of its count.
CountersTypeOK ==
  /\ DOMAIN monotonicCounters \subseteq Uuid
  /\ monotonicCounters \in [DOMAIN monotonicCounters -> Nat]
  /\ monotonicCountersCount \in Nat

(***************************************************************************)
(* The count is that of the counters that exist, and within the limit: a   *)
(* counter that is destroyed twice, or a creation that is refused, does    *)
(* not change it.                                                          *)
(***************************************************************************)
CountIsTrue ==
  /\ IsFiniteSet(DOMAIN monotonicCounters)
  /\ monotonicCountersCount = Cardinality(DOMAIN monotonicCounters)

WithinLimit == monotonicCountersCount <= Limit

(***************************************************************************)
(* A counter never goes back: whatever calls come in between, a counter    *)
(* that still exists has at least the value it had.                        *)
(***************************************************************************)
NeverBack ==
  [][\A u \in DOMAIN monotonicCounters :
       u \in DOMAIN monotonicCounters' =>
         monotonicCounters'[u] >= monotonicCounters[u]]_counterVars

\* To its callers the table is the service of CounterService.
IsService == Service!ServiceSpec
=============================================================================

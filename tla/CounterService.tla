--------------------------- MODULE CounterService ---------------------------
(***************************************************************************)
(* What monotonic counters promise: a table of at most Limit counters that *)
(* all code of a process shares.  A counter is created at 0 under an id of *)
(* its own, only grows, and is unknown before its creation and after its   *)
(* destruction.  (README.md, SecureWorker.monotonicCounters, from which    *)
(* lib/mock.js takes its answers: see MonotonicCounters.)                  *)
(***************************************************************************)
EXTENDS Naturals, FiniteSets

CONSTANTS
  Uuid,  \* ids of counters
  Limit  \* counters that may exist at a time

VARIABLES
  counters,  \* the counters that exist, each with its value
  answer     \* of the last call: its id and what it returned, or an error

serviceVars == <<counters, answer>>

Returned(u, value) == <<"value", u, value>>
Destroyed(u) == <<"destroyed", u>>
LimitReached == <<"Monotonic counter limit reached.">>
UnknownCounter == <<"Unknown monotonic counter.">>

With(table, u, value) ==
  [v \in DOMAIN table \cup {u} |-> IF v = u THEN value ELSE table[v]]

Without(table, u) == [v \in DOMAIN table \ {u} |-> table[v]]

ServiceInit == counters = [u \in {} |-> 0] /\ answer = <<>>

Full == Cardinality(DOMAIN counters) >= Limit

Create(u) ==
  /\ ~Full /\ u \notin DOMAIN counters
  /\ counters' = With(counters, u, 0)
  /\ answer' = Returned(u, 0)

CreateRefused == Full /\ answer' = LimitReached /\ UNCHANGED counters

Destroy(u) ==
  /\ u \in DOMAIN counters
  /\ counters' = Without(counters, u)
  /\ answer' = Destroyed(u)

Read(u) ==
  /\ u \in DOMAIN counters
  /\ answer' = Returned(u, counters[u])
  /\ UNCHANGED counters

Increment(u) ==
  /\ u \in DOMAIN counters
  /\ counters' = With(counters, u, counters[u] + 1)
  /\ answer' = Returned(u, counters[u] + 1)

Refused(u) ==
  u \notin DOMAIN counters /\ answer' = UnknownCounter /\ UNCHANGED counters

ServiceNext ==
  \/ CreateRefused
  \/ \E u \in Uuid : Create(u) \/ Destroy(u) \/ Read(u) \/ Increment(u) \/ Refused(u)

ServiceSpec == ServiceInit /\ [][ServiceNext]_serviceVars
=============================================================================

---------------------------- MODULE MessagePort ----------------------------
(***************************************************************************)
(* lib/message-port.js: an event emitter that queues what is emitted until *)
(* it is started.  Both SecureWorker implementations put one between the   *)
(* enclave and the application and start it on the first onMessage.        *)
(*                                                                         *)
(* JavaScript runs one callback at a time, so the only interleavings are   *)
(* the calls a listener makes while the port is calling it.  The call      *)
(* stack of the port is `draining' (the loop of start() is on the stack)   *)
(* and `calling' (the listeners EventEmitter.emit has still to call; its   *)
(* head is the one that is running).                                       *)
(*                                                                         *)
(* StartWithoutLoop, LeaveHole, PeekFirst, PopLast and DrainOne are faulty *)
(* variants of the operator after them; no action uses them.               *)
(***************************************************************************)
EXTENDS Naturals, Sequences, SequencesExt

CONSTANTS
  Listener,      \* the functions an application registers
  MaxMessages,   \* bound: messages emitted on the port
  MaxListeners   \* bound: registrations held at a time

ASSUME PortAssumption == MaxMessages \in Nat /\ MaxListeners \in Nat

VARIABLES
  started,               \* _started
  queuedBeforeStarting,  \* _queuedBeforeStarting
  listeners,             \* the emitter's list for 'message'
  draining,              \* start() is in its loop
  calling,               \* what is left of the emitter's snapshot of listeners
  lastEmitted,           \* number of the last message given to emit()
  abandoned,             \* history: an exception unwound the loop of start()
  dispatched,            \* history: messages given to EventEmitter.emit
  received               \* history: per listener, the messages it was called with

portVars == <<started, queuedBeforeStarting, listeners, draining, calling,
              lastEmitted, abandoned, dispatched, received>>

Message == Nat \ {0}

PortInit ==
  /\ started = FALSE
  /\ queuedBeforeStarting = <<>>
  /\ listeners = <<>>
  /\ draining = FALSE
  /\ calling = <<>>
  /\ lastEmitted = 0
  /\ abandoned = FALSE
  /\ dispatched = <<>>
  /\ received = [l \in Listener |-> <<>>]

\* Nothing of the port is on the call stack.
PortIdle == ~draining /\ calling = <<>>

\* Application code runs: outside the port, or in a listener the port called.
AppRuns == draining => calling # <<>>

StartWithoutLoop == started' = TRUE /\ draining' = draining

(***************************************************************************)
(* start() as a caller sees it: the flag is set and the loop entered once. *)
(***************************************************************************)
Start ==
  /\ started' = TRUE
  /\ draining' = (draining \/ ~started)

\* start() from a promise callback (the enclave's side of lib/mock.js).
StartPort ==
  /\ PortIdle
  /\ Start
  /\ UNCHANGED <<queuedBeforeStarting, listeners, calling, lastEmitted,
                 abandoned, dispatched, received>>

\* addListener, with start() left for later (lib/mock.js, inside).
AddListener(l) ==
  /\ AppRuns
  /\ listeners' = Append(listeners, l)
  /\ UNCHANGED <<started, queuedBeforeStarting, draining, calling,
                 lastEmitted, abandoned, dispatched, received>>

\* addListener then start(), as onMessage does outside the enclave.
OnMessage(l) ==
  /\ AppRuns
  /\ listeners' = Append(listeners, l)
  /\ Start
  /\ UNCHANGED <<queuedBeforeStarting, calling, lastEmitted, abandoned,
                 dispatched, received>>

LeaveHole(s, i) == [s EXCEPT ![i] = 0]

\* The emitter's spliceOne.
Splice(s, i) == RemoveAt(s, i)

\* EventEmitter.removeListener: the most recently added occurrence, if any.
RemoveOnMessage(l) ==
  /\ AppRuns
  /\ \/ \E i \in DOMAIN listeners :
          /\ listeners[i] = l
          /\ \A j \in DOMAIN listeners : j > i => listeners[j] # l
          /\ listeners' = Splice(listeners, i)
     \/ ~Contains(listeners, l) /\ UNCHANGED listeners
  /\ UNCHANGED <<started, queuedBeforeStarting, draining, calling,
                 lastEmitted, abandoned, dispatched, received>>

\* EventEmitter.emit: call each listener of a snapshot, in turn.
SuperEmit(m) ==
  /\ dispatched' = Append(dispatched, m)
  /\ calling' = listeners

\* emit() from the event loop.
Emit(m) ==
  /\ PortIdle
  /\ lastEmitted' = m
  /\ \/ /\ ~started
        /\ queuedBeforeStarting' = Append(queuedBeforeStarting, m)
        /\ UNCHANGED <<calling, dispatched>>
     \/ /\ started
        /\ SuperEmit(m)
        /\ UNCHANGED queuedBeforeStarting
  /\ UNCHANGED <<started, listeners, draining, abandoned, received>>

PeekFirst(q) == [message |-> Head(q), left |-> q]
PopLast(q) == [message |-> Last(q), left |-> Front(q)]

\* Array.shift of a queue that is not empty: what it returns and leaves.
ShiftFirst(q) == [message |-> Head(q), left |-> Tail(q)]

DrainOne ==
  /\ draining /\ calling = <<>>
  /\ queuedBeforeStarting # <<>>
  /\ SuperEmit(ShiftFirst(queuedBeforeStarting).message)
  /\ queuedBeforeStarting' = ShiftFirst(queuedBeforeStarting).left
  /\ draining' = FALSE
  /\ UNCHANGED <<started, listeners, lastEmitted, abandoned, received>>

\* One turn of start()'s loop: shift a queued message and emit it.
DrainNext ==
  /\ draining /\ calling = <<>>
  /\ queuedBeforeStarting # <<>>
  /\ SuperEmit(ShiftFirst(queuedBeforeStarting).message)
  /\ queuedBeforeStarting' = ShiftFirst(queuedBeforeStarting).left
  /\ UNCHANGED <<started, listeners, draining, lastEmitted, abandoned, received>>

\* shift() finds nothing: start() returns.
DrainDone ==
  /\ draining /\ calling = <<>>
  /\ queuedBeforeStarting = <<>>
  /\ draining' = FALSE
  /\ UNCHANGED <<started, queuedBeforeStarting, listeners, calling,
                 lastEmitted, abandoned, dispatched, received>>

Heard(l) == received' = [received EXCEPT ![l] = Append(@, Last(dispatched))]

\* The running listener returns and the emitter goes to the next.
ListenerReturns ==
  /\ calling # <<>>
  /\ Heard(Head(calling))
  /\ calling' = Tail(calling)
  /\ UNCHANGED <<started, queuedBeforeStarting, listeners, draining,
                 lastEmitted, abandoned, dispatched>>

\* The running listener throws.  Nothing in the port catches the exception:
\* it unwinds EventEmitter.emit and, when it is on the stack, start()'s loop.
ListenerThrows ==
  /\ calling # <<>>
  /\ Heard(Head(calling))
  /\ calling' = <<>>
  /\ draining' = FALSE
  /\ abandoned' = (abandoned \/ draining)
  /\ UNCHANGED <<started, queuedBeforeStarting, listeners, lastEmitted, dispatched>>

PortStep == DrainNext \/ DrainDone \/ ListenerReturns \/ ListenerThrows

PortNext ==
  \/ lastEmitted < MaxMessages /\ Emit(lastEmitted + 1)
  \/ StartPort
  \/ \E l \in Listener :
       Len(listeners) < MaxListeners /\ (OnMessage(l) \/ AddListener(l))
  \/ \E l \in Listener : RemoveOnMessage(l)
  \/ PortStep

\* Synchronous code runs to its end: the loop goes on and listeners return.
PortFairness == WF_portVars(DrainNext \/ DrainDone) /\ WF_portVars(ListenerReturns)

PortSpec == PortInit /\ [][PortNext]_portVars /\ PortFairness

-----------------------------------------------------------------------------
\* Properties.

\* The type of every variable of the port.
PortTypeOK ==
  /\ started \in BOOLEAN
  /\ queuedBeforeStarting \in Seq(Message)
  /\ listeners \in Seq(Listener)
  /\ draining \in BOOLEAN
  /\ calling \in Seq(Listener)
  /\ lastEmitted \in Nat
  /\ abandoned \in BOOLEAN
  /\ dispatched \in Seq(Message)
  /\ received \in [Listener -> Seq(Message)]

Increasing(s) == \A i, j \in DOMAIN s : i < j => s[i] < s[j]

InSeq(m, s) == \E i \in DOMAIN s : s[i] = m

(***************************************************************************)
(* No message is lost, duplicated or handed on twice: each one emitted is  *)
(* either waiting in the queue or has been dispatched once, never both,    *)
(* whatever listeners do and even when they throw in start()'s loop.       *)
(***************************************************************************)
ExactlyOnce ==
  /\ Increasing(dispatched)
  /\ \A m \in 1..lastEmitted :
       InSeq(m, dispatched) <=> ~InSeq(m, queuedBeforeStarting)

(***************************************************************************)
(* A listener hears messages in the order they were emitted, across the    *)
(* switch from the queue to direct delivery and while listeners come and   *)
(* go (a listener registered twice hears a message twice, hence =<).       *)
(***************************************************************************)
HeardInOrder ==
  \A l \in Listener : \A i, j \in DOMAIN received[l] :
    i < j => received[l][i] <= received[l][j]

(***************************************************************************)
(* The only way to leave messages in the queue once start() has returned   *)
(* (they are out of reach then: start() never runs its loop again) is an   *)
(* exception in that loop.  Registering and removing listeners from inside *)
(* it, or calling start() again, is not.                                   *)
(***************************************************************************)
StrandedOnlyByThrow ==
  started /\ ~draining /\ ~abandoned => queuedBeforeStarting = <<>>

(***************************************************************************)
(* What README.md says of postMessage, that it sends a message "so that    *)
(* listeners there get it": none is left in the queue for good.  A         *)
(* listener that throws in start()'s loop makes this false.                *)
(***************************************************************************)
NoneStranded == started /\ ~draining => queuedBeforeStarting = <<>>

(***************************************************************************)
(* A message that waited in the queue reaches every listener that is       *)
(* registered once the port has started, unless that listener is removed   *)
(* first or an exception unwinds start(): later registrations, removals of *)
(* other listeners and messages emitted meanwhile do not get in its way.   *)
(***************************************************************************)
QueuedIsHeard ==
  \A l \in Listener, m \in 1..MaxMessages :
    (started /\ Contains(listeners, l) /\ InSeq(m, queuedBeforeStarting))
      ~> (InSeq(m, received[l]) \/ ~Contains(listeners, l) \/ abandoned)
=============================================================================

----------------------------- MODULE MockWorker -----------------------------
(***************************************************************************)
(* A SecureWorker without SGX: lib/mock.js evaluates the enclave's scripts *)
(* in a context of Node's vm module, between two ports (MessagePort), one  *)
(* per direction.  The code inside and the application share one thread:   *)
(* messages cross in setImmediate callbacks, and the port into the worker  *)
(* is started by a promise callback, which Node runs on its nextTick queue *)
(* before it takes the next setImmediate callback.                         *)
(*                                                                         *)
(* `pc' is the bottom of the call stack: "none" (no worker yet), "script"  *)
(* (the constructor evaluates the main script), "main" (the application    *)
(* code that called the constructor), "idle" (the event loop), "tick" (a   *)
(* nextTick or promise callback of the code inside).  The listeners a port *)
(* is calling are above it.                                                *)
(*                                                                         *)
(* NoMessage, PutFirst, DropUnstarted, StartAtOnce, InsideNeverStarts      *)
(* and OutsideNeverStarts are faulty variants of the operator after them;  *)
(* no action uses them.                                                    *)
(***************************************************************************)
EXTENDS Naturals, Sequences, SequencesExt

CONSTANTS
  InsideListener, OutsideListener,  \* functions registered on either side
  MaxListeners,                     \* bound: registrations held at a time
  MaxPosted,                        \* bound: calls of worker.postMessage
  MaxPosts,                         \* bound: calls of postMessage inside
  MaxTicks                          \* bound: callbacks queued on nextTick, ever:
                                    \* code that always queues one starves Node

ASSUME MockAssumption == {MaxListeners, MaxPosted, MaxPosts, MaxTicks} \subseteq Nat

VARIABLES inStarted, inQueue, inListeners, inDraining, inCalling, inLast,
          inAbandoned, inDispatched, inReceived
VARIABLES outStarted, outQueue, outListeners, outDraining, outCalling, outLast,
          outAbandoned, outDispatched, outReceived
VARIABLES
  pc,          \* the bottom of the call stack
  held,        \* the constructor has returned a worker to the application
  immediates,  \* callbacks queued by setImmediate
  ticks,       \* callbacks queued by process.nextTick
  posted,      \* number of calls of worker.postMessage
  posts,       \* number of calls of postMessage inside
  scheduled,   \* number of callbacks queued by process.nextTick
  exited       \* an uncaught exception ended the process

\* _eventsFromOutside and _eventsFromInside.
In == INSTANCE MessagePort
        WITH Listener <- InsideListener, MaxMessages <- MaxPosted,
             started <- inStarted, queuedBeforeStarting <- inQueue,
             listeners <- inListeners, draining <- inDraining,
             calling <- inCalling, lastEmitted <- inLast,
             abandoned <- inAbandoned, dispatched <- inDispatched,
             received <- inReceived
Out == INSTANCE MessagePort
         WITH Listener <- OutsideListener, MaxMessages <- MaxPosts,
              started <- outStarted, queuedBeforeStarting <- outQueue,
              listeners <- outListeners, draining <- outDraining,
              calling <- outCalling, lastEmitted <- outLast,
              abandoned <- outAbandoned, dispatched <- outDispatched,
              received <- outReceived

inVars == <<inStarted, inQueue, inListeners, inDraining, inCalling, inLast,
            inAbandoned, inDispatched, inReceived>>
outVars == <<outStarted, outQueue, outListeners, outDraining, outCalling, outLast,
             outAbandoned, outDispatched, outReceived>>
counts == <<posted, posts, scheduled>>
mockVars == <<inVars, outVars, pc, held, immediates, ticks, counts, exited>>

Callback == [to : {"in", "out"}, message : Nat]

MockInit ==
  /\ In!PortInit /\ Out!PortInit
  /\ pc = "none" /\ held = FALSE
  /\ immediates = <<>> /\ ticks = <<>>
  /\ posted = 0 /\ posts = 0 /\ scheduled = 0
  /\ exited = FALSE

NoMessage(to, m) == immediates' = Append(immediates, [to |-> to])

PutFirst(to, m) == immediates' = <<[to |-> to, message |-> m]>> \o immediates

SetImmediate(to, m) == immediates' = Append(immediates, [to |-> to, message |-> m])

NextTick(callback) ==
  /\ ticks' = Append(ticks, callback)
  /\ scheduled' = scheduled + 1

\* An exception nobody catches ends the process unless the application
\* handles 'uncaughtException'.
Uncaught == exited' \in BOOLEAN

PortsIdle == In!PortIdle /\ Out!PortIdle

-----------------------------------------------------------------------------
\* createdCallback: both ports, the sandbox, and the main script.
New ==
  /\ pc = "none"
  /\ pc' = "script"
  /\ UNCHANGED <<inVars, outVars, immediates, ticks, counts, held, exited>>

\* The script returns to the application, or throws out of the constructor;
\* there is no worker then, but what the script queued is still run.
ScriptEnds ==
  /\ pc = "script"
  /\ pc' = "main"
  /\ \/ held' = TRUE /\ UNCHANGED exited
     \/ UNCHANGED held /\ Uncaught
  /\ UNCHANGED <<inVars, outVars, immediates, ticks, counts>>

MainEnds ==
  /\ pc = "main" /\ PortsIdle
  /\ pc' = "idle"
  /\ UNCHANGED <<inVars, outVars, immediates, ticks, counts, held, exited>>

\* The application runs: where it called the constructor, in a listener, or
\* in a turn of the event loop of its own.
AppRuns ==
  /\ held /\ ~exited
  /\ \/ pc = "main" /\ Out!AppRuns
     \/ pc = "idle" /\ outCalling # <<>>
     \/ pc = "idle" /\ PortsIdle /\ ticks = <<>>

PostMessage ==
  /\ AppRuns
  /\ posted' = posted + 1
  /\ SetImmediate("in", posted + 1)
  /\ UNCHANGED <<inVars, outVars, pc, ticks, posts, scheduled, held, exited>>

OutsideNeverStarts(l) ==
  /\ AppRuns
  /\ Out!AddListener(l)
  /\ UNCHANGED <<inVars, pc, immediates, ticks, counts, held, exited>>

OutsideOnMessage(l) ==
  /\ AppRuns
  /\ Out!OnMessage(l)
  /\ UNCHANGED <<inVars, pc, immediates, ticks, counts, held, exited>>

\* For a function that was never registered the code throws instead of
\* removing nothing: there is no wrapper of it in the map.
OutsideRemoveOnMessage(l) ==
  /\ AppRuns
  /\ Out!RemoveOnMessage(l)
  /\ UNCHANGED <<inVars, pc, immediates, ticks, counts, held, exited>>

-----------------------------------------------------------------------------
\* Code inside runs: the main script, a listener, or a callback.
InsideRuns == ~exited /\ (pc \in {"script", "tick"} \/ inCalling # <<>>)

InsidePostMessage ==
  /\ InsideRuns
  /\ posts' = posts + 1
  /\ SetImmediate("out", posts + 1)
  /\ UNCHANGED <<inVars, outVars, pc, ticks, posted, scheduled, held, exited>>

StartAtOnce(l) ==
  /\ InsideRuns
  /\ In!OnMessage(l)
  /\ UNCHANGED <<outVars, pc, immediates, ticks, counts, held, exited>>

InsideNeverStarts(l) ==
  /\ InsideRuns
  /\ In!AddListener(l)
  /\ UNCHANGED <<outVars, pc, immediates, ticks, counts, held, exited>>

\* The listener is added at once, and ready.then(start) starts the port.
InsideOnMessage(l) ==
  /\ InsideRuns
  /\ In!AddListener(l)
  /\ NextTick("start")
  /\ UNCHANGED <<outVars, pc, immediates, posted, posts, held, exited>>

\* The same inside: the exception of a function that was never registered
\* changes nothing here if it is caught, and if not is how the code that runs
\* ends (ScriptEnds, TickEnds, ListenerThrows).
InsideRemoveOnMessage(l) ==
  /\ InsideRuns
  /\ In!RemoveOnMessage(l)
  /\ UNCHANGED <<outVars, pc, immediates, ticks, counts, held, exited>>

\* nextTick, setImmediate (the same inside) and promise callbacks.
InsideNextTick ==
  /\ InsideRuns
  /\ NextTick("code")
  /\ UNCHANGED <<inVars, outVars, pc, immediates, posted, posts, held, exited>>

-----------------------------------------------------------------------------
\* Nothing is on the stack and the process lives.
LoopTurn == pc = "idle" /\ PortsIdle /\ ~exited

RunTick ==
  /\ LoopTurn
  /\ ticks # <<>>
  /\ \/ Head(ticks) = "start" /\ In!StartPort /\ UNCHANGED pc
     \/ Head(ticks) = "code" /\ pc' = "tick" /\ UNCHANGED inVars
  /\ ticks' = Tail(ticks)
  /\ UNCHANGED <<outVars, immediates, counts, held, exited>>

\* The callback returns or throws.
TickEnds ==
  /\ pc = "tick"
  /\ pc' = "idle"
  /\ Uncaught
  /\ UNCHANGED <<inVars, outVars, immediates, ticks, counts, held>>

DropUnstarted ==
  /\ LoopTurn /\ ticks = <<>> /\ immediates # <<>>
  /\ \/ /\ Head(immediates).to = "in"
        /\ IF inStarted THEN In!Emit(Head(immediates).message) ELSE UNCHANGED inVars
        /\ UNCHANGED outVars
     \/ /\ Head(immediates).to = "out"
        /\ Out!Emit(Head(immediates).message)
        /\ UNCHANGED inVars
  /\ immediates' = Tail(immediates)
  /\ UNCHANGED <<pc, ticks, counts, held, exited>>

\* Either setImmediate callback: emit the message on the port it is for.
RunImmediate ==
  /\ LoopTurn /\ ticks = <<>> /\ immediates # <<>>
  /\ \/ /\ Head(immediates).to = "in"
        /\ In!Emit(Head(immediates).message)
        /\ UNCHANGED outVars
     \/ /\ Head(immediates).to = "out"
        /\ Out!Emit(Head(immediates).message)
        /\ UNCHANGED inVars
  /\ immediates' = Tail(immediates)
  /\ UNCHANGED <<pc, ticks, counts, held, exited>>

\* The ports call listeners.  What one throws inside ends in the promise
\* that started the port, or else reaches the event loop.
InPortRuns ==
  /\ ~exited
  /\ \/ (In!DrainNext \/ In!DrainDone \/ In!ListenerReturns) /\ UNCHANGED exited
     \/ In!ListenerThrows /\ inDraining /\ UNCHANGED exited
     \/ In!ListenerThrows /\ ~inDraining /\ Uncaught
  /\ UNCHANGED <<outVars, pc, immediates, ticks, counts, held>>

OutPortRuns ==
  /\ ~exited
  /\ \/ (Out!DrainNext \/ Out!DrainDone \/ Out!ListenerReturns) /\ UNCHANGED exited
     \/ Out!ListenerThrows /\ Uncaught
  /\ UNCHANGED <<inVars, pc, immediates, ticks, counts, held>>

MockNext ==
  \/ New \/ ScriptEnds \/ MainEnds
  \/ posted < MaxPosted /\ PostMessage
  \/ posts < MaxPosts /\ InsidePostMessage
  \/ \E l \in OutsideListener :
       \/ Len(outListeners) < MaxListeners /\ OutsideOnMessage(l)
       \/ OutsideRemoveOnMessage(l)
  \/ \E l \in InsideListener :
       \/ /\ Len(inListeners) < MaxListeners /\ scheduled < MaxTicks
          /\ InsideOnMessage(l)
       \/ InsideRemoveOnMessage(l)
  \/ scheduled < MaxTicks /\ InsideNextTick
  \/ RunTick \/ TickEnds \/ RunImmediate \/ InPortRuns \/ OutPortRuns

\* Code returns, and the event loop turns.
MockFairness ==
  /\ WF_mockVars(ScriptEnds) /\ WF_mockVars(MainEnds) /\ WF_mockVars(TickEnds)
  /\ WF_mockVars(RunTick) /\ WF_mockVars(RunImmediate)
  /\ WF_mockVars(InPortRuns) /\ WF_mockVars(OutPortRuns)

MockSpec == MockInit /\ [][MockNext]_mockVars /\ MockFairness

-----------------------------------------------------------------------------
\* Properties.

\* The type of the variables of lib/mock.js.
MockTypeOK ==
  /\ pc \in {"none", "script", "main", "idle", "tick"}
  /\ held \in BOOLEAN /\ exited \in BOOLEAN
  /\ immediates \in Seq(Callback)
  /\ ticks \in Seq({"start", "code"})
  /\ {posted, posts, scheduled} \subseteq Nat

\* s is the messages that follow the first n.
Follows(s, n) == s = [i \in 1..Len(s) |-> n + i]

\* The callbacks for a port carry the messages after the first n, in order.
Waiting(to, n, sent) ==
  LET for == {i \in DOMAIN immediates : immediates[i].to = to}
  IN  /\ {immediates[i].message : i \in for} = (n + 1)..sent
      /\ \A i, j \in for :
           i < j => immediates[i].message < immediates[j].message

(***************************************************************************)
(* No message to the worker is lost, doubled or overtaken on its way       *)
(* through setImmediate, the port's queue and the late start of the port,  *)
(* in whatever turn either side posts or registers listeners (until a      *)
(* listener's exception has unwound start()): those handed on, those in    *)
(* the port's queue and those in callbacks are, in this order, all that    *)
(* were posted.                                                            *)
(***************************************************************************)
NothingLost(to, dispatched, queue, sent) ==
  /\ Follows(dispatched, 0)
  /\ Follows(queue, Len(dispatched))
  /\ Len(dispatched) + Len(queue) <= sent
  /\ Waiting(to, Len(dispatched) + Len(queue), sent)

NothingLostInward ==
  ~inAbandoned => NothingLost("in", inDispatched, inQueue, posted)

\* The same for what the worker posts, from the main script on.
NothingLostOutward ==
  ~outAbandoned => NothingLost("out", outDispatched, outQueue, posts)

(***************************************************************************)
(* lib/mock.js on onMessage inside: "Callbacks are called only after       *)
(* SecureWorker.ready resolves."  No listener is called on top of the      *)
(* script or callback that registers it, as one of the outside may be.     *)
(***************************************************************************)
CalledFromLoop == inDraining \/ inCalling # <<>> => pc = "idle"

(***************************************************************************)
(* What is posted reaches a worker that listens, and what the worker posts *)
(* reaches an application that listens, unless the process ends or an      *)
(* exception unwinds start(): registering starts the port, sooner or later.*)
(***************************************************************************)
PostedReachesInside ==
  \A m \in 1..MaxPosted :
    posted >= m /\ inListeners # <<>>
      ~> Contains(inDispatched, m) \/ exited \/ inAbandoned

PostedReachesOutside ==
  \A m \in 1..MaxPosts :
    posts >= m /\ outListeners # <<>>
      ~> Contains(outDispatched, m) \/ exited \/ outAbandoned
=============================================================================

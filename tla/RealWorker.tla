---------------------------- MODULE RealWorker -----------------------------
(***************************************************************************)
(* A SecureWorker on SGX: lib/real.js between its port (MessagePort) and   *)
(* its enclave (Enclave), through the addon of node-secureworker-internal. *)
(*                                                                         *)
(* Everything runs on Node's one thread.  postMessage, terminate and what  *)
(* the enclave posts only queue setImmediate callbacks, which the event    *)
(* loop runs in order when no JavaScript is on the stack; an ECALL blocks  *)
(* that thread until the enclave returns.                                  *)
(*                                                                         *)
(* PutFirst, TerminateFirst, NoMessage, DropUnheard, DropUnusable,         *)
(* CloseOnly and ForgetDestroy are faulty variants of the operator after   *)
(* them; no action uses them.                                              *)
(***************************************************************************)
EXTENDS Naturals, Sequences, SequencesExt

CONSTANTS
  Listener, MaxListeners,                    \* of the port
  Handler, MaxHandlers, MaxTasks, MaxPosts,  \* of the enclave
  MaxPosted,     \* bound: calls of worker.postMessage
  MaxTerminates  \* bound: calls of worker.terminate

ASSUME WorkerAssumption ==
  {MaxListeners, MaxHandlers, MaxTasks, MaxPosts, MaxPosted, MaxTerminates}
    \subseteq Nat

VARIABLES started, queuedBeforeStarting, listeners, draining, calling,
          lastEmitted, abandoned, dispatched, received
VARIABLES state, crashed, heap, pse, ra, pc, valstack, messageHandlers, snapshot,
          index, microtasks, scheduled, posts, emitted, atEntry, called, escaped,
          ran
VARIABLES
  internal,         \* _internal: "none", "init" (its init ECALL runs), "failed"
                    \* (the constructor threw), "live", or "null"
  destroyed,        \* sgx_destroy_enclave was called, for better or worse
  immediates,       \* callbacks queued by setImmediate
  posted,           \* number of calls of worker.postMessage
  terminates,       \* number of calls of worker.terminate
  postedBefore,     \* history: `posted' at the first of them
  exited            \* an uncaught exception ended the process

Port == INSTANCE MessagePort WITH MaxMessages <- MaxPosts
Trusted == INSTANCE Enclave WITH MaxMessages <- MaxPosted

portVars == <<started, queuedBeforeStarting, listeners, draining, calling,
              lastEmitted, abandoned, dispatched, received>>
enclaveVars == <<state, heap, pse, ra, crashed, pc, valstack, messageHandlers,
                 microtasks, scheduled, posts, snapshot, index, emitted,
                 atEntry, called, escaped, ran>>
jsSideVars == <<internal, destroyed, immediates, posted, terminates,
                postedBefore, exited>>
workerVars == <<portVars, enclaveVars, jsSideVars>>

Callback == [kind : {"post", "emit", "terminate"}, message : Nat]

WorkerInit ==
  /\ Port!PortInit /\ Trusted!EnclaveInit
  /\ internal = "none" /\ destroyed = FALSE
  /\ immediates = <<>> /\ posted = 0
  /\ terminates = 0 /\ postedBefore = 0
  /\ exited = FALSE

PutFirst(kind, m) ==
  immediates' = <<[kind |-> kind, message |-> m]>> \o immediates

TerminateFirst(kind, m) ==
  immediates' = IF kind = "terminate"
                  THEN <<[kind |-> kind, message |-> m]>> \o immediates
                  ELSE Append(immediates, [kind |-> kind, message |-> m])

NoMessage(kind, m) == immediates' = Append(immediates, [kind |-> kind])

SetImmediate(kind, m) ==
  immediates' = Append(immediates, [kind |-> kind, message |-> m])

\* An exception nobody catches ends the process unless the application
\* handles 'uncaughtException'.
Uncaught == exited' \in BOOLEAN

-----------------------------------------------------------------------------
\* The constructor: load the enclave, set handlePostMessage, call init.
New ==
  /\ internal = "none"
  /\ Trusted!EcallInit
  /\ internal' = "init"
  /\ UNCHANGED <<portVars, destroyed, immediates, posted, terminates,
                 postedBefore, exited>>

\* init returns to the constructor, or its status makes the addon throw.
ConstructorEnds ==
  /\ internal = "init" /\ pc = "idle"
  /\ internal' = IF crashed = "no" THEN "live" ELSE "failed"
  /\ UNCHANGED <<portVars, enclaveVars, destroyed, immediates,
                 posted, terminates, postedBefore, exited>>

\* The application runs: in a turn of the event loop or in a listener.
AppTurn ==
  /\ internal \in {"live", "null"} /\ pc = "idle"
  /\ Port!AppRuns
  /\ ~exited

PostMessage ==
  /\ AppTurn
  /\ posted' = posted + 1
  /\ SetImmediate("post", posted + 1)
  /\ UNCHANGED <<portVars, enclaveVars, internal, destroyed,
                 terminates, postedBefore, exited>>

Terminate ==
  /\ AppTurn
  /\ terminates' = terminates + 1
  /\ postedBefore' = IF terminates = 0 THEN posted ELSE postedBefore
  /\ SetImmediate("terminate", 0)
  /\ UNCHANGED <<portVars, enclaveVars, internal, destroyed,
                 posted, exited>>

ChangeListeners ==
  /\ AppTurn
  /\ \E l \in Listener :
       \/ Len(listeners) < MaxListeners /\ Port!OnMessage(l)
       \/ Port!RemoveOnMessage(l)
  /\ UNCHANGED <<enclaveVars, jsSideVars>>

-----------------------------------------------------------------------------
\* The event loop: JavaScript is not on the stack and the process lives.
LoopTurn ==
  /\ Port!PortIdle /\ pc = "idle" /\ internal # "init"
  /\ ~exited
  /\ immediates # <<>>

NextIs(kind) == LoopTurn /\ Head(immediates).kind = kind

RestOfImmediates == immediates' = Tail(immediates)

\* The addon's status check: a crashed enclave refuses every ECALL.
Unusable == internal = "null" \/ crashed # "no"

\* The ECALL finds another state than ACTIVE, and the method throws.
EnclaveAborts == Trusted!WrongState("ACTIVE")

DropUnheard ==
  /\ NextIs("post")
  /\ \/ Unusable /\ Uncaught /\ UNCHANGED enclaveVars
     \/ ~Unusable /\ messageHandlers = <<>> /\ UNCHANGED <<enclaveVars, exited>>
     \/ /\ ~Unusable /\ messageHandlers # <<>>
        /\ Trusted!EcallEmit(Head(immediates).message) /\ UNCHANGED exited
     \/ ~Unusable /\ EnclaveAborts /\ Uncaught
  /\ RestOfImmediates
  /\ UNCHANGED <<portVars, internal, destroyed, posted, terminates, postedBefore>>

\* postMessage's callback: null has no emitMessage, a crashed enclave makes
\* it throw, an active one takes the message, and one that is closed because
\* SGX refused to destroy it aborts.
RunPost ==
  /\ NextIs("post")
  /\ \/ Unusable /\ Uncaught /\ UNCHANGED enclaveVars
     \/ ~Unusable /\ Trusted!EcallEmit(Head(immediates).message) /\ UNCHANGED exited
     \/ ~Unusable /\ EnclaveAborts /\ Uncaught
  /\ RestOfImmediates
  /\ UNCHANGED <<portVars, internal, destroyed, posted, terminates, postedBefore>>

DropUnusable ==
  /\ NextIs("emit")
  /\ IF Unusable THEN UNCHANGED portVars ELSE Port!Emit(Head(immediates).message)
  /\ RestOfImmediates
  /\ UNCHANGED <<enclaveVars, internal, destroyed, posted, terminates,
                 postedBefore, exited>>

\* handlePostMessage's callback.
RunEmit ==
  /\ NextIs("emit")
  /\ Port!Emit(Head(immediates).message)
  /\ RestOfImmediates
  /\ UNCHANGED <<enclaveVars, internal, destroyed, posted, terminates,
                 postedBefore, exited>>

\* terminate's callback, until close() returns.
RunTerminate ==
  /\ NextIs("terminate")
  /\ \/ Unusable /\ Uncaught /\ UNCHANGED enclaveVars
     \/ ~Unusable /\ Trusted!EcallClose /\ UNCHANGED exited
     \/ ~Unusable /\ EnclaveAborts /\ Uncaught
  /\ RestOfImmediates
  /\ UNCHANGED <<portVars, internal, destroyed, posted, terminates, postedBefore>>

CloseOnly == UNCHANGED <<internal, destroyed, exited>>
ForgetDestroy == internal' = "null" /\ UNCHANGED <<destroyed, exited>>

\* destroy(), which throws past the assignment of null if SGX refuses.
ReleaseInternal ==
  /\ destroyed' = TRUE
  /\ \/ internal' = "null" /\ UNCHANGED exited
     \/ UNCHANGED internal /\ Uncaught

\* The rest of terminate's callback: close() returns, or its ECALL crashes
\* at the end and it throws.
TerminateEnds ==
  /\ Trusted!CloseReturns
  /\ \/ crashed' = "no" /\ ReleaseInternal
     \/ crashed' # "no" /\ Uncaught /\ UNCHANGED <<internal, destroyed>>
  /\ UNCHANGED <<portVars, immediates, posted, terminates, postedBefore>>

RunImmediate == RunPost \/ RunEmit \/ RunTerminate

\* The port calls listeners; what they throw reaches the application's code
\* that called onMessage, or the event loop.
PortRuns ==
  /\ ~exited
  /\ \/ (Port!DrainNext \/ Port!DrainDone \/ Port!ListenerReturns) /\ UNCHANGED exited
     \/ Port!ListenerThrows /\ Uncaught
  /\ UNCHANGED <<enclaveVars, internal, destroyed, immediates, posted,
                 terminates, postedBefore>>

-----------------------------------------------------------------------------
\* The enclave runs inside an ECALL of this thread.
EnclaveReturns ==
  /\ Trusted!CodeReturns
  /\ UNCHANGED <<portVars, jsSideVars>>

EnclaveCalls ==
  /\ \/ \E h \in Handler :
          \/ Len(messageHandlers) < MaxHandlers /\ Trusted!OnMessage(h)
          \/ Trusted!RemoveOnMessage(h)
     \/ Trusted!ImportFramework
     \/ scheduled < MaxTasks /\ Trusted!NextTick
  /\ UNCHANGED <<portVars, jsSideVars>>

\* postMessage inside: the OCALL finds the entrant's handlePostMessage, which
\* parses the message and queues its delivery.
EnclavePosts ==
  /\ posts < MaxPosts
  /\ Trusted!PostMessage
  /\ SetImmediate("emit", posts + 1)
  /\ UNCHANGED <<portVars, internal, destroyed, posted, terminates,
                 postedBefore, exited>>

\* The ECALL that crashes throws: into the constructor, or uncaught.
EnclaveDies ==
  /\ Trusted!Fatal
  /\ IF internal = "init" THEN UNCHANGED exited ELSE Uncaught
  /\ UNCHANGED <<portVars, internal, destroyed, immediates, posted,
                 terminates, postedBefore>>

WorkerNext ==
  \/ New \/ ConstructorEnds
  \/ posted < MaxPosted /\ PostMessage
  \/ terminates < MaxTerminates /\ Terminate
  \/ ChangeListeners
  \/ RunImmediate \/ PortRuns
  \/ EnclaveReturns \/ TerminateEnds
  \/ EnclaveCalls \/ EnclavePosts \/ EnclaveDies

\* The event loop turns, and listeners and the enclave's code return, the
\* finalizers that close runs included.
WorkerFairness ==
  /\ WF_workerVars(RunImmediate)
  /\ WF_workerVars(PortRuns)
  /\ WF_workerVars(EnclaveReturns)
  /\ WF_workerVars(TerminateEnds)
  /\ WF_workerVars(ConstructorEnds)

WorkerSpec == WorkerInit /\ [][WorkerNext]_workerVars /\ WorkerFairness

-----------------------------------------------------------------------------
\* Properties.

\* The type of the variables of lib/real.js.
WorkerTypeOK ==
  /\ internal \in {"none", "init", "failed", "live", "null"}
  /\ destroyed \in BOOLEAN /\ exited \in BOOLEAN
  /\ immediates \in Seq(Callback)
  /\ posted \in Nat /\ terminates \in Nat /\ postedBefore \in Nat

\* The messages that callbacks of this kind carry.
Waiting(kind) ==
  {c.message : c \in {c \in Range(immediates) : c.kind = kind}}

(***************************************************************************)
(* worker.postMessage is a channel into the enclave: the handlers see what *)
(* was posted in order, at most once, and after a crash or a termination   *)
(* no message overtakes a lost one and none comes back.                    *)
(***************************************************************************)
Inward == INSTANCE Channel
            WITH sent <- posted, pipe <- Waiting("post"), delivered <- emitted
InwardChannel == Inward!ChannelSpec

(***************************************************************************)
(* SecureWorker.postMessage inside is a channel out of the enclave: it     *)
(* passes through a setImmediate callback and, before the first onMessage, *)
(* through the queue of the port, and comes out in order, even when the    *)
(* first onMessage finds callbacks queued behind the port's queue.  What a *)
(* throwing listener strands in that queue is lost (see MessagePort).      *)
(***************************************************************************)
Stranded == started /\ ~draining
Outward == INSTANCE Channel
             WITH sent <- posts,
                  pipe <- (IF Stranded THEN {} ELSE Range(queuedBeforeStarting))
                            \cup Waiting("emit"),
                  delivered <- dispatched
OutwardChannel == Outward!ChannelSpec

(***************************************************************************)
(* terminate is ordered with postMessage: from the moment it closes the    *)
(* enclave on, that has taken in exactly the messages posted before        *)
(* terminate was first called, and later ones never reach it.              *)
(***************************************************************************)
TerminatedAfterEarlierPosts ==
  state = "CLOSED" => emitted = [i \in 1..postedBefore |-> i]

(***************************************************************************)
(* An enclave the glue still holds can take an ECALL or has crashed: no    *)
(* sequence of calls makes lib/real.js issue one that the state check of   *)
(* duk_enclave.cpp answers with abort(), unless SGX refused to destroy the *)
(* closed enclave and destroy() threw past the assignment of null.         *)
(***************************************************************************)
HeldIsActive ==
  internal = "live" /\ pc = "idle"
    => crashed # "no" \/ state = "ACTIVE" \/ destroyed

(***************************************************************************)
(* A worker that was terminated holds no enclave, no heap and no PSE       *)
(* session, and an enclave is destroyed only after it closed: never while  *)
(* it runs finalizers.                                                     *)
(***************************************************************************)
TerminatedHoldsNothing ==
  /\ internal = "null" => destroyed /\ ~heap /\ pse = 0
  /\ destroyed => state = "CLOSED" /\ pc = "idle"

(***************************************************************************)
(* A posted message is taken in, and terminate takes effect (as far as SGX *)
(* destroys what it is told to), unless the enclave crashes, the process   *)
(* ends or an earlier terminate came first.                                *)
(***************************************************************************)
PostedIsTakenIn ==
  \A m \in 1..MaxPosted :
    posted >= m
      ~> Contains(emitted, m) \/ crashed # "no" \/ exited \/ internal = "null"

TerminateTakesEffect ==
  terminates > 0 ~> destroyed \/ crashed # "no" \/ exited

(***************************************************************************)
(* What the enclave posted is dispatched once the application listens, and *)
(* also when the enclave has crashed or was terminated in the meantime,    *)
(* unless an exception of a listener ends the process or start().          *)
(***************************************************************************)
PostedOutIsDispatched ==
  \A m \in 1..MaxPosts :
    (posts >= m /\ started) ~> Contains(dispatched, m) \/ exited \/ abandoned

(***************************************************************************)
(* README.md says that the constructor "asynchronously runs the script":   *)
(* the enclave runs code only when the constructor has returned.           *)
(***************************************************************************)
RunsAsynchronously == pc # "idle" => internal = "live"
=============================================================================

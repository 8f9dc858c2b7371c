------------------------------ MODULE Enclave ------------------------------
(***************************************************************************)
(* The trusted side: duk_enclave/duk_enclave.cpp with the message handlers *)
(* of enclave-autoexec/index.js, under a host that may issue any ECALL at  *)
(* any time.  There is one TCS and no OCALL allows an ECALL, so ECALLs do  *)
(* not overlap; application code (scripts, handlers, microtasks) runs      *)
(* inside init and emit_message and changes the handler list and the       *)
(* microtask queue while the loops of the framework walk over them.  It    *)
(* also runs inside close, and between those loops' calls, as finalizers   *)
(* (Duktape.fin): of what nothing refers to any more, and of all that is   *)
(* left when the heap is destroyed.                                        *)
(*                                                                         *)
(* `pc' is the call stack: "idle" (no ECALL), "script" (init evaluates the *)
(* main script), "dispatch" (emitMessage's loop, between two handlers),    *)
(* "handler", "spin" (spin_microtasks, between two tasks), "task",         *)
(* "finalize" (close runs the finalizers of the heap it destroys).         *)
(*                                                                         *)
(* CloseKeepsSession, CloseReopens, LiveHandlers, DispatchReturns, PopTask,*)
(* TaskEndsSpin and PopsFive are faulty variants of the operator after     *)
(* them; no action uses them.                                              *)
(***************************************************************************)
EXTENDS Naturals, Sequences, SequencesExt

CONSTANTS
  Handler,      \* the functions the enclave's code registers
  MaxMessages,  \* bound: messages the host sends in
  MaxTasks,     \* bound: calls of nextTick
  MaxHandlers,  \* bound: registrations held at a time
  MaxPosts      \* bound: messages posted out

ASSUME EnclaveAssumption ==
  {MaxMessages, MaxTasks, MaxHandlers, MaxPosts} \subseteq Nat

VARIABLES
  state,            \* state
  crashed,          \* "no", or the check whose abort() ended the enclave
  heap,             \* ctx # NULL
  pse,              \* PSE sessions open
  ra,               \* remote attestation contexts open
  pc,               \* what is on the ECALL's stack
  valstack,         \* values on the heap's value stack at its bottom level
  messageHandlers,  \* messageHandlers
  snapshot,         \* messageHandlersSnapshot
  index,            \* i, in emitMessage
  microtasks,       \* heap_stash.microtasks, as numbers of nextTick calls
  scheduled,        \* number of nextTick calls
  posts,            \* number of messages posted out
  emitted,          \* history: messages the enclave took in
  atEntry,          \* history: messageHandlers when the last one came in
  called,           \* history: handlers called with the last one
  escaped,          \* history: an exception left emitMessage for the last one
  ran               \* history: tasks run

lifeVars == <<state, heap, pse, ra>>
jsVars == <<messageHandlers, microtasks, scheduled, posts>>
emitVars == <<snapshot, index, emitted, atEntry, called, escaped>>
enclaveVars == <<state, heap, pse, ra, crashed, pc, valstack, messageHandlers,
                 microtasks, scheduled, posts, snapshot, index, emitted,
                 atEntry, called, escaped, ran>>

States == {"NASCENT", "ACTIVE", "CLOSED", "RA"}

\* Where application code can run: a finalizer needs no more than that the
\* engine runs.
AppCode == {"script", "dispatch", "handler", "spin", "task", "finalize"}

Aborts == {"state", "pse", "script", "fatal", "sgx"}

EnclaveInit ==
  /\ state = "NASCENT" /\ crashed = "no"
  /\ heap = FALSE /\ pse = 0 /\ ra = 0
  /\ pc = "idle" /\ valstack = 0
  /\ messageHandlers = <<>> /\ snapshot = <<>> /\ index = 1
  /\ microtasks = <<>> /\ scheduled = 0 /\ ran = <<>> /\ posts = 0
  /\ emitted = <<>> /\ atEntry = <<>> /\ called = <<>> /\ escaped = FALSE

-----------------------------------------------------------------------------
(***************************************************************************)
(* ECALLs.  abort() leaves the enclave crashed: whatever the memory holds, *)
(* no ECALL enters it again.                                               *)
(***************************************************************************)
Enter == crashed = "no" /\ pc = "idle"

Abort(why) == crashed' = why /\ pc' = "idle"

\* An ECALL whose test of the state fails.
WrongState(expected) ==
  /\ Enter /\ state # expected
  /\ Abort("state")
  /\ UNCHANGED <<lifeVars, valstack, jsVars, emitVars, ran>>

\* duk_enclave_init up to the evaluation of the main script, in the order of
\* its aborts: no heap, no PSE session, no such script.  The framework script,
\* AUTOEXEC_SCRIPT, is taken to be in the table and to run to its end, which
\* the code does not insist on: it starts with an empty handler list.
EcallInit ==
  /\ Enter /\ state = "NASCENT"
  /\ state' = "ACTIVE"
  /\ \/ UNCHANGED <<heap, pse>> /\ Abort("fatal")
     \/ heap' = TRUE /\ UNCHANGED pse /\ Abort("pse")
     \/ heap' = TRUE /\ pse' = pse + 1 /\ Abort("script")
     \/ heap' = TRUE /\ pse' = pse + 1 /\ pc' = "script" /\ UNCHANGED crashed
  /\ UNCHANGED <<ra, valstack, jsVars, emitVars, ran>>

\* The main script returns or throws: its error is only reported.
ScriptEnds ==
  /\ pc = "script"
  /\ pc' = "spin"
  /\ UNCHANGED <<lifeVars, crashed, valstack, jsVars, emitVars, ran>>

\* duk_enclave_emit_message up to the first handler.
EcallEmit(m) ==
  /\ Enter /\ state = "ACTIVE"
  /\ pc' = "dispatch"
  /\ snapshot' = messageHandlers /\ index' = 1
  /\ emitted' = Append(emitted, m)
  /\ atEntry' = messageHandlers /\ called' = <<>> /\ escaped' = FALSE
  /\ UNCHANGED <<lifeVars, crashed, valstack, jsVars, ran>>

CloseKeepsSession == pse' = pse
CloseReopens == state' = "NASCENT"

CloseSession == pse' = pse - 1
SetClosed == state' = "CLOSED"

\* duk_enclave_close up to the finalizers that duk_destroy_heap runs.
EcallClose ==
  /\ Enter /\ state = "ACTIVE"
  /\ SetClosed
  /\ pc' = "finalize"
  /\ UNCHANGED <<heap, pse, ra, crashed, valstack, jsVars, emitVars, ran>>

\* The last finalizer has run.  The handlers and the tasks go with the heap;
\* nothing spins, so a task that a finalizer scheduled never runs.
CloseReturns ==
  /\ pc = "finalize"
  /\ heap' = FALSE /\ valstack' = 0
  /\ \/ CloseSession /\ pc' = "idle" /\ UNCHANGED crashed
     \/ UNCHANGED pse /\ Abort("pse")
  /\ UNCHANGED <<state, ra, jsVars, emitVars, ran>>

\* duk_enclave_init_ra: a PSE session it opens is closed before it returns.
EcallInitRA ==
  /\ Enter /\ state = "NASCENT"
  /\ state' = "RA"
  /\ \/ ra' = ra + 1 /\ UNCHANGED <<pse, crashed, pc>>
     \/ ra' \in {ra, ra + 1} /\ pse' \in {pse, pse + 1} /\ Abort("sgx")
  /\ UNCHANGED <<heap, valstack, jsVars, emitVars, ran>>

EcallBootstrapRA ==
  /\ Enter /\ state = "RA"
  /\ SetClosed
  /\ \/ ra' = ra - 1 /\ UNCHANGED <<crashed, pc>>
     \/ UNCHANGED ra /\ Abort("sgx")
  /\ UNCHANGED <<heap, pse, valstack, jsVars, emitVars, ran>>

EcallBootstrapMock ==
  /\ Enter /\ state = "NASCENT"
  /\ SetClosed
  /\ UNCHANGED pc /\ crashed' \in {"no", "sgx"}
  /\ UNCHANGED <<heap, pse, ra, valstack, jsVars, emitVars, ran>>

-----------------------------------------------------------------------------
(***************************************************************************)
(* emitMessage's loop over the snapshot.                                   *)
(***************************************************************************)
LiveHandlers == messageHandlers

HandlersToCall == snapshot

\* What the pcall of emitMessage leaves: three values are pushed (handlers,
\* function, message), the call replaces two by its result, one is popped.
AfterEmitCall(depth) == depth + 3 - 2 + 1 - 1

DispatchNext ==
  /\ pc = "dispatch" /\ index <= Len(HandlersToCall)
  /\ pc' = "handler"
  /\ called' = Append(called, HandlersToCall[index])
  /\ UNCHANGED <<lifeVars, crashed, valstack, jsVars, snapshot, index, emitted,
                 atEntry, escaped, ran>>

\* The handler returns, or throws a value that has a stack or converts.
HandlerEnds ==
  /\ pc = "handler"
  /\ pc' = "dispatch" /\ index' = index + 1
  /\ UNCHANGED <<lifeVars, crashed, valstack, jsVars, snapshot, emitted,
                 atEntry, called, escaped, ran>>

\* The handler throws null or undefined: reading e.stack throws again, out
\* of the catch block and out of emitMessage.
HandlerThrowsNull ==
  /\ pc = "handler"
  /\ pc' = "spin"
  /\ escaped' = TRUE
  /\ valstack' = AfterEmitCall(valstack)
  /\ UNCHANGED <<lifeVars, crashed, jsVars, snapshot, index, emitted, atEntry,
                 called, ran>>

DispatchReturns ==
  /\ pc = "dispatch" /\ index > Len(HandlersToCall)
  /\ pc' = "idle"
  /\ valstack' = AfterEmitCall(valstack)
  /\ UNCHANGED <<lifeVars, crashed, jsVars, emitVars, ran>>

DispatchDone ==
  /\ pc = "dispatch" /\ index > Len(HandlersToCall)
  /\ pc' = "spin"
  /\ valstack' = AfterEmitCall(valstack)
  /\ UNCHANGED <<lifeVars, crashed, jsVars, emitVars, ran>>

-----------------------------------------------------------------------------
(***************************************************************************)
(* spin_microtasks: shift and call until the queue is empty, the tasks     *)
(* that tasks add included.                                                *)
(***************************************************************************)
PopTask(q) == [task |-> Last(q), left |-> Front(q)]

ShiftTask(q) == [task |-> Head(q), left |-> Tail(q)]

SpinNext ==
  /\ pc = "spin" /\ microtasks # <<>>
  /\ ran' = Append(ran, ShiftTask(microtasks).task)
  /\ microtasks' = ShiftTask(microtasks).left
  /\ pc' = "task"
  /\ UNCHANGED <<lifeVars, crashed, valstack, messageHandlers, scheduled, posts,
                 emitVars>>

TaskEndsSpin ==
  /\ pc = "task"
  /\ pc' = "idle"
  /\ UNCHANGED <<lifeVars, crashed, valstack, jsVars, emitVars, ran>>

\* The task returns or throws: the pcall reports its error.
TaskEnds ==
  /\ pc = "task"
  /\ pc' = "spin"
  /\ UNCHANGED <<lifeVars, crashed, valstack, jsVars, emitVars, ran>>

PopsFive(depth) == depth + 3 + 1 - 5

\* stash, microtasks and shift are pushed, then shift's undefined; the break
\* skips the pop of the latter and duk_pop_3 takes three of the four.
AfterSpin(depth) == depth + 3 + 1 - 3

SpinDone ==
  /\ pc = "spin" /\ microtasks = <<>>
  /\ pc' = "idle"
  /\ valstack' = AfterSpin(valstack)
  /\ UNCHANGED <<lifeVars, crashed, jsVars, emitVars, ran>>

-----------------------------------------------------------------------------
(***************************************************************************)
(* What application code calls while it runs.                              *)
(***************************************************************************)
OnMessage(h) ==
  /\ pc \in AppCode
  /\ messageHandlers' = Append(messageHandlers, h)
  /\ UNCHANGED <<lifeVars, crashed, pc, valstack, microtasks, scheduled, posts,
                 emitVars, ran>>

\* The first occurrence goes (the ports of the outside drop the last one).
RemoveOnMessage(h) ==
  /\ pc \in AppCode
  /\ \E i \in DOMAIN messageHandlers :
       /\ messageHandlers[i] = h
       /\ \A j \in 1..(i - 1) : messageHandlers[j] # h
       /\ messageHandlers' = RemoveAt(messageHandlers, i)
  /\ UNCHANGED <<lifeVars, crashed, pc, valstack, microtasks, scheduled, posts,
                 emitVars, ran>>

(***************************************************************************)
(* importScripts of the framework's own script, which the table holds too: *)
(* a second SecureWorker with lists of its own takes the place of the      *)
(* first, while a loop under way keeps its snapshot of the old list.       *)
(***************************************************************************)
ImportFramework ==
  /\ pc \in AppCode
  /\ messageHandlers' = <<>>
  /\ UNCHANGED <<lifeVars, crashed, pc, valstack, microtasks, scheduled, posts,
                 emitVars, ran>>

NextTick ==
  /\ pc \in AppCode
  /\ scheduled' = scheduled + 1
  /\ microtasks' = Append(microtasks, scheduled + 1)
  /\ UNCHANGED <<lifeVars, crashed, pc, valstack, messageHandlers, posts,
                 emitVars, ran>>

\* The OCALL returns to the same code: see RealWorker for its other end.
PostMessage ==
  /\ pc \in AppCode
  /\ posts' = posts + 1
  /\ UNCHANGED <<lifeVars, crashed, pc, valstack, messageHandlers, microtasks,
                 scheduled, emitVars, ran>>

\* report_fatal: an error no pcall catches, such as memory running out.
Fatal ==
  /\ pc # "idle"
  /\ Abort("fatal")
  /\ UNCHANGED <<lifeVars, valstack, jsVars, emitVars, ran>>

AppCall ==
  \/ \E h \in Handler : Len(messageHandlers) < MaxHandlers /\ OnMessage(h)
  \/ \E h \in Handler : RemoveOnMessage(h)
  \/ ImportFramework
  \/ scheduled < MaxTasks /\ NextTick
  \/ posts < MaxPosts /\ PostMessage

\* Control returns: to the framework's loops, and from them to the host.
CodeReturns ==
  \/ ScriptEnds \/ DispatchNext \/ HandlerEnds \/ HandlerThrowsNull \/ DispatchDone
  \/ SpinNext \/ TaskEnds \/ SpinDone

Returns == CodeReturns \/ CloseReturns

Ecall ==
  \/ EcallInit \/ EcallClose \/ EcallInitRA \/ EcallBootstrapRA \/ EcallBootstrapMock
  \/ Len(emitted) < MaxMessages /\ EcallEmit(Len(emitted) + 1)
  \/ \E expected \in States \ {"CLOSED"} : WrongState(expected)

EnclaveNext == Ecall \/ Returns \/ AppCall \/ Fatal

\* Application code returns: each function it runs ends, finalizers too.
EnclaveSpec == EnclaveInit /\ [][EnclaveNext]_enclaveVars /\ WF_enclaveVars(Returns)

-----------------------------------------------------------------------------
\* Properties.

\* The type of every variable of the enclave.
EnclaveTypeOK ==
  /\ state \in States /\ crashed \in Aborts \cup {"no"}
  /\ heap \in BOOLEAN /\ pse \in {0, 1} /\ ra \in {0, 1}
  /\ pc \in AppCode \cup {"idle"}
  /\ escaped \in BOOLEAN
  /\ valstack \in Nat /\ index \in Nat \ {0}
  /\ scheduled \in Nat /\ posts \in Nat
  /\ {messageHandlers, snapshot, atEntry, called} \subseteq Seq(Handler)
  /\ {microtasks, ran, emitted} \subseteq Seq(Nat)

(***************************************************************************)
(* The JavaScript heap, the PSE session and the attestation context exist  *)
(* exactly in the state that owns them, the first two also while close     *)
(* runs finalizers, and application code runs only on a live heap: close   *)
(* and the bootstrap calls leak nothing when they return, and no path uses *)
(* what another released.                                                  *)
(***************************************************************************)
Opened == state = "ACTIVE" \/ pc = "finalize"

ResourcesMatchState ==
  crashed = "no" =>
    /\ heap <=> Opened
    /\ pse = IF Opened THEN 1 ELSE 0
    /\ ra = IF state = "RA" THEN 1 ELSE 0
    /\ pc # "idle" => heap

(***************************************************************************)
(* An enclave is used once: no sequence of ECALLs brings it back to a      *)
(* state it has left, and a crashed one does nothing more.                 *)
(***************************************************************************)
Later(s) == CASE s = "NASCENT" -> {"ACTIVE", "RA", "CLOSED"}
              [] s \in {"ACTIVE", "RA"} -> {"CLOSED"}
              [] s = "CLOSED" -> {}

UsedOnce == [][ /\ state' \in Later(state) \cup {state}
                /\ crashed = "no" ]_enclaveVars

(***************************************************************************)
(* The host gets a worker that lives back only when no microtask is left:  *)
(* promise callbacks never wait for the next message (spin_microtasks ends *)
(* init and emit_message, however the application's code was left).  Close *)
(* does not spin: what its finalizers schedule is freed with the heap.     *)
(***************************************************************************)
TasksDrained ==
  crashed = "no" /\ pc = "idle" /\ state # "CLOSED" => microtasks = <<>>

(***************************************************************************)
(* Tasks run in the order of the nextTick calls, each once, those that     *)
(* tasks add while the queue is walked included.                           *)
(***************************************************************************)
TasksInOrder == ran \o microtasks = [i \in 1..scheduled |-> i]

(***************************************************************************)
(* A message goes to exactly the handlers registered when it came in, in   *)
(* order, whatever handlers are added and removed while they run, even if  *)
(* the framework itself is imported again, and whatever they throw, except *)
(* null and undefined (see HandlerThrowsNull).                             *)
(***************************************************************************)
SnapshotDelivered ==
  /\ IsPrefix(called, atEntry)
  /\ (crashed = "no" /\ pc \in {"spin", "task", "finalize", "idle"} /\ ~escaped)
       => called = atEntry

(***************************************************************************)
(* A task that was scheduled runs, unless the enclave crashes first or a   *)
(* finalizer scheduled it while close destroyed the heap.                  *)
(***************************************************************************)
TasksRun ==
  \A t \in 1..MaxTasks :
    (Contains(microtasks, t) /\ state = "ACTIVE")
      ~> (Contains(ran, t) \/ crashed # "no")

(***************************************************************************)
(* Between ECALLs the value stack is back where it was.  The comment on    *)
(* spin_microtasks names the three values it pushes and duk_pop_3 is meant *)
(* to take them; the code leaves one per call, and emit_message another.   *)
(***************************************************************************)
StackBalanced == crashed = "no" /\ pc = "idle" => valstack = 0
=============================================================================

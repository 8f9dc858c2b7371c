# node-secureworker in TLA+

`secureworker` runs JavaScript in an SGX enclave behind a Web-Workers-style
interface. These modules model the parts of it that decide *when* code runs and
*what* reaches whom: message ports, the event loop, the addon's objects, the
enclave's entry points, microtasks, script imports, keys and counters. TLC checks them on small instances; TLAPS proves
the central invariants for every value of the constants.

Paths below are relative to `src/`.

## The system

| Component | State | Operations | Talks to |
|---|---|---|---|
| Message port, `lib/message-port.js` | `_started`, the queue, the emitter's listeners | `start`, `emit`, `addListener`, `removeListener` | calls listeners synchronously; they may call it back |
| Real worker, `lib/real.js` | `_internal`, one port | constructor, `onMessage`, `removeOnMessage`, `postMessage`, `terminate` | the addon (calls), the event loop (`setImmediate`), the application (listeners) |
| Native addon, `node-secureworker-internal/secureworker-internal.cc` | per object: enclave id, `destroyed`, `handlePostMessage`; the thread's stack of entrants | constructor, `init`, `close`, `emitMessage`, `bootstrapMock`, `destroy`, destructor, quotes | enclaves (ECALLs), `handlePostMessage` (OCALL), the garbage collector |
| Enclave runtime, `duk_enclave/duk_enclave.cpp` | `state`, `ctx`, PSE session, microtask queue, value stack | six ECALLs, `spin_microtasks`, natives | the framework script; OCALLs |
| Framework script, `enclave-autoexec/index.js` | message handlers, two import lists | `onMessage`, `postMessage`, `importScripts`, `crypto.subtle`, ... | natives; the enclave's application code |
| Mock worker, `lib/mock.js` | two ports, a `vm` context, import lists, counters of the process | the same interface, in one process | event loop, nextTick queue, promises |
| Web Crypto, `enclave-autoexec/index.js:154-434` and its natives | none of its own (keys are values) | `encrypt`, `sign`, `importKey`, ... | SGX crypto library |
| Monotonic counters, reports, sealing, time | the platform's; in the mock, tables of the process | one call each | SGX services |
| Remote attestation client, `lib/real.js:101-191` | none | `getRemoteAttestation` | an HTTP server, a callback |
| Scripts table, `scripts/`, `bin/` | the list of scripts in the enclave | built once, `look_up_script` | the runtime |
| `lib/index.js` | which implementation was loaded | evaluated once | |
| `duktape-1.4.0/` | vendored engine | | |

All untrusted code shares Node's one thread, and an ECALL blocks it, so nothing
runs in parallel. What makes the system hard is *re-entrancy* (listeners,
handlers, tasks and imported scripts change the very list the framework is
walking), *deferral* (`postMessage`, `terminate` and messages out of the enclave
are `setImmediate` callbacks that read the state of a later turn; the mock starts
its inner port in a promise callback) and *failure* (any application function may
throw, any ECALL may crash the enclave, any SGX call may fail half-way).

What makes each component correct:

- port: each message is dispatched once, in order, across the switch from queue to direct delivery, and none stays behind;
- runtime: heap, session and attestation context exist exactly in the state that owns them; an enclave is used once; tasks run in order, and all of them before the host gets a live worker back; a message goes to the handlers registered when it came in;
- `importScripts`: a script is loaded once, cycles end, a failure leaves no trace;
- native addon: an OCALL reaches the object of the enclave that makes it; no cached enclave id is stale; nothing is destroyed under an ECALL or left behind;
- counters of the mock: the count is that of the table, a counter never goes back, the limit is exact;
- real worker: FIFO in both directions, `terminate` ordered with `postMessage` and releasing everything, no ECALL in a wrong state;
- mock worker: the same promises as the real one, and no listener inside called on top of the code that registers it.

## Modules

| Module | Models | State and actions |
|---|---|---|
| `MessagePort` | `lib/message-port.js` | the fields of the port; `draining` and `calling` are its part of the call stack. One action per call, per turn of `start()`'s loop, and per listener that returns or throws |
| `Enclave` | `duk_enclave.cpp`, messaging of `index.js` | `pc` is the ECALL's call stack. `Ecall*` enter, `CloseReturns` ends a close once the finalizers of the destroyed heap have run (`pc` is then "finalize"), `DispatchNext`/`HandlerEnds`/`HandlerThrowsNull`/`DispatchDone` are `emitMessage`'s loop, `SpinNext`/`TaskEnds`/`SpinDone` are `spin_microtasks`; `AppCall` is what application code calls, an import of the framework's own script included; `Fatal` is `report_fatal` |
| `ImportScripts` | `importScripts`, real and mock | `stack` has a frame per script under evaluation with the arguments it still has to treat |
| `Channel` | abstract specification | what a direction of `postMessage` promises: FIFO, at most once; a prefix may be lost |
| `RealWorker` | `lib/real.js`, its use of the addon | composes `MessagePort` and `Enclave` (INSTANCE); `immediates` is the setImmediate queue. The callback of `terminate` is two steps, `RunTerminate` (up to the finalizers inside `close()`) and `TerminateEnds` (the rest, where SGX may refuse to destroy) |
| `MockWorker` | messaging of `lib/mock.js` | composes two ports (INSTANCE); `immediates` and `ticks` are Node's queues |
| `SecureWorkerInternal` | `secureworker-internal.cc` | `calls` is the stack of native methods and of the handlers they call, `thread_entry` an index into it; `object`, `enclave_id`, `destroyed` are per object; `loaded`, `crashed`, `refused` are SGX's side. One action per method, per end of a call, and for the garbage collector |
| `CounterService` | abstract specification | what monotonic counters promise (README.md, `SecureWorker.monotonicCounters`), with the errors of the mock |
| `MonotonicCounters` | `lib/mock.js:353-393` | the table and the count; `answer` is what the last call returned or threw |
| `WebCrypto` | `crypto.subtle` and its natives | `keys` and `buffers` are what the application holds, `result` the last call that used a key. One action per method; a call that throws leaves everything alone |
| `*_proofs` | | theorems about the module they extend: `MessagePort`, `ImportScripts`, `Enclave`, `RealWorker`, `MockWorker`, `SecureWorkerInternal`, `MonotonicCounters`, `WebCrypto` |
| `MC*` | | instances for TLC |

Each module's header names operators that are deliberately *faulty variants* of
the operator that follows them. No action uses them; `PROJECT.json` ("mutants")
says which property notices when one replaces the right operator.

Variables marked *history* (`dispatched`, `received`, `abandoned`, `ran`, `called`,
`escaped`, `loads`, `postedBefore`, `refused`) exist only for the properties. Messages are
numbers, listeners and handlers model values: nothing depends on their content.
Messages are assumed to be JSON-serializable, as README.md asks.

Bytes in `WebCrypto` are symbolic: a buffer is a sequence of parts, each with a
size, a meaning and, for a P-256 number, its byte order, so that a conversion is
modelled by what it does to length and order. The SGX library is a free algebra
(a signature is a term over key and data). The application may call any method with
any key, also of the wrong type, any encoding that `index.js` knows or a
truncated one, and any signature, also of the other algorithm or with a byte too many.

## Runs

| Run | Instance | Shows |
|---|---|---|
| `port` | 2 listeners, 3 messages, 3 registrations | `ExactlyOnce`, `HeardInOrder`, `StrandedOnlyByThrow`; liveness `QueuedIsHeard` |
| `port_strands` | the same, smaller | finding: a listener that throws in `start()`'s loop strands the queue |
| `enclave` | 2 handlers, 2 messages, 3 tasks, 1 post | `ResourcesMatchState`, `SnapshotDelivered`, `TasksInOrder`, `TasksDrained`; `UsedOnce`, `TasksRun` |
| `enclave_stack` | 1 message | finding: values stay on the value stack after each ECALL |
| `import` | main, two scripts, a missing key; 2 arguments per call | `ImportedOnce`, `ListsMatchStack`, both implementations |
| `import_main` | the same | finding: the enclave loads its main script again |
| `worker` | 2 messages each way, 2 `terminate`, 1 task, 1 listener, 1 handler | `InwardChannel`, `OutwardChannel` (refinement of `Channel`), `TerminatedAfterEarlierPosts`, `HeldIsActive`, `TerminatedHoldsNothing`; liveness |
| `internal` | 3 workers, 6 calls on the stack | `OcallReachesItsWorker`, `EntryIsOwn`, `IdsAreCurrent`, `NothingLeaked` |
| `worker_async` | smaller | finding: the constructor evaluates the script before it returns |
| `mock` | 2 messages each way, 3 ticks | `NothingLostInward`, `NothingLostOutward`, `CalledFromLoop`; liveness |
| `webcrypto` | two pairs, one of them foreign; two secrets, texts and vectors; 3 keys held | `KeysAreNative`, `ExportsAreStandard`, `OutputsAreStandard`, `VerifyIsRight`, `DecryptsAesGcm` |
| `webcrypto_ctr` | 1 key held | finding: AES-CTR decryption always throws |

Why the bounds are enough: reordering, loss and duplication need two messages,
and the port's switch from queue to direct delivery while one is being
delivered needs three. Two listeners let one remove the other; three
registrations let one be registered twice beside another. Two handlers with
three registrations do the same for the enclave's snapshot, and three tasks let a
task add a task behind another. Two scripts besides the main one give every
cycle, self-import and diamond on two nodes, and with two arguments a skipped
or failed import before another. Two calls of `terminate` make the second find
what the first left. Three keys held at a time are a pair and a second form of one of
its halves; no call of `crypto.subtle` takes more than two keys, and exported
buffers, which are not bounded, let a key go round any number of times. A signature
is handed to `verify` as it is (64 bytes), with one byte more, or is a CMAC (16 or 17 bytes), so
all three cases of `Bytes64` occur. Three
workers under six calls nest three ECALLs through two handlers and one more
handler: an entrant below, one above and one that was left by a throw. The
workers of `internal` are interchangeable (symmetry; it checks no liveness).

The type invariant of each component is checked in its passing run, except in
`WebCrypto`, where `KeysAreNative` and `ExportsAreStandard` say exactly which
value every key and buffer has. `MonotonicCounters` has no run: its calls do not
overlap, and its properties are proved for every limit.

Deadlock is checked in `port`, `import` and `webcrypto`. The others switch it off because the system
does stop: a crashed enclave answers no ECALL, a process that ended does nothing, and a
handler that destroys the worker it was called for waits for itself (`blocked`).

### Fairness

Weak fairness stands for one thing: JavaScript that runs comes to its end, and
Node then goes on. So functions of the application return, finalizers too (`ListenerReturns`,
`Returns`, `TerminateEnds`, `TickEnds`), loops of the library go on, and the event loop takes the next
callback. Nothing makes the application register a listener, post or
terminate. The number of `nextTick` callbacks is bounded (`MaxTasks`,
`MaxTicks`): code that queues one in each starves Node and the enclave for good.
`setImmediate` callbacks are run with the nextTick queue emptied in between
(`package.json` asks for node 13).

## Proofs

Proved with TLAPS, for every set of listeners, handlers, scripts, workers or ids and every bound:

- `MessagePort_proofs`: `PortTypeOK`, `ExactlyOnce`, `HeardInOrder`, `StrandedOnlyByThrow`. None is
  inductive. `PortInv` adds that queue and dispatched messages are increasing and
  disjoint, that everything dispatched is older than everything queued *until the
  loop of `start()` is left* (`Before`; what a throw strands is older than
  what is dispatched later), that nothing is dispatched before the start, and that what a
  listener heard is at most the message under dispatch. The step lemmas follow the
  actions: `Emit`, `DrainNext`, a listener that ends, and those that change
  nothing `PortInv` relates. `PortUnbroken` says, for those who use the port, that until a throw
  abandons the loop `dispatched` and the queue are all the numbers emitted, without a gap.
- `ImportScripts_proofs`: `ListsMatchStack`, `ImportedOnce`. `ImportInv` adds that a frame waits for
  exactly the script of the frame above it, and that a key's load count is one
  only if it is the main script, on the stack, or imported.
- `Enclave_proofs`: `EnclaveTypeOK`, `ResourcesMatchState`, `TasksDrained`, `TasksInOrder`,
  `SnapshotDelivered`, `UsedOnce`. `EnclaveInv` adds that code runs only in an enclave
  that has not crashed and is in the state for it (`RunsInState`: active, or closed while close
  runs finalizers), that task numbers count on from `ran` to `microtasks`, and that
  within `emitMessage` the snapshot is the list at entry and exactly the handlers
  before `index` have been called. Its four parts (types, resources, tasks,
  messages) are preserved by a lemma each, with a case per action. `EnclaveStack` gives the
  finding of `enclave_stack` for every number of messages: after n, 1 + 2n values stay on the stack.
- `RealWorker_proofs`: `WorkerTypeOK`, `TerminatedAfterEarlierPosts`, `HeldIsActive`,
  `TerminatedHoldsNothing`. `LifeInv` ties what `_internal` holds to the state of the
  enclave: live means active, unless it crashed, is being closed or SGX refused to destroy it, null means closed and
  destroyed, and code runs only while the constructor or a live worker waits for it. `QueueInv` describes the setImmediate queue:
  the messages in it grow, lie between those taken in and those posted, and, as
  long as the enclave can take any, are all of them (`Complete`); the first `terminate`
  divides those posted before it from those after (`Divided`). The lemmas on `Append` and
  `Tail` say what each kind of callback does to these four, so that the step of
  `terminate` finds every earlier message taken in.

  *Composition.* `WorkerPort` and `WorkerEnclave` prove that every step of a worker is a step of
  `MessagePort`, and one of `Enclave`, or leaves their variables alone. The theorems about these
  two, which assume nothing of who uses them, are then instantiated (`PortThms`, `EnclaveThms`)
  and hold of a worker (`WorkerPortKeeps`, `WorkerEnclaveKeeps`).

  *Refinement.* `WorkerInward` and `WorkerOutward` are the run's `InwardChannel` and
  `OutwardChannel`. The abstract pipe is a *set* of messages: they are numbered as they are sent, so
  the oldest is the least and a sequence would say no more. It is mapped to the messages that the
  `post` (`emit`) callbacks carry. `Counted` adds to `WorkerInv` that these callbacks carry all
  numbers from the last delivered to the last sent, in order; with it, running the first of them
  is a delivery, and `terminate` or a crash loses messages but reorders none.
- `MockWorker_proofs`: `MockTypeOK` and `CalledFromLoop`, which is inductive: only the
  promise callback and setImmediate callbacks start the inner port or emit on it. `MockPorts`
  composes as above, with two ports; `MockHeardInOrder` and `MockExactlyOnce` follow from the
  port's theorems. `NothingLostInward` and `NothingLostOutward` join the parts of a message's way:
  those dispatched and queued, without a gap (`Unbroken`, of the port), and those in callbacks,
  without a gap from there to the last posted (`Counted`).
- `SecureWorkerInternal_proofs`: `InternalTypeOK`, `OcallReachesItsWorker`, `EntryIsOwn`,
  `IdsAreCurrent`, `NothingLeaked`. `InternalInv` adds the shape of the stack (methods and
  handlers alternate, a method's `previous` is the entry that was current when it was made,
  a handler serves the object of the method below it) and that an object on the stack is live and holds the enclave its call entered.
- `MonotonicCounters_proofs`: `CountIsTrue`, `WithinLimit` (for a natural limit), `NeverBack`,
  and the refinement `IsService`: initial states map to initial states and every call is
  one step of `CounterService` or leaves its variables alone.
- `WebCrypto_proofs`: all five invariants of the run `webcrypto`, for any pairs, secrets and
  messages and any number of imports and exports. First come lemmas on bytes: the size of a
  buffer of up to five parts (no encoding has more; `Size` is a recursive function, and `SizeIs`
  gets its values from the equation that defines it), how buffers are put together
  and cut, that reversing each number takes a key of the natives to one of the API and back, and
  what `importKey` finds in each encoding when it takes it for each format. Then one lemma per
  method: `Imported` (an encoding that passes the test of length has the type of the format, and
  a truncated one never passes), `ExportedIs`, `Signs`, `VerifiesEcdsa`, `VerifiesCmac`,
  `Derives`, `DecryptsGcm`. `EcdsaRead` and `CmacRead` say which 64 bytes `verify` reads of a signature
  of any length. The size of a key tells its type (`RawSizes`), which is why the
  natives' tests of size refuse every key of the wrong type. `CryptoInv` adds what the five say
  nothing of: what a key or a buffer is of fits its type, and a signature or a ciphertext kept
  from the last call was made by a key. `CryptoCtrAlwaysThrows` is the finding of
  `webcrypto_ctr` for every key and counter.
- The type invariants, `ImportTypeOK` among them, are parts of the inductive ones.

The only assumptions are the ones on constants in the modules (`PortAssumption`,
`ImportAssumption`, `EnclaveAssumption`, `WorkerAssumption`, `MockAssumption`,
`InternalAssumption`, `CryptoAssumption`): they say that a bound is a natural number,
`ImportAssumption` also that the main script is among the stored ones, and `CryptoAssumption` that
pairs made elsewhere are pairs. That different keys and messages have different bytes, and that no
one signs without the key, is no assumption but holds of the symbolic natives by construction:
it is what the model takes from the SGX library.

Only model-checked: liveness (`QueuedIsHeard`, `TasksRun`, `PostedIsTakenIn`,
`TerminateTakesEffect`, `PostedOutIsDispatched`, `PostedReachesInside`,
`PostedReachesOutside`), because the prover knows no ENABLED, and the violations, which are
counterexamples. Every invariant and every action property that a passing run checks is proved.

## Findings

1. `lib/message-port.js:25`: `start()` sets `_started` before its loop. A listener that throws there leaves the remaining messages in a queue nobody reads again (`port_strands`).
2. `duk_enclave.cpp:608`: `duk_pop_3` takes three of four values, and `emit_message` pops one of two: after n messages 1 + 2n values stay on the heap's value stack (`enclave_stack`).
3. `enclave-autoexec/index.js:33`: the list of imported scripts does not start with the main script, as the mock's does (`import_main`).
4. `lib/real.js:31`: the script runs inside the constructor, not asynchronously as the README says (`worker_async`).
5. `duk_enclave.cpp:446`: `native_aesctr_decrypt` takes the length before the counter, its caller passes them the other way round, so every AES-CTR decryption throws (`webcrypto_ctr`).

Smaller observations, not run:

- `lib/real.js:105` names `UInt16Array`, which JavaScript does not have: every call of `getRemoteAttestation` throws a ReferenceError before it sends anything.
- `README.md` calls both arguments of `getReport` optional, and `enclave-autoexec/index.js:117` repeats it, but `duk_enclave.cpp:281` refuses `undefined` for the first one with a TypeError; only null is taken for an absent argument.
- `lib/mock.js:361` gives `uuid.v4` an ArrayBuffer of length 0, so the mock's counter ids are properties set on an empty buffer: an id does not survive a copy of its bytes.
- After a failed `destroy()` the destructor does not free the enclave any more (`secureworker-internal.cc:109`); only a second `destroy()` does. `NothingLeaked` is stated accordingly.
- `README.md:187` says of `worker.terminate()` "Not yet implemented", but `lib/real.js:58` implements it; it is the mock's that does nothing.
- `duk_destroy_heap` (`duk_enclave.cpp:658`) runs the application's finalizers. What they post is delivered, but tasks they schedule are freed with the heap, unrun. `TasksDrained` and `TasksRun` are stated accordingly.
- `enclave-autoexec/index.js:252`: `verify` takes the first 64 bytes of an ECDSA signature and never tests its length, so a valid signature followed by anything verifies true, where Web Crypto says false. `VerifyIsRight` is stated accordingly, and proved of every signature a key makes, as it is and with more behind it.
- When SGX refuses `destroy()` (`lib/real.js:62`), the worker goes on holding a closed enclave, and the next callback of `postMessage` or `terminate` makes that abort instead of finding null.
- A handler that calls `destroy()` on the worker it serves makes SGX wait for the ECALL that waits for the handler.

## Assumptions about what is outside

- SGX: no ECALL enters an enclave that crashed or was destroyed, nor one that is inside an OCALL (`duk_enclave.edl` allows none there); `sgx_destroy_enclave` waits for ECALLs under way. Both modules that call it let it fail at any time, because the code checks its status. A crashed enclave is one that no ECALL enters: `Abort` leaves state and memory as they are.
- The framework script (`AUTOEXEC_SCRIPT`) is in the table and runs to its end, as the build makes it; `duk_enclave.cpp:640-644` would only report that it does not, and then no message handler exists.
- Duktape: a finalizer runs when the last reference to its object goes, in a collection, or when the heap is destroyed. Between the last look of `spin_microtasks` at its queue and the return of the ECALL nothing is allocated and only references to objects that others still refer to are dropped, so no finalizer schedules a task there.
- Node: one thread, setImmediate callbacks in order, nextTick and promise callbacks before the next of them; the garbage collector may finalize an object that is not on the stack whenever JavaScript runs.
- `lib/real.js` never nests ECALLs, because its `handlePostMessage` only queues; nesting in `SecureWorkerInternal` is for other users of the addon's class, which `lib/real.js` exposes as `SecureWorker._Internal`.
- `uuid.v4` returns an id that no counter has.

## Not modelled, and why

- `getRemoteAttestation` after its first two lines, which cannot be reached (see above).
- Sealing, reports, trusted time, quotes and the platform's counters: one call into SGX each, with a check of the sizes of the arguments; neither the addon nor the enclave keeps state of them.
- The scripts table: `look_up_script` returns the first entry with the key, and two files with one base name make the assembler fail, so a table has no duplicates.
- The mock's `terminate` and `close` do nothing, and the enclave's `close` and `getName` throw "Not implemented".
- Logging, JSON, the content of messages; build files; `lib/index.js`, a `try` and a fallback.
- The vendored engine: three copies of Duktape with its tests and tools are almost all of the repository's lines. The project's own code is about 2400 lines (`lib`, `enclave-autoexec`, `duk_enclave`, `node-secureworker-internal`), of which the modules stand for about half; most of the other half are the natives listed above and argument checks.
- `digest` and `getRandomValues` (one call handed on), `additionalData`, and calls of `crypto.subtle` that throw at once for an unsupported curve, hash, length or algorithm; `usages` and `extractable`, which the code stores and never reads.
- In `ImportScripts`, the framework's own script as an import: it replaces both lists. What that does to messages is in `Enclave`.
- A function passed to one of the mock's two `removeOnMessage` (`lib/mock.js:57`, `185`) that was never registered: the code throws where the real worker and the enclave do nothing. Caught, the exception changes nothing; uncaught, it is one of the endings that the modules have for the code that runs.
- In `WebCrypto`, the optional parameters of RFC 5915, which `index.js` does not expect either (`enclave-autoexec/index.js:356-358`); and AES-GCM ciphertexts other than the last one made, which `Decrypt` tries under every key and vector.

## Plan

Done: `MessagePort` → `Enclave`, `ImportScripts` → `RealWorker` (with `Channel`) → `MockWorker` →
`WebCrypto` → `SecureWorkerInternal` → `MonotonicCounters` (with `CounterService`); proofs of all
of them. Next, in this order:

1. Two generations of the framework's lists in `ImportScripts`, with `ListsMatchStack` and
   `ImportedOnce` for each of them.
2. `RealWorker`'s calls of the addon as steps of `SecureWorkerInternal`.

------------------------ MODULE SecureWorkerInternal ------------------------
(***************************************************************************)
(* The native addon: every SecureWorkerInternal object of a process, on    *)
(* Node's one thread (node-secureworker-internal/secureworker-internal.cc).*)
(*                                                                         *)
(* An ECALL blocks the thread until the enclave returns, but the enclave   *)
(* may make the OCALL duk_enclave_post_message, which calls JavaScript,    *)
(* which may call the addon again, for another worker.  `calls' is that    *)
(* stack of nested calls, bottom first.  A method that enters an enclave   *)
(* keeps an entry_info on it; `thread_entry' points to the current one (an *)
(* index into `calls', 0 for nullptr), and an OCALL, which is told nothing *)
(* but the message, finds its worker through it.                           *)
(*                                                                         *)
(* Which object may be used is decided three times over: by the enclave id *)
(* it caches, by its `destroyed' flag, and by the garbage collector, whose *)
(* finalizer runs the destructor.  SGX fails when the code's checks of its *)
(* statuses say it may.  What an enclave does in an ECALL is the subject   *)
(* of Enclave; a call that throws before it changes anything is no step.   *)
(*                                                                         *)
(* NoPrevious, PopToNull, BottomEntrant, KeepId and NeverFreed are faulty  *)
(* variants of the operator after them; no action uses them.               *)
(***************************************************************************)
EXTENDS Naturals, Sequences, SequencesExt

CONSTANTS
  Worker,   \* the objects the application constructs
  MaxDepth  \* bound: calls on the stack

ASSUME InternalAssumption == MaxDepth \in Nat

VARIABLES
  object,             \* per worker: "unused", "live" (constructed and wrapped),
                      \* "failed" (its constructor threw), or "collected"
  enclave_id,         \* per worker, 0 for none
  destroyed,          \* per worker
  handlePostMessage,  \* per worker: it is a function
  calls,              \* the stack of native methods and of handlers they call
  thread_entry,       \* the current entry_info
  created,            \* number of enclaves SGX has loaded, ever
  loaded,             \* the enclaves it has not destroyed
  crashed,            \* those no ECALL enters any more
  refused,            \* history: enclaves it failed to destroy
  blocked             \* the thread waits for an ECALL of its own to end

objectVars == <<object, enclave_id, destroyed, handlePostMessage>>
stackVars == <<calls, thread_entry>>
sgxVars == <<created, loaded, crashed, refused, blocked>>
internalVars == <<objectVars, stackVars, sgxVars>>

EntryMethods == {"init", "close", "emitMessage", "bootstrapMock"}

\* `self' is the object the method or the handler is called on; `enclave' the
\* one the method entered, or the one whose OCALL the handler serves.
Frame == [method : EntryMethods \cup {"handler"}, self : Worker, enclave : Nat,
          previous : Nat]

InternalInit ==
  /\ object = [w \in Worker |-> "unused"]
  /\ enclave_id = [w \in Worker |-> 0]
  /\ destroyed = [w \in Worker |-> FALSE]
  /\ handlePostMessage = [w \in Worker |-> FALSE]
  /\ calls = <<>> /\ thread_entry = 0
  /\ created = 0 /\ loaded = {} /\ crashed = {} /\ refused = {}
  /\ blocked = FALSE

Top == calls[Len(calls)]

\* JavaScript runs: in a turn of the event loop, or as a handler.
NodeRuns == ~blocked /\ (calls # <<>> => Top.method = "handler")

\* The enclave of the topmost method runs.
EnclaveRuns == ~blocked /\ calls # <<>> /\ Top.method # "handler"

OnStack(w) == \E i \in DOMAIN calls : calls[i].self = w

Entered(e) == \E i \in DOMAIN calls : calls[i].enclave = e

-----------------------------------------------------------------------------
(***************************************************************************)
(* SGX, as far as the addon can tell.  There is no ECALL into an enclave   *)
(* that crashed or was destroyed, nor from an OCALL back into the enclave  *)
(* it came from: no OCALL of duk_enclave.edl allows one.                   *)
(***************************************************************************)
CanEnter(e) == e \in loaded \ crashed /\ ~Entered(e)

\* sgx_destroy_enclave: done, or an error (the only outcome for an id that
\* names no enclave); it waits for the ECALLs of the enclave first.
SgxDestroyed(e) ==
  /\ e \in loaded /\ ~Entered(e)
  /\ loaded' = loaded \ {e}
  /\ UNCHANGED <<created, crashed, refused, blocked>>

SgxRefuses(e) ==
  /\ ~Entered(e)
  /\ refused' = refused \cup (loaded \cap {e})
  /\ UNCHANGED <<created, loaded, crashed, blocked>>

SgxWaits(e) ==
  /\ Entered(e)
  /\ blocked' = TRUE
  /\ UNCHANGED <<created, loaded, crashed, refused>>

-----------------------------------------------------------------------------
(***************************************************************************)
(* The constructor.  Its entry_info comes and goes within the step.  When  *)
(* sgx_create_enclave fails, nothing is wrapped.                           *)
(***************************************************************************)
New(w) ==
  /\ NodeRuns /\ object[w] = "unused"
  /\ \/ /\ object' = [object EXCEPT ![w] = "live"]
        /\ enclave_id' = [enclave_id EXCEPT ![w] = created + 1]
        /\ created' = created + 1
        /\ loaded' = loaded \cup {created + 1}
     \/ /\ object' = [object EXCEPT ![w] = "failed"]
        /\ UNCHANGED <<enclave_id, created, loaded>>
  /\ UNCHANGED <<destroyed, handlePostMessage, stackVars, crashed, refused, blocked>>

\* The application sets or clears the property.
SetHandler(w) ==
  /\ NodeRuns /\ object[w] = "live"
  /\ \E set \in BOOLEAN : handlePostMessage' = [handlePostMessage EXCEPT ![w] = set]
  /\ UNCHANGED <<object, enclave_id, destroyed, stackVars, sgxVars>>

NoPrevious(method, w) ==
  /\ calls' = Append(calls, [method |-> method, self |-> w,
                             enclave |-> enclave_id[w]])
  /\ thread_entry' = Len(calls) + 1

\* The constructor of entry_info.
PushEntry(method, w) ==
  /\ calls' = Append(calls, [method |-> method, self |-> w,
                             enclave |-> enclave_id[w], previous |-> thread_entry])
  /\ thread_entry' = Len(calls) + 1

\* A method that enters the enclave; a refusal throws and changes nothing.
Ecall(method, w) ==
  /\ NodeRuns /\ object[w] = "live"
  /\ CanEnter(enclave_id[w])
  /\ PushEntry(method, w)
  /\ UNCHANGED <<objectVars, sgxVars>>

Init(w) == Ecall("init", w)
Close(w) == Ecall("close", w)
EmitMessage(w) == Ecall("emitMessage", w)
BootstrapMock(w) == Ecall("bootstrapMock", w)

PopToNull == thread_entry' = 0

\* The destructor of entry_info, after a return and after a throw.
PopEntry == thread_entry' = Top.previous

\* The ECALL returns, or ends in a crash and the method throws.
EcallEnds ==
  /\ EnclaveRuns
  /\ calls' = Front(calls)
  /\ PopEntry
  /\ crashed' \in {crashed, crashed \cup {Top.enclave}}
  /\ UNCHANGED <<objectVars, created, loaded, refused, blocked>>

-----------------------------------------------------------------------------
BottomEntrant == calls[1].self

\* The object duk_enclave_post_message takes the handler from.
Entrant == calls[thread_entry].self

\* Every ECALL but bootstrap_mock runs code that may post (close runs the
\* heap's finalizers).  Without a handler the message is dropped.
PostMessage ==
  /\ EnclaveRuns /\ Top.method # "bootstrapMock"
  /\ handlePostMessage[Entrant]
  /\ calls' = Append(calls, [method |-> "handler", self |-> Entrant,
                             enclave |-> Top.enclave, previous |-> 0])
  /\ UNCHANGED <<objectVars, thread_entry, sgxVars>>

\* The handler returns or throws: FromMaybe takes either for an answer.
HandlerEnds ==
  /\ ~blocked /\ calls # <<>> /\ Top.method = "handler"
  /\ calls' = Front(calls)
  /\ UNCHANGED <<objectVars, thread_entry, sgxVars>>

-----------------------------------------------------------------------------
KeepId(w) == UNCHANGED enclave_id

ClearId(w) == enclave_id' = [enclave_id EXCEPT ![w] = 0]

\* destroy(): the flag is set before SGX is asked; after a failure the id is
\* kept, and destroy() can be called again.
Destroy(w) ==
  /\ NodeRuns /\ object[w] = "live"
  /\ destroyed' = [destroyed EXCEPT ![w] = TRUE]
  /\ \/ SgxDestroyed(enclave_id[w]) /\ ClearId(w)
     \/ (SgxRefuses(enclave_id[w]) \/ SgxWaits(enclave_id[w])) /\ UNCHANGED enclave_id
  /\ UNCHANGED <<object, handlePostMessage, stackVars>>

NeverFreed(w) == FALSE

FreesEnclave(w) == ~destroyed[w]

\* The garbage collector finds the object unreachable and its wrapper deletes
\* it; the destructor ignores the status.
Collect(w) ==
  /\ NodeRuns /\ object[w] = "live" /\ ~OnStack(w)
  /\ object' = [object EXCEPT ![w] = "collected"]
  /\ IF FreesEnclave(w)
       THEN \/ SgxDestroyed(enclave_id[w]) \/ SgxRefuses(enclave_id[w])
            \/ SgxWaits(enclave_id[w])
       ELSE UNCHANGED sgxVars
  /\ ClearId(w)
  /\ UNCHANGED <<destroyed, handlePostMessage, stackVars>>

InternalNext ==
  \/ \E w \in Worker :
       \/ New(w) \/ SetHandler(w) \/ Destroy(w) \/ Collect(w)
       \/ /\ Len(calls) < MaxDepth
          /\ Init(w) \/ Close(w) \/ EmitMessage(w) \/ BootstrapMock(w)
  \/ Len(calls) < MaxDepth /\ PostMessage
  \/ EcallEnds \/ HandlerEnds

InternalSpec == InternalInit /\ [][InternalNext]_internalVars

-----------------------------------------------------------------------------
\* Properties.

\* The type of every variable of the addon.
InternalTypeOK ==
  /\ object \in [Worker -> {"unused", "live", "failed", "collected"}]
  /\ enclave_id \in [Worker -> Nat]
  /\ destroyed \in [Worker -> BOOLEAN]
  /\ handlePostMessage \in [Worker -> BOOLEAN]
  /\ calls \in Seq(Frame) /\ thread_entry \in Nat
  /\ created \in Nat
  /\ {loaded, crashed, refused} \subseteq SUBSET (1..created)
  /\ blocked \in BOOLEAN

(***************************************************************************)
(* What an enclave posts is handed to the object that holds that enclave,  *)
(* whatever other workers' ECALLs were entered and left, by returning or   *)
(* by throwing, since this one was entered, and the object still does so.  *)
(***************************************************************************)
OcallReachesItsWorker ==
  \A i \in DOMAIN calls :
    calls[i].method = "handler" =>
      /\ object[calls[i].self] = "live"
      /\ enclave_id[calls[i].self] = calls[i].enclave

(***************************************************************************)
(* The assertions of lines 33 and 434: an enclave that runs finds its own  *)
(* entry_info current, so there is one for its OCALLs, and the destructor  *)
(* removes the entry that its constructor added.  Nothing points into the  *)
(* stack when the thread is back in the event loop.                        *)
(***************************************************************************)
EntryIsOwn ==
  /\ EnclaveRuns => thread_entry = Len(calls)
  /\ calls = <<>> => thread_entry = 0

(***************************************************************************)
(* The id an object caches is never stale: it is 0 or names an enclave     *)
(* that exists and that no other object names; and an enclave that an      *)
(* ECALL has entered is not destroyed under it, neither by destroy() nor   *)
(* by the garbage collector.                                               *)
(***************************************************************************)
IdsAreCurrent ==
  /\ \A w \in Worker : enclave_id[w] # 0 => object[w] = "live" /\ enclave_id[w] \in loaded
  /\ \A v, w \in Worker : v # w /\ enclave_id[v] = enclave_id[w] => enclave_id[v] = 0
  /\ \A i \in DOMAIN calls : calls[i].enclave \in loaded

(***************************************************************************)
(* An enclave stays loaded only while a live object answers for it, unless *)
(* SGX itself failed to destroy it.  One that destroy() failed for is the  *)
(* application's to destroy again: the destructor has given it up.         *)
(***************************************************************************)
NothingLeaked ==
  \A e \in loaded \ refused :
    \E w \in Worker : /\ object[w] = "live" /\ enclave_id[w] = e
                      /\ blocked \/ ~destroyed[w]
=============================================================================

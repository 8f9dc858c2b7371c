--------------------------- MODULE ImportScripts ---------------------------
(***************************************************************************)
(* SecureWorker.importScripts inside: enclave-autoexec/index.js (`mock' is *)
(* FALSE) and its twin in lib/mock.js (TRUE).  It evaluates a script in    *)
(* the middle of the script that calls it, so the two lists that decide    *)
(* what to skip are read and written by calls nested in one another, over  *)
(* import graphs with cycles and scripts that fail.                        *)
(*                                                                         *)
(* `stack' has a frame for each script under evaluation, the main script   *)
(* first; `pending' are the arguments its call of importScripts still has  *)
(* to treat (the first is the one under evaluation in the next frame).     *)
(*                                                                         *)
(* SkippedWhenImported, MarkArguments and NotUndone are faulty variants of *)
(* the operator after them; no action uses them.                           *)
(***************************************************************************)
EXTENDS Naturals, Sequences, SequencesExt

CONSTANTS
  Key,      \* content keys
  Main,     \* the key the worker was created with
  Stored,   \* the keys a script is stored under
  MaxArgs   \* bound: arguments of one call

ASSUME ImportAssumption ==
  /\ Stored \subseteq Key /\ Main \in Stored
  /\ MaxArgs \in Nat

VARIABLES
  mock,                    \* which of the two implementations runs
  alreadyImportedScripts,  \* the list, as a set
  beingImportedScripts,    \* the list, as a set
  stack,                   \* scripts under evaluation
  loads                    \* per key, evaluations that have not failed

importVars == <<mock, alreadyImportedScripts, beingImportedScripts, stack, loads>>

Frame == [script : Key, pending : Seq(Key)]

\* The mock's list starts with the main script, the enclave's is empty.
ImportedAtFirst == IF mock THEN {Main} ELSE {}

ImportInit ==
  /\ mock \in BOOLEAN
  /\ alreadyImportedScripts = ImportedAtFirst
  /\ beingImportedScripts = {}
  /\ stack = << [script |-> Main, pending |-> <<>>] >>
  /\ loads = [k \in Key |-> IF k = Main THEN 1 ELSE 0]

Top == stack[Len(stack)]

WithPending(s, p) == [s EXCEPT ![Len(s)].pending = p]

SkippedWhenImported(k) == k \in alreadyImportedScripts

\* The two tests at the head of the loop.
Skipped(k) == k \in alreadyImportedScripts \/ k \in beingImportedScripts

\* Code of the topmost script, or a handler or task after it, calls in.
Import(args) ==
  /\ Top.pending = <<>>
  /\ stack' = WithPending(stack, args)
  /\ UNCHANGED <<alreadyImportedScripts, beingImportedScripts, loads>>

SkipKey ==
  /\ Top.pending # <<>> /\ Skipped(Head(Top.pending))
  /\ stack' = WithPending(stack, Tail(Top.pending))
  /\ UNCHANGED <<alreadyImportedScripts, beingImportedScripts, loads>>

MarkArguments(k) == beingImportedScripts \cup {Top.pending}

MarkBeing(k) == beingImportedScripts \cup {k}

LoadKey ==
  LET k == Head(Top.pending) IN
    /\ Top.pending # <<>> /\ ~Skipped(k) /\ k \in Stored
    /\ beingImportedScripts' = MarkBeing(k)
    /\ stack' = Append(stack, [script |-> k, pending |-> <<>>])
    /\ loads' = [loads EXCEPT ![k] = @ + 1]
    /\ UNCHANGED alreadyImportedScripts

(***************************************************************************)
(* What an error does to the call: the framework's catch block reports it  *)
(* and the loop goes on, but reading the stack of a thrown null throws     *)
(* again; the mock has no catch block.                                     *)
(***************************************************************************)
AfterError(pending, null) == IF mock \/ null THEN <<>> ELSE Tail(pending)

\* No script under the key: the finally block undoes the mark.
MissingKey ==
  LET k == Head(Top.pending) IN
    /\ Top.pending # <<>> /\ ~Skipped(k) /\ k \notin Stored
    /\ stack' = WithPending(stack, AfterError(Top.pending, FALSE))
    /\ UNCHANGED <<alreadyImportedScripts, beingImportedScripts, loads>>

Imported == Top.pending = <<>> /\ Len(stack) > 1

Importer == Front(stack)

Unmark(k) == beingImportedScripts \ {k}

ScriptReturns ==
  /\ Imported
  /\ alreadyImportedScripts' = alreadyImportedScripts \cup {Top.script}
  /\ beingImportedScripts' = Unmark(Top.script)
  /\ stack' = WithPending(Importer, Tail(Last(Importer).pending))
  /\ UNCHANGED loads

NotUndone(null) ==
  /\ Imported
  /\ stack' = WithPending(Importer, AfterError(Last(Importer).pending, null))
  /\ loads' = [loads EXCEPT ![Top.script] = @ - 1]
  /\ UNCHANGED <<alreadyImportedScripts, beingImportedScripts>>

ScriptThrows(null) ==
  /\ Imported
  /\ beingImportedScripts' = Unmark(Top.script)
  /\ stack' = WithPending(Importer, AfterError(Last(Importer).pending, null))
  /\ loads' = [loads EXCEPT ![Top.script] = @ - 1]
  /\ UNCHANGED alreadyImportedScripts

Arguments == UNION {[1..n -> Key] : n \in 1..MaxArgs}

ImportStep ==
  \/ \E args \in Arguments : Import(args)
  \/ SkipKey \/ LoadKey \/ MissingKey \/ ScriptReturns
  \/ \E null \in BOOLEAN : ScriptThrows(null)

ImportNext == ImportStep /\ UNCHANGED mock

ImportSpec == ImportInit /\ [][ImportNext]_importVars

-----------------------------------------------------------------------------
\* Properties.

\* The type of every variable of importScripts.
ImportTypeOK ==
  /\ mock \in BOOLEAN
  /\ alreadyImportedScripts \subseteq Key
  /\ beingImportedScripts \subseteq Key
  /\ stack \in Seq(Frame) /\ stack # <<>>
  /\ loads \in [Key -> Nat]

(***************************************************************************)
(* However scripts import one another and fail, a key is loaded once: a    *)
(* second evaluation starts only when the first has failed.  That includes *)
(* the main script, which init loads, in the mock, whose list starts with  *)
(* it, but not in the enclave (see LoadedOnce).                            *)
(***************************************************************************)
ImportedOnce == \A k \in Key : (k = Main => mock) => loads[k] <= 1

(***************************************************************************)
(* lib/mock.js: "SecureWorker.importScripts assures that the script is     *)
(* loaded only once for a given content key", the main script included.    *)
(***************************************************************************)
LoadedOnce == \A k \in Key : loads[k] <= 1

(***************************************************************************)
(* The lists tell the truth at every moment: the keys marked as being      *)
(* imported are those of the imported scripts on the stack, each on it     *)
(* once, so cycles end; and an imported key is not being imported.         *)
(* After a failure a key is in neither list and can be tried again.        *)
(***************************************************************************)
ListsMatchStack ==
  /\ \A k \in Key : k \in beingImportedScripts <=>
                      \E i \in 2..Len(stack) : stack[i].script = k
  /\ \A i, j \in 2..Len(stack) : i # j => stack[i].script # stack[j].script
  /\ beingImportedScripts \cap alreadyImportedScripts = {}

(***************************************************************************)
(* The key whose evaluation a frame waits for is the script of the next    *)
(* frame: an import that ends continues the call that asked for it.        *)
(***************************************************************************)
NextFrameIsAwaited ==
  \A i \in 1..(Len(stack) - 1) :
    stack[i].pending # <<>> /\ Head(stack[i].pending) = stack[i + 1].script
=============================================================================

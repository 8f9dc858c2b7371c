--------------------------- MODULE Enclave_proofs ---------------------------
(***************************************************************************)
(* Theorems of Enclave for every set of handlers and every bound.          *)
(***************************************************************************)
EXTENDS Enclave, SequenceTheorems, TLAPS

(***************************************************************************)
(* The inductive invariant.  The loops keep their place: tasks are counted *)
(* on across the two sequences, and emitMessage has called exactly the     *)
(* handlers before its index.  Code runs in an active enclave, finalizers  *)
(* of close in a closed one.                                               *)
(***************************************************************************)
RunningIsAlive == pc # "idle" => crashed = "no"

RunsInState ==
  /\ pc = "finalize" => state = "CLOSED"
  /\ pc \notin {"idle", "finalize"} => state = "ACTIVE"

TasksCounted ==
  /\ Len(ran) + Len(microtasks) = scheduled
  /\ \A i \in 1..Len(ran) : ran[i] = i
  /\ \A i \in 1..Len(microtasks) : microtasks[i] = Len(ran) + i

CalledInOrder ==
  /\ Len(called) <= Len(atEntry)
  /\ \A i \in 1..Len(called) : called[i] = atEntry[i]

LoopHasItsPlace ==
  pc \in {"dispatch", "handler"} =>
    /\ snapshot = atEntry /\ ~escaped
    /\ index <= Len(snapshot) + (IF pc = "dispatch" THEN 1 ELSE 0)
    /\ Len(called) = index - (IF pc = "dispatch" THEN 1 ELSE 0)

AllCalled ==
  crashed = "no" /\ pc \notin {"dispatch", "handler"} /\ ~escaped
    => Len(called) = Len(atEntry)

LifeInv == ResourcesMatchState /\ RunningIsAlive /\ RunsInState
TaskInv == TasksCounted /\ TasksDrained
EmitInv == CalledInOrder /\ LoopHasItsPlace /\ AllCalled

EnclaveInv == EnclaveTypeOK /\ LifeInv /\ TaskInv /\ EmitInv

-----------------------------------------------------------------------------
\* The element that RemoveAt drops leaves a sequence over the same set.
LEMMA RemoveAtType ==
  ASSUME NEW S, NEW s \in Seq(S), NEW i \in DOMAIN s
  PROVE  RemoveAt(s, i) \in Seq(S)
<1>1. Len(s) \in Nat /\ DOMAIN s = 1..Len(s) /\ \A j \in 1..Len(s) : s[j] \in S
  BY LenProperties, ElementOfSeq
<1>2. i - 1 \in Int /\ i + 1 \in Int /\ 1 \in Int /\ Len(s) \in Int
  BY <1>1
<1>3. SubSeq(s, 1, i - 1) \in Seq(S)
  <2>1. \A j \in 1..(i - 1) : s[j] \in S BY <1>1
  <2> QED BY <1>2, <2>1, SubSeqProperties
<1>4. SubSeq(s, i + 1, Len(s)) \in Seq(S)
  <2>1. \A j \in (i + 1)..Len(s) : s[j] \in S BY <1>1
  <2> QED BY <1>2, <2>1, SubSeqProperties
<1> QED BY <1>3, <1>4, ConcatProperties DEF RemoveAt

\* Whatever application code calls, the framework's loops stay where they
\* are, and only the handler list and the microtask queue change.
LEMMA AppCallKeeps ==
  ASSUME AppCall
  PROVE  /\ pc \in AppCode
         /\ UNCHANGED <<lifeVars, crashed, pc, valstack, emitVars, ran>>
         /\ UNCHANGED <<microtasks, scheduled>> \/ NextTick
  BY DEF AppCall, OnMessage, RemoveOnMessage, ImportFramework, NextTick, PostMessage

\* The invariant holds at the start.
LEMMA InvariantAtStart == EnclaveInit => EnclaveInv
<1> SUFFICES ASSUME EnclaveInit PROVE EnclaveInv OBVIOUS
<1> USE DEF EnclaveInit
<1>1. EnclaveTypeOK
  <2>1. heap \in BOOLEAN /\ escaped \in BOOLEAN OBVIOUS
  <2>2. <<>> \in Seq(Handler) /\ <<>> \in Seq(Nat) BY EmptySeq
  <2> QED BY <2>1, <2>2 DEF EnclaveTypeOK, States, AppCode, Aborts
<1>2. LifeInv
  BY DEF LifeInv, ResourcesMatchState, Opened, RunningIsAlive, RunsInState
<1>3. TaskInv BY EmptySeq DEF TaskInv, TasksCounted, TasksDrained
<1>4. EmitInv BY EmptySeq DEF EmitInv, CalledInOrder, LoopHasItsPlace, AllCalled
<1> QED BY <1>1, <1>2, <1>3, <1>4 DEF EnclaveInv

-----------------------------------------------------------------------------
(***************************************************************************)
(* Types.  The counters pse and ra stay within 0 and 1 only because the    *)
(* resources match the state when an ECALL enters.                         *)
(***************************************************************************)
LEMMA TypesKept == EnclaveInv /\ [EnclaveNext]_enclaveVars => EnclaveTypeOK'
<1> SUFFICES ASSUME EnclaveInv, [EnclaveNext]_enclaveVars PROVE EnclaveTypeOK'
  OBVIOUS
<1>0. EnclaveTypeOK /\ ResourcesMatchState /\ RunningIsAlive
  BY DEF EnclaveInv, LifeInv
<1> USE DEF States, AppCode, Aborts, lifeVars, jsVars, emitVars, Opened
<1>1. CASE EcallInit
  <2>1. heap' \in BOOLEAN BY <1>0, <1>1 DEF EnclaveTypeOK, EcallInit
  <2>2. pse = 0 BY <1>0, <1>1 DEF ResourcesMatchState, EcallInit, Enter
  <2> QED BY <1>0, <1>1, <2>1, <2>2 DEF EnclaveTypeOK, EcallInit, Abort
<1>2. CASE EcallClose BY <1>0, <1>2 DEF EnclaveTypeOK, EcallClose, SetClosed
<1>3. CASE EcallInitRA
  BY <1>0, <1>3 DEF EnclaveTypeOK, ResourcesMatchState, EcallInitRA, Enter, Abort
<1>4. CASE EcallBootstrapRA
  BY <1>0, <1>4 DEF EnclaveTypeOK, ResourcesMatchState, EcallBootstrapRA, Enter,
     Abort, SetClosed
<1>5. CASE EcallBootstrapMock
  BY <1>0, <1>5 DEF EnclaveTypeOK, ResourcesMatchState, EcallBootstrapMock, Enter,
     SetClosed
<1>6. CASE EcallEmit(Len(emitted) + 1)
  <2>1. Len(emitted) + 1 \in Nat BY <1>0, LenProperties DEF EnclaveTypeOK
  <2>2. emitted' \in Seq(Nat)
    BY <1>0, <1>6, <2>1, AppendProperties DEF EnclaveTypeOK, EcallEmit
  <2>3. called' \in Seq(Handler) /\ escaped' \in BOOLEAN
    BY <1>6, EmptySeq DEF EcallEmit
  <2>4. snapshot' = messageHandlers /\ atEntry' = messageHandlers /\ index' = 1
        /\ pc' = "dispatch" /\ UNCHANGED <<lifeVars, crashed, valstack, jsVars, ran>>
    BY <1>6 DEF EcallEmit
  <2> QED BY <1>0, <2>2, <2>3, <2>4 DEF EnclaveTypeOK
<1>7. ASSUME NEW expected, WrongState(expected) PROVE EnclaveTypeOK'
  BY <1>0, <1>7 DEF EnclaveTypeOK, WrongState, Abort
<1>8. CASE ScriptEnds BY <1>0, <1>8 DEF EnclaveTypeOK, ScriptEnds
<1>9. CASE DispatchNext
  <2>1. snapshot[index] \in Handler
    BY <1>0, <1>9, ElementOfSeq DEF EnclaveTypeOK, DispatchNext, HandlersToCall
  <2>2. called' \in Seq(Handler)
    BY <1>0, <1>9, <2>1, AppendProperties
    DEF EnclaveTypeOK, DispatchNext, HandlersToCall
  <2> QED BY <1>0, <1>9, <2>2 DEF EnclaveTypeOK, DispatchNext
<1>10. CASE HandlerEnds BY <1>0, <1>10 DEF EnclaveTypeOK, HandlerEnds
<1>11. CASE HandlerThrowsNull
  BY <1>0, <1>11 DEF EnclaveTypeOK, HandlerThrowsNull, AfterEmitCall
<1>12. CASE DispatchDone
  BY <1>0, <1>12 DEF EnclaveTypeOK, DispatchDone, AfterEmitCall
<1>13. CASE SpinNext
  <2>1. Head(microtasks) \in Nat /\ microtasks' \in Seq(Nat)
    BY <1>0, <1>13, HeadTailProperties DEF EnclaveTypeOK, SpinNext, ShiftTask
  <2>2. ran' \in Seq(Nat)
    BY <1>0, <1>13, <2>1, AppendProperties DEF EnclaveTypeOK, SpinNext, ShiftTask
  <2> QED BY <1>0, <1>13, <2>1, <2>2 DEF EnclaveTypeOK, SpinNext
<1>14. CASE TaskEnds BY <1>0, <1>14 DEF EnclaveTypeOK, TaskEnds
<1>15. CASE SpinDone BY <1>0, <1>15 DEF EnclaveTypeOK, SpinDone, AfterSpin
<1>16. ASSUME NEW h \in Handler, OnMessage(h) PROVE EnclaveTypeOK'
  <2>1. messageHandlers' \in Seq(Handler)
    BY <1>0, <1>16, AppendProperties DEF EnclaveTypeOK, OnMessage
  <2> QED BY <1>0, <1>16, <2>1 DEF EnclaveTypeOK, OnMessage
<1>17. ASSUME NEW h \in Handler, RemoveOnMessage(h) PROVE EnclaveTypeOK'
  <2>1. messageHandlers' \in Seq(Handler)
    BY <1>0, <1>17, RemoveAtType DEF EnclaveTypeOK, RemoveOnMessage
  <2> QED BY <1>0, <1>17, <2>1 DEF EnclaveTypeOK, RemoveOnMessage
<1>18. CASE NextTick
  <2>1. scheduled + 1 \in Nat BY <1>0 DEF EnclaveTypeOK
  <2>2. microtasks' \in Seq(Nat)
    BY <1>0, <1>18, <2>1, AppendProperties DEF EnclaveTypeOK, NextTick
  <2> QED BY <1>0, <1>18, <2>1, <2>2 DEF EnclaveTypeOK, NextTick
<1>19. CASE PostMessage BY <1>0, <1>19 DEF EnclaveTypeOK, PostMessage
<1>20. CASE Fatal BY <1>0, <1>20 DEF EnclaveTypeOK, Fatal, Abort
<1>21. CASE UNCHANGED enclaveVars BY <1>0, <1>21 DEF EnclaveTypeOK, enclaveVars
<1>23. CASE CloseReturns
  <2>1. heap' \in BOOLEAN BY <1>23 DEF CloseReturns
  <2>2. pse = 1
    BY <1>0, <1>23 DEF ResourcesMatchState, RunningIsAlive, CloseReturns
  <2> QED BY <1>0, <1>23, <2>1, <2>2
          DEF EnclaveTypeOK, CloseReturns, Abort, CloseSession
<1>22. CASE ImportFramework
  <2>1. messageHandlers' \in Seq(Handler)
    BY <1>22, EmptySeq DEF ImportFramework
  <2> QED BY <1>0, <1>22, <2>1 DEF EnclaveTypeOK, ImportFramework
<1> QED
  BY <1>1, <1>2, <1>3, <1>4, <1>5, <1>6, <1>7, <1>8, <1>9, <1>10, <1>11, <1>12,
     <1>13, <1>14, <1>15, <1>16, <1>17, <1>18, <1>19, <1>20, <1>21, <1>22,
     <1>23
  DEF EnclaveNext, Ecall, Returns, CodeReturns, AppCall

(***************************************************************************)
(* Resources.  Only ECALLs touch them when they enter, and close when its  *)
(* finalizers have run.                                                    *)
(***************************************************************************)
\* Code that init and emit_message run stays inside until spin_microtasks
\* ends, and never touches what the enclave owns.
LEMMA CodeReturnsKeeps ==
  ASSUME CodeReturns
  PROVE  /\ UNCHANGED <<lifeVars, crashed>>
         /\ pc \notin {"idle", "finalize"} /\ pc' # "finalize"
  BY DEF CodeReturns, ScriptEnds, DispatchNext, HandlerEnds, HandlerThrowsNull,
     DispatchDone, SpinNext, TaskEnds, SpinDone

LEMMA LifeKept == EnclaveInv /\ [EnclaveNext]_enclaveVars => LifeInv'
<1> SUFFICES ASSUME EnclaveInv, [EnclaveNext]_enclaveVars PROVE LifeInv'
  OBVIOUS
<1>0. EnclaveTypeOK /\ ResourcesMatchState /\ RunningIsAlive /\ RunsInState
  BY DEF EnclaveInv, LifeInv
<1> USE DEF LifeInv, ResourcesMatchState, Opened, RunningIsAlive, RunsInState,
            lifeVars
<1>1. CASE EcallInit BY <1>0, <1>1 DEF EcallInit, Enter, Abort
<1>2. CASE EcallClose
  BY <1>0, <1>2 DEF EcallClose, Enter, SetClosed
<1>3. CASE EcallInitRA BY <1>0, <1>3 DEF EcallInitRA, Enter, Abort
<1>4. CASE EcallBootstrapRA
  BY <1>0, <1>4 DEF EcallBootstrapRA, Enter, Abort, SetClosed
<1>5. CASE EcallBootstrapMock
  BY <1>0, <1>5 DEF EcallBootstrapMock, Enter, SetClosed
<1>6. CASE EcallEmit(Len(emitted) + 1) BY <1>0, <1>6 DEF EcallEmit, Enter
<1>7. ASSUME NEW expected, WrongState(expected) PROVE LifeInv'
  BY <1>0, <1>7 DEF WrongState, Abort, Aborts
<1>8. CASE CodeReturns BY <1>0, <1>8, CodeReturnsKeeps
<1>9. CASE AppCall
  <2>1. UNCHANGED <<lifeVars, crashed, pc>> BY <1>9, AppCallKeeps
  <2> QED BY <1>0, <2>1
<1>12. CASE CloseReturns
  BY <1>0, <1>12 DEF EnclaveTypeOK, CloseReturns, Abort, CloseSession
<1>10. CASE Fatal BY <1>0, <1>10 DEF Fatal, Abort
<1>11. CASE UNCHANGED enclaveVars BY <1>0, <1>11 DEF enclaveVars
<1> QED
  BY <1>1, <1>2, <1>3, <1>4, <1>5, <1>6, <1>7, <1>8, <1>9, <1>10, <1>11,
     <1>12
  DEF EnclaveNext, Ecall, Returns

-----------------------------------------------------------------------------
(***************************************************************************)
(* Tasks.  nextTick appends the next number; spin_microtasks moves the     *)
(* smallest one to the end of those that ran, and only it gives control    *)
(* back after application code, except for close's finalizers.             *)
(***************************************************************************)
LEMMA TasksKept == EnclaveInv /\ [EnclaveNext]_enclaveVars => TaskInv'
<1> SUFFICES ASSUME EnclaveInv, [EnclaveNext]_enclaveVars PROVE TaskInv'
  OBVIOUS
<1>0. /\ EnclaveTypeOK /\ TasksCounted /\ TasksDrained /\ RunningIsAlive
      /\ ran \in Seq(Nat) /\ microtasks \in Seq(Nat) /\ scheduled \in Nat
      /\ Len(ran) \in Nat /\ Len(microtasks) \in Nat
      /\ RunsInState
  BY LenProperties DEF EnclaveInv, LifeInv, TaskInv, EnclaveTypeOK
<1> USE DEF TaskInv, TasksCounted, TasksDrained
<1>1. CASE Ecall
  <2>1. /\ UNCHANGED <<ran, microtasks, scheduled>> /\ crashed = "no" /\ pc = "idle"
        /\ state # "CLOSED" \/ crashed' # "no"
    BY <1>1 DEF Ecall, EcallInit, EcallClose, EcallInitRA, EcallBootstrapRA,
       EcallBootstrapMock, EcallEmit, WrongState, Enter, Abort, States, jsVars
  <2> QED BY <1>0, <2>1
<1>2. CASE SpinNext
  <2>1. /\ ran' = Append(ran, Head(microtasks)) /\ microtasks' = Tail(microtasks)
        /\ microtasks # <<>> /\ scheduled' = scheduled /\ pc' = "task"
    BY <1>2 DEF SpinNext, ShiftTask
  <2>2. /\ Len(microtasks) \in Nat \ {0} /\ Head(microtasks) = Len(ran) + 1
        /\ Len(microtasks') = Len(microtasks) - 1
        /\ \A i \in 1..Len(microtasks') : microtasks'[i] = microtasks[i + 1]
    BY <1>0, <2>1, HeadTailProperties, EmptySeq
  <2>3. /\ Len(ran') = Len(ran) + 1 /\ ran'[Len(ran) + 1] = Len(ran) + 1
        /\ \A i \in 1..Len(ran) : ran'[i] = ran[i]
    BY <1>0, <2>1, <2>2, AppendProperties
  <2>4. \A i \in 1..Len(microtasks') : microtasks'[i] = Len(ran') + i
    BY <1>0, <2>2, <2>3
  <2>5. ASSUME NEW i \in 1..Len(ran') PROVE ran'[i] = i
    <3>1. i \in 1..Len(ran) \/ i = Len(ran) + 1 BY <1>0, <2>3
    <3> QED BY <1>0, <2>3, <3>1
  <2>6. Len(ran') + Len(microtasks') = scheduled'
    <3>1. Len(ran) + Len(microtasks) = scheduled BY <1>0
    <3>2. Len(ran) \in Nat /\ Len(microtasks) \in Nat BY <1>0
    <3>3. Len(ran') = Len(ran) + 1 BY <2>3
    <3>4. Len(microtasks') = Len(microtasks) - 1 BY <2>2
    <3>5. scheduled' = scheduled BY <2>1
    <3> HIDE DEF TaskInv, TasksCounted, TasksDrained
    <3> QED BY <3>1, <3>2, <3>3, <3>4, <3>5
  <2> QED BY <2>1, <2>4, <2>5, <2>6
<1>3. CASE SpinDone
  <2>1. UNCHANGED <<ran, microtasks, scheduled>> /\ microtasks = <<>>
    BY <1>3 DEF SpinDone, jsVars
  <2> QED BY <1>0, <2>1
<1>4. CASE ScriptEnds \/ DispatchNext \/ HandlerEnds \/ HandlerThrowsNull
           \/ DispatchDone \/ TaskEnds
  <2>1. UNCHANGED <<ran, microtasks, scheduled>> /\ pc' # "idle"
    BY <1>4 DEF ScriptEnds, DispatchNext, HandlerEnds, HandlerThrowsNull,
       DispatchDone, TaskEnds, jsVars
  <2> QED BY <1>0, <2>1
<1>5. CASE NextTick
  <2>1. /\ ran' = ran /\ scheduled' = scheduled + 1
        /\ microtasks' = Append(microtasks, scheduled + 1) /\ pc' # "idle"
    BY <1>5 DEF NextTick, AppCode
  <2>2. /\ Len(microtasks') = Len(microtasks) + 1
        /\ microtasks'[Len(microtasks) + 1] = scheduled + 1
        /\ \A i \in 1..Len(microtasks) : microtasks'[i] = microtasks[i]
    BY <1>0, <2>1, AppendProperties
  <2>3. ASSUME NEW i \in 1..Len(microtasks')
        PROVE  microtasks'[i] = Len(ran') + i
    <3>1. i \in 1..Len(microtasks) \/ i = Len(microtasks) + 1 BY <1>0, <2>2
    <3>2. scheduled + 1 = Len(ran) + (Len(microtasks) + 1)
      <4>1. Len(ran) + Len(microtasks) = scheduled BY <1>0
      <4>2. Len(ran) \in Nat /\ Len(microtasks) \in Nat BY <1>0
      <4> HIDE DEF TaskInv, TasksCounted, TasksDrained
      <4> QED BY <4>1, <4>2
    <3>3. ran' = ran BY <2>1
    <3>4. CASE i \in 1..Len(microtasks)
      <4>1. microtasks'[i] = microtasks[i] BY <2>2, <3>4
      <4>2. microtasks[i] = Len(ran) + i BY <1>0, <3>4
      <4> QED BY <3>3, <4>1, <4>2
    <3>5. CASE i = Len(microtasks) + 1 BY <2>2, <3>2, <3>3, <3>5
    <3> QED BY <3>1, <3>4, <3>5
  <2>4. Len(ran') + Len(microtasks') = scheduled' BY <1>0, <2>1, <2>2
  <2>5. \A i \in 1..Len(ran') : ran'[i] = i BY <1>0, <2>1
  <2> QED BY <2>1, <2>3, <2>4, <2>5
<1>6. CASE AppCall /\ ~NextTick
  <2>1. UNCHANGED <<ran, microtasks, scheduled>> /\ pc' # "idle"
    BY <1>6, AppCallKeeps DEF AppCode
  <2> QED BY <1>0, <2>1
<1>7. CASE Fatal
  <2>1. UNCHANGED <<ran, microtasks, scheduled>> /\ crashed' # "no"
    BY <1>7 DEF Fatal, Abort, jsVars
  <2> QED BY <1>0, <2>1
<1>8. CASE UNCHANGED enclaveVars BY <1>0, <1>8 DEF enclaveVars
<1>9. CASE CloseReturns
  <2>1. UNCHANGED <<ran, microtasks, scheduled>> /\ state' = "CLOSED"
    BY <1>0, <1>9 DEF CloseReturns, RunsInState, jsVars
  <2> QED BY <1>0, <2>1
<1> QED BY <1>1, <1>2, <1>3, <1>4, <1>5, <1>6, <1>7, <1>8, <1>9
        DEF EnclaveNext, Returns, CodeReturns, AppCall

-----------------------------------------------------------------------------
(***************************************************************************)
(* Messages.  emitMessage calls the handler at its index of the snapshot   *)
(* and leaves its loop at the end of it, or by an exception.               *)
(***************************************************************************)
LEMMA EmitKept == EnclaveInv /\ [EnclaveNext]_enclaveVars => EmitInv'
<1> SUFFICES ASSUME EnclaveInv, [EnclaveNext]_enclaveVars PROVE EmitInv'
  OBVIOUS
<1>0. /\ EnclaveTypeOK /\ EmitInv /\ RunningIsAlive /\ index \in Nat \ {0}
      /\ snapshot \in Seq(Handler) /\ called \in Seq(Handler)
      /\ atEntry \in Seq(Handler) /\ messageHandlers \in Seq(Handler)
      /\ Len(called) \in Nat /\ Len(atEntry) \in Nat /\ Len(messageHandlers) \in Nat
  BY LenProperties DEF EnclaveInv, LifeInv, EnclaveTypeOK
<1> USE DEF EmitInv, CalledInOrder, LoopHasItsPlace, AllCalled, AppCode, emitVars
<1>1. CASE EcallEmit(Len(emitted) + 1)
  BY <1>0, <1>1, EmptySeq DEF EcallEmit
<1>2. CASE Ecall /\ ~EcallEmit(Len(emitted) + 1)
  <2>1. /\ UNCHANGED emitVars /\ crashed = "no" /\ pc = "idle"
        /\ pc' \in {"idle", "script", "finalize"}
    BY <1>2 DEF Ecall, EcallInit, EcallClose, EcallInitRA, EcallBootstrapRA,
       EcallBootstrapMock, WrongState, Enter, Abort
  <2> QED BY <1>0, <2>1
<1>3. CASE DispatchNext
  <2>1. /\ pc = "dispatch" /\ pc' = "handler" /\ index <= Len(snapshot)
        /\ called' = Append(called, snapshot[index])
        /\ UNCHANGED <<crashed, snapshot, index, atEntry, escaped>>
    BY <1>3 DEF DispatchNext, HandlersToCall
  <2>2. snapshot = atEntry /\ Len(called) = index - 1 /\ snapshot[index] \in Handler
    BY <1>0, <2>1, ElementOfSeq
  <2>3. /\ Len(called') = index /\ called'[index] = atEntry[index]
        /\ \A i \in 1..Len(called) : called'[i] = called[i]
    BY <1>0, <2>1, <2>2, AppendProperties
  <2>4. ASSUME NEW i \in 1..Len(called') PROVE called'[i] = atEntry[i]
    <3>1. i \in 1..Len(called) \/ i = index BY <1>0, <2>2, <2>3
    <3>2. \A j \in 1..Len(called) : called[j] = atEntry[j] BY <1>0
    <3> QED BY <2>3, <3>1, <3>2
  <2>5. Len(called') <= Len(atEntry) BY <2>1, <2>2, <2>3
  <2> QED BY <1>0, <2>1, <2>2, <2>3, <2>4, <2>5
<1>4. CASE HandlerEnds BY <1>0, <1>4 DEF HandlerEnds
<1>5. CASE HandlerThrowsNull BY <1>0, <1>5 DEF HandlerThrowsNull
<1>6. CASE DispatchDone BY <1>0, <1>6 DEF DispatchDone, HandlersToCall
<1>7. CASE ScriptEnds \/ SpinNext \/ TaskEnds \/ SpinDone
  <2>1. /\ UNCHANGED <<emitVars, crashed>> /\ pc \in {"script", "spin", "task"}
        /\ pc' \in {"spin", "task", "idle"}
    BY <1>7 DEF ScriptEnds, SpinNext, TaskEnds, SpinDone
  <2> QED BY <1>0, <2>1
<1>8. CASE AppCall
  <2>1. UNCHANGED <<emitVars, crashed, pc>> BY <1>8, AppCallKeeps
  <2> QED BY <1>0, <2>1
<1>9. CASE Fatal BY <1>0, <1>9 DEF Fatal, Abort
<1>10. CASE UNCHANGED enclaveVars BY <1>0, <1>10 DEF enclaveVars
<1>11. CASE CloseReturns
  BY <1>0, <1>11 DEF CloseReturns, Abort
<1> QED BY <1>1, <1>2, <1>3, <1>4, <1>5, <1>6, <1>7, <1>8, <1>9, <1>10, <1>11
        DEF EnclaveNext, Returns, CodeReturns

-----------------------------------------------------------------------------
\* Every step of the enclave keeps its invariant.
LEMMA InvariantKept == EnclaveInv /\ [EnclaveNext]_enclaveVars => EnclaveInv'
BY TypesKept, LifeKept, TasksKept, EmitKept DEF EnclaveInv

(***************************************************************************)
(* The invariant holds in every state of the enclave, under a host that    *)
(* issues any ECALL at any time (duk_enclave.cpp, emitMessage).            *)
(***************************************************************************)
THEOREM EnclaveInvariant == EnclaveSpec => []EnclaveInv
BY InvariantAtStart, InvariantKept, PTL DEF EnclaveSpec

\* Every variable of the enclave keeps its type (duk_enclave.cpp:34-36, 611).
THEOREM EnclaveTypes == EnclaveSpec => []EnclaveTypeOK
<1>1. EnclaveInv => EnclaveTypeOK BY DEF EnclaveInv
<1> QED BY <1>1, EnclaveInvariant, PTL

(***************************************************************************)
(* Heap, PSE session and attestation context exist exactly in the state    *)
(* that owns them: no ECALL sequence leaks one or uses a released one.     *)
(***************************************************************************)
THEOREM EnclaveResources == EnclaveSpec => []ResourcesMatchState
<1>1. EnclaveInv => ResourcesMatchState BY DEF EnclaveInv, LifeInv
<1> QED BY <1>1, EnclaveInvariant, PTL

\* Between the ECALLs of a worker that is not closed no task waits: init and
\* emit_message end in spin_microtasks, and close alone leaves tasks behind.
THEOREM EnclaveDrained == EnclaveSpec => []TasksDrained
<1>1. EnclaveInv => TasksDrained BY DEF EnclaveInv, TaskInv
<1> QED BY <1>1, EnclaveInvariant, PTL

\* The two parts of the task list, one after the other, count up from 1.
LEMMA TasksFromInv == EnclaveInv => TasksInOrder
<1> SUFFICES ASSUME EnclaveInv PROVE TasksInOrder OBVIOUS
<1>1. /\ TasksCounted /\ ran \in Seq(Nat) /\ microtasks \in Seq(Nat)
      /\ Len(ran) \in Nat /\ Len(microtasks) \in Nat /\ scheduled \in Nat
  BY LenProperties DEF EnclaveInv, TaskInv, EnclaveTypeOK
<1>2. /\ ran \o microtasks \in Seq(Nat)
      /\ Len(ran \o microtasks) = scheduled
      /\ \A i \in 1..scheduled : (ran \o microtasks)[i] =
           IF i <= Len(ran) THEN ran[i] ELSE microtasks[i - Len(ran)]
  BY <1>1, ConcatProperties DEF TasksCounted
<1>3. \A i \in 1..scheduled : (ran \o microtasks)[i] = i
  <2> SUFFICES ASSUME NEW i \in 1..scheduled PROVE (ran \o microtasks)[i] = i
    OBVIOUS
  <2>1. CASE i <= Len(ran) BY <1>1, <1>2, <2>1 DEF TasksCounted
  <2>2. CASE ~(i <= Len(ran))
    <3>1. i - Len(ran) \in 1..Len(microtasks)
      BY <1>1, <2>2 DEF TasksCounted
    <3>2. microtasks[i - Len(ran)] = Len(ran) + (i - Len(ran))
      BY <1>1, <3>1 DEF TasksCounted
    <3> QED BY <1>1, <1>2, <2>2, <3>2
  <2> QED BY <2>1, <2>2
<1>4. ran \o microtasks \in [1..scheduled -> Nat] BY <1>2, LenProperties
<1> QED BY <1>3, <1>4 DEF TasksInOrder

\* Tasks run in the order of the nextTick calls, each once.
THEOREM EnclaveTasks == EnclaveSpec => []TasksInOrder
BY TasksFromInv, EnclaveInvariant, PTL

\* A list called up to its length is the list.
LEMMA SnapshotFromInv == EnclaveInv => SnapshotDelivered
<1> SUFFICES ASSUME EnclaveInv PROVE SnapshotDelivered OBVIOUS
<1>1. /\ CalledInOrder /\ AllCalled
      /\ called \in Seq(Handler) /\ atEntry \in Seq(Handler)
      /\ Len(called) \in Nat /\ Len(atEntry) \in Nat
  BY LenProperties DEF EnclaveInv, EmitInv, EnclaveTypeOK
<1> DEFINE n == Len(called)
<1>2. /\ \A i \in 1..n : called[i] \in Handler /\ atEntry[i] \in Handler
      /\ n \in Int /\ 1 \in Int
  BY <1>1, ElementOfSeq DEF CalledInOrder
<1>3. /\ SubSeq(called, 1, n) \in Seq(Handler)
      /\ Len(SubSeq(called, 1, n)) = n
      /\ \A i \in 1..n : SubSeq(called, 1, n)[i] = called[i]
  BY <1>1, <1>2, SubSeqProperties
<1>4. /\ SubSeq(atEntry, 1, n) \in Seq(Handler)
      /\ Len(SubSeq(atEntry, 1, n)) = n
      /\ \A i \in 1..n : SubSeq(atEntry, 1, n)[i] = atEntry[i]
  BY <1>1, <1>2, SubSeqProperties
<1>5. SubSeq(called, 1, n) = SubSeq(atEntry, 1, n)
  BY <1>1, <1>3, <1>4, SeqEqual DEF CalledInOrder
<1>6. IsPrefix(called, atEntry) BY <1>1, <1>5 DEF IsPrefix, CalledInOrder
<1>7. ASSUME Len(called) = Len(atEntry) PROVE called = atEntry
  BY <1>1, <1>7, SeqEqual DEF CalledInOrder
<1> QED BY <1>1, <1>6, <1>7 DEF SnapshotDelivered, AllCalled, AppCode

(***************************************************************************)
(* emitMessage hands a message to exactly the handlers of its snapshot, in *)
(* order, unless one throws null, however they change the list.            *)
(***************************************************************************)
THEOREM EnclaveSnapshot == EnclaveSpec => []SnapshotDelivered
BY SnapshotFromInv, EnclaveInvariant, PTL

(***************************************************************************)
(* No step brings the enclave back to a state it has left, and a crashed   *)
(* one takes none.                                                         *)
(***************************************************************************)
THEOREM EnclaveUsedOnce == EnclaveSpec => UsedOnce
<1>1. EnclaveInv /\ [EnclaveNext]_enclaveVars =>
        [state' \in Later(state) \cup {state} /\ crashed = "no"]_enclaveVars
  <2> SUFFICES ASSUME EnclaveInv, EnclaveNext
               PROVE  state' \in Later(state) \cup {state} /\ crashed = "no"
    OBVIOUS
  <2>0. RunningIsAlive BY DEF EnclaveInv, LifeInv
  <2>1. CASE Ecall
    BY <2>1 DEF Ecall, EcallInit, EcallClose, EcallInitRA, EcallBootstrapRA,
       EcallBootstrapMock, EcallEmit, WrongState, Enter, SetClosed, Later, lifeVars
  <2>2. CASE CodeReturns
    BY <2>0, <2>2, CodeReturnsKeeps DEF RunningIsAlive, lifeVars
  <2>5. CASE CloseReturns BY <2>0, <2>5 DEF CloseReturns, RunningIsAlive
  <2>3. CASE AppCall
    BY <2>0, <2>3, AppCallKeeps DEF RunningIsAlive, AppCode, lifeVars
  <2>4. CASE Fatal BY <2>0, <2>4 DEF Fatal, RunningIsAlive, lifeVars
  <2> QED BY <2>1, <2>2, <2>3, <2>4, <2>5 DEF EnclaveNext, Returns
<1> QED BY <1>1, EnclaveInvariant, PTL DEF EnclaveSpec, UsedOnce

-----------------------------------------------------------------------------
(***************************************************************************)
(* The value stack.  One value stays from duk_enclave_init and two from    *)
(* each duk_enclave_emit_message, one of them left by spin_microtasks in   *)
(* either case, until the heap goes.                                       *)
(***************************************************************************)
StackCounted ==
  /\ state = "NASCENT" => emitted = <<>> /\ valstack = 0
  /\ crashed = "no" /\ state = "ACTIVE" =>
       /\ pc = "script" => emitted = <<>> /\ valstack = 0
       /\ pc \in {"dispatch", "handler"} => valstack + 1 = 2 * Len(emitted)
       /\ pc \in {"spin", "task"} => valstack = 2 * Len(emitted)
       /\ pc = "idle" => valstack = 1 + 2 * Len(emitted)

\* Every step leaves on the stack what StackCounted says.
LEMMA StackKept ==
  EnclaveInv /\ StackCounted /\ [EnclaveNext]_enclaveVars => StackCounted'
<1> SUFFICES ASSUME EnclaveInv, StackCounted, [EnclaveNext]_enclaveVars
             PROVE  StackCounted'
  OBVIOUS
<1>0. /\ valstack \in Nat /\ emitted \in Seq(Nat) /\ Len(emitted) \in Nat
      /\ RunningIsAlive /\ RunsInState
  BY LenProperties DEF EnclaveInv, EnclaveTypeOK, LifeInv
<1> USE DEF StackCounted, lifeVars, emitVars
<1>1. CASE EcallInit BY <1>0, <1>1 DEF EcallInit, Enter, Abort
<1>2. CASE EcallClose BY <1>0, <1>2 DEF EcallClose, Enter, SetClosed
<1>3. CASE EcallInitRA BY <1>0, <1>3 DEF EcallInitRA, Enter, Abort
<1>4. CASE EcallBootstrapRA
  BY <1>0, <1>4 DEF EcallBootstrapRA, Enter, Abort, SetClosed
<1>5. CASE EcallBootstrapMock
  BY <1>0, <1>5 DEF EcallBootstrapMock, Enter, SetClosed
<1>6. CASE EcallEmit(Len(emitted) + 1)
  <2>1. Len(emitted') = Len(emitted) + 1 /\ emitted' # <<>>
    BY <1>0, <1>6, AppendProperties DEF EcallEmit
  <2> QED BY <1>0, <1>6, <2>1 DEF EcallEmit, Enter
<1>7. ASSUME NEW expected, WrongState(expected) PROVE StackCounted'
  BY <1>0, <1>7 DEF WrongState, Abort, Enter
<1>8. CASE CodeReturns
  <2>0. state = "ACTIVE" BY <1>0, <1>8, CodeReturnsKeeps DEF RunsInState
  <2>1. CASE ScriptEnds
    <3>1. emitted = <<>> => Len(emitted) = 0 BY <1>0, EmptySeq
    <3> QED BY <1>0, <2>0, <2>1, <3>1 DEF ScriptEnds, RunningIsAlive
  <2>2. CASE DispatchNext BY <1>0, <2>0, <2>2 DEF DispatchNext, RunningIsAlive
  <2>3. CASE HandlerEnds BY <1>0, <2>0, <2>3 DEF HandlerEnds, RunningIsAlive
  <2>4. CASE HandlerThrowsNull
    BY <1>0, <2>0, <2>4 DEF HandlerThrowsNull, AfterEmitCall, RunningIsAlive
  <2>5. CASE DispatchDone
    BY <1>0, <2>0, <2>5 DEF DispatchDone, AfterEmitCall, RunningIsAlive
  <2>6. CASE SpinNext BY <1>0, <2>0, <2>6 DEF SpinNext, RunningIsAlive
  <2>7. CASE TaskEnds BY <1>0, <2>0, <2>7 DEF TaskEnds, RunningIsAlive
  <2>8. CASE SpinDone BY <1>0, <2>0, <2>8 DEF SpinDone, AfterSpin, RunningIsAlive
  <2> QED
    BY <1>8, <2>1, <2>2, <2>3, <2>4, <2>5, <2>6, <2>7, <2>8 DEF CodeReturns
<1>9. CASE AppCall
  <2>1. UNCHANGED <<lifeVars, crashed, pc, valstack, emitted>>
    BY <1>9 DEF AppCall, OnMessage, RemoveOnMessage, ImportFramework, NextTick,
       PostMessage
  <2> QED BY <1>0, <2>1
<1>10. CASE Fatal BY <1>0, <1>10 DEF Fatal, Abort, RunningIsAlive
<1>11. CASE UNCHANGED enclaveVars BY <1>0, <1>11 DEF enclaveVars
<1>12. CASE CloseReturns BY <1>0, <1>12 DEF CloseReturns, RunsInState
<1> QED
  BY <1>1, <1>2, <1>3, <1>4, <1>5, <1>6, <1>7, <1>8, <1>9, <1>10, <1>11, <1>12
  DEF EnclaveNext, Ecall, Returns

(***************************************************************************)
(* What the run enclave_stack finds after one message holds after any      *)
(* number: between ECALLs a live heap has 1 + 2n values on its stack, so   *)
(* it grows with every message and never shrinks before close.             *)
(***************************************************************************)
THEOREM EnclaveStack ==
  EnclaveSpec => [](crashed = "no" /\ pc = "idle" /\ state = "ACTIVE"
                      => valstack = 1 + 2 * Len(emitted))
<1>1. EnclaveInit => StackCounted BY DEF EnclaveInit, StackCounted
<1>2. StackCounted => (crashed = "no" /\ pc = "idle" /\ state = "ACTIVE"
                         => valstack = 1 + 2 * Len(emitted))
  BY DEF StackCounted
<1> QED BY <1>1, <1>2, StackKept, EnclaveInvariant, PTL DEF EnclaveSpec
=============================================================================

--------------------------- MODULE EventLoopProofs ---------------------------
(***************************************************************************)
(* Proofs about EventLoop: the types, the exclusion eval_lock provides,    *)
(* and, for disciplined programs, that tasks_outstanding is exact and that *)
(* the process never ends while work is pending.                           *)
(***************************************************************************)
EXTENDS EventLoop, FiniteSetTheorems, TLAPS

-----------------------------------------------------------------------------
(* One element more or less, counted with Cardinality, as                  *)
(* tasks_outstanding counts.                                               *)
LEMMA CardinalityPlus ==
  ASSUME NEW S, NEW T, NEW x, IsFiniteSet(S), x \notin S, T = S \cup {x}
  PROVE  Cardinality(T) = Cardinality(S) + 1
BY FS_AddElement

LEMMA CardinalityMinus ==
  ASSUME NEW S, NEW T, NEW x, IsFiniteSet(S), x \in S, T = S \ {x}
  PROVE  Cardinality(T) = Cardinality(S) - 1
BY FS_RemoveElement
-----------------------------------------------------------------------------
(* The state is always well typed: ids, stores and locks hold what the     *)
(* code puts there, and each thread is only ever at a place of its own     *)
(* kind (main.c, timers.c and shell.c have different thread functions).    *)
THEOREM TypeCorrect == Spec => []TypeOK
<1> USE ConstantsAssumption DEF Actors, UserLabels, MainLabels, TimerLabels, ShellLabels,
                                Kinds, NullKey, DelayKinds
<1>1. Init => TypeOK
  <2> SUFFICES ASSUME Init PROVE TypeOK
    OBVIOUS
  <2>1. NoTimer \in TimerRecords
    BY DEF NoTimer, TimerRecords
  <2>2. /\ last_id \in [Kinds -> Nat] /\ store \in [Kinds -> SUBSET Nat]
        /\ call \in [Actors -> TimerRecords] /\ timer \in [Timers -> TimerRecords]
    BY <2>1 DEF Init
  <2>3. /\ pc \in [Actors -> MainLabels \cup TimerLabels \cup ShellLabels]
        /\ pc[Main] \in MainLabels
        /\ \A t \in Timers : pc[t] \in TimerLabels
        /\ \A s \in Shells : pc[s] \in ShellLabels
    BY DEF Init
  <2>4. tasks_outstanding \in Int /\ evals \in Int
    BY DEF Init
  <2>5. /\ eval_lock \in Actors \cup {NoOne} /\ ctx \in {"live", "released"}
        /\ fired \in SUBSET Nat /\ cleared \in SUBSET Nat
    BY DEF Init
  <2>6. killed \in BOOLEAN
    BY Zenon DEF Init
  <2> QED BY <2>2, <2>3, <2>4, <2>5, <2>6 DEF TypeOK
<1>2. TypeOK /\ [Next]_vars => TypeOK'
  <2> SUFFICES ASSUME TypeOK, [Next]_vars PROVE TypeOK'
    OBVIOUS
  <2> USE DEF TypeOK, Goto, TimerRecords
  <2>1. ASSUME NEW a \in Actors, UserCode(a) PROVE TypeOK'
    <3>1. ASSUME NEW k \in Kinds, NEW ms \in Delays, SetTimer(a, k, ms) PROVE TypeOK'
      BY <3>1 DEF SetTimer
    <3>2. ASSUME NEW k \in Kinds, NEW i \in 0..Bound[k], ClearTimer(a, k, i) PROVE TypeOK'
      BY <3>2 DEF ClearTimer
    <3>3. CASE ShAsync(a)
      BY <3>3 DEF ShAsync
    <3>4. CASE Exit(a)
      BY <3>4 DEF Exit
    <3> QED BY <2>1, <3>1, <3>2, <3>3, <3>4 DEF UserCode
  <2>2. ASSUME NEW a \in Actors, NativeStep(a) PROVE TypeOK'
    <3>1. CASE ReadId(a)
      BY <3>1 DEF ReadId
    <3>2. CASE CountTimer(a)
      BY <3>2 DEF CountTimer, SignalTaskStarted
    <3>3. CASE CreateTimer(a)
      <4>1. TimerData(a) \in TimerRecords
        BY DEF TimerData
      <4>2. timer' \in [Timers -> TimerRecords]
        BY <3>3, <4>1 DEF CreateTimer, StartTimer, Unused
      <4>3. /\ pc' \in [Actors -> MainLabels \cup TimerLabels \cup ShellLabels]
            /\ pc'[Main] \in MainLabels
            /\ \A t \in Timers : pc'[t] \in TimerLabels
            /\ \A s \in Shells : pc'[s] \in ShellLabels
        BY <3>3, SMTT(30) DEF CreateTimer, StartTimer, Unused
      <4> QED BY <3>3, <4>2, <4>3 DEF CreateTimer
    <3>4. CASE Bind(a)
      BY <3>4 DEF Bind, NoTimer
    <3>5. CASE SignalCleared(a)
      BY <3>5 DEF SignalCleared, SignalTaskComplete
    <3>6. CASE CountShell(a)
      BY <3>6 DEF CountShell, SignalTaskStarted
    <3>7. CASE CreateShell(a)
      BY <3>7, SMTT(30) DEF CreateShell
    <3> QED BY <2>2, <3>1, <3>2, <3>3, <3>4, <3>5, <3>6, <3>7 DEF NativeStep
  <2>3. ASSUME NEW t \in Timers, TimerStep(t) PROVE TypeOK'
    <3>1. CASE SleepFails(t)
      BY <3>1 DEF SleepFails, NoTimer
    <3>2. CASE Wake(t)
      BY <3>2 DEF Wake, AcquireEvalLock
    <3>3. CASE RunTimer(t)
      <4>1. /\ pc' \in [Actors -> MainLabels \cup TimerLabels \cup ShellLabels]
            /\ pc'[Main] \in MainLabels
            /\ \A u \in Timers : pc'[u] \in TimerLabels
            /\ \A s \in Shells : pc'[s] \in ShellLabels
        <5>1. pc' = [pc EXCEPT ![t] = "js"] \/ pc' = [pc EXCEPT ![t] = "unlock"]
          BY <3>3 DEF RunTimer
        <5> QED BY <5>1
      <4>2. fired' \in SUBSET Nat
        <5>1. timer[t].id \in Nat
          BY DEF TimerRecords
        <5>2. fired' = fired \/ fired' = fired \cup {timer[t].id}
          BY <3>3 DEF RunTimer
        <5> QED BY <5>1, <5>2
      <4> QED BY <3>3, <4>1, <4>2 DEF RunTimer
    <3>4. CASE EndTimeout(t)
      BY <3>4 DEF EndTimeout
    <3>5. CASE FinishTimeout(t)
      BY <3>5 DEF FinishTimeout, SignalTaskComplete
    <3>6. CASE EndInterval(t)
      BY <3>6 DEF EndInterval
    <3>7. CASE Rearm(t)
      BY <3>7 DEF Rearm, StartTimer, Unused
    <3>8. CASE ThrowInterval(t)
      BY <3>8 DEF ThrowInterval
    <3>9. CASE UnlockTimer(t)
      BY <3>9 DEF UnlockTimer, ReleaseEvalLock, NoTimer
    <3> QED BY <2>3, <3>1, <3>2, <3>3, <3>4, <3>5, <3>6, <3>7, <3>8, <3>9 DEF TimerStep
  <2>4. ASSUME NEW s \in Shells, ShellStep(s) PROVE TypeOK'
    <3>1. CASE ChildEnds(s)
      BY <3>1 DEF ChildEnds
    <3>2. CASE EndShell(s)
      BY <3>2 DEF EndShell
    <3>3. CASE CompleteShell(s)
      BY <3>3 DEF CompleteShell, SignalTaskComplete
    <3> QED BY <2>4, <3>1, <3>2, <3>3 DEF ShellStep
  <2>5. CASE MainStep
    <3>1. CASE Evaluate
      BY <3>1 DEF Evaluate, AcquireEvalLock
    <3>2. CASE EndEvaluate
      BY <3>2 DEF EndEvaluate, ReleaseEvalLock
    <3>3. CASE BlockUntilTasksComplete \/ EngineShutdown \/ ReturnFromMain
      BY <3>3 DEF BlockUntilTasksComplete, EngineShutdown, ReturnFromMain
    <3> QED BY <2>5, <3>1, <3>2, <3>3 DEF MainStep
  <2>6. CASE UNCHANGED vars
    BY <2>6 DEF vars
  <2> QED BY <2>1, <2>2, <2>3, <2>4, <2>5, <2>6 DEF Next, Ended
<1> QED BY <1>1, <1>2, PTL DEF Spec
-----------------------------------------------------------------------------
(* eval_lock excludes: a timer's callback and a locked script own it from  *)
(* their first step to their last, whatever the program does.              *)
THEOREM EvaluationExclusive == Spec => []LockedEvaluation
<1> USE ConstantsAssumption DEF Actors, UserLabels, Goto, LockedEvaluation, Protected, InUserCode
<1>1. Init => LockedEvaluation
  BY DEF Init
<1>2. TypeOK /\ LockedEvaluation /\ [Next]_vars => LockedEvaluation'
  <2> SUFFICES ASSUME TypeOK, LockedEvaluation, [Next]_vars, NEW b \in Actors, Protected(b)'
               PROVE  eval_lock' = b
    BY DEF LockedEvaluation
  <2> USE DEF TypeOK
  <2>1. ASSUME NEW a \in Actors, UserCode(a) PROVE eval_lock' = b
    <3>1. eval_lock' = eval_lock /\ evals' = evals /\ pc[a] = "js"
      BY <2>1 DEF UserCode, SetTimer, ClearTimer, ShAsync, Exit
    <3>2. pc' = pc \/ \E l \in UserLabels : pc' = [pc EXCEPT ![a] = l]
      BY <2>1 DEF UserCode, SetTimer, ClearTimer, ShAsync, Exit
    <3> QED BY <3>1, <3>2
  <2>2. ASSUME NEW a \in Actors, NativeStep(a) PROVE eval_lock' = b
    <3>1. eval_lock' = eval_lock /\ evals' = evals /\ pc[a] \in UserLabels
      BY <2>2 DEF NativeStep, ReadId, CountTimer, CreateTimer, Bind, SignalCleared, CountShell, CreateShell
    <3>2. \E l \in UserLabels :
            \/ pc' = [pc EXCEPT ![a] = l]
            \/ \E t \in Timers : pc' = [pc EXCEPT ![t] = "sleep", ![a] = l]
            \/ \E s \in Shells : pc' = [pc EXCEPT ![s] = "child", ![a] = l]
      BY <2>2 DEF NativeStep, ReadId, CountTimer, CreateTimer, StartTimer, Unused, Bind,
                  SignalCleared, CountShell, CreateShell
    <3> QED BY <3>1, <3>2
  <2>3. ASSUME NEW t \in Timers, TimerStep(t) PROVE eval_lock' = b
    <3>1. CASE SleepFails(t)
      BY <3>1 DEF SleepFails
    <3>2. CASE Wake(t)
      BY <3>2 DEF Wake, AcquireEvalLock
    <3>3. CASE RunTimer(t)
      BY <3>3 DEF RunTimer
    <3>4. CASE EndTimeout(t) \/ FinishTimeout(t) \/ EndInterval(t) \/ ThrowInterval(t)
      BY <3>4 DEF EndTimeout, FinishTimeout, EndInterval, ThrowInterval
    <3>5. CASE Rearm(t)
      BY <3>5 DEF Rearm, StartTimer, Unused
    <3>6. CASE UnlockTimer(t)
      BY <3>6 DEF UnlockTimer, ReleaseEvalLock, Locked
    <3> QED BY <2>3, <3>1, <3>2, <3>3, <3>4, <3>5, <3>6 DEF TimerStep
  <2>4. ASSUME NEW s \in Shells, ShellStep(s) PROVE eval_lock' = b
    BY <2>4 DEF ShellStep, ChildEnds, EndShell, CompleteShell
  <2>5. CASE MainStep
    <3>1. CASE Evaluate
      BY <3>1 DEF Evaluate, AcquireEvalLock
    <3>2. CASE EndEvaluate
      BY <3>2 DEF EndEvaluate, ReleaseEvalLock, Locked
    <3>3. CASE BlockUntilTasksComplete \/ EngineShutdown \/ ReturnFromMain
      BY <3>3 DEF BlockUntilTasksComplete, EngineShutdown, ReturnFromMain
    <3> QED BY <2>5, <3>1, <3>2, <3>3 DEF MainStep
  <2>6. CASE UNCHANGED vars
    BY <2>6 DEF vars
  <2> QED BY <2>1, <2>2, <2>3, <2>4, <2>5, <2>6 DEF Next, Ended
<1> QED BY <1>1, <1>2, TypeCorrect, PTL DEF Spec
-----------------------------------------------------------------------------
(* The strengthening that makes the count inductive in disciplined         *)
(* programs: only the holder of eval_lock is in the course of setting a    *)
(* timer, so ids are handed out one at a time and are never in use         *)
(* already; and while a timer's callback runs, its entry is in the store.  *)
TimerCallLabels == {"read_id", "count_timer", "create_timer", "bind"}

SettersLocked == \A a \in Actors : pc[a] \in TimerCallLabels => eval_lock = a

ShellsUnlocked == eval_lock \notin Shells

IdsFresh ==
  /\ \A k \in Kinds : last_id[k] <= Bound[k] /\ store[k] \subseteq 1..last_id[k]
  /\ \A a \in Actors :
       /\ pc[a] = "read_id" => last_id[call[a].kind] < Bound[call[a].kind]
       /\ pc[a] = "count_timer" => /\ call[a].id = last_id[call[a].kind] + 1
                                   /\ last_id[call[a].kind] < Bound[call[a].kind]
       /\ pc[a] \in {"create_timer", "bind"} => /\ call[a].id = last_id[call[a].kind]
                                                /\ call[a].id # NullKey
                                                /\ call[a].id \notin store[call[a].kind]

RunningStored == \A t \in Timers : InUserCode(t) \/ pc[t] = "rearm" =>
                                     timer[t].id \in store[timer[t].kind]

StoreInv == SettersLocked /\ ShellsUnlocked /\ IdsFresh /\ RunningStored

(* What is read of timeout_id under eval_lock is what was written.         *)
LEMMA DataOfCall ==
  ASSUME TypeOK, IdsFresh, NEW a \in Actors, CreateTimer(a) PROVE TimerData(a) = call[a]
<1>1. call[a] \in TimerRecords /\ call[a].id = last_id[call[a].kind]
  BY DEF CreateTimer, TypeOK, IdsFresh
<1> QED BY <1>1 DEF TimerData, TimerRecords

LEMMA BoundType == Bound \in [Kinds -> Nat]
BY ConstantsAssumption DEF Bound, Kinds

LEMMA ActorsFinite == IsFiniteSet(Actors)
<1>1. IsFiniteSet(Timers \cup Shells)
  BY ConstantsAssumption, FS_Union
<1>2. IsFiniteSet({Main})
  BY FS_Singleton
<1> QED BY <1>1, <1>2, FS_Union DEF Actors

(* The bound in MaySet leaves an id for the call that passes it. *)
LEMMA MaySetBound == ASSUME TypeOK, NEW k \in Kinds, MaySet(k)
                     PROVE  last_id[k] < Bound[k]
<1>1. Cardinality(Setting(k)) \in Nat
  BY ActorsFinite, FS_Subset, FS_CardinalityType DEF Setting
<1> QED BY <1>1, BoundType DEF MaySet, TypeOK

THEOREM StoresSound == ASSUME Disciplined PROVE Spec => []StoreInv
<1> USE ConstantsAssumption, BoundType
    DEF Actors, UserLabels, Goto, InUserCode, TimerCallLabels, NullKey
<1>1. Init => StoreInv
  BY DEF Init, StoreInv, SettersLocked, ShellsUnlocked, IdsFresh, RunningStored, NoTimer, Kinds
<1>2. TypeOK /\ LockedEvaluation /\ StoreInv /\ [Next]_vars => StoreInv'
  <2> SUFFICES ASSUME TypeOK, LockedEvaluation, StoreInv, [Next]_vars PROVE StoreInv'
    OBVIOUS
  <2> USE DEF StoreInv, TypeOK, TimerRecords
  <2>1. ASSUME NEW a \in Actors, UserCode(a) PROVE StoreInv'
    <3>1. ASSUME NEW k \in Kinds, NEW ms \in Delays, SetTimer(a, k, ms) PROVE StoreInv'
      <4>1. /\ Locked(a) /\ pc' = [pc EXCEPT ![a] = "read_id"] /\ pc[a] = "js"
            /\ call' = [call EXCEPT ![a] = [kind |-> k, id |-> 0, delay |-> ms]]
            /\ UNCHANGED <<eval_lock, last_id, store, timer>>
        BY <3>1, Disciplined DEF SetTimer, Disciplined
      <4>2. last_id[k] < Bound[k]
        BY <3>1, MaySetBound DEF SetTimer
      <4>3. SettersLocked' /\ ShellsUnlocked'
        BY <4>1 DEF SettersLocked, ShellsUnlocked, Locked
      <4>4. IdsFresh'
        BY <4>1, <4>2 DEF IdsFresh
      <4>5. RunningStored'
        BY <4>1 DEF RunningStored
      <4> QED BY <4>3, <4>4, <4>5
    <3>2. ASSUME NEW k \in Kinds, NEW i \in 0..Bound[k], ClearTimer(a, k, i) PROVE StoreInv'
      <4>1. /\ ~\E t \in Timers : Runs(t, k, i)
            /\ pc' = [pc EXCEPT ![a] = "clear"] /\ pc[a] = "js"
            /\ store' = [store EXCEPT ![k] = @ \ {i}]
            /\ UNCHANGED <<eval_lock, last_id, call, timer>>
        BY <3>2, Disciplined DEF ClearTimer, Disciplined
      <4>3. SettersLocked' /\ ShellsUnlocked'
        BY <4>1 DEF SettersLocked, ShellsUnlocked
      <4>4. IdsFresh'
        BY <4>1 DEF IdsFresh
      <4>5. RunningStored'
        BY <4>1 DEF RunningStored, Runs
      <4> QED BY <4>3, <4>4, <4>5
    <3>3. CASE ShAsync(a)
      BY <3>3 DEF ShAsync, SettersLocked, ShellsUnlocked, IdsFresh, RunningStored
    <3>4. CASE Exit(a)
      BY <3>4 DEF Exit, SettersLocked, ShellsUnlocked, IdsFresh, RunningStored
    <3> QED BY <2>1, <3>1, <3>2, <3>3, <3>4 DEF UserCode
  <2>2. ASSUME NEW a \in Actors, NativeStep(a) PROVE StoreInv'
    <3>1. CASE ReadId(a)
      <4>1. SettersLocked' /\ ShellsUnlocked'
        BY <3>1 DEF ReadId, SettersLocked, ShellsUnlocked
      <4>2. IdsFresh'
        BY <3>1 DEF ReadId, IdsFresh
      <4>3. RunningStored'
        BY <3>1 DEF ReadId, RunningStored
      <4> QED BY <4>1, <4>2, <4>3
    <3>2. CASE CountTimer(a)
      <4>1. SettersLocked' /\ ShellsUnlocked'
        BY <3>2 DEF CountTimer, SettersLocked, ShellsUnlocked
      <4>2. \A b \in Actors \ {a} : pc[b] \notin TimerCallLabels
        BY <3>2 DEF CountTimer, SettersLocked
      <4>3. IdsFresh'
        BY <3>2, <4>2 DEF CountTimer, IdsFresh
      <4>4. RunningStored'
        BY <3>2 DEF CountTimer, RunningStored
      <4> QED BY <4>1, <4>3, <4>4
    <3>3. CASE CreateTimer(a)
      <4>1. PICK t \in Timers : /\ pc[t] = "free"
                                /\ pc' = [pc EXCEPT ![t] = "sleep", ![a] = "bind"]
                                /\ timer' = [timer EXCEPT ![t] = TimerData(a)]
        BY <3>3, Disciplined DEF CreateTimer, StartTimer, Unused, Disciplined
      <4>2. pc[a] = "create_timer" /\ UNCHANGED <<eval_lock, last_id, store, call>>
        BY <3>3 DEF CreateTimer
      <4>3. SettersLocked' /\ ShellsUnlocked'
        BY <4>1, <4>2 DEF SettersLocked, ShellsUnlocked
      <4>4. IdsFresh'
        BY <4>1, <4>2 DEF IdsFresh
      <4>5. RunningStored'
        BY <4>1, <4>2 DEF RunningStored
      <4> QED BY <4>3, <4>4, <4>5
    <3>4. CASE Bind(a)
      <4>1. SettersLocked' /\ ShellsUnlocked'
        BY <3>4 DEF Bind, SettersLocked, ShellsUnlocked
      <4>2. \A b \in Actors \ {a} : pc[b] \notin TimerCallLabels
        BY <3>4 DEF Bind, SettersLocked
      <4>3. IdsFresh'
        BY <3>4, <4>2 DEF Bind, IdsFresh
      <4>4. RunningStored'
        BY <3>4 DEF Bind, RunningStored
      <4> QED BY <4>1, <4>3, <4>4
    <3>5. CASE SignalCleared(a) \/ CountShell(a)
      BY <3>5 DEF SignalCleared, CountShell, SettersLocked, ShellsUnlocked, IdsFresh, RunningStored
    <3>6. CASE CreateShell(a)
      <4>1. PICK s \in Shells : /\ pc[s] = "free"
                                /\ pc' = [pc EXCEPT ![s] = "child", ![a] = "js"]
        BY <3>6, Disciplined DEF CreateShell, Disciplined
      <4> QED BY <3>6, <4>1
          DEF CreateShell, SettersLocked, ShellsUnlocked, IdsFresh, RunningStored
    <3> QED BY <2>2, <3>1, <3>2, <3>3, <3>4, <3>5, <3>6 DEF NativeStep
  <2>3. ASSUME NEW t \in Timers, TimerStep(t) PROVE StoreInv'
    <3>1. CASE SleepFails(t) \/ FinishTimeout(t) \/ EndInterval(t) \/ ThrowInterval(t)
      BY <3>1 DEF SleepFails, FinishTimeout, EndInterval, ThrowInterval,
                  SettersLocked, ShellsUnlocked, IdsFresh, RunningStored
    <3>2. CASE Wake(t)
      BY <3>2 DEF Wake, AcquireEvalLock, SettersLocked, ShellsUnlocked, IdsFresh, RunningStored
    <3>3. CASE RunTimer(t)
      BY <3>3 DEF RunTimer, SettersLocked, ShellsUnlocked, IdsFresh, RunningStored
    <3>4. CASE EndTimeout(t)
      <4>1. \A u \in Timers \ {t} : ~InUserCode(u) /\ pc[u] # "rearm"
        BY <3>4 DEF EndTimeout, LockedEvaluation, Protected
      <4>2. SettersLocked' /\ ShellsUnlocked'
        BY <3>4 DEF EndTimeout, SettersLocked, ShellsUnlocked
      <4>3. IdsFresh'
        BY <3>4 DEF EndTimeout, IdsFresh
      <4>4. RunningStored'
        BY <3>4, <4>1 DEF EndTimeout, RunningStored
      <4> QED BY <4>2, <4>3, <4>4
    <3>5. CASE Rearm(t)
      <4>1. PICK u \in Timers : /\ pc[u] = "free"
                                /\ pc' = [pc EXCEPT ![u] = "sleep", ![t] = "unlock"]
                                /\ timer' = [timer EXCEPT ![u] = timer[t]]
        BY <3>5, Disciplined DEF Rearm, StartTimer, Unused, Disciplined
      <4> QED BY <3>5, <4>1 DEF Rearm, SettersLocked, ShellsUnlocked, IdsFresh, RunningStored
    <3>6. CASE UnlockTimer(t)
      BY <3>6 DEF UnlockTimer, ReleaseEvalLock, Locked, SettersLocked, ShellsUnlocked, IdsFresh,
                  RunningStored
    <3> QED BY <2>3, <3>1, <3>2, <3>3, <3>4, <3>5, <3>6 DEF TimerStep
  <2>4. ASSUME NEW s \in Shells, ShellStep(s) PROVE StoreInv'
    BY <2>4, SMTT(30) DEF ShellStep, ChildEnds, EndShell, CompleteShell,
                SettersLocked, ShellsUnlocked, IdsFresh, RunningStored
  <2>5. CASE MainStep
    <3>1. CASE Evaluate
      BY <3>1 DEF Evaluate, AcquireEvalLock, SettersLocked, ShellsUnlocked, IdsFresh, RunningStored
    <3>2. CASE EndEvaluate
      BY <3>2 DEF EndEvaluate, ReleaseEvalLock, Locked,
                  SettersLocked, ShellsUnlocked, IdsFresh, RunningStored
    <3>3. CASE BlockUntilTasksComplete \/ EngineShutdown \/ ReturnFromMain
      <4>1. /\ UNCHANGED <<eval_lock, last_id, store, call, timer>>
            /\ \E l \in {"shutdown", "return", "returned"} : pc' = [pc EXCEPT ![Main] = l]
        BY <3>3 DEF BlockUntilTasksComplete, EngineShutdown, ReturnFromMain
      <4> QED BY <4>1 DEF SettersLocked, ShellsUnlocked, IdsFresh, RunningStored
    <3> QED BY <2>5, <3>1, <3>2, <3>3 DEF MainStep
  <2>6. CASE UNCHANGED vars
    BY <2>6 DEF vars, SettersLocked, ShellsUnlocked, IdsFresh, RunningStored
  <2> QED BY <2>1, <2>2, <2>3, <2>4, <2>5, <2>6 DEF Next, Ended
<1> QED BY <1>1, <1>2, TypeCorrect, EvaluationExclusive, PTL DEF Spec
-----------------------------------------------------------------------------
LEMMA TokensFinite == /\ IsFiniteSet(StoredTimers)
                      /\ IsFiniteSet(BusyShells)
                      /\ IsFiniteSet(CountingActors)
<1>1. IsFiniteSet(Kinds \X Ids)
  <2>1. IsFiniteSet(Kinds)
    <3>1. IsFiniteSet({"timeout"}) /\ IsFiniteSet({"interval"})
      BY FS_Singleton
    <3>2. Kinds = {"timeout"} \cup {"interval"}
      BY DEF Kinds
    <3> QED BY <3>1, <3>2, FS_Union
  <2>2. IsFiniteSet(Ids)
    BY ConstantsAssumption, FS_Interval DEF Ids
  <2> QED BY <2>1, <2>2, FS_Product
<1>2. IsFiniteSet(StoredTimers)
  BY <1>1, FS_Subset DEF StoredTimers
<1>3. IsFiniteSet(BusyShells)
  BY ConstantsAssumption, FS_Subset DEF BusyShells
<1>4. IsFiniteSet(CountingActors)
  BY ActorsFinite, FS_Subset DEF CountingActors
<1> QED BY <1>2, <1>3, <1>4

(* How the number of tokens follows the three sets. *)
LEMMA TokensType == /\ Cardinality(StoredTimers) \in Nat
                    /\ Cardinality(BusyShells) \in Nat
                    /\ Cardinality(CountingActors) \in Nat
BY TokensFinite, FS_CardinalityType

LEMMA TimerPairs == \A w \in Kinds \X Ids : \E l \in Kinds, j \in Ids : w = <<l, j>>
OBVIOUS

LEMMA StoreAdds == ASSUME NEW k \in Kinds, NEW i \in Ids, store \in [Kinds -> SUBSET Nat],
                          i \notin store[k], store' = [store EXCEPT ![k] = @ \cup {i}]
                   PROVE  /\ <<k, i>> \notin StoredTimers
                          /\ StoredTimers' = StoredTimers \cup {<<k, i>>}
                          /\ Cardinality(StoredTimers') = Cardinality(StoredTimers) + 1
<1>1. <<k, i>> \notin StoredTimers
  BY DEF StoredTimers
<1>2. ASSUME NEW w \in Kinds \X Ids
      PROVE  w \in StoredTimers' <=> w \in StoredTimers \cup {<<k, i>>}
  <2>1. PICK l \in Kinds, j \in Ids : w = <<l, j>>
    BY TimerPairs
  <2> QED BY <2>1 DEF StoredTimers
<1>3. StoredTimers' = StoredTimers \cup {<<k, i>>}
  BY <1>2 DEF StoredTimers
<1> QED BY <1>1, <1>3, TokensFinite, CardinalityPlus

LEMMA StoreRemoves == ASSUME NEW k \in Kinds, NEW i \in Ids, store \in [Kinds -> SUBSET Nat],
                             i \in store[k], store' = [store EXCEPT ![k] = @ \ {i}]
                      PROVE  /\ <<k, i>> \in StoredTimers
                             /\ StoredTimers' = StoredTimers \ {<<k, i>>}
                             /\ Cardinality(StoredTimers') = Cardinality(StoredTimers) - 1
<1>1. <<k, i>> \in StoredTimers
  BY DEF StoredTimers
<1>2. ASSUME NEW w \in Kinds \X Ids
      PROVE  w \in StoredTimers' <=> w \in StoredTimers \ {<<k, i>>}
  <2>1. PICK l \in Kinds, j \in Ids : w = <<l, j>>
    BY TimerPairs
  <2> QED BY <2>1 DEF StoredTimers
<1>3. StoredTimers' = StoredTimers \ {<<k, i>>}
  BY <1>2 DEF StoredTimers
<1> QED BY <1>1, <1>3, TokensFinite, CardinalityMinus

(* What is stored under a kind is an id in Ids, never the key "null". *)
LEMMA StoredIds == ASSUME TypeOK, StoreInv, NEW k \in Kinds
                   PROVE  /\ store[k] \subseteq Ids
                          /\ last_id[k] \in Nat
                          /\ last_id[k] <= MaxTimeouts + MaxIntervals
<1>1. Bound[k] \in Nat /\ Bound[k] <= MaxTimeouts + MaxIntervals
  BY ConstantsAssumption DEF Bound, Kinds
<1> QED BY <1>1, ConstantsAssumption DEF TypeOK, StoreInv, IdsFresh, Ids

(* tasks_outstanding is exact: it counts the timers in the stores, the     *)
(* shell interactions and the calls in between, one each, at every moment. *)
THEOREM CounterExact == ASSUME Disciplined PROVE Spec => []CounterIsExact
<1> USE ConstantsAssumption DEF Actors, UserLabels, Goto, CounterIsExact
<1>1. Init => CounterIsExact
  <2> SUFFICES ASSUME Init PROVE CounterIsExact
    OBVIOUS
  <2>1. BusyShells = {} /\ CountingActors = {}
    BY DEF Init, BusyShells, CountingActors
  <2>2. StoredTimers = {}
    <3>1. \A k \in Kinds : store[k] = {}
      BY DEF Init
    <3> QED BY <3>1, TimerPairs DEF StoredTimers
  <2> QED BY <2>1, <2>2, FS_EmptySet DEF Init
<1>2. TypeOK /\ LockedEvaluation /\ StoreInv /\ CounterIsExact /\ [Next]_vars => CounterIsExact'
  <2> SUFFICES ASSUME TypeOK, LockedEvaluation, StoreInv, CounterIsExact, [Next]_vars
               PROVE  CounterIsExact'
    OBVIOUS
  <2> USE TokensType DEF TypeOK, TimerRecords
  <2>a. ASSUME UNCHANGED <<tasks_outstanding, store>>, BusyShells' = BusyShells,
               CountingActors' = CountingActors
        PROVE  CounterIsExact'
    BY <2>a DEF StoredTimers
  <2>1. ASSUME NEW a \in Actors, UserCode(a) PROVE CounterIsExact'
    <3>1. ASSUME NEW k \in Kinds, NEW ms \in Delays, SetTimer(a, k, ms) PROVE CounterIsExact'
      <4>1. /\ pc[a] = "js" /\ pc' = [pc EXCEPT ![a] = "read_id"]
            /\ call' = [call EXCEPT ![a] = [kind |-> k, id |-> NullKey, delay |-> ms]]
            /\ UNCHANGED <<tasks_outstanding, store>>
        BY <3>1, Disciplined DEF SetTimer, Disciplined
      <4>2. BusyShells' = BusyShells /\ CountingActors' = CountingActors
        BY <4>1 DEF BusyShells, CountingActors
      <4> QED BY <4>1, <4>2, <2>a
    <3>2. ASSUME NEW k \in Kinds, NEW i \in 0..Bound[k], ClearTimer(a, k, i) PROVE CounterIsExact'
      <4>1. /\ pc[a] = "js" /\ pc' = [pc EXCEPT ![a] = "clear"]
            /\ i \in store[k] /\ store' = [store EXCEPT ![k] = @ \ {i}]
            /\ UNCHANGED <<tasks_outstanding, call>>
        BY <3>2 DEF ClearTimer
      <4>2. i \in Ids
        BY <4>1, StoredIds
      <4>3. Cardinality(StoredTimers') = Cardinality(StoredTimers) - 1
        BY <4>1, <4>2, StoreRemoves
      <4>4. BusyShells' = BusyShells
        BY <4>1 DEF BusyShells
      <4>5. CountingActors' = CountingActors \cup {a} /\ a \notin CountingActors
        BY <4>1 DEF CountingActors
      <4>6. Cardinality(CountingActors') = Cardinality(CountingActors) + 1
        BY <4>5, TokensFinite, CardinalityPlus
      <4> QED BY <4>1, <4>3, <4>4, <4>6
    <3>3. CASE ShAsync(a)
      <4>1. BusyShells' = BusyShells /\ CountingActors' = CountingActors
        BY <3>3 DEF ShAsync, BusyShells, CountingActors
      <4> QED BY <3>3, <4>1, <2>a DEF ShAsync
    <3>4. CASE Exit(a)
      <4>1. BusyShells' = BusyShells /\ CountingActors' = CountingActors
        BY <3>4 DEF Exit, BusyShells, CountingActors
      <4> QED BY <3>4, <4>1, <2>a DEF Exit
    <3> QED BY <2>1, <3>1, <3>2, <3>3, <3>4 DEF UserCode
  <2>2. ASSUME NEW a \in Actors, NativeStep(a) PROVE CounterIsExact'
    <3>1. CASE ReadId(a)
      <4>1. BusyShells' = BusyShells /\ CountingActors' = CountingActors
        BY <3>1 DEF ReadId, BusyShells, CountingActors
      <4> QED BY <3>1, <4>1, <2>a DEF ReadId
    <3>2. CASE CountTimer(a) \/ CountShell(a)
      <4>1. /\ tasks_outstanding' = tasks_outstanding + 1 /\ UNCHANGED <<store, call>>
            /\ pc[a] \in {"count_timer", "count_shell"}
            /\ \E l \in {"create_timer", "create_shell"} : pc' = [pc EXCEPT ![a] = l]
        BY <3>2 DEF CountTimer, CountShell, SignalTaskStarted
      <4>2. BusyShells' = BusyShells /\ StoredTimers' = StoredTimers
        BY <4>1 DEF BusyShells, StoredTimers
      <4>3. CountingActors' = CountingActors \cup {a} /\ a \notin CountingActors
        BY <4>1 DEF CountingActors
      <4>4. Cardinality(CountingActors') = Cardinality(CountingActors) + 1
        BY <4>3, TokensFinite, CardinalityPlus
      <4> QED BY <4>1, <4>2, <4>4
    <3>3. CASE CreateTimer(a)
      <4>1. PICK t \in Timers : /\ pc[t] = "free"
                                /\ pc' = [pc EXCEPT ![t] = "sleep", ![a] = "bind"]
        BY <3>3, Disciplined DEF CreateTimer, StartTimer, Unused, Disciplined
      <4>2. /\ pc[a] = "create_timer" /\ UNCHANGED <<tasks_outstanding, store, call>>
            /\ call[a].id # NullKey
        BY <3>3 DEF CreateTimer, StoreInv, IdsFresh
      <4>3. BusyShells' = BusyShells /\ CountingActors' = CountingActors
        BY <4>1, <4>2 DEF BusyShells, CountingActors
      <4> QED BY <4>2, <4>3, <2>a
    <3>4. CASE Bind(a)
      <4> DEFINE k == call[a].kind
                 i == call[a].id
      <4>1. /\ pc[a] = "bind" /\ pc' = [pc EXCEPT ![a] = "js"]
            /\ store' = [store EXCEPT ![k] = @ \cup {i}]
            /\ call' = [call EXCEPT ![a] = NoTimer]
            /\ UNCHANGED tasks_outstanding
        BY <3>4 DEF Bind
      <4>2. /\ k \in Kinds /\ i # NullKey /\ i \notin store[k] /\ i = last_id[k] /\ i \in Nat
        BY <4>1 DEF StoreInv, IdsFresh
      <4>3. i \in Ids
        <5>1. last_id[k] <= MaxTimeouts + MaxIntervals
          BY <4>2, StoredIds
        <5> QED BY <4>2, <5>1 DEF Ids, NullKey
      <4> HIDE DEF k, i
      <4>4. Cardinality(StoredTimers') = Cardinality(StoredTimers) + 1
        BY <4>1, <4>2, <4>3, StoreAdds
      <4>5. BusyShells' = BusyShells
        BY <4>1 DEF BusyShells
      <4>6. CountingActors' = CountingActors \ {a} /\ a \in CountingActors
        BY <4>1, <4>2 DEF CountingActors, i
      <4>7. Cardinality(CountingActors') = Cardinality(CountingActors) - 1
        BY <4>6, TokensFinite, CardinalityMinus
      <4> QED BY <4>1, <4>4, <4>5, <4>7
    <3>5. CASE SignalCleared(a)
      <4>1. /\ tasks_outstanding' = tasks_outstanding - 1 /\ UNCHANGED <<store, call>>
            /\ pc[a] = "clear" /\ pc' = [pc EXCEPT ![a] = "js"]
        BY <3>5 DEF SignalCleared, SignalTaskComplete
      <4>2. BusyShells' = BusyShells /\ StoredTimers' = StoredTimers
        BY <4>1 DEF BusyShells, StoredTimers
      <4>3. CountingActors' = CountingActors \ {a} /\ a \in CountingActors
        BY <4>1 DEF CountingActors
      <4>4. Cardinality(CountingActors') = Cardinality(CountingActors) - 1
        BY <4>3, TokensFinite, CardinalityMinus
      <4> QED BY <4>1, <4>2, <4>4
    <3>6. CASE CreateShell(a)
      <4>1. PICK s \in Shells : /\ pc[s] = "free"
                                /\ pc' = [pc EXCEPT ![s] = "child", ![a] = "js"]
        BY <3>6, Disciplined DEF CreateShell, Disciplined
      <4>2. pc[a] = "create_shell" /\ UNCHANGED <<tasks_outstanding, store, call>>
        BY <3>6 DEF CreateShell
      <4>3. StoredTimers' = StoredTimers
        BY <4>2 DEF StoredTimers
      <4>4. BusyShells' = BusyShells \cup {s} /\ s \notin BusyShells
        BY <4>1, <4>2 DEF BusyShells
      <4>5. CountingActors' = CountingActors \ {a} /\ a \in CountingActors
        BY <4>1, <4>2 DEF CountingActors
      <4>6. Cardinality(BusyShells') = Cardinality(BusyShells) + 1
        BY <4>4, TokensFinite, CardinalityPlus
      <4>7. Cardinality(CountingActors') = Cardinality(CountingActors) - 1
        BY <4>5, TokensFinite, CardinalityMinus
      <4> QED BY <4>2, <4>3, <4>6, <4>7
    <3> QED BY <2>2, <3>1, <3>2, <3>3, <3>4, <3>5, <3>6 DEF NativeStep
  <2>3. ASSUME NEW t \in Timers, TimerStep(t) PROVE CounterIsExact'
    <3>1. CASE SleepFails(t) \/ Wake(t) \/ EndInterval(t) \/ ThrowInterval(t) \/ UnlockTimer(t)
      <4>1. /\ pc[t] \in {"sleep", "js", "unlock"}
            /\ \E l \in {"free", "enter", "rearm", "unlock"} : pc' = [pc EXCEPT ![t] = l]
            /\ UNCHANGED <<tasks_outstanding, store, call>>
        BY <3>1 DEF SleepFails, Wake, EndInterval, ThrowInterval, UnlockTimer
      <4>2. BusyShells' = BusyShells /\ CountingActors' = CountingActors
        BY <4>1 DEF BusyShells, CountingActors
      <4> QED BY <4>1, <4>2, <2>a
    <3>2. CASE RunTimer(t)
      <4>1. /\ pc[t] = "enter"
            /\ \E l \in {"js", "unlock"} : pc' = [pc EXCEPT ![t] = l]
            /\ UNCHANGED <<tasks_outstanding, store, call>>
        BY <3>2 DEF RunTimer
      <4>2. BusyShells' = BusyShells /\ CountingActors' = CountingActors
        BY <4>1 DEF BusyShells, CountingActors
      <4> QED BY <4>1, <4>2, <2>a
    <3>3. CASE EndTimeout(t)
      <4>1. /\ pc[t] = "js" /\ pc' = [pc EXCEPT ![t] = "finish"]
            /\ timer[t].kind = "timeout"
            /\ store' = [store EXCEPT !["timeout"] = @ \ {timer[t].id}]
            /\ UNCHANGED <<tasks_outstanding, call>>
        BY <3>3 DEF EndTimeout
      <4>2. timer[t].id \in store["timeout"]
        BY <4>1 DEF StoreInv, RunningStored, InUserCode
      <4>3. timer[t].id \in Ids /\ "timeout" \in Kinds
        BY <4>2, StoredIds DEF Kinds
      <4>4. Cardinality(StoredTimers') = Cardinality(StoredTimers) - 1
        BY <4>1, <4>2, <4>3, StoreRemoves
      <4>5. BusyShells' = BusyShells
        BY <4>1 DEF BusyShells
      <4>6. CountingActors' = CountingActors \cup {t} /\ t \notin CountingActors
        BY <4>1 DEF CountingActors
      <4>7. Cardinality(CountingActors') = Cardinality(CountingActors) + 1
        BY <4>6, TokensFinite, CardinalityPlus
      <4> QED BY <4>1, <4>4, <4>5, <4>7
    <3>4. CASE FinishTimeout(t)
      <4>1. /\ tasks_outstanding' = tasks_outstanding - 1 /\ UNCHANGED <<store, call>>
            /\ pc[t] = "finish" /\ pc' = [pc EXCEPT ![t] = "unlock"]
        BY <3>4 DEF FinishTimeout, SignalTaskComplete
      <4>2. BusyShells' = BusyShells /\ StoredTimers' = StoredTimers
        BY <4>1 DEF BusyShells, StoredTimers
      <4>3. CountingActors' = CountingActors \ {t} /\ t \in CountingActors
        BY <4>1 DEF CountingActors
      <4>4. Cardinality(CountingActors') = Cardinality(CountingActors) - 1
        BY <4>3, TokensFinite, CardinalityMinus
      <4> QED BY <4>1, <4>2, <4>4
    <3>5. CASE Rearm(t)
      <4>1. PICK u \in Timers : /\ pc[u] = "free"
                                /\ pc' = [pc EXCEPT ![u] = "sleep", ![t] = "unlock"]
        BY <3>5, Disciplined DEF Rearm, StartTimer, Unused, Disciplined
      <4>2. pc[t] = "rearm" /\ UNCHANGED <<tasks_outstanding, store, call>>
        BY <3>5 DEF Rearm
      <4>3. BusyShells' = BusyShells /\ CountingActors' = CountingActors
        BY <4>1, <4>2 DEF BusyShells, CountingActors
      <4> QED BY <4>2, <4>3, <2>a
    <3> QED BY <2>3, <3>1, <3>2, <3>3, <3>4, <3>5 DEF TimerStep
  <2>4. ASSUME NEW s \in Shells, ShellStep(s) PROVE CounterIsExact'
    <3>1. CASE ChildEnds(s) \/ EndShell(s)
      <4>1. /\ pc[s] \in {"child", "js"}
            /\ \E l \in {"js", "complete_shell"} : pc' = [pc EXCEPT ![s] = l]
            /\ UNCHANGED <<tasks_outstanding, store, call>>
        BY <3>1 DEF ChildEnds, EndShell
      <4>2. BusyShells' = BusyShells /\ CountingActors' = CountingActors
        BY <4>1 DEF BusyShells, CountingActors
      <4> QED BY <4>1, <4>2, <2>a
    <3>2. CASE CompleteShell(s)
      <4>1. /\ tasks_outstanding' = tasks_outstanding - 1 /\ UNCHANGED <<store, call>>
            /\ pc[s] = "complete_shell" /\ pc' = [pc EXCEPT ![s] = "free"]
        BY <3>2 DEF CompleteShell, SignalTaskComplete
      <4>2. CountingActors' = CountingActors /\ StoredTimers' = StoredTimers
        BY <4>1 DEF CountingActors, StoredTimers
      <4>3. BusyShells' = BusyShells \ {s} /\ s \in BusyShells
        BY <4>1 DEF BusyShells
      <4>4. Cardinality(BusyShells') = Cardinality(BusyShells) - 1
        BY <4>3, TokensFinite, CardinalityMinus
      <4> QED BY <4>1, <4>2, <4>4
    <3> QED BY <2>4, <3>1, <3>2 DEF ShellStep
  <2>5. CASE MainStep
    <3>1. /\ pc[Main] \in {"next", "js", "block", "shutdown", "return"}
          /\ \E l \in MainLabels \ {"bind", "clear", "create_timer", "create_shell"} :
                pc' = [pc EXCEPT ![Main] = l]
          /\ UNCHANGED <<tasks_outstanding, store, call>>
      BY <2>5 DEF MainStep, Evaluate, EndEvaluate, BlockUntilTasksComplete, EngineShutdown,
                  ReturnFromMain, MainLabels
    <3>2. BusyShells' = BusyShells /\ CountingActors' = CountingActors
      BY <3>1 DEF BusyShells, CountingActors, MainLabels
    <3> QED BY <3>1, <3>2, <2>a
  <2>6. CASE UNCHANGED vars
    BY <2>6 DEF vars, StoredTimers, BusyShells, CountingActors
  <2> QED BY <2>1, <2>2, <2>3, <2>4, <2>5, <2>6 DEF Next, Ended
<1> QED BY <1>1, <1>2, TypeCorrect, EvaluationExclusive, StoresSound, PTL DEF Spec
-----------------------------------------------------------------------------
(* A count of zero means that nothing is left to wait for. *)
LEMMA ZeroMeansDone ==
  ASSUME TypeOK, StoreInv, CounterIsExact, tasks_outstanding = 0
  PROVE  /\ \A k \in Kinds : store[k] = {}
         /\ BusyShells = {}
         /\ CountingActors = {}
<1>1. /\ Cardinality(StoredTimers) = 0
      /\ Cardinality(BusyShells) = 0
      /\ Cardinality(CountingActors) = 0
  BY TokensType DEF CounterIsExact
<1>2. StoredTimers = {} /\ BusyShells = {} /\ CountingActors = {}
  BY <1>1, TokensFinite, FS_EmptySet
<1>3. ASSUME NEW k \in Kinds, NEW i \in store[k] PROVE FALSE
  <2>1. i \in Ids
    BY StoredIds
  <2>2. <<k, i>> \in StoredTimers
    BY <2>1 DEF StoredTimers
  <2> QED BY <2>2, <1>2
<1> QED BY <1>2, <1>3

(* The promise of doc/scripts.md:195 to disciplined programs: when main    *)
(* goes past block_until_tasks_complete, no timer is stored, no shell      *)
(* interaction is under way and no callback is running, and that stays so. *)
THEOREM NeverExitsEarly == ASSUME Disciplined PROVE Spec => []NoEarlyExit
<1> USE ConstantsAssumption DEF Actors, UserLabels, Goto, InUserCode, Finished
<1>1. Init => NoEarlyExit
  BY DEF Init, NoEarlyExit
<1>2. TypeOK /\ LockedEvaluation /\ StoreInv /\ CounterIsExact /\ NoEarlyExit /\ [Next]_vars
        => NoEarlyExit'
  <2> SUFFICES ASSUME TypeOK, LockedEvaluation, StoreInv, CounterIsExact, NoEarlyExit, [Next]_vars
               PROVE  NoEarlyExit'
    OBVIOUS
  <2> SUFFICES ASSUME Finished'
               PROVE  /\ \A k \in Kinds : store'[k] \subseteq {NullKey}
                      /\ BusyShells' = {}
                      /\ \A a \in Actors : ~InUserCode(a)'
    BY DEF NoEarlyExit
  <2> USE DEF TypeOK, BusyShells
  <2>1. CASE Finished
    <3>1. /\ \A k \in Kinds : store[k] \subseteq {NullKey}
          /\ BusyShells = {}
          /\ \A a \in Actors : ~InUserCode(a)
      BY <2>1 DEF NoEarlyExit
    <3>2. ASSUME NEW a \in Actors, UserCode(a) \/ NativeStep(a) PROVE FALSE
      BY <3>1, <3>2 DEF UserCode, SetTimer, ClearTimer, ShAsync, Exit, NativeStep, ReadId, CountTimer,
                        CreateTimer, Bind, SignalCleared, CountShell, CreateShell
    <3>3. ASSUME NEW s \in Shells, ShellStep(s) PROVE FALSE
      BY <3>1, <3>3 DEF ShellStep, ChildEnds, EndShell, CompleteShell
    <3>4. ASSUME NEW t \in Timers, TimerStep(t)
          PROVE  /\ UNCHANGED store
                 /\ \E l \in {"free", "enter", "unlock"} : pc' = [pc EXCEPT ![t] = l]
      <4>1. pc[t] \notin {"js", "rearm"}
        <5>1. pc[t] # "js"
          BY <3>1
        <5>2. pc[t] = "rearm" => timer[t].id \in store[timer[t].kind]
          BY DEF StoreInv, RunningStored
        <5>3. timer[t].kind \in Kinds
          BY DEF TimerRecords
        <5>4. \A k \in Kinds : NullKey \notin store[k]
          BY DEF StoreInv, IdsFresh, NullKey
        <5> QED BY <3>1, <5>1, <5>2, <5>3, <5>4
      <4>2. pc[t] = "enter" => timer[t].id \notin store[timer[t].kind]
        <5>1. timer[t].kind \in Kinds
          BY DEF TimerRecords
        <5>2. \A k \in Kinds : store[k] = {}
          BY <3>1 DEF StoreInv, IdsFresh, NullKey
        <5> QED BY <5>1, <5>2
      <4> QED BY <3>4, <4>1, <4>2 DEF TimerStep, SleepFails, Wake, RunTimer, EndTimeout, FinishTimeout,
                                     EndInterval, Rearm, ThrowInterval, UnlockTimer
    <3>5. CASE MainStep
      <4>1. /\ UNCHANGED store
            /\ \E l \in {"return", "returned"} : pc' = [pc EXCEPT ![Main] = l]
        BY <2>1, <3>5 DEF MainStep, Evaluate, EndEvaluate, BlockUntilTasksComplete, EngineShutdown,
                          ReturnFromMain
      <4> QED BY <3>1, <4>1
    <3>6. CASE UNCHANGED vars
      BY <3>1, <3>6 DEF vars
    <3>7. ASSUME NEW t \in Timers, TimerStep(t)
          PROVE  /\ \A k \in Kinds : store'[k] \subseteq {NullKey}
                 /\ BusyShells' = {}
                 /\ \A a \in Actors : ~InUserCode(a)'
      BY <3>1, <3>4, <3>7
    <3> QED BY <3>2, <3>3, <3>5, <3>6, <3>7 DEF Next, Ended
  <2>2. CASE ~Finished
    <3>1. BlockUntilTasksComplete
      <4>1. ASSUME NEW a \in Actors, UserCode(a) PROVE FALSE
        <5>1. pc' = pc \/ (\E l \in UserLabels : pc' = [pc EXCEPT ![a] = l])
          BY <4>1 DEF UserCode, SetTimer, ClearTimer, ShAsync, Exit
        <5> QED BY <2>2, <5>1
      <4>2. ASSUME NEW a \in Actors, NativeStep(a) PROVE FALSE
        <5>1. \E l \in UserLabels :
                \/ pc' = [pc EXCEPT ![a] = l]
                \/ \E t \in Timers : pc' = [pc EXCEPT ![t] = "sleep", ![a] = l]
                \/ \E s \in Shells : pc' = [pc EXCEPT ![s] = "child", ![a] = l]
          BY <4>2 DEF NativeStep, ReadId, CountTimer, CreateTimer, StartTimer, Unused, Bind,
                      SignalCleared, CountShell, CreateShell
        <5> QED BY <2>2, <5>1
      <4>3. ASSUME NEW t \in Timers, TimerStep(t) PROVE FALSE
        <5>1. pc'[Main] = pc[Main]
          BY <4>3 DEF TimerStep, SleepFails, Wake, RunTimer, EndTimeout, FinishTimeout, EndInterval,
                      Rearm, StartTimer, Unused, ThrowInterval, UnlockTimer
        <5> QED BY <2>2, <5>1
      <4>4. ASSUME NEW s \in Shells, ShellStep(s) PROVE FALSE
        BY <2>2, <4>4 DEF ShellStep, ChildEnds, EndShell, CompleteShell
      <4>5. ~UNCHANGED vars
        BY <2>2 DEF vars
      <4> QED BY <2>2, <4>1, <4>2, <4>3, <4>4, <4>5
              DEF Next, Ended, MainStep, Evaluate, EndEvaluate, EngineShutdown, ReturnFromMain
    <3>2. /\ \A k \in Kinds : store[k] = {}
          /\ BusyShells = {}
      BY <3>1, ZeroMeansDone DEF BlockUntilTasksComplete
    <3>3. ASSUME NEW a \in Actors PROVE ~InUserCode(a)
      <4>1. CASE a \in Timers
        <5>1. timer[a].kind \in Kinds
          BY <4>1 DEF TimerRecords
        <5> QED BY <4>1, <5>1, <3>2 DEF StoreInv, RunningStored
      <4>2. CASE a \in Shells
        BY <4>2, <3>2
      <4>3. CASE a = Main
        BY <4>3, <3>1 DEF BlockUntilTasksComplete
      <4> QED BY <4>1, <4>2, <4>3
    <3> QED BY <3>1, <3>2, <3>3 DEF BlockUntilTasksComplete
  <2> QED BY <2>1, <2>2
<1> QED BY <1>1, <1>2, TypeCorrect, EvaluationExclusive, StoresSound, CounterExact, PTL DEF Spec
-----------------------------------------------------------------------------
(* The refinement mapping of EventLoop to AsyncWork, named for the proof.  *)
AllWork == ScriptWork \cup (Kinds \X Ids) \cup ({"shell"} \X Shells)
ScriptPending == IF pc[Main] = "next" \/ InUserCode(Main) THEN ScriptWork ELSE {}
ShellsPending == {"shell"} \X BusyShells
WorkPending == ScriptPending \cup StoredTimers \cup ShellsPending
WorkState == IF Finished THEN "finished" ELSE IF killed THEN "killed" ELSE "running"

Running == WorkState = "running"
Begins(x) == x \in AllWork /\ x \notin WorkPending /\ WorkPending' = WorkPending \cup {x}
Ends(x) == x \in AllWork /\ x \in WorkPending /\ WorkPending' = WorkPending \ {x}

(* The three kinds of work are told apart. *)
LEMMA WorkDisjoint == /\ \A x \in StoredTimers : x \notin ScriptWork /\ x \notin ShellsPending
                      /\ \A x \in ShellsPending : x \notin ScriptWork
                      /\ StoredTimers \subseteq Kinds \X Ids
                      /\ ShellsPending \subseteq {"shell"} \X Shells
                      /\ \A s : <<"shell", s>> \notin ScriptWork /\ <<"shell", s>> \notin StoredTimers
<1>1. \A w \in Kinds \X Ids : w[1] # "script" /\ w[1] # "shell"
  BY DEF Kinds
<1>2. \A w \in {"shell"} \X Shells : w[1] = "shell"
  OBVIOUS
<1>3. \A w \in ScriptWork : w[1] = "script"
  BY DEF ScriptWork
<1>4. StoredTimers \subseteq Kinds \X Ids /\ ShellsPending \subseteq {"shell"} \X Shells
  BY DEF StoredTimers, ShellsPending, BusyShells
<1>5. \A s : <<"shell", s>>[1] = "shell"
  OBVIOUS
<1> QED BY <1>1, <1>2, <1>3, <1>4, <1>5

(* Whoever runs user code is pending work. *)
LEMMA UsersPending == ASSUME TypeOK, StoreInv, NEW a \in Actors, InUserCode(a)
                      PROVE  WorkPending # {}
<1>1. CASE a = Main
  BY <1>1 DEF WorkPending, ScriptPending, ScriptWork
<1>2. CASE a \in Timers
  <2>1. timer[a].kind \in Kinds
    BY <1>2 DEF TypeOK, TimerRecords
  <2>2. timer[a].id \in store[timer[a].kind]
    BY <1>2 DEF StoreInv, RunningStored
  <2>3. <<timer[a].kind, timer[a].id>> \in StoredTimers
    BY <2>1, <2>2, StoredIds DEF StoredTimers
  <2> QED BY <2>3 DEF WorkPending
<1>3. CASE a \in Shells
  <2>1. a \in BusyShells
    BY <1>3 DEF InUserCode, UserLabels, BusyShells
  <2>2. <<"shell", a>> \in ShellsPending
    BY <2>1 DEF ShellsPending
  <2> QED BY <2>2 DEF WorkPending
<1> QED BY <1>1, <1>2, <1>3 DEF Actors

LEMMA WorkStep ==
  ASSUME Disciplined, TypeOK, StoreInv, CounterIsExact, NoEarlyExit, [Next]_vars
  PROVE  \/ UNCHANGED <<WorkPending, WorkState>>
         \/ Running /\ Running' /\ WorkPending # {} /\ \E x \in AllWork : Begins(x)
         \/ Running /\ Running' /\ \E x \in AllWork : Ends(x)
         \/ Running /\ WorkPending = {} /\ WorkState' = "finished" /\ UNCHANGED WorkPending
         \/ Running /\ WorkPending # {} /\ WorkState' = "killed" /\ UNCHANGED WorkPending
<1> USE ConstantsAssumption DEF Actors, UserLabels, Goto, InUserCode, Finished, TypeOK, TimerRecords
<1>a. ASSUME Alive, NEW a \in Actors, InUserCode(a)
      PROVE  Running /\ WorkPending # {} /\ ~Finished
  <2>1. WorkPending # {}
    BY <1>a, UsersPending
  <2>2. ~Finished
    BY <1>a DEF NoEarlyExit
  <2> QED BY <1>a, <2>1, <2>2 DEF Running, WorkState, Alive
<1>b. ASSUME UNCHANGED <<store, killed>>, BusyShells' = BusyShells,
             Finished' = Finished, ScriptPending' = ScriptPending
      PROVE  UNCHANGED <<WorkPending, WorkState>>
  BY <1>b DEF WorkPending, WorkState, StoredTimers, ShellsPending
<1>c. ASSUME NEW a \in Actors, NEW l \in UserLabels, InUserCode(a), pc' = [pc EXCEPT ![a] = l]
      PROVE  Finished' = Finished /\ ScriptPending' = ScriptPending /\ BusyShells' = BusyShells
  BY <1>c DEF ScriptPending, BusyShells
<1>1. ASSUME Alive, NEW a \in Actors, UserCode(a)
      PROVE  \/ UNCHANGED <<WorkPending, WorkState>>
             \/ Running /\ Running' /\ \E x \in AllWork : Ends(x)
             \/ Running /\ WorkPending # {} /\ WorkState' = "killed" /\ UNCHANGED WorkPending
  <2>0. pc[a] = "js"
    BY <1>1 DEF UserCode, SetTimer, ClearTimer, ShAsync, Exit
  <2>1. Running /\ WorkPending # {} /\ ~Finished
    BY <1>1, <2>0, <1>a
  <2>2. ASSUME NEW k \in Kinds, NEW ms \in Delays, SetTimer(a, k, ms)
        PROVE  UNCHANGED <<WorkPending, WorkState>>
    BY <2>0, <2>2, <1>b, <1>c DEF SetTimer
  <2>3. ASSUME NEW k \in Kinds, NEW i \in 0..Bound[k], ClearTimer(a, k, i)
        PROVE  Running /\ Running' /\ \E x \in AllWork : Ends(x)
    <3>1. /\ i \in store[k] /\ store' = [store EXCEPT ![k] = @ \ {i}]
          /\ pc' = [pc EXCEPT ![a] = "clear"] /\ killed' = killed
      BY <2>3 DEF ClearTimer
    <3>2. i \in Ids
      BY <3>1, StoredIds
    <3>3. <<k, i>> \in StoredTimers /\ StoredTimers' = StoredTimers \ {<<k, i>>}
      BY <3>1, <3>2, StoreRemoves
    <3>4. Finished' = Finished /\ ScriptPending' = ScriptPending /\ ShellsPending' = ShellsPending
      BY <3>1, <2>0, <1>c DEF ShellsPending
    <3>5. Ends(<<k, i>>)
      BY <3>3, <3>4, WorkDisjoint DEF Ends, WorkPending, AllWork, ScriptPending
    <3> QED BY <2>1, <3>1, <3>4, <3>5 DEF Running, WorkState, Ends
  <2>4. CASE ShAsync(a)
    BY <2>0, <2>4, <1>b, <1>c DEF ShAsync
  <2>5. CASE Exit(a)
    BY <2>1, <2>5 DEF Exit, WorkState, WorkPending, ScriptPending, StoredTimers, ShellsPending,
                      BusyShells
  <2> QED BY <1>1, <2>2, <2>3, <2>4, <2>5 DEF UserCode
<1>2. ASSUME Alive, NEW a \in Actors, NativeStep(a)
      PROVE  \/ UNCHANGED <<WorkPending, WorkState>>
             \/ Running /\ Running' /\ WorkPending # {} /\ \E x \in AllWork : Begins(x)
  <2>0. InUserCode(a)
    BY <1>2 DEF NativeStep, ReadId, CountTimer, CreateTimer, Bind, SignalCleared, CountShell, CreateShell
  <2>1. Running /\ WorkPending # {} /\ ~Finished
    BY <1>2, <2>0, <1>a
  <2>2. CASE ReadId(a) \/ CountTimer(a) \/ SignalCleared(a) \/ CountShell(a)
    <3>1. /\ UNCHANGED <<store, killed>>
          /\ \E l \in UserLabels : pc' = [pc EXCEPT ![a] = l]
      BY <2>2 DEF ReadId, CountTimer, SignalCleared, CountShell
    <3> QED BY <2>0, <3>1, <1>b, <1>c
  <2>3. CASE CreateTimer(a)
    <3>1. PICK t \in Timers : /\ pc[t] = "free"
                              /\ pc' = [pc EXCEPT ![t] = "sleep", ![a] = "bind"]
      BY <2>3 DEF CreateTimer, StartTimer, Unused, Disciplined
    <3>2. UNCHANGED <<store, killed>> /\ pc[a] = "create_timer"
      BY <2>3 DEF CreateTimer
    <3>3. Finished' = Finished /\ ScriptPending' = ScriptPending /\ BusyShells' = BusyShells
      BY <3>1, <3>2 DEF ScriptPending, BusyShells
    <3> QED BY <3>2, <3>3, <1>b
  <2>4. CASE Bind(a)
    <3> DEFINE k == call[a].kind
               i == call[a].id
    <3>1. /\ pc[a] = "bind" /\ pc' = [pc EXCEPT ![a] = "js"] /\ killed' = killed
          /\ store' = [store EXCEPT ![k] = @ \cup {i}]
      BY <2>4 DEF Bind
    <3>2. k \in Kinds /\ i # NullKey /\ i \notin store[k] /\ i = last_id[k] /\ i \in Nat
      BY <3>1 DEF StoreInv, IdsFresh
    <3>3. i \in Ids
      <4>1. last_id[k] <= MaxTimeouts + MaxIntervals
        BY <3>2, StoredIds
      <4> QED BY <3>2, <4>1 DEF Ids, NullKey
    <3>4. Finished' = Finished /\ ScriptPending' = ScriptPending /\ ShellsPending' = ShellsPending
      BY <3>1, <2>0, <1>c DEF ShellsPending
    <3> HIDE DEF k, i
    <3>5. <<k, i>> \notin StoredTimers /\ StoredTimers' = StoredTimers \cup {<<k, i>>}
      BY <3>1, <3>2, <3>3, StoreAdds
    <3>6. <<k, i>> \in Kinds \X Ids /\ <<k, i>> \in StoredTimers'
      BY <3>2, <3>3, <3>5
    <3>7. <<k, i>> \notin ScriptWork /\ <<k, i>> \notin ShellsPending
      BY <3>2 DEF ScriptWork, ShellsPending, Kinds
    <3>8. Begins(<<k, i>>)
      BY <3>4, <3>5, <3>6, <3>7 DEF Begins, WorkPending, AllWork, ScriptPending
    <3> QED BY <2>1, <3>1, <3>4, <3>8 DEF Running, WorkState, Begins
  <2>5. CASE CreateShell(a)
    <3>1. PICK s \in Shells : /\ pc[s] = "free"
                              /\ pc' = [pc EXCEPT ![s] = "child", ![a] = "js"]
      BY <2>5 DEF CreateShell, Disciplined
    <3>2. UNCHANGED <<store, killed>> /\ pc[a] = "create_shell"
      BY <2>5 DEF CreateShell
    <3>3. Finished' = Finished /\ ScriptPending' = ScriptPending /\ StoredTimers' = StoredTimers
      BY <3>1, <3>2 DEF ScriptPending, StoredTimers
    <3>4. s \notin BusyShells /\ BusyShells' = BusyShells \cup {s}
      BY <3>1, <3>2 DEF BusyShells
    <3>5. /\ <<"shell", s>> \notin ShellsPending
          /\ ShellsPending' = ShellsPending \cup {<<"shell", s>>}
      BY <3>4 DEF ShellsPending
    <3>6. Begins(<<"shell", s>>)
      BY <3>3, <3>5, WorkDisjoint DEF Begins, WorkPending, AllWork, ScriptPending
    <3> QED BY <2>1, <3>2, <3>3, <3>6 DEF Running, WorkState, Begins
  <2> QED BY <1>2, <2>2, <2>3, <2>4, <2>5 DEF NativeStep
<1>3. ASSUME Alive, NEW t \in Timers, TimerStep(t)
      PROVE  \/ UNCHANGED <<WorkPending, WorkState>>
             \/ Running /\ Running' /\ \E x \in AllWork : Ends(x)
  <2>1. pc'[Main] = pc[Main] /\ killed' = killed
    BY <1>3 DEF TimerStep, SleepFails, Wake, RunTimer, EndTimeout, FinishTimeout, EndInterval,
                Rearm, StartTimer, Unused, ThrowInterval, UnlockTimer
  <2>2. \A s \in Shells : pc'[s] = pc[s]
    BY <1>3 DEF TimerStep, SleepFails, Wake, RunTimer, EndTimeout, FinishTimeout, EndInterval,
                Rearm, StartTimer, Unused, ThrowInterval, UnlockTimer
  <2>3. Finished' = Finished /\ ScriptPending' = ScriptPending /\ BusyShells' = BusyShells
    BY <2>1, <2>2 DEF ScriptPending, BusyShells
  <2>4. CASE EndTimeout(t)
    <3>1. pc[t] = "js" /\ timer[t].kind = "timeout"
          /\ store' = [store EXCEPT !["timeout"] = @ \ {timer[t].id}]
      BY <2>4 DEF EndTimeout
    <3>2. timer[t].id \in store["timeout"] /\ "timeout" \in Kinds
      BY <3>1 DEF StoreInv, RunningStored, Kinds
    <3>3. timer[t].id \in Ids
      BY <3>2, StoredIds
    <3>4. /\ <<"timeout", timer[t].id>> \in StoredTimers
          /\ StoredTimers' = StoredTimers \ {<<"timeout", timer[t].id>>}
      BY <3>1, <3>2, <3>3, StoreRemoves
    <3> DEFINE x == <<"timeout", timer[t].id>>
    <3>a. ShellsPending' = ShellsPending
      BY <2>3 DEF ShellsPending
    <3>b. x \in Kinds \X Ids
      BY <3>2, <3>3
    <3> HIDE DEF x
    <3>c. x \in StoredTimers /\ StoredTimers' = StoredTimers \ {x}
      BY <3>4 DEF x
    <3>5. Ends(x)
      BY <2>3, <3>a, <3>b, <3>c, WorkDisjoint DEF Ends, WorkPending, AllWork, ScriptPending
    <3>6. Running /\ ~Finished
      BY <1>3, <3>1, <1>a
    <3> QED BY <2>1, <2>3, <3>5, <3>6 DEF Running, WorkState, Ends
  <2>5. CASE ~EndTimeout(t)
    <3>1. store' = store
      BY <1>3, <2>5 DEF TimerStep, SleepFails, Wake, RunTimer, FinishTimeout, EndInterval, Rearm,
                        ThrowInterval, UnlockTimer
    <3> QED BY <3>1, <2>1, <2>3, <1>b
  <2> QED BY <2>4, <2>5
<1>4. ASSUME Alive, NEW s \in Shells, ShellStep(s)
      PROVE  \/ UNCHANGED <<WorkPending, WorkState>>
             \/ Running /\ Running' /\ \E x \in AllWork : Ends(x)
  <2>1. UNCHANGED <<store, killed>> /\ pc'[Main] = pc[Main]
    BY <1>4 DEF ShellStep, ChildEnds, EndShell, CompleteShell
  <2>2. Finished' = Finished /\ ScriptPending' = ScriptPending /\ StoredTimers' = StoredTimers
    BY <2>1 DEF ScriptPending, StoredTimers
  <2>3. CASE ChildEnds(s) \/ EndShell(s)
    <3>1. BusyShells' = BusyShells
      BY <2>3 DEF ChildEnds, EndShell, BusyShells
    <3> QED BY <2>1, <2>2, <3>1, <1>b
  <2>4. CASE CompleteShell(s)
    <3>1. s \in BusyShells /\ BusyShells' = BusyShells \ {s}
      BY <2>4 DEF CompleteShell, BusyShells
    <3>2. <<"shell", s>> \in ShellsPending /\ ShellsPending' = ShellsPending \ {<<"shell", s>>}
      BY <3>1 DEF ShellsPending
    <3>3. Ends(<<"shell", s>>)
      BY <2>2, <3>2, WorkDisjoint DEF Ends, WorkPending, AllWork, ScriptPending
    <3>4. ~Finished
      BY <3>1 DEF NoEarlyExit
    <3> QED BY <1>4, <2>1, <2>2, <3>3, <3>4 DEF Running, WorkState, Ends, Alive
  <2> QED BY <1>4, <2>3, <2>4 DEF ShellStep
<1>5. ASSUME Alive, MainStep
      PROVE  \/ UNCHANGED <<WorkPending, WorkState>>
             \/ Running /\ Running' /\ \E x \in AllWork : Ends(x)
             \/ Running /\ WorkPending = {} /\ WorkState' = "finished" /\ UNCHANGED WorkPending
  <2>1. UNCHANGED <<store, killed>> /\ BusyShells' = BusyShells /\ ~killed
    BY <1>5 DEF MainStep, Evaluate, EndEvaluate, BlockUntilTasksComplete, EngineShutdown,
                ReturnFromMain, BusyShells, Alive
  <2>2. StoredTimers' = StoredTimers /\ ShellsPending' = ShellsPending
    BY <2>1 DEF StoredTimers, ShellsPending
  <2>3. CASE Evaluate \/ EngineShutdown \/ ReturnFromMain
    <3>1. Finished' = Finished /\ ScriptPending' = ScriptPending
      BY <2>3 DEF Evaluate, EngineShutdown, ReturnFromMain, ScriptPending
    <3> QED BY <2>1, <3>1, <1>b
  <2>4. CASE EndEvaluate
    <3>1. pc[Main] = "js" /\ pc' = [pc EXCEPT ![Main] = IF evals = 1 THEN "block" ELSE "next"]
      BY <2>4 DEF EndEvaluate
    <3>2. ~Finished /\ ~Finished'
      BY <3>1
    <3>3. CASE evals = 1
      <4>1. ScriptPending = ScriptWork /\ ScriptPending' = {}
        BY <3>1, <3>3 DEF ScriptPending
      <4>2. Ends(<<"script", NullKey>>)
        BY <4>1, <2>2, WorkDisjoint DEF Ends, WorkPending, AllWork, ScriptWork
      <4> QED BY <2>1, <3>2, <4>2 DEF Running, WorkState, Ends
    <3>4. CASE evals # 1
      <4>1. ScriptPending' = ScriptPending
        BY <3>1, <3>4 DEF ScriptPending
      <4> QED BY <2>1, <3>2, <4>1, <1>b
    <3> QED BY <3>3, <3>4
  <2>5. CASE BlockUntilTasksComplete
    <3>1. /\ pc[Main] = "block" /\ pc' = [pc EXCEPT ![Main] = "shutdown"]
          /\ tasks_outstanding = 0
      BY <2>5 DEF BlockUntilTasksComplete
    <3>2. (\A k \in Kinds : store[k] = {}) /\ BusyShells = {}
      BY <3>1, ZeroMeansDone
    <3>3. StoredTimers = {}
      BY <3>2, TimerPairs DEF StoredTimers
    <3>4. ScriptPending = {} /\ ScriptPending' = {}
      BY <3>1 DEF ScriptPending
    <3>5. WorkPending = {} /\ WorkPending' = {}
      BY <2>2, <3>2, <3>3, <3>4 DEF WorkPending, ShellsPending
    <3> QED BY <2>1, <3>1, <3>5 DEF Running, WorkState
  <2> QED BY <1>5, <2>3, <2>4, <2>5 DEF MainStep
<1>6. CASE UNCHANGED vars
  <2>1. Finished' = Finished /\ ScriptPending' = ScriptPending /\ BusyShells' = BusyShells
    BY <1>6 DEF vars, ScriptPending, BusyShells
  <2> QED BY <1>6, <2>1, <1>b DEF vars
<1> QED BY <1>1, <1>2, <1>3, <1>4, <1>5, <1>6 DEF Next, Ended

(* The event loop implements the safety part of AsyncWork for disciplined  *)
(* programs: every step of timers.c, functions.c, shell.c and main.c       *)
(* begins or ends at most one piece of work, only pending work begins      *)
(* more, and main goes on to its end only when nothing is pending.         *)
THEOREM LoopIsSafe == ASSUME Disciplined PROVE Spec => Promised!Safety
<1>1. Init => Promised!Init
  <2> SUFFICES ASSUME Init PROVE Promised!Init
    OBVIOUS
  <2>1. pc[Main] = "next" /\ ~killed /\ BusyShells = {}
    BY ConstantsAssumption DEF Init, Actors, BusyShells
  <2>2. StoredTimers = {}
    <3>1. \A k \in Kinds : store[k] = {}
      BY DEF Init
    <3> QED BY <3>1, TimerPairs DEF StoredTimers
  <2> QED BY <2>1, <2>2 DEF Promised!Init, ScriptWork, Finished
<1>2. TypeOK /\ StoreInv /\ CounterIsExact /\ NoEarlyExit /\ [Next]_vars
        => [Promised!Next]_(Promised!workVars)
  <2> SUFFICES ASSUME TypeOK, StoreInv, CounterIsExact, NoEarlyExit, [Next]_vars
               PROVE  [Promised!Next]_(Promised!workVars)
    OBVIOUS
  <2> QED BY WorkStep DEF Running, Begins, Ends, AllWork, WorkPending, WorkState, ScriptPending,
             ShellsPending, Promised!Next, Promised!Begin, Promised!End, Promised!Finish,
             Promised!Kill, Promised!workVars
<1> QED BY <1>1, <1>2, TypeCorrect, StoresSound, CounterExact, NeverExitsEarly, PTL
        DEF Spec, Promised!Safety
-----------------------------------------------------------------------------
(* What becomes of each timer, for disciplined programs: a timeout fires   *)
(* at most once, never after it was cleared, and none is lost; what is     *)
(* left when the JavaScript context is released has nothing to call; and,  *)
(* if delays are not negative and intervals do not throw, every entry of a *)
(* store has a thread that comes for it.                                   *)

(* The strengthening: where the id of a timeout can be, and which thread   *)
(* has it.  Each id handed out is being set, in the store, or in a         *)
(* history; each is known to one thread at most; and the history of a      *)
(* thread's timeout agrees with the place the thread is at.                *)
BeingSet(a) == pc[a] \in {"create_timer", "bind"} /\ call[a].kind = "timeout"
OfTimeout(t) == timer[t].kind = "timeout"

HistoryFits ==
  /\ fired \cap cleared = {}
  /\ fired \cup cleared \subseteq 1..last_id["timeout"]
  /\ cleared \cap store["timeout"] = {}
  /\ \A a \in Actors : BeingSet(a) => call[a].id \notin fired \cup cleared
  /\ \A i \in 1..last_id["timeout"] : \/ i \in fired \cup cleared \cup store["timeout"]
                                      \/ \E a \in Actors : BeingSet(a) /\ call[a].id = i

ThreadsFit ==
  /\ \A t \in Timers : OfTimeout(t) => timer[t].id <= last_id["timeout"]
  /\ \A t, u \in Timers : /\ OfTimeout(t) /\ OfTimeout(u)
                          /\ timer[t].id = timer[u].id
                          /\ timer[t].id # NullKey
                          => t = u
  /\ \A a \in Actors, t \in Timers : pc[a] = "create_timer" /\ BeingSet(a) /\ OfTimeout(t) =>
                                       timer[t].id # call[a].id
  /\ \A t \in Timers : pc[t] \in {"sleep", "enter"} =>
                         timer[t].id # NullKey /\ (OfTimeout(t) => timer[t].id \notin fired)
  /\ \A t \in Timers : InUserCode(t) /\ OfTimeout(t) => timer[t].id \in fired
  /\ \A t \in Timers : pc[t] = "rearm" => ~OfTimeout(t)

TimeoutsInv == HistoryFits /\ ThreadsFit

(* Steps that touch neither a store nor a history nor the timer of a       *)
(* thread, and take no thread to a place where more is asked of it.        *)
LEMMA QuietStep ==
  ASSUME TimeoutsInv, UNCHANGED <<last_id, store, timer, fired, cleared>>,
         \A a \in Actors : /\ BeingSet(a)' <=> BeingSet(a)
                           /\ BeingSet(a) => call'[a] = call[a]
                           /\ BeingSet(a) /\ pc'[a] = "create_timer" => pc[a] = "create_timer",
         \A t \in Timers : /\ pc'[t] \in {"sleep", "enter"} => pc[t] \in {"sleep", "enter"}
                           /\ InUserCode(t)' => InUserCode(t)
                           /\ pc'[t] = "rearm" => pc[t] = "rearm" \/ ~OfTimeout(t)
  PROVE  TimeoutsInv'
<1> USE DEF TimeoutsInv, OfTimeout
<1>1. HistoryFits'
  BY DEF HistoryFits
<1>2. ThreadsFit'
  BY DEF ThreadsFit
<1> QED BY <1>1, <1>2

THEOREM TimeoutsSound == ASSUME Disciplined PROVE Spec => []TimeoutsInv
<1> USE ConstantsAssumption DEF Actors, UserLabels, Goto, InUserCode, NullKey, Kinds
<1>1. Init => TimeoutsInv
  BY DEF Init, TimeoutsInv, HistoryFits, ThreadsFit, BeingSet, NoTimer
<1>2. TypeOK /\ StoreInv /\ TimeoutsInv /\ [Next]_vars => TimeoutsInv'
  <2> SUFFICES ASSUME TypeOK, StoreInv, TimeoutsInv, [Next]_vars PROVE TimeoutsInv'
    OBVIOUS
  <2> USE DEF TypeOK, TimerRecords
  <2>1. ASSUME NEW a \in Actors, UserCode(a) PROVE TimeoutsInv'
    <3>1. ASSUME NEW k \in Kinds, NEW ms \in Delays, SetTimer(a, k, ms) PROVE TimeoutsInv'
      <4>1. /\ pc[a] = "js" /\ pc' = [pc EXCEPT ![a] = "read_id"]
            /\ call' = [call EXCEPT ![a] = [kind |-> k, id |-> 0, delay |-> ms]]
            /\ UNCHANGED <<last_id, store, timer, fired, cleared>>
        BY <3>1, Disciplined DEF SetTimer, Disciplined
      <4> QED BY <4>1, QuietStep DEF BeingSet
    <3>2. ASSUME NEW k \in Kinds, NEW i \in 0..Bound[k], ClearTimer(a, k, i) PROVE TimeoutsInv'
      <4>1. /\ i \in store[k] /\ store' = [store EXCEPT ![k] = @ \ {i}]
            /\ cleared' = IF k = "timeout" /\ i \notin fired THEN cleared \cup {i} ELSE cleared
            /\ pc[a] = "js" /\ pc' = [pc EXCEPT ![a] = "clear"]
            /\ UNCHANGED <<last_id, call, timer, fired>>
        BY <3>2 DEF ClearTimer
      <4>2. i \in 1..last_id[k] /\ last_id["timeout"] \in Nat
        BY <4>1 DEF StoreInv, IdsFresh
      <4>3. \A b \in Actors : /\ BeingSet(b)' <=> BeingSet(b)
                              /\ BeingSet(b) => call[b].id \notin store["timeout"]
        BY <4>1 DEF BeingSet, StoreInv, IdsFresh
      <4>4. HistoryFits'
        BY <4>1, <4>2, <4>3 DEF TimeoutsInv, HistoryFits
      <4>5. ThreadsFit'
        BY <4>1, <4>3 DEF TimeoutsInv, ThreadsFit, OfTimeout
      <4> QED BY <4>4, <4>5 DEF TimeoutsInv
    <3>3. CASE ShAsync(a)
      BY <3>3, QuietStep DEF ShAsync, BeingSet
    <3>4. CASE Exit(a)
      BY <3>4, QuietStep DEF Exit, BeingSet
    <3> QED BY <2>1, <3>1, <3>2, <3>3, <3>4 DEF UserCode
  <2>2. ASSUME NEW a \in Actors, NativeStep(a) PROVE TimeoutsInv'
    <3>1. CASE ReadId(a)
      BY <3>1, QuietStep DEF ReadId, BeingSet
    <3>2. CASE CountTimer(a)
      <4>1. /\ pc[a] = "count_timer" /\ pc' = [pc EXCEPT ![a] = "create_timer"]
            /\ last_id' = [last_id EXCEPT ![call[a].kind] = call[a].id]
            /\ call[a].id = last_id[call[a].kind] + 1
            /\ UNCHANGED <<store, call, timer, fired, cleared>>
        BY <3>2 DEF CountTimer, StoreInv, IdsFresh
      <4>2. \A b \in Actors \ {a} : ~BeingSet(b)
        BY <4>1 DEF StoreInv, SettersLocked, TimerCallLabels, BeingSet
      <4>3. BeingSet(a)' <=> call[a].kind = "timeout"
        BY <4>1 DEF BeingSet
      <4>4. \A b \in Actors \ {a} : ~BeingSet(b)'
        BY <4>1, <4>2 DEF BeingSet
      <4>5. ~BeingSet(a)
        BY <4>1 DEF BeingSet
      <4>6. /\ last_id["timeout"] \in Nat /\ call[a].kind \in Kinds
            /\ last_id'["timeout"] = IF call[a].kind = "timeout" THEN last_id["timeout"] + 1
                                                                 ELSE last_id["timeout"]
        BY <4>1
      <4>7. HistoryFits'
        BY <4>1, <4>2, <4>3, <4>4, <4>5, <4>6, SMTT(30) DEF TimeoutsInv, HistoryFits
      <4>8. ThreadsFit'
        BY <4>1, <4>3, <4>4, <4>6 DEF TimeoutsInv, ThreadsFit, OfTimeout
      <4> QED BY <4>7, <4>8 DEF TimeoutsInv
    <3>3. CASE CreateTimer(a)
      <4>1. PICK t \in Timers : /\ pc[t] = "free"
                                /\ pc' = [pc EXCEPT ![t] = "sleep", ![a] = "bind"]
                                /\ timer' = [timer EXCEPT ![t] = call[a]]
        BY <3>3, Disciplined, DataOfCall DEF CreateTimer, StartTimer, Unused, Disciplined, StoreInv
      <4>2. pc[a] = "create_timer" /\ UNCHANGED <<last_id, store, call, fired, cleared>>
        BY <3>3 DEF CreateTimer
      <4>3. call[a].id = last_id[call[a].kind] /\ call[a].id # 0
        BY <4>2 DEF StoreInv, IdsFresh
      <4>4. \A b \in Actors : BeingSet(b)' <=> BeingSet(b)
        BY <4>1, <4>2 DEF BeingSet
      <4>5. \A b \in Actors : pc[b] = "create_timer" => b = a
        BY <4>2 DEF StoreInv, SettersLocked, TimerCallLabels
      <4>6. HistoryFits'
        BY <4>2, <4>4 DEF TimeoutsInv, HistoryFits
      <4>7. \A b \in Actors : pc'[b] # "create_timer"
        BY <4>1, <4>2, <4>5
      <4>8. \A u \in Timers \ {t} : /\ timer'[u] = timer[u]
                                    /\ pc'[u] \in {"sleep", "enter"} => pc'[u] = pc[u]
                                    /\ InUserCode(u)' => InUserCode(u)
                                    /\ pc'[u] = "rearm" => pc'[u] = pc[u]
        BY <4>1, <4>2
      <4>9. /\ timer'[t] = call[a] /\ pc'[t] = "sleep"
            /\ OfTimeout(t)' <=> BeingSet(a)
            /\ \A u \in Timers \ {t} : OfTimeout(u)' <=> OfTimeout(u)
        BY <4>1, <4>2 DEF OfTimeout, BeingSet
      <4>10. ThreadsFit'
        BY <4>2, <4>3, <4>7, <4>8, <4>9 DEF TimeoutsInv, ThreadsFit, HistoryFits, OfTimeout
      <4> QED BY <4>6, <4>10 DEF TimeoutsInv
    <3>4. CASE Bind(a)
      <4>1. /\ pc[a] = "bind" /\ pc' = [pc EXCEPT ![a] = "js"]
            /\ store' = [store EXCEPT ![call[a].kind] = @ \cup {call[a].id}]
            /\ call' = [call EXCEPT ![a] = NoTimer]
            /\ UNCHANGED <<last_id, timer, fired, cleared>>
        BY <3>4 DEF Bind
      <4>2. \A b \in Actors \ {a} : ~BeingSet(b) /\ ~BeingSet(b)'
        BY <4>1 DEF StoreInv, SettersLocked, TimerCallLabels, BeingSet
      <4>3. ~BeingSet(a)'
        BY <4>1 DEF BeingSet
      <4>4. BeingSet(a) <=> call[a].kind = "timeout"
        BY <4>1 DEF BeingSet
      <4>5. HistoryFits'
        BY <4>1, <4>2, <4>3, <4>4 DEF TimeoutsInv, HistoryFits
      <4>6. ThreadsFit'
        BY <4>1, <4>2, <4>3 DEF TimeoutsInv, ThreadsFit, OfTimeout
      <4> QED BY <4>5, <4>6 DEF TimeoutsInv
    <3>5. CASE SignalCleared(a) \/ CountShell(a)
      BY <3>5, QuietStep DEF SignalCleared, CountShell, BeingSet
    <3>6. CASE CreateShell(a)
      <4>1. PICK s \in Shells : /\ pc[s] = "free"
                                /\ pc' = [pc EXCEPT ![s] = "child", ![a] = "js"]
        BY <3>6, Disciplined DEF CreateShell, Disciplined
      <4> QED BY <3>6, <4>1, QuietStep DEF CreateShell, BeingSet
    <3> QED BY <2>2, <3>1, <3>2, <3>3, <3>4, <3>5, <3>6 DEF NativeStep
  <2>3. ASSUME NEW t \in Timers, TimerStep(t) PROVE TimeoutsInv'
    <3>1. CASE SleepFails(t) \/ UnlockTimer(t)
      <4>1. /\ pc[t] \in {"sleep", "unlock"} /\ pc' = [pc EXCEPT ![t] = "free"]
            /\ timer' = [timer EXCEPT ![t] = NoTimer]
            /\ UNCHANGED <<last_id, store, call, fired, cleared>>
        BY <3>1 DEF SleepFails, UnlockTimer
      <4>2. \A b \in Actors : BeingSet(b)' <=> BeingSet(b)
        BY <4>1 DEF BeingSet
      <4>3. HistoryFits'
        BY <4>1, <4>2 DEF TimeoutsInv, HistoryFits
      <4>4. \A b \in Actors : BeingSet(b) => call[b].id # 0
        BY DEF BeingSet, StoreInv, IdsFresh
      <4>5. ThreadsFit'
        BY <4>1, <4>2, <4>4 DEF TimeoutsInv, ThreadsFit, OfTimeout, NoTimer
      <4> QED BY <4>3, <4>5 DEF TimeoutsInv
    <3>2. CASE Wake(t)
      BY <3>2, QuietStep DEF Wake, BeingSet
    <3>3. CASE RunTimer(t)
      <4>1. CASE timer[t].id \in store[timer[t].kind]
        <5>1. /\ pc[t] = "enter" /\ pc' = [pc EXCEPT ![t] = "js"]
              /\ fired' = IF OfTimeout(t) THEN fired \cup {timer[t].id} ELSE fired
              /\ UNCHANGED <<last_id, store, call, timer, cleared>>
          BY <3>3, <4>1 DEF RunTimer, OfTimeout
        <5>2. \A b \in Actors : /\ BeingSet(b)' <=> BeingSet(b)
                                /\ BeingSet(b) => call[b].id \notin store["timeout"]
          BY <5>1 DEF BeingSet, StoreInv, IdsFresh
        <5>3. OfTimeout(t) => timer[t].id \in 1..last_id["timeout"] /\ timer[t].id \in store["timeout"]
          BY <4>1 DEF OfTimeout, StoreInv, IdsFresh
        <5>4. HistoryFits'
          <6>1. fired' \subseteq fired \cup store["timeout"]
            BY <5>1, <5>3
          <6>2. fired \subseteq fired' /\ fired' \subseteq 1..last_id["timeout"]
            BY <5>1, <5>3 DEF TimeoutsInv, HistoryFits
          <6>3. fired' \cap cleared = {}
            BY <6>1 DEF TimeoutsInv, HistoryFits
          <6>4. \A b \in Actors : BeingSet(b)' => call'[b].id \notin fired' \cup cleared'
            BY <5>1, <5>2, <6>1 DEF TimeoutsInv, HistoryFits
          <6>5. \A i \in 1..last_id'["timeout"] : \/ i \in fired' \cup cleared' \cup store'["timeout"]
                                                 \/ \E b \in Actors : BeingSet(b)' /\ call'[b].id = i
            BY <5>1, <5>2, <6>2 DEF TimeoutsInv, HistoryFits
          <6> QED BY <5>1, <6>2, <6>3, <6>4, <6>5 DEF TimeoutsInv, HistoryFits
        <5>5. ThreadsFit'
          BY <5>1, <5>2, <5>3 DEF TimeoutsInv, ThreadsFit, OfTimeout
        <5> QED BY <5>4, <5>5 DEF TimeoutsInv
      <4>2. CASE timer[t].id \notin store[timer[t].kind]
        BY <3>3, <4>2, QuietStep DEF RunTimer, BeingSet
      <4> QED BY <4>1, <4>2
    <3>4. CASE EndTimeout(t)
      <4>1. /\ pc[t] = "js" /\ OfTimeout(t) /\ pc' = [pc EXCEPT ![t] = "finish"]
            /\ store' = [store EXCEPT !["timeout"] = @ \ {timer[t].id}]
            /\ UNCHANGED <<last_id, call, timer, fired, cleared>>
        BY <3>4 DEF EndTimeout, OfTimeout
      <4>2. timer[t].id \in fired
        BY <4>1 DEF TimeoutsInv, ThreadsFit
      <4>3. \A b \in Actors : BeingSet(b)' <=> BeingSet(b)
        BY <4>1 DEF BeingSet
      <4>4. HistoryFits'
        BY <4>1, <4>2, <4>3 DEF TimeoutsInv, HistoryFits
      <4>5. ThreadsFit'
        BY <4>1, <4>3 DEF TimeoutsInv, ThreadsFit, OfTimeout
      <4> QED BY <4>4, <4>5 DEF TimeoutsInv
    <3>5. CASE Rearm(t)
      <4>1. PICK u \in Timers : /\ pc[u] = "free"
                                /\ pc' = [pc EXCEPT ![u] = "sleep", ![t] = "unlock"]
                                /\ timer' = [timer EXCEPT ![u] = timer[t]]
        BY <3>5, Disciplined DEF Rearm, StartTimer, Unused, Disciplined
      <4>2. pc[t] = "rearm" /\ UNCHANGED <<last_id, store, call, fired, cleared>>
        BY <3>5 DEF Rearm
      <4>3. ~OfTimeout(t) /\ timer[t].id # 0
        BY <4>2 DEF TimeoutsInv, ThreadsFit, StoreInv, RunningStored, IdsFresh
      <4>4. \A b \in Actors : BeingSet(b)' <=> BeingSet(b)
        BY <4>1, <4>2 DEF BeingSet
      <4>5. HistoryFits'
        BY <4>2, <4>4 DEF TimeoutsInv, HistoryFits
      <4>6. ThreadsFit'
        BY <4>1, <4>2, <4>3, <4>4 DEF TimeoutsInv, ThreadsFit, OfTimeout
      <4> QED BY <4>5, <4>6 DEF TimeoutsInv
    <3>6. CASE FinishTimeout(t)
      BY <3>6, QuietStep DEF FinishTimeout, BeingSet
    <3>7. CASE EndInterval(t) \/ ThrowInterval(t)
      BY <3>7, QuietStep DEF EndInterval, ThrowInterval, BeingSet, OfTimeout
    <3> QED BY <2>3, <3>1, <3>2, <3>3, <3>4, <3>5, <3>6, <3>7 DEF TimerStep
  <2>4. ASSUME NEW s \in Shells, ShellStep(s) PROVE TimeoutsInv'
    BY <2>4, QuietStep DEF ShellStep, ChildEnds, EndShell, CompleteShell, BeingSet
  <2>5. CASE MainStep
    <3>1. /\ \E l \in {"js", "block", "next", "shutdown", "return", "returned"} :
               pc' = [pc EXCEPT ![Main] = l]
          /\ pc[Main] \notin {"create_timer", "bind"}
          /\ UNCHANGED <<last_id, store, call, timer, fired, cleared>>
      BY <2>5 DEF MainStep, Evaluate, EndEvaluate, BlockUntilTasksComplete, EngineShutdown,
                  ReturnFromMain
    <3> QED BY <3>1, QuietStep DEF BeingSet
  <2>6. CASE UNCHANGED vars
    BY <2>6, QuietStep DEF vars, BeingSet
  <2> QED BY <2>1, <2>2, <2>3, <2>4, <2>5, <2>6 DEF Next, Ended
<1> QED BY <1>1, <1>2, TypeCorrect, StoresSound, PTL DEF Spec
-----------------------------------------------------------------------------
(* A timeout that was cleared before its callback started never starts it, *)
(* even if its thread was already waiting for eval_lock.                   *)
THEOREM ClearedNeverFire == ASSUME Disciplined PROVE Spec => []ClearedStaysSilent
<1>1. TimeoutsInv => ClearedStaysSilent
  BY DEF TimeoutsInv, HistoryFits, ClearedStaysSilent
<1> QED BY <1>1, TimeoutsSound, PTL

(* Each timeout that was set has fired, or was cleared, by the time main   *)
(* goes past block_until_tasks_complete.                                   *)
THEOREM NoTimeoutIsLost == ASSUME Disciplined PROVE Spec => []EveryTimeoutAccountedFor
<1>1. TypeOK /\ StoreInv /\ TimeoutsInv /\ NoEarlyExit => EveryTimeoutAccountedFor
  <2> SUFFICES ASSUME TypeOK, StoreInv, TimeoutsInv, NoEarlyExit, Finished,
                      NEW i \in 1..last_id["timeout"]
               PROVE  i \in fired \cup cleared
    BY DEF EveryTimeoutAccountedFor
  <2>1. \A a \in Actors : ~BeingSet(a)
    BY DEF NoEarlyExit, InUserCode, UserLabels, BeingSet
  <2>2. i \notin store["timeout"]
    BY DEF NoEarlyExit, NullKey, Kinds, TypeOK
  <2> QED BY <2>1, <2>2 DEF TimeoutsInv, HistoryFits
<1> QED BY <1>1, TypeCorrect, StoresSound, TimeoutsSound, NeverExitsEarly, PTL

(* The callback of a timeout starts at most once. *)
THEOREM FiresAtMostOnce == ASSUME Disciplined PROVE Spec => FiresOnce
<1>1. TimeoutsInv /\ [Next]_vars => [\A t \in Timers : StartsTimeout(t) => timer[t].id \notin fired]_vars
  BY DEF TimeoutsInv, ThreadsFit, OfTimeout, StartsTimeout
<1> QED BY <1>1, TimeoutsSound, PTL DEF Spec, FiresOnce
-----------------------------------------------------------------------------
(* Once main has found nothing outstanding, no timer thread is about to    *)
(* count a task down or to set another timer.                              *)
LeavingInv == /\ ctx = "released" => pc[Main] \in {"return", "returned"}
              /\ Finished => \A t \in Timers : pc[t] \in {"free", "sleep", "enter", "unlock"}

LEMMA NothingComesBack == ASSUME Disciplined PROVE Spec => []LeavingInv
<1> USE ConstantsAssumption DEF Actors, UserLabels, Goto, InUserCode, Finished
<1>1. Init => LeavingInv
  BY DEF Init, LeavingInv
<1>2. TypeOK /\ TypeOK' /\ StoreInv /\ StoreInv' /\ CounterIsExact /\ NoEarlyExit /\ NoEarlyExit'
        /\ LeavingInv /\ [Next]_vars => LeavingInv'
  <2> SUFFICES ASSUME TypeOK, TypeOK', StoreInv, StoreInv', CounterIsExact, NoEarlyExit, NoEarlyExit',
                      LeavingInv, [Next]_vars
               PROVE  LeavingInv'
    OBVIOUS
  <2> USE DEF TypeOK, TimerRecords
  <2>1. \A k \in Kinds : NullKey \notin store[k] /\ NullKey \notin store'[k]
    BY DEF StoreInv, IdsFresh, NullKey
  <2>2. ASSUME NEW a \in Actors, UserCode(a) \/ NativeStep(a) PROVE LeavingInv'
    <3>1. pc[a] \in UserLabels /\ pc'[a] \in UserLabels /\ UNCHANGED ctx
      BY <2>2, Disciplined DEF UserCode, SetTimer, ClearTimer, ShAsync, Exit, NativeStep, ReadId,
             CountTimer, CreateTimer, StartTimer, Unused, Bind, SignalCleared, CountShell, CreateShell
    <3>2. ~Finished /\ ~Finished'
      BY <3>1 DEF NoEarlyExit
    <3> QED BY <3>1, <3>2 DEF LeavingInv
  <2>3. ASSUME NEW t \in Timers, TimerStep(t) PROVE LeavingInv'
    <3>1. pc'[Main] = pc[Main] /\ UNCHANGED ctx
      BY <2>3 DEF TimerStep, SleepFails, Wake, RunTimer, EndTimeout, FinishTimeout, EndInterval,
                  Rearm, StartTimer, Unused, ThrowInterval, UnlockTimer
    <3>2. ASSUME Finished PROVE \E l \in {"free", "enter", "unlock"} : pc' = [pc EXCEPT ![t] = l]
      <4>1. pc[t] \in {"free", "sleep", "enter", "unlock"}
        BY <3>2 DEF LeavingInv
      <4>2. timer[t].id \notin store[timer[t].kind]
        BY <2>1, <3>2 DEF NoEarlyExit, NullKey
      <4> QED BY <2>3, <4>1, <4>2 DEF TimerStep, SleepFails, Wake, RunTimer, EndTimeout, FinishTimeout,
                                     EndInterval, Rearm, ThrowInterval, UnlockTimer
    <3> QED BY <3>1, <3>2 DEF LeavingInv
  <2>4. ASSUME NEW s \in Shells, ShellStep(s) PROVE LeavingInv'
    BY <2>4 DEF ShellStep, ChildEnds, EndShell, CompleteShell, LeavingInv
  <2>5. CASE MainStep
    <3>1. CASE BlockUntilTasksComplete
      <4>1. CountingActors = {} /\ \A k \in Kinds : store[k] = {}
        BY <3>1, ZeroMeansDone DEF BlockUntilTasksComplete
      <4>2. \A t \in Timers : pc[t] # "finish"
        BY <4>1 DEF CountingActors
      <4>3. \A t \in Timers : pc[t] # "rearm"
        BY <4>1 DEF StoreInv, RunningStored
      <4>4. \A t \in Timers : pc'[t] = pc[t] /\ ~InUserCode(t)'
        BY <3>1 DEF BlockUntilTasksComplete, NoEarlyExit
      <4> QED BY <3>1, <4>2, <4>3, <4>4 DEF BlockUntilTasksComplete, LeavingInv, TimerLabels
    <3>2. CASE ~BlockUntilTasksComplete
      BY <2>5, <3>2 DEF MainStep, Evaluate, EndEvaluate, EngineShutdown, ReturnFromMain, LeavingInv
    <3> QED BY <3>1, <3>2
  <2>6. CASE UNCHANGED vars
    BY <2>6 DEF vars, LeavingInv
  <2> QED BY <2>2, <2>3, <2>4, <2>5, <2>6 DEF Next, Ended
<1> QED BY <1>1, <1>2, TypeCorrect, StoresSound, CounterExact, NeverExitsEarly, PTL DEF Spec

(* engine_shutdown releases the context under the threads of timers; those *)
(* that are left sleep or wait for nothing: their timers were cleared.     *)
THEOREM EngineIsOutlivedByClearedTimers ==
  ASSUME Disciplined PROVE Spec => []OnlyClearedTimersOutliveTheEngine
<1>1. TypeOK /\ StoreInv /\ TimeoutsInv /\ NoEarlyExit /\ EveryTimeoutAccountedFor /\ LeavingInv
        => OnlyClearedTimersOutliveTheEngine
  <2> SUFFICES ASSUME TypeOK, StoreInv, TimeoutsInv, NoEarlyExit, EveryTimeoutAccountedFor, LeavingInv,
                      ctx = "released", NEW t \in Timers, pc[t] \notin {"free", "unlock"}
               PROVE  /\ pc[t] \in {"sleep", "enter"}
                      /\ timer[t].id \notin store[timer[t].kind]
                      /\ timer[t].kind = "timeout" => timer[t].id \in cleared
    BY DEF OnlyClearedTimersOutliveTheEngine
  <2>1. Finished /\ pc[t] \in {"sleep", "enter"}
    BY DEF LeavingInv, Finished
  <2>2. timer[t].id \in Nat \ {0} /\ timer[t].kind \in Kinds
    BY <2>1 DEF TimeoutsInv, ThreadsFit, TypeOK, TimerRecords, NullKey
  <2>3. timer[t].id \notin store[timer[t].kind]
    BY <2>1, <2>2 DEF NoEarlyExit, NullKey
  <2>4. ASSUME timer[t].kind = "timeout" PROVE timer[t].id \in cleared
    <3>1. timer[t].id \notin fired /\ timer[t].id <= last_id["timeout"] /\ last_id["timeout"] \in Nat
      BY <2>1, <2>4 DEF TimeoutsInv, ThreadsFit, OfTimeout, TypeOK, Kinds
    <3> QED BY <2>1, <2>2, <3>1 DEF EveryTimeoutAccountedFor
  <2> QED BY <2>1, <2>3, <2>4
<1> QED BY <1>1, TypeCorrect, StoresSound, TimeoutsSound, NeverExitsEarly, NoTimeoutIsLost,
           NothingComesBack, PTL
-----------------------------------------------------------------------------
(* If no delay is negative and no interval throws, a thread comes for each *)
(* entry of a store; for the one that is about to be stored, it sleeps: it *)
(* cannot wake up before the setter has given eval_lock back.              *)
Patient == "negative" \notin Delays /\ "interval_throws" \notin Habits

OnDuty == UserLabels \cup {"sleep", "enter", "rearm"}

SettersServed == \A a \in Actors : pc[a] = "bind" =>
                   \E t \in Timers : /\ timer[t].kind = call[a].kind
                                     /\ timer[t].id = call[a].id
                                     /\ pc[t] = "sleep"

DelaysValid == /\ \A t \in Timers : timer[t].delay = "valid"
               /\ \A a \in Actors : call[a].delay = "valid"

DutyInv == NoOrphanTimer /\ SettersServed /\ DelaysValid

(* Steps that leave the timers of threads alone, and take a thread off     *)
(* duty only if its timer is not in a store.                               *)
LEMMA DutyStep ==
  ASSUME TypeOK, DutyInv, UNCHANGED timer, \A k \in Kinds : store'[k] \subseteq store[k],
         \A t \in Timers : /\ pc[t] \in OnDuty => pc'[t] \in OnDuty \/
                                                 timer[t].id \notin store'[timer[t].kind]
                           /\ pc[t] = "sleep" => pc'[t] = "sleep" \/ \A a \in Actors : pc[a] # "bind",
         \A a \in Actors : /\ pc'[a] = "bind" => pc[a] = "bind" /\ call'[a] = call[a]
                           /\ call'[a].delay = "valid"
  PROVE  DutyInv'
<1> USE DEF DutyInv
<1>1. NoOrphanTimer'
  BY DEF NoOrphanTimer, OnDuty
<1>2. SettersServed'
  <2> SUFFICES ASSUME NEW a \in Actors, pc'[a] = "bind"
               PROVE  \E t \in Timers : /\ timer'[t].kind = call'[a].kind
                                        /\ timer'[t].id = call'[a].id
                                        /\ pc'[t] = "sleep"
    BY DEF SettersServed
  <2>1. PICK t \in Timers : /\ timer[t].kind = call[a].kind
                            /\ timer[t].id = call[a].id
                            /\ pc[t] = "sleep"
    BY DEF SettersServed
  <2> QED BY <2>1
<1>3. DelaysValid'
  BY DEF DelaysValid
<1> QED BY <1>1, <1>2, <1>3

(* A timer in a store has a thread that is going to run it: for programs   *)
(* that are also Patient, no entry keeps the process waiting for nobody.   *)
THEOREM NoTimerIsOrphaned == ASSUME Disciplined, Patient PROVE Spec => []NoOrphanTimer
<1> USE ConstantsAssumption DEF Actors, UserLabels, Goto, InUserCode, NullKey, OnDuty
<1>1. Init => DutyInv
  BY DEF Init, DutyInv, NoOrphanTimer, SettersServed, DelaysValid, NoTimer
<1>2. TypeOK /\ StoreInv /\ TimeoutsInv /\ DutyInv /\ [Next]_vars => DutyInv'
  <2> SUFFICES ASSUME TypeOK, StoreInv, TimeoutsInv, DutyInv, [Next]_vars PROVE DutyInv'
    OBVIOUS
  <2> USE DEF TypeOK, TimerRecords
  <2>v. DelaysValid
    BY DEF DutyInv
  <2>1. ASSUME NEW a \in Actors, UserCode(a) PROVE DutyInv'
    <3>1. ASSUME NEW k \in Kinds, NEW ms \in Delays, SetTimer(a, k, ms) PROVE DutyInv'
      <4>1. ms = "valid"
        BY Disciplined, Patient, ConstantsAssumption DEF Disciplined, Patient, DelayKinds
      <4>2. /\ pc[a] = "js" /\ pc' = [pc EXCEPT ![a] = "read_id"]
            /\ call' = [call EXCEPT ![a] = [kind |-> k, id |-> 0, delay |-> ms]]
            /\ UNCHANGED <<store, timer>>
        BY <3>1, <4>1 DEF SetTimer
      <4> QED BY <2>v, <4>1, <4>2, DutyStep DEF DelaysValid
    <3>2. ASSUME NEW k \in Kinds, NEW i \in 0..Bound[k], ClearTimer(a, k, i) PROVE DutyInv'
      BY <2>v, <3>2, DutyStep DEF ClearTimer, DelaysValid
    <3>3. CASE ShAsync(a) \/ Exit(a)
      BY <2>v, <3>3, DutyStep DEF ShAsync, Exit, DelaysValid
    <3> QED BY <2>1, <3>1, <3>2, <3>3 DEF UserCode
  <2>2. ASSUME NEW a \in Actors, NativeStep(a) PROVE DutyInv'
    <3>1. CASE ReadId(a) \/ CountTimer(a)
      BY <2>v, <3>1, DutyStep DEF ReadId, CountTimer, DelaysValid
    <3>2. CASE CreateTimer(a)
      <4>1. PICK t \in Timers : /\ pc[t] = "free"
                                /\ pc' = [pc EXCEPT ![t] = "sleep", ![a] = "bind"]
                                /\ timer' = [timer EXCEPT ![t] = call[a]]
        BY <3>2, Disciplined, DataOfCall DEF CreateTimer, StartTimer, Unused, Disciplined, StoreInv
      <4>2. pc[a] = "create_timer" /\ UNCHANGED <<store, call>>
        BY <3>2 DEF CreateTimer
      <4>3. NoOrphanTimer'
        BY <4>1, <4>2 DEF DutyInv, NoOrphanTimer
      <4>4. \A b \in Actors : pc'[b] = "bind" => b = a
        BY <4>1, <4>2 DEF StoreInv, SettersLocked, TimerCallLabels
      <4>5. SettersServed'
        BY <4>1, <4>2, <4>4 DEF SettersServed
      <4>6. DelaysValid'
        BY <2>v, <4>1, <4>2 DEF DelaysValid
      <4> QED BY <4>3, <4>5, <4>6 DEF DutyInv
    <3>3. CASE Bind(a)
      <4>1. /\ pc[a] = "bind" /\ pc' = [pc EXCEPT ![a] = "js"]
            /\ store' = [store EXCEPT ![call[a].kind] = @ \cup {call[a].id}]
            /\ call' = [call EXCEPT ![a] = NoTimer]
            /\ UNCHANGED timer
        BY <3>3 DEF Bind
      <4>2. \E t \in Timers : /\ timer'[t].kind = call[a].kind
                              /\ timer'[t].id = call[a].id
                              /\ pc'[t] = "sleep"
        BY <4>1 DEF DutyInv, SettersServed
      <4>3. \A t \in Timers : pc[t] \in OnDuty => pc'[t] \in OnDuty
        BY <4>1
      <4>4. \A k \in Kinds : \A i \in store'[k] : i \in store[k] \/ (k = call[a].kind /\ i = call[a].id)
        BY <4>1
      <4>5. NoOrphanTimer'
        BY <4>1, <4>2, <4>3, <4>4 DEF DutyInv, NoOrphanTimer
      <4>6. \A b \in Actors : pc'[b] # "bind"
        BY <4>1 DEF StoreInv, SettersLocked, TimerCallLabels
      <4>7. DelaysValid'
        BY <2>v, <4>1 DEF DelaysValid, NoTimer
      <4> QED BY <4>5, <4>6, <4>7 DEF DutyInv, SettersServed
    <3>4. CASE SignalCleared(a) \/ CountShell(a)
      BY <2>v, <3>4, DutyStep DEF SignalCleared, CountShell, DelaysValid
    <3>5. CASE CreateShell(a)
      <4>1. PICK s \in Shells : /\ pc[s] = "free"
                                /\ pc' = [pc EXCEPT ![s] = "child", ![a] = "js"]
        BY <3>5, Disciplined DEF CreateShell, Disciplined
      <4> QED BY <2>v, <3>5, <4>1, DutyStep DEF CreateShell, DelaysValid
    <3> QED BY <2>2, <3>1, <3>2, <3>3, <3>4, <3>5 DEF NativeStep
  <2>3. ASSUME NEW t \in Timers, TimerStep(t) PROVE DutyInv'
    <3>1. ~SleepFails(t) /\ ~ThrowInterval(t)
      BY <2>v, Patient DEF SleepFails, ThrowInterval, DelaysValid, Patient
    <3>2. CASE Wake(t)
      <4>1. \A a \in Actors : pc[a] # "bind"
        BY <3>2 DEF Wake, AcquireEvalLock, StoreInv, SettersLocked, TimerCallLabels
      <4> QED BY <2>v, <3>2, <4>1, DutyStep DEF Wake, DelaysValid
    <3>3. CASE RunTimer(t)
      BY <2>v, <3>3, DutyStep DEF RunTimer, DelaysValid
    <3>4. CASE EndTimeout(t)
      <4>1. timer[t].id \notin store'[timer[t].kind] /\ \A k \in Kinds : store'[k] \subseteq store[k]
        BY <3>4 DEF EndTimeout, Kinds
      <4> QED BY <2>v, <3>4, <4>1, DutyStep DEF EndTimeout, DelaysValid
    <3>5. CASE FinishTimeout(t) \/ EndInterval(t)
      BY <2>v, <3>5, DutyStep DEF FinishTimeout, EndInterval, DelaysValid
    <3>6. CASE Rearm(t)
      <4>1. PICK u \in Timers : /\ pc[u] = "free"
                                /\ pc' = [pc EXCEPT ![u] = "sleep", ![t] = "unlock"]
                                /\ timer' = [timer EXCEPT ![u] = timer[t]]
        BY <3>6, Disciplined DEF Rearm, StartTimer, Unused, Disciplined
      <4>2. pc[t] = "rearm" /\ UNCHANGED <<store, call>>
        BY <3>6 DEF Rearm
      <4>3. timer'[u] = timer[t] /\ pc'[u] = "sleep" /\ u # t
        BY <4>1, <4>2
      <4>4. \A v \in Timers \ {t, u} : timer'[v] = timer[v] /\ pc'[v] = pc[v]
        BY <4>1, <4>2
      <4>5. NoOrphanTimer'
        <5> SUFFICES ASSUME NEW k \in Kinds, NEW i \in store'[k] \ {NullKey}
                     PROVE  \E v \in Timers : timer'[v].kind = k /\ timer'[v].id = i /\ pc'[v] \in OnDuty
          BY DEF NoOrphanTimer
        <5>1. PICK v \in Timers : timer[v].kind = k /\ timer[v].id = i /\ pc[v] \in OnDuty
          BY <4>2 DEF DutyInv, NoOrphanTimer
        <5> QED BY <5>1, <4>1, <4>3, <4>4
      <4>6. SettersServed'
        BY <4>1, <4>2, <4>3, <4>4 DEF DutyInv, SettersServed
      <4>7. DelaysValid'
        BY <2>v, <4>1, <4>2 DEF DelaysValid
      <4> QED BY <4>5, <4>6, <4>7 DEF DutyInv
    <3>7. CASE UnlockTimer(t)
      <4>1. /\ pc[t] = "unlock" /\ pc' = [pc EXCEPT ![t] = "free"]
            /\ timer' = [timer EXCEPT ![t] = NoTimer]
            /\ UNCHANGED <<store, call>>
        BY <3>7 DEF UnlockTimer
      <4>2. \A v \in Timers \ {t} : timer'[v] = timer[v] /\ pc'[v] = pc[v]
        BY <4>1
      <4>3. NoOrphanTimer'
        <5> SUFFICES ASSUME NEW k \in Kinds, NEW i \in store'[k] \ {NullKey}
                     PROVE  \E v \in Timers : timer'[v].kind = k /\ timer'[v].id = i /\ pc'[v] \in OnDuty
          BY DEF NoOrphanTimer
        <5>1. PICK v \in Timers : timer[v].kind = k /\ timer[v].id = i /\ pc[v] \in OnDuty
          BY <4>1 DEF DutyInv, NoOrphanTimer
        <5> QED BY <5>1, <4>1, <4>2
      <4>4. SettersServed'
        BY <4>1, <4>2 DEF DutyInv, SettersServed
      <4>5. DelaysValid'
        BY <2>v, <4>1 DEF DelaysValid, NoTimer
      <4> QED BY <4>3, <4>4, <4>5 DEF DutyInv
    <3> QED BY <2>3, <3>1, <3>2, <3>3, <3>4, <3>5, <3>6, <3>7 DEF TimerStep
  <2>4. ASSUME NEW s \in Shells, ShellStep(s) PROVE DutyInv'
    BY <2>v, <2>4, DutyStep DEF ShellStep, ChildEnds, EndShell, CompleteShell, DelaysValid
  <2>5. CASE MainStep
    <3>1. /\ \E l \in {"js", "block", "next", "shutdown", "return", "returned"} :
               pc' = [pc EXCEPT ![Main] = l]
          /\ UNCHANGED <<store, call, timer>>
      BY <2>5 DEF MainStep, Evaluate, EndEvaluate, BlockUntilTasksComplete, EngineShutdown,
                  ReturnFromMain
    <3> QED BY <2>v, <3>1, DutyStep DEF DelaysValid
  <2>6. CASE UNCHANGED vars
    BY <2>v, <2>6, DutyStep DEF vars, DelaysValid
  <2> QED BY <2>1, <2>2, <2>3, <2>4, <2>5, <2>6 DEF Next, Ended
<1>3. DutyInv => NoOrphanTimer
  BY DEF DutyInv
<1> QED BY <1>1, <1>2, <1>3, TypeCorrect, StoresSound, TimeoutsSound, PTL DEF Spec
=============================================================================

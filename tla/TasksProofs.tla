----------------------------- MODULE TasksProofs -----------------------------
(***************************************************************************)
(* Proofs about Tasks, for any number of task threads: the counter of      *)
(* tasks.c is exact, and main never sleeps on after a lost wakeup.         *)
(***************************************************************************)
EXTENDS Tasks, FiniteSetTheorems, TLAPS

WorkerLabels == {"idle", "run"} \cup StartedLabels \cup CompleteLabels
MainLabels == {"run", "released"} \cup StartedLabels \cup BlockLabels

(* The types, with the places each kind of thread can be at. *)
Types == /\ TypeOK
         /\ pc[Main] \in MainLabels
         /\ \A w \in Workers : pc[w] \in WorkerLabels

(* A thread between its lock and its unlock holds the mutex. *)
Exclusion == \A t \in Threads : pc[t] \in LockedLabels => tasks_complete_lock = t

(* A thread inside signal_task_started starts one idle task of its own. *)
Starting == /\ \A t \in Threads : pc[t] \in StartedLabels <=> starting[t] # NoOne
            /\ \A t \in Threads : starting[t] # NoOne => pc[starting[t]] = "idle"
            /\ \A t, u \in Threads : starting[t] = starting[u] /\ starting[t] # NoOne => t = u

(* Only main sleeps, and only in its wait. *)
Sleeping == asleep # {} => pc[Main] = "block_wait"

IInv == Types /\ Exclusion /\ Starting /\ Sleeping /\ CounterIsExact /\ NoLostWakeup

LEMMA CountedFinite == IsFiniteSet(Counted) /\ Cardinality(Counted) \in Nat
<1>1. IsFiniteSet(Counted)
  BY ThreadsAssumption, FS_Subset DEF Counted
<1> QED BY <1>1, FS_CardinalityType

-----------------------------------------------------------------------------
(* One element more or less, and nothing at all, counted with Cardinality, *)
(* as tasks_outstanding counts.                                            *)
LEMMA CardinalityPlus ==
  ASSUME NEW S, NEW T, NEW x, IsFiniteSet(S), x \notin S, T = S \cup {x}
  PROVE  Cardinality(T) = Cardinality(S) + 1
BY FS_AddElement

LEMMA CardinalityMinus ==
  ASSUME NEW S, NEW T, NEW x, IsFiniteSet(S), x \in S, T = S \ {x}
  PROVE  Cardinality(T) = Cardinality(S) - 1
BY FS_RemoveElement

LEMMA CardinalityZero ==
  ASSUME NEW S, IsFiniteSet(S), Cardinality(S) = 0
  PROVE  S = {}
BY FS_EmptySet
-----------------------------------------------------------------------------
LEMMA InitInv == Init => IInv
<1> SUFFICES ASSUME Init PROVE IInv
  OBVIOUS
<1> USE ThreadsAssumption DEF Init, Threads, StartedLabels, CompleteLabels, BlockLabels, LockedLabels
<1>1. Types
  BY DEF Types, TypeOK, MainLabels, WorkerLabels
<1>2. Exclusion /\ Starting /\ Sleeping
  BY DEF Exclusion, Starting, Sleeping
<1>3. Counted = {}
  BY DEF Counted
<1>4. CounterIsExact
  BY <1>3, FS_EmptySet DEF CounterIsExact
<1>5. NoLostWakeup
  BY DEF NoLostWakeup
<1> QED BY <1>1, <1>2, <1>4, <1>5 DEF IInv

(* What a step does to the types and the mutex, whichever it is. *)
LEMMA BasicsInductive ==
  ASSUME Types, Exclusion, Starting, Sleeping, [Next]_vars
  PROVE  Types' /\ Exclusion' /\ Starting' /\ Sleeping'
<1> USE ThreadsAssumption DEF Threads, StartedLabels, CompleteLabels, BlockLabels, LockedLabels,
       Types, TypeOK, MainLabels, WorkerLabels, Exclusion, Starting, Sleeping, Goto, Lock, Unlock
<1>1. ASSUME NEW t \in Threads, NEW w \in Workers, CallStarted(t, w)
      PROVE  Types' /\ Exclusion' /\ Starting' /\ Sleeping'
  BY <1>1 DEF CallStarted
<1>2. ASSUME NEW t \in Threads, StartedStep(t)
      PROVE  Types' /\ Exclusion' /\ Starting' /\ Sleeping'
  <2>1. CASE StartedLock(t)
    BY <2>1 DEF StartedLock
  <2>2. CASE StartedCount(t)
    BY <2>2 DEF StartedCount
  <2>3. CASE StartedSignal(t)
    BY <2>3 DEF StartedSignal, CondSignal
  <2>4. CASE StartedUnlock(t)
    BY <2>4 DEF StartedUnlock
  <2> QED BY <1>2, <2>1, <2>2, <2>3, <2>4 DEF StartedStep
<1>3. ASSUME NEW w \in Workers, CallComplete(w) \/ CompleteStep(w)
      PROVE  Types' /\ Exclusion' /\ Starting' /\ Sleeping'
  <2>1. CASE CallComplete(w)
    BY <2>1 DEF CallComplete
  <2>2. CASE CompleteLock(w)
    BY <2>2 DEF CompleteLock
  <2>3. CASE CompleteCount(w)
    BY <2>3 DEF CompleteCount
  <2>4. CASE CompleteSignal(w)
    BY <2>4 DEF CompleteSignal, CondSignal
  <2>5. CASE CompleteUnlock(w)
    BY <2>5 DEF CompleteUnlock
  <2> QED BY <1>3, <2>1, <2>2, <2>3, <2>4, <2>5 DEF CompleteStep
<1>4. CASE CallBlock
  BY <1>4 DEF CallBlock
<1>5. CASE BlockStep
  <2>1. CASE BlockLock
    BY <2>1 DEF BlockLock
  <2>2. CASE BlockDone
    BY <2>2 DEF BlockDone
  <2>3. CASE BlockWait
    BY <2>3 DEF BlockWait
  <2>4. CASE BlockWake
    BY <2>4 DEF BlockWake
  <2>5. CASE BlockUnlock
    BY <2>5 DEF BlockUnlock
  <2> QED BY <1>5, <2>1, <2>2, <2>3, <2>4, <2>5 DEF BlockStep
<1>6. CASE SpuriousWakeup
  BY <1>6 DEF SpuriousWakeup
<1>7. CASE UNCHANGED vars
  BY <1>7 DEF vars
<1> QED BY <1>1, <1>2, <1>3, <1>4, <1>5, <1>6, <1>7 DEF Next, Ended

(* Only the two steps that change the counter change the tasks counted. *)
LEMMA CounterInductive ==
  ASSUME Types, Exclusion, Starting, CounterIsExact, [Next]_vars
  PROVE  CounterIsExact'
<1> USE ThreadsAssumption DEF Threads, StartedLabels, CompleteLabels, BlockLabels, LockedLabels,
       Types, TypeOK, MainLabels, WorkerLabels, Exclusion, Starting, Goto, CounterIsExact
<1>1. ASSUME NEW t \in Threads, NEW w \in Workers, CallStarted(t, w) PROVE CounterIsExact'
  <2>1. Counted' = Counted
    BY <1>1 DEF CallStarted, Counted
  <2> QED BY <1>1, <2>1 DEF CallStarted
<1>2. ASSUME NEW t \in Threads, StartedCount(t) PROVE CounterIsExact'
  <2>1. starting[t] \in Workers /\ starting[t] \notin Counted
    BY <1>2 DEF StartedCount, Counted
  <2>2. Counted' = Counted \cup {starting[t]}
    BY <1>2, <2>1 DEF StartedCount, Counted
  <2>3. Cardinality(Counted') = Cardinality(Counted) + 1
    BY <2>1, <2>2, CountedFinite, CardinalityPlus
  <2> QED BY <1>2, <2>3 DEF StartedCount
<1>3. ASSUME NEW t \in Threads, StartedLock(t) \/ StartedSignal(t) \/ StartedUnlock(t)
      PROVE  CounterIsExact'
  <2>1. Counted' = Counted
    BY <1>3 DEF StartedLock, StartedSignal, StartedUnlock, Counted
  <2> QED BY <1>3, <2>1 DEF StartedLock, StartedSignal, StartedUnlock
<1>4. ASSUME NEW w \in Workers, CompleteCount(w) PROVE CounterIsExact'
  <2>1. w \in Counted
    BY <1>4 DEF CompleteCount, Counted
  <2>2. Counted' = Counted \ {w}
    BY <1>4 DEF CompleteCount, Counted
  <2>3. Cardinality(Counted') = Cardinality(Counted) - 1
    BY <2>1, <2>2, CountedFinite, CardinalityMinus
  <2> QED BY <1>4, <2>3 DEF CompleteCount
<1>5. ASSUME NEW w \in Workers, \/ CallComplete(w) \/ CompleteLock(w)
                                \/ CompleteSignal(w) \/ CompleteUnlock(w)
      PROVE  CounterIsExact'
  <2>1. Counted' = Counted
    BY <1>5 DEF CallComplete, CompleteLock, CompleteSignal, CompleteUnlock, Counted
  <2> QED BY <1>5, <2>1 DEF CallComplete, CompleteLock, CompleteSignal, CompleteUnlock
<1>6. CASE CallBlock \/ BlockStep \/ SpuriousWakeup
  <2>1. Counted' = Counted
    BY <1>6 DEF CallBlock, BlockStep, BlockLock, BlockDone, BlockWait, BlockWake, BlockUnlock,
                SpuriousWakeup, Counted
  <2> QED BY <1>6, <2>1 DEF CallBlock, BlockStep, BlockLock, BlockDone, BlockWait, BlockWake,
                            BlockUnlock, SpuriousWakeup
<1>7. CASE UNCHANGED vars
  <2>1. Counted' = Counted
    BY <1>7 DEF vars, Counted
  <2> QED BY <1>7, <2>1 DEF vars
<1> QED BY <1>1, <1>2, <1>3, <1>4, <1>5, <1>6, <1>7 DEF Next, Ended, StartedStep, CompleteStep

LEMMA WakeupInductive ==
  ASSUME Types, Exclusion, Starting, Sleeping, CounterIsExact, NoLostWakeup, [Next]_vars
  PROVE  NoLostWakeup'
<1> USE ThreadsAssumption DEF Threads, StartedLabels, CompleteLabels, BlockLabels, LockedLabels,
       Types, TypeOK, MainLabels, WorkerLabels, Exclusion, Sleeping, Goto, Lock, Unlock, NoLostWakeup
<1>1. ASSUME NEW t \in Threads, NEW w \in Workers, CallStarted(t, w) PROVE NoLostWakeup'
  BY <1>1 DEF CallStarted
<1>2. ASSUME NEW t \in Threads, StartedStep(t) PROVE NoLostWakeup'
  <2>1. CASE StartedCount(t)
    BY <2>1, CountedFinite DEF StartedCount, CounterIsExact
  <2>2. CASE StartedSignal(t)
    BY <2>2 DEF StartedSignal, CondSignal
  <2>3. CASE StartedLock(t) \/ StartedUnlock(t)
    BY <2>3 DEF StartedLock, StartedUnlock
  <2> QED BY <1>2, <2>1, <2>2, <2>3 DEF StartedStep
<1>3. ASSUME NEW w \in Workers, CallComplete(w) \/ CompleteStep(w) PROVE NoLostWakeup'
  <2>1. CASE CompleteCount(w)
    BY <2>1 DEF CompleteCount
  <2>2. CASE CompleteSignal(w)
    BY <2>2 DEF CompleteSignal, CondSignal
  <2>3. CASE CallComplete(w) \/ CompleteLock(w) \/ CompleteUnlock(w)
    BY <2>3 DEF CallComplete, CompleteLock, CompleteUnlock
  <2> QED BY <1>3, <2>1, <2>2, <2>3 DEF CompleteStep
<1>4. CASE CallBlock \/ BlockStep \/ SpuriousWakeup
  BY <1>4 DEF CallBlock, BlockStep, BlockLock, BlockDone, BlockWait, BlockWake, BlockUnlock,
              SpuriousWakeup
<1>5. CASE UNCHANGED vars
  BY <1>5 DEF vars
<1> QED BY <1>1, <1>2, <1>3, <1>4, <1>5 DEF Next, Ended

LEMMA InvHolds == Spec => []IInv
<1>1. IInv /\ [Next]_vars => IInv'
  BY BasicsInductive, CounterInductive, WakeupInductive DEF IInv
<1> QED BY InitInv, <1>1, PTL DEF Spec

-----------------------------------------------------------------------------
(* However many tasks start and end at once, tasks_outstanding (tasks.c:4) *)
(* is the number of tasks between signal_task_started and                  *)
(* signal_task_complete, so it is never negative.                          *)
THEOREM LatchCounts == Spec => [](TypeOK /\ CounterIsExact)
<1>1. IInv => TypeOK /\ CounterIsExact
  BY DEF IInv, Types
<1> QED BY InvHolds, <1>1, PTL

(* Main never sleeps in block_until_tasks_complete (tasks.c:13) with       *)
(* nothing outstanding, unless the signal that wakes it is still to come   *)
(* from the holder of the mutex.                                           *)
THEOREM WakeupsAreKept == Spec => []NoLostWakeup
<1>1. IInv => NoLostWakeup
  BY DEF IInv
<1> QED BY InvHolds, <1>1, PTL

-----------------------------------------------------------------------------
(* Main is past its loop: nothing is outstanding, and nothing ever will be.*)
AtEnd == pc[Main] \in {"block_unlock", "released"} => tasks_outstanding = 0

LEMMA EndHolds == Spec => []AtEnd
<1> USE ThreadsAssumption DEF Threads, Goto, AtEnd
<1>1. Init => AtEnd
  BY DEF Init
<1>2. AtEnd /\ IInv /\ [Next]_vars => AtEnd'
  <2> SUFFICES ASSUME AtEnd, IInv, [Next]_vars PROVE AtEnd'
    OBVIOUS
  <2> USE DEF IInv, Types, TypeOK, MainLabels, WorkerLabels, StartedLabels, CompleteLabels, BlockLabels
  <2>1. ASSUME NEW t \in Threads, StartedCount(t) PROVE AtEnd'
    <3>1. pc[Main] # "block_unlock"
      BY <2>1 DEF StartedCount, Exclusion, LockedLabels
    <3>2. pc[Main] # "released"
      <4>1. CASE t = Main
        BY <2>1, <4>1 DEF StartedCount
      <4>2. CASE t # Main
        <5>1. t \in Counted
          BY <2>1, <4>2 DEF StartedCount, Counted
        <5>2. tasks_outstanding # 0
          BY <5>1, CountedFinite, CardinalityZero DEF CounterIsExact
        <5> QED BY <5>2
      <4> QED BY <4>1, <4>2
    <3> QED BY <2>1, <3>1, <3>2 DEF StartedCount
  <2>2. ASSUME NEW w \in Workers, CompleteCount(w) PROVE AtEnd'
    <3>1. pc[Main] # "block_unlock"
      BY <2>2 DEF CompleteCount, Exclusion, LockedLabels
    <3>2. w \in Counted
      BY <2>2 DEF CompleteCount, Counted
    <3>3. tasks_outstanding # 0
      BY <3>2, CountedFinite, CardinalityZero DEF CounterIsExact
    <3> QED BY <2>2, <3>1, <3>3 DEF CompleteCount
  <2>3. ASSUME NEW t \in Threads, NEW w \in Workers, CallStarted(t, w) PROVE AtEnd'
    BY <2>3 DEF CallStarted
  <2>4. ASSUME NEW t \in Threads, StartedLock(t) \/ StartedSignal(t) \/ StartedUnlock(t) PROVE AtEnd'
    BY <2>4 DEF StartedLock, StartedSignal, StartedUnlock, Starting
  <2>5. ASSUME NEW w \in Workers, \/ CallComplete(w) \/ CompleteLock(w)
                                  \/ CompleteSignal(w) \/ CompleteUnlock(w)
        PROVE AtEnd'
    BY <2>5 DEF CallComplete, CompleteLock, CompleteSignal, CompleteUnlock
  <2>6. CASE CallBlock \/ BlockStep \/ SpuriousWakeup
    BY <2>6 DEF CallBlock, BlockStep, BlockLock, BlockDone, BlockWait, BlockWake, BlockUnlock,
                SpuriousWakeup
  <2>7. CASE UNCHANGED vars
    BY <2>7 DEF vars
  <2> QED BY <2>1, <2>2, <2>3, <2>4, <2>5, <2>6, <2>7 DEF Next, Ended, StartedStep, CompleteStep
<1> QED BY <1>1, <1>2, InvHolds, PTL DEF Spec

(* The refinement mapping of Tasks, named for the proof. *)
Pending == Counted \cup (IF pc[Main] \in BlockLabels \cup {"released"} THEN {} ELSE {Main})
State == IF pc[Main] = "released" THEN "finished" ELSE "running"

LEMMA MappedStep ==
  ASSUME IInv, AtEnd, [Next]_vars
  PROVE  \/ UNCHANGED <<Pending, State>>
         \/ /\ State = "running" /\ State' = "running"
            /\ Pending # {}
            /\ \E x \in Threads : x \notin Pending /\ Pending' = Pending \cup {x}
         \/ /\ State = "running" /\ State' = "running"
            /\ \E x \in Threads : x \in Pending /\ Pending' = Pending \ {x}
         \/ State = "running" /\ State' = "finished" /\ Pending = {} /\ Pending' = {}
<1> USE ThreadsAssumption DEF Threads, StartedLabels, CompleteLabels, BlockLabels, Goto, Pending, State,
                              IInv, Types, TypeOK, MainLabels, WorkerLabels
<1>1. ASSUME NEW t \in Threads, StartedCount(t)
      PROVE  /\ State = "running" /\ State' = "running"
             /\ Pending # {}
             /\ \E x \in Threads : x \notin Pending /\ Pending' = Pending \cup {x}
  <2>1. starting[t] \in Workers /\ starting[t] \notin Counted
    BY <1>1 DEF StartedCount, Counted, Starting
  <2>2. Counted' = Counted \cup {starting[t]}
    BY <1>1, <2>1 DEF StartedCount, Counted, Starting
  <2>3. pc'[Main] \in BlockLabels \cup {"released"} <=> pc[Main] \in BlockLabels \cup {"released"}
    BY <1>1 DEF StartedCount
  <2>4. t \in Pending
    BY <1>1 DEF StartedCount, Counted
  <2>5. pc[Main] # "released"
    <3>1. CASE t = Main
      BY <1>1, <3>1 DEF StartedCount
    <3>2. CASE t # Main
      <4>1. t \in Counted
        BY <1>1, <3>2 DEF StartedCount, Counted
      <4>2. tasks_outstanding # 0
        BY <4>1, CountedFinite, CardinalityZero DEF CounterIsExact
      <4> QED BY <4>2 DEF AtEnd
    <3> QED BY <3>1, <3>2
  <2>6. pc'[Main] # "released"
    BY <1>1, <2>5 DEF StartedCount
  <2>7. starting[t] \notin Pending /\ Pending' = Pending \cup {starting[t]}
    BY <2>1, <2>2, <2>3
  <2> QED BY <2>1, <2>4, <2>5, <2>6, <2>7
<1>2. ASSUME NEW w \in Workers, CompleteCount(w)
      PROVE  /\ State = "running" /\ State' = "running"
             /\ \E x \in Threads : x \in Pending /\ Pending' = Pending \ {x}
  <2>1. w \in Counted /\ Counted' = Counted \ {w}
    BY <1>2 DEF CompleteCount, Counted, Starting
  <2>2. tasks_outstanding # 0
    BY <2>1, CountedFinite, CardinalityZero DEF CounterIsExact
  <2>3. pc[Main] # "released" /\ pc'[Main] = pc[Main]
    BY <1>2, <2>2 DEF CompleteCount, AtEnd
  <2> QED BY <2>1, <2>3
<1>3. ASSUME CallBlock
      PROVE  /\ State = "running" /\ State' = "running"
             /\ \E x \in Threads : x \in Pending /\ Pending' = Pending \ {x}
  <2>1. Counted' = Counted /\ Main \notin Counted
    BY <1>3 DEF CallBlock, Counted
  <2> QED BY <1>3, <2>1 DEF CallBlock
<1>4. ASSUME BlockUnlock
      PROVE  State = "running" /\ State' = "finished" /\ Pending = {} /\ Pending' = {}
  <2>1. Counted = {}
    BY <1>4, CountedFinite, CardinalityZero DEF BlockUnlock, AtEnd, CounterIsExact
  <2>2. Counted' = Counted
    BY <1>4 DEF BlockUnlock, Counted
  <2> QED BY <1>4, <2>1, <2>2 DEF BlockUnlock
<1>5. ASSUME NEW t \in Threads, NEW w \in Workers, CallStarted(t, w)
      PROVE  UNCHANGED <<Pending, State>>
  <2>1. Counted' = Counted
    BY <1>5 DEF CallStarted, Counted, Starting
  <2> QED BY <1>5, <2>1 DEF CallStarted
<1>6. ASSUME NEW t \in Threads, StartedLock(t) \/ StartedSignal(t) \/ StartedUnlock(t)
      PROVE  UNCHANGED <<Pending, State>>
  <2>1. Counted' = Counted
    BY <1>6 DEF StartedLock, StartedSignal, StartedUnlock, Counted, Starting
  <2>2. pc'[Main] \in BlockLabels \cup {"released"} <=> pc[Main] \in BlockLabels \cup {"released"}
    BY <1>6 DEF StartedLock, StartedSignal, StartedUnlock, Starting
  <2>3. pc'[Main] = "released" <=> pc[Main] = "released"
    BY <1>6 DEF StartedLock, StartedSignal, StartedUnlock, Starting
  <2> QED BY <2>1, <2>2, <2>3
<1>7. ASSUME NEW w \in Workers, \/ CallComplete(w) \/ CompleteLock(w)
                                \/ CompleteSignal(w) \/ CompleteUnlock(w)
      PROVE  UNCHANGED <<Pending, State>>
  <2>1. Counted' = Counted
    BY <1>7 DEF CallComplete, CompleteLock, CompleteSignal, CompleteUnlock, Counted
  <2> QED BY <1>7, <2>1 DEF CallComplete, CompleteLock, CompleteSignal, CompleteUnlock
<1>8. ASSUME BlockLock \/ BlockDone \/ BlockWait \/ BlockWake \/ SpuriousWakeup
      PROVE  UNCHANGED <<Pending, State>>
  <2>1. Counted' = Counted
    BY <1>8 DEF BlockLock, BlockDone, BlockWait, BlockWake, SpuriousWakeup, Counted
  <2> QED BY <1>8, <2>1 DEF BlockLock, BlockDone, BlockWait, BlockWake, SpuriousWakeup
<1>9. ASSUME UNCHANGED vars PROVE UNCHANGED <<Pending, State>>
  BY <1>9 DEF vars, Counted
<1> QED BY <1>1, <1>2, <1>3, <1>4, <1>5, <1>6, <1>7, <1>8, <1>9
        DEF Next, Ended, StartedStep, CompleteStep, BlockStep

(* The latch implements the safety part of AsyncWork: main leaves          *)
(* block_until_tasks_complete (tasks.c:8-21) only when nothing is pending, *)
(* which is then so for good.                                              *)
THEOREM LatchIsSafe == Spec => Work!Safety
<1>1. Init => Work!Init
  <2> SUFFICES ASSUME Init PROVE Work!Init
    OBVIOUS
  <2>1. Counted = {} /\ pc[Main] = "run"
    BY ThreadsAssumption DEF Init, Threads, Counted, StartedLabels
  <2> QED BY <2>1 DEF Work!Init, BlockLabels
<1>2. IInv /\ AtEnd /\ [Next]_vars => [Work!Next]_(Work!workVars)
  <2> SUFFICES ASSUME IInv, AtEnd, [Next]_vars PROVE [Work!Next]_(Work!workVars)
    OBVIOUS
  <2> QED BY MappedStep DEF Pending, State, Work!Next, Work!Begin, Work!End, Work!Finish, Work!workVars
<1> QED BY <1>1, <1>2, InvHolds, EndHolds, PTL DEF Spec, Work!Safety
=============================================================================

-------------------------------- MODULE Tasks --------------------------------
(***************************************************************************)
(* The latch of planck-c/tasks.c at the grain of its pthread calls: the    *)
(* counter tasks_outstanding, the mutex tasks_complete_lock that guards it *)
(* and the condition variable tasks_complete_cond on which the main thread *)
(* waits in block_until_tasks_complete.                                    *)
(*                                                                         *)
(* Tasks (timers, asynchronous shell interactions) run on threads of their *)
(* own.  signal_task_started is called on a running thread on behalf of    *)
(* the task it starts, signal_task_complete by the task's own thread.      *)
(***************************************************************************)
EXTENDS Integers, FiniteSets

CONSTANTS Main,      (* the main thread                                    *)
          Workers,   (* the threads of tasks; a thread may run many tasks  *)
          NoOne      (* "no thread"                                        *)

ASSUME ThreadsAssumption == /\ Main \notin Workers
                            /\ NoOne \notin Workers \cup {Main}
                            /\ IsFiniteSet(Workers)

VARIABLES tasks_outstanding,
          tasks_complete_lock,   (* the holder of the mutex, or NoOne      *)
          asleep,                (* the threads inside pthread_cond_wait   *)
          pc,                    (* where each thread is                   *)
          starting               (* the task a thread is starting          *)

vars == <<tasks_outstanding, tasks_complete_lock, asleep, pc, starting>>

Threads == Workers \cup {Main}

Init == /\ tasks_outstanding = 0
        /\ tasks_complete_lock = NoOne
        /\ asleep = {}
        /\ pc = [t \in Threads |-> IF t = Main THEN "run" ELSE "idle"]
        /\ starting = [t \in Threads |-> NoOne]
-----------------------------------------------------------------------------
Goto(t, l) == pc' = [pc EXCEPT ![t] = l]

Lock(t) == /\ tasks_complete_lock = NoOne
           /\ tasks_complete_lock' = t

Unlock(t) == /\ tasks_complete_lock = t
             /\ tasks_complete_lock' = NoOne

(* pthread_cond_signal: wakes a waiting thread, if there is one. *)
CondSignal == IF asleep = {} THEN UNCHANGED asleep
                             ELSE \E t \in asleep : asleep' = asleep \ {t}

(* Mutations: what plausible mistakes would make of actions below.  Spec   *)
(* does not use them; with each in place of the action, a property fails.  *)

(* An increment may be lost, as it may without the mutex. *)
StartedCountLost(t) == /\ pc[t] = "started_count"
                       /\ tasks_outstanding' \in {tasks_outstanding, tasks_outstanding + 1}
                       /\ Goto(t, "started_signal")
                       /\ UNCHANGED <<tasks_complete_lock, asleep, starting>>

(* Completion does not signal. *)
CompleteSilently(w) == /\ pc[w] = "complete_signal"
                       /\ Goto(w, "complete_unlock")
                       /\ UNCHANGED <<tasks_outstanding, tasks_complete_lock, asleep, starting>>

(* The loop around pthread_cond_wait is an if. *)
BlockWakeOnce == /\ pc[Main] = "block_wait"
                 /\ Main \notin asleep
                 /\ Lock(Main)
                 /\ Goto(Main, "block_unlock")
                 /\ UNCHANGED <<tasks_outstanding, asleep, starting>>
-----------------------------------------------------------------------------
(* signal_task_started, called by t when it starts a task on thread w *)
CallStarted(t, w) == /\ pc[t] = "run"
                     /\ pc[w] = "idle"
                     /\ \A s \in Threads : starting[s] # w
                     /\ starting' = [starting EXCEPT ![t] = w]
                     /\ Goto(t, "started_lock")
                     /\ UNCHANGED <<tasks_outstanding, tasks_complete_lock, asleep>>

StartedLock(t) == /\ pc[t] = "started_lock"
                  /\ Lock(t)
                  /\ Goto(t, "started_count")
                  /\ UNCHANGED <<tasks_outstanding, asleep, starting>>

StartedCount(t) == /\ pc[t] = "started_count"
                   /\ tasks_outstanding' = tasks_outstanding + 1
                   /\ Goto(t, "started_signal")
                   /\ UNCHANGED <<tasks_complete_lock, asleep, starting>>

StartedSignal(t) == /\ pc[t] = "started_signal"
                    /\ CondSignal
                    /\ Goto(t, "started_unlock")
                    /\ UNCHANGED <<tasks_outstanding, tasks_complete_lock, starting>>

(* The caller creates the task's thread right after the call returns. *)
StartedUnlock(t) == /\ pc[t] = "started_unlock"
                    /\ Unlock(t)
                    /\ pc' = [pc EXCEPT ![t] = "run", ![starting[t]] = "run"]
                    /\ starting' = [starting EXCEPT ![t] = NoOne]
                    /\ UNCHANGED <<tasks_outstanding, asleep>>

(* signal_task_complete, called by the task's thread when the task is over *)
CallComplete(w) == /\ pc[w] = "run"
                   /\ Goto(w, "complete_lock")
                   /\ UNCHANGED <<tasks_outstanding, tasks_complete_lock, asleep, starting>>

CompleteLock(w) == /\ pc[w] = "complete_lock"
                   /\ Lock(w)
                   /\ Goto(w, "complete_count")
                   /\ UNCHANGED <<tasks_outstanding, asleep, starting>>

CompleteCount(w) == /\ pc[w] = "complete_count"
                    /\ tasks_outstanding' = tasks_outstanding - 1
                    /\ Goto(w, "complete_signal")
                    /\ UNCHANGED <<tasks_complete_lock, asleep, starting>>

CompleteSignal(w) == /\ pc[w] = "complete_signal"
                     /\ CondSignal
                     /\ Goto(w, "complete_unlock")
                     /\ UNCHANGED <<tasks_outstanding, tasks_complete_lock, starting>>

CompleteUnlock(w) == /\ pc[w] = "complete_unlock"
                     /\ Unlock(w)
                     /\ Goto(w, "idle")
                     /\ UNCHANGED <<tasks_outstanding, asleep, starting>>

(* block_until_tasks_complete, called by main when its script is over *)
CallBlock == /\ pc[Main] = "run"
             /\ Goto(Main, "block_lock")
             /\ UNCHANGED <<tasks_outstanding, tasks_complete_lock, asleep, starting>>

BlockLock == /\ pc[Main] = "block_lock"
             /\ Lock(Main)
             /\ Goto(Main, "block_test")
             /\ UNCHANGED <<tasks_outstanding, asleep, starting>>

(* The loop condition is false: out of the loop, to the unlock. *)
BlockDone == /\ pc[Main] = "block_test"
             /\ tasks_outstanding = 0
             /\ Goto(Main, "block_unlock")
             /\ UNCHANGED <<tasks_outstanding, tasks_complete_lock, asleep, starting>>

(* pthread_cond_wait: releases the mutex and sleeps, in one step. *)
BlockWait == /\ pc[Main] = "block_test"
             /\ tasks_outstanding # 0
             /\ Unlock(Main)
             /\ asleep' = asleep \cup {Main}
             /\ Goto(Main, "block_wait")
             /\ UNCHANGED <<tasks_outstanding, starting>>

(* The wait returns with the mutex held; the loop condition is tested again. *)
BlockWake == /\ pc[Main] = "block_wait"
             /\ Main \notin asleep
             /\ Lock(Main)
             /\ Goto(Main, "block_test")
             /\ UNCHANGED <<tasks_outstanding, asleep, starting>>

(* POSIX lets pthread_cond_wait return without a signal. *)
SpuriousWakeup == /\ Main \in asleep
                  /\ asleep' = asleep \ {Main}
                  /\ UNCHANGED <<tasks_outstanding, tasks_complete_lock, pc, starting>>

BlockUnlock == /\ pc[Main] = "block_unlock"
               /\ Unlock(Main)
               /\ Goto(Main, "released")
               /\ UNCHANGED <<tasks_outstanding, asleep, starting>>

(* The program has ended; nothing happens any more. *)
Ended == pc[Main] = "released" /\ UNCHANGED vars
-----------------------------------------------------------------------------
StartedStep(t) == StartedLock(t) \/ StartedCount(t) \/ StartedSignal(t) \/ StartedUnlock(t)

CompleteStep(w) == CompleteLock(w) \/ CompleteCount(w) \/ CompleteSignal(w) \/ CompleteUnlock(w)

BlockStep == BlockLock \/ BlockDone \/ BlockWait \/ BlockWake \/ BlockUnlock

Next == \/ \E t \in Threads, w \in Workers : CallStarted(t, w)
        \/ \E t \in Threads : StartedStep(t)
        \/ \E w \in Workers : CallComplete(w) \/ CompleteStep(w)
        \/ CallBlock
        \/ BlockStep
        \/ SpuriousWakeup
        \/ Ended

Spec == Init /\ [][Next]_vars

(* A call into tasks.c that can go on does go on (no thread is suspended   *)
(* for ever).  Whether and when a task starts or ends is up to the script. *)
FairSpec == /\ Spec
            /\ \A t \in Threads : WF_vars(StartedStep(t))
            /\ \A w \in Workers : WF_vars(CompleteStep(w))
            /\ WF_vars(BlockStep)
-----------------------------------------------------------------------------
StartedLabels == {"started_lock", "started_count", "started_signal", "started_unlock"}
CompleteLabels == {"complete_lock", "complete_count", "complete_signal", "complete_unlock"}
BlockLabels == {"block_lock", "block_test", "block_wait", "block_unlock"}
LockedLabels == {"started_count", "started_signal", "started_unlock", "complete_count",
                 "complete_signal", "complete_unlock", "block_test", "block_unlock"}

TypeOK == /\ tasks_outstanding \in Int
          /\ tasks_complete_lock \in Threads \cup {NoOne}
          /\ asleep \in SUBSET {Main}
          /\ pc \in [Threads -> {"idle", "run", "released"}
                                  \cup StartedLabels \cup CompleteLabels \cup BlockLabels]
          /\ starting \in [Threads -> Workers \cup {NoOne}]

(* The tasks the counter must account for: those between the increment     *)
(* made for them and the decrement made by them.                           *)
Counted == {w \in Workers :
              \/ pc[w] \in {"run", "complete_lock", "complete_count"} \cup StartedLabels
              \/ \E t \in Threads : /\ starting[t] = w
                                    /\ pc[t] \in {"started_signal", "started_unlock"}}

(* tasks_outstanding is exactly the number of tasks between their          *)
(* signal_task_started and their signal_task_complete, so it is never      *)
(* negative and is zero only when none is left.                            *)
CounterIsExact == tasks_outstanding = Cardinality(Counted)

(* No lost wakeup: while main sleeps in block_until_tasks_complete with    *)
(* nothing outstanding, the thread that made the count zero still holds    *)
(* the mutex and is about to call pthread_cond_signal.                     *)
NoLostWakeup == Main \in asleep /\ tasks_outstanding = 0 =>
                  \E w \in Workers : /\ pc[w] = "complete_signal"
                                     /\ tasks_complete_lock = w

(* What tasks.c implements: main leaves block_until_tasks_complete when    *)
(* and only when nothing is pending.                                       *)
Work == INSTANCE AsyncWork WITH
          Work <- Threads,
          Script <- Main,
          pending <- Counted \cup (IF pc[Main] \in BlockLabels \cup {"released"} THEN {} ELSE {Main}),
          state <- IF pc[Main] = "released" THEN "finished" ELSE "running"

(* The latch keeps the promise of AsyncWork, for which main must not only  *)
(* never leave early but also not sleep on once nothing is pending.        *)
KeepsPromise == Work!Promise
=============================================================================

------------------------------ MODULE EventLoop ------------------------------
(***************************************************************************)
(* Timers, asynchronous shell interactions and the main function: the life *)
(* of a Planck process from the first script to engine_shutdown.           *)
(*                                                                         *)
(* The actors are the main thread (planck-c/main.c), the threads that      *)
(* start_timer creates (timers.c; do_run_timeout and do_run_interval of    *)
(* functions.c) and the threads of asynchronous shell interactions         *)
(* (shell.c).  All of them run JavaScript, and all of it may call the      *)
(* functions the prelude of engine.c defines: setTimeout, clearTimeout,    *)
(* setInterval, clearInterval; and PLANCK_SHELL_SH.                        *)
(*                                                                         *)
(* JavaScriptCore holds its own lock while JavaScript runs, and drops it   *)
(* around every native function the JavaScript calls.  So the JavaScript   *)
(* between two native calls is one atomic step, and any thread may run     *)
(* while another one is inside a native function.  eval_lock, Planck's own *)
(* lock, is held across native calls; but the threads of shell             *)
(* interactions never take it, nor does main for the function of -m.       *)
(*                                                                         *)
(* The latch of tasks.c is used by its atomic operations; Tasks shows that *)
(* its pthread calls implement them.                                       *)
(***************************************************************************)
EXTENDS Integers, FiniteSets

CONSTANTS
  Main,            (* the main thread                                      *)
  Timers,          (* the timer threads; a thread that ended may be reused *)
  Shells,          (* the threads of asynchronous shell interactions       *)
  NoOne,           (* "no thread"                                          *)
  MaxTimeouts,     (* bound: how many timeouts the program may set         *)
  MaxIntervals,    (* bound: how many intervals the program may set        *)
  MaxTasks,        (* bound: no shell interaction starts with this many    *)
                   (* tasks outstanding (leaked ones would pile up)        *)
  Evals,           (* how many times main enters JavaScript: once for each *)
                   (* script, and once for -main or the function of -m     *)
  MainNs,          (* TRUE: started with -m, which runs without eval_lock  *)
  Delays,          (* the delays the program passes: see DelayKinds        *)
  Habits,          (* what else the program does: see AllHabits            *)
  ThreadsFail      (* TRUE: pthread_create may fail                        *)

(* A delay is a number of milliseconds, a negative number, or not a number.*)
DelayKinds == {"valid", "negative", "not_a_number"}

(* Things a program may or may not do.                                     *)
(*   sh_async:         starts asynchronous shell interactions              *)
(*   clear:            clears timers                                       *)
(*   clear_running:    clears timers while their callbacks run too         *)
(*   clear_null:       clears timers set with no number for a delay too,   *)
(*                     which have null for an id                           *)
(*   unlocked_timer:   sets timers from JavaScript that runs without       *)
(*                     eval_lock: a callback of sh-async, the function of  *)
(*                     -m                                                  *)
(*   interval_throws:  lets the callback of an interval throw              *)
(*   exit:             calls exit                                          *)
AllHabits == {"sh_async", "clear", "clear_running", "clear_null",
              "unlocked_timer", "interval_throws", "exit"}

ASSUME ConstantsAssumption ==
  /\ Main \notin Timers \cup Shells
  /\ NoOne \notin Timers \cup Shells \cup {Main}
  /\ Timers \cap Shells = {}
  /\ IsFiniteSet(Timers)
  /\ IsFiniteSet(Shells)
  /\ MaxTimeouts \in Nat
  /\ MaxIntervals \in Nat
  /\ MaxTasks \in Nat
  /\ Evals \in Nat \ {0}
  /\ MainNs \in BOOLEAN
  /\ ThreadsFail \in BOOLEAN
  /\ Delays \subseteq DelayKinds
  /\ Habits \subseteq AllHabits

VARIABLES
  eval_lock,          (* the holder of eval_lock, or NoOne                 *)
  tasks_outstanding,  (* the counter of tasks.c                            *)
  last_id,            (* timeout_id and interval_id of functions.c         *)
  store,              (* the ids that are keys of                          *)
                      (* PLANCK_TIMEOUT_CALLBACK_STORE and                 *)
                      (* PLANCK_INTERVAL_CALLBACK_STORE                    *)
  pc,                 (* where each thread is                              *)
  call,               (* the timer a thread is in the course of setting    *)
  timer,              (* the timer a timer thread was created for          *)
  evals,              (* how many times main has still to enter JavaScript *)
  ctx,                (* the JavaScript context: "live" or "released"      *)
  killed,             (* some thread has called exit                       *)
  fired,              (* history: the timeouts whose callback has started  *)
  cleared             (* history: the timeouts cleared before that         *)

vars == <<eval_lock, tasks_outstanding, last_id, store, pc, call, timer,
          evals, ctx, killed, fired, cleared>>

Actors == Timers \cup Shells \cup {Main}
Kinds == {"timeout", "interval"}
NullKey == 0    (* the key "null", which setTimeout uses when the native   *)
                (* function returns null; ids start at 1                   *)
NoTimer == [kind |-> "timeout", id |-> NullKey, delay |-> "valid"]
Ids == 1..(MaxTimeouts + MaxIntervals)
Bound == [k \in Kinds |-> IF k = "timeout" THEN MaxTimeouts ELSE MaxIntervals]

Alive == ~killed /\ pc[Main] # "returned"

(* The places of a thread whose user code has not returned yet. *)
UserLabels == {"js", "read_id", "count_timer", "create_timer", "bind", "clear",
               "count_shell", "create_shell"}

(* t runs the callback of timer i of kind k, and has not left it. *)
Runs(t, k, i) == /\ pc[t] \in UserLabels \cup {"rearm"}
                 /\ timer[t].kind = k
                 /\ timer[t].id = i

(* JavaScript that a is running holds eval_lock. *)
Locked(a) == eval_lock = a

Init == /\ eval_lock = NoOne
        /\ tasks_outstanding = 0
        /\ last_id = [k \in Kinds |-> 0]
        /\ store = [k \in Kinds |-> {}]
        /\ pc = [a \in Actors |-> IF a = Main THEN "next" ELSE "free"]
        /\ call = [a \in Actors |-> NoTimer]
        /\ timer = [t \in Timers |-> NoTimer]
        /\ evals = Evals
        /\ ctx = "live"
        /\ killed = FALSE
        /\ fired = {}
        /\ cleared = {}
-----------------------------------------------------------------------------
Goto(a, l) == pc' = [pc EXCEPT ![a] = l]

AcquireEvalLock(a) == eval_lock = NoOne /\ eval_lock' = a
ReleaseEvalLock(a) == eval_lock' = IF Locked(a) THEN NoOne ELSE eval_lock

SignalTaskStarted == tasks_outstanding' = tasks_outstanding + 1
SignalTaskComplete == tasks_outstanding' = tasks_outstanding - 1

Unused == {t \in Timers : pc[t] = "free"}
Setting(k) == {a \in Actors : /\ pc[a] \in {"read_id", "count_timer", "create_timer"}
                              /\ call[a].kind = k}

(* Bounds: ids are not used up, and a thread is left to re-arm an interval.*)
MaySet(k) == /\ last_id[k] + Cardinality(Setting(k)) < Bound[k]
             /\ Cardinality(Unused) > Cardinality(Setting("timeout") \cup Setting("interval")) + 1

(* start_timer: a detached thread that sleeps first; or none at all, and   *)
(* the callers do not look at the error.                                   *)
StartTimer(a, x, l) ==
  \/ /\ \E t \in Unused : /\ pc' = [pc EXCEPT ![t] = "sleep", ![a] = l]
                          /\ timer' = [timer EXCEPT ![t] = x]
  \/ /\ ThreadsFail
     /\ Goto(a, l)
     /\ UNCHANGED timer

-----------------------------------------------------------------------------
(* Mutations: what plausible mistakes would make of actions below.  Spec   *)
(* does not use them; with each in place of the action, a property fails.  *)

(* A timer is not counted. *)
CountNoTimer(a) ==
  /\ pc[a] = "count_timer"
  /\ last_id' = [last_id EXCEPT ![call[a].kind] = call[a].id]
  /\ Goto(a, "create_timer")
  /\ UNCHANGED <<eval_lock, tasks_outstanding, store, call, timer, evals, ctx, killed, fired, cleared>>

(* A failed sleep ends as if the timeout had run. *)
SleepFailsQuietly(t) ==
  /\ pc[t] = "sleep"
  /\ timer[t].delay = "negative"
  /\ Goto(t, "finish")
  /\ UNCHANGED <<eval_lock, tasks_outstanding, last_id, store, call, timer, evals, ctx, killed, fired, cleared>>

(* The thread keeps the callback itself, and does not look in the store. *)
RunAnyTimer(t) ==
  /\ pc[t] = "enter"
  /\ Goto(t, "js")
  /\ fired' = IF timer[t].kind = "timeout" THEN fired \cup {timer[t].id} ELSE fired
  /\ UNCHANGED <<eval_lock, tasks_outstanding, last_id, store, call, timer, evals, ctx, killed, cleared>>

(* A timeout ends like an interval. *)
EndTimeoutAgain(t) ==
  /\ pc[t] = "js"
  /\ timer[t].kind = "timeout"
  /\ Goto(t, "rearm")
  /\ UNCHANGED <<eval_lock, tasks_outstanding, last_id, store, call, timer, evals, ctx, killed, fired, cleared>>

(* An interval is not armed again ... *)
RearmNever(t) ==
  /\ pc[t] = "rearm"
  /\ Goto(t, "unlock")
  /\ UNCHANGED <<eval_lock, tasks_outstanding, last_id, store, call, timer, evals, ctx, killed, fired, cleared>>

(* ... or is counted each time it is. *)
RearmCounting(t) ==
  /\ pc[t] = "rearm"
  /\ StartTimer(t, timer[t], "unlock")
  /\ SignalTaskStarted
  /\ UNCHANGED <<eval_lock, last_id, store, call, evals, ctx, killed, fired, cleared>>

(* An interval that throws is completed, but stays in the store. *)
ThrowCompletes(t) ==
  /\ pc[t] = "js"
  /\ timer[t].kind = "interval"
  /\ "interval_throws" \in Habits
  /\ Goto(t, "finish")
  /\ UNCHANGED <<eval_lock, tasks_outstanding, last_id, store, call, timer, evals, ctx, killed, fired, cleared>>

(* main releases eval_lock though it has not taken it. *)
EndEvaluateUnlocks ==
  /\ pc[Main] = "js"
  /\ eval_lock' = NoOne
  /\ evals' = evals - 1
  /\ Goto(Main, IF evals = 1 THEN "block" ELSE "next")
  /\ UNCHANGED <<tasks_outstanding, last_id, store, call, timer, ctx, killed, fired, cleared>>

(* main does not wait for the last task. *)
BlockButForOne ==
  /\ pc[Main] = "block"
  /\ tasks_outstanding <= 1
  /\ Goto(Main, "shutdown")
  /\ UNCHANGED <<eval_lock, tasks_outstanding, last_id, store, call, timer, evals, ctx, killed, fired, cleared>>
-----------------------------------------------------------------------------
(* setTimeout and setInterval: PLANCK_SET_TIMEOUT or PLANCK_SET_INTERVAL   *)
(* is called; it returns null at once for a delay that is not a number.    *)
SetTimer(a, k, ms) ==
  /\ pc[a] = "js"
  /\ MaySet(k)
  /\ Locked(a) \/ "unlocked_timer" \in Habits
  /\ call' = [call EXCEPT ![a] = [kind |-> k, id |-> NullKey, delay |-> ms]]
  /\ Goto(a, IF ms = "not_a_number" THEN "bind" ELSE "read_id")
  /\ UNCHANGED <<eval_lock, tasks_outstanding, last_id, store, timer, evals, ctx, killed, fired, cleared>>

(* ++timeout_id: the read ... *)
ReadId(a) ==
  /\ pc[a] = "read_id"
  /\ call' = [call EXCEPT ![a].id = last_id[call[a].kind] + 1]
  /\ Goto(a, "count_timer")
  /\ UNCHANGED <<eval_lock, tasks_outstanding, last_id, store, timer, evals, ctx, killed, fired, cleared>>

(* ... and the write; then signal_task_started. *)
CountTimer(a) ==
  /\ pc[a] = "count_timer"
  /\ last_id' = [last_id EXCEPT ![call[a].kind] = call[a].id]
  /\ SignalTaskStarted
  /\ Goto(a, "create_timer")
  /\ UNCHANGED <<eval_lock, store, call, timer, evals, ctx, killed, fired, cleared>>

(* What the thread is given: timeout_id is read once more for it.          *)
TimerData(a) == IF call[a].kind = "timeout" THEN [call[a] EXCEPT !.id = last_id["timeout"]]
                ELSE call[a]

CreateTimer(a) ==
  /\ pc[a] = "create_timer"
  /\ StartTimer(a, TimerData(a), "bind")
  /\ UNCHANGED <<eval_lock, tasks_outstanding, last_id, store, call, evals, ctx, killed, fired, cleared>>

(* Back in JavaScript: the function is stored under the id returned. *)
Bind(a) ==
  /\ pc[a] = "bind"
  /\ store' = [store EXCEPT ![call[a].kind] = @ \cup {call[a].id}]
  /\ call' = [call EXCEPT ![a] = NoTimer]
  /\ Goto(a, "js")
  /\ UNCHANGED <<eval_lock, tasks_outstanding, last_id, timer, evals, ctx, killed, fired, cleared>>

(* clearTimeout and clearInterval: delete the entry, if there is one ...   *)
ClearTimer(a, k, i) ==
  /\ pc[a] = "js"
  /\ i \in store[k]
  /\ "clear" \in Habits
  /\ (\E t \in Timers : Runs(t, k, i)) => "clear_running" \in Habits
  /\ i = NullKey => "clear_null" \in Habits
  /\ store' = [store EXCEPT ![k] = @ \ {i}]
  /\ cleared' = IF k = "timeout" /\ i \notin fired THEN cleared \cup {i} ELSE cleared
  /\ Goto(a, "clear")
  /\ UNCHANGED <<eval_lock, tasks_outstanding, last_id, call, timer, evals, ctx, killed, fired>>

(* ... and call PLANCK_SIGNAL_TASK_COMPLETE. *)
SignalCleared(a) ==
  /\ pc[a] = "clear"
  /\ SignalTaskComplete
  /\ Goto(a, "js")
  /\ UNCHANGED <<eval_lock, last_id, store, call, timer, evals, ctx, killed, fired, cleared>>

(* sh-async: system_call forks the child, counts the task ...              *)
ShAsync(a) ==
  /\ pc[a] = "js"
  /\ "sh_async" \in Habits
  /\ tasks_outstanding < MaxTasks
  /\ Cardinality({s \in Shells : pc[s] = "free"})
       > Cardinality({b \in Actors : pc[b] \in {"count_shell", "create_shell"}})
  /\ Goto(a, "count_shell")
  /\ UNCHANGED <<eval_lock, tasks_outstanding, last_id, store, call, timer, evals, ctx, killed, fired, cleared>>

CountShell(a) ==
  /\ pc[a] = "count_shell"
  /\ SignalTaskStarted
  /\ Goto(a, "create_shell")
  /\ UNCHANGED <<eval_lock, last_id, store, call, timer, evals, ctx, killed, fired, cleared>>

(* ... and creates a thread to wait for it, not looking at the error. *)
CreateShell(a) ==
  /\ pc[a] = "create_shell"
  /\ \/ \E s \in Shells : /\ pc[s] = "free"
                          /\ pc' = [pc EXCEPT ![s] = "child", ![a] = "js"]
     \/ ThreadsFail /\ Goto(a, "js")
  /\ UNCHANGED <<eval_lock, tasks_outstanding, last_id, store, call, timer, evals, ctx, killed, fired, cleared>>

(* planck.core/exit: PLANCK_EXIT_WITH_VALUE calls exit on this thread. *)
Exit(a) ==
  /\ pc[a] = "js"
  /\ "exit" \in Habits
  /\ killed' = TRUE
  /\ UNCHANGED <<eval_lock, tasks_outstanding, last_id, store, pc, call, timer, evals, ctx, fired, cleared>>

UserCode(a) ==
  \/ \E k \in Kinds : \/ \E ms \in Delays : SetTimer(a, k, ms)
                      \/ \E i \in 0..Bound[k] : ClearTimer(a, k, i)
  \/ ShAsync(a)
  \/ Exit(a)

NativeStep(a) == \/ ReadId(a) \/ CountTimer(a) \/ CreateTimer(a) \/ Bind(a)
                 \/ SignalCleared(a) \/ CountShell(a) \/ CreateShell(a)
-----------------------------------------------------------------------------
(* timer_thread: nanosleep fails at once for a negative delay, and the     *)
(* thread ends without calling timer_callback.                             *)
SleepFails(t) ==
  /\ pc[t] = "sleep"
  /\ timer[t].delay = "negative"
  /\ Goto(t, "free")
  /\ timer' = [timer EXCEPT ![t] = NoTimer]
  /\ UNCHANGED <<eval_lock, tasks_outstanding, last_id, store, call, evals, ctx, killed, fired, cleared>>

(* do_run_timeout, do_run_interval: the sleep is over, and so is the wait  *)
(* for eval_lock (how long each takes makes no difference to the others).  *)
Wake(t) ==
  /\ pc[t] = "sleep"
  /\ timer[t].delay = "valid"
  /\ AcquireEvalLock(t)
  /\ Goto(t, "enter")
  /\ UNCHANGED <<tasks_outstanding, last_id, store, call, timer, evals, ctx, killed, fired, cleared>>

(* PLANCK_RUN_TIMEOUT, PLANCK_RUN_INTERVAL: call what is in the store. *)
RunTimer(t) ==
  /\ pc[t] = "enter"
  /\ IF timer[t].id \in store[timer[t].kind]
     THEN /\ Goto(t, "js")
          /\ fired' = IF timer[t].kind = "timeout" THEN fired \cup {timer[t].id} ELSE fired
     ELSE Goto(t, "unlock") /\ UNCHANGED fired
  /\ UNCHANGED <<eval_lock, tasks_outstanding, last_id, store, call, timer, evals, ctx, killed, cleared>>

(* The callback of a timeout has returned or thrown: the finally clause.   *)
EndTimeout(t) ==
  /\ pc[t] = "js"
  /\ timer[t].kind = "timeout"
  /\ store' = [store EXCEPT !["timeout"] = @ \ {timer[t].id}]
  /\ Goto(t, "finish")
  /\ UNCHANGED <<eval_lock, tasks_outstanding, last_id, call, timer, evals, ctx, killed, fired, cleared>>

FinishTimeout(t) ==
  /\ pc[t] = "finish"
  /\ SignalTaskComplete
  /\ Goto(t, "unlock")
  /\ UNCHANGED <<eval_lock, last_id, store, call, timer, evals, ctx, killed, fired, cleared>>

(* The callback of an interval has returned: PLANCK_SET_INTERVAL(ms, id).  *)
EndInterval(t) ==
  /\ pc[t] = "js"
  /\ timer[t].kind = "interval"
  /\ Goto(t, "rearm")
  /\ UNCHANGED <<eval_lock, tasks_outstanding, last_id, store, call, timer, evals, ctx, killed, fired, cleared>>

Rearm(t) ==
  /\ pc[t] = "rearm"
  /\ StartTimer(t, timer[t], "unlock")
  /\ UNCHANGED <<eval_lock, tasks_outstanding, last_id, store, call, evals, ctx, killed, fired, cleared>>

(* The callback of an interval has thrown: nothing catches it in between.  *)
ThrowInterval(t) ==
  /\ pc[t] = "js"
  /\ timer[t].kind = "interval"
  /\ "interval_throws" \in Habits
  /\ Goto(t, "unlock")
  /\ UNCHANGED <<eval_lock, tasks_outstanding, last_id, store, call, timer, evals, ctx, killed, fired, cleared>>

UnlockTimer(t) ==
  /\ pc[t] = "unlock"
  /\ ReleaseEvalLock(t)
  /\ Goto(t, "free")
  /\ timer' = [timer EXCEPT ![t] = NoTimer]
  /\ UNCHANGED <<tasks_outstanding, last_id, store, call, evals, ctx, killed, fired, cleared>>

TimerStep(t) == \/ SleepFails(t) \/ Wake(t) \/ RunTimer(t)
                \/ EndTimeout(t) \/ FinishTimeout(t)
                \/ EndInterval(t) \/ Rearm(t) \/ ThrowInterval(t)
                \/ UnlockTimer(t)
-----------------------------------------------------------------------------
(* wait_for_child: the child has ended; the callback runs, unlocked. *)
ChildEnds(s) ==
  /\ pc[s] = "child"
  /\ Goto(s, "js")
  /\ UNCHANGED <<eval_lock, tasks_outstanding, last_id, store, call, timer, evals, ctx, killed, fired, cleared>>

EndShell(s) ==
  /\ pc[s] = "js"
  /\ Goto(s, "complete_shell")
  /\ UNCHANGED <<eval_lock, tasks_outstanding, last_id, store, call, timer, evals, ctx, killed, fired, cleared>>

CompleteShell(s) ==
  /\ pc[s] = "complete_shell"
  /\ SignalTaskComplete
  /\ Goto(s, "free")
  /\ UNCHANGED <<eval_lock, last_id, store, call, timer, evals, ctx, killed, fired, cleared>>

ShellStep(s) == ChildEnds(s) \/ EndShell(s) \/ CompleteShell(s)
-----------------------------------------------------------------------------
(* main enters JavaScript by evaluate_source and run_main_cli_fn, which    *)
(* take eval_lock, or last of all by run_main_in_ns, which does not.       *)
Evaluate ==
  /\ pc[Main] = "next"
  /\ IF MainNs /\ evals = 1 THEN UNCHANGED eval_lock ELSE AcquireEvalLock(Main)
  /\ Goto(Main, "js")
  /\ UNCHANGED <<tasks_outstanding, last_id, store, call, timer, evals, ctx, killed, fired, cleared>>

EndEvaluate ==
  /\ pc[Main] = "js"
  /\ ReleaseEvalLock(Main)
  /\ evals' = evals - 1
  /\ Goto(Main, IF evals = 1 THEN "block" ELSE "next")
  /\ UNCHANGED <<tasks_outstanding, last_id, store, call, timer, ctx, killed, fired, cleared>>

BlockUntilTasksComplete ==
  /\ pc[Main] = "block"
  /\ tasks_outstanding = 0
  /\ Goto(Main, "shutdown")
  /\ UNCHANGED <<eval_lock, tasks_outstanding, last_id, store, call, timer, evals, ctx, killed, fired, cleared>>

EngineShutdown ==
  /\ pc[Main] = "shutdown"
  /\ ctx' = "released"
  /\ Goto(Main, "return")
  /\ UNCHANGED <<eval_lock, tasks_outstanding, last_id, store, call, timer, evals, killed, fired, cleared>>

(* main returns, which ends the process and all its threads. *)
ReturnFromMain ==
  /\ pc[Main] = "return"
  /\ Goto(Main, "returned")
  /\ UNCHANGED <<eval_lock, tasks_outstanding, last_id, store, call, timer, evals, ctx, killed, fired, cleared>>

MainStep == Evaluate \/ EndEvaluate \/ BlockUntilTasksComplete \/ EngineShutdown \/ ReturnFromMain

Ended == ~Alive /\ UNCHANGED vars

Next == \/ Alive /\ \/ \E a \in Actors : UserCode(a) \/ NativeStep(a)
                    \/ \E t \in Timers : TimerStep(t)
                    \/ \E s \in Shells : ShellStep(s)
                    \/ MainStep
        \/ Ended

Spec == Init /\ [][Next]_vars

(* Every thread goes on when it can: sleeps and children end, callbacks    *)
(* return.  What user code calls in between is its own choice.             *)
FairSpec == /\ Spec
            /\ \A a \in Actors : WF_vars(Alive /\ NativeStep(a))
            /\ \A t \in Timers : WF_vars(Alive /\ TimerStep(t))
            /\ \A s \in Shells : WF_vars(Alive /\ ShellStep(s))
            /\ WF_vars(Alive /\ MainStep)
-----------------------------------------------------------------------------
TimerRecords == [kind : Kinds, id : Nat, delay : DelayKinds]

MainLabels == {"next", "block", "shutdown", "return", "returned"} \cup UserLabels
TimerLabels == {"free", "sleep", "enter", "finish", "rearm", "unlock"} \cup UserLabels
ShellLabels == {"free", "child", "complete_shell"} \cup UserLabels

TypeOK ==
  /\ eval_lock \in Actors \cup {NoOne}
  /\ tasks_outstanding \in Int
  /\ last_id \in [Kinds -> Nat]
  /\ store \in [Kinds -> SUBSET Nat]
  /\ pc \in [Actors -> MainLabels \cup TimerLabels \cup ShellLabels]
  /\ pc[Main] \in MainLabels
  /\ \A t \in Timers : pc[t] \in TimerLabels
  /\ \A s \in Shells : pc[s] \in ShellLabels
  /\ call \in [Actors -> TimerRecords]
  /\ timer \in [Timers -> TimerRecords]
  /\ evals \in Int
  /\ ctx \in {"live", "released"}
  /\ killed \in BOOLEAN
  /\ fired \in SUBSET Nat
  /\ cleared \in SUBSET Nat

(* The program and the platform behave: callbacks do not clear their own   *)
(* timers, delays are numbers, timers are set by code that holds eval_lock,*)
(* and threads can be created.  What holds without is checked, not proved. *)
Disciplined == /\ Habits \cap {"clear_running", "clear_null", "unlocked_timer"} = {}
               /\ "not_a_number" \notin Delays
               /\ ~ThreadsFail

(* main has found nothing outstanding and goes on to end the process. *)
Finished == pc[Main] \in {"shutdown", "return", "returned"}

InUserCode(a) == pc[a] \in UserLabels

(* The increments of tasks_outstanding that are still to be undone: one    *)
(* for each entry of the stores, each shell interaction, and each thread   *)
(* between a count and the change of the store that goes with it.          *)
StoredTimers == {w \in Kinds \X Ids : w[2] \in store[w[1]]}
BusyShells == {s \in Shells : pc[s] # "free"}
CountingActors == {a \in Actors : \/ pc[a] \in {"create_timer", "clear", "create_shell", "finish"}
                                  \/ pc[a] = "bind" /\ call[a].id # NullKey}

(* tasks_outstanding counts exactly the timers in the stores, the shell    *)
(* interactions under way and the calls in between: signal_task_started    *)
(* and signal_task_complete, which seven places in three languages call    *)
(* in pairs, stay balanced.                                                *)
CounterIsExact ==
  tasks_outstanding =
    Cardinality(StoredTimers) + Cardinality(BusyShells) + Cardinality(CountingActors)

(* "the script will continue running so long as there are pending timers   *)
(* or shell activities" (doc/scripts.md:195): when main has gone past      *)
(* block_until_tasks_complete, no timer is left in a store, no shell       *)
(* interaction is under way and no callback is running.                    *)
NoEarlyExit == Finished => /\ \A k \in Kinds : store[k] \subseteq {NullKey}
                           /\ BusyShells = {}
                           /\ \A a \in Actors : ~InUserCode(a)

(* No timer is lost: when main has finished, every timeout that was set    *)
(* has run its callback or was cleared before it could.                    *)
EveryTimeoutAccountedFor == Finished => 1..last_id["timeout"] \subseteq fired \cup cleared

(* A timer in a store has a thread that is going to run it, so it cannot   *)
(* keep the process waiting for ever.                                      *)
NoOrphanTimer == \A k \in Kinds : \A i \in store[k] \ {NullKey} :
                   \E t \in Timers : /\ timer[t].kind = k
                                     /\ timer[t].id = i
                                     /\ pc[t] \in UserLabels \cup {"sleep", "enter", "rearm"}

(* A timeout that was cleared before its callback started never starts it, *)
(* even if its thread was already on its way (waiting for eval_lock).      *)
ClearedStaysSilent == fired \cap cleared = {}

(* The callback of a timeout starts at most once. *)
StartsTimeout(t) == pc[t] = "enter" /\ pc'[t] = "js" /\ timer[t].kind = "timeout"
FiresOnce == [][\A t \in Timers : StartsTimeout(t) => timer[t].id \notin fired]_vars

(* A timer's callback, and a script entered with eval_lock, have eval_lock *)
(* from beginning to end: no two of them interleave, at whichever native   *)
(* call JavaScriptCore drops its own lock.                                 *)
Protected(a) == \/ a \in Timers /\ pc[a] \notin {"free", "sleep"}
                \/ a = Main /\ InUserCode(Main) /\ ~(MainNs /\ evals = 1)
LockedEvaluation == \A a \in Actors : Protected(a) => eval_lock = a

(* What remains of the timers when the JavaScript context is released:     *)
(* threads of timers that were cleared, which find nothing to call, and    *)
(* threads that are leaving.                                               *)
OnlyClearedTimersOutliveTheEngine ==
  ctx = "released" =>
    \A t \in Timers : \/ pc[t] \in {"free", "unlock"}
                      \/ /\ pc[t] \in {"sleep", "enter"}
                         /\ timer[t].id \notin store[timer[t].kind]
                         /\ timer[t].kind = "timeout" => timer[t].id \in cleared

(* The event loop implements AsyncWork: each step begins or ends at most   *)
(* one piece of work, only pending work begins more, and main goes on if,  *)
(* and with fairness when, nothing is pending.                             *)
ScriptWork == {<<"script", NullKey>>}

Promised == INSTANCE AsyncWork WITH
  Work <- ScriptWork \cup (Kinds \X Ids) \cup ({"shell"} \X Shells),
  Script <- <<"script", NullKey>>,
  pending <- (IF pc[Main] = "next" \/ InUserCode(Main) THEN ScriptWork ELSE {})
               \cup StoredTimers \cup ({"shell"} \X BusyShells),
  state <- IF Finished THEN "finished" ELSE IF killed THEN "killed" ELSE "running"

KeepsPromise == Promised!Promise

(* A script that does not go on for ever by itself, with an interval it    *)
(* leaves running or with ever more shell interactions, does end.          *)
StartsShell == \E a \in Actors : pc[a] = "js" /\ pc'[a] = "count_shell"
ComesToRest == /\ <>[](store["interval"] \subseteq {NullKey})
               /\ <>[][~StartsShell]_vars
ScriptTerminates == ComesToRest => <>(~Alive)
=============================================================================

---------------------------- MODULE StartupProofs ----------------------------
(***************************************************************************)
(* Proofs about Startup, for every command line: the thread that makes the *)
(* engine hands it over safely to main, if a REPL is not left before the   *)
(* engine is ready; a Ctrl-C reaches the evaluation it was meant for; what *)
(* the command line asks for is run in order; and its options are read as  *)
(* the usage text means them.                                              *)
(***************************************************************************)
EXTENDS Startup, SequenceTheorems, WellFoundedInduction, TLAPS

-----------------------------------------------------------------------------
Waiting == main \in {"block", "asleep", "woken"}
Parsing == main \in {"start", "parse", "configure", "engine"}
Entering == {"lock", "js", "listen", "handle", "prompt"}

(* Where main can be only when the engine is ready. *)
Inside == {"lock", "js", "listen", "handle", "reset", "keep", "tasks", "shutdown", "return", "returned"}

(* Main goes on where it meant to. *)
RouteInv ==
  /\ Waiting => after \in Entering
  /\ main \in {"lock", "js"} \/ (Waiting /\ after \in {"lock", "js"}) =>
       back \in {"scripts", "cli", "tasks", "reset"}

(* How far the thread of do_engine_init is tells the state of the lock, of *)
(* the flag, of the sender and of the context.                             *)
InitInv ==
  /\ init \in {"none", "failed", "create", "bootstrap", "args", "begin", "require", "required", "user",
               "lock", "set", "signal", "unlock", "done"}
  /\ Parsing => init = "none"
  /\ ready_lock = IF init \in {"set", "signal", "unlock"} THEN "init" ELSE None
  /\ engine_ready <=> init \in {"signal", "unlock", "done"}
  /\ sender = "discard" => init \in {"require", "required"}
  /\ ctx \in {"none", "live", "released"}
  /\ init \notin {"none", "failed", "create"} => ctx # "none"
  /\ ctx = "released" => main \in {"return", "returned", "exited"} /\ init = "done"

(* What main has learnt by waiting. *)
MainInv ==
  /\ main \in Inside => init = "done"
  /\ main = "cli" /\ (config.repl \/ config.main_ns # None) => init = "done"
  /\ main = "edit" /\ aware => sender = "line" /\ engine_ready

HandoverInv == RouteInv /\ InitInv /\ MainInv

(* The condition variable of block_until_engine_ready, its flag and its    *)
(* lock: past it, the initialisation thread is through.                    *)
LEMMA ReadyMeansDone ==
  ASSUME InitInv, engine_ready, ready_lock = None
  PROVE  init = "done"
BY StartupAssumption DEF InitInv

LEMMA HandoverStarts == Init => HandoverInv
BY DEF Init, HandoverInv, RouteInv, InitInv, MainInv, Waiting, Parsing, Inside

(* A step of main that leaves the engine, and with it the thread of        *)
(* do_engine_init, alone.                                                  *)
LEMMA MainMoves ==
  ASSUME HandoverInv, UNCHANGED <<engine, config>>, ~Parsing', main' # "edit",
         main' \in Inside => main = main' \/ init = "done",
         main' = "cli" /\ (config.repl \/ config.main_ns # None) => main = main' \/ init = "done",
         ctx = "released" => main' \in {"return", "returned", "exited"},
         RouteInv'
  PROVE  HandoverInv'
<1> USE DEF HandoverInv, engine
<1>1. InitInv'
  BY DEF InitInv
<1>2. MainInv'
  BY DEF MainInv
<1> QED BY <1>1, <1>2

LEMMA EngineInitSteps == HandoverInv /\ EngineInit => HandoverInv'
<1> SUFFICES ASSUME HandoverInv, EngineInit PROVE HandoverInv'
  OBVIOUS
<1> USE StartupAssumption DEF HandoverInv
<1>1. UNCHANGED <<config, after, back, aware>>
  BY DEF EngineInit, parsing
<1>2. CASE CreateContext \/ Begin \/ Require \/ Required \/ BindArgs
  <2>1. UNCHANGED main
    BY <1>2 DEF CreateContext, Begin, Require, Required, BindArgs
  <2>2. RouteInv'
    BY <1>1, <2>1 DEF RouteInv, Waiting
  <2>3. InitInv'
    BY <1>2, <2>1 DEF InitInv, Parsing, InitStep, Over, CreateContext, Begin, Require, Required,
                      BindArgs
  <2>4. MainInv'
    BY <1>1, <1>2, <2>1 DEF InitInv, MainInv, InitStep, CreateContext, Begin, Require, Required,
                            BindArgs
  <2> QED BY <2>2, <2>3, <2>4
<1>3. CASE Bootstrap \/ LoadUserFile
  <2>1. UNCHANGED main \/ main' = "exited"
    BY <1>3 DEF Bootstrap, LoadUserFile, ExitWith
  <2>2. RouteInv'
    BY <1>1, <2>1 DEF RouteInv, Waiting
  <2>3. InitInv'
    BY <1>3, <2>1 DEF InitInv, Parsing, InitStep, Bootstrap, LoadUserFile
  <2>4. MainInv'
    BY <1>1, <1>3, <2>1 DEF InitInv, MainInv, InitStep, Bootstrap, LoadUserFile, Inside
  <2> QED BY <2>2, <2>3, <2>4
<1>4. CASE SignalLock \/ SignalSet \/ SignalCond \/ SignalUnlock
  <2>1. main' = IF main = "asleep" /\ SignalCond THEN "woken" ELSE main
    BY <1>4 DEF SignalLock, SignalSet, SignalCond, SignalUnlock, InitStep
  <2>2. RouteInv'
    BY <1>1, <2>1 DEF RouteInv, Waiting
  <2>3. InitInv'
    BY <1>4, <2>1 DEF InitInv, Parsing, InitStep, SignalLock, SignalSet, SignalCond, SignalUnlock
  <2>4. MainInv'
    BY <1>1, <1>4, <2>1 DEF InitInv, MainInv, InitStep, Inside, SignalLock, SignalSet, SignalCond,
                            SignalUnlock
  <2> QED BY <2>2, <2>3, <2>4
<1> QED BY <1>2, <1>3, <1>4 DEF EngineInit

LEMMA CommandLineSteps == HandoverInv /\ CommandLine => HandoverInv'
<1> SUFFICES ASSUME HandoverInv, CommandLine PROVE HandoverInv'
  OBVIOUS
<1>1. /\ Parsing /\ UNCHANGED engine /\ UNCHANGED aware
      /\ main' \in {"parse", "configure", "engine", "exited"}
  BY DEF CommandLine, FindScript, ParseOption, NoOption, Configure, NextOption, ExitWith, Parsing
<1>2. RouteInv'
  BY <1>1 DEF RouteInv, Waiting
<1>3. InitInv'
  BY <1>1 DEF HandoverInv, InitInv, Parsing, engine
<1>4. MainInv'
  BY <1>1 DEF MainInv, Inside
<1> QED BY <1>2, <1>3, <1>4 DEF HandoverInv

LEMMA HandoverStays ==
  ASSUME Hasty = FALSE PROVE HandoverInv /\ [Next]_vars => HandoverInv'
<1> SUFFICES ASSUME HandoverInv, [Next]_vars PROVE HandoverInv'
  OBVIOUS
<1> USE DEF HandoverInv
<1>1. CASE CommandLine
  BY <1>1, CommandLineSteps
<1>2. CASE CreateEngine
  <2>1. /\ main = "engine" /\ init = "none" /\ UNCHANGED <<ctx, engine_ready, ready_lock, sender>>
        /\ \/ main' = "scripts" /\ init' = "create"
           \/ main' = "exited" /\ init' = "failed"
    BY <1>2 DEF CreateEngine, ExitWith, InitInv, Parsing
  <2> QED BY <2>1 DEF RouteInv, InitInv, MainInv, Waiting, Parsing, Inside
<1>3. CASE NextScript
  <2>1. UNCHANGED <<engine, config>> /\ main = "scripts"
        /\ \/ main' = "main"
           \/ main' = "block" /\ after' = "lock" /\ back' = "scripts"
    BY <1>3 DEF NextScript, Evaluate, Still, Quiet
  <2> QED BY <2>1, MainMoves DEF RouteInv, Waiting, Parsing, Entering, Inside, InitInv
<1>4. CASE RunMain
  <2>1. /\ UNCHANGED <<engine, config>> /\ main = "main"
        /\ \/ main' = "block" /\ after' = "js" /\ back' = "cli"
           \/ main' \in {"advance", "repl"}
           \/ main' = "cli" /\ config.main_ns = None /\ ~config.repl
    BY <1>4 DEF RunMain, MainJob, Evaluate, Still, Quiet
  <2> QED BY <2>1, MainMoves DEF RouteInv, Waiting, Parsing, Entering, Inside, InitInv
<1>5. CASE RunScript
  <2>1. /\ UNCHANGED <<engine, config>> /\ main = "advance"
        /\ main' = "block" /\ after' = "lock" /\ back' = "cli"
    BY <1>5 DEF RunScript, Evaluate, Still, Quiet
  <2> QED BY <2>1, MainMoves DEF RouteInv, Waiting, Parsing, Entering, Inside, InitInv
<1>6. CASE RunMainCli
  <2>1. /\ UNCHANGED <<engine, config>> /\ main = "cli"
        /\ \/ main' = "tasks" /\ (config.repl \/ config.main_ns # None)
           \/ main' = "block" /\ after' = "lock" /\ back' = "tasks"
    BY <1>6 DEF RunMainCli, Evaluate, Still, Quiet
  <2>2. main' = "tasks" => init = "done"
    BY <2>1 DEF MainInv
  <2> QED BY <2>1, <2>2, MainMoves DEF RouteInv, Waiting, Parsing, Entering, Inside, InitInv
<1>7. CASE Block \/ BlockWake \/ BlockWakes
  <2>1. /\ UNCHANGED <<engine, config, after, back>> /\ Waiting
        /\ \/ main' \in {"asleep", "woken"}
           \/ main' = after /\ engine_ready /\ ready_lock = None
    BY <1>7 DEF Block, BlockWake, BlockWakes, Still, Quiet, Waiting
  <2>2. after \in Entering
    BY <2>1 DEF RouteInv
  <2>3. main' \in Entering => init = "done"
    BY <2>1, ReadyMeansDone DEF Entering
  <2>4. RouteInv'
    BY <2>1, <2>2 DEF RouteInv, Waiting, Entering
  <2>5. ctx # "released"
    BY <2>1 DEF InitInv, Waiting
  <2> QED BY <2>1, <2>2, <2>3, <2>4, <2>5, MainMoves DEF Waiting, Parsing, Entering, Inside
<1>8. CASE LockEval
  <2>1. UNCHANGED <<engine, config, back>> /\ main = "lock" /\ main' = "js"
    BY <1>8 DEF LockEval, Still, Quiet
  <2> QED BY <2>1, MainMoves DEF RouteInv, MainInv, Waiting, Parsing, Inside, InitInv
<1>9. CASE EvaluationEnds \/ EvaluationFails
  <2>1. UNCHANGED <<engine, config>> /\ main = "js" /\ main' \in {back, "exited"}
    BY <1>9 DEF EvaluationEnds, EvaluationFails, ExitWith, Still
  <2>2. main' \in {"scripts", "cli", "tasks", "reset", "exited"} /\ init = "done"
    BY <2>1 DEF RouteInv, MainInv, Inside
  <2> QED BY <2>1, <2>2, MainMoves DEF RouteInv, Waiting, Parsing, Inside, InitInv
<1>10. CASE RunRepl
  <2>1. /\ UNCHANGED <<engine, config>> /\ main = "repl"
        /\ \/ main' = "cli" /\ init = "done"
           \/ main' = "block" /\ after' = "listen"
           \/ main' = "prompt"
    BY <1>10, Hasty = FALSE DEF RunRepl, Patient, Still, Quiet
  <2> QED BY <2>1, MainMoves DEF RouteInv, Waiting, Parsing, Entering, Inside, InitInv
<1>11. CASE Listen
  <2>1. /\ UNCHANGED <<init, ctx, engine_ready, ready_lock>> /\ main = "listen" /\ main' = "prompt"
        /\ sender' # "discard"
    BY <1>11 DEF Listen
  <2> QED BY <2>1 DEF RouteInv, InitInv, MainInv, Waiting, Parsing, Inside
<1>12. CASE BeginEdit
  <2>1. /\ UNCHANGED <<init, ctx, engine_ready, ready_lock>> /\ main = "prompt" /\ main' = "edit"
        /\ aware' = engine_ready
        /\ sender' = IF engine_ready THEN "line" ELSE sender
    BY <1>12 DEF BeginEdit
  <2> QED BY <2>1 DEF RouteInv, InitInv, MainInv, Waiting, Parsing, Inside
<1>13. CASE EnterLine \/ CancelLine \/ EndOfInput
  <2>1. /\ UNCHANGED <<init, ctx, engine_ready, ready_lock, config, back>>
        /\ main \in {"prompt", "edit"}
        /\ sender' \in {"out", sender}
        /\ \/ main' \in {"exited", "prompt"}
           \/ main' = "block" /\ after' \in {"handle", "prompt"}
           \/ main' = "cli" /\ init = "done"
    BY <1>13, Hasty = FALSE DEF EnterLine, CancelLine, EndOfInput, EndEdit, ExitWith, Patient, Still
  <2> QED BY <2>1 DEF RouteInv, InitInv, MainInv, Waiting, Parsing, Entering, Inside
<1>14. CASE SetIntHandler
  <2>1. UNCHANGED <<engine, config>> /\ main = "handle" /\ main' = "lock" /\ back' = "reset"
    BY <1>14 DEF SetIntHandler, Still
  <2> QED BY <2>1, MainMoves DEF RouteInv, MainInv, Waiting, Parsing, Inside, InitInv
<1>15. CASE ClearIntHandler
  <2>1. /\ UNCHANGED <<engine, config>> /\ main \in {"reset", "keep"}
        /\ main' \in {"keep", "prompt", "handle"}
    BY <1>15 DEF ClearIntHandler, Still
  <2> QED BY <2>1, MainMoves DEF RouteInv, MainInv, Waiting, Parsing, Inside, InitInv
<1>16. CASE CtrlC
  <2>1. UNCHANGED <<engine, config, after, back, aware>> /\ main' \in {main, "exited"} /\ main # "edit"
    BY <1>16 DEF CtrlC, ExitWith, Still
  <2>2. RouteInv'
    BY <2>1 DEF RouteInv, Waiting
  <2> QED BY <2>1, <2>2 DEF InitInv, MainInv, engine, Parsing, Inside
<1>17. CASE AwaitTasks \/ EngineShutdown \/ Return
  <2>1. /\ UNCHANGED <<init, engine_ready, ready_lock, sender, config>>
        /\ \/ main = "tasks" /\ main' = "shutdown" /\ UNCHANGED ctx
           \/ main = "shutdown" /\ main' = "return" /\ ctx' = "released"
           \/ main = "return" /\ main' = "returned" /\ UNCHANGED ctx
    BY <1>17 DEF AwaitTasks, EngineShutdown, Return, Still, Quiet, engine
  <2> QED BY <2>1 DEF RouteInv, InitInv, MainInv, Waiting, Parsing, Inside
<1>18. CASE TasksEnd
  BY <1>18 DEF TasksEnd, Still, RouteInv, InitInv, MainInv, Waiting, Parsing, engine
<1>19. CASE EngineInit
  BY <1>19, EngineInitSteps
<1>20. CASE UNCHANGED vars
  BY <1>20 DEF vars, parsing, engine, RouteInv, InitInv, MainInv, Waiting, Parsing
<1> QED BY <1>1, <1>2, <1>3, <1>4, <1>5, <1>6, <1>7, <1>8, <1>9, <1>10, <1>11, <1>12, <1>13,
           <1>14, <1>15, <1>16, <1>17, <1>18, <1>19, <1>20 DEF Next, Main, User

(* The engine is handed over once and whole, for every command line, if a  *)
(* REPL is not left, and its keymap not found bad, before it is ready.     *)
THEOREM EngineIsHandedOver == ASSUME Hasty = FALSE PROVE Spec => []HandsOver
<1>1. HandoverInv => HandsOver
  BY DEF HandoverInv, RouteInv, InitInv, MainInv, HandsOver, Inside
<1> QED BY <1>1, HandoverStarts, HandoverStays, PTL DEF Spec
-----------------------------------------------------------------------------
(* The strengthening for Ctrl-C: the handler is set, and the flag off, only*)
(* while an evaluation of the REPL is under way or just over; and the flag *)
(* is off only if Ctrl-C was typed since it began.                         *)
InterruptInv ==
  /\ main = "handle" => keep_running
  /\ handler \/ ~keep_running => \/ main \in {"lock", "js"} /\ back = "reset"
                                 \/ main \in {"reset", "keep", "exited"}
  /\ main = "keep" => ~handler
  /\ main \in {"lock", "js", "reset"} /\ ~keep_running => typed
  /\ handler \in BOOLEAN /\ keep_running \in BOOLEAN /\ typed \in BOOLEAN

(* An evaluation at the prompt is interrupted only by a Ctrl-C that was    *)
(* typed since it began.                                                   *)
THEOREM InterruptsStay == Spec => []InterruptsItsOwn
<1>1. Init => InterruptInv
  BY DEF Init, InterruptInv
<1>2. InterruptInv /\ [Next]_vars => InterruptInv'
  <2> SUFFICES ASSUME InterruptInv, [Next]_vars PROVE InterruptInv'
    OBVIOUS
  <2>1. ASSUME UNCHANGED <<handler, keep_running, typed>>, main \notin {"lock", "js", "reset", "keep", "exited"},
               main' # "handle" \/ keep_running
        PROVE  InterruptInv'
    BY <2>1 DEF InterruptInv
  <2>2. ASSUME UNCHANGED <<handler, keep_running, typed, back>>, main' \in {main, "exited"}
        PROVE  InterruptInv'
    BY <2>2 DEF InterruptInv
  <2>3. CASE CommandLine
    <3>1. UNCHANGED <<handler, keep_running, typed>> /\ main \in {"start", "parse", "configure"}
      BY <2>3 DEF CommandLine, FindScript, ParseOption, NoOption, Configure, NextOption, signals
    <3> QED BY <2>1, <3>1 DEF InterruptInv
  <2>4. CASE CreateEngine \/ NextScript \/ RunMain \/ RunScript \/ RunMainCli
    <3>1. /\ UNCHANGED <<handler, keep_running, typed>>
          /\ main \in {"engine", "scripts", "main", "advance", "cli"}
      BY <2>4 DEF CreateEngine, NextScript, RunMain, RunScript, RunMainCli, Quiet, signals
    <3> QED BY <2>1, <3>1 DEF InterruptInv
  <2>5. CASE Block \/ BlockWakes \/ BlockWake
    <3>1. UNCHANGED <<handler, keep_running, typed>> /\ main \in {"block", "asleep", "woken"}
      BY <2>5 DEF Block, BlockWakes, BlockWake, Quiet, signals
    <3> QED BY <2>1, <3>1 DEF InterruptInv
  <2>6. CASE LockEval
    <3>1. /\ UNCHANGED <<handler, keep_running, typed, back>>
          /\ main = "lock" /\ main' = "js"
      BY <2>6 DEF LockEval, Quiet, signals
    <3> QED BY <3>1 DEF InterruptInv
  <2>7. CASE EvaluationEnds \/ EvaluationFails
    <3>1. UNCHANGED <<handler, keep_running, typed, back>> /\ main = "js" /\ main' \in {back, "exited"}
      BY <2>7 DEF EvaluationEnds, EvaluationFails, ExitWith, signals
    <3>2. handler \/ ~keep_running => main' \in {"reset", "exited"}
      BY <3>1 DEF InterruptInv
    <3> QED BY <3>1, <3>2 DEF InterruptInv
  <2>8. CASE RunRepl \/ Listen \/ BeginEdit \/ EnterLine \/ CancelLine \/ EndOfInput
    <3>1. UNCHANGED <<handler, keep_running, typed>> /\ main \in {"repl", "listen", "prompt", "edit"}
      BY <2>8 DEF RunRepl, Listen, BeginEdit, EnterLine, CancelLine, EndOfInput, EndEdit, Quiet, signals
    <3> QED BY <2>1, <3>1 DEF InterruptInv
  <2>9. CASE SetIntHandler
    <3>1. /\ UNCHANGED keep_running /\ main = "handle" /\ main' = "lock" /\ back' = "reset"
          /\ handler' = TRUE /\ typed' = FALSE
      BY <2>9 DEF SetIntHandler
    <3> QED BY <3>1 DEF InterruptInv
  <2>10. CASE ClearIntHandler
    <3>1. CASE main = "reset"
      <4>1. UNCHANGED <<keep_running, typed>> /\ main' = "keep" /\ handler' = FALSE
        BY <2>10, <3>1 DEF ClearIntHandler
      <4> QED BY <3>1, <4>1 DEF InterruptInv
    <3>2. CASE main = "keep"
      <4>1. UNCHANGED <<handler, typed>> /\ main' \in {"prompt", "handle"} /\ keep_running' = TRUE
        BY <2>10, <3>2 DEF ClearIntHandler
      <4> QED BY <3>2, <4>1 DEF InterruptInv
    <3> QED BY <2>10, <3>1, <3>2 DEF ClearIntHandler
  <2>11. CASE CtrlC
    <3>1. CASE handler
      BY <2>11, <3>1 DEF CtrlC, InterruptInv, Still
    <3>2. CASE ~handler
      <4>1. UNCHANGED <<handler, keep_running, typed, back>> /\ main' = "exited"
        BY <2>11, <3>2 DEF CtrlC, ExitWith
      <4> QED BY <2>2, <4>1
    <3> QED BY <3>1, <3>2
  <2>12. CASE AwaitTasks \/ EngineShutdown \/ Return
    <3>1. UNCHANGED <<handler, keep_running, typed>> /\ main \in {"tasks", "shutdown", "return"}
      BY <2>12 DEF AwaitTasks, EngineShutdown, Return, Quiet, signals
    <3> QED BY <2>1, <3>1 DEF InterruptInv
  <2>13. CASE TasksEnd
    BY <2>2, <2>13 DEF TasksEnd, signals
  <2>14. CASE EngineInit
    <3>1. CASE main = "asleep"
      BY <2>1, <2>14, <3>1 DEF InterruptInv, EngineInit, signals
    <3>2. CASE main # "asleep"
      BY <2>2, <2>14, <3>2 DEF EngineInit, CreateContext, Bootstrap, BindArgs, Begin, Require, Required,
                               LoadUserFile, SignalLock, SignalSet, SignalCond, SignalUnlock, ExitWith, signals
    <3> QED BY <3>1, <3>2
  <2>15. CASE UNCHANGED vars
    BY <2>2, <2>15 DEF vars, signals
  <2> QED BY <2>3, <2>4, <2>5, <2>6, <2>7, <2>8, <2>9, <2>10, <2>11, <2>12, <2>13, <2>14, <2>15
          DEF Next, Main, User
<1>3. InterruptInv => InterruptsItsOwn
  BY DEF InterruptInv, InterruptsItsOwn
<1> QED BY <1>1, <1>2, <1>3, PTL DEF Spec
-----------------------------------------------------------------------------
(* Init options, main function and script: what runs, and in which order.  *)
(*                                                                         *)
(* The types of what the order depends on                                  *)
OrderTypes ==
  /\ argv \in Seq(Token) /\ skipped \in Seq(Token) /\ rest \in Seq(Token)
  /\ index \in Nat /\ optind \in Nat \ {0}
  /\ {"scripts", "main_ns", "repl"} \subseteq DOMAIN config
  /\ config.scripts \in Seq(Job) /\ config.main_ns \in Token \cup {None}
  /\ job \in Job \cup {None} /\ todo \in Seq(Job) /\ ran \in Seq(Job)

(* The parser of main is at an option of the command line, or at the       *)
(* script, and has the same words left as the usage text.                  *)
FirstScript(a, n) == /\ n \in 1 .. Len(a) + 1
                     /\ n <= Len(a) => IsScript(a, n)
                     /\ \A k \in 1 .. n - 1 : ~IsScript(a, k)
AtOption(n) == /\ skipped = <<>>
               /\ n < index => argv[n].form \in {"short", "long"}
               /\ Reading(argv)[n].rest = Meant(argv).rest
ParseInv ==
  /\ main = "start" => optind = 1 /\ skipped = <<>>
  /\ Parsing /\ main # "start" => argv = Expanded(argv)
  /\ main = "parse" => FirstScript(argv, index) /\ optind <= index
  /\ main = "parse" /\ ~Unclear(argv) => AtOption(optind)

(* An evaluation is under way; and it, or what goes on, is an init option. *)
Evaluating == main \in {"lock", "js"} \/ (Waiting /\ after \in {"lock", "js"})
InScripts == main = "scripts" \/ (Evaluating /\ back = "scripts")

RestInv ==
  /\ main \in {"configure", "engine", "main"} \/ InScripts => Unclear(argv) \/ rest = Meant(argv).rest
  /\ main \notin {"start", "parse", "exited"} => Unclear(argv) \/ Meant(argv).rest \in Seq(Token)

JobInv ==
  /\ RouteInv
  /\ job # None => main \in {"advance", "exited"} \/ Evaluating
  /\ Parsing => ran = <<>>

(* The plan of RunsInOrder, what is being run of it, and what is to come.  *)
MainPart == LET m == Meant(argv)
            IN IF config.main_ns # None THEN <<[type |-> "main", of |-> config.main_ns]>>
               ELSE IF config.repl \/ m.rest = <<>> THEN <<>>
               ELSE <<[type |-> IF m.rest[1] = Hyphen THEN "text" ELSE "path", of |-> m.rest[1]]>>
Plan == config.scripts \o MainPart
Now == IF job = None THEN <<>> ELSE <<job>>
Later == IF InScripts THEN todo \o MainPart
         ELSE IF main = "main" THEN MainPart ELSE <<>>
Completes(s) == ran \o s = Plan
PlanInv ==
  /\ ~Parsing /\ main # "exited" => Unclear(argv) \/ Completes(Now \o Later)
  /\ main = "exited" /\ ran # <<>> => Unclear(argv) \/ \E s \in Seq(Job) : Completes(s)

(* Outside of a REPL only the last thing that runs may throw.              *)
ThrowInv ==
  config.repl \/ /\ \A k \in 1 .. Len(ran) - 1 : ran[k].of \notin Throwing
                 /\ main # "exited" => \A k \in 1 .. Len(ran) : ran[k].of \notin Throwing

OrderInv == OrderTypes /\ ParseInv /\ RestInv /\ JobInv /\ PlanInv /\ ThrowInv

-----------------------------------------------------------------------------
(* The usage text reads a command line from left to right: Reading has a   *)
(* value at every word, which rests on its values further on.              *)
LEMMA Least ==
  ASSUME NEW S, S \subseteq Nat, S # {}
  PROVE  \E m \in S : \A n \in S : m <= n
<1>1. PICK m \in S : \A n \in S : ~ (<<n, m>> \in OpToRel(<, Nat))
  BY WFMin, NatLessThanWellFounded
<1>2. \A n \in S : ~ (n < m)
  BY <1>1 DEF OpToRel
<1> QED BY <1>2

(* Reading's equation, where f is what is read further on *)
ReadingFrom(a, f, i) ==
  LET e == Expanded(a)
  IN IF i > Len(a) \/ e[i].form \in {"word", "hyphen"}
        THEN [opts |-> <<>>, scripts |-> <<>>, rest |-> SubSeq(e, i, Len(a))]
        ELSE LET o == e[i].opt
                 next == IF Takes(e[i]) THEN i + 2 ELSE i + 1
                 value == IF Joined(e[i]) THEN e[i].value
                          ELSE IF Takes(e[i]) /\ i < Len(a) THEN e[i + 1] ELSE None
                 opts == <<[opt |-> o, value |-> value]>>
             IN IF o \in {"m", "r"}
                THEN [opts |-> opts, scripts |-> <<>>, rest |-> SubSeq(e, next, Len(a))]
                ELSE [opts |-> opts \o f[next].opts, scripts |-> InitOption(o, value) \o f[next].scripts,
                      rest |-> f[next].rest]

Reads(a, f) == f = [i \in 1 .. Len(a) + 2 |-> ReadingFrom(a, f, i)]
ReadsFrom(a, g, k) == /\ g = [i \in 1 .. Len(a) + 2 |-> g[i]]
                      /\ \A i \in 1 .. Len(a) + 2 : i > k => g[i] = ReadingFrom(a, g, i)

LEMMA LooksAhead ==
  ASSUME NEW a, NEW f, NEW g, NEW i, Len(a) \in Nat, i \in Nat,
         i <= Len(a) => f[i + 1] = g[i + 1] /\ f[i + 2] = g[i + 2]
  PROVE  ReadingFrom(a, f, i) = ReadingFrom(a, g, i)
<1>1. CASE i > Len(a)
  BY <1>1 DEF ReadingFrom
<1>2. CASE i <= Len(a)
  <2>1. f[i + 1] = g[i + 1] /\ f[i + 2] = g[i + 2]
    BY <1>2
  <2>2. CASE Takes(Expanded(a)[i])
    BY <2>1, <2>2 DEF ReadingFrom
  <2>3. CASE ~Takes(Expanded(a)[i])
    BY <2>1, <2>3 DEF ReadingFrom
  <2> QED BY <2>2, <2>3
<1> QED BY <1>1, <1>2

LEMMA OneMore ==
  ASSUME NEW a, Len(a) \in Nat, NEW k \in 1 .. Len(a) + 2, NEW g, ReadsFrom(a, g, k)
  PROVE  \E h : ReadsFrom(a, h, k - 1)
<1> DEFINE N == Len(a) + 2
           h == [i \in 1 .. N |-> IF i = k THEN ReadingFrom(a, g, k) ELSE g[i]]
<1>1. h = [i \in 1 .. N |-> h[i]]
  OBVIOUS
<1>2. \A i \in 1 .. N : i # k => h[i] = g[i]
  OBVIOUS
<1>3. h[k] = ReadingFrom(a, g, k)
  OBVIOUS
<1> HIDE DEF h
<1>4. ASSUME NEW i \in 1 .. N, i > k - 1 PROVE h[i] = ReadingFrom(a, h, i)
  <2>1. i <= Len(a) => h[i + 1] = g[i + 1] /\ h[i + 2] = g[i + 2]
    <3> SUFFICES ASSUME i <= Len(a) PROVE h[i + 1] = g[i + 1] /\ h[i + 2] = g[i + 2]
      OBVIOUS
    <3>1. i + 1 \in 1 .. N /\ i + 2 \in 1 .. N /\ i + 1 # k /\ i + 2 # k
      BY <1>4
    <3> QED BY <1>2, <3>1
  <2>2. ReadingFrom(a, h, i) = ReadingFrom(a, g, i)
    BY <2>1, LooksAhead
  <2>3. CASE i = k
    BY <1>3, <2>2, <2>3
  <2>4. CASE i # k
    <3>1. i > k
      BY <1>4, <2>4
    <3>2. g[i] = ReadingFrom(a, g, i)
      BY <3>1 DEF ReadsFrom
    <3> QED BY <1>2, <2>2, <2>4, <3>2
  <2> QED BY <2>3, <2>4
<1>5. ReadsFrom(a, h, k - 1)
  BY <1>1, <1>4 DEF ReadsFrom
<1> QED BY <1>5

LEMMA SomeReading == ASSUME NEW a, Len(a) \in Nat PROVE \E f : Reads(a, f)
<1> DEFINE N == Len(a) + 2
           S == {k \in 0 .. N : \E g : ReadsFrom(a, g, k)}
<1>1. N \in S
  <2>1. ReadsFrom(a, [i \in 1 .. N |-> 0], N)
    BY DEF ReadsFrom
  <2> QED BY <2>1
<1>2. PICK m \in S : \A n \in S : m <= n
  <2>1. S \subseteq Nat /\ S # {}
    BY <1>1
  <2> HIDE DEF S
  <2> QED BY <2>1, Least
<1>3. PICK g : ReadsFrom(a, g, m)
  BY <1>2
<1>4. m = 0
  <2> SUFFICES ASSUME m # 0 PROVE FALSE
    OBVIOUS
  <2>1. m \in 1 .. N
    BY <1>2
  <2>2. m - 1 \in S
    BY <1>3, <2>1, OneMore
  <2> QED BY <1>2, <2>1, <2>2
<1>5. \A i \in 1 .. N : g[i] = ReadingFrom(a, g, i)
  BY <1>3, <1>4 DEF ReadsFrom
<1>6. g = [i \in 1 .. N |-> g[i]]
  BY <1>3 DEF ReadsFrom
<1>7. Reads(a, g)
  BY <1>5, <1>6 DEF Reads
<1> QED BY <1>7

LEMMA ReadingUnfolds ==
  ASSUME NEW a, Len(a) \in Nat, NEW i \in 1 .. Len(a) + 2
  PROVE  Reading(a)[i] = ReadingFrom(a, Reading(a), i)
<1>1. Reading(a) = CHOOSE f : Reads(a, f)
  BY DEF Reading, Reads, ReadingFrom
<1>2. Reads(a, Reading(a))
  BY <1>1, SomeReading
<1>3. \A f : Reads(a, f) => f[i] = ReadingFrom(a, f, i)
  BY DEF Reads
<1> QED BY <1>2, <1>3

LEMMA Expands ==
  ASSUME NEW a \in Seq(Token)
  PROVE  /\ Expanded(a) \in Seq(Token) /\ Len(Expanded(a)) = Len(a)
         /\ Expanded(Expanded(a)) = Expanded(a)
<1>1. Len(a) \in Nat /\ DOMAIN a = 1 .. Len(a) /\ \A i \in 1 .. Len(a) : a[i] \in Token
  BY LenProperties
<1>2. Expanded(a) = [i \in 1 .. Len(a) |-> IF a[i] = [form |-> "short", opt |-> "co"] THEN Medium ELSE a[i]]
  BY <1>1 DEF Expanded
<1>3. \A i \in 1 .. Len(a) : Expanded(a)[i] \in Token /\ Expanded(a)[i] # [form |-> "short", opt |-> "co"]
  <2>1. Medium \in Token /\ Medium # [form |-> "short", opt |-> "co"]
    <3>1. Medium.form # [form |-> "short", opt |-> "co"].form
      BY DEF Medium
    <3> QED BY <3>1 DEF Token, Plain
  <2> QED BY <1>1, <1>2, <2>1
<1>4. Expanded(a) \in [1 .. Len(a) -> Token]
  BY <1>2, <1>3
<1>5. Expanded(a) \in Seq(Token) /\ Len(Expanded(a)) = Len(a)
  <2>1. Expanded(a) \in Seq(Token)
    BY <1>1, <1>4, SeqDef
  <2>2. DOMAIN Expanded(a) = 1 .. Len(a)
    BY <1>2
  <2> QED BY <1>1, <2>1, <2>2, LenProperties
<1>6. Expanded(Expanded(a)) = Expanded(a)
  <2>1. DOMAIN Expanded(a) = 1 .. Len(a)
    BY <1>2
  <2>2. Expanded(Expanded(a)) = [i \in 1 .. Len(a) |-> Expanded(a)[i]]
    <3>1. PICK x : x = Expanded(a)
      OBVIOUS
    <3>2. Expanded(x) = [i \in 1 .. Len(a) |-> x[i]]
      BY <1>3, <2>1, <3>1 DEF Expanded
    <3> QED BY <3>1, <3>2
  <2>3. Expanded(a) = [i \in 1 .. Len(a) |-> Expanded(a)[i]]
    BY <1>4
  <2> QED BY <2>2, <2>3
<1> QED BY <1>5, <1>6

(* The usage text goes on behind an option and its value. *)
Behind(a, i) == i + (IF Takes(a[i]) THEN 2 ELSE 1)

(* What is left over, at each kind of word *)
LEMMA Rests ==
  ASSUME NEW a \in Seq(Token), a = Expanded(a), NEW i \in 1 .. Len(a) + 2
  PROVE  /\ i > Len(a) => Reading(a)[i].rest = SubSeq(a, i, Len(a))
         /\ i <= Len(a) /\ a[i].form \in {"word", "hyphen"} =>
              Reading(a)[i].rest = SubSeq(a, i, Len(a))
         /\ i <= Len(a) /\ a[i].form \in {"short", "long"} =>
              /\ a[i].opt \in {"m", "r"} => Reading(a)[i].rest = SubSeq(a, Behind(a, i), Len(a))
              /\ a[i].opt \notin {"m", "r"} => Reading(a)[i].rest = Reading(a)[Behind(a, i)].rest
<1>1. Len(a) \in Nat
  BY LenProperties
<1>2. Reading(a)[i] = ReadingFrom(a, Reading(a), i)
  BY <1>1, ReadingUnfolds
<1>3. Behind(a, i) = IF Takes(a[i]) THEN i + 2 ELSE i + 1
  BY DEF Behind
<1>4. PICK f : f = Reading(a)
  OBVIOUS
<1>5. f[i] = ReadingFrom(a, f, i)
  BY <1>2, <1>4
<1>6. i > Len(a) \/ a[i].form \in {"word", "hyphen"} => f[i].rest = SubSeq(a, i, Len(a))
  BY <1>5 DEF ReadingFrom
<1>7. ASSUME i <= Len(a), a[i].form \in {"short", "long"}
      PROVE  f[i].rest = IF a[i].opt \in {"m", "r"}
                         THEN SubSeq(a, Behind(a, i), Len(a))
                         ELSE f[Behind(a, i)].rest
  BY <1>1, <1>3, <1>5, <1>7 DEF ReadingFrom
<1> QED BY <1>4, <1>6, <1>7

LEMMA PartOf ==
  ASSUME NEW S, NEW s \in Seq(S), NEW m \in Nat \ {0}
  PROVE  SubSeq(s, m, Len(s)) \in Seq(S)
<1>1. Len(s) \in Nat
  BY LenProperties
<1>2. \A k \in m .. Len(s) : s[k] \in S
  BY <1>1, ElementOfSeq
<1> QED BY <1>1, <1>2, SubSeqProperties

LEMMA Forms == ASSUME NEW t \in Token PROVE t.form \in {"short", "long", "word", "hyphen"}
BY DEF Token, Plain, Attached, Medium

(* A value in the same word is a word of its own kind. *)
LEMMA ValueTyped == ASSUME NEW t \in Token, Joined(t) PROVE t.value \in Token
<1>1. t \notin Plain
  BY DEF Joined, Plain, Medium
<1> QED BY <1>1 DEF Token, Attached

(* The words that should_ignore_arg looks at take a value, or are long, or *)
(* have their value with them, and one of the letters at their end.        *)
LEMMA Ignored ==
  ASSUME NEW t, ShouldIgnoreArg(t)
  PROVE  \/ t.form = "long" \/ Takes(t)
         \/ t.form = "short" /\ Joined(t) /\ t.last \in Valued \ {"o"}
<1>1. {"i", "e", "m", "c", "n", "k", "t", "S", "A", "O", "D", "L", "1"} = Valued \ {"o"}
  BY DEF Valued
<1> QED BY <1>1 DEF ShouldIgnoreArg, ShouldIgnoreShortArg, Takes

(* Behind an option of a clear command line, and its value, is an option   *)
(* again, as far as the script.                                            *)
LEMMA OptionFollows ==
  ASSUME NEW a \in Seq(Token), ~Unclear(a), NEW n, FirstScript(a, n),
         NEW i \in 1 .. n - 1, a[i].form \in {"short", "long"},
         NEW next \in Nat, next < n, next = Behind(a, i)
  PROVE  a[next].form \in {"short", "long"}
<1>1. n \in Nat /\ Len(a) \in Nat /\ n <= Len(a) + 1
  BY LenProperties DEF FirstScript
<1>2. next \in 2 .. Len(a) /\ next \in 1 .. n - 1
  BY <1>1 DEF Behind
<1>3. ~IsScript(a, next)
  BY <1>2 DEF FirstScript
<1>4. a[next].form \in {"short", "long", "word", "hyphen"}
  BY <1>2, ElementOfSeq, Forms
<1>5. ASSUME a[next].form = "word" PROVE FALSE
  <2>1. ShouldIgnoreArg(a[next - 1])
    BY <1>2, <1>3, <1>5 DEF IsScript
  <2>2. \/ a[next - 1].form = "long" \/ Takes(a[next - 1])
        \/ a[next - 1].form = "short" /\ Joined(a[next - 1]) /\ a[next - 1].last \in Valued \ {"o"}
    BY <2>1, Ignored
  <2>3. Takes(a[next - 1])
    BY <1>2, <1>5, <2>2 DEF Unclear
  <2>4. next = i + 2
    BY <1>1, <2>3 DEF Behind
  <2>5. Takes(a[next - 2])
    BY <1>1, <2>3, <2>4 DEF Behind
  <2> QED BY <1>2, <1>5, <2>3, <2>4, <2>5 DEF Unclear
<1> QED BY <1>3, <1>4, <1>5 DEF IsScript
-----------------------------------------------------------------------------
LEMMA OrderStarts == Init => OrderInv
<1> SUFFICES ASSUME Init PROVE OrderInv
  OBVIOUS
<1>1. OrderTypes
  <2>1. argv \in Seq(Token)
    BY StartupAssumption DEF Init
  <2>2. config.scripts = <<>> /\ config.main_ns = None
        /\ {"scripts", "main_ns", "repl"} \subseteq DOMAIN config
    BY DEF Init
  <2>3. <<>> \in Seq(Token) /\ <<>> \in Seq(Job)
    BY EmptySeq
  <2> QED BY <2>1, <2>2, <2>3 DEF Init, OrderTypes
<1>2. main = "start" /\ optind = 1 /\ skipped = <<>> /\ job = None /\ ran = <<>>
  BY DEF Init
<1>3. ~InScripts /\ ~Evaluating /\ ~Waiting /\ Parsing
  BY <1>2 DEF InScripts, Evaluating, Waiting, Parsing
<1>4. ParseInv /\ RestInv /\ JobInv /\ PlanInv
  BY <1>2, <1>3 DEF ParseInv, RestInv, JobInv, RouteInv, PlanInv
<1>5. ThrowInv
  BY <1>2, EmptySeq DEF ThrowInv
<1> QED BY <1>1, <1>4, <1>5 DEF OrderInv

(* While the command line is read, the types and the parser are all there  *)
(* is to keep.                                                             *)
LEMMA ParserMoves ==
  ASSUME OrderInv, Parsing, UNCHANGED work, OrderTypes', ParseInv', RestInv',
         main' \in {"parse", "configure", "engine", "exited"}
  PROVE  OrderInv'
<1>1. ran' = <<>> /\ job' = None
  BY DEF OrderInv, JobInv, work, Parsing, Evaluating, Waiting
<1>2. JobInv'
  BY <1>1 DEF JobInv, RouteInv, Waiting, Parsing, Evaluating
<1>3. PlanInv'
  BY <1>1 DEF PlanInv, Parsing
<1>4. ThrowInv'
  BY <1>1, EmptySeq DEF ThrowInv
<1> QED BY <1>2, <1>3, <1>4 DEF OrderInv

LEMMA FindScriptKeepsOrder == OrderInv /\ FindScript => OrderInv'
<1> SUFFICES ASSUME OrderInv, FindScript PROVE OrderInv'
  OBVIOUS
<1>1. OrderTypes /\ ParseInv
  BY DEF OrderInv
<1>2. /\ main = "start" /\ main' = "parse" /\ argv' = Expanded(argv)
      /\ UNCHANGED <<optind, skipped, config, rest, work>>
      /\ optind = 1 /\ skipped = <<>>
  BY <1>1 DEF FindScript, ParseInv
<1>3. argv' \in Seq(Token) /\ Len(argv') = Len(argv) /\ argv' = Expanded(argv') /\ Len(argv) \in Nat
  BY <1>1, <1>2, Expands, LenProperties DEF OrderTypes
<1>4. FirstScript(argv', index')
  BY <1>3 DEF FindScript, FirstScript
<1>5. index' \in Nat /\ 1 <= index'
  BY <1>3, <1>4 DEF FirstScript
<1>6. OrderTypes'
  BY <1>1, <1>2, <1>3, <1>5 DEF OrderTypes, work
<1>7. 1 < index' => argv'[1].form \in {"short", "long"}
  <2> SUFFICES ASSUME 1 < index' PROVE argv'[1].form \in {"short", "long"}
    OBVIOUS
  <2>1. ~IsScript(argv', 1) /\ 1 \in 1 .. Len(argv')
    <3>1. PICK a, n : a = argv' /\ n = index'
      OBVIOUS
    <3>2. FirstScript(a, n) /\ n \in Nat /\ 1 < n /\ Len(a) \in Nat
      BY <1>3, <1>4, <1>5, <3>1
    <3>3. ~IsScript(a, 1) /\ 1 \in 1 .. Len(a)
      BY <3>2 DEF FirstScript
    <3> QED BY <3>1, <3>3
  <2>2. argv'[1] \in Token
    BY <1>3, <2>1, ElementOfSeq
  <2> QED BY <2>1, <2>2, Forms DEF IsScript
<1>8. AtOption(1)'
  BY <1>2, <1>7 DEF AtOption, Meant
<1>9. ParseInv'
  BY <1>2, <1>3, <1>4, <1>5, <1>8 DEF ParseInv
<1>10. RestInv'
  BY <1>2 DEF RestInv, InScripts, Evaluating, Waiting
<1> QED BY <1>2, <1>6, <1>9, <1>10, ParserMoves DEF Parsing

(* What the usage text reads at word i. *)
OptionAt(a, i) == [opt |-> a[i].opt,
                   value |-> IF Joined(a[i]) THEN a[i].value
                             ELSE IF Takes(a[i]) /\ i < Len(a) THEN a[i + 1] ELSE None]

(* A value that is not lacking *)
LEMMA ValueGiven ==
  ASSUME argv \in Seq(Token), NEW i \in 1 .. Len(argv), Takes(argv[i]) => i < Len(argv),
         argv[i].form \in {"short", "long"}, argv[i].opt \in Valued
  PROVE  Value(i) \in Token /\ OptionAt(argv, i).value = Value(i)
<1>1. Len(argv) \in Nat /\ argv[i] \in Token /\ (i < Len(argv) => argv[i + 1] \in Token)
  BY LenProperties, ElementOfSeq
<1>2. CASE Joined(argv[i])
  BY <1>1, <1>2, ValueTyped DEF Value, OptionAt
<1>3. CASE ~Joined(argv[i])
  <2>1. Takes(argv[i])
    BY <1>3 DEF Takes
  <2> QED BY <1>1, <1>3, <2>1 DEF Value, OptionAt
<1> QED BY <1>2, <1>3

LEMMA ConfiguredKeepsTypes ==
  ASSUME OrderTypes, NEW i, argv[i].opt \in Valued => Value(i) \in Token
  PROVE  /\ {"scripts", "main_ns", "repl"} \subseteq DOMAIN Configured(i)
         /\ Configured(i).scripts \in Seq(Job) /\ Configured(i).main_ns \in Token \cup {None}
<1> DEFINE o == argv[i].opt
<1>0. {"scripts", "main_ns", "repl"} \subseteq DOMAIN config
  BY DEF OrderTypes
<1>1. CASE o \in {"e", "i"}
  <2> DEFINE new == [type |-> IF o = "e" THEN "text" ELSE "path", of |-> Value(i)]
  <2>1. Configured(i) = [config EXCEPT !.scripts = Append(config.scripts, new)]
    BY <1>1 DEF Configured
  <2>2. new \in Job
    BY <1>1 DEF Job, Valued
  <2>3. Append(config.scripts, new) \in Seq(Job)
    BY <2>2, AppendProperties DEF OrderTypes
  <2> HIDE DEF new
  <2> QED BY <1>0, <2>1, <2>3 DEF OrderTypes
<1>2. CASE o = "m"
  <2>1. Configured(i) = [config EXCEPT !.main_ns = Value(i)]
    BY <1>2 DEF Configured
  <2>2. Value(i) \in Token
    BY <1>2 DEF Valued
  <2> QED BY <1>0, <2>1, <2>2 DEF OrderTypes
<1>3. CASE o \notin {"e", "i", "m"}
  <2>1. \E f, v : f \notin {"scripts", "main_ns"} /\ Configured(i) = [config EXCEPT ![f] = v]
    <3>1. CASE o = "r"
      <4>1. Configured(i) = [config EXCEPT !["repl"] = TRUE]
        BY <3>1 DEF Configured, Valued
      <4> QED BY <4>1
    <3>2. CASE o = "k"
      <4>1. Configured(i) = [config EXCEPT !["cache"] = Value(i)]
        BY <3>2 DEF Configured
      <4> QED BY <4>1
    <3>3. CASE o = "K"
      <4>1. Configured(i) = [config EXCEPT !["cache"] = ".planck_cache"]
        BY <3>3 DEF Configured, Valued
      <4> QED BY <4>1
    <3>4. CASE o = "n"
      <4>1. Configured(i) = [config EXCEPT !["given"] = [config["given"] EXCEPT !["n"] =
                               IF Value(i) \in Wrong THEN None ELSE Value(i)]]
        BY <3>4 DEF Configured
      <4> QED BY <4>1
    <3>5. CASE o \in Valued \ {"e", "i", "m", "k", "n"}
      <4>1. o \notin {"r", "K"}
        BY <3>5 DEF Valued
      <4>2. Configured(i) = [config EXCEPT !["given"] = [config["given"] EXCEPT ![o] = Value(i)]]
        BY <3>5, <4>1 DEF Configured
      <4> QED BY <4>2
    <3>6. CASE o \notin Valued \cup {"e", "i", "m", "r", "k", "K", "n"}
      <4>1. Configured(i) = [config EXCEPT !["flags"] = config["flags"] \cup {o}]
        BY <3>6 DEF Configured
      <4> QED BY <4>1
    <3> QED BY <1>3, <3>1, <3>2, <3>3, <3>4, <3>5, <3>6
  <2>2. PICK f, v : f \notin {"scripts", "main_ns"} /\ Configured(i) = [config EXCEPT ![f] = v]
    BY <2>1
  <2>3. /\ DOMAIN Configured(i) = DOMAIN config
        /\ Configured(i).scripts = config.scripts /\ Configured(i).main_ns = config.main_ns
    BY <1>0, <2>2
  <2> QED BY <1>0, <2>3 DEF OrderTypes
<1> QED BY <1>1, <1>2, <1>3

(* One option, at i: main goes on behind it with what the usage text has   *)
(* left, and the main options are followed by the words of the program.    *)
LEMMA ParseOptionKeepsOrder ==
  ASSUME OrderInv, NEW i \in DOMAIN argv, ParseOption(i)
  PROVE  OrderInv'
<1>1. OrderTypes /\ ParseInv
  BY DEF OrderInv
<1>2. /\ main = "parse" /\ main' \in {"parse", "configure", "exited"}
      /\ UNCHANGED <<argv, index, work>>
  BY DEF ParseOption, NextOption, ExitWith
<1>3. /\ i \in optind .. index - 1 /\ argv[i].form \in {"short", "long"}
      /\ \A k \in optind .. i - 1 : argv[k].form = "word"
      /\ optind' = Behind(argv, i)
      /\ skipped' = skipped \o SubSeq(argv, optind, i - 1)
  BY DEF ParseOption, NextOption, Consume, Behind
<1>4. /\ argv \in Seq(Token) /\ argv = Expanded(argv) /\ FirstScript(argv, index)
      /\ Len(argv) \in Nat /\ index \in 1 .. Len(argv) + 1 /\ optind \in Nat \ {0}
  BY <1>1, <1>2, LenProperties DEF OrderTypes, ParseInv, FirstScript, Parsing
<1>5. i \in 1 .. Len(argv) /\ i \in 1 .. index - 1 /\ optind' \in Nat \ {0}
  <2>1. i \in 1 .. Len(argv) /\ i \in 1 .. index - 1
    <3>1. i \in optind .. index - 1
      BY <1>3
    <3> QED BY <1>4, <3>1
  <2>2. optind' = i + 2 \/ optind' = i + 1
    BY <1>3 DEF Behind
  <2> QED BY <2>1, <2>2
<1>6. skipped' \in Seq(Token)
  <2>1. \A k \in optind .. i - 1 : argv[k] \in Token
    BY <1>4, <1>5, ElementOfSeq
  <2>2. SubSeq(argv, optind, i - 1) \in Seq(Token)
    BY <1>4, <1>5, <2>1, SubSeqProperties
  <2> QED BY <1>1, <1>3, <2>2, ConcatProperties DEF OrderTypes
<1>7. CASE main' = "exited"
  <2>1. UNCHANGED <<config, rest>>
    BY <1>2, <1>7 DEF ParseOption
  <2>2. OrderTypes'
    BY <1>1, <1>2, <1>5, <1>6, <2>1 DEF OrderTypes, work
  <2>3. ParseInv' /\ RestInv'
    BY <1>7 DEF ParseInv, RestInv, Parsing, InScripts, Evaluating, Waiting
  <2> QED BY <1>2, <1>7, <2>2, <2>3, ParserMoves DEF Parsing
<1>8. CASE main' # "exited"
  <2>1. /\ \A v \in {0, 1} : ~Ends(i, v)
        /\ config' = Configured(i)
        /\ IF argv[i].opt \in {"m", "r"}
           THEN rest' = SubSeq(argv, optind', Len(argv)) /\ main' = "configure"
           ELSE UNCHANGED <<rest, main>>
    BY <1>8 DEF ParseOption, ExitWith
  <2>2. ~Lacks(i)
    BY <2>1 DEF Ends
  <2>3. Takes(argv[i]) => i + 1 < index
    BY <1>4, <1>5, <2>2 DEF Lacks
  <2>4. optind' <= index /\ optind' \in 1 .. Len(argv) + 2
    <3>1. CASE Takes(argv[i])
      <4>1. optind' = i + 2
        BY <1>3, <3>1 DEF Behind
      <4> QED BY <1>4, <1>5, <2>3, <3>1, <4>1
    <3>2. CASE ~Takes(argv[i])
      <4>1. optind' = i + 1
        BY <1>3, <3>2 DEF Behind
      <4> QED BY <1>4, <1>5, <4>1
    <3> QED BY <3>1, <3>2
  <2>5. argv[i].opt \in Valued => Value(i) \in Token
    <3>1. Takes(argv[i]) => i < Len(argv)
      BY <1>4, <1>5, <2>3
    <3> QED BY <1>3, <1>4, <1>5, <3>1, ValueGiven
  <2>6. rest' \in Seq(Token)
    <3>1. SubSeq(argv, optind', Len(argv)) \in Seq(Token)
      BY <1>4, <1>5, PartOf
    <3> QED BY <1>1, <2>1, <3>1 DEF OrderTypes
  <2>7. OrderTypes'
    <3>1. /\ {"scripts", "main_ns", "repl"} \subseteq DOMAIN config'
          /\ config'.scripts \in Seq(Job) /\ config'.main_ns \in Token \cup {None}
      BY <1>1, <2>1, <2>5, ConfiguredKeepsTypes
    <3> QED BY <1>1, <1>2, <1>5, <1>6, <2>6, <3>1 DEF OrderTypes, work
  <2>8. ASSUME ~Unclear(argv)
        PROVE  /\ i = optind /\ skipped' = <<>>
               /\ Reading(argv)[i].rest = Meant(argv).rest
    <3>1. AtOption(optind)
      BY <1>1, <1>2, <2>8 DEF ParseInv
    <3>2. i = optind
      <4> SUFFICES ASSUME i # optind PROVE FALSE
        OBVIOUS
      <4>1. optind \in optind .. i - 1 /\ optind < index
        BY <1>3, <1>4, <1>5
      <4> QED BY <1>3, <3>1, <4>1 DEF AtOption
    <3>3. SubSeq(argv, optind, i - 1) = <<>>
      BY <1>4, <3>2, SubSeqEmpty
    <3> QED BY <1>3, <3>1, <3>2, <3>3, EmptySeq, ConcatEmptySeq DEF AtOption
  <2>9. ASSUME ~Unclear(argv), optind' < index PROVE argv[optind'].form \in {"short", "long"}
    BY <1>3, <1>4, <1>5, <2>9, OptionFollows
  <2>10. /\ argv[i].opt \in {"m", "r"} => Reading(argv)[i].rest = SubSeq(argv, optind', Len(argv))
         /\ argv[i].opt \notin {"m", "r"} => Reading(argv)[i].rest = Reading(argv)[optind'].rest
    <3>1. i \in 1 .. Len(argv) + 2 /\ i <= Len(argv)
      BY <1>4, <1>5
    <3> QED BY <1>3, <1>4, <3>1, Rests
  <2>11. CASE argv[i].opt \in {"m", "r"}
    <3>1. main' = "configure" /\ rest' = SubSeq(argv, optind', Len(argv))
      BY <2>1, <2>11
    <3>2. ParseInv'
      BY <1>2, <1>4, <3>1 DEF ParseInv
    <3>3. Unclear(argv) \/ rest' = Meant(argv).rest
      BY <2>8, <2>10, <2>11, <3>1
    <3>4. RestInv'
      BY <1>2, <2>6, <3>1, <3>3 DEF RestInv
    <3> QED BY <1>2, <2>7, <3>1, <3>2, <3>4, ParserMoves DEF Parsing
  <2>12. CASE argv[i].opt \notin {"m", "r"}
    <3>1. main' = "parse" /\ UNCHANGED rest
      BY <1>2, <2>1, <2>12
    <3>2. ASSUME ~Unclear(argv) PROVE AtOption(optind)'
      <4>1. Reading(argv)[optind'].rest = Meant(argv).rest
        BY <2>8, <2>10, <2>12, <3>2
      <4> QED BY <1>2, <2>8, <2>9, <3>2, <4>1 DEF AtOption
    <3>3. ParseInv'
      BY <1>2, <1>4, <2>4, <3>1, <3>2 DEF ParseInv
    <3>4. RestInv'
      BY <3>1 DEF RestInv, InScripts, Evaluating, Waiting
    <3> QED BY <1>2, <2>7, <3>1, <3>3, <3>4, ParserMoves DEF Parsing
  <2> QED BY <2>11, <2>12
<1> QED BY <1>7, <1>8

LEMMA NoOptionKeepsOrder == OrderInv /\ NoOption => OrderInv'
<1> SUFFICES ASSUME OrderInv, NoOption PROVE OrderInv'
  OBVIOUS
<1>1. OrderTypes /\ ParseInv
  BY DEF OrderInv
<1>2. /\ main = "parse" /\ main' = "configure" /\ UNCHANGED <<argv, index, optind, skipped, config, work>>
      /\ \A k \in optind .. index - 1 : argv[k].form = "word"
      /\ rest' = skipped \o SubSeq(argv, optind, Len(argv))
  BY DEF NoOption
<1>3. /\ argv \in Seq(Token) /\ argv = Expanded(argv) /\ FirstScript(argv, index) /\ optind <= index
      /\ Len(argv) \in Nat /\ index \in 1 .. Len(argv) + 1 /\ optind \in Nat \ {0}
  BY <1>1, <1>2, LenProperties DEF OrderTypes, ParseInv, FirstScript, Parsing
<1>4. SubSeq(argv, optind, Len(argv)) \in Seq(Token)
  BY <1>3, PartOf
<1>5. rest' \in Seq(Token)
  BY <1>1, <1>2, <1>4, ConcatProperties DEF OrderTypes
<1>6. OrderTypes'
  BY <1>1, <1>2, <1>5 DEF OrderTypes, work
<1>7. ASSUME ~Unclear(argv) PROVE rest' = Meant(argv).rest
  <2>1. AtOption(optind)
    BY <1>1, <1>2, <1>7 DEF ParseInv
  <2>2. optind = index
    <3> SUFFICES ASSUME optind < index PROVE FALSE
      BY <1>3
    <3>1. optind \in optind .. index - 1
      BY <1>3
    <3> QED BY <1>2, <2>1, <3>1 DEF AtOption
  <2>3. rest' = SubSeq(argv, optind, Len(argv))
    BY <1>2, <1>4, <2>1, ConcatEmptySeq DEF AtOption
  <2>4. optind \in 1 .. Len(argv) + 2
    BY <1>3
  <2>5. optind <= Len(argv) => argv[optind].form \in {"word", "hyphen"}
    BY <1>3, <2>2 DEF FirstScript, IsScript
  <2>6. Reading(argv)[optind].rest = SubSeq(argv, optind, Len(argv))
    <3>1. /\ optind > Len(argv) => Reading(argv)[optind].rest = SubSeq(argv, optind, Len(argv))
          /\ optind <= Len(argv) /\ argv[optind].form \in {"word", "hyphen"} =>
               Reading(argv)[optind].rest = SubSeq(argv, optind, Len(argv))
      BY <1>3, <2>4, Rests
    <3> QED BY <1>3, <2>5, <3>1
  <2> QED BY <2>1, <2>3, <2>6 DEF AtOption
<1>8. ParseInv'
  BY <1>2, <1>3 DEF ParseInv
<1>9. RestInv'
  BY <1>2, <1>5, <1>7 DEF RestInv
<1> QED BY <1>2, <1>6, <1>8, <1>9, ParserMoves DEF Parsing

LEMMA ConfigureKeepsOrder == OrderInv /\ Configure => OrderInv'
<1> SUFFICES ASSUME OrderInv, Configure PROVE OrderInv'
  OBVIOUS
<1>1. /\ main = "configure" /\ main' \in {"engine", "exited"}
      /\ UNCHANGED <<argv, index, optind, skipped, rest, work>>
  BY DEF Configure, ExitWith
<1>2. PICK v, w : config' = [config EXCEPT !.src = v, !.repl = w]
  BY DEF Configure
<1>3. OrderTypes'
  <2>1. /\ {"scripts", "main_ns", "repl"} \subseteq DOMAIN config
        /\ config.scripts \in Seq(Job) /\ config.main_ns \in Token \cup {None}
    BY DEF OrderInv, OrderTypes
  <2>2. /\ DOMAIN config' = DOMAIN config
        /\ config'.scripts = config.scripts /\ config'.main_ns = config.main_ns
    BY <1>2, <2>1
  <2> QED BY <1>1, <2>1, <2>2 DEF OrderInv, OrderTypes, work
<1>4. ParseInv'
  BY <1>1 DEF OrderInv, ParseInv, Parsing
<1>5. RestInv'
  BY <1>1 DEF OrderInv, RestInv, InScripts, Evaluating, Waiting
<1> QED BY <1>1, <1>3, <1>4, <1>5, ParserMoves DEF Parsing

LEMMA CommandLineKeepsOrder == OrderInv /\ CommandLine => OrderInv'
BY FindScriptKeepsOrder, ParseOptionKeepsOrder, NoOptionKeepsOrder, ConfigureKeepsOrder
   DEF CommandLine
-----------------------------------------------------------------------------
(* After the command line: the plan stands, and what has run, is running   *)
(* and is to come make it up.                                              *)
LEMMA PlanIsTyped ==
  ASSUME OrderTypes, ~Unclear(argv), Meant(argv).rest \in Seq(Token)
  PROVE  /\ MainPart \in Seq(Job) /\ Plan \in Seq(Job)
         /\ Now \in Seq(Job) /\ Later \in Seq(Job)
<1> DEFINE r == Meant(argv).rest
<1>1. MainPart \in Seq(Job)
  <2>1. CASE config.main_ns # None
    <3>1. [type |-> "main", of |-> config.main_ns] \in Job
      BY <2>1 DEF Job, OrderTypes
    <3> QED BY <2>1, <3>1 DEF MainPart
  <2>2. CASE config.main_ns = None /\ ~(config.repl \/ r = <<>>)
    <3>1. Len(r) \in Nat \ {0}
      BY <2>2, EmptySeq
    <3>2. r[1] \in Token
      BY <3>1, ElementOfSeq
    <3>3. [type |-> IF r[1] = Hyphen THEN "text" ELSE "path", of |-> r[1]] \in Job
      BY <3>2 DEF Job
    <3>4. MainPart = <<[type |-> IF r[1] = Hyphen THEN "text" ELSE "path", of |-> r[1]]>>
      BY <2>2 DEF MainPart
    <3> QED BY <3>3, <3>4
  <2>3. CASE config.main_ns = None /\ (config.repl \/ r = <<>>)
    BY <2>3, EmptySeq DEF MainPart
  <2> QED BY <2>1, <2>2, <2>3
<1>2. Plan \in Seq(Job)
  BY <1>1, ConcatProperties DEF Plan, OrderTypes
<1>3. Now \in Seq(Job)
  BY EmptySeq DEF Now, OrderTypes
<1>4. Later \in Seq(Job)
  BY <1>1, EmptySeq, ConcatProperties DEF Later, OrderTypes
<1> QED BY <1>1, <1>2, <1>3, <1>4

LEMMA PlanStands ==
  ASSUME UNCHANGED <<argv, config>>
  PROVE  UNCHANGED <<MainPart, Plan, Unclear(argv), Meant(argv)>>
BY DEF MainPart, Plan

(* The command line and its reading are out of the way. *)
LEMMA ParseIsOver ==
  ASSUME OrderInv, UNCHANGED <<argv, index, optind, skipped>>, ~Parsing'
  PROVE  ParseInv'
BY DEF ParseInv, Parsing

(* Main goes on, and nothing more or less is to be run. *)
LEMMA OrderMoves ==
  ASSUME OrderInv, ~Parsing, main # "exited", ~Parsing', main' # "exited",
         UNCHANGED <<argv, index, optind, skipped, config, rest, work>>,
         RouteInv', job # None => main' = "advance" \/ Evaluating',
         main' = "main" \/ InScripts' => main = "main" \/ InScripts,
         Later' = Later
  PROVE  OrderInv'
<1>1. OrderTypes' /\ ParseInv'
  BY ParseIsOver DEF OrderInv, OrderTypes, work
<1>2. UNCHANGED <<MainPart, Plan, Unclear(argv), Meant(argv)>>
  BY PlanStands
<1>3. RestInv'
  BY <1>2 DEF OrderInv, RestInv, Parsing
<1>4. JobInv'
  BY DEF JobInv, work
<1>5. UNCHANGED <<ran, Now>>
  BY DEF work, Now
<1>6. Completes(Now \o Later)' <=> Completes(Now \o Later)
  BY <1>2, <1>5 DEF Completes
<1>7. PlanInv'
  BY <1>2, <1>6 DEF OrderInv, PlanInv
<1>8. ThrowInv'
  BY <1>5 DEF OrderInv, ThrowInv
<1> QED BY <1>1, <1>3, <1>4, <1>7, <1>8 DEF OrderInv

(* The process ends before what it had to run. *)
LEMMA OrderExits ==
  ASSUME OrderInv, main # "exited", main' = "exited",
         UNCHANGED <<argv, index, optind, skipped, config, rest, work>>
  PROVE  OrderInv'
<1>0. ~Parsing'
  BY DEF Parsing
<1>1. OrderTypes' /\ ParseInv'
  BY <1>0, ParseIsOver DEF OrderInv, OrderTypes, work
<1>2. UNCHANGED <<MainPart, Plan, Unclear(argv), Meant(argv)>>
  BY PlanStands
<1>3. RestInv'
  BY DEF RestInv, InScripts, Evaluating, Waiting
<1>4. JobInv'
  BY DEF JobInv, RouteInv, Parsing, Waiting
<1>5. PlanInv'
  <2> SUFFICES ASSUME ran # <<>>, ~Unclear(argv) PROVE \E s \in Seq(Job) : Completes(s)'
    BY <1>2 DEF PlanInv, work
  <2>1. ~Parsing
    BY DEF OrderInv, JobInv
  <2>2. Completes(Now \o Later) /\ Meant(argv).rest \in Seq(Token)
    BY <2>1 DEF OrderInv, PlanInv, RestInv, Parsing
  <2>3. Now \o Later \in Seq(Job)
    BY <2>2, PlanIsTyped, ConcatProperties DEF OrderInv
  <2>4. PICK s \in Seq(Job) : Completes(s)
    BY <2>2, <2>3
  <2>5. Completes(s)'
    BY <1>2, <2>4 DEF Completes, work
  <2> QED BY <2>5
<1>6. ThrowInv'
  BY DEF OrderInv, ThrowInv, work
<1> QED BY <1>1, <1>3, <1>4, <1>5, <1>6 DEF OrderInv

(* Beside the plan: what a REPL evaluates, and the end of the process.     *)
Beside == {"cli", "repl", "listen", "prompt", "edit", "handle", "reset", "keep", "tasks", "shutdown",
           "return", "returned"}

LEMMA OrderBeside ==
  ASSUME OrderInv, main \in Beside, UNCHANGED <<argv, index, optind, skipped, config, rest, work>>,
         \/ main' \in Beside
         \/ main' = "exited"
         \/ main' = "block" /\ after' \in {"listen", "handle", "prompt"}
         \/ main' = "block" /\ after' = "lock" /\ back' = "tasks"
         \/ main' = "lock" /\ back' = "reset"
  PROVE  OrderInv'
<1>1. CASE main' = "exited"
  BY <1>1, OrderExits DEF Beside
<1>2. CASE main' # "exited"
  <2>1. ~Parsing /\ main # "exited" /\ ~Evaluating /\ ~InScripts /\ main \notin {"main", "advance"}
    BY DEF Beside, Parsing, Evaluating, InScripts, Waiting
  <2>2. job = None /\ Later = <<>>
    BY <2>1 DEF OrderInv, JobInv, Later
  <2>3. ~Parsing' /\ ~InScripts' /\ main' # "main" /\ RouteInv'
    BY <1>2 DEF Beside, Parsing, Evaluating, InScripts, Waiting, RouteInv, Entering
  <2>4. Later' = <<>>
    BY <2>3 DEF Later
  <2> QED BY <1>2, <2>1, <2>2, <2>3, <2>4, OrderMoves
<1> QED BY <1>1, <1>2

(* Waiting for the engine, for an evaluation or for something else         *)
LEMMA OrderWaits ==
  ASSUME OrderInv, Waiting, main' \in {"asleep", "woken", after},
         UNCHANGED <<argv, index, optind, skipped, config, rest, work, after, back>>
  PROVE  OrderInv'
<1>1. RouteInv /\ after \in Entering
  BY DEF OrderInv, JobInv, RouteInv
<1>2. ~Parsing /\ ~Parsing' /\ main \notin {"exited", "main", "scripts", "advance"}
      /\ main' \notin {"exited", "main", "scripts", "advance"}
  BY <1>1 DEF Waiting, Parsing, Entering
<1>3. Evaluating' <=> Evaluating
  BY <1>1, <1>2 DEF Evaluating, Waiting, Entering
<1>4. InScripts' <=> InScripts
  BY <1>2, <1>3 DEF InScripts
<1>5. RouteInv'
  BY <1>1, <1>2 DEF RouteInv, Waiting, Entering
<1>6. Later' = Later
  <2>1. UNCHANGED <<MainPart, todo>>
    BY PlanStands DEF work
  <2> QED BY <1>2, <1>4, <2>1 DEF Later
<1>7. job # None => Evaluating
  BY <1>2 DEF OrderInv, JobInv
<1> QED BY <1>2, <1>3, <1>4, <1>5, <1>6, <1>7, OrderMoves
-----------------------------------------------------------------------------
LEMMA CreateEngineKeepsOrder == OrderInv /\ CreateEngine => OrderInv'
<1> SUFFICES ASSUME OrderInv, CreateEngine PROVE OrderInv'
  OBVIOUS
<1>1. main = "engine" /\ UNCHANGED <<argv, index, optind, skipped, config, rest, job, ran>>
  BY DEF CreateEngine, Still
<1>2. CASE main' = "exited"
  <2>1. UNCHANGED todo
    BY <1>2 DEF CreateEngine
  <2> QED BY <1>1, <1>2, <2>1, OrderExits DEF work
<1>3. CASE main' # "exited"
  <2>1. main' = "scripts" /\ todo' = config.scripts
    BY <1>3 DEF CreateEngine, ExitWith
  <2>2. ~Parsing' /\ ~Waiting' /\ ~Evaluating' /\ InScripts'
    BY <2>1 DEF Parsing, Waiting, Evaluating, InScripts
  <2>3. OrderTypes' /\ ParseInv'
    BY <1>1, <2>1, <2>2, ParseIsOver DEF OrderInv, OrderTypes
  <2>4. UNCHANGED <<MainPart, Plan, Unclear(argv), Meant(argv)>>
    BY <1>1, PlanStands
  <2>5. job = None /\ ran = <<>>
    BY <1>1 DEF OrderInv, JobInv, Parsing, Evaluating, Waiting
  <2>6. Unclear(argv) \/ (rest = Meant(argv).rest /\ Meant(argv).rest \in Seq(Token))
    BY <1>1 DEF OrderInv, RestInv, OrderTypes
  <2>7. RestInv'
    BY <1>1, <2>4, <2>6 DEF RestInv
  <2>8. JobInv'
    BY <1>1, <2>2, <2>5 DEF JobInv, RouteInv, Evaluating
  <2>9. ASSUME ~Unclear(argv) PROVE Completes(Now \o Later)'
    <3>1. Plan \in Seq(Job)
      BY <2>6, <2>9, PlanIsTyped DEF OrderInv
    <3>2. Later' = Plan /\ Now' = <<>> /\ ran' = <<>>
      BY <1>1, <2>1, <2>2, <2>4, <2>5 DEF Later, Plan, Now
    <3>3. <<>> \o (<<>> \o Plan) = Plan
      BY <3>1, ConcatEmptySeq
    <3> QED BY <2>4, <3>2, <3>3 DEF Completes
  <2>10. PlanInv'
    BY <2>1, <2>4, <2>9 DEF PlanInv
  <2>11. ThrowInv'
    BY <1>1, <2>5, EmptySeq DEF ThrowInv
  <2> QED BY <2>3, <2>7, <2>8, <2>10, <2>11 DEF OrderInv
<1> QED BY <1>2, <1>3

(* Main takes what it runs next from what is to come. *)
LEMMA OrderTakes ==
  ASSUME OrderInv, main \in {"scripts", "main"},
         UNCHANGED <<argv, index, optind, skipped, config, ran>>,
         main' \in {"main", "block", "advance", "repl", "cli"},
         main' = "block" => after' \in {"lock", "js"} /\ back' \in {"scripts", "cli"},
         job' # None => main' \in {"block", "advance"}, RestInv',
         rest' \in Seq(Token), job' \in Job \cup {None}, todo' \in Seq(Job),
         Unclear(argv) \/ (Now \o Later)' = Later
  PROVE  OrderInv'
<1>1. ~Parsing /\ ~Parsing' /\ job = None
  BY DEF OrderInv, JobInv, Parsing, Evaluating, Waiting
<1>2. OrderTypes' /\ ParseInv'
  BY <1>1, ParseIsOver DEF OrderInv, OrderTypes
<1>3. UNCHANGED <<MainPart, Plan, Unclear(argv), Meant(argv)>>
  BY PlanStands
<1>4. JobInv'
  BY <1>1 DEF JobInv, RouteInv, Waiting, Evaluating, Entering
<1>5. ASSUME ~Unclear(argv) PROVE Completes(Now \o Later)'
  <2>1. Completes(Now \o Later) /\ Meant(argv).rest \in Seq(Token)
    BY <1>1, <1>5 DEF OrderInv, PlanInv, RestInv, Parsing
  <2>2. Later \in Seq(Job) /\ Now = <<>>
    BY <1>1, <1>5, <2>1, PlanIsTyped DEF OrderInv, Now
  <2>3. Now \o Later = Later
    BY <2>2, ConcatEmptySeq
  <2> QED BY <1>3, <1>5, <2>1, <2>3 DEF Completes
<1>6. PlanInv'
  BY <1>3, <1>5 DEF PlanInv
<1>7. ThrowInv'
  BY DEF OrderInv, ThrowInv
<1> QED BY <1>2, <1>4, <1>6, <1>7 DEF OrderInv

LEMMA NextScriptKeepsOrder == OrderInv /\ NextScript => OrderInv'
<1> SUFFICES ASSUME OrderInv, NextScript PROVE OrderInv'
  OBVIOUS
<1>1. OrderTypes /\ main = "scripts" /\ InScripts
      /\ UNCHANGED <<argv, index, optind, skipped, config, rest, ran>>
  BY DEF OrderInv, NextScript, Still, InScripts
<1>2. job = None
  BY <1>1 DEF OrderInv, JobInv, Evaluating, Waiting
<1>3. UNCHANGED <<MainPart, Plan, Unclear(argv), Meant(argv)>>
  BY <1>1, PlanStands
<1>4. Unclear(argv) \/ (rest = Meant(argv).rest /\ Meant(argv).rest \in Seq(Token))
  BY <1>1 DEF OrderInv, RestInv
<1>5. RestInv'
  BY <1>1, <1>3, <1>4 DEF RestInv
<1>6. Later = todo \o MainPart
  BY <1>1 DEF Later
<1>7. CASE todo = <<>>
  <2>1. main' = "main" /\ UNCHANGED <<job, todo>>
    BY <1>7 DEF NextScript
  <2>2. ASSUME ~Unclear(argv) PROVE (Now \o Later)' = Later
    <3>1. MainPart \in Seq(Job)
      BY <1>1, <1>4, <2>2, PlanIsTyped
    <3>2. Now' = <<>> /\ Later' = MainPart
      BY <1>2, <1>3, <2>1 DEF Now, Later, InScripts, Evaluating, Waiting
    <3> QED BY <1>6, <1>7, <3>1, <3>2, ConcatEmptySeq
  <2> QED BY <1>1, <1>2, <1>5, <2>1, <2>2, OrderTakes DEF OrderTypes
<1>8. CASE todo # <<>>
  <2>1. main' = "block" /\ job' = Head(todo) /\ after' = "lock" /\ back' = "scripts" /\ todo' = Tail(todo)
    BY <1>8 DEF NextScript, Evaluate
  <2>2. Head(todo) \in Job /\ Tail(todo) \in Seq(Job) /\ todo = <<Head(todo)>> \o Tail(todo)
    BY <1>1, <1>8, HeadTailProperties DEF OrderTypes
  <2>3. ASSUME ~Unclear(argv) PROVE (Now \o Later)' = Later
    <3>1. MainPart \in Seq(Job)
      BY <1>1, <1>4, <2>3, PlanIsTyped
    <3>2. Now' = <<Head(todo)>>
      BY <2>1, <2>2, StartupAssumption DEF Now
    <3>3. Later' = Tail(todo) \o MainPart
      BY <1>3, <2>1 DEF Later, InScripts, Evaluating, Waiting
    <3>4. PICK j, t, p : j = Head(todo) /\ t = Tail(todo) /\ p = MainPart
      OBVIOUS
    <3>5. <<j>> \in Seq(Job) /\ t \in Seq(Job) /\ p \in Seq(Job)
      BY <2>2, <3>1, <3>4
    <3>6. (<<j>> \o t) \o p = <<j>> \o (t \o p)
      BY <3>5, ConcatAssociative
    <3> QED BY <1>6, <2>2, <3>2, <3>3, <3>4, <3>6
  <2> QED BY <1>1, <1>5, <2>1, <2>2, <2>3, OrderTakes DEF OrderTypes
<1> QED BY <1>7, <1>8

LEMMA RunMainKeepsOrder == OrderInv /\ RunMain => OrderInv'
<1> SUFFICES ASSUME OrderInv, RunMain PROVE OrderInv'
  OBVIOUS
<1>1. OrderTypes /\ main = "main" /\ ~InScripts
      /\ UNCHANGED <<argv, index, optind, skipped, config, ran, todo>>
  BY DEF OrderInv, RunMain, Still, InScripts, Evaluating, Waiting
<1>2. job = None
  BY <1>1 DEF OrderInv, JobInv, Evaluating, Waiting
<1>3. UNCHANGED <<MainPart, Plan, Unclear(argv), Meant(argv)>>
  BY <1>1, PlanStands
<1>4. Unclear(argv) \/ (rest = Meant(argv).rest /\ Meant(argv).rest \in Seq(Token))
  BY <1>1 DEF OrderInv, RestInv
<1>5. Unclear(argv) \/ MainJob = MainPart
  BY <1>1, <1>4, EmptySeq DEF MainJob, MainPart, OrderTypes
<1>6. Later = MainPart
  BY <1>1 DEF Later
<1>7. CASE config.main_ns # None
  <2>1. /\ main' = "block" /\ job' = MainJob[1] /\ after' = "js" /\ back' = "cli" /\ UNCHANGED rest
        /\ MainJob = <<[type |-> "main", of |-> config.main_ns]>>
    BY <1>7 DEF RunMain, Evaluate, MainJob
  <2>2. job' \in Job /\ MainJob = <<job'>>
    BY <1>1, <1>7, <2>1 DEF Job, OrderTypes
  <2>3. Now' = MainJob /\ Later' = <<>>
    BY <2>1, <2>2, StartupAssumption DEF Now, Later, InScripts, Evaluating, Waiting
  <2>4. <<job'>> \o <<>> = <<job'>>
    BY <2>2, ConcatEmptySeq
  <2>5. RestInv'
    BY <1>3, <1>4, <2>1 DEF RestInv, InScripts, Evaluating, Waiting
  <2>6. Unclear(argv) \/ (Now \o Later)' = Later
    BY <1>5, <1>6, <2>2, <2>3, <2>4
  <2> QED BY <1>1, <2>1, <2>2, <2>5, <2>6, OrderTakes DEF OrderTypes
<1>8. CASE config.main_ns = None /\ MainJob # <<>>
  <2>1. /\ main' = "advance" /\ job' = MainJob[1] /\ rest' = Tail(rest)
        /\ rest # <<>>
        /\ MainJob = <<[type |-> IF Head(rest) = Hyphen THEN "text" ELSE "path", of |-> Head(rest)]>>
    BY <1>8 DEF RunMain, MainJob
  <2>2. Head(rest) \in Token /\ Tail(rest) \in Seq(Token)
    BY <1>1, <2>1, HeadTailProperties DEF OrderTypes
  <2>3. job' \in Job /\ MainJob = <<job'>>
    BY <2>1, <2>2 DEF Job
  <2>4. Now' = MainJob /\ Later' = <<>>
    BY <2>1, <2>3, StartupAssumption DEF Now, Later, InScripts, Evaluating, Waiting
  <2>5. <<job'>> \o <<>> = <<job'>>
    BY <2>3, ConcatEmptySeq
  <2>6. RestInv'
    BY <1>3, <1>4, <2>1 DEF RestInv, InScripts, Evaluating, Waiting
  <2>7. Unclear(argv) \/ (Now \o Later)' = Later
    BY <1>5, <1>6, <2>3, <2>4, <2>5
  <2> QED BY <1>1, <2>1, <2>2, <2>3, <2>6, <2>7, OrderTakes DEF OrderTypes
<1>9. CASE config.main_ns = None /\ MainJob = <<>>
  <2>1. main' \in {"repl", "cli"} /\ UNCHANGED <<job, rest>>
    BY <1>9 DEF RunMain
  <2>2. Now' = <<>> /\ Later' = <<>>
    BY <1>2, <2>1 DEF Now, Later, InScripts, Evaluating, Waiting
  <2>3. RestInv'
    BY <1>3, <1>4, <2>1 DEF RestInv, InScripts, Evaluating, Waiting
  <2>4. Unclear(argv) \/ (Now \o Later)' = Later
    BY <1>5, <1>6, <1>9, <2>2, EmptySeq, ConcatEmptySeq
  <2> QED BY <1>1, <1>2, <2>1, <2>3, <2>4, OrderTakes DEF OrderTypes
<1> QED BY <1>7, <1>8, <1>9

(* What was running has run, and main goes on after it, or the process     *)
(* ends.                                                                   *)
LEMMA EvaluationKeepsOrder == OrderInv /\ (EvaluationEnds \/ EvaluationFails) => OrderInv'
<1> SUFFICES ASSUME OrderInv, EvaluationEnds \/ EvaluationFails PROVE OrderInv'
  OBVIOUS
<1>1. /\ OrderTypes /\ RouteInv /\ main = "js" /\ main' \in {back, "exited"}
      /\ UNCHANGED <<argv, index, optind, skipped, config, rest, todo, after, back>>
      /\ Ran
      /\ EvaluationFails /\ ~config.repl => main' = "exited"
  BY DEF OrderInv, JobInv, EvaluationEnds, EvaluationFails, ExitWith, Still
<1>2. Evaluating /\ (InScripts <=> back = "scripts") /\ ~Parsing
  BY <1>1 DEF Evaluating, InScripts, Parsing
<1>3. back \in {"scripts", "cli", "tasks", "reset"}
  BY <1>1 DEF RouteInv
<1>4. ~Parsing' /\ ~Waiting' /\ ~Evaluating' /\ main' # "main" /\ (InScripts' <=> main' = "scripts")
  BY <1>1, <1>3 DEF Parsing, Waiting, Evaluating, InScripts
<1>5. Now \in Seq(Job) /\ ran' = ran \o Now /\ ran' \in Seq(Job) /\ job' = None
  <2>1. CASE job = None
    <3>1. Now = <<>> /\ ran' = ran /\ job' = None
      BY <1>1, <2>1 DEF Ran, Now
    <3> QED BY <1>1, <3>1, EmptySeq, ConcatEmptySeq DEF OrderTypes
  <2>2. CASE job # None
    <3>1. Now = <<job>> /\ ran' = Append(ran, job) /\ job' = None /\ job \in Job
      BY <1>1, <2>2 DEF Ran, Now, OrderTypes
    <3>2. Append(ran, job) = ran \o <<job>> /\ Append(ran, job) \in Seq(Job)
      BY <1>1, <3>1, AppendIsConcat, AppendProperties DEF OrderTypes
    <3> QED BY <3>1, <3>2
  <2> QED BY <2>1, <2>2
<1>6. OrderTypes' /\ ParseInv'
  BY <1>1, <1>4, <1>5, ParseIsOver DEF OrderInv, OrderTypes
<1>7. UNCHANGED <<MainPart, Plan, Unclear(argv), Meant(argv)>>
  BY <1>1, PlanStands
<1>8. RestInv'
  BY <1>1, <1>2, <1>3, <1>4, <1>7 DEF OrderInv, RestInv
<1>9. JobInv'
  BY <1>4, <1>5 DEF JobInv, RouteInv, Evaluating
<1>10. PlanInv'
  <2> SUFFICES ASSUME ~Unclear(argv)
               PROVE  /\ main' # "exited" => Completes(Now \o Later)'
                      /\ \E s \in Seq(Job) : Completes(s)'
    BY <1>4, <1>7 DEF PlanInv
  <2>1. Completes(Now \o Later) /\ Meant(argv).rest \in Seq(Token)
    BY <1>1, <1>2 DEF OrderInv, PlanInv, RestInv
  <2>2. Later \in Seq(Job)
    BY <1>1, <2>1, PlanIsTyped
  <2>3. ran' \o Later = Plan'
    <3>1. PICK r, n, l : r = ran /\ n = Now /\ l = Later
      OBVIOUS
    <3>2. r \in Seq(Job) /\ n \in Seq(Job) /\ l \in Seq(Job)
      BY <1>1, <1>5, <2>2, <3>1 DEF OrderTypes
    <3>3. (r \o n) \o l = r \o (n \o l)
      BY <3>2, ConcatAssociative
    <3> QED BY <1>5, <1>7, <2>1, <3>1, <3>3 DEF Completes
  <2>4. ASSUME main' # "exited" PROVE (Now \o Later)' = Later
    <3>1. Now' = <<>>
      BY <1>5 DEF Now
    <3>2. Later' = Later
      BY <1>1, <1>2, <1>3, <1>4, <1>7, <2>4 DEF Later
    <3> QED BY <2>2, <3>1, <3>2, ConcatEmptySeq
  <2>5. main' # "exited" => Completes(Now \o Later)'
    BY <2>3, <2>4 DEF Completes
  <2>6. \E s \in Seq(Job) : Completes(s)'
    <3>1. PICK s \in Seq(Job) : s = Later
      BY <2>2
    <3>2. Completes(s)'
      BY <2>3, <3>1 DEF Completes
    <3> QED BY <3>2
  <2> QED BY <2>5, <2>6
<1>11. ThrowInv'
  <2> SUFFICES ASSUME ~config.repl
               PROVE  /\ \A k \in 1 .. Len(ran') - 1 : ran'[k].of \notin Throwing
                      /\ main' # "exited" => \A k \in 1 .. Len(ran') : ran'[k].of \notin Throwing
    BY <1>1 DEF ThrowInv
  <2>1. \A k \in 1 .. Len(ran) : ran[k].of \notin Throwing
    BY <1>1 DEF OrderInv, ThrowInv
  <2>2. CASE job = None
    <3>1. ran' = ran /\ Len(ran) \in Nat
      BY <1>1, <2>2, LenProperties DEF Ran, OrderTypes
    <3> QED BY <2>1, <3>1
  <2>3. CASE job # None
    <3>1. ran' = Append(ran, job) /\ job \in Job /\ Len(ran) \in Nat
      BY <1>1, <2>3, LenProperties DEF Ran, OrderTypes
    <3>2. /\ Len(ran') = Len(ran) + 1
          /\ \A k \in 1 .. Len(ran) : ran'[k] = ran[k]
          /\ ran'[Len(ran) + 1] = job
      BY <1>1, <3>1, AppendProperties DEF OrderTypes
    <3>3. main' # "exited" => job.of \notin Throwing
      BY <1>1, <2>3 DEF EvaluationEnds
    <3>4. \A k \in 1 .. Len(ran) : ran'[k].of \notin Throwing
      BY <2>1, <3>2
    <3>5. \A k \in 1 .. Len(ran') - 1 : ran'[k].of \notin Throwing
      BY <3>1, <3>2, <3>4
    <3>6. ASSUME main' # "exited", NEW k \in 1 .. Len(ran') PROVE ran'[k].of \notin Throwing
      <4>1. CASE k = Len(ran) + 1
        BY <3>2, <3>3, <3>6, <4>1
      <4>2. CASE k # Len(ran) + 1
        BY <3>1, <3>2, <3>4, <3>6, <4>2
      <4> QED BY <4>1, <4>2
    <3> QED BY <3>5, <3>6
  <2> QED BY <2>2, <2>3
<1> QED BY <1>6, <1>8, <1>9, <1>10, <1>11 DEF OrderInv

LEMMA RunScriptKeepsOrder == OrderInv /\ RunScript => OrderInv'
<1> SUFFICES ASSUME OrderInv, RunScript PROVE OrderInv'
  OBVIOUS
<1>1. /\ main = "advance" /\ main' = "block" /\ after' = "lock" /\ back' = "cli"
      /\ UNCHANGED <<argv, index, optind, skipped, config, rest, work>>
  BY DEF RunScript, Evaluate, Still, work
<1>2. ~Parsing /\ ~Parsing' /\ Evaluating' /\ ~InScripts /\ ~InScripts' /\ RouteInv'
  BY <1>1 DEF Parsing, Evaluating, InScripts, Waiting, RouteInv, Entering
<1>3. Later = <<>> /\ Later' = <<>>
  BY <1>1, <1>2 DEF Later
<1> QED BY <1>1, <1>2, <1>3, OrderMoves

LEMMA LockEvalKeepsOrder == OrderInv /\ LockEval => OrderInv'
<1> SUFFICES ASSUME OrderInv, LockEval PROVE OrderInv'
  OBVIOUS
<1>1. /\ main = "lock" /\ main' = "js"
      /\ UNCHANGED <<argv, index, optind, skipped, config, rest, work, back>>
  BY DEF LockEval, Still
<1>2. ~Parsing /\ ~Parsing' /\ Evaluating' /\ Evaluating /\ (InScripts' <=> InScripts)
  BY <1>1 DEF Parsing, Evaluating, InScripts
<1>3. RouteInv'
  BY <1>1 DEF OrderInv, JobInv, RouteInv, Waiting
<1>4. Later' = Later
  BY <1>1, <1>2, PlanStands DEF Later, work
<1> QED BY <1>1, <1>2, <1>3, <1>4, OrderMoves

(* The thread of do_engine_init, and tasks, move main at most out of its   *)
(* sleep or to the end.                                                    *)
LEMMA OthersKeepOrder ==
  ASSUME OrderInv, UNCHANGED <<parsing, after, back, work>>,
         main' = main \/ (main = "asleep" /\ main' = "woken") \/ (main # "exited" /\ main' = "exited")
  PROVE  OrderInv'
<1>0. UNCHANGED <<argv, index, optind, skipped, config, rest>>
  BY DEF parsing
<1>1. CASE main' = main
  <2>1. UNCHANGED <<MainPart, Plan, Unclear(argv), Meant(argv)>>
    BY <1>0, PlanStands
  <2>2. /\ Parsing' <=> Parsing
        /\ Waiting' <=> Waiting
        /\ Evaluating' <=> Evaluating
        /\ InScripts' <=> InScripts
    BY <1>1 DEF Parsing, Waiting, Evaluating, InScripts
  <2>3. UNCHANGED <<job, todo, ran>>
    BY DEF work
  <2>4. OrderTypes'
    BY <1>0, <2>3 DEF OrderInv, OrderTypes
  <2>5. ParseInv'
    BY <1>0, <1>1, <2>1, <2>2 DEF OrderInv, ParseInv, AtOption
  <2>6. RestInv' /\ JobInv'
    BY <1>0, <1>1, <2>1, <2>2, <2>3 DEF OrderInv, RestInv, JobInv, RouteInv
  <2>7. PlanInv' /\ ThrowInv'
    <3>1. Now' = Now /\ Later' = Later
      BY <1>1, <2>1, <2>2, <2>3 DEF Now, Later
    <3> QED BY <1>0, <1>1, <2>1, <2>2, <2>3, <3>1 DEF OrderInv, PlanInv, ThrowInv, Completes
  <2> QED BY <2>4, <2>5, <2>6, <2>7 DEF OrderInv
<1>2. CASE main = "asleep" /\ main' = "woken"
  BY <1>0, <1>2, OrderWaits DEF Waiting
<1>3. CASE main # "exited" /\ main' = "exited"
  BY <1>0, <1>3, OrderExits
<1> QED BY <1>1, <1>2, <1>3

LEMMA OrderStays == OrderInv /\ [Next]_vars => OrderInv'
<1> SUFFICES ASSUME OrderInv, [Next]_vars PROVE OrderInv'
  OBVIOUS
<1>1. CASE CreateEngine \/ NextScript \/ RunMain \/ RunScript
  BY <1>1, CreateEngineKeepsOrder, NextScriptKeepsOrder, RunMainKeepsOrder, RunScriptKeepsOrder
<1>2. CASE RunMainCli
  <2>1. /\ main = "cli" /\ UNCHANGED <<argv, index, optind, skipped, config, rest, todo, ran>>
        /\ \/ main' = "tasks" /\ UNCHANGED job
           \/ main' = "block" /\ job' = None /\ after' = "lock" /\ back' = "tasks"
    BY <1>2 DEF RunMainCli, Evaluate, Still
  <2>2. UNCHANGED work
    BY <2>1 DEF OrderInv, JobInv, Evaluating, Waiting, work
  <2> QED BY <2>1, <2>2, OrderBeside DEF Beside
<1>3. CASE Block \/ BlockWakes \/ BlockWake
  <2>1. /\ Waiting /\ main' \in {"asleep", "woken", after}
        /\ UNCHANGED <<argv, index, optind, skipped, config, rest, work, after, back>>
    BY <1>3 DEF Block, BlockWakes, BlockWake, Still, Waiting
  <2> QED BY <2>1, OrderWaits
<1>4. CASE RunRepl \/ Listen \/ BeginEdit
  <2>1. /\ main \in Beside /\ UNCHANGED <<argv, index, optind, skipped, config, rest, work>>
        /\ main' \in Beside \/ (main' = "block" /\ after' = "listen")
    BY <1>4 DEF RunRepl, Listen, BeginEdit, Still, Beside
  <2> QED BY <2>1, OrderBeside
<1>5. CASE EnterLine \/ CancelLine \/ EndOfInput
  <2>1. /\ main \in Beside /\ UNCHANGED <<argv, index, optind, skipped, config, rest, work>>
        /\ \/ main' \in Beside \cup {"exited"}
           \/ main' = "block" /\ after' \in {"handle", "prompt"}
    BY <1>5 DEF EnterLine, CancelLine, EndOfInput, EndEdit, ExitWith, Still, Beside
  <2> QED BY <2>1, OrderBeside
<1>6. CASE SetIntHandler \/ ClearIntHandler
  <2>1. /\ main \in Beside /\ UNCHANGED <<argv, index, optind, skipped, config, rest, work>>
        /\ main' \in Beside \/ (main' = "lock" /\ back' = "reset")
    BY <1>6 DEF SetIntHandler, ClearIntHandler, Still, Beside
  <2> QED BY <2>1, OrderBeside
<1>7. CASE AwaitTasks \/ EngineShutdown \/ Return
  <2>1. /\ main \in Beside /\ UNCHANGED <<argv, index, optind, skipped, config, rest, work>>
        /\ main' \in Beside
    BY <1>7 DEF AwaitTasks, EngineShutdown, Return, Still, Beside
  <2> QED BY <2>1, OrderBeside
<1>8. CASE EngineInit
  <2>1. UNCHANGED <<parsing, after, back, work>>
    BY <1>8 DEF EngineInit
  <2>2. main' = main \/ (main = "asleep" /\ main' = "woken") \/ (main # "exited" /\ main' = "exited")
    BY <1>8 DEF EngineInit, CreateContext, Bootstrap, BindArgs, Begin, Require, Required, LoadUserFile,
                SignalLock, SignalSet, SignalCond, SignalUnlock, ExitWith, InitStep, Over
  <2> QED BY <2>1, <2>2, OthersKeepOrder
<1>9. CASE CtrlC \/ TasksEnd
  <2>1. UNCHANGED <<parsing, after, back, work>>
        /\ (main' = main \/ (main # "exited" /\ main' = "exited"))
    BY <1>9 DEF CtrlC, TasksEnd, ExitWith, Still, parsing
  <2> QED BY <2>1, OthersKeepOrder
<1>10. CASE UNCHANGED vars
  BY <1>10, OthersKeepOrder DEF vars
<1> QED BY <1>1, <1>2, <1>3, <1>4, <1>5, <1>6, <1>7, <1>8, <1>9, <1>10, CommandLineKeepsOrder,
           EvaluationKeepsOrder, LockEvalKeepsOrder DEF Next, Main, User

LEMMA Beginning ==
  ASSUME NEW S, NEW g \in Seq(S), NEW q \in Seq(S), NEW p, p = g \o q
  PROVE  Len(g) <= Len(p) /\ g = SubSeq(p, 1, Len(g))
<1>1. Len(g) \in Nat /\ Len(q) \in Nat /\ Len(p) = Len(g) + Len(q)
  BY LenProperties, ConcatProperties
<1>2. CASE g = <<>>
  <2>1. Len(g) = 0
    BY <1>2, EmptySeq
  <2>2. SubSeq(p, 1, 0) = <<>>
    BY SubSeqEmpty
  <2> QED BY <1>1, <1>2, <2>1, <2>2
<1>3. CASE g # <<>>
  <2>1. Len(g) \in 1 .. Len(g) /\ 1 \in 1 .. Len(g)
    BY <1>1, <1>3, EmptySeq
  <2>2. SubSeq(g \o q, 1, Len(g)) = SubSeq(g, 1, Len(g))
    BY <2>1, SubSeqOfConcat1
  <2>3. SubSeq(g, 1, Len(g)) = g
    BY SubSeqFull
  <2> QED BY <1>1, <2>2, <2>3
<1> QED BY <1>2, <1>3

(* For every command line that main reads as the usage text does, what has *)
(* run is a beginning of the init options in order and then the main       *)
(* function or the script, nothing runs after an error outside of a REPL,  *)
(* and a process that returns has run it all.                              *)
THEOREM PlanIsRun == Spec => []RunsInOrder
<1>1. ASSUME OrderInv PROVE RunsInOrder
  <2> SUFFICES ASSUME ran # <<>> \/ main = "returned", ~Unclear(argv)
               PROVE  /\ Len(ran) <= Len(Plan) /\ ran = SubSeq(Plan, 1, Len(ran))
                      /\ ~config.repl => \A k \in 1 .. Len(ran) - 1 : ran[k].of \notin Throwing
                      /\ main = "returned" => ran = Plan
                      /\ main = "returned" /\ ~config.repl =>
                           \A k \in DOMAIN ran : ran[k].of \notin Throwing
    BY DEF RunsInOrder, Plan, MainPart
  <2>1. OrderTypes /\ ~Parsing
    BY <1>1 DEF OrderInv, JobInv, Parsing
  <2>2. DOMAIN ran = 1 .. Len(ran)
    BY <2>1, LenProperties DEF OrderTypes
  <2>3. ASSUME main # "exited"
        PROVE  Completes(Now \o Later) /\ Now \o Later \in Seq(Job)
    <3>1. Completes(Now \o Later) /\ Meant(argv).rest \in Seq(Token)
      BY <1>1, <2>1, <2>3 DEF OrderInv, PlanInv, RestInv, Parsing
    <3> QED BY <2>1, <3>1, PlanIsTyped, ConcatProperties
  <2>4. \E s \in Seq(Job) : Completes(s)
    BY <1>1, <2>3 DEF OrderInv, PlanInv
  <2>5. Len(ran) <= Len(Plan) /\ ran = SubSeq(Plan, 1, Len(ran))
    <3>1. PICK s \in Seq(Job) : Completes(s)
      BY <2>4
    <3>2. PICK p : p = Plan
      OBVIOUS
    <3>3. p = ran \o s
      BY <3>1, <3>2 DEF Completes
    <3> QED BY <2>1, <3>2, <3>3, Beginning DEF OrderTypes
  <2>6. ASSUME main = "returned" PROVE ran = Plan
    <3>1. Now = <<>> /\ Later = <<>>
      BY <1>1, <2>6 DEF OrderInv, JobInv, Now, Later, InScripts, Evaluating, Waiting
    <3>2. <<>> \o <<>> = <<>> /\ ran \o <<>> = ran
      BY <2>1, EmptySeq, ConcatEmptySeq DEF OrderTypes
    <3> QED BY <2>3, <2>6, <3>1, <3>2 DEF Completes
  <2> QED BY <1>1, <2>2, <2>5, <2>6 DEF OrderInv, ThrowInv
<1> QED BY <1>1, OrderStarts, OrderStays, PTL DEF Spec
-----------------------------------------------------------------------------
(* The configuration, option by option *)
Option == [opt : {t.opt : t \in Token}, value : Token \cup {None}]
Script == [type : {"text", "path"}, of : Token \cup {None}]

ScriptsAt(a, i) == InitOption(a[i].opt, OptionAt(a, i).value)

LEMMA OptionsUnfold ==
  ASSUME NEW a \in Seq(Token), a = Expanded(a), NEW i \in 1 .. Len(a) + 2
  PROVE  /\ i > Len(a) \/ a[i].form \in {"word", "hyphen"} =>
              Reading(a)[i].opts = <<>> /\ Reading(a)[i].scripts = <<>>
         /\ i <= Len(a) /\ a[i].form \in {"short", "long"} =>
              /\ a[i].opt \in {"m", "r"} => /\ Reading(a)[i].opts = <<OptionAt(a, i)>>
                                            /\ Reading(a)[i].scripts = <<>>
              /\ a[i].opt \notin {"m", "r"} =>
                   /\ Reading(a)[i].opts = <<OptionAt(a, i)>> \o Reading(a)[Behind(a, i)].opts
                   /\ Reading(a)[i].scripts = ScriptsAt(a, i) \o Reading(a)[Behind(a, i)].scripts
<1>1. Len(a) \in Nat
  BY LenProperties
<1>2. Reading(a)[i] = ReadingFrom(a, Reading(a), i)
  BY <1>1, ReadingUnfolds
<1>3. PICK f : f = Reading(a)
  OBVIOUS
<1>4. f[i] = ReadingFrom(a, f, i)
  BY <1>2, <1>3
<1>5. i > Len(a) \/ a[i].form \in {"word", "hyphen"} => f[i].opts = <<>> /\ f[i].scripts = <<>>
  BY <1>4 DEF ReadingFrom
<1>6. ASSUME i <= Len(a), a[i].form \in {"short", "long"}
      PROVE  /\ a[i].opt \in {"m", "r"} => f[i].opts = <<OptionAt(a, i)>> /\ f[i].scripts = <<>>
             /\ a[i].opt \notin {"m", "r"} =>
                  /\ f[i].opts = <<OptionAt(a, i)>> \o f[Behind(a, i)].opts
                  /\ f[i].scripts = ScriptsAt(a, i) \o f[Behind(a, i)].scripts
  <2>1. ~(i > Len(a) \/ a[i].form \in {"word", "hyphen"})
    BY <1>1, <1>6
  <2>2. PICK x, s : x = OptionAt(a, i) /\ s = ScriptsAt(a, i)
    OBVIOUS
  <2>3. CASE a[i].opt \in {"m", "r"}
    <3>1. f[i].opts = <<x>> /\ f[i].scripts = <<>>
      BY <1>4, <2>1, <2>2, <2>3 DEF ReadingFrom, OptionAt
    <3> QED BY <2>2, <2>3, <3>1
  <2>4. CASE a[i].opt \notin {"m", "r"}
    <3>1. PICK v, n : /\ v = IF Joined(a[i]) THEN a[i].value
                               ELSE IF Takes(a[i]) /\ i < Len(a) THEN a[i + 1] ELSE None
                      /\ n = IF Takes(a[i]) THEN i + 2 ELSE i + 1
      OBVIOUS
    <3>2. f[i] = [opts |-> <<[opt |-> a[i].opt, value |-> v]>> \o f[n].opts,
                  scripts |-> InitOption(a[i].opt, v) \o f[n].scripts,
                  rest |-> f[n].rest]
      BY <1>4, <2>1, <2>4, <3>1 DEF ReadingFrom
    <3>3. PICK p, q, r : /\ p = <<[opt |-> a[i].opt, value |-> v]>> \o f[n].opts
                         /\ q = InitOption(a[i].opt, v) \o f[n].scripts
                         /\ r = f[n].rest
      OBVIOUS
    <3>4. f[i] = [opts |-> p, scripts |-> q, rest |-> r]
      BY <3>2, <3>3
    <3>5. f[i].opts = p /\ f[i].scripts = q
      BY <3>4
    <3>6. x = [opt |-> a[i].opt, value |-> v] /\ s = InitOption(a[i].opt, v) /\ n = Behind(a, i)
      BY <2>2, <3>1 DEF ScriptsAt, OptionAt, Behind
    <3> QED BY <2>2, <2>4, <3>3, <3>5, <3>6
  <2> QED BY <2>3, <2>4
<1> QED BY <1>3, <1>5, <1>6

LEMMA OptionTyped ==
  ASSUME NEW a \in Seq(Token), NEW i \in 1 .. Len(a)
  PROVE  OptionAt(a, i) \in Option /\ ScriptsAt(a, i) \in Seq(Script)
<1>1. Len(a) \in Nat /\ a[i] \in Token
  BY LenProperties, ElementOfSeq
<1>2. OptionAt(a, i).value \in Token \cup {None}
  <2>1. i < Len(a) => a[i + 1] \in Token
    BY <1>1, ElementOfSeq
  <2>2. Joined(a[i]) => a[i].value \in Token
    BY <1>1, ValueTyped
  <2> QED BY <2>1, <2>2 DEF OptionAt
<1>3. OptionAt(a, i) \in Option
  BY <1>1, <1>2 DEF OptionAt, Option
<1>4. ScriptsAt(a, i) \in Seq(Script)
  <2>1. [type |-> IF a[i].opt = "e" THEN "text" ELSE "path", of |-> OptionAt(a, i).value] \in Script
    BY <1>2 DEF Script
  <2> QED BY <2>1, EmptySeq DEF ScriptsAt, InitOption
<1> QED BY <1>3, <1>4

TypedAt(a, i) == Reading(a)[i].opts \in Seq(Option) /\ Reading(a)[i].scripts \in Seq(Script)

LEMMA ReadingTyped ==
  ASSUME NEW a \in Seq(Token), a = Expanded(a), NEW i \in 1 .. Len(a) + 2
  PROVE  TypedAt(a, i)
<1> DEFINE N == Len(a) + 2
           S == {k \in 0 .. N : \A n \in 1 .. N : n > k => TypedAt(a, n)}
<1>0. Len(a) \in Nat
  BY LenProperties
<1>1. PICK m \in S : \A n \in S : m <= n
  <2>1. N \in S
    BY <1>0
  <2>2. S \subseteq Nat /\ S # {}
    BY <1>0, <2>1
  <2> HIDE DEF S
  <2> QED BY <2>2, Least
<1>2. m = 0
  <2> SUFFICES ASSUME m # 0 PROVE FALSE
    OBVIOUS
  <2>1. m \in 1 .. N
    BY <1>1
  <2>2. \A n \in 1 .. N : n > m => TypedAt(a, n)
    BY <1>1
  <2>3. TypedAt(a, m)
    <3>1. CASE m > Len(a) \/ a[m].form \in {"word", "hyphen"}
      BY <2>1, <3>1, OptionsUnfold, EmptySeq DEF TypedAt
    <3>2. CASE ~(m > Len(a) \/ a[m].form \in {"word", "hyphen"})
      <4>1. m \in 1 .. Len(a) /\ m <= Len(a)
        BY <1>0, <2>1, <3>2
      <4>2. a[m].form \in {"short", "long"}
        BY <3>2, <4>1, ElementOfSeq, Forms
      <4>3. OptionAt(a, m) \in Option /\ ScriptsAt(a, m) \in Seq(Script)
        BY <4>1, OptionTyped
      <4>4. <<OptionAt(a, m)>> \in Seq(Option)
        BY <4>3
      <4>5. TypedAt(a, Behind(a, m))
        <5>1. Behind(a, m) \in 1 .. N /\ Behind(a, m) > m
          BY <1>0, <4>1 DEF Behind
        <5> QED BY <2>2, <5>1
      <4>6. CASE a[m].opt \in {"m", "r"}
        BY <2>1, <4>1, <4>2, <4>4, <4>6, OptionsUnfold, EmptySeq DEF TypedAt
      <4>7. CASE a[m].opt \notin {"m", "r"}
        <5>1. /\ Reading(a)[m].opts = <<OptionAt(a, m)>> \o Reading(a)[Behind(a, m)].opts
              /\ Reading(a)[m].scripts = ScriptsAt(a, m) \o Reading(a)[Behind(a, m)].scripts
          BY <2>1, <4>1, <4>2, <4>7, OptionsUnfold
        <5> QED BY <4>3, <4>4, <4>5, <5>1, ConcatProperties DEF TypedAt
      <4> QED BY <4>6, <4>7
    <3> QED BY <3>1, <3>2
  <2>4. m - 1 \in S
    <3>1. m - 1 \in 0 .. N
      BY <2>1
    <3>2. \A n \in 1 .. N : n > m - 1 => n = m \/ n > m
      BY <2>1
    <3> QED BY <2>2, <2>3, <3>1, <3>2
  <2> HIDE DEF S
  <2>5. m <= m - 1
    BY <1>1, <2>4
  <2> QED BY <2>1, <2>5
<1> QED BY <1>1, <1>2

(* One option more *)
LEMMA OneOptionMore ==
  ASSUME NEW os \in Seq(Option), NEW x \in Option, NEW o
  PROVE  /\ Has(Append(os, x), o) <=> Has(os, o) \/ x.opt = o
         /\ x.opt = o => LastValue(Append(os, x), o, x.value)
         /\ \A v : x.opt # o /\ LastValue(os, o, v) => LastValue(Append(os, x), o, v)
<1> DEFINE n == Len(os) + 1
<1>1. PICK q : q = Append(os, x)
  OBVIOUS
<1>2. /\ Len(os) \in Nat /\ DOMAIN os = 1 .. Len(os) /\ DOMAIN q = 1 .. n
      /\ q[n] = x /\ \A k \in 1 .. Len(os) : q[k] = os[k]
  <2>1. q \in Seq(Option) /\ Len(q) = n
    BY <1>1, AppendProperties
  <2> QED BY <1>1, <2>1, AppendProperties, LenProperties
<1>3. n \in DOMAIN q /\ \A k \in DOMAIN q : k = n \/ k \in DOMAIN os
  BY <1>2
<1>4. Has(q, o) <=> Has(os, o) \/ x.opt = o
  BY <1>2, <1>3 DEF Has
<1>5. x.opt = o => LastValue(q, o, x.value)
  <2> SUFFICES ASSUME x.opt = o PROVE LastValue(q, o, x.value)
    OBVIOUS
  <2>1. q[n] = [opt |-> o, value |-> x.value]
    BY <1>2 DEF Option
  <2>2. \A j \in DOMAIN q : ~(j > n)
    BY <1>2
  <2> QED BY <1>3, <2>1, <2>2 DEF LastValue
<1>6. ASSUME NEW v, x.opt # o, LastValue(os, o, v) PROVE LastValue(q, o, v)
  <2>1. CASE v = None /\ ~Has(os, o)
    BY <1>4, <1>6, <2>1 DEF LastValue
  <2>2. CASE \E k \in DOMAIN os : /\ os[k] = [opt |-> o, value |-> v]
                                  /\ \A j \in DOMAIN os : j > k => os[j].opt # o
    <3>1. PICK k \in DOMAIN os : /\ os[k] = [opt |-> o, value |-> v]
                                 /\ \A j \in DOMAIN os : j > k => os[j].opt # o
      BY <2>2
    <3>2. k \in DOMAIN q /\ q[k] = [opt |-> o, value |-> v]
      BY <1>2, <3>1
    <3>3. \A j \in DOMAIN q : j > k => q[j].opt # o
      BY <1>2, <1>3, <1>6, <3>1
    <3> QED BY <3>2, <3>3 DEF LastValue
  <2> QED BY <1>6, <2>1, <2>2 DEF LastValue
<1> QED BY <1>1, <1>4, <1>5, <1>6
-----------------------------------------------------------------------------
(* Of these options the last value counts. *)
LastCounts == {"A", "O", "c", "o", "t", "L", "D", "1"}

Fields(c) == /\ {"scripts", "main_ns", "repl", "cache", "given"} \subseteq DOMAIN c
             /\ Valued \subseteq DOMAIN c.given

(* The configuration agrees with the options os that have been read. *)
Agrees(os, c) ==
  /\ c.repl <=> Has(os, "r")
  /\ LastValue(os, "m", c.main_ns)
  /\ \A o \in LastCounts : LastValue(os, o, c.given[o])
  /\ c.cache # None => Has(os, "k") \/ Has(os, "K")
  /\ \A k \in DOMAIN os : os[k].opt \in Valued => os[k].value # None

(* What the case of one option changes                                     *)
LEMMA ConfiguredAs ==
  ASSUME NEW i, Fields(config)
  PROVE  LET o == argv[i].opt
             v == Value(i)
             c == Configured(i)
         IN /\ Fields(c)
            /\ c.scripts = IF o \in {"e", "i"}
                           THEN Append(config.scripts, [type |-> IF o = "e" THEN "text" ELSE "path", of |-> v])
                           ELSE config.scripts
            /\ c.main_ns = IF o = "m" THEN v ELSE config.main_ns
            /\ c.repl = IF o = "r" THEN TRUE ELSE config.repl
            /\ c.cache # config.cache => o \in {"k", "K"}
            /\ \A q \in LastCounts : c.given[q] = IF o = q THEN v ELSE config.given[q]
<1> DEFINE o == argv[i].opt
           v == Value(i)
           c == Configured(i)
<1>0. /\ LastCounts \subseteq Valued /\ {"n", "k", "e", "i", "m"} \subseteq Valued \ LastCounts
      /\ {"r", "K"} \cap Valued = {}
  BY DEF LastCounts, Valued
<1> USE DEF Fields
<1>1. CASE o \in {"e", "i"}
  <2> DEFINE new == [type |-> IF o = "e" THEN "text" ELSE "path", of |-> v]
  <2>1. c = [config EXCEPT !.scripts = Append(config.scripts, new)]
    BY <1>1 DEF Configured
  <2>2. PICK s : s = Append(config.scripts, new)
    OBVIOUS
  <2>3. c.scripts = s /\ Fields(c) /\ c.main_ns = config.main_ns /\ c.repl = config.repl /\ c.cache = config.cache
        /\ c.given = config.given
    BY <2>1, <2>2
  <2> QED BY <1>0, <1>1, <2>2, <2>3
<1>2. CASE o = "m"
  <2>1. c = [config EXCEPT !.main_ns = v]
    BY <1>2 DEF Configured
  <2>2. Fields(c) /\ c.scripts = config.scripts /\ c.main_ns = v /\ c.repl = config.repl
        /\ c.cache = config.cache /\ c.given = config.given
    BY <2>1
  <2> QED BY <1>0, <1>2, <2>2
<1>3. CASE o = "r"
  <2>1. c = [config EXCEPT !.repl = TRUE]
    BY <1>3 DEF Configured, Valued
  <2>2. Fields(c) /\ c.scripts = config.scripts /\ c.main_ns = config.main_ns /\ c.repl = TRUE
        /\ c.cache = config.cache /\ c.given = config.given
    BY <2>1
  <2> QED BY <1>0, <1>3, <2>2
<1>4. CASE o \in {"k", "K"}
  <2>1. PICK w : c = [config EXCEPT !.cache = w]
    <3>1. CASE o = "k"
      BY <3>1 DEF Configured
    <3>2. CASE o = "K"
      BY <3>2 DEF Configured, Valued
    <3> QED BY <1>4, <3>1, <3>2
  <2>2. Fields(c) /\ c.scripts = config.scripts /\ c.main_ns = config.main_ns /\ c.repl = config.repl
        /\ c.given = config.given
    BY <2>1
  <2> QED BY <1>0, <1>4, <2>2
<1>5. CASE o \in Valued \ {"e", "i", "m", "k"}
  <2>1. PICK w : /\ c = [config EXCEPT !.given = [config.given EXCEPT ![o] = w]]
                 /\ o # "n" => w = v
    <3>1. CASE o = "n"
      BY <3>1 DEF Configured
    <3>2. CASE o # "n"
      <4>1. o \notin {"r", "K"}
        BY <1>0, <1>5
      <4>2. c = [config EXCEPT !.given = [config.given EXCEPT ![o] = v]]
        BY <1>5, <3>2, <4>1 DEF Configured
      <4> QED BY <3>2, <4>2
    <3> QED BY <3>1, <3>2
  <2>2. PICK g : g = [config.given EXCEPT ![o] = w]
    OBVIOUS
  <2>3. DOMAIN g = DOMAIN config.given /\ \A q \in LastCounts : g[q] = IF o = q THEN v ELSE config.given[q]
    BY <1>0, <1>5, <2>1, <2>2
  <2>4. Fields(c) /\ c.scripts = config.scripts /\ c.main_ns = config.main_ns /\ c.repl = config.repl
        /\ c.cache = config.cache /\ c.given = g
    BY <2>1, <2>2, <2>3
  <2> QED BY <1>0, <1>5, <2>3, <2>4
<1>6. CASE o \notin Valued \cup {"r", "K"}
  <2>1. c = [config EXCEPT !.flags = config.flags \cup {o}]
    BY <1>0, <1>6 DEF Configured
  <2>2. Fields(c) /\ c.scripts = config.scripts /\ c.main_ns = config.main_ns /\ c.repl = config.repl
        /\ c.cache = config.cache /\ c.given = config.given
    BY <2>1
  <2> QED BY <1>0, <1>6, <2>2
<1> QED BY <1>1, <1>2, <1>3, <1>4, <1>5, <1>6
-----------------------------------------------------------------------------
LEMMA NextToLast ==
  ASSUME NEW S, NEW p \in Seq(S), NEW x \in S, NEW r \in Seq(S)
  PROVE  /\ p \o (<<x>> \o r) = Append(p, x) \o r
         /\ Len(p) + 1 \in DOMAIN (p \o (<<x>> \o r)) /\ (p \o (<<x>> \o r))[Len(p) + 1] = x
         /\ \A k \in DOMAIN p : k # Len(p) + 1 /\ k \in DOMAIN (p \o (<<x>> \o r))
                                /\ (p \o (<<x>> \o r))[k] = p[k]
<1>1. Append(p, x) = p \o <<x>> /\ <<x>> \in Seq(S)
  BY AppendIsConcat
<1>2. p \o (<<x>> \o r) = Append(p, x) \o r
  <2>1. PICK y : y = <<x>>
    OBVIOUS
  <2>2. (p \o y) \o r = p \o (y \o r)
    BY <1>1, <2>1, ConcatAssociative
  <2> QED BY <1>1, <2>1, <2>2
<1>3. PICK q : q = Append(p, x)
  OBVIOUS
<1>4. /\ q \in Seq(S) /\ Len(q) = Len(p) + 1 /\ Len(p) \in Nat /\ Len(r) \in Nat
      /\ DOMAIN p = 1 .. Len(p) /\ q[Len(p) + 1] = x /\ \A k \in 1 .. Len(p) : q[k] = p[k]
  BY <1>3, AppendProperties, LenProperties
<1>5. PICK w : w = q \o r
  OBVIOUS
<1>6. w \in Seq(S) /\ Len(w) = Len(q) + Len(r) /\ \A k \in 1 .. Len(q) : w[k] = q[k]
  <2>1. /\ w \in Seq(S) /\ Len(w) = Len(q) + Len(r)
        /\ \A k \in 1 .. Len(q) + Len(r) : w[k] = IF k <= Len(q) THEN q[k] ELSE r[k - Len(q)]
    BY <1>4, <1>5, ConcatProperties
  <2> QED BY <1>4, <2>1
<1>7. DOMAIN w = 1 .. Len(p) + 1 + Len(r)
  BY <1>4, <1>6, LenProperties
<1>8. /\ Len(p) + 1 \in DOMAIN w /\ w[Len(p) + 1] = x
      /\ \A k \in DOMAIN p : k # Len(p) + 1 /\ k \in DOMAIN w /\ w[k] = p[k]
  BY <1>4, <1>6, <1>7
<1> QED BY <1>2, <1>3, <1>5, <1>8

(* The options P have been read, and word n of the command line comes next.*)
ReadTo(P, n) ==
  /\ P \in Seq(Option) /\ Agrees(P, config)
  /\ Meant(argv).opts = P \o Reading(argv)[n].opts
  /\ Meant(argv).scripts = config.scripts \o Reading(argv)[n].scripts

ReadAll == /\ Meant(argv).opts \in Seq(Option) /\ Agrees(Meant(argv).opts, config)
           /\ config.scripts = Meant(argv).scripts

LEMMA StillAgrees ==
  ASSUME OrderTypes, Fields(config), NEW P \in Seq(Option), Agrees(P, config),
         NEW i \in 1 .. Len(argv), Takes(argv[i]) => i < Len(argv),
         argv[i].form \in {"short", "long"}
  PROVE  /\ Agrees(Append(P, OptionAt(argv, i)), Configured(i))
         /\ Fields(Configured(i))
         /\ Configured(i).scripts = config.scripts \o ScriptsAt(argv, i)
<1>1. PICK x : x = OptionAt(argv, i)
  OBVIOUS
<1>2. argv \in Seq(Token) /\ Len(argv) \in Nat
  BY LenProperties DEF OrderTypes
<1>3. /\ x \in Option /\ x.opt = argv[i].opt
      /\ x.opt \in Valued => x.value = Value(i) /\ x.value \in Token /\ x.value # None
  <2>1. x \in Option /\ x.opt = argv[i].opt
    BY <1>1, <1>2, OptionTyped DEF OptionAt
  <2>2. argv[i].opt \in Valued => Value(i) \in Token /\ x.value = Value(i)
    BY <1>1, <1>2, ValueGiven
  <2> QED BY <2>1, <2>2, StartupAssumption
<1>4. PICK c : c = Configured(i)
  OBVIOUS
<1>5. /\ Fields(c)
      /\ c.scripts = IF x.opt \in {"e", "i"}
                     THEN Append(config.scripts, [type |-> IF x.opt = "e" THEN "text" ELSE "path", of |-> Value(i)])
                     ELSE config.scripts
      /\ c.main_ns = IF x.opt = "m" THEN Value(i) ELSE config.main_ns
      /\ c.repl = IF x.opt = "r" THEN TRUE ELSE config.repl
      /\ c.cache # config.cache => x.opt \in {"k", "K"}
      /\ \A q \in LastCounts : c.given[q] = IF x.opt = q THEN Value(i) ELSE config.given[q]
  BY <1>3, <1>4, ConfiguredAs
<1>6. PICK Q : Q = Append(P, x)
  OBVIOUS
<1>7. LastCounts \subseteq Valued /\ {"m", "e", "i"} \subseteq Valued
  BY DEF LastCounts, Valued
<1>8. /\ \A o : Has(Q, o) <=> Has(P, o) \/ x.opt = o
      /\ \A o : x.opt = o => LastValue(Q, o, x.value)
      /\ \A o, v : x.opt # o /\ LastValue(P, o, v) => LastValue(Q, o, v)
  BY <1>3, <1>6, OneOptionMore
<1>9. Agrees(Q, c)
  <2>1. c.repl <=> Has(Q, "r")
    BY <1>5, <1>8 DEF Agrees
  <2>2. LastValue(Q, "m", c.main_ns)
    BY <1>3, <1>5, <1>7, <1>8 DEF Agrees
  <2>3. ASSUME NEW o \in LastCounts PROVE LastValue(Q, o, c.given[o])
    BY <1>3, <1>5, <1>7, <1>8 DEF Agrees
  <2>4. c.cache # None => Has(Q, "k") \/ Has(Q, "K")
    BY <1>5, <1>8 DEF Agrees
  <2>5. ASSUME NEW k \in DOMAIN Q, Q[k].opt \in Valued PROVE Q[k].value # None
    <3>1. Q[k] = x \/ (k \in DOMAIN P /\ Q[k] = P[k])
      <4>1. /\ Len(Q) = Len(P) + 1 /\ Q \in Seq(Option) /\ Q[Len(P) + 1] = x /\ Len(P) \in Nat
            /\ \A j \in 1 .. Len(P) : Q[j] = P[j]
        BY <1>3, <1>6, AppendProperties, LenProperties
      <4>2. DOMAIN Q = 1 .. Len(P) + 1 /\ DOMAIN P = 1 .. Len(P)
        BY <4>1, LenProperties
      <4> QED BY <4>1, <4>2
    <3> QED BY <1>3, <2>5, <3>1 DEF Agrees
  <2> QED BY <2>1, <2>2, <2>3, <2>4, <2>5 DEF Agrees
<1>10. c.scripts = config.scripts \o ScriptsAt(argv, i)
  <2>1. config.scripts \in Seq(Job)
    BY DEF OrderTypes
  <2>2. CASE x.opt \in {"e", "i"}
    <3>1. PICK y : y = [type |-> IF x.opt = "e" THEN "text" ELSE "path", of |-> Value(i)]
      OBVIOUS
    <3>2. ScriptsAt(argv, i) = <<y>>
      BY <1>1, <1>3, <1>7, <2>2, <3>1 DEF ScriptsAt, InitOption
    <3>3. y \in Job
      <4>1. Value(i) \in Token
        BY <1>3, <1>7, <2>2
      <4> QED BY <3>1, <4>1 DEF Job
    <3>4. c.scripts = Append(config.scripts, y)
      BY <1>5, <2>2, <3>1
    <3> QED BY <2>1, <3>2, <3>3, <3>4, AppendIsConcat
  <2>3. CASE x.opt \notin {"e", "i"}
    <3>1. ScriptsAt(argv, i) = <<>>
      BY <1>3, <2>3 DEF ScriptsAt, InitOption
    <3> QED BY <1>5, <2>1, <2>3, <3>1, ConcatEmptySeq
  <2> QED BY <2>2, <2>3
<1> QED BY <1>1, <1>4, <1>5, <1>6, <1>9, <1>10
-----------------------------------------------------------------------------
(* What main configures and what it refuses, while it reads and when it    *)
(* has read.                                                               *)
AsMeant ==
  LET m == Meant(argv)
  IN /\ config.scripts = m.scripts
     /\ rest = m.rest
     /\ config.repl <=> \/ Has(m.opts, "r")
                        \/ /\ m.scripts = <<>> /\ m.rest = <<>>
                           /\ ~Has(m.opts, "m") /\ ~Has(m.opts, "1")
     /\ LastValue(m.opts, "m", config.main_ns)
     /\ \A o \in {"A", "O", "c", "o", "t", "L", "D"} : LastValue(m.opts, o, config.given[o])

ReadInv ==
  /\ Parsing => Fields(config)
  /\ main = "start" => Agrees(<<>>, config) /\ config.scripts = <<>>
  /\ main = "parse" => Unclear(argv) \/ \E P : ReadTo(P, optind)
  /\ main = "configure" => Unclear(argv) \/ ReadAll
  /\ main = "engine" => Unclear(argv) \/ AsMeant
  /\ init = "none" => Parsing \/ main = "exited"
  /\ main = "exited" /\ status # 130 /\ init = "none" => Unclear(argv) \/ Refused(Meant(argv).opts)

LEMMA ReadStarts == Init => ReadInv
<1> SUFFICES ASSUME Init PROVE ReadInv
  OBVIOUS
<1>1. main = "start" /\ config.scripts = <<>>
  BY DEF Init
<1>2. Fields(config)
  BY DEF Init, Fields
<1>3. DOMAIN <<>> = {}
  OBVIOUS
<1>4. Agrees(<<>>, config)
  <2>1. \A o : ~Has(<<>>, o)
    BY <1>3 DEF Has
  <2>2. \A o : LastValue(<<>>, o, None)
    BY <2>1 DEF LastValue
  <2>3. config.main_ns = None /\ config.repl = FALSE /\ config.cache = None
        /\ \A o \in LastCounts : config.given[o] = None
    BY DEF Init, LastCounts, Valued
  <2> QED BY <1>3, <2>1, <2>2, <2>3 DEF Agrees
<1> QED BY <1>1, <1>2, <1>4 DEF ReadInv, Parsing

(* Where getopt_long is: at the next word, which is an option.             *)
LEMMA ParserIsAt ==
  ASSUME OrderInv, ~Unclear(argv), NEW i, NextOption(i)
  PROVE  /\ argv \in Seq(Token) /\ argv = Expanded(argv) /\ Len(argv) \in Nat
         /\ i = optind /\ i \in 1 .. Len(argv) /\ argv[i].form \in {"short", "long"}
         /\ FirstScript(argv, index) /\ index \in 1 .. Len(argv) + 1 /\ i < index
<1>1. /\ main = "parse" /\ argv \in Seq(Token) /\ argv = Expanded(argv) /\ FirstScript(argv, index)
      /\ Len(argv) \in Nat /\ index \in 1 .. Len(argv) + 1 /\ optind \in Nat \ {0} /\ AtOption(optind)
  BY LenProperties DEF OrderInv, OrderTypes, ParseInv, FirstScript, Parsing, NextOption
<1>2. i \in optind .. index - 1 /\ argv[i].form \in {"short", "long"}
      /\ \A k \in optind .. i - 1 : argv[k].form = "word"
  BY DEF NextOption
<1>3. i = optind
  <2> SUFFICES ASSUME i # optind PROVE FALSE
    OBVIOUS
  <2>1. optind \in optind .. i - 1 /\ optind < index
    BY <1>1, <1>2
  <2> QED BY <1>2, <2>1, <1>1 DEF AtOption
<1>4. i \in 1 .. Len(argv) /\ i < index
  BY <1>1, <1>2, <1>3
<1> QED BY <1>1, <1>2, <1>3, <1>4

(* An option lacks its value only at the end of the command line.          *)
LEMMA LacksAtTheEnd ==
  ASSUME OrderInv, ~Unclear(argv), NEW i, NextOption(i), Lacks(i)
  PROVE  OptionAt(argv, i).value = None
<1>1. /\ argv \in Seq(Token) /\ Len(argv) \in Nat
      /\ i \in 1 .. Len(argv) /\ argv[i].form \in {"short", "long"}
      /\ FirstScript(argv, index) /\ index \in 1 .. Len(argv) + 1 /\ i < index
  BY ParserIsAt
<1>2. index = i + 1 /\ Takes(argv[i])
  BY <1>1 DEF Lacks
<1>3. index \in 1 .. Len(argv) => FALSE
  <2> SUFFICES ASSUME index \in 1 .. Len(argv) PROVE FALSE
    OBVIOUS
  <2>1. index \in 2 .. Len(argv) /\ index - 1 = i
    BY <1>1, <1>2
  <2>2. IsScript(argv, index)
    BY <1>1 DEF FirstScript
  <2>3. argv[index].form = "word" /\ ~ShouldIgnoreArg(argv[i])
    BY <1>2, <2>1, <2>2 DEF IsScript, Unclear
  <2>4. argv[i].form = "short" /\ argv[i].opt = "o"
    BY <1>1, <1>2, <2>3 DEF ShouldIgnoreArg, ShouldIgnoreShortArg, Takes, Valued
  <2> QED BY <1>2, <2>1, <2>3, <2>4 DEF Unclear
<1>4. i = Len(argv)
  BY <1>1, <1>2, <1>3
<1> QED BY <1>2, <1>4 DEF OptionAt, Takes

(* Main ends at an option only for a reason.                               *)
LEMMA EndsRefused ==
  ASSUME OrderInv, ~Unclear(argv), NEW i, NextOption(i), NEW v, Ends(i, v),
         NEW P, ReadTo(P, i), NEW r \in Seq(Option), Meant(argv).opts = P \o (<<OptionAt(argv, i)>> \o r)
  PROVE  Refused(Meant(argv).opts)
<1>1. /\ argv \in Seq(Token) /\ Len(argv) \in Nat
      /\ i \in 1 .. Len(argv) /\ index \in 1 .. Len(argv) + 1 /\ i < index
      /\ argv[i].form \in {"short", "long"}
  BY ParserIsAt
<1>2. PICK x : x = OptionAt(argv, i)
  OBVIOUS
<1>3. x \in Option /\ x.opt = argv[i].opt
  BY <1>1, <1>2, OptionTyped DEF OptionAt
<1>4. P \in Seq(Option) /\ Agrees(P, config)
  BY DEF ReadTo
<1>5. PICK w : w = Meant(argv).opts
  OBVIOUS
<1>6. PICK n : n = Len(P) + 1
  OBVIOUS
<1>7. /\ n \in DOMAIN w /\ w[n] = x
      /\ \A k \in DOMAIN P : k # n /\ k \in DOMAIN w /\ w[k] = P[k]
  <2>1. /\ Len(P) + 1 \in DOMAIN (P \o (<<x>> \o r)) /\ (P \o (<<x>> \o r))[Len(P) + 1] = x
        /\ \A k \in DOMAIN P : k # Len(P) + 1 /\ k \in DOMAIN (P \o (<<x>> \o r))
                               /\ (P \o (<<x>> \o r))[k] = P[k]
    BY <1>3, <1>4, NextToLast
  <2>2. w = P \o (<<x>> \o r)
    BY <1>2, <1>5
  <2> QED BY <1>6, <2>1, <2>2
<1>8. CASE Lacks(i)
  <2>1. x.value = None /\ x.opt \in Valued
    BY <1>2, <1>3, <1>8, LacksAtTheEnd DEF Lacks, Takes
  <2> QED BY <1>5, <1>7, <2>1 DEF Refused
<1>9. CASE argv[i].opt \in {"h", "V", "l", "S"}
  BY <1>3, <1>5, <1>7, <1>9 DEF Refused
<1>10. CASE ~Lacks(i) /\ argv[i].opt \in {"A", "O"} /\ Value(i) \in Wrong
  <2>1. Takes(argv[i]) => i < Len(argv)
    BY <1>1, <1>10 DEF Lacks
  <2>2. x.value = Value(i)
    BY <1>1, <1>2, <1>10, <2>1, ValueGiven DEF Valued
  <2>3. x.opt \in {"A", "O", "t"} /\ x.value \in Wrong
    BY <1>3, <1>10, <2>2
  <2> QED BY <1>5, <1>7, <2>3 DEF Refused
<1>11. CASE argv[i].opt \in {"k", "K"} /\ config.cache # None
  <2>1. PICK k \in DOMAIN P : P[k].opt \in {"k", "K"}
    BY <1>4, <1>11 DEF Agrees, Has
  <2>2. n # k /\ {w[n].opt, w[k].opt} \subseteq {"k", "K"}
    BY <1>3, <1>7, <1>11, <2>1
  <2> QED BY <1>5, <1>7, <2>1, <2>2 DEF Refused
<1>12. CASE Unknown(argv[i])
  <2>1. x.opt \notin Valued /\ (x.opt \notin Flags \/ Joined(argv[i]))
    BY <1>3, <1>12 DEF Unknown
  <2>2. Joined(argv[i]) => x.value # None
    <3>1. Joined(argv[i]) => argv[i].value \in Token
      BY <1>1, ElementOfSeq, ValueTyped
    <3> QED BY <1>2, <3>1, StartupAssumption DEF OptionAt
  <2> QED BY <1>5, <1>7, <2>1, <2>2 DEF Refused
<1> QED BY <1>8, <1>9, <1>10, <1>11, <1>12 DEF Ends

LEMMA FindScriptReads == OrderInv /\ ReadInv /\ FindScript => ReadInv'
<1> SUFFICES ASSUME OrderInv, ReadInv, FindScript PROVE ReadInv'
  OBVIOUS
<1>1. /\ main = "start" /\ main' = "parse" /\ optind = 1 /\ argv' = Expanded(argv)
      /\ UNCHANGED <<optind, config, init>> /\ argv \in Seq(Token)
      /\ Fields(config) /\ Agrees(<<>>, config) /\ config.scripts = <<>>
  BY DEF FindScript, OrderInv, OrderTypes, ParseInv, ReadInv, Parsing, engine
<1>2. argv' \in Seq(Token) /\ argv' = Expanded(argv') /\ Len(argv') \in Nat
  BY <1>1, Expands, LenProperties
<1>3. TypedAt(argv', 1)
  BY <1>2, ReadingTyped
<1>4. PICK a : a = argv'
  OBVIOUS
<1>5. Reading(a)[1].opts \in Seq(Option) /\ Reading(a)[1].scripts \in Seq(Script)
  BY <1>3, <1>4 DEF TypedAt
<1>6. Meant(a).opts = <<>> \o Reading(a)[1].opts /\ Meant(a).scripts = <<>> \o Reading(a)[1].scripts
  BY <1>5, ConcatEmptySeq DEF Meant
<1>7. ReadTo(<<>>, optind)'
  BY <1>1, <1>4, <1>6, EmptySeq DEF ReadTo, Agrees
<1> QED BY <1>1, <1>7 DEF ReadInv, Parsing

LEMMA ParseOptionReads ==
  ASSUME OrderInv, ReadInv, NEW i \in DOMAIN argv, ParseOption(i)
  PROVE  ReadInv'
<1>1. /\ main = "parse" /\ main' \in {"parse", "configure", "exited"}
      /\ UNCHANGED <<argv, init>> /\ NextOption(i) /\ Fields(config)
      /\ optind' = Behind(argv, i)
  BY DEF ParseOption, NextOption, ExitWith, Consume, Behind, ReadInv, Parsing, engine
<1>2. CASE Unclear(argv)
  <2>1. main' # "exited" => Fields(config')
    BY <1>1, ConfiguredAs DEF ParseOption, ExitWith
  <2> QED BY <1>1, <1>2, <2>1 DEF ReadInv, Parsing
<1>3. CASE ~Unclear(argv)
  <2>1. /\ argv \in Seq(Token) /\ argv = Expanded(argv) /\ Len(argv) \in Nat
        /\ i = optind /\ i \in 1 .. Len(argv) /\ argv[i].form \in {"short", "long"}
        /\ index \in 1 .. Len(argv) + 1 /\ i < index
    BY <1>1, <1>3, ParserIsAt
  <2>2. PICK P : ReadTo(P, i)
    BY <1>1, <1>3, <2>1 DEF ReadInv
  <2>3. PICK r, s, x, t :
          /\ x = OptionAt(argv, i) /\ t = ScriptsAt(argv, i)
          /\ r = IF argv[i].opt \in {"m", "r"} THEN <<>> ELSE Reading(argv)[Behind(argv, i)].opts
          /\ s = IF argv[i].opt \in {"m", "r"} THEN <<>> ELSE Reading(argv)[Behind(argv, i)].scripts
    OBVIOUS
  <2>4. x \in Option /\ t \in Seq(Script)
    BY <2>1, <2>3, OptionTyped
  <2>5. r \in Seq(Option) /\ s \in Seq(Script)
    <3>1. Behind(argv, i) \in 1 .. Len(argv) + 2
      BY <2>1 DEF Behind
    <3>2. TypedAt(argv, Behind(argv, i))
      BY <2>1, <3>1, ReadingTyped
    <3> QED BY <2>3, <3>2, EmptySeq DEF TypedAt
  <2>6. Reading(argv)[i].opts = <<x>> \o r /\ Reading(argv)[i].scripts = t \o s
    <3>1. i \in 1 .. Len(argv) + 2 /\ i <= Len(argv)
      BY <2>1
    <3>2. CASE argv[i].opt \in {"m", "r"}
      <4>1. Reading(argv)[i].opts = <<x>> /\ Reading(argv)[i].scripts = <<>>
        BY <2>1, <2>3, <3>1, <3>2, OptionsUnfold
      <4>2. t = <<>> /\ r = <<>> /\ s = <<>>
        BY <2>3, <3>2 DEF ScriptsAt, InitOption
      <4>3. <<x>> \in Seq(Option)
        BY <2>4
      <4> QED BY <2>4, <4>1, <4>2, <4>3, ConcatEmptySeq
    <3>3. CASE argv[i].opt \notin {"m", "r"}
      BY <2>1, <2>3, <3>1, <3>3, OptionsUnfold
    <3> QED BY <3>2, <3>3
  <2>7. Meant(argv).opts = P \o (<<x>> \o r) /\ Meant(argv).scripts = config.scripts \o (t \o s)
    BY <2>2, <2>6 DEF ReadTo
  <2>8. CASE main' = "exited"
    <3>1. PICK v : Ends(i, v)
      BY <1>1, <2>8 DEF ParseOption
    <3>2. Refused(Meant(argv).opts)
      BY <1>1, <1>3, <2>2, <2>3, <2>5, <2>7, <3>1, EndsRefused
    <3> QED BY <1>1, <2>8, <3>2 DEF ReadInv, Parsing
  <2>9. CASE main' # "exited"
    <3>1. /\ \A v \in {0, 1} : ~Ends(i, v)
          /\ config' = Configured(i)
          /\ main' = IF argv[i].opt \in {"m", "r"} THEN "configure" ELSE "parse"
      BY <1>1, <2>9 DEF ParseOption, ExitWith
    <3>2. ~Lacks(i)
      BY <3>1 DEF Ends
    <3>3. Takes(argv[i]) => i < Len(argv)
      BY <2>1, <3>2 DEF Lacks
    <3>4. P \in Seq(Option) /\ Agrees(P, config) /\ OrderTypes
      BY <2>2 DEF ReadTo, OrderInv
    <3>5. Agrees(Append(P, x), config') /\ Fields(config') /\ config'.scripts = config.scripts \o t
      BY <1>1, <2>1, <2>3, <3>1, <3>3, <3>4, StillAgrees
    <3>6. Append(P, x) \in Seq(Option)
      BY <2>4, <3>4, AppendProperties
    <3>7. Meant(argv).opts = Append(P, x) \o r
      <4>1. P \in Seq(Option) /\ x \in Option /\ r \in Seq(Option)
        BY <2>4, <2>5, <3>4
      <4>2. P \o (<<x>> \o r) = Append(P, x) \o r
        BY <4>1, NextToLast
      <4> QED BY <2>7, <4>2
    <3>8. Meant(argv).scripts = config'.scripts \o s /\ config'.scripts \in Seq(Job \cup Script)
      <4>1. PICK c : c = config.scripts
        OBVIOUS
      <4>2. c \in Seq(Job \cup Script) /\ t \in Seq(Job \cup Script) /\ s \in Seq(Job \cup Script)
        BY <2>4, <2>5, <3>4, <4>1, SeqMonotonic DEF OrderTypes
      <4>3. (c \o t) \o s = c \o (t \o s)
        BY <4>2, ConcatAssociative
      <4>4. c \o t \in Seq(Job \cup Script)
        BY <4>2, ConcatProperties
      <4> QED BY <2>7, <3>5, <4>1, <4>3, <4>4
    <3>9. CASE argv[i].opt \in {"m", "r"}
      <4>1. r = <<>> /\ s = <<>>
        BY <2>3, <3>9
      <4>2. Meant(argv).opts = Append(P, x)
        BY <3>6, <3>7, <4>1, ConcatEmptySeq
      <4>3. Meant(argv).scripts = config'.scripts
        BY <3>8, <4>1, ConcatEmptySeq
      <4>4. ReadAll'
        BY <1>1, <3>5, <3>6, <4>2, <4>3 DEF ReadAll, Agrees
      <4> QED BY <1>1, <3>1, <3>5, <3>9, <4>4 DEF ReadInv, Parsing
    <3>10. CASE argv[i].opt \notin {"m", "r"}
      <4>1. r = Reading(argv)[optind'].opts /\ s = Reading(argv)[optind'].scripts
        BY <1>1, <2>3, <3>10
      <4>2. ReadTo(Append(P, x), optind)'
        <5>1. PICK Q : Q = Append(P, x)
          OBVIOUS
        <5>2. Q \in Seq(Option) /\ Agrees(Q, config') /\ Meant(argv).opts = Q \o r
          BY <3>5, <3>6, <3>7, <5>1
        <5>3. /\ Q \in Seq(Option) /\ Agrees(Q, config)'
              /\ Meant(argv').opts = Q \o Reading(argv')[optind'].opts
              /\ Meant(argv').scripts = config'.scripts \o Reading(argv')[optind'].scripts
          BY <1>1, <3>8, <4>1, <5>2 DEF Agrees
        <5> QED BY <5>1, <5>3 DEF ReadTo
      <4>3. (\E Q : ReadTo(Q, optind))'
        BY <4>2
      <4> QED BY <1>1, <3>1, <3>5, <3>10, <4>3 DEF ReadInv, Parsing
    <3> QED BY <3>9, <3>10
  <2> QED BY <2>8, <2>9
<1> QED BY <1>2, <1>3

(* When there is no option left, all of them have been read. *)
LEMMA NoOptionReads == OrderInv /\ ReadInv /\ NoOption => ReadInv'
<1> SUFFICES ASSUME OrderInv, ReadInv, NoOption PROVE ReadInv'
  OBVIOUS
<1>1. /\ main = "parse" /\ main' = "configure" /\ UNCHANGED <<argv, index, config, init>>
      /\ \A k \in optind .. index - 1 : argv[k].form = "word"
      /\ Fields(config)
  BY DEF NoOption, ReadInv, Parsing, engine
<1>2. ASSUME ~Unclear(argv) PROVE ReadAll
  <2>1. /\ argv \in Seq(Token) /\ argv = Expanded(argv) /\ FirstScript(argv, index) /\ AtOption(optind)
        /\ Len(argv) \in Nat /\ index \in 1 .. Len(argv) + 1 /\ optind \in Nat \ {0} /\ optind <= index
        /\ OrderTypes
    BY <1>1, <1>2, LenProperties DEF OrderInv, OrderTypes, ParseInv, FirstScript, Parsing
  <2>2. optind = index
    <3> SUFFICES ASSUME optind < index PROVE FALSE
      BY <2>1
    <3>1. optind \in optind .. index - 1
      BY <2>1
    <3> QED BY <1>1, <2>1, <3>1 DEF AtOption
  <2>3. index > Len(argv) \/ argv[index].form \in {"word", "hyphen"}
    BY <2>1 DEF FirstScript, IsScript
  <2>4. Reading(argv)[optind].opts = <<>> /\ Reading(argv)[optind].scripts = <<>>
    <3>1. index \in 1 .. Len(argv) + 2
      BY <2>1
    <3>2. Reading(argv)[index].opts = <<>> /\ Reading(argv)[index].scripts = <<>>
      BY <2>1, <2>3, <3>1, OptionsUnfold
    <3> QED BY <2>2, <3>2
  <2>5. PICK P : ReadTo(P, optind)
    BY <1>1, <1>2 DEF ReadInv
  <2>6. P \in Seq(Option) /\ Meant(argv).opts = P
    BY <2>4, <2>5, ConcatEmptySeq DEF ReadTo
  <2>7. Meant(argv).scripts = config.scripts
    BY <2>1, <2>4, <2>5, ConcatEmptySeq DEF ReadTo, OrderTypes
  <2> QED BY <2>5, <2>6, <2>7 DEF ReadAll, ReadTo
<1>3. Unclear(argv) \/ ReadAll'
  BY <1>1, <1>2 DEF ReadAll, Agrees
<1> QED BY <1>1, <1>3 DEF ReadInv, Parsing

LEMMA ConfigureReads == OrderInv /\ ReadInv /\ Configure => ReadInv'
<1> SUFFICES ASSUME OrderInv, ReadInv, Configure PROVE ReadInv'
  OBVIOUS
<1>1. /\ main = "configure" /\ main' \in {"exited", "engine"} /\ UNCHANGED <<argv, rest, init>>
      /\ Fields(config)
      /\ main' = "exited" => config.given["t"] \in Wrong
  BY DEF Configure, ReadInv, Parsing, ExitWith, engine
<1>2. /\ Fields(config') /\ config'.scripts = config.scripts /\ config'.main_ns = config.main_ns
      /\ config'.given = config.given
      /\ config'.repl <=> \/ config.repl
                          \/ /\ config.scripts = <<>> /\ config.main_ns = None
                             /\ rest = <<>> /\ config.given["1"] = None
  <2>1. PICK b, p : /\ b = (\/ config.repl
                            \/ /\ config.scripts = <<>> /\ config.main_ns = None
                               /\ rest = <<>> /\ config.given["1"] = None)
                    /\ config' = [config EXCEPT !.src = p, !.repl = b]
    BY DEF Configure
  <2> QED BY <1>1, <2>1 DEF Fields
<1>3. CASE Unclear(argv)
  BY <1>1, <1>2, <1>3 DEF ReadInv, Parsing
<1>4. CASE ~Unclear(argv)
  <2>1. PICK os : os = Meant(argv).opts
    OBVIOUS
  <2>2. /\ Agrees(os, config) /\ config.scripts = Meant(argv).scripts
        /\ rest = Meant(argv).rest
    BY <1>1, <1>4, <2>1 DEF ReadInv, ReadAll, OrderInv, RestInv
  <2>3. ASSUME NEW o \in Valued, NEW v, LastValue(os, o, v)
        PROVE  /\ v = None <=> ~Has(os, o)
               /\ v # None => \E k \in DOMAIN os : os[k].opt = o /\ os[k].value = v
    <3>1. v # None => \E k \in DOMAIN os : os[k].opt = o /\ os[k].value = v
      BY <2>3 DEF LastValue
    <3>2. v = None => ~Has(os, o)
      BY <2>2, <2>3 DEF LastValue, Agrees
    <3>3. v # None => Has(os, o)
      BY <3>1 DEF Has
    <3> QED BY <3>1, <3>2, <3>3
  <2>4. "t" \in LastCounts \cap Valued /\ "1" \in LastCounts \cap Valued /\ "m" \in Valued
    BY DEF LastCounts, Valued
  <2>5. CASE main' = "exited"
    <3>1. config.given["t"] \in Wrong /\ config.given["t"] # None
      BY <1>1, <2>5, StartupAssumption
    <3>2. LastValue(os, "t", config.given["t"])
      BY <2>2, <2>4 DEF Agrees
    <3>3. \E k \in DOMAIN os : os[k].opt = "t" /\ os[k].value \in Wrong
      BY <2>3, <2>4, <3>1, <3>2
    <3>4. Refused(os)
      BY <3>3 DEF Refused
    <3> QED BY <1>1, <2>1, <2>5, <3>4 DEF ReadInv, Parsing
  <2>6. CASE main' = "engine"
    <3>1. config.main_ns = None <=> ~Has(os, "m")
      BY <2>2, <2>3, <2>4 DEF Agrees
    <3>2. config.given["1"] = None <=> ~Has(os, "1")
      BY <2>2, <2>3, <2>4 DEF Agrees
    <3>3. config'.repl <=> \/ Has(os, "r")
                           \/ /\ Meant(argv).scripts = <<>> /\ Meant(argv).rest = <<>>
                              /\ ~Has(os, "m") /\ ~Has(os, "1")
      BY <1>2, <2>2, <3>1, <3>2 DEF Agrees
    <3>4. LastValue(os, "m", config'.main_ns)
      BY <1>2, <2>2 DEF Agrees
    <3>5. \A o \in {"A", "O", "c", "o", "t", "L", "D"} : LastValue(os, o, config'.given[o])
      BY <1>2, <2>2 DEF Agrees, LastCounts
    <3>6. AsMeant'
      BY <1>1, <1>2, <2>1, <2>2, <3>3, <3>4, <3>5 DEF AsMeant
    <3> QED BY <1>1, <1>2, <2>6, <3>6 DEF ReadInv, Parsing
  <2> QED BY <1>1, <2>5, <2>6
<1> QED BY <1>3, <1>4

(* From the engine on, what has been read is of no more concern.           *)
LEMMA ReadBeyond ==
  ASSUME init' # "none", ~Parsing'
  PROVE  ReadInv'
BY DEF ReadInv, Parsing

LEMMA ReadStands ==
  ASSUME ReadInv, UNCHANGED <<parsing, main, init, status>>
  PROVE  ReadInv'
<1>1. UNCHANGED <<argv, optind, config, rest, main, init, status>>
  BY DEF parsing
<1>2. (\E P : ReadTo(P, optind)) => (\E P : ReadTo(P, optind))'
  BY <1>1 DEF ReadTo, Agrees
<1>3. ReadAll => ReadAll'
  BY <1>1 DEF ReadAll, Agrees
<1>4. AsMeant => AsMeant'
  BY <1>1 DEF AsMeant
<1> QED BY <1>1, <1>2, <1>3, <1>4 DEF ReadInv, Parsing, Agrees

LEMMA ReadKeeps == OrderInv /\ ReadInv /\ [Next]_vars => ReadInv'
<1> SUFFICES ASSUME OrderInv, ReadInv, [Next]_vars PROVE ReadInv'
  OBVIOUS
<1>1. CASE CommandLine
  BY <1>1, FindScriptReads, ParseOptionReads, NoOptionReads, ConfigureReads DEF CommandLine
<1>2. CASE CreateEngine
  <2>1. init' # "none" /\ main' \in {"scripts", "exited"}
    BY <1>2 DEF CreateEngine, ExitWith
  <2> QED BY <2>1, ReadBeyond DEF Parsing
<1>3. CASE NextScript \/ RunMain \/ RunScript \/ RunMainCli
  <2>1. /\ main \in {"scripts", "main", "advance", "cli"} /\ UNCHANGED init
        /\ main' \in {"main", "block", "advance", "repl", "cli", "tasks"}
    BY <1>3 DEF NextScript, RunMain, RunScript, RunMainCli, Evaluate, Quiet, engine
  <2> QED BY <2>1, ReadBeyond DEF ReadInv, Parsing
<1>4. CASE Block \/ BlockWakes \/ BlockWake
  <2>1. Waiting /\ UNCHANGED init /\ main' \in {"asleep", "woken", after}
    BY <1>4 DEF Block, BlockWakes, BlockWake, Waiting, Quiet, engine
  <2>2. after \in Entering
    BY <2>1 DEF OrderInv, JobInv, RouteInv
  <2> QED BY <2>1, <2>2, ReadBeyond DEF ReadInv, Parsing, Waiting, Entering
<1>5. CASE LockEval \/ EvaluationEnds \/ EvaluationFails
  <2>1. /\ main \in {"lock", "js"} /\ UNCHANGED init /\ main' \in {"js", back, "exited"}
    BY <1>5 DEF LockEval, EvaluationEnds, EvaluationFails, ExitWith, Quiet, engine
  <2>2. back \in {"scripts", "cli", "tasks", "reset"}
    BY <2>1 DEF OrderInv, JobInv, RouteInv
  <2> QED BY <2>1, <2>2, ReadBeyond DEF ReadInv, Parsing
<1>6. CASE RunRepl \/ Listen \/ BeginEdit \/ User \/ SetIntHandler \/ ClearIntHandler
  <2>1. CASE ~CtrlC
    <3>1. /\ main \in {"repl", "listen", "prompt", "edit", "handle", "reset", "keep"} /\ UNCHANGED init
          /\ main' \in {"cli", "block", "prompt", "edit", "exited", "lock", "keep", "handle"}
      BY <1>6, <2>1 DEF RunRepl, Listen, BeginEdit, User, EnterLine, CancelLine, EndOfInput, EndEdit,
                        SetIntHandler, ClearIntHandler, ExitWith, Quiet, engine
    <3> QED BY <3>1, ReadBeyond DEF ReadInv, Parsing
  <2>2. CASE CtrlC
    <3>1. CASE handler
      BY <2>2, <3>1, ReadStands DEF CtrlC, Still, engine, parsing
    <3>2. CASE ~handler
      <4>1. main' = "exited" /\ status' = 130
        BY <2>2, <3>2 DEF CtrlC, ExitWith
      <4> QED BY <4>1 DEF ReadInv, Parsing
    <3> QED BY <3>1, <3>2
  <2> QED BY <2>1, <2>2
<1>7. CASE AwaitTasks \/ EngineShutdown \/ Return
  <2>1. /\ main \in {"tasks", "shutdown", "return"} /\ UNCHANGED init
        /\ main' \in {"shutdown", "return", "returned"}
    BY <1>7 DEF AwaitTasks, EngineShutdown, Return, Quiet, engine
  <2> QED BY <2>1, ReadBeyond DEF ReadInv, Parsing
<1>8. CASE TasksEnd
  BY <1>8, ReadStands DEF TasksEnd, Still, engine, parsing
<1>9. CASE EngineInit
  <2>1. init # "none" /\ init' # "none" /\ UNCHANGED <<parsing>> /\ main' \in {main, "exited", "woken"}
    BY <1>9 DEF EngineInit, CreateContext, Bootstrap, BindArgs, Begin, Require, Required, LoadUserFile,
                SignalLock, SignalSet, SignalCond, SignalUnlock, InitStep, ExitWith
  <2> QED BY <2>1 DEF ReadInv, parsing, Parsing, AsMeant, ReadAll, ReadTo, Agrees
<1>10. CASE UNCHANGED vars
  BY <1>10, ReadStands DEF vars, parsing, engine
<1> QED BY <1>1, <1>2, <1>3, <1>4, <1>5, <1>6, <1>7, <1>8, <1>9, <1>10 DEF Next, Main, User

(* The switches of main leave the configuration that the usage text gives  *)
(* a clear command line, of any length and with its options in any order,  *)
(* and refuse none without a reason.                                       *)
THEOREM MeaningIsKept == Spec => []ReadsAsMeant
<1>1. ReadInv => ReadsAsMeant
  BY DEF ReadInv, ReadsAsMeant, AsMeant
<1>2. Init => OrderInv /\ ReadInv
  BY OrderStarts, ReadStarts
<1>3. OrderInv /\ ReadInv /\ [Next]_vars => (OrderInv /\ ReadInv)'
  BY OrderStays, ReadKeeps
<1> QED BY <1>1, <1>2, <1>3, PTL DEF Spec
=============================================================================

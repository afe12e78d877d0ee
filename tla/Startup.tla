------------------------------ MODULE Startup ------------------------------
(***************************************************************************)
(* How Planck starts and ends: main of main.c reads the command line, has  *)
(* the engine made by a thread of its own (do_engine_init of engine.c),    *)
(* runs the scripts of the init options, then a main function, a script or *)
(* the REPL, waits for tasks and shuts the engine down; and SIGINT, which  *)
(* interrupts what a REPL evaluates.                                       *)
(*                                                                         *)
(* A word of the command line is a token: [form |-> "short" or "long", opt *)
(* |-> its letter], [form |-> "word", opt |-> a name], or Hyphen; or an    *)
(* option with its value in the same word ("--init=x", "-efine"), with the *)
(* word's last letter beside them.  A clump of short options stands for    *)
(* their sequence.  No token stands for "--", for abbreviations of long    *)
(* options, for a clump in which -r is not the last (getopt_long would     *)
(* leave it among the arguments), or one that is the value of an option.   *)
(***************************************************************************)
EXTENDS Integers, Sequences

CONSTANTS Argvs,         (* the command lines: sequences of tokens         *)
          Envs,          (* [home, classpath, keymap]: HOME is set,        *)
                         (* PLANCK_CLASSPATH (or None), ~/.planck_keymap   *)
                         (* can be read                                    *)
          Wrong,         (* tokens that are no value of -A or -O, no theme *)
                         (* and no port                                    *)
          Throwing,      (* tokens that name what throws when it is run    *)
          MaxLines,      (* bound: the lines entered at the REPL           *)
          MaxInterrupts, (* bound: the number of Ctrl-C                    *)
          Hasty,         (* TRUE: the REPL may be left, or the keymap      *)
                         (* found bad, before the engine is ready          *)
          None

Hyphen == [form |-> "hyphen", opt |-> "-"]
Medium == [form |-> "long", opt |-> "1"]   (* what expand_medium_opts makes of "-co" *)
Plain == [form : {"short", "long", "word", "hyphen"}, opt : STRING] \cup {Medium}

(* The options that take a value, with "1" for \1, and those that do not.  *)
Valued == {"1", "S", "D", "L", "A", "O", "k", "e", "t", "n", "c", "o", "i", "m"}
Flags == {"X", "h", "V", "l", "v", "r", "s", "f", "a", "K", "j", "d", "q"}

(* Only an option that takes a value has one in a short word.              *)
Attached == [form : {"long"}, opt : STRING, value : Plain, last : STRING]
            \cup [form : {"short"}, opt : Valued, value : Plain, last : STRING]
Token == Plain \cup Attached

Joined(t) == "value" \in DOMAIN t
Takes(t) == t.form \in {"short", "long"} /\ t.opt \in Valued /\ ~Joined(t)

(* What main runs: an init option, the main function, or the script. *)
Job == [type : {"text", "path", "main"}, of : Token]

ASSUME StartupAssumption ==
  /\ Argvs \subseteq Seq(Token)
  /\ Wrong \subseteq Token
  /\ None \notin Token \cup Job
  /\ MaxLines \in Nat /\ MaxInterrupts \in Nat
  /\ Hasty \in BOOLEAN
  /\ None \notin {"init", "main"}   (* the holders of locks *)

VARIABLES
  env,
  argv, index, optind,    (* index_of_script_path_or_hyphen                *)
  skipped,                (* the words that getopt_long has passed over    *)
  config, rest,           (* rest: config.rest_args                        *)
  main,                   (* where main is: a label, or "returned", or     *)
                          (* "exited" by a call of exit or a signal        *)
  after, back,            (* where main goes on after it has waited for    *)
                          (* the engine, and after an evaluation           *)
  job, todo, ran,         (* what is evaluated, the scripts to come;       *)
                          (* history: what was evaluated                   *)
  init,                   (* where the thread of do_engine_init is         *)
  args,                   (* PLANCK_INITIAL_COMMAND_LINE_ARGS              *)
  ctx,                    (* "none", "live" or "released"                  *)
  engine_ready, ready_lock, eval_lock,
  sender,                 (* cljs_sender: "out" (NULL), "discard", "line"  *)
  aware,                  (* linenoisePrintNowSet                          *)
  tasks,                  (* whether a task is pending                     *)
  exit_value, status,     (* status: what the process ended with           *)
  handler, keep_running,
  lines, interrupts, typed   (* counts; history: Ctrl-C was typed since    *)
                             (* this evaluation began                      *)

parsing == <<argv, index, optind, skipped, config, rest>>
engine == <<init, args, ctx, engine_ready, ready_lock, sender>>
signals == <<handler, keep_running, interrupts, typed>>
work == <<job, todo, ran>>
vars == <<env, parsing, main, after, back, work, engine, eval_lock, aware, tasks,
          exit_value, status, signals, lines>>

Init ==
  /\ env \in Envs
  /\ argv \in Argvs
  /\ index = 0 /\ optind = 1 /\ skipped = <<>> /\ rest = <<>>
  /\ config = [scripts |-> <<>>, main_ns |-> None, repl |-> FALSE, cache |-> None,
               flags |-> {}, given |-> [o \in Valued |-> None], src |-> <<>>]
  /\ main = "start" /\ after = None /\ back = None
  /\ job = None /\ todo = <<>> /\ ran = <<>>
  /\ init = "none" /\ args = <<>> /\ ctx = "none" /\ engine_ready = FALSE
  /\ ready_lock = None /\ eval_lock = None
  /\ sender = "out" /\ aware = FALSE /\ tasks = FALSE
  /\ exit_value = 0 /\ status = None
  /\ handler = FALSE /\ keep_running = TRUE
  /\ lines = 0 /\ interrupts = 0 /\ typed = FALSE

Over == main \in {"returned", "exited"}
ExitWith(v) == main' = "exited" /\ status' = v
-----------------------------------------------------------------------------
(* Mutations: what plausible mistakes would make of the definitions below. *)

(* Only short options are thought of. *)
ShouldIgnoreShortArg(t) ==
  /\ t.form = "short"
  /\ (IF Joined(t) THEN t.last ELSE t.opt)
       \in {"i", "e", "m", "c", "n", "k", "t", "S", "A", "O", "D", "L", "1"}

(* An error in a script is printed, and the next one is run. *)
EvaluationFailsQuietly ==
  /\ main = "js" /\ job # None /\ job.of \in Throwing
  /\ ran' = Append(ran, job) /\ job' = None
  /\ eval_lock' = IF eval_lock = "main" THEN None ELSE eval_lock
  /\ main' = back /\ exit_value' = 1
  /\ UNCHANGED <<env, parsing, after, back, todo, engine, aware, tasks, status, signals, lines>>

(* block_until_engine_ready tests with "if" and not with "while". *)
BlockWakeOnce ==
  /\ main = "woken" /\ ready_lock = None
  /\ main' = after
  /\ UNCHANGED <<env, parsing, after, back, work, engine, eval_lock, aware, tasks, exit_value,
                 status, signals, lines>>

(* The flag is reset first, and then the handler. *)
ClearIntHandlerLast ==
  /\ \/ main = "reset" /\ keep_running' = TRUE /\ main' = "keep" /\ UNCHANGED handler
     \/ main = "keep" /\ handler' = FALSE /\ main' = "prompt" /\ UNCHANGED keep_running
  /\ UNCHANGED <<env, parsing, after, back, work, engine, eval_lock, aware, tasks, exit_value,
                 status, interrupts, typed, lines>>

(* signal_engine_ready sets the flag, and signals nobody. *)
SignalNobody ==
  /\ init = "signal" /\ init' = "unlock"
  /\ UNCHANGED <<main, status, args, ctx, engine_ready, ready_lock, sender, eval_lock, tasks>>
-----------------------------------------------------------------------------
(* The command line *)

(* should_ignore_arg: whether the next token may be the option's value.    *)
ShouldIgnoreArg(t) ==
  \/ t.form = "long"
  \/ ShouldIgnoreShortArg(t)

IsScript(a, i) == \/ a[i].form = "hyphen"
                  \/ a[i].form = "word" /\ (i > 1 => ~ShouldIgnoreArg(a[i - 1]))

(* expand_medium_opts *)
Expanded(a) ==
  [i \in DOMAIN a |-> IF a[i] = [form |-> "short", opt |-> "co"] THEN Medium ELSE a[i]]

FindScript ==
  /\ main = "start"
  /\ argv' = Expanded(argv)
  /\ index' \in 1 .. Len(argv) + 1
  /\ index' <= Len(argv) => IsScript(argv', index')
  /\ \A i \in 1 .. index' - 1 : ~IsScript(argv', i)
  /\ main' = "parse"
  /\ UNCHANGED <<env, optind, skipped, config, rest, after, back, work, engine, eval_lock,
                 aware, tasks, exit_value, status, signals, lines>>

(* getopt_long, in whose eyes the command line ends at index, passes over  *)
(* words to the next option, at i, and its value, if it takes one.         *)
NextOption(i) == /\ main = "parse"
                 /\ i \in optind .. index - 1
                 /\ argv[i].form \in {"short", "long"}
                 /\ \A k \in optind .. i - 1 : argv[k].form = "word"
Lacks(i) == Takes(argv[i]) /\ i + 1 >= index
Value(i) == IF Joined(argv[i]) THEN argv[i].value ELSE argv[i + 1]
Consume(i) == /\ optind' = i + (IF Takes(argv[i]) THEN 2 ELSE 1)
              /\ skipped' = skipped \o SubSeq(argv, optind, i - 1)

(* What getopt_long answers with "?", as it does when a value is lacking:  *)
(* an option it does not know, as "-?" is, or a flag that is given a value *)
Unknown(t) == t.opt \notin Valued /\ (t.opt \notin Flags \/ Joined(t))

(* Each option's case of the switch: it ends the process with a status ... *)
Ends(i, v) ==
  \/ (Lacks(i) \/ Unknown(argv[i])) /\ v = 1
  \/ ~Unknown(argv[i]) /\ argv[i].opt \in {"h", "V", "l"} /\ v = 0
  \/ ~Lacks(i) /\ argv[i].opt = "S" /\ v \in {0, 1}
  \/ ~Lacks(i) /\ argv[i].opt \in {"A", "O"} /\ Value(i) \in Wrong /\ v = 1
  \/ ~Lacks(i) /\ argv[i].opt \in {"k", "K"} /\ config.cache # None /\ v = 1

(* ... or it changes the configuration. *)
Configured(i) ==
  LET o == argv[i].opt
      value == Value(i)
  IN CASE o \in {"e", "i"} ->
            [config EXCEPT !.scripts = Append(@, [type |-> IF o = "e" THEN "text" ELSE "path",
                                                  of |-> value])]
       [] o = "m" -> [config EXCEPT !.main_ns = value]
       [] o = "r" -> [config EXCEPT !.repl = TRUE]
       [] o = "k" -> [config EXCEPT !.cache = value]
       [] o = "K" -> [config EXCEPT !.cache = ".planck_cache"]
       [] o = "n" -> [config EXCEPT !.given["n"] = IF value \in Wrong THEN None ELSE value]
       [] o \in Valued \ {"e", "i", "m", "k", "n"} -> [config EXCEPT !.given[o] = value]
       [] OTHER -> [config EXCEPT !.flags = @ \cup {o}]

ParseOption(i) ==
  /\ NextOption(i)
  /\ Consume(i)
  /\ \/ /\ \E v \in {0, 1} : Ends(i, v) /\ ExitWith(v)
        /\ UNCHANGED <<config, rest>>
     \/ /\ \A v \in {0, 1} : ~Ends(i, v)
        /\ config' = Configured(i)
        /\ IF argv[i].opt \in {"m", "r"}
           THEN rest' = SubSeq(argv, optind', Len(argv)) /\ main' = "configure"
           ELSE UNCHANGED <<rest, main>>
        /\ UNCHANGED status
  /\ UNCHANGED <<env, argv, index, after, back, work, engine, eval_lock, aware, tasks,
                 exit_value, signals, lines>>

(* When there is no option left, the words come after the options. *)
NoOption ==
  /\ main = "parse"
  /\ \A i \in optind .. index - 1 : argv[i].form = "word"
  /\ rest' = skipped \o SubSeq(argv, optind, Len(argv))
  /\ main' = "configure"
  /\ UNCHANGED <<env, argv, index, optind, skipped, config, after, back, work, engine,
                 eval_lock, aware, tasks, exit_value, status, signals, lines>>

(* The class path: -c, then the dependencies; or PLANCK_CLASSPATH. *)
Given(o) == IF config.given[o] = None THEN <<>> ELSE <<config.given[o]>>
SrcPaths == LET deps == IF env.home \/ config.given["L"] # None THEN Given("D") ELSE <<>>
                src == Given("c") \o deps
            IN IF src = <<>> /\ env.classpath # None THEN <<env.classpath>> ELSE src

Dumb == "d" \in config.flags

Configure ==
  /\ main = "configure"
  /\ config' = [config EXCEPT !.src = SrcPaths,
                              !.repl = \/ @
                                       \/ /\ config.scripts = <<>>
                                          /\ config.main_ns = None
                                          /\ rest = <<>>
                                          /\ config.given["1"] = None]
  /\ IF ~Dumb /\ config.given["t"] \in Wrong
     THEN ExitWith(1)
     ELSE main' = "engine" /\ UNCHANGED status
  /\ UNCHANGED <<env, argv, index, optind, skipped, rest, after, back, work, engine, eval_lock,
                 aware, tasks, exit_value, signals, lines>>
-----------------------------------------------------------------------------
(* The thread of do_engine_init.  Parts that only prepare the context are  *)
(* one step.                                                               *)

InitStep(from, to) == ~Over /\ init = from /\ init' = to

CreateContext == /\ InitStep("create", "bootstrap")
                 /\ ctx' = "live"
                 /\ UNCHANGED <<main, status, args, engine_ready, ready_lock, sender, eval_lock, tasks>>

(* With -o the files come from a directory, where they may be missing. *)
Bootstrap ==
  /\ InitStep("bootstrap", "args")
  /\ \/ UNCHANGED <<main, status>>
     \/ config.given["o"] # None /\ ExitWith(1)
  /\ UNCHANGED <<args, ctx, engine_ready, ready_lock, sender, eval_lock, tasks>>

(* main may be about to drop the script's path, having moved the pointer   *)
(* and not yet corrected the count: then what follows the array is read.   *)
BindArgs == /\ InitStep("args", "begin")
            /\ args' = IF main = "advance" THEN Append(rest, None) ELSE rest
            /\ UNCHANGED <<main, status, ctx, engine_ready, ready_lock, sender, eval_lock, tasks>>

Begin == /\ InitStep("begin", "require")
         /\ sender' = "discard"
         /\ UNCHANGED <<main, status, args, ctx, engine_ready, ready_lock, eval_lock, tasks>>

Require == /\ InitStep("require", "required")
           /\ eval_lock = None
           /\ eval_lock' = "init"
           /\ UNCHANGED <<main, status, args, ctx, engine_ready, ready_lock, sender, tasks>>

Required == /\ InitStep("required", "user")
            /\ eval_lock' = None
            /\ sender' = "out"
            /\ UNCHANGED <<main, status, args, ctx, engine_ready, ready_lock, tasks>>

(* init-data-readers, and user.cljs in a REPL, which may set timers and    *)
(* may exit; then init-paredit.                                            *)
LoadUserFile ==
  /\ InitStep("user", "lock")
  /\ \/ UNCHANGED <<main, status, tasks>>
     \/ config.repl /\ tasks' = TRUE /\ UNCHANGED <<main, status>>
     \/ config.repl /\ ExitWith(0) /\ UNCHANGED tasks
  /\ UNCHANGED <<args, ctx, engine_ready, ready_lock, sender, eval_lock>>

(* signal_engine_ready *)
SignalLock == /\ InitStep("lock", "set")
              /\ ready_lock = None
              /\ ready_lock' = "init"
              /\ UNCHANGED <<main, status, args, ctx, engine_ready, sender, eval_lock, tasks>>
SignalSet == /\ InitStep("set", "signal")
             /\ engine_ready' = TRUE
             /\ UNCHANGED <<main, status, args, ctx, ready_lock, sender, eval_lock, tasks>>
SignalCond == /\ InitStep("signal", "unlock")
              /\ main' = IF main = "asleep" THEN "woken" ELSE main
              /\ UNCHANGED <<status, args, ctx, engine_ready, ready_lock, sender, eval_lock, tasks>>
SignalUnlock == /\ InitStep("unlock", "done")
                /\ ready_lock' = None
                /\ UNCHANGED <<main, status, args, ctx, engine_ready, sender, eval_lock, tasks>>

EngineInit ==
  /\ \/ CreateContext \/ Bootstrap \/ BindArgs \/ Begin \/ Require \/ Required \/ LoadUserFile
     \/ SignalLock \/ SignalSet \/ SignalCond \/ SignalUnlock
  /\ UNCHANGED <<env, parsing, after, back, work, aware, exit_value, signals, lines>>
-----------------------------------------------------------------------------
(* The thread of main, from engine_init on.                                *)

Still == UNCHANGED <<env, argv, index, optind, skipped, config>>
Quiet == UNCHANGED <<engine, signals, aware, tasks, lines>>

CreateEngine ==
  /\ main = "engine"
  /\ \/ main' = "scripts" /\ init' = "create" /\ todo' = config.scripts /\ UNCHANGED status
     \/ ExitWith(1) /\ init' = "failed" /\ UNCHANGED todo
  /\ Still
  /\ UNCHANGED <<rest, after, back, job, ran, args, ctx, engine_ready, ready_lock, sender, eval_lock,
                 aware, tasks, exit_value, signals, lines>>

(* An evaluation waits for the engine, and takes the lock unless it is     *)
(* run_main_in_ns.                                                         *)
Evaluate(what, enter, next) ==
  main' = "block" /\ job' = what /\ after' = enter /\ back' = next

NextScript ==
  /\ main = "scripts"
  /\ IF todo = <<>>
     THEN main' = "main" /\ UNCHANGED <<job, todo, after, back>>
     ELSE Evaluate(Head(todo), "lock", "scripts") /\ todo' = Tail(todo)
  /\ Still /\ Quiet
  /\ UNCHANGED <<rest, ran, eval_lock, exit_value, status>>

MainJob == IF config.main_ns # None THEN <<[type |-> "main", of |-> config.main_ns]>>
           ELSE IF config.repl \/ rest = <<>> THEN <<>>
           ELSE <<[type |-> IF Head(rest) = Hyphen THEN "text" ELSE "path", of |-> Head(rest)]>>

RunMain ==
  /\ main = "main"
  /\ \/ /\ config.main_ns # None
        /\ Evaluate(MainJob[1], "js", "cli")
        /\ UNCHANGED rest
     \/ /\ config.main_ns = None /\ MainJob # <<>>
        /\ main' = "advance" /\ job' = MainJob[1]
        /\ rest' = Tail(rest)
        /\ UNCHANGED <<after, back>>
     \/ /\ MainJob = <<>>
        /\ main' = IF config.repl THEN "repl" ELSE "cli"
        /\ UNCHANGED <<job, after, back, rest>>
  /\ Still /\ Quiet
  /\ UNCHANGED <<todo, ran, eval_lock, exit_value, status>>

RunScript ==
  /\ main = "advance"
  /\ Evaluate(job, "lock", "cli")
  /\ Still /\ Quiet
  /\ UNCHANGED <<rest, todo, ran, eval_lock, exit_value, status>>

RunMainCli ==
  /\ main = "cli"
  /\ IF config.repl \/ config.main_ns # None
     THEN main' = "tasks" /\ UNCHANGED <<job, after, back>>
     ELSE Evaluate(None, "lock", "tasks")
  /\ Still /\ Quiet
  /\ UNCHANGED <<rest, todo, ran, eval_lock, exit_value, status>>

(* block_until_engine_ready; a condition variable may wake of itself.      *)
Block ==
  /\ main = "block" /\ ready_lock = None
  /\ main' = IF engine_ready THEN after ELSE "asleep"
  /\ Still /\ Quiet
  /\ UNCHANGED <<rest, after, back, work, eval_lock, exit_value, status>>
BlockWakes ==
  /\ main = "asleep" /\ main' = "woken"
  /\ Still /\ Quiet
  /\ UNCHANGED <<rest, after, back, work, eval_lock, exit_value, status>>
BlockWake ==
  /\ main = "woken" /\ ready_lock = None
  /\ main' = IF engine_ready THEN after ELSE "asleep"
  /\ Still /\ Quiet
  /\ UNCHANGED <<rest, after, back, work, eval_lock, exit_value, status>>

LockEval ==
  /\ main = "lock" /\ eval_lock = None
  /\ eval_lock' = "main" /\ main' = "js"
  /\ Still /\ Quiet
  /\ UNCHANGED <<rest, after, back, work, exit_value, status>>

UnlockEval == eval_lock' = IF eval_lock = "main" THEN None ELSE eval_lock
Ran == ran' = (IF job = None THEN ran ELSE Append(ran, job)) /\ job' = None

(* What is run may leave a task behind, or call exit. *)
EvaluationEnds ==
  /\ main = "js" /\ (job # None => job.of \notin Throwing)
  /\ Ran /\ UnlockEval
  /\ \/ main' = back /\ tasks' \in {tasks, TRUE} /\ UNCHANGED <<exit_value, status>>
     \/ ExitWith(3) /\ exit_value' = 3 /\ UNCHANGED tasks
  /\ Still
  /\ UNCHANGED <<rest, after, back, todo, engine, aware, signals, lines>>

(* An error ends the process, but is only printed in a REPL. *)
EvaluationFails ==
  /\ main = "js" /\ job # None /\ job.of \in Throwing
  /\ Ran /\ UnlockEval
  /\ IF config.repl
     THEN main' = back /\ UNCHANGED <<exit_value, status>>
     ELSE ExitWith(1) /\ exit_value' = 1
  /\ Still
  /\ UNCHANGED <<rest, after, back, todo, engine, aware, tasks, signals, lines>>
-----------------------------------------------------------------------------
(* The REPL *)

Patient == Hasty \/ init = "done"

RunRepl ==
  /\ main = "repl"
  /\ \/ /\ ~Dumb /\ env.home /\ ~env.keymap /\ Patient
        /\ exit_value' = 1 /\ main' = "cli"
        /\ UNCHANGED after
     \/ /\ Dumb \/ ~env.home \/ env.keymap
        /\ IF config.given["n"] # None
           THEN main' = "block" /\ after' = "listen"
           ELSE main' = "prompt" /\ UNCHANGED after
        /\ UNCHANGED exit_value
  /\ Still /\ Quiet
  /\ UNCHANGED <<rest, back, work, eval_lock, status>>

Listen ==
  /\ main = "listen"
  /\ sender' = IF Dumb THEN "out" ELSE "line"
  /\ main' = "prompt"
  /\ Still
  /\ UNCHANGED <<rest, after, back, work, init, args, ctx, engine_ready, ready_lock, eval_lock, aware,
                 tasks, exit_value, status, signals, lines>>

(* engine_ready is read without its lock. *)
BeginEdit ==
  /\ main = "prompt" /\ ~Dumb
  /\ aware' = engine_ready
  /\ sender' = IF engine_ready THEN "line" ELSE sender
  /\ main' = "edit"
  /\ Still
  /\ UNCHANGED <<rest, after, back, work, init, args, ctx, engine_ready, ready_lock, eval_lock, tasks,
                 exit_value, status, signals, lines>>

EndEdit == /\ main = IF Dumb THEN "prompt" ELSE "edit"
           /\ sender' = IF aware THEN "out" ELSE sender
           /\ aware' = FALSE
           /\ Still
           /\ UNCHANGED <<rest, back, work, init, args, ctx, engine_ready, ready_lock, eval_lock, tasks>>

(* is_readable waits for the engine to know whether the input is complete. *)
EnterLine ==
  /\ EndEdit
  /\ lines < MaxLines /\ lines' = lines + 1
  /\ \/ ExitWith(0) /\ UNCHANGED after
     \/ main' = "block" /\ after' \in {"handle", "prompt"} /\ UNCHANGED status
  /\ UNCHANGED <<exit_value, signals>>

CancelLine ==
  /\ EndEdit /\ ~Dumb
  /\ interrupts < MaxInterrupts /\ interrupts' = interrupts + 1
  /\ main' = "prompt"
  /\ UNCHANGED <<after, exit_value, status, handler, keep_running, typed, lines>>

EndOfInput ==
  /\ EndEdit /\ Patient
  /\ main' = "cli"
  /\ exit_value' = IF Dumb THEN exit_value ELSE 0
  /\ UNCHANGED <<after, status, signals, lines>>

SetIntHandler ==
  /\ main = "handle"
  /\ handler' = TRUE /\ typed' = FALSE
  /\ main' = "lock" /\ back' = "reset"
  /\ Still
  /\ UNCHANGED <<rest, after, work, engine, eval_lock, aware, tasks, exit_value, status,
                 keep_running, interrupts, lines>>

(* After the evaluation; more forms may follow on the line. *)
ClearIntHandler ==
  /\ \/ main = "reset" /\ handler' = FALSE /\ main' = "keep" /\ UNCHANGED keep_running
     \/ main = "keep" /\ keep_running' = TRUE /\ main' \in {"prompt", "handle"}
        /\ UNCHANGED handler
  /\ Still
  /\ UNCHANGED <<rest, after, back, work, engine, eval_lock, aware, tasks, exit_value, status,
                 interrupts, typed, lines>>

(* int_handler, or the default action; in raw mode Ctrl-C is a key. *)
CtrlC ==
  /\ main \notin {"edit", "returned", "exited"}
  /\ interrupts < MaxInterrupts /\ interrupts' = interrupts + 1
  /\ IF handler
     THEN /\ keep_running' = FALSE /\ handler' = FALSE /\ typed' = TRUE
          /\ UNCHANGED <<main, status>>
     ELSE ExitWith(130) /\ UNCHANGED <<keep_running, handler, typed>>
  /\ Still
  /\ UNCHANGED <<rest, after, back, work, engine, eval_lock, aware, tasks, exit_value, lines>>
-----------------------------------------------------------------------------
(* The end *)

TasksEnd == /\ ~Over /\ tasks /\ tasks' = FALSE
            /\ Still
            /\ UNCHANGED <<rest, main, after, back, work, engine, eval_lock, aware, exit_value,
                           status, signals, lines>>

AwaitTasks ==
  /\ main = "tasks"
  /\ exit_value = 0 => ~tasks
  /\ main' = "shutdown"
  /\ Still /\ Quiet
  /\ UNCHANGED <<rest, after, back, work, eval_lock, exit_value, status>>

EngineShutdown ==
  /\ main = "shutdown"
  /\ ctx' = "released"
  /\ main' = "return"
  /\ Still
  /\ UNCHANGED <<rest, after, back, work, init, args, engine_ready, ready_lock, sender, eval_lock,
                 aware, tasks, exit_value, status, signals, lines>>

Return ==
  /\ main = "return"
  /\ main' = "returned" /\ status' = exit_value
  /\ Still /\ Quiet
  /\ UNCHANGED <<rest, after, back, work, eval_lock, exit_value>>

CommandLine == FindScript \/ (\E i \in DOMAIN argv : ParseOption(i)) \/ NoOption \/ Configure
Main == \/ CommandLine \/ CreateEngine \/ NextScript \/ RunMain \/ RunScript \/ RunMainCli
        \/ Block \/ BlockWake \/ LockEval \/ EvaluationEnds \/ EvaluationFails
        \/ RunRepl \/ Listen \/ BeginEdit \/ SetIntHandler \/ ClearIntHandler
        \/ AwaitTasks \/ EngineShutdown \/ Return
User == EnterLine \/ CancelLine \/ EndOfInput \/ CtrlC

Next == Main \/ EngineInit \/ BlockWakes \/ TasksEnd \/ User

(* The scheduler runs both threads, and tasks come to an end; nobody need  *)
(* type anything, and nothing wakes of itself.                             *)
Spec == Init /\ [][Next]_vars /\ WF_vars(Main) /\ WF_vars(EngineInit) /\ WF_vars(TasksEnd)

-----------------------------------------------------------------------------
(* What an init option with this value has run *)
InitOption(o, value) ==
  IF o \in {"e", "i"} THEN <<[type |-> IF o = "e" THEN "text" ELSE "path", of |-> value]>>
  ELSE <<>>

(* What a reader of the usage text takes the command line a to mean: from  *)
(* left to right, each option with its value, up to the main option, a     *)
(* script or the hyphen; the words from there on are the program's.        *)
Reading(a) ==
  LET e == Expanded(a)
      from[i \in 1 .. Len(a) + 2] ==
        IF i > Len(a) \/ e[i].form \in {"word", "hyphen"}
        THEN [opts |-> <<>>, scripts |-> <<>>, rest |-> SubSeq(e, i, Len(a))]
        ELSE LET o == e[i].opt
                 next == IF Takes(e[i]) THEN i + 2 ELSE i + 1
                 value == IF Joined(e[i]) THEN e[i].value
                          ELSE IF Takes(e[i]) /\ i < Len(a) THEN e[i + 1] ELSE None
                 opts == <<[opt |-> o, value |-> value]>>
             IN IF o \in {"m", "r"}
                THEN [opts |-> opts, scripts |-> <<>>, rest |-> SubSeq(e, next, Len(a))]
                ELSE [opts |-> opts \o from[next].opts, scripts |-> InitOption(o, value) \o from[next].scripts,
                      rest |-> from[next].rest]
  IN from
Meant(a) == Reading(a)[1]

(* The command lines main reads otherwise: a hyphen for a value; and a     *)
(* word after a long option that needs no further word, as in "--verbose   *)
(* foo.cljs -x" or "--init=x foo.cljs -x", after -o, after a short option  *)
(* whose attached value ends in one of the letters, as in "-efine foo.cljs *)
(* -x", or after two options that take a value, as in "-e -e foo.cljs -v   *)
(* bar", where the second may be the value of the first.                   *)
Unclear(a) == \E i \in 2 .. Len(a) :
  \/ a[i].form = "hyphen" /\ Takes(a[i - 1])
  \/ /\ a[i].form = "word"
     /\ LET t == a[i - 1]
        IN \/ t.form = "long" /\ ~Takes(t)
           \/ t.form = "short" /\ Joined(t) /\ t.last \in Valued \ {"o"}
           \/ t.form = "short" /\ Takes(t) /\ t.opt = "o"
           \/ i > 2 /\ Takes(t) /\ Takes(a[i - 2])

(* The options os have o, and v is the last value they give it.            *)
Has(os, o) == \E k \in DOMAIN os : os[k].opt = o
LastValue(os, o, v) ==
  \/ v = None /\ ~Has(os, o)
  \/ \E k \in DOMAIN os : /\ os[k] = [opt |-> o, value |-> v]
                          /\ \A j \in DOMAIN os : j > k => os[j].opt # o

(* Why the usage text has Planck end before it begins                      *)
Refused(os) ==
  \/ \E j, k \in DOMAIN os : j # k /\ {os[j].opt, os[k].opt} \subseteq {"k", "K"}
  \/ \E k \in DOMAIN os :
       \/ os[k].opt \in {"h", "V", "l", "S"}
       \/ os[k].opt \in Valued /\ os[k].value = None
       \/ os[k].opt \notin Valued /\ (os[k].opt \notin Flags \/ os[k].value # None)
       \/ os[k].opt \in {"A", "O", "t"} /\ os[k].value \in Wrong

(* The switches of main leave the configuration that the usage text gives  *)
(* the command line, whatever the order of options, values and arguments:  *)
(* the init options in order, the last value of each other option, and the *)
(* arguments of the program untouched.  Planck refuses no command line     *)
(* without one of the reasons the text has.                                *)
ReadsAsMeant ==
  LET m == Meant(argv)
  IN ~Unclear(argv) =>
       /\ main = "exited" /\ status # 130 /\ init = "none" => Refused(m.opts)
       /\ main = "engine" =>
            /\ config.scripts = m.scripts
            /\ rest = m.rest
            /\ config.repl <=> \/ Has(m.opts, "r")
                               \/ /\ m.scripts = <<>> /\ m.rest = <<>>
                                  /\ ~Has(m.opts, "m") /\ ~Has(m.opts, "1")
            /\ LastValue(m.opts, "m", config.main_ns)
            /\ \A o \in {"A", "O", "c", "o", "t", "L", "D"} : LastValue(m.opts, o, config.given[o])

(* "Runs all init options in order", then "a -main function or runs a repl *)
(* or script" (main.c:95-96): what has run is always a beginning of that   *)
(* plan, nothing runs after a failure outside of a REPL, and a process     *)
(* that ends with status 0 of its own has run it all.                      *)
RunsInOrder ==
  LET m == Meant(argv)
      plan == config.scripts \o
              (IF config.main_ns # None THEN <<[type |-> "main", of |-> config.main_ns]>>
               ELSE IF config.repl \/ m.rest = <<>> THEN <<>>
               ELSE <<[type |-> IF m.rest[1] = Hyphen THEN "text" ELSE "path", of |-> m.rest[1]]>>)
  IN ran # <<>> \/ main = "returned" =>
       \/ Unclear(argv)
       \/ /\ Len(ran) <= Len(plan) /\ ran = SubSeq(plan, 1, Len(ran))
          /\ ~config.repl => \A k \in 1 .. Len(ran) - 1 : ran[k].of \notin Throwing
          /\ main = "returned" /\ status = 0 => ran = plan
          /\ main = "returned" /\ status = 0 /\ ~config.repl =>
               \A k \in DOMAIN ran : ran[k].of \notin Throwing

(* "Binds *command-line-args* to a seq of strings containing command line  *)
(* args that appear after any main option" (main.c:93), which a script's   *)
(* path is ("bind everything after the path to *command-line-args*",       *)
(* main.c:376): what scripts see is what follows the main option.          *)
ArgsAreBound ==
  LET m == Meant(argv)
  IN main = "js" /\ ~Unclear(argv) =>
       args = IF config.main_ns # None \/ config.repl \/ m.rest = <<>> THEN m.rest
              ELSE Tail(m.rest)

(* The initialisation thread hands the context over once: main enters it   *)
(* only when that thread is through, never with the printing discarded;    *)
(* the context is released only after it; and prints find the line editor  *)
(* for as long as the line editor believes they do.                        *)
HandsOver == /\ main \in {"lock", "js", "handle"} => init = "done" /\ ctx = "live" /\ sender # "discard"
             /\ ctx = "released" => init = "done"
             /\ main = "edit" /\ aware => sender = "line"

(* An evaluation at the prompt stops at a print (function_print_fn) only   *)
(* if Ctrl-C was typed since it began; one typed too late for the previous *)
(* evaluation does not reach it.                                           *)
InterruptsItsOwn == main = "js" /\ back = "reset" /\ ~keep_running => typed

(* Nobody waits for the engine for good: the one signal is not lost; and   *)
(* a process that is no REPL comes to its end.                             *)
ReadyComes == /\ []<>(main \notin {"block", "asleep", "woken"})
              /\ <>(config.repl \/ Over)

=============================================================================

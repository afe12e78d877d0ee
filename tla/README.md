# A verification project for Planck

Planck is a stand-alone ClojureScript REPL and script runner: a C program
(`src/planck-c`) around JavaScriptCore, and a ClojureScript library
(`src/planck-cljs/src/planck`) that runs inside it. This directory models the
concurrent core of it in TLA+, checks the models with TLC, and proves the main
invariants with TLAPS. Paths below are relative to `src/`.

## 1. The system

### Components, their state, their operations

| Component | State | Operations |
|---|---|---|
| Task latch, `planck-c/tasks.c` | `tasks_outstanding`, a mutex, a condition variable | `signal_task_started`, `signal_task_complete`, `block_until_tasks_complete` |
| Timers, `planck-c/timers.c`, `functions.c:1276-1382`, prelude in `engine.c:560-609` | `timeout_id`, `interval_id`; `PLANCK_TIMEOUT_CALLBACK_STORE`, `PLANCK_INTERVAL_CALLBACK_STORE`; a detached thread for each sleep | `setTimeout`, `setInterval`, `clearTimeout`, `clearInterval`, the thread's run |
| Engine, `planck-c/engine.c` | the JavaScript context, `eval_lock`, `engine_ready` with its mutex and condition variable, `keep_running`, `cljs_sender`; a thread that initialises all that | `do_engine_init`, `block_until_engine_ready`, `evaluate_source`, `run_main_in_ns`, `run_main_cli_fn`, `get_current_ns`, `set_print_sender`, `int_handler`, `engine_shutdown` |
| Process life, `planck-c/main.c` | the configuration (options, init scripts, class path, remaining arguments), `exit_value` | reading the command line, scripts, main function, REPL, wait for tasks, shutdown |
| Shell, `planck-c/shell.c`, `planck/shell.cljs` | three pipes and a child for each call, a thread for each asynchronous one | `sh`, `sh-async` |
| REPL, `planck-c/repl.c`, `planck/repl.cljs` | `repl_t` for each REPL, `repl_print_mutex`, `sock_to_write_to`, `session_id_counter`; `current-ns`, `session-states`, the session vars | reading a line, evaluating forms, serving a connection |
| Sockets, `planck-c/sockets.c`, `functions.c:1384-1563`, `planck/socket/alpha.cljs` | a thread and a data handler for each socket, a thread for each listener | connect, listen, accept, receive, write, close |
| Module loading and cache, `functions.c:78-457`, `repl.cljs:862-1094` | the class path, the cache directory, what is loaded | load, cache |
| Line editor, `planck-c/linenoise.c`; highlighting, `repl.c:382-500` | `linenoiseState`, the history and its file, `highlight_restore_sequence`, `hl_restore`, a thread that moves the cursor back | keys, prints in between |
| Readers, `planck/core.cljs:56-244` | `buffer` and `pos` of each Reader, over a file, the standard input or a string | `-read`, `-read-line`, `-unread`, `-close`, the adapter to `tools.reader` |
| Streams and copies, `planck-c/file.c`, `io.c`, `planck/io.cljs` | FILEs with their buffers; the `open-file-*-descriptors`, sets of addresses as strings | open, write, flush, read, close, `copy` |
| HTTP, archives, EDN and keymap, directories | buffers | one system or library call each |

### How they interact

`main` creates the engine on a thread of its own, waits until it is ready,
evaluates scripts, runs a main function or a REPL, waits on the task latch, and
releases the context. Timers and shell interactions are *tasks*: the thread
that starts one counts it in the latch, the task's own thread uncounts it.
Timer threads and REPLs evaluate under `eval_lock`; the callbacks of
asynchronous shell interactions and the function of `-m` do not take it. REPLs
take `repl_print_mutex` first and `eval_lock` inside it. JavaScriptCore has a
lock of its own, which it drops while a native function runs: JavaScript is
atomic from one native call to the next, and no further.

### What is hard

Interleaving at native calls; two locks with several ways out; a counter kept
in balance by seven places in two languages; print routing and the current
namespace, which are global while REPLs are many; callbacks that clear the
timer they belong to; failures that are ignored. `PROJECT.json` lists the
hazards at their lines with the properties that cover them.

## 2. Modules

| Module | Models | Notes |
|---|---|---|
| `AsyncWork` | what the event loop promises: a process goes on while work is pending, and ends when none is | abstract; `Safety` without, `Promise` with liveness |
| `Tasks` | `tasks.c`, one action for each pthread call, with spurious wakeups | implements `AsyncWork` |
| `EventLoop` | timers, shell interactions, evaluation and the end of `main`, at the grain of native calls | uses the latch by its atomic operations, as `Tasks` justifies; implements `AsyncWork` |
| `SocketRepl` | the command line and the connections of a socket REPL on one engine, with timers that print | |
| `ShellCalls` | what a shell interaction promises: one answer, after the command ended, telling all it said and how it ended | abstract; any number of calls at a time |
| `Shell` | `shell.c` under `shell.cljs`: pipes, fork, the poll loop, `waitpid`, on the one descriptor table of the process | implements `ShellCalls` |
| `Cache` | how the code of a namespace is found, taken from the cache or compiled and cached, by processes that share a cache directory | users' habits are parameters |
| `LineEditor` | the terminal while a line is edited, recalled, searched for, pasted and highlighted, and the history that comes of it | who types what is a parameter |
| `PushbackText` | what a reader promises: a text that is consumed from its front and can be put back | abstract |
| `Reader` | the Reader type of `core.cljs` with its three sources, and the adapter for reading single characters | implements `PushbackText` |
| `Files` | extends `Reader`: writers and byte streams over stdio, `copy` of files by system calls, `copy` of a Reader into a stream | |
| `Startup` | `main.c` from the command line to the exit status, with the initialisation thread, the REPL's prompt and SIGINT | the command line is compared with its meaning by the usage text |
| `Conversation` | what sockets promise: all that the peer said, in order, then the end, once; texts go out whole | abstract |
| `Sockets` | `sockets.c` and its callers, a thread for each socket, over an external network | implements `Conversation` |
| `TasksProofs`, `EventLoopProofs`, `ShellProofs`, `ReplProofs` (of `SocketRepl` and of `LineEditor`), `CacheProofs`, `StartupProofs`, `FilesProofs`, `SocketsProofs` | the proofs, see section 4 | |
| `MCTasks`, `MCEventLoop`, `MCSocketRepl`, `MCShell`, `MCCache`, `MCLineEditor`, `MCFiles`, `MCStartup`, `MCSockets` | instances for TLC, with a `.cfg` for each run | |

### EventLoop

The program counter `pc` of a thread is the native call it is in, or `"js"`
while its JavaScript runs. `setTimeout` is `SetTimer` (the call), `ReadId`,
`CountTimer`, `CreateTimer` (inside the native function) and `Bind` (back in
JavaScript: the function is stored); the thread of a timeout is given
`timeout_id` as it is when read once more (`TimerData`). `clearTimeout` is `ClearTimer` and
`SignalCleared`. A timer's thread goes through `Wake` (sleep over, `eval_lock`
taken), `RunTimer`, the callback, `EndTimeout` and `FinishTimeout` or
`EndInterval` and `Rearm`, and `UnlockTimer`. `store` holds the ids that are
keys of the two JavaScript objects; `0` stands for the key `null`. `fired` and
`cleared` are history. What user code does is nondeterministic within
`Habits`, which names what a program may or may not do, so that a run can say
which programs its claims are about.

### SocketRepl

`current_ns` is the atom `planck.repl/current-ns`, `repl_ns[r]` is
`repl->current_ns`, `star1` stands for all session vars (`*1` to `*e` and the
print settings), `session_states` for the atom of that name. `cljs_sender` and
`print_fn` are the two halves of the print sender, which `set_print_sender`
sets one after the other. `Route` is where a print would go at this moment. A
form is one of a few kinds (`FormKinds`), chosen for what they change: values,
exceptions, namespaces, timers, input that is not complete, exit commands. A
connection whose prompt cannot be written is closed (`AfterPrompt`). The early
return of `process_line` when `exit_value` is set (`repl.c:205`) is not
represented: while REPLs run only `planck.core/exit` sets it, which calls `exit`
in its next statement (`functions.c:540`).

### Shell

`fd` is the descriptor table: which end of which pipe a number stands for, in
Planck itself. `pipe` holds the blocks (of up to 4096 bytes) in each pipe, and
`child[c].held` the ends that the child of call `c` inherited: besides its own,
all that other calls had open when it was forked. `call[c].pc` is the system
call that the thread of call `c` is about to make, or `"poll"` in the loop,
where `revents` is what the last `poll` reported and has not been served. The
closes after `fork` and after the loop are one step each, as nothing another
thread does can tell their order. Calls are numbered in the order they start.
A command (`Programs`) is launched or not, reads all its input and echoes it or
does not, says some blocks, and exits or is killed. `pipe` fails when the table
is full, `fork` and `poll` when `Failures` says so. Whether an asynchronous
call's callback is started is part of `EventLoop`, not of `Shell`.

`Careful` names what the claims about programs need: `:in` is given to commands
that read (without it the child's stdin stays open and such a command waits for
ever), and while a call with `:in` is served no other call opens anything (the
call closes its pipe to the child twice, at `shell.c:224` and after the loop; in
between its number may have become a pipe of another call, which then polls a
descriptor that is closed).

### Cache

One namespace, so one cache prefix; `tree` holds the places a source may be in
(the bundle, the class path, `out`, the current directory), `cache` the three
files of the cache directory, which all processes share. `Find` is one turn of
`load-other`: `function_load`, then `PLANCK_READ_FILE`, for the next extension.
`Read` fetches one of the three compiled files, from where the source came from
or else from the cache; then the JavaScript is checked (`Valid`) and the cached
form is used (`Use`), or the source is compiled (`Compile`) and written, each
file emptied (`OpenFile`) and filled block by block (`WriteFile`), as `fopen`
and `fwrite` do, with nothing locked. A block stands for a part of a file and
tells which text it was made from and under which options; a `Hole` for the
zeros that appear when another process has emptied a file that is being
written. Of the cached files only the time of the JavaScript is kept, since
nobody asks for the others. An archive is read as it was when it was first
opened, and never asked again once it was missing.

`users` says what people do, besides starting Planck, editing while nothing is
loaded, and replacing archives while Planck is not running (`Habits`). `author`
and `calm` are history: whether the cache is as one writer left it, and was
during this load.

### LineEditor

`l` is the `linenoiseState` of the line being edited, with the length of its
prompt; `l.buf` is what C reads as a string, up to the zero byte, which is not
always at `l.len` (`DeleteNextWord`). Each key is an action that does all the
key's function does, `highlight_cancel` before it and the refresh after it
included: `Edit` the keys that change or move in the line, `TypeChar` a character,
with the search for a pasted prompt (`Elides`) and the hop to the partner of a
brace, `EditHistoryNext`, `ReverseSearch`, `Search` and `EndSearch`, `Tab`,
`ClearScreen`, `Enter` and `Cancel`. `peeked` is the key that ended a search and
is processed next. `Continue` is Enter when there is more to read: `linenoiseRaw`
goes on to the next line without leaving raw mode, so that its newline keeps the
column where the line ended (`linenoise.c:264`, `1259`), and `linenoiseEdit`
writes the prompt there before the first refresh (`Prompted`, `linenoise.c:827`).
`Enter` is the last line of what was read, and the part of `process_line` that
keeps the history: `saved` is `~/.planck_history`. `Restart` ends a Planck and
begins another one. A character takes one byte and one column. Left out are
control characters that are bound to nothing, which are inserted as they come and
shown as the terminal pleases, and TAB and arrow keys as what ends a search: a TAB
would be inserted as a character, and the rest of an arrow's sequence be read
as one.

`screen.shows` tells what each row of the terminal shows: output, or which row
of the line, or what is left of something; `Refresh` is `refreshMultiLine`
translated into what its escape sequences do there, from the row and column
where the cursor is, which are not always those the code believes. `hop` is the
state of highlighting with its threads: `ThreadChecks` and `ThreadMovesBack` are
the two parts of `do_highlight_restore`, between which another thread may act.
`past` is history: the last lines entered, and whether one of the ways of
disturbing the history, named below, was taken.

### Reader and PushbackText

`buffer` is `@buffer` (a text or `Nil`) and `pos` is `@pos`; `source` is what
has not been fetched yet, from which a raw-read takes a chunk of at most
`limit` characters, or all of a string. `-read-line` is a loop of raw-reads
(`CallReadLine`, `LineFetch`, `LineFound`, `LastLine`, `LineThrows`), between
which a file may grow; each other operation is one action. `ReadChar` and
`PeekChar` are those of the adapter that `read` uses, made of `-read` and
`-unread`. The text of `PushbackText` is what is left in the buffer followed by
what can still be fetched (`Rest`). `AfterLine` says whether `-unread` may
follow `-read-line`: it puts the text before a buffer that is not cut at `pos`,
and would bring back what was read (`core.cljs:94`). An empty answer is possible
where a reader has just given a line; users see it as an empty piece, not as the
end.

### Files

A program `reads` (as `Reader` says), `writes`, `copies` or `pours`. The
descriptor of a stream is the address of its FILE, written as a string, so the
next FILE may get the same one: `heap` holds the FILEs by their addresses,
`registered` the sets in which `io.cljs` looks a descriptor up before it uses
it, `stream` the streams that were made, open or closed. `Fwrite` lets any part
of the data through that leaves no more than `StdioBuffer` behind. `meant`
(what was written to each file) and `told` (whether the stream used last was
open, and what it said) are history. `copies` is `copy_file_loop_unlinking`, a
step for each system call: any of them may fail (`CopyFails`), a `write` may be
short, and others meanwhile let the source grow or make and remove the target
(`Grows`, `Meddles`). `pours` is `copy` of a Reader to a Writer, piece by piece,
or to an OutputStream, for which the Reader is slurped and thereby closed,
although `io.cljs:597` says that copy does not close what it has not opened.

A file has one writer at a time. `StaleUse` lets a program use a stream that it
has closed after its address has been given to another stream of the same kind:
the check in `io.cljs` then finds it open, and it writes to the other's file, or
closes it. `OntoItself` lets a file be copied to its own path, which
`copy_file_loop_unlinking` unlinks before it reads it. TLC finds the violations
when either is `TRUE`; with both `FALSE`, which the properties suppose, there
are none.

### Startup

A word of the command line is a token (`Short`, `Long`, `Word` in `MCStartup`,
`Hyphen`), or an option with its value in the same word (`Attached`: `--init=x`,
`-efine`), which keeps the word's last letter, as that is what
`should_ignore_arg` looks at. What a token's text is does not matter otherwise,
except whether it is a bad value (`Wrong`) or names something that throws
(`Throwing`). `FindScript` is the
loop that looks for the first word that is not the value of an option
(`should_ignore_arg`), `ParseOption` and `NoOption` are `getopt_long` and its
switch on the part before, `Configure` what follows up to the theme. `Meant`
reads a command line as the usage text does, independently of that; the lines on
which both differ are named by `Unclear`:

* a word after a long option that needs no further word is taken for its value
  when the script is looked for (`main.c:289-292`), be it a flag (`--verbose
  foo.cljs`) or an option whose value is attached: in `planck --init=x foo.cljs
  -e y` the option `-e y` is Planck's, and not an argument of `foo.cljs`;
* so is a word after a short option whose attached value ends in one of the
  letters of options that take a value, as in `-efine foo.cljs -e y`
  (`main.c:297-317`); and after `-o`, which is not among these letters, the
  value is taken for the script;
* of two options in a row that take a value, as in `-e -e foo.cljs -v bar`, the
  second is the value of the first, yet the word after it is not taken for the
  script, since `should_ignore_arg` looks at one word back only;
* a hyphen for a value is taken for the script (`main.c:371-374`).

An option that `getopt_long` does not know, or a flag that is given a value, ends
Planck with the usage text and status 1 (`Unknown`, `main.c:587`); so does `-?`,
although the usage text lists it beside `-h`, which ends it with status 0. Not
represented are `--`, abbreviations of long options, and clumps of short options
other than as the sequence of their letters: one in which `-r` is not the last
letter, which `getopt_long` would leave among the arguments, and one that is the
value of an option.


Then two threads run: `init` is where `do_engine_init` is (parts that only
prepare the context are one step each), `main` where `main` is, with the
handshake one action for each pthread call and spurious wakeups. Each
evaluation first waits for the engine (`Evaluate`, `Block`). At the prompt a
line is entered, given up, or the input ends; `CtrlC` is SIGINT, which does what
`int_handler` does while the handler is set and otherwise ends the process;
`keep_running` is reset after the evaluation. `job` and `ran` tell what is
evaluated and what was. `Hasty` lets a REPL be left, or its keymap be found bad,
before the initialisation thread is through: the context is then released under
it. Of `main.c`, the branches at lines 668 and 684 cannot be reached.

### Sockets

`pc[c]` is where the thread of socket `c` is: about to receive, to deliver
what it has received (`buffer[c]`), in its handler, or at the last call, that
tells the handler of the end. Handlers and `Main` (a script, a REPL, or a
function of `-m`, which takes no `eval_lock`: `MainLocks`) connect, write,
close, listen. `write_to_socket` is `CallWrite`, then `Put` for each `write` that
goes through in part, then its end or failure; a signal may cut a write short,
and the system may refuse one (`WriteRefused`). On an open socket `recv` is not
interrupted: the only handlers of signals are installed with `signal()`
(`engine.c:42`, `linenoise.c:1447`), under which the call is restarted, the only
use of `sigaction` is to ignore SIGPIPE (`main.c:33`), and no timeout is set. The network is external: `inq` and `outq`,
of which the one that goes out holds `Capacity` bytes, and a peer that sends
what it has to say, reads, closes, or breaks off, which loses what is on its
way. `heard`, `told`, `said` and `sent` are history and the state of
`Conversation`.

What the model shows besides: `pthread_create` never returns a negative number,
so a socket whose thread could not be made is never served and its handler never
told (`"unserved"`); chunks are decoded each for itself, so that a character cut
by `recv` makes its chunk the empty string (`Leads`, `Trails`;
`functions.c:1405`) and a zero byte ends what the handler gets; a negative number
from `accept` is served as if it were a socket (`sockets.c:131`); the descriptor
of a socket is shut down and never closed (`sockets.c:153`), so numbers are not
used again; a large write to a peer in the same process may wait for that peer's
handler, which waits for `eval_lock`, for ever; and handlers may run after
`engine_shutdown`. The runs keep to one-byte characters, and peers are other
processes.

## 3. Checks

Runs that pass:

| Run | Question | Bounds |
|---|---|---|
| `MCTasks` | does the latch count exactly, lose no wakeup, and implement `AsyncWork`? | 3 task threads, each used over and over |
| `MCEventLoop` | is any task of a disciplined program counted twice, run after being cleared, or left behind; does one thread at a time evaluate; does the loop implement `AsyncWork`; does the process end? | 2 timeouts, 1 interval, 4 timer threads, 1 shell interaction at a time, a script and the function of `-m`, which runs without `eval_lock` |
| `MCEventLoopCareless` | with failing thread creation, bad delays, throwing intervals and unlocked timers, does the process at least not end too early? | 3 timer threads, 2 timeouts, 1 interval, 1 evaluation; deadlock is allowed, as a leaked task does hang the process |
| `MCSocketRepl` | do namespaces, session vars, evaluations and output stay with their REPL, and is every line served? | 2 connections set up one after the other, either kind of terminal, 2 forms of all 7 kinds, 1 timer |
| `MCShell` | does every call answer with what its command said, leave no descriptor behind, and come to its end? | 2 calls; `cat`, and a command that complains and is killed; `:in` absent, empty, and of 2 blocks through pipes of 1; 11 descriptors, so that the 6 pipes of both calls do not always fit; `fork` and `poll` fail at will |
| `MCCache` | is code from the cache that of the source that was found, under the process's options, with its own analysis and map; does compiling ever stop? | 2 texts, 2 sets of options, 2 seconds, files of 2, 2 and 1 blocks; a source in a directory, in an archive that may be missing, in the bundle, below the current directory, or plain JavaScript; one process at a time with changing options and kills, or two at a time with the same options |
| `MCLineEditor` | does the terminal show the line, whole and once, and the cursor in its place; does a search show what it found; does the history file hold the lines that were entered? | 6 keys; lines of up to 5 characters and history of 3 lines; one typist edits over several rows (4 columns), one recalls, one searches (15 columns, no wrapping), one closes braces, one pastes, one is printed to (9 columns) |
| `MCFiles` | does a reader keep its text, however it is read; is what is written kept and what is closed refused, when descriptors are used again; are copies whole, and their sources untouched? | texts of up to 3 of 2 characters (one a newline), chunks of 1, 2 or 4; 2 paths, 3 nodes, 2 addresses (interchangeable), 2 streams, files of up to 3 characters, a stdio buffer of 1, copies by 2; programs end, so deadlock is not checked |
| `MCStartup` | is the command line read as the usage text says; are scripts run in their order; is the engine used only when it is ready; does Ctrl-C reach only the evaluation it was meant for; does nobody wait for good? | every command line of up to 2 tokens of 10 kinds and of 3 tokens of 6 kinds, and 43 more that use every option, with values attached and unknown options; with and without HOME, class path and keymap; 2 lines, 2 Ctrl-C |
| `MCSockets` | do handlers hear everything in order and then the end, once; do texts go out whole and one after the other? | one socket that is connected and one that is accepted; 2 bytes that peers send, in any pieces; 2 writes of 2 bytes through a queue of 1; 2 closings or breaks, by anybody; 1 evaluation |

Why the bounds are enough: a violation of a property of `EventLoop` needs at
most two timers and one more thread to be seen (one to leak or to be completed
twice, one to suffer from it), and every label of every thread occurs within
the bounds. A mix-up in `SocketRepl` needs two REPLs, a form that makes a
difference between them and one that observes it.
Calls of `Shell` meet in pairs: one inherits what the other has open, or opens
a number the other closes; input of two blocks through a pipe of one makes
parent and child wait for each other in every way a longer one would.
A wrong answer of `Cache` takes one change (a text, the options) between a write
and a read, and its times compare as equal or not, for which two seconds do; two
blocks tell a file that is empty, cut off and whole apart.
In `LineEditor` a line of 5 behind a prompt of 2 takes up to two rows of 4 and
ends at the margin in one of its lengths; three entries make the history drop
its oldest line within six keys, and the entry being edited is one of them.
In `Files` three characters are cut by chunks of 1 and 2 in every way, with a
newline in any place, and a descriptor used again needs two streams. In
`Startup` what an option does depends on its neighbours and on whether it was
given before, so three tokens show each order; the handshake happens once, and
the second line and the second Ctrl-C meet what the first has left. In
`Sockets` a text of two bytes through a queue of one is cut in every way, and a
second writer, or a second end, is enough to come between.

Runs that find a violation of what the documentation says:

| Run | Statement | What the code does |
|---|---|---|
| `MCSocketReplRoute` | printing is routed properly under load (`CHANGELOG.md:548`) | the socket is chosen before the mutex is taken (`repl.c:524`) |
| `MCStartupArgs` | `*command-line-args*` is what follows the main option, and the path of a script is one (`main.c:93`, `main.c:376`) | the initialisation thread binds it from the array from which `main` still drops the path (`engine.c:543`, `main.c:695`): always too early after an init script, and a race without one |

The conditions in the properties that pass mark what else goes wrong without
them, and TLC shows each when its condition is dropped:

* `Habits` of `MCEventLoop` without `clear_running`: a callback that clears its
  own timeout completes it twice (`engine.c:577`), and another timeout is cut
  off; without `clear_null`: a timer without a delay is stored under `null`,
  uncounted, and clearing it uncounts another task; without `unlocked_timer`: a
  timeout that the callback of `sh-async` sets, which holds no lock, may fire
  before it is stored (`engine.c:564`), and stays counted.
* `Overlap = FALSE` in `SocketRepl`: ids of sessions are handed out without a
  lock (`repl.c:556`), and two connections that come in together may share one.
* `Connected = {}` in `PrimaryReadsInItsNamespace`: input is read in the
  namespace of the REPL that evaluated last. That output goes home is checked of
  one connection beside the command line (`OneConnectionIsRouted`); with a
  second one it does not, see `MCSocketReplRoute`.
* `Careful` in `Shell`, as above. Commands that exit with 126 or 127 make `sh`
  throw, even if they were launched.
* `Unclear` in `Startup`: each of the forms named above is read by `main`
  otherwise than the usage text says, the attached values among them.
* `Torn` in `LineIsShown`: between a line that is pasted and the one before it a
  piece of the prompt is left, if the line before ended so near the margin that
  the prompt does not fit behind it (4 columns: `a`, Enter with more to read).
* `Hasty` in `Startup`; `AfterLine`, `StaleUse` and `OntoItself` in
  `Files`; one-byte characters and `"unserved"` in `Sockets`, as above.

The habits that no group of `MCCache` has each
break `RunsItsCode`: a source edited while it is compiled, or an archive
replaced under a running process, leaves code of the old text that is newer than
the new one (`edit_while_loading`, `replace_while_running`); a file that arrives
with an old date, from another version of a library for instance, is taken to be
what was compiled before it (`backdate`); processes with different options
writing at a time mix their files (`mix_options`). `BelongTogether` needs
`calm`: a kill between two of the three writes leaves code with the analysis of
another text, or with one that is cut off, and then loading throws until the
source is newer; and it needs `:source-map` to be the same in all processes, as
without it the old map stays. `RunsItsCode` allows the beginning of the right
code, which is what a process sees of a file that is being written, or whose
writer was killed, after its first line.

`LineIsShown` holds for each typist of `MCLineEditor`, and not for these, who
are for this reason not among them: one whose key comes between the test and the
increment of `do_highlight_restore` (the cursor is moved back twice; typists are
`timely`); one who closes braces in a line of several rows, or while others
print; one who is printed to, or completes, in a line of several rows
(`linenoisePrintNow` and `completeLine` begin where the cursor is); one who
searches where the line wraps under the longer prompt of the search
(`refreshMultiLine` takes the old cursor's row from the new prompt); one who
presses Ctrl-C while three or more rows of the line are below the cursor
(`linenoiseEdit` returns without going to the end of the line, as it does for
Enter, and the two newlines of the REPL do not get past the rest of it); and one
who clears the screen while a form is open and then closes a brace whose partner
is on a line above (the cursor cannot go up from the top row, and half a second
later it goes down one row all the same). The last two were met in proving the
property, and are its hypotheses in section 4.
`HistoryIsKept` does not hold once `past.disturbed` does: a recalled line that is
changed and then left stays changed in the history (and so does the old end of
a line after Alt-d, which writes no zero byte); Ctrl-C leaves the scratch entry,
with what was recalled away from; cancelling a search and going on through the
history writes the empty line over what was found, though the comment at
`linenoise.c:1047` says the search is ended "with no effect". That empty lines
do not stay in the history, and that recalling cuts the last byte off a line
that fills the buffer, is part of the statements.

For each property of a passing run `PROJECT.json` names a mutation, a plausible
mistake in the modelled code, under which the property fails. The mutations are
defined in the modules, each before what it mutates.

### Fairness

A thread that can take its next step takes it some time (`WF`): no thread is
suspended for ever, sleeps and child processes end, evaluations return. What
the user's code calls, and what users type, has no fairness. A lock is taken by
a weakly fair step, so a thread may starve while others keep taking the lock;
the liveness properties therefore speak of programs that come to rest
(`ComesToRest`) and users that stop typing (`UsersRest`). In `Shell` the thread
of a call and its command are fair; that scripts start calls, and that calls
fail, is not. In `Cache` a load that has begun goes on, and the clock advances
within its bound; `SettlesDown` supposes that in the end options no longer
change, loads do not overlap, and nobody is killed: two processes that go on
loading at the same time may go on invalidating what the other wrote.
`LineEditor` has no fairness: nobody has to type, and its properties are safety
properties; `MCLineEditor` does not check for deadlock, as users may stop.
In `Startup` both threads are scheduled and tasks end, while nobody has to type;
`ReadyComes` says that `main` is again and again not waiting for the engine, and
that a process that is no REPL ends. Nothing wakes a condition variable of
itself by fairness: the one signal must do. In `Sockets` threads run, JavaScript
ends, and a peer that is there reads what it is sent, or answers it with a reset
when it has closed; no peer has to send or to close. `ClosedIsTold` says of each
socket that it is again and again true that it is open or its handler has been
told. `Files` has no fairness.

## 4. Proofs

All theorems hold for every value of the constants that satisfies the named
assumptions of the modules.

* `TasksProofs`: `LatchCounts` (type correctness and `CounterIsExact`),
  `WakeupsAreKept` (`NoLostWakeup`), `LatchIsSafe` (the safety part of
  `AsyncWork`). The inductive invariant adds who holds the mutex at which
  label, and that a task being started is idle and started by one thread only.
* `EventLoopProofs`: `TypeCorrect` and `EvaluationExclusive`
  (`LockedEvaluation`) assume nothing of programs. `StoresSound`, `CounterExact`,
  `NeverExitsEarly` and `LoopIsSafe` assume `Disciplined`: callbacks do not clear
  their own timers, delays are numbers, timers are set under `eval_lock`, threads
  can be created. The list in section 3 shows why.
  The argument: at most one thread sets a timer at a time, since it holds
  `eval_lock`; so an id is fresh until it is stored, and what a running
  callback was called for is still in its store (`StoreInv`); so each change
  of the counter goes with one change of the sets it counts (`CounterIsExact`,
  by lemmas on cardinalities); so a counter of zero means empty sets, and
  `main` passes the latch only then (`NoEarlyExit`); and each step begins or
  ends one piece of work of `AsyncWork`, or none (`LoopIsSafe`).
  For the same programs: `ClearedNeverFire`, `NoTimeoutIsLost`,
  `FiresAtMostOnce`, `EngineIsOutlivedByClearedTimers`, and, for programs that are
  also `Patient` (no negative delay, no interval that throws), `NoTimerIsOrphaned`. They rest
  on what the thread of a timer remembers: its id is that of the history, and in
  the store, has fired, or was cleared, depending on the label (`TimeoutsInv`); a
  timer in a store has exactly one thread, or is just being given one (`DutyInv`).
* `ShellProofs`: `ShellTypes` (type correctness) and `ShellLeaksNothing`
  (`NothingLeaks`), for all scripts, careful or not. The inductive invariant
  says that an open number is the one its call remembers (`Known`), which ends
  a call may have open at each label (`Opened`), and which calls have a child
  (`HasChild`). That one call may close a number of another does no harm here:
  it can only close too much.
  `ShellKeepsPromise` (`KeepsPromise`, the refinement of `ShellCalls`) is for
  careful scripts (`Careful`), and there it must not close too much. The number
  of the pipe to stdin is closed after the last write and again after the loop;
  `Alone` says that nobody opens a pipe in between, as the call that feeds its
  command is the only one before its fork, so that the number is still free
  (`Holds`: at each label, which ends are open at the numbers the call goes by).
  Hence what a call reads and closes is its own, and what its command said is
  what it got, followed by what is in the pipe, which the command holds while it
  runs (`Heard`); at the end of both outputs nothing is in the pipes, so all that
  was said was got, and what `waitpid` tells is how that command ended (`Learnt`).
* `ReplProofs`, about `SocketRepl`: `ReplTypes`, `ReplsTakeTurns` (`OneReplAtATime`) and
  `NamespacesStay` (`NamespacesAreKept`) for any number of connections, in any
  order; `SessionsStay` (`SessionsAreDedicated`) for connections that are set up
  one after the other (`Overlap = FALSE`). The argument: who is between taking
  and giving back `repl_print_mutex` is alone, and the namespace is read and
  written only there, though without `eval_lock`; ids are given in order and
  bounded by the counter (`IdsBounded`), so no two sessions meet in
  `session_states` (`SessionInv`).
  `OneStaysRouted` (`OneConnectionIsRouted`) and `PrimaryStays`
  (`PrimaryReadsInItsNamespace`) assume nothing besides, as the statements hold
  their conditions themselves. `RouteInv` says at which labels of a
  connection both halves of the sender are set, and of the command line that it
  has taken its own back (`SenderInv`), and that from the arrival of a line on
  `sock_to_write_to` is its connection, if there is no other (`SocketInv`);
  timers print at any moment, and change neither. `PrimaryInv` says at which
  labels the namespace is not yet the command line's own again.
* `ReplProofs`, about `LineEditor`, which shares nothing with `SocketRepl` but the
  module of the proofs; no step of one half cites an assumption or an invariant of
  the other. All of these assume `ByteBefore # Space`: with a space there,
  `linenoiseEditMoveWordStart` takes the cursor out of the line at the first column.
  `EditorIsTyped` (`EditorTypeOK`) assumes nothing else; `EditorTypes` adds
  what is being entered and the threads to it. Each function of a key keeps the
  line within its text and the text within the buffer (`Stays`, a lemma for each
  key), and the recursive functions of the history are shown to satisfy their
  equations by well-founded recursion and then to stay within its limit.
  `SearchFindsWhatItShows` (`SearchShowsMatch`): the property is inductive over the
  types, as what is searched for only loses characters while the line is kept
  (`Kept`), and gains them only with an entry that is shown where it was found
  (`Matched`); an entry that fills the buffer is excepted by the property, as its
  last byte is not recalled.
  `HistoryHoldsTheLastLines` (`HistoryIsKept`) assumes of the files that are
  there at first that no line is repeated at once and only the last is empty
  (`Tidy`), and `FileStaysTidy` shows that this is so of every file that this Planck
  leaves undisturbed, so the next may begin with it. `HistoryKept` says that the
  history without its scratch entry is the end of what was entered, as much of it
  as the limit allows (`Full`), and the file such an end with at most one empty line
  after it (`Closed`): an empty line that is entered becomes the scratch entry of the
  next line, as `linenoiseHistoryAdd` repeats none, and goes with it; and that
  what was entered is `Neat`, so that the test for a repeated line answers
  the same in the history as in what was entered.
  `EditedLineIsShown` (`LineIsShown`) is for typists who are `Plain`, in a
  terminal of any width with the rows for the longest line and one more, as a
  torn prompt takes a row (`Torn`, section 3, is the property's own exception): they do not search,
  complete, or have others print; if they close braces, each line fits its row, no
  key comes between a thread's test and its move, and Ctrl-L is not pressed; and
  for behaviours in which Ctrl-C comes with at most two rows of the line below the
  cursor (`NearEnd`). Section 3 says what happens otherwise: each of these excludes
  a behaviour in which the property fails, though not only such behaviours (a search
  that does not wrap, completion in one row and prints above a line of one row
  are checked and not proved). Four of the six typists of `MCLineEditor` are `Plain`, over several
  rows (4 columns), with recalls and Ctrl-C, with braces, and with pastes; its
  constants and histories satisfy all the hypotheses. `Settled` says that, where
  the cursor is or will be moved back to, the line is `Whole`: its rows from `base`
  on, nothing below, and `oldpos` and `maxrows` such that the next refresh finds its
  first row and clears down to its last. That a refresh makes a line `Whole` that is at
  least `Begun` (its rows are where it will clear, nothing is below) is
  arithmetic of rows and columns, by lemmas on `\div` and `%`. `Hopping` says
  that a thread that has seen that it must move the cursor back is the one of the
  last hop, so that it moves it as `highlight_cancel` would.
* `CacheProofs`: `CacheTypes` (type correctness), with nothing assumed;
  `CodeIsRight` (`RunsItsCode`) and `FilesBelong` (`BelongTogether`) for any
  places, archives, sizes of files, and any number of processes, all of which
  may load at a time and be killed anywhere. They assume of users that they have no
  habit but `kill` (`Steady`; section 3 says what each other habit breaks), and of
  compiled files that are there from the start that they are no newer than any
  source, and, where they carry no date, as in the bundle, that they were compiled from
  every source without one (`AllShipped`), as Planck's build makes them;
  `FilesBelong`, that their analysis and map come with them
  (`AllShippedWhole`) and that all processes have one setting of `:source-map`
  (`OneSetting`). The constants of `MCCache` satisfy all four.
  The argument: who loads at the same time has found the same source and has the
  same options (`Sourced`, `Like`), so all blocks that are being written are
  equal, whoever empties the file meanwhile (`Sound`); the JavaScript in the cache is
  therefore of one compilation, and if it is newer than the source, of that
  source, since an edit sets the source's time to now; so what was read is right
  or is refused by the check (`ReadsSound`). For `FilesBelong` the history
  variable `author` says who has written the cache since it was emptied: what
  is complete of it is `Full`, what is in progress is its beginning (`Authored`),
  and what was read while it was nobody else's agrees (`Together`).
* `StartupProofs`: `EngineIsHandedOver` (`HandsOver`, for `Hasty = FALSE`) and
  `InterruptsStay` (`InterruptsItsOwn`), for every command line. `HandoverInv`
  says where `main` may be while `init` is at each label, and where it goes from
  a wait; `InterruptInv` that the flag is down only between the typing of Ctrl-C
  and its reset. `PlanIsRun` (`RunsInOrder`) for every command line as well, the
  property itself leaving out the `Unclear` ones, with no bound on Ctrl-C, lines
  or words. While the command line is parsed, `main` stands at an option, never at
  a word, and both readings have the same words left from there (`AtOption`,
  `OptionFollows`: this is where `Unclear` is needed, and its last case was found
  there); so the arguments are those of the usage text (`RestInv`). From then on
  what has run, what is running and what is to come make up the plan (`PlanInv`:
  `ran \o Now \o Later`), and only what ran last may have thrown (`ThrowInv`).
  That `Reading` satisfies its recursive equation is proved by the least index
  from which on it does (`SomeReading`).
  `MeaningIsKept` (`ReadsAsMeant`) for every command line of tokens that is not
  `Unclear`, attached values, unknown options and missing values included: at each option the
  configuration is that of the options before it (`Agrees`: the last value of
  each, and whether one with none was there), and what the usage text reads is
  these options and what it reads from there on (`ReadTo`, over `OptionsUnfold`
  and `StillAgrees`); each way in which `main` ends there is a reason of the text
  (`EndsRefused`), and an option lacks its value only as the last word
  (`LacksAtTheEnd`, which needs `Unclear` for `-o`).
* `FilesProofs`: `ReaderKeepsText` and `ReaderTypes` for `Reader`, and
  `PouringKeepsText` for `Files` (all with `AfterLine = FALSE`): every step of a
  reader is one of `PushbackText`, or none, for all texts, chunks and pushes; the
  invariant says when the buffer may be consumed in part (`AtStart`) or to its
  end (`UsedUp`). `WrittenStays` (`WrittenIsKept`) and `ClosedStaysRefused`
  (`ClosedIsRefused`), with `StaleUse = FALSE`, for any number of streams, paths
  and addresses and buffers of any size: an address is registered exactly for
  the one stream that is open on it (`Owns`, `Apart`, `NoOthers`), a file has
  one writer (`OneWriter`), and what is in the file and in the buffer is what
  was meant (`Kept`). `CopiesStayWhole` (`CopiesAreWhole`), with `OntoItself`,
  `StaleUse` and `AfterLine` all `FALSE`, for buffers of any size: the source
  is still at its path and begins with what it was when it was opened
  (`SourceInv`), the target is another node, and holds with what was read and not
  yet written the source up to where it was read (`TargetInv`); when pouring,
  what was written, what was read, and what is left of the Reader make up the
  text, wherever the Reader has been closed (`PourInv`).
* `SocketsProofs`: `SocketTypes` (type correctness and who holds `eval_lock`),
  with nothing assumed; `SocketsKeepTheirPromise` (`KeepsPromise`, the refinement
  of `Conversation`) for `Plain` constants: `main` evaluates under `eval_lock`,
  and no character takes more than one byte. The part on `Sockets` says what
  happens otherwise. The argument: only who runs JavaScript writes (`WritersRun`), so
  with the lock there is one writer at a time; what a peer sent is, in this
  order, what was heard, what is in the buffer, what is on its way, and what a
  reset took, which is nothing before the reset (`Hears`); and a handler is told
  of the end once, when nothing is on its way (`Tells`).

Left to TLC: liveness (`KeepsPromise` of `Tasks` and `EventLoop`,
`EveryCallEnds`, `ScriptTerminates`, `LinesAreServed`, `SettlesDown`,
`ReadyComes`, `ClosedIsTold`), which is outside the prover's reach under
fairness; and `LineIsShown` for the typists of `MCLineEditor` who are not `Plain`,
with what they do of searching, completion and prints of others. Every other
invariant and action property that a passing run checks is stated by a theorem,
with the hypotheses named here.

## 5. Plan

What is left, in this order.

1. `Cache`: scripts and `load-file`, which are cached under the namespace their
   text begins with; goog and JavaScript libraries; writes that fail.
2. `LineEditor`: prints of other threads in the middle of a key, completion
   wider than the terminal, two Plancks with one history file.
3. Pure algorithms against reference definitions: the growing buffer and the
   headers of `http.c`, the EDN parser of the keymap, prompt indentation, balance
   of pasted text.
4. Copies from an InputStream, and the directory functions.

## 6. Not modelled

Conversions between JavaScript and C values, formatting and colours, the
contents of values, the vendored libraries, and the parts listed as
`not_modelled` in `PROJECT.json` with the reason. `JavaScriptCore` itself is
represented by one fact: it holds its lock while JavaScript runs and drops it
for the time of a native call. The pthread, terminal and socket functions are
modelled from how the code uses them (`external` in the map). Ids of timers
wrap at 2^53, which no run reaches. Of files, the directory functions (one
system call each), copies from an InputStream, encodings, jar, bundled and http
URIs, and `clonefile` are left out. Full disks are not modelled, on which
`write_contents` (`io.c:100`) would not return: `SettlesDown` supposes that
writes end. In `LineEditor` a print of
another thread is one step, though the code lets it fall into the middle of a
key's; what happens after Alt-b at the first column, where the byte before the
buffer is read (`linenoise.c:690`), is modelled for a byte that is not a space;
`completeLine` divides by zero when a completion is wider than the terminal
less 5 (`linenoise.c:409-414`), and the width of the terminal is fixed.

------------------------------ MODULE SocketRepl ------------------------------
(***************************************************************************)
(* Several REPLs on one JavaScript engine (planck-c/repl.c, with execute   *)
(* of planck/repl.cljs): the command line, on the main thread, and one     *)
(* thread for each connection to the socket REPL (conn_handler of          *)
(* sockets.c).  Timers that REPL input has set print at any later moment.  *)
(*                                                                         *)
(* What the REPLs share: repl_print_mutex and eval_lock; the print sender, *)
(* in two parts, cljs_sender of engine.c and *print-fn* of JavaScript;     *)
(* sock_to_write_to; current-ns; and the vars of a session, here *1, which *)
(* execute switches from session to session.                               *)
(*                                                                         *)
(* As in EventLoop, the JavaScript between two native calls is one step.   *)
(*                                                                         *)
(* process_line also returns early when exit_value is not 0 after an       *)
(* evaluation (repl.c:205-208).  While REPLs run only function_exit_with_  *)
(* value sets it to that (functions.c:540), and its next statement is      *)
(* exit(): the process ends, and the early return is not represented.      *)
(***************************************************************************)
EXTENDS Integers, FiniteSets

CONSTANTS
  Cmd,         (* the command-line REPL                                    *)
  Conns,       (* the connections, each served by a thread of its own      *)
  Timers,      (* the threads of timers                                    *)
  NoOne,       (* "no thread"                                              *)
  Namespaces,  (* the namespaces there are                                 *)
  UserNs,      (* cljs.user                                                *)
  Forms,       (* what users type: see FormKinds                           *)
  MaxForms,    (* bound: how many forms are typed in all                   *)
  Overlap      (* TRUE: connections may come in while another is set up    *)

(*   value:      an expression; its value is printed and becomes *1        *)
(*   throws:     an expression that throws                                 *)
(*   timer:      an expression that sets a timer, which prints later       *)
(*   ns:         an ns form, evaluated like an expression                  *)
(*   in_ns:      in-ns, a REPL special, which bypasses the session vars    *)
(*   incomplete: nothing readable yet                                      *)
(*   quit:       an exit command                                           *)
FormKinds == {"value", "throws", "timer", "ns", "in_ns", "incomplete", "quit"}

ASSUME ReplAssumption ==
  /\ Cmd \notin Conns \cup Timers
  /\ NoOne \notin Conns \cup Timers \cup {Cmd}
  /\ Conns \cap Timers = {}
  /\ IsFiniteSet(Conns) /\ IsFiniteSet(Timers)
  /\ UserNs \in Namespaces
  /\ Forms \subseteq FormKinds
  /\ MaxForms \in Nat
  /\ Overlap \in BOOLEAN

VARIABLES
  dumb_terminal,       (* config.dumb_terminal: the command line reads     *)
                       (* with get_input, and not with linenoise           *)
  repl_print_mutex,    (* its holder, or NoOne                             *)
  eval_lock,           (* its holder, or NoOne                             *)
  cljs_sender,         (* "linenoise", "socket", or "null"                 *)
  print_fn,            (* *print-fn*: "sender" (calls cljs_sender) or      *)
                       (* "stdout"                                         *)
  sock_to_write_to,    (* a connection, or NoOne for 0                     *)
  session_id_counter,
  session_id,          (* repl->session_id of each REPL                    *)
  repl_ns,             (* repl->current_ns of each REPL                    *)
  current_ns,          (* planck.repl/current-ns                           *)
  star1,               (* *1                                               *)
  session_states,      (* planck.repl/session-states, by session id        *)
  pc,                  (* where each thread is                             *)
  form,                (* what each REPL is processing                     *)
  typed,               (* how many forms have been typed                   *)
  chosen_ns,           (* history: the namespace each REPL has switched to *)
  last_value           (* history: the last value each REPL has computed   *)

shared == <<cljs_sender, print_fn, sock_to_write_to>>
config == dumb_terminal
session == <<session_id_counter, session_id>>
spaces == <<repl_ns, current_ns, chosen_ns>>
values == <<star1, session_states, last_value>>
input == <<form, typed>>
vars == <<config, repl_print_mutex, eval_lock, shared, session, spaces, values, input, pc>>

Repls == Conns \cup {Cmd}
Threads == Repls \cup Timers
SessionIds == 0..Cardinality(Conns)
NoValue == 0    (* *1 of the default session state; values start at 1 *)

Init == /\ dumb_terminal \in BOOLEAN
        /\ repl_print_mutex = NoOne
        /\ eval_lock = NoOne
        /\ cljs_sender = IF dumb_terminal THEN "null" ELSE "linenoise"
        /\ print_fn = IF dumb_terminal THEN "stdout" ELSE "sender"
        /\ sock_to_write_to = NoOne
        /\ session_id_counter = 0
        /\ session_id = [r \in Repls |-> 0]
        /\ repl_ns = [r \in Repls |-> UserNs]
        /\ current_ns = UserNs
        /\ star1 = NoValue
        /\ session_states = [i \in SessionIds |-> NoValue]
        /\ pc = [t \in Threads |-> IF t = Cmd THEN "top" ELSE IF t \in Conns THEN "away" ELSE "free"]
        /\ form = [r \in Repls |-> "value"]
        /\ typed = 0
        /\ chosen_ns = [r \in Repls |-> UserNs]
        /\ last_value = [r \in Repls |-> NoValue]
-----------------------------------------------------------------------------
Goto(t, label) == pc' = [pc EXCEPT ![t] = label] /\ UNCHANGED config
Step(t, from, to) == pc[t] = from /\ Goto(t, to)

Lock(t) == repl_print_mutex = NoOne /\ repl_print_mutex' = t
Unlock == repl_print_mutex' = NoOne

(* set_print_sender: cljs_sender, and then the JavaScript print functions. *)
SetSender(t, sender, from, to) ==
  /\ Step(t, from, to)
  /\ cljs_sender' = sender
  /\ UNCHANGED <<repl_print_mutex, eval_lock, print_fn, sock_to_write_to, session, spaces, values, input>>

SetPrintFn(t, fn, from, to) ==
  /\ Step(t, from, to)
  /\ print_fn' = fn
  /\ UNCHANGED <<repl_print_mutex, eval_lock, cljs_sender, sock_to_write_to, session, spaces, values, input>>

(* Where printing goes at present: engine_print falls back on stderr when  *)
(* cljs_sender is NULL, and socket_sender drops the text when there is no  *)
(* socket to write to.                                                     *)
Route == IF print_fn = "stdout" \/ cljs_sender = "null" THEN "terminal"
         ELSE IF cljs_sender = "linenoise" THEN "linenoise"
         ELSE sock_to_write_to

Type(r, f) == /\ typed < MaxForms
              /\ typed' = typed + 1
              /\ form' = [form EXCEPT ![r] = f]
-----------------------------------------------------------------------------
(* Mutations: what plausible mistakes would make of actions below.  Spec   *)
(* does not use them; with each in place of the action, a property fails.  *)

(* Serving a connection leaves its print sender in place. *)
ConnKeepsSender(c) ==
  /\ Step(c, "unset_sender", "unset_sock")
  /\ UNCHANGED <<repl_print_mutex, eval_lock, shared, session, spaces, values, input>>

(* The command line does not take repl_print_mutex after editing. *)
LockAfterEditNot ==
  /\ pc[Cmd] \in {"entered", "interrupted", "leaving"}
  /\ Goto(Cmd, CASE dumb_terminal -> "read"
                 [] pc[Cmd] = "entered" -> "reset_to_read"
                 [] pc[Cmd] = "interrupted" -> "reset_to_top"
                 [] OTHER -> "reset_to_leave")
  /\ UNCHANGED <<repl_print_mutex, eval_lock, shared, session, spaces, values, input>>

(* REPL input is evaluated without eval_lock. *)
EvaluateUnlocked(r) ==
  /\ Step(r, "evaluate", "execute")
  /\ UNCHANGED <<repl_print_mutex, eval_lock, shared, session, spaces, values, input>>

(* A form runs with the star1 of whoever ran the last one. *)
SetNoSessionState(r) == UNCHANGED star1

(* The namespace is not taken over by the REPL ... *)
GetNoNs(r) ==
  /\ pc[r] = "get_ns"
  /\ \/ Goto(r, IF r = Cmd THEN "unlock_to_top" ELSE "unset_sender") /\ UNCHANGED input
     \/ Goto(r, "read") /\ \E f \in Forms \ {"quit"} : Type(r, f)
  /\ UNCHANGED <<repl_print_mutex, eval_lock, shared, session, spaces, values>>

(* ... or the form just read stays in the input. *)
GetNsAgain(r) ==
  /\ Step(r, "get_ns", "read")
  /\ repl_ns' = [repl_ns EXCEPT ![r] = current_ns]
  /\ UNCHANGED <<repl_print_mutex, eval_lock, shared, session, current_ns, chosen_ns, values, input>>
-----------------------------------------------------------------------------
(* conn_handler goes on to recv, unless the prompt could not be written.   *)
AfterPrompt == {"recv", "closed"}

(* accepted_socket_repl_connection: ++session_id_counter is a read ... *)
Connect(c) ==
  /\ Step(c, "away", "set_id")
  /\ Overlap \/ \A d \in Conns : pc[d] # "set_id"
  /\ session_id' = [session_id EXCEPT ![c] = session_id_counter + 1]
  /\ UNCHANGED <<repl_print_mutex, eval_lock, shared, session_id_counter, spaces, values, input>>

(* ... and a write, with no lock; then the first prompt is written. *)
SetSessionId(c) ==
  /\ \E after \in AfterPrompt : Step(c, "set_id", after)
  /\ session_id_counter' = session_id[c]
  /\ UNCHANGED <<repl_print_mutex, eval_lock, shared, session_id, spaces, values, input>>

(* recv returns: socket_repl_data_arrived chooses the socket at once ...   *)
DataArrived(c, f) ==
  /\ Step(c, "recv", "lock")
  /\ Type(c, f)
  /\ sock_to_write_to' = c
  /\ UNCHANGED <<repl_print_mutex, eval_lock, cljs_sender, print_fn, session, spaces, values>>

(* ... and only then locks, and sets the sender. *)
LockConn(c) ==
  /\ Step(c, "lock", "set_sender")
  /\ Lock(c)
  /\ UNCHANGED <<eval_lock, shared, session, spaces, values, input>>

ConnSetsSender(c) == \/ SetSender(c, "socket", "set_sender", "set_print_fn")
                     \/ SetPrintFn(c, "sender", "set_print_fn", "read")

ConnUnsetsSender(c) == \/ SetSender(c, "null", "unset_sender", "unset_print_fn")
                       \/ SetPrintFn(c, "stdout", "unset_print_fn", "unset_sock")

UnsetSock(c) ==
  /\ Step(c, "unset_sock", "unlock")
  /\ sock_to_write_to' = NoOne
  /\ UNCHANGED <<repl_print_mutex, eval_lock, cljs_sender, print_fn, session, spaces, values, input>>

(* The prompt is written, or the connection closed after an exit command.  *)
UnlockConn(c) ==
  /\ \E after \in IF form[c] = "quit" THEN {"closed"} ELSE AfterPrompt : Step(c, "unlock", after)
  /\ Unlock
  /\ UNCHANGED <<eval_lock, shared, session, spaces, values, input>>

(* recv returns nothing: the client has gone. *)
Disconnect(c) ==
  /\ Step(c, "recv", "closed")
  /\ UNCHANGED <<repl_print_mutex, eval_lock, shared, session, spaces, values, input>>
-----------------------------------------------------------------------------
(* run_cmdline_loop: lock, set the sender, unlock, and edit a line. *)
LockToEdit ==
  /\ ~dumb_terminal
  /\ Step(Cmd, "top", "set_sender")
  /\ Lock(Cmd)
  /\ UNCHANGED <<eval_lock, shared, session, spaces, values, input>>

CmdSetsSender == \/ SetSender(Cmd, "linenoise", "set_sender", "set_print_fn")
                 \/ SetPrintFn(Cmd, "sender", "set_print_fn", "unlock_to_edit")

UnlockToEdit ==
  /\ Step(Cmd, "unlock_to_edit", "edit")
  /\ Unlock
  /\ UNCHANGED <<eval_lock, shared, session, spaces, values, input>>

(* linenoise returns a line; get_input does for a dumb terminal. *)
EnterLine(f) ==
  /\ Step(Cmd, IF dumb_terminal THEN "top" ELSE "edit", "entered")
  /\ Type(Cmd, f)
  /\ UNCHANGED <<repl_print_mutex, eval_lock, shared, session, spaces, values>>

(* linenoise returns NULL: Ctrl-C, or Ctrl-D, which leaves the loop. *)
Interrupt ==
  /\ Step(Cmd, "edit", "interrupted")
  /\ UNCHANGED <<repl_print_mutex, eval_lock, shared, session, spaces, values, input>>

EndOfInput ==
  /\ Step(Cmd, IF dumb_terminal THEN "top" ELSE "edit", IF dumb_terminal THEN "left" ELSE "leaving")
  /\ UNCHANGED <<repl_print_mutex, eval_lock, shared, session, spaces, values, input>>

(* After linenoise, whatever it returned: lock, and reset the sender. *)
EditResults == {"entered", "interrupted", "leaving"}
Reset(l) == CASE l = "entered" -> "reset_to_read"
              [] l = "interrupted" -> "reset_to_top"
              [] l = "leaving" -> "reset_to_leave"

LockAfterEdit ==
  /\ pc[Cmd] \in EditResults
  /\ Lock(Cmd)
  /\ Goto(Cmd, IF dumb_terminal THEN "read" ELSE Reset(pc[Cmd]))
  /\ UNCHANGED <<eval_lock, shared, session, spaces, values, input>>

CmdUnsetsSender ==
  \/ SetSender(Cmd, "null", "reset_to_read", "reset_fn_to_read")
  \/ SetPrintFn(Cmd, "stdout", "reset_fn_to_read", "read")
  \/ SetSender(Cmd, "null", "reset_to_top", "reset_fn_to_top")
  \/ SetPrintFn(Cmd, "stdout", "reset_fn_to_top", "unlock_to_top")
  \/ SetSender(Cmd, "null", "reset_to_leave", "reset_fn_to_leave")
  \/ SetPrintFn(Cmd, "stdout", "reset_fn_to_leave", "unlock_to_leave")

UnlockCmd ==
  /\ \/ Step(Cmd, "unlock_to_top", "top")
     \/ Step(Cmd, "unlock_to_leave", "left")
  /\ Unlock
  /\ UNCHANGED <<eval_lock, shared, session, spaces, values, input>>

(* main waits for the timers in block_until_tasks_complete, and returns. *)
MainReturns ==
  /\ \A t \in Timers : pc[t] = "free"
  /\ Step(Cmd, "left", "exited")
  /\ UNCHANGED <<repl_print_mutex, eval_lock, shared, session, spaces, values, input>>
-----------------------------------------------------------------------------
(* Where process_line returns to. *)
Return(r) == IF r = Cmd THEN "unlock_to_top" ELSE "unset_sender"

(* process_line: exit commands, input that is not readable, or evaluation. *)
ProcessLine(r) ==
  /\ pc[r] = "read"
  /\ Goto(r, CASE form[r] = "quit" -> IF r = Cmd THEN "exited" ELSE Return(r)
               [] form[r] = "incomplete" -> Return(r)
               [] OTHER -> "evaluate")
  /\ UNCHANGED <<repl_print_mutex, eval_lock, shared, session, spaces, values, input>>

EvaluateSource(r) ==
  /\ Step(r, "evaluate", "execute")
  /\ eval_lock = NoOne
  /\ eval_lock' = r
  /\ UNCHANGED <<repl_print_mutex, shared, session, spaces, values, input>>

(* execute puts current-ns back to the namespace of the REPL. *)
ResetNs(r) == current_ns' = repl_ns[r]

(* set-session-state-for-session-id, capture-session-state-for-session-id. *)
SetSessionState(r) == star1' = session_states[session_id[r]]
CaptureSessionState(r) == session_states' = [session_states EXCEPT ![session_id[r]] = star1']

(* A namespace, new or not, is switched to: by in-ns or by an ns form. *)
SwitchNs(r) == /\ current_ns' \in Namespaces
               /\ chosen_ns' = [chosen_ns EXCEPT ![r] = current_ns']

(* execute: process-in-ns, or the start of process-execute-source. *)
Execute(r) ==
  /\ Step(r, "execute", IF form[r] = "in_ns" THEN "print" ELSE "run")
  /\ \/ form[r] # "in_ns" /\ ResetNs(r) /\ SetSessionState(r) /\ UNCHANGED chosen_ns
     \/ form[r] = "in_ns" /\ SwitchNs(r) /\ UNCHANGED star1
  /\ UNCHANGED <<repl_print_mutex, eval_lock, shared, session, repl_ns, session_states, last_value, input>>

(* The form runs; it may read *1, set a timer (bound: if a thread is free  *)
(* to model it) and make native calls.                                     *)
SetsTimer(r) == form[r] = "timer" /\ \E t \in Timers : pc[t] = "free"

RunForm(r) ==
  /\ pc[r] = "run"
  /\ \/ /\ SetsTimer(r)
        /\ \E t \in Timers : /\ pc[t] = "free"
                             /\ pc' = [pc EXCEPT ![r] = "print", ![t] = "sleep"]
                             /\ UNCHANGED config
     \/ ~SetsTimer(r) /\ Goto(r, "print")
  /\ UNCHANGED <<repl_print_mutex, eval_lock, shared, session, spaces, values, input>>

(* print-value or print-error: the native call that takes Route. *)
PrintResult(r) ==
  /\ Step(r, "print", "finish")
  /\ UNCHANGED <<repl_print_mutex, eval_lock, shared, session, spaces, values, input>>

(* process-1-2-3, the namespace, and the capture of the session vars. *)
Computes(f) == f \in {"value", "timer"}

Finish(r) ==
  /\ Step(r, "finish", "release")
  /\ star1' = IF Computes(form[r]) THEN typed ELSE star1
  /\ last_value' = IF Computes(form[r]) THEN [last_value EXCEPT ![r] = typed] ELSE last_value
  /\ IF form[r] = "in_ns" THEN UNCHANGED session_states ELSE CaptureSessionState(r)
  /\ IF form[r] = "ns" THEN SwitchNs(r) ELSE UNCHANGED <<current_ns, chosen_ns>>
  /\ UNCHANGED <<repl_print_mutex, eval_lock, shared, session, repl_ns, input>>

ReleaseEvalLock(r) ==
  /\ Step(r, "release", "get_ns")
  /\ eval_lock' = NoOne
  /\ UNCHANGED <<repl_print_mutex, shared, session, spaces, values, input>>

(* get_current_ns, without eval_lock; then the rest of the line, if any. *)
GetCurrentNs(r) ==
  /\ pc[r] = "get_ns"
  /\ repl_ns' = [repl_ns EXCEPT ![r] = current_ns]
  /\ \/ Goto(r, Return(r)) /\ UNCHANGED input
     \/ Goto(r, "read") /\ \E f \in Forms \ {"quit"} : Type(r, f)
  /\ UNCHANGED <<repl_print_mutex, eval_lock, shared, session, current_ns, chosen_ns, values>>

ReplStep(r) == \/ ProcessLine(r) \/ EvaluateSource(r) \/ Execute(r) \/ RunForm(r)
               \/ PrintResult(r) \/ Finish(r) \/ ReleaseEvalLock(r) \/ GetCurrentNs(r)
-----------------------------------------------------------------------------
(* do_run_timeout: the callback prints, under eval_lock. *)
Wake(t) ==
  /\ Step(t, "sleep", "print")
  /\ eval_lock = NoOne
  /\ eval_lock' = t
  /\ UNCHANGED <<repl_print_mutex, shared, session, spaces, values, input>>

TimerPrints(t) ==
  /\ Step(t, "print", "free")
  /\ eval_lock' = NoOne
  /\ UNCHANGED <<repl_print_mutex, shared, session, spaces, values, input>>

ConnStep(c) == \/ SetSessionId(c) \/ LockConn(c) \/ ConnSetsSender(c) \/ ReplStep(c)
               \/ ConnUnsetsSender(c) \/ UnsetSock(c) \/ UnlockConn(c)

CmdStep == \/ LockToEdit \/ CmdSetsSender \/ UnlockToEdit \/ LockAfterEdit
           \/ CmdUnsetsSender \/ ReplStep(Cmd) \/ UnlockCmd \/ MainReturns

TimerStep(t) == Wake(t) \/ TimerPrints(t)

(* What the users do. *)
UserStep == \/ \E c \in Conns : \/ Connect(c) \/ Disconnect(c)
                                \/ \E f \in Forms : DataArrived(c, f)
            \/ \E f \in Forms : EnterLine(f)
            \/ Interrupt \/ EndOfInput

Alive == pc[Cmd] # "exited"
Ended == ~Alive /\ UNCHANGED vars

Next == \/ Alive /\ \/ UserStep
                    \/ CmdStep
                    \/ \E c \in Conns : ConnStep(c)
                    \/ \E t \in Timers : TimerStep(t)
        \/ Ended

Spec == Init /\ [][Next]_vars

(* No thread is suspended for ever, and evaluations end. *)
FairSpec == /\ Spec
            /\ WF_vars(Alive /\ CmdStep)
            /\ \A c \in Conns : WF_vars(Alive /\ ConnStep(c))
            /\ \A t \in Timers : WF_vars(Alive /\ TimerStep(t))
-----------------------------------------------------------------------------
ReplLabels == {"read", "evaluate", "execute", "run", "print", "finish", "release", "get_ns"}
ConnLabels == {"away", "set_id", "recv", "lock", "set_sender", "set_print_fn", "unset_sender",
               "unset_print_fn", "unset_sock", "unlock", "closed"} \cup ReplLabels
CmdLabels == {"top", "set_sender", "set_print_fn", "unlock_to_edit", "edit", "entered", "interrupted",
              "leaving", "reset_to_read", "reset_fn_to_read", "reset_to_top", "reset_fn_to_top",
              "reset_to_leave", "reset_fn_to_leave", "unlock_to_top", "unlock_to_leave", "left",
              "exited"} \cup ReplLabels
TimerLabels == {"free", "sleep", "print"}

TypeOK ==
  /\ dumb_terminal \in BOOLEAN
  /\ repl_print_mutex \in Repls \cup {NoOne}
  /\ eval_lock \in Threads \cup {NoOne}
  /\ cljs_sender \in {"linenoise", "socket", "null"}
  /\ print_fn \in {"sender", "stdout"}
  /\ sock_to_write_to \in Conns \cup {NoOne}
  /\ session_id_counter \in SessionIds
  /\ session_id \in [Repls -> SessionIds]
  /\ repl_ns \in [Repls -> Namespaces]
  /\ current_ns \in Namespaces
  /\ star1 \in Nat
  /\ session_states \in [SessionIds -> Nat]
  /\ pc \in [Threads -> ConnLabels \cup CmdLabels \cup TimerLabels]
  /\ pc[Cmd] \in CmdLabels
  /\ \A c \in Conns : pc[c] \in ConnLabels
  /\ \A t \in Timers : pc[t] \in TimerLabels
  /\ form \in [Repls -> FormKinds]
  /\ typed \in Nat
  /\ chosen_ns \in [Repls -> Namespaces]
  /\ last_value \in [Repls -> Nat]

(* Namespaces do not leak from one REPL to another: while a REPL runs a    *)
(* form, planck.repl/current-ns is the namespace that this REPL has        *)
(* switched to, and between lines its repl->current_ns (its prompt) is,    *)
(* whatever the other REPLs do.  get_current_ns runs without eval_lock:    *)
(* only repl_print_mutex keeps another REPL from switching in between.     *)
NamespacesAreKept ==
  \A r \in Repls : /\ pc[r] \in {"run", "print", "finish", "release", "get_ns"} =>
                        current_ns = chosen_ns[r]
                   /\ pc[r] \notin {"print", "finish", "release", "get_ns"} =>
                        repl_ns[r] = chosen_ns[r]

(* "Each connection will have dedicated copies of certain session-centric  *)
(* vars, like `*1`" (doc/socket-repl.md:35): when a form runs, *1 is the   *)
(* last value that its own REPL has computed.                              *)
SessionsAreDedicated == \A r \in Repls : pc[r] = "run" => star1 = last_value[r]

(* "Properly route Socket REPL printing when under load."                  *)
(* (CHANGELOG.md:548): what the evaluation of a form prints goes to the    *)
(* connection, or the terminal, that the form came from ...                *)
Home(r) == IF r = Cmd THEN "terminal" ELSE r
OutputGoesHome == \A r \in Repls : pc[r] = "print" => Route = Home(r)

(* ... which is so if no two connections have been made, whatever the      *)
(* command line and the timers do in between.                              *)
Connected == {c \in Conns : pc[c] # "away"}
OneConnectionIsRouted == Cardinality(Connected) <= 1 => OutputGoesHome

(* The command line completes symbols while it edits, and reads what was   *)
(* entered, in the namespace of its prompt.  Both use current-ns as it is, *)
(* so this is so as long as there is no connection to switch it: with one, *)
(* that a socket REPL works "without interfering with your primary REPL    *)
(* session" (doc/socket-repl.md:39) does not hold to this extent.          *)
PrimaryReadsInItsNamespace ==
  Connected = {} /\ pc[Cmd] \in {"edit", "read"} => current_ns = repl_ns[Cmd]

(* The sender, the socket and the JavaScript of REPL input are only        *)
(* touched by the holder of repl_print_mutex, and two evaluations are      *)
(* never under way at the same time.                                       *)
HoldsMutex(r) == \/ r \in Conns /\ pc[r] \in (ConnLabels \ {"away", "set_id", "recv", "lock", "closed"})
                 \/ r = Cmd /\ pc[r] \in (CmdLabels \ ({"top", "edit", "left", "exited"} \cup EditResults))
Evaluating(t) == pc[t] \in IF t \in Timers THEN {"print"}
                                           ELSE {"execute", "run", "print", "finish", "release"}
OneReplAtATime == /\ \A r \in Repls : HoldsMutex(r) => repl_print_mutex = r
                  /\ \A t \in Threads : Evaluating(t) => eval_lock = t

(* A connection whose line has arrived is served, unless others keep       *)
(* taking the mutex: repl_print_mutex and eval_lock lead to no deadlock,   *)
(* and every way through the evaluation gives both back.                   *)
UsersRest == <>[][~UserStep]_vars
LinesAreServed ==
  UsersRest => \A c \in Conns : []<>(pc[c] \in {"away", "recv", "closed"} \/ ~Alive)
=============================================================================

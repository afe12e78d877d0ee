------------------------------ MODULE ReplProofs ------------------------------
(***************************************************************************)
(* Proofs about the two halves of the REPL.                                *)
(* SocketRepl: the types, the exclusion that repl_print_mutex and          *)
(* eval_lock provide, and that namespaces and session vars stay with their *)
(* REPL, for any number of connections, timers, namespaces and forms; that *)
(* output goes home, for one connection; and in which namespace the        *)
(* command line is read while there is none.                               *)
(* LineEditor, from Recursive functions on: the types, that a search shows *)
(* what it found, that the history file holds the lines that were entered, *)
(* and that the terminal shows the line; for lines, histories and          *)
(* terminals of any size. Neither half uses anything of the other.         *)
(***************************************************************************)
EXTENDS SocketRepl, LineEditor, SequenceTheorems, FiniteSetTheorems, WellFoundedInduction,
        TLAPS

-----------------------------------------------------------------------------
(* One element more, counted with Cardinality, as session_id_counter       *)
(* counts.                                                                 *)
LEMMA CardinalityPlus ==
  ASSUME NEW S, NEW T, NEW x, IsFiniteSet(S), x \notin S, T = S \cup {x}
  PROVE  Cardinality(T) = Cardinality(S) + 1
BY FS_AddElement
-----------------------------------------------------------------------------
(* Session ids are counts of connections: as many have been handed out, or *)
(* are about to be, as there were connections.                             *)
IdsBounded == /\ session_id_counter <= Cardinality(Connected)
              /\ \A r \in Repls : session_id[r] <= Cardinality(Connected)

LEMMA ConnectedFinite == /\ IsFiniteSet(Connected) /\ Cardinality(Connected) \in Nat
                         /\ Cardinality(Conns) \in Nat
                         /\ Cardinality(Connected) <= Cardinality(Conns)
<1>1. Connected \subseteq Conns
  BY DEF Connected
<1> QED BY <1>1, ReplAssumption, FS_Subset, FS_CardinalityType

(* Nobody but Connect makes a connection of what was none. *)
LEMMA ConnectedSteady ==
  ASSUME TypeOK, Next, \A c \in Conns : ~Connect(c) PROVE Connected' = Connected
<1> USE ReplAssumption DEF TypeOK, Connected, Step, Goto, Repls, Threads
<1>1. ASSUME NEW r \in Repls, ReplStep(r) PROVE Connected' = Connected
  <2>1. CASE RunForm(r)
    BY <2>1 DEF RunForm, SetsTimer
  <2>2. CASE ~RunForm(r)
    BY <1>1, <2>2 DEF ReplStep, ProcessLine, EvaluateSource, Execute, PrintResult, Finish,
                      ReleaseEvalLock, GetCurrentNs, Return
  <2> QED BY <2>1, <2>2
<1>2. ASSUME NEW c \in Conns, ConnStep(c), ~ReplStep(c) PROVE Connected' = Connected
  BY <1>2 DEF ConnStep, SetSessionId, LockConn, ConnSetsSender, ConnUnsetsSender, SetSender,
              SetPrintFn, UnsetSock, UnlockConn, AfterPrompt
<1>3. ASSUME CmdStep, ~ReplStep(Cmd) PROVE Connected' = Connected
  BY <1>3 DEF CmdStep, LockToEdit, CmdSetsSender, UnlockToEdit, LockAfterEdit, CmdUnsetsSender,
              SetSender, SetPrintFn, UnlockCmd, MainReturns
<1>4. ASSUME NEW t \in Timers, TimerStep(t) PROVE Connected' = Connected
  BY <1>4 DEF TimerStep, Wake, TimerPrints
<1>5. ASSUME UserStep PROVE Connected' = Connected
  BY <1>5 DEF UserStep, Disconnect, DataArrived, EnterLine, Interrupt, EndOfInput
<1>6. CASE Ended
  BY <1>6 DEF Ended, vars
<1> QED BY <1>1, <1>2, <1>3, <1>4, <1>5, <1>6 DEF Next

(* The ids are only changed when a connection is accepted. *)
LEMMA SessionSteady ==
  ASSUME Next, \A c \in Conns : ~Connect(c) /\ ~SetSessionId(c) PROVE UNCHANGED session
<1>1. ASSUME NEW r \in Repls, ReplStep(r) PROVE UNCHANGED session
  BY <1>1 DEF ReplStep, ProcessLine, EvaluateSource, Execute, RunForm, PrintResult, Finish,
              ReleaseEvalLock, GetCurrentNs
<1>2. ASSUME NEW c \in Conns, ConnStep(c) PROVE UNCHANGED session
  BY <1>1, <1>2 DEF ConnStep, LockConn, ConnSetsSender, ConnUnsetsSender, SetSender,
                    SetPrintFn, UnsetSock, UnlockConn, AfterPrompt, Repls
<1>3. ASSUME CmdStep PROVE UNCHANGED session
  BY <1>1, <1>3 DEF CmdStep, LockToEdit, CmdSetsSender, UnlockToEdit, LockAfterEdit,
                    CmdUnsetsSender, SetSender, SetPrintFn, UnlockCmd, MainReturns, Repls
<1>4. ASSUME NEW t \in Timers, TimerStep(t) PROVE UNCHANGED session
  BY <1>4 DEF TimerStep, Wake, TimerPrints
<1>5. ASSUME UserStep PROVE UNCHANGED session
  BY <1>5 DEF UserStep, Disconnect, DataArrived, EnterLine, Interrupt, EndOfInput
<1>6. CASE Ended
  BY <1>6 DEF Ended, vars
<1> QED BY <1>2, <1>3, <1>4, <1>5, <1>6 DEF Next

LEMMA IdsStep == ASSUME TypeOK, IdsBounded, [Next]_vars PROVE IdsBounded'
<1> DEFINE n == Cardinality(Connected)
<1> USE ReplAssumption DEF TypeOK, SessionIds
<1>0. n \in Nat
  BY ConnectedFinite
<1>1. ASSUME NEW c \in Conns, Connect(c) PROVE IdsBounded'
  <2>1. Connected' = Connected \cup {c} /\ c \notin Connected
    BY <1>1 DEF Connect, Step, Goto, Connected, Threads, Repls
  <2>2. Cardinality(Connected') = n + 1
    BY <2>1, ConnectedFinite, CardinalityPlus
  <2>3. /\ session_id_counter' = session_id_counter
        /\ session_id' = [session_id EXCEPT ![c] = session_id_counter + 1]
    BY <1>1 DEF Connect
  <2> HIDE DEF n
  <2> QED BY <1>0, <2>2, <2>3 DEF IdsBounded, n
<1>2. ASSUME NEW c \in Conns, SetSessionId(c) PROVE IdsBounded'
  <2>1. Connected' = Connected
    BY <1>2 DEF SetSessionId, AfterPrompt, Step, Goto, Connected, Threads, Repls
  <2>2. session_id_counter' = session_id[c] /\ UNCHANGED session_id
    BY <1>2 DEF SetSessionId, AfterPrompt
  <2> QED BY <2>1, <2>2 DEF IdsBounded, Repls
<1>3. CASE Next /\ \A c \in Conns : ~Connect(c) /\ ~SetSessionId(c)
  <2>1. Connected' = Connected /\ UNCHANGED session
    BY <1>3, ConnectedSteady, SessionSteady
  <2> QED BY <2>1 DEF IdsBounded, session
<1>4. CASE UNCHANGED vars
  BY <1>4 DEF vars, session, IdsBounded, Connected
<1> QED BY <1>1, <1>2, <1>3, <1>4
-----------------------------------------------------------------------------
(* The state is well typed: each thread is at a place of its own kind, and *)
(* a session id never exceeds the number of connections, so that session   *)
(* vars are always found (set-session-state-for-session-id).               *)
THEOREM ReplTypes == Spec => []TypeOK
<1> USE ReplAssumption DEF Repls, Threads, NoValue
<1>1. Init => TypeOK /\ IdsBounded
  <2> SUFFICES ASSUME Init PROVE TypeOK /\ IdsBounded
    OBVIOUS
  <2>1. IdsBounded
    BY ConnectedFinite DEF Init, IdsBounded
  <2>2. /\ session_id_counter \in SessionIds /\ session_id \in [Repls -> SessionIds]
        /\ session_states \in [SessionIds -> Nat]
    BY ConnectedFinite DEF Init, SessionIds
  <2>3. /\ pc \in [Threads -> ConnLabels \cup CmdLabels \cup TimerLabels]
        /\ pc[Cmd] \in CmdLabels
        /\ \A c \in Conns : pc[c] \in ConnLabels
        /\ \A t \in Timers : pc[t] \in TimerLabels
    BY DEF Init, ConnLabels, CmdLabels, TimerLabels
  <2>4. /\ dumb_terminal \in BOOLEAN
        /\ cljs_sender \in {"linenoise", "socket", "null"}
        /\ print_fn \in {"sender", "stdout"}
    BY DEF Init
  <2> QED BY <2>1, <2>2, <2>3, <2>4 DEF Init, TypeOK, FormKinds
<1>2. TypeOK /\ IdsBounded /\ [Next]_vars => TypeOK' /\ IdsBounded'
  <2> SUFFICES ASSUME TypeOK, IdsBounded, [Next]_vars PROVE TypeOK'
    BY IdsStep
  <2> USE DEF TypeOK, Step, Goto, ConnLabels, CmdLabels, TimerLabels, ReplLabels,
              config, shared, session, spaces, values, input
  <2>1. ASSUME NEW r \in Repls, ReplStep(r) PROVE TypeOK'
    <3>1. CASE ProcessLine(r)
      <4>1. \E q \in {"exited", "unlock_to_top", "unset_sender", "evaluate"} :
              /\ pc' = [pc EXCEPT ![r] = q]
              /\ q \in {"exited", "unlock_to_top"} => r = Cmd
              /\ q = "unset_sender" => r # Cmd
        BY <3>1, Zenon DEF ProcessLine, Return
      <4> QED BY <3>1, <4>1 DEF ProcessLine
    <3>2. CASE EvaluateSource(r)
      BY <3>2 DEF EvaluateSource
    <3>3. CASE Execute(r)
      BY <3>3 DEF Execute, ResetNs, SetSessionState, SwitchNs
    <3>4. CASE RunForm(r)
      BY <3>4 DEF RunForm
    <3>5. CASE PrintResult(r) \/ ReleaseEvalLock(r)
      BY <3>5 DEF PrintResult, ReleaseEvalLock
    <3>6. CASE Finish(r)
      BY <3>6 DEF Finish, CaptureSessionState, SwitchNs
    <3>7. CASE GetCurrentNs(r)
      BY <3>7 DEF GetCurrentNs, Return, Type
    <3> QED BY <2>1, <3>1, <3>2, <3>3, <3>4, <3>5, <3>6, <3>7 DEF ReplStep
  <2>2. ASSUME NEW c \in Conns, ConnStep(c) PROVE TypeOK'
    <3>1. CASE SetSessionId(c)
      BY <3>1 DEF SetSessionId, AfterPrompt
    <3>2. CASE LockConn(c) \/ UnlockConn(c)
      BY <3>2 DEF LockConn, UnlockConn, AfterPrompt, Lock, Unlock
    <3>3. CASE ConnSetsSender(c) \/ ConnUnsetsSender(c) \/ UnsetSock(c)
      BY <3>3 DEF ConnSetsSender, ConnUnsetsSender, SetSender, SetPrintFn, UnsetSock
    <3> QED BY <2>1, <2>2, <3>1, <3>2, <3>3 DEF ConnStep
  <2>3. ASSUME CmdStep PROVE TypeOK'
    <3>1. CASE LockToEdit \/ UnlockToEdit
      BY <3>1 DEF LockToEdit, UnlockToEdit, Lock, Unlock
    <3>2. CASE CmdSetsSender \/ CmdUnsetsSender
      BY <3>2 DEF CmdSetsSender, CmdUnsetsSender, SetSender, SetPrintFn
    <3>3. CASE LockAfterEdit
      <4>1. \E q \in {"read", "reset_to_read", "reset_to_top", "reset_to_leave"} :
              pc' = [pc EXCEPT ![Cmd] = q]
        BY <3>3, Zenon DEF LockAfterEdit, EditResults, Reset
      <4> QED BY <3>3, <4>1 DEF LockAfterEdit, Lock
    <3>4. CASE UnlockCmd \/ MainReturns
      BY <3>4 DEF UnlockCmd, MainReturns, Unlock
    <3> QED BY <2>1, <2>3, <3>1, <3>2, <3>3, <3>4 DEF CmdStep
  <2>4. ASSUME NEW t \in Timers, TimerStep(t) PROVE TypeOK'
    BY <2>4 DEF TimerStep, Wake, TimerPrints
  <2>5. ASSUME UserStep PROVE TypeOK'
    <3>1. ASSUME NEW c \in Conns, Connect(c) PROVE TypeOK'
      <4>1. Connected' = Connected \cup {c} /\ c \notin Connected
        BY <3>1 DEF Connect, Connected
      <4>2. Cardinality(Connected') = Cardinality(Connected) + 1
        BY <4>1, ConnectedFinite, CardinalityPlus
      <4>3. Cardinality(Connected') <= Cardinality(Conns)
        <5>1. Connected' \subseteq Conns
          BY DEF Connected
        <5> QED BY <5>1, FS_Subset
      <4>4. session_id_counter + 1 \in SessionIds
        BY <4>2, <4>3, ConnectedFinite DEF IdsBounded, SessionIds
      <4> QED BY <3>1, <4>4 DEF Connect
    <3>2. ASSUME NEW c \in Conns, NEW f \in Forms, DataArrived(c, f) PROVE TypeOK'
      BY <3>2 DEF DataArrived, Type
    <3>3. ASSUME NEW c \in Conns, Disconnect(c) PROVE TypeOK'
      BY <3>3 DEF Disconnect
    <3>4. ASSUME NEW f \in Forms, EnterLine(f) PROVE TypeOK'
      BY <3>4 DEF EnterLine, Type
    <3>5. CASE Interrupt \/ EndOfInput
      BY <3>5 DEF Interrupt, EndOfInput
    <3> QED BY <2>5, <3>1, <3>2, <3>3, <3>4, <3>5 DEF UserStep
  <2>6. CASE UNCHANGED vars
    BY <2>6 DEF vars, config, shared, session, spaces, values, input
  <2> QED BY <2>1, <2>2, <2>3, <2>4, <2>5, <2>6 DEF Next, Ended
<1> QED BY <1>1, <1>2, PTL DEF Spec
-----------------------------------------------------------------------------
(* repl_print_mutex and eval_lock exclude, whatever is typed, connected or *)
(* cut off: the print sender, the socket and the namespace of REPL input   *)
(* belong to one REPL at a time, and so does the JavaScript of an          *)
(* evaluation, which timers' callbacks share.                              *)
THEOREM ReplsTakeTurns == Spec => []OneReplAtATime
<1> USE ReplAssumption DEF Repls, Threads
<1>1. Init => OneReplAtATime
  BY DEF Init, OneReplAtATime, HoldsMutex, Evaluating, ConnLabels, CmdLabels, EditResults, ReplLabels
<1>2. TypeOK /\ OneReplAtATime /\ [Next]_vars => OneReplAtATime'
  <2> SUFFICES ASSUME TypeOK, OneReplAtATime, [Next]_vars PROVE OneReplAtATime'
    OBVIOUS
  <2> USE DEF TypeOK, Step, Goto, ConnLabels, CmdLabels, TimerLabels, ReplLabels, EditResults,
              OneReplAtATime, HoldsMutex, Evaluating
  <2>1. ASSUME NEW r \in Repls, ReplStep(r) PROVE OneReplAtATime'
    <3>1. CASE ProcessLine(r)
      <4>1. \E q \in {"exited", "unlock_to_top", "unset_sender", "evaluate"} :
              /\ pc' = [pc EXCEPT ![r] = q]
              /\ q \in {"exited", "unlock_to_top"} => r = Cmd
              /\ q = "unset_sender" => r # Cmd
        BY <3>1, Zenon DEF ProcessLine, Return
      <4>2. pc[r] = "read" /\ UNCHANGED <<repl_print_mutex, eval_lock>>
        BY <3>1 DEF ProcessLine
      <4> QED BY <4>1, <4>2
    <3>2. CASE EvaluateSource(r)
      BY <3>2 DEF EvaluateSource
    <3>3. CASE Execute(r)
      BY <3>3 DEF Execute
    <3>4. CASE RunForm(r)
      BY <3>4 DEF RunForm
    <3>5. CASE PrintResult(r) \/ ReleaseEvalLock(r)
      BY <3>5 DEF PrintResult, ReleaseEvalLock
    <3>6. CASE Finish(r)
      BY <3>6 DEF Finish
    <3>7. CASE GetCurrentNs(r)
      BY <3>7 DEF GetCurrentNs, Return
    <3> QED BY <2>1, <3>1, <3>2, <3>3, <3>4, <3>5, <3>6, <3>7 DEF ReplStep
  <2>2. ASSUME NEW c \in Conns, ConnStep(c) PROVE OneReplAtATime'
    <3>1. CASE SetSessionId(c)
      BY <3>1 DEF SetSessionId, AfterPrompt
    <3>2. CASE LockConn(c)
      BY <3>2 DEF LockConn, Lock
    <3>3. CASE UnlockConn(c)
      BY <3>3 DEF UnlockConn, AfterPrompt, Unlock
    <3>4. CASE ConnSetsSender(c) \/ ConnUnsetsSender(c) \/ UnsetSock(c)
      BY <3>4 DEF ConnSetsSender, ConnUnsetsSender, SetSender, SetPrintFn, UnsetSock
    <3> QED BY <2>1, <2>2, <3>1, <3>2, <3>3, <3>4 DEF ConnStep
  <2>3. ASSUME CmdStep PROVE OneReplAtATime'
    <3>1. CASE LockToEdit
      BY <3>1 DEF LockToEdit, Lock
    <3>2. CASE UnlockToEdit
      BY <3>2 DEF UnlockToEdit, Unlock
    <3>3. CASE CmdSetsSender \/ CmdUnsetsSender
      BY <3>3 DEF CmdSetsSender, CmdUnsetsSender, SetSender, SetPrintFn
    <3>4. CASE LockAfterEdit
      <4>1. \E q \in {"read", "reset_to_read", "reset_to_top", "reset_to_leave"} :
              pc' = [pc EXCEPT ![Cmd] = q]
        BY <3>4, Zenon DEF LockAfterEdit, EditResults, Reset
      <4> QED BY <3>4, <4>1 DEF LockAfterEdit, Lock
    <3>5. CASE UnlockCmd
      BY <3>5 DEF UnlockCmd, Unlock
    <3>6. CASE MainReturns
      BY <3>6 DEF MainReturns
    <3> QED BY <2>1, <2>3, <3>1, <3>2, <3>3, <3>4, <3>5, <3>6 DEF CmdStep
  <2>4. ASSUME NEW t \in Timers, TimerStep(t) PROVE OneReplAtATime'
    BY <2>4 DEF TimerStep, Wake, TimerPrints
  <2>5. CASE UserStep
    BY <2>5 DEF UserStep, Connect, DataArrived, Disconnect, EnterLine, Interrupt, EndOfInput
  <2>6. CASE UNCHANGED vars
    BY <2>6 DEF vars
  <2> QED BY <2>1, <2>2, <2>3, <2>4, <2>5, <2>6 DEF Next, Ended
<1> QED BY <1>1, <1>2, ReplTypes, PTL DEF Spec
-----------------------------------------------------------------------------
(* REPL threads other than the one that takes a step keep their place, and *)
(* with it their locks: what moves is r, or a timer.                       *)
LEMMA OthersWait ==
  ASSUME TypeOK, OneReplAtATime, NEW r \in Repls, NEW s \in Repls, s # r, HoldsMutex(r)
  PROVE  /\ ~HoldsMutex(s)
         /\ pc[s] \notin {"execute", "run", "print", "finish", "release", "get_ns"}
BY ReplAssumption DEF TypeOK, OneReplAtATime, HoldsMutex, Repls, Threads, ConnLabels, CmdLabels,
                      ReplLabels, EditResults

(* The namespace a REPL has switched to is the one its forms run in and    *)
(* its prompt shows, though current-ns is shared and read without          *)
(* eval_lock: repl_print_mutex, which is held from before the line is read *)
(* until after get_current_ns, is what keeps other REPLs away.             *)
THEOREM NamespacesStay == Spec => []NamespacesAreKept
<1> USE ReplAssumption DEF Repls, Threads
<1>1. Init => NamespacesAreKept
  BY DEF Init, NamespacesAreKept
<1>2. TypeOK /\ OneReplAtATime /\ NamespacesAreKept /\ [Next]_vars => NamespacesAreKept'
  <2> SUFFICES ASSUME TypeOK, OneReplAtATime, NamespacesAreKept, [Next]_vars
               PROVE  NamespacesAreKept'
    OBVIOUS
  <2> USE DEF TypeOK, Step, Goto, NamespacesAreKept
  <2>1. ASSUME NEW r \in Repls, ReplStep(r) PROVE NamespacesAreKept'
    <3>1. CASE ProcessLine(r)
      <4>1. \E q \in {"exited", "unlock_to_top", "unset_sender", "evaluate"} :
              pc' = [pc EXCEPT ![r] = q]
        BY <3>1, Zenon DEF ProcessLine, Return
      <4>2. pc[r] = "read" /\ UNCHANGED spaces
        BY <3>1 DEF ProcessLine
      <4> QED BY <4>1, <4>2 DEF spaces
    <3>2. CASE EvaluateSource(r)
      BY <3>2 DEF EvaluateSource, spaces
    <3>3. CASE Execute(r)
      <4>1. \A s \in Repls \ {r} : pc[s] \notin {"run", "print", "finish", "release", "get_ns"}
        BY <3>3, OthersWait DEF Execute, HoldsMutex, ConnLabels, CmdLabels, ReplLabels, EditResults
      <4> QED BY <3>3, <4>1 DEF Execute, ResetNs, SwitchNs
    <3>4. CASE RunForm(r)
      BY <3>4 DEF RunForm, spaces
    <3>5. CASE PrintResult(r) \/ ReleaseEvalLock(r)
      BY <3>5 DEF PrintResult, ReleaseEvalLock, spaces
    <3>6. CASE Finish(r)
      <4>1. \A s \in Repls \ {r} : pc[s] \notin {"run", "print", "finish", "release", "get_ns"}
        BY <3>6, OthersWait DEF Finish, HoldsMutex, ConnLabels, CmdLabels, ReplLabels, EditResults
      <4> QED BY <3>6, <4>1 DEF Finish, SwitchNs
    <3>7. CASE GetCurrentNs(r)
      BY <3>7 DEF GetCurrentNs, Return
    <3> QED BY <2>1, <3>1, <3>2, <3>3, <3>4, <3>5, <3>6, <3>7 DEF ReplStep
  <2>2. ASSUME NEW c \in Conns, ConnStep(c) PROVE NamespacesAreKept'
    BY <2>1, <2>2 DEF ConnStep, SetSessionId, LockConn, UnlockConn, AfterPrompt, ConnSetsSender,
                      ConnUnsetsSender, SetSender, SetPrintFn, UnsetSock, spaces
  <2>3. ASSUME CmdStep PROVE NamespacesAreKept'
    <3>1. CASE LockAfterEdit
      <4>1. \E q \in {"read", "reset_to_read", "reset_to_top", "reset_to_leave"} :
              pc' = [pc EXCEPT ![Cmd] = q]
        BY <3>1, Zenon DEF LockAfterEdit, EditResults, Reset
      <4> QED BY <3>1, <4>1 DEF LockAfterEdit, EditResults, spaces
    <3>2. CASE ~LockAfterEdit
      BY <2>1, <2>3, <3>2 DEF CmdStep, LockToEdit, UnlockToEdit, CmdSetsSender, CmdUnsetsSender,
                              SetSender, SetPrintFn, UnlockCmd, MainReturns, spaces
    <3> QED BY <3>1, <3>2
  <2>4. ASSUME NEW t \in Timers, TimerStep(t) PROVE NamespacesAreKept'
    BY <2>4 DEF TimerStep, Wake, TimerPrints, spaces
  <2>5. CASE UserStep
    BY <2>5 DEF UserStep, Connect, DataArrived, Disconnect, EnterLine, Interrupt, EndOfInput, spaces
  <2>6. CASE UNCHANGED vars
    BY <2>6 DEF vars, spaces
  <2> QED BY <2>1, <2>2, <2>3, <2>4, <2>5, <2>6 DEF Next, Ended
<1> QED BY <1>1, <1>2, ReplTypes, ReplsTakeTurns, PTL DEF Spec
-----------------------------------------------------------------------------
(* The strengthening for session vars, when no two connections are set up  *)
(* at a time: ids that are in use are different; what is stored under the  *)
(* id of a REPL is the last value of that REPL; and star1 is that value    *)
(* from the moment execute has set it to the moment it captures it.        *)
Live(r) == r = Cmd \/ pc[r] # "away"

IdsInOrder ==
  /\ \A r \in Repls : pc[r] # "set_id" => session_id[r] <= session_id_counter
  /\ \A c, d \in Conns : pc[c] = "set_id" /\ pc[d] = "set_id" => c = d
  /\ \A c \in Conns : pc[c] = "set_id" => session_id[c] = session_id_counter + 1
  /\ \A r, s \in Repls : Live(r) /\ Live(s) /\ session_id[r] = session_id[s] => r = s

StatesFit ==
  /\ \A i \in SessionIds : i > session_id_counter => session_states[i] = NoValue
  /\ \A c \in Conns : pc[c] \in {"away", "set_id"} => last_value[c] = NoValue
  /\ \A r \in Repls : Live(r) => session_states[session_id[r]] = last_value[r]
  /\ \A r \in Repls : pc[r] \in {"run", "print", "finish"} /\ form[r] # "in_ns" =>
                        star1 = last_value[r]
  /\ \A r \in Repls : pc[r] = "run" => form[r] # "in_ns"

SessionInv == IdsInOrder /\ StatesFit

(* A step that leaves session vars alone, and at which no REPL begins to   *)
(* run a form or to be set up, keeps it.                                   *)
LEMMA SessionFrame ==
  ASSUME SessionInv, UNCHANGED <<session, values>>,
         \A r \in Repls :
           /\ pc'[r] = "set_id" <=> pc[r] = "set_id"
           /\ pc'[r] = "away" <=> pc[r] = "away"
           /\ pc'[r] \in {"run", "print", "finish"} =>
                /\ pc[r] \in {"run", "print", "finish"} /\ form'[r] = form[r]
                /\ pc'[r] = "run" => pc[r] = "run"
  PROVE  SessionInv'
<1> USE DEF SessionInv, session, values, Live, Repls
<1>1. IdsInOrder'
  BY DEF IdsInOrder
<1>2. StatesFit'
  BY DEF StatesFit
<1> QED BY <1>1, <1>2

(* "Each connection will have dedicated copies of certain session-centric  *)
(* vars" (doc/socket-repl.md:35), for any number of connections that are   *)
(* set up one after the other.  (When two are, both may get the same id.)  *)
THEOREM SessionsStay == ASSUME Overlap = FALSE PROVE Spec => []SessionsAreDedicated
<1> USE ReplAssumption DEF Repls, Threads
<1>1. Init => SessionInv
  BY ConnectedFinite DEF Init, SessionInv, IdsInOrder, StatesFit, Live, SessionIds
<1>2. TypeOK /\ TypeOK' /\ OneReplAtATime /\ SessionInv /\ [Next]_vars => SessionInv'
  <2> SUFFICES ASSUME TypeOK, TypeOK', OneReplAtATime, SessionInv, [Next]_vars PROVE SessionInv'
    OBVIOUS
  <2> USE DEF TypeOK, Step, Goto
  <2>1. ASSUME NEW r \in Repls, ReplStep(r) PROVE SessionInv'
    <3>1. CASE ProcessLine(r)
      <4>1. \E q \in {"exited", "unlock_to_top", "unset_sender", "evaluate"} :
              pc' = [pc EXCEPT ![r] = q]
        BY <3>1, Zenon DEF ProcessLine, Return
      <4> QED BY <3>1, <4>1, SessionFrame DEF ProcessLine, input
    <3>2. CASE EvaluateSource(r)
      BY <3>2, SessionFrame DEF EvaluateSource, input
    <3>3. CASE Execute(r)
      <4>1. \A s \in Repls \ {r} : pc[s] \notin {"run", "print", "finish"}
        BY <3>3, OthersWait DEF Execute, HoldsMutex, ConnLabels, CmdLabels, ReplLabels, EditResults
      <4>2. UNCHANGED <<session, session_states, last_value, input>>
        BY <3>3 DEF Execute
      <4>3. pc[r] = "execute"
        BY <3>3 DEF Execute
      <4>4. form[r] # "in_ns" => star1' = last_value[r]
        BY <3>3, <4>3 DEF Execute, SetSessionState, SessionInv, StatesFit, Live
      <4>5. pc' = [pc EXCEPT ![r] = IF form[r] = "in_ns" THEN "print" ELSE "run"]
        BY <3>3 DEF Execute
      <4>6. pc'[r] \in {"run", "print"} /\ (pc'[r] = "run" => form[r] # "in_ns")
        BY <4>5
      <4>7. \A s \in Repls \ {r} : pc'[s] = pc[s]
        BY <4>5
      <4>8. \A s \in Repls : /\ pc'[s] = "set_id" <=> pc[s] = "set_id"
                             /\ pc'[s] = "away" <=> pc[s] = "away"
                             /\ Live(s)' <=> Live(s)
        BY <4>3, <4>6, <4>7 DEF Live
      <4>9. IdsInOrder'
        BY <4>2, <4>8 DEF SessionInv, IdsInOrder, session
      <4>10. \A s \in Repls : pc'[s] \in {"run", "print", "finish"} => s = r
        BY <4>1, <4>7
      <4>11. StatesFit'
        BY <4>2, <4>4, <4>6, <4>8, <4>10 DEF SessionInv, StatesFit, session, input
      <4> QED BY <4>9, <4>11 DEF SessionInv
    <3>4. CASE RunForm(r)
      BY <3>4, SessionFrame DEF RunForm, input
    <3>5. CASE PrintResult(r) \/ ReleaseEvalLock(r)
      BY <3>5, SessionFrame DEF PrintResult, ReleaseEvalLock, input
    <3>6. CASE Finish(r)
      <4>1. \A s \in Repls \ {r} : pc[s] \notin {"run", "print", "finish"}
        BY <3>6, OthersWait DEF Finish, HoldsMutex, ConnLabels, CmdLabels, ReplLabels, EditResults
      <4>2. /\ pc[r] = "finish" /\ pc' = [pc EXCEPT ![r] = "release"]
            /\ UNCHANGED <<session, input>>
        BY <3>6 DEF Finish
      <4>3. /\ \A s \in Repls \ {r} : last_value'[s] = last_value[s]
            /\ \A i \in SessionIds : i # session_id[r] => session_states'[i] = session_states[i]
        BY <3>6 DEF Finish, CaptureSessionState
      <4>4. session_states'[session_id[r]] = last_value'[r]
        BY <3>6, <4>2 DEF Finish, CaptureSessionState, Computes, SessionInv, StatesFit, Live
      <4>5. session_id[r] <= session_id_counter
        BY <4>2 DEF SessionInv, IdsInOrder
      <4>6. \A s \in Repls \ {r} : Live(s) => session_id[s] # session_id[r]
        BY <4>2 DEF SessionInv, IdsInOrder, Live
      <4>7. IdsInOrder'
        BY <4>2 DEF SessionInv, IdsInOrder, Live, session
      <4>8. \A i \in SessionIds : i > session_id_counter' => session_states'[i] = NoValue
        BY <4>2, <4>3, <4>5 DEF SessionInv, StatesFit, session, SessionIds
      <4>9. StatesFit'
        BY <4>1, <4>2, <4>3, <4>4, <4>6, <4>8 DEF SessionInv, StatesFit, Live, session, input
      <4> QED BY <4>7, <4>9 DEF SessionInv
    <3>7. CASE GetCurrentNs(r)
      BY <3>7, SessionFrame DEF GetCurrentNs, Return, Type, input
    <3> QED BY <2>1, <3>1, <3>2, <3>3, <3>4, <3>5, <3>6, <3>7 DEF ReplStep
  <2>2. ASSUME NEW c \in Conns, ConnStep(c) PROVE SessionInv'
    <3>1. CASE SetSessionId(c)
      <4>1. PICK after \in AfterPrompt :
            /\ pc[c] = "set_id" /\ pc' = [pc EXCEPT ![c] = after]
            /\ session_id_counter' = session_id_counter + 1
            /\ session_id[c] = session_id_counter + 1
            /\ UNCHANGED <<session_id, values, input>>
        BY <3>1 DEF SetSessionId, SessionInv, IdsInOrder
      <4>a. after \notin {"set_id", "away", "run", "print", "finish"}
        BY DEF AfterPrompt
      <4>2. session_id_counter \in Int /\ \A s \in Repls : session_id[s] \in Int
        BY DEF SessionIds
      <4>3. IdsInOrder'
        BY <4>1, <4>a, <4>2 DEF SessionInv, IdsInOrder, Live
      <4>4. \A i \in SessionIds : i > session_id_counter' => session_states'[i] = NoValue
        BY <4>1, <4>2 DEF SessionInv, StatesFit, values, SessionIds
      <4>5. \A s \in Repls : Live(s)' <=> Live(s)
        BY <4>1, <4>a DEF Live
      <4>6. StatesFit'
        BY <4>1, <4>a, <4>4, <4>5 DEF SessionInv, StatesFit, values, input
      <4> QED BY <4>3, <4>6 DEF SessionInv
    <3>2. ASSUME ~SetSessionId(c), ~ReplStep(c) PROVE SessionInv'
      BY <2>2, <3>2, SessionFrame DEF ConnStep, LockConn, UnlockConn, AfterPrompt, ConnSetsSender,
                        ConnUnsetsSender, SetSender, SetPrintFn, UnsetSock, input
    <3> QED BY <2>1, <3>1, <3>2
  <2>3. ASSUME CmdStep PROVE SessionInv'
    <3>1. CASE LockAfterEdit
      <4>1. \E q \in {"read", "reset_to_read", "reset_to_top", "reset_to_leave"} :
              pc' = [pc EXCEPT ![Cmd] = q]
        BY <3>1, Zenon DEF LockAfterEdit, EditResults, Reset
      <4> QED BY <3>1, <4>1, SessionFrame DEF LockAfterEdit, EditResults, input
    <3>2. ASSUME ~LockAfterEdit, ~ReplStep(Cmd) PROVE SessionInv'
      BY <2>3, <3>2, SessionFrame DEF CmdStep, LockToEdit, UnlockToEdit, CmdSetsSender,
                        CmdUnsetsSender, SetSender, SetPrintFn, UnlockCmd, MainReturns, input
    <3> QED BY <2>1, <3>1, <3>2
  <2>4. ASSUME NEW t \in Timers, TimerStep(t) PROVE SessionInv'
    BY <2>4, SessionFrame DEF TimerStep, Wake, TimerPrints, input
  <2>5. ASSUME UserStep PROVE SessionInv'
    <3>1. ASSUME NEW c \in Conns, Connect(c) PROVE SessionInv'
      <4>1. /\ \A d \in Conns : pc[d] # "set_id"
            /\ pc[c] = "away" /\ pc' = [pc EXCEPT ![c] = "set_id"]
            /\ session_id' = [session_id EXCEPT ![c] = session_id_counter + 1]
            /\ UNCHANGED <<session_id_counter, values, input>>
        BY <3>1, Overlap = FALSE DEF Connect
      <4>2. pc[Cmd] # "set_id"
        BY DEF CmdLabels, ReplLabels
      <4>3. \A s \in Repls : session_id[s] <= session_id_counter
        BY <4>1, <4>2 DEF SessionInv, IdsInOrder
      <4>4. session_id_counter \in Int /\ \A s \in Repls : session_id[s] \in Int
        BY DEF SessionIds
      <4>5. session_id_counter + 1 \in SessionIds
        BY <4>1
      <4>6. \A s, u \in Repls : Live(s)' /\ Live(u)' /\ session_id'[s] = session_id'[u] => s = u
        BY <4>1, <4>3, <4>4 DEF SessionInv, IdsInOrder, Live
      <4>7. IdsInOrder'
        BY <4>1, <4>2, <4>3, <4>6 DEF IdsInOrder
      <4>8. session_states[session_id_counter + 1] = NoValue
        BY <4>4, <4>5 DEF SessionInv, StatesFit
      <4>9. StatesFit'
        BY <4>1, <4>8 DEF SessionInv, StatesFit, Live, values, input
      <4> QED BY <4>7, <4>9 DEF SessionInv
    <3>2. ASSUME NEW c \in Conns, NEW f \in Forms, DataArrived(c, f) PROVE SessionInv'
      BY <3>2, SessionFrame DEF DataArrived, Type
    <3>3. ASSUME NEW c \in Conns, Disconnect(c) PROVE SessionInv'
      BY <3>3, SessionFrame DEF Disconnect, input
    <3>4. ASSUME NEW f \in Forms, EnterLine(f) PROVE SessionInv'
      BY <3>4, SessionFrame DEF EnterLine, Type
    <3>5. CASE Interrupt \/ EndOfInput
      BY <3>5, SessionFrame DEF Interrupt, EndOfInput, input
    <3> QED BY <2>5, <3>1, <3>2, <3>3, <3>4, <3>5 DEF UserStep
  <2>6. CASE UNCHANGED vars
    BY <2>6, SessionFrame DEF vars, input
  <2> QED BY <2>1, <2>2, <2>3, <2>4, <2>5, <2>6 DEF Next, Ended
<1>3. SessionInv => SessionsAreDedicated
  BY DEF SessionInv, StatesFit, SessionsAreDedicated
<1> QED BY <1>1, <1>2, <1>3, ReplTypes, ReplsTakeTurns, PTL DEF Spec
-----------------------------------------------------------------------------
(* Where output goes.  A connection has set the sender before it processes *)
(* its line, and unsets it after; the command line prints with none, and   *)
(* that of a dumb terminal never sets one.                                 *)
Served == {"set_print_fn", "unset_sender"} \cup ReplLabels
Unset == {"reset_fn_to_read", "reset_fn_to_top", "reset_fn_to_leave", "unlock_to_top",
          "unlock_to_leave"} \cup ReplLabels
DumbLabels == {"top", "entered", "unlock_to_top", "left", "exited"} \cup ReplLabels

SenderInv ==
  /\ \A c \in Conns : /\ pc[c] \in Served => cljs_sender = "socket"
                      /\ pc[c] \in Served \ {"set_print_fn"} => print_fn = "sender"
  /\ pc[Cmd] \in Unset => cljs_sender = "null"
  /\ dumb_terminal => /\ pc[Cmd] \in DumbLabels
                      /\ (\A c \in Conns : pc[c] \notin Served) => cljs_sender = "null"

(* The socket is that of the connection whose line has arrived, if there   *)
(* is no other one.                                                        *)
Alone == \A c, d \in Conns : pc[c] # "away" /\ pc[d] # "away" => c = d
Arrived == {"lock", "set_sender", "unset_print_fn", "unset_sock"} \cup Served
SocketInv == Alone => \A c \in Conns : pc[c] \in Arrived => sock_to_write_to = c

RouteInv == SenderInv /\ SocketInv

(* Without connections, the namespace is that of the command line.         *)
PrimaryInv == Connected = {} /\ pc[Cmd] \notin {"print", "finish", "release", "get_ns"} =>
                current_ns = repl_ns[Cmd]

(* Nobody who has been connected is taken for one who has not. *)
LEMMA StaysConnected ==
  ASSUME TypeOK, [Next]_vars, NEW c \in Conns, pc[c] # "away" PROVE pc'[c] # "away"
<1>1. CASE Next /\ \A d \in Conns : ~Connect(d)
  BY <1>1, ConnectedSteady DEF Connected
<1>2. ASSUME NEW d \in Conns, Connect(d) PROVE pc'[c] # "away"
  BY <1>2 DEF Connect, Step, Goto, TypeOK, Threads, Repls
<1>3. CASE UNCHANGED vars
  BY <1>3 DEF vars
<1> QED BY <1>1, <1>2, <1>3

LEMMA OneIsAlone == Cardinality(Connected) <= 1 => Alone
<1> SUFFICES ASSUME Cardinality(Connected) <= 1,
                    NEW c \in Conns, NEW d \in Conns, pc[c] # "away", pc[d] # "away", c # d
             PROVE  FALSE
  BY DEF Alone
<1>1. c \in Connected /\ {c, d} \in SUBSET Connected /\ IsFiniteSet(Connected)
      /\ Cardinality(Connected) \in Nat
  BY ConnectedFinite DEF Connected
<1>2. IsFiniteSet({c}) /\ Cardinality({c}) = 1
  BY FS_Singleton
<1>3. Cardinality({c, d}) = 2
  <2>1. d \notin {c} /\ {c, d} = {c} \cup {d}
    OBVIOUS
  <2>2. Cardinality({c, d}) = Cardinality({c}) + 1
    BY <1>2, <2>1, CardinalityPlus
  <2> QED BY <1>2, <2>2
<1>4. Cardinality({c, d}) <= Cardinality(Connected)
  BY <1>1, FS_Subset
<1> QED BY <1>1, <1>3, <1>4

(* A step of a REPL that leaves the sender and the socket alone, and goes  *)
(* where they are as they should be.                                       *)
LEMMA RouteFrame ==
  ASSUME TypeOK, RouteInv, Alone' => Alone, UNCHANGED <<dumb_terminal, shared>>,
         NEW r \in Repls, \A s \in Repls \ {r} : pc'[s] = pc[s],
         r \in Conns => /\ pc'[r] \in Served <=> pc[r] \in Served
                        /\ pc'[r] \in Served \ {"set_print_fn"} => pc[r] \in Served \ {"set_print_fn"}
                        /\ pc'[r] \in Arrived => pc[r] \in Arrived,
         r = Cmd => /\ pc'[r] \in Unset => pc[r] \in Unset
                    /\ dumb_terminal => pc'[r] \in DumbLabels
  PROVE  RouteInv'
<1>1. \A c \in Conns : /\ pc'[c] \in Served <=> pc[c] \in Served
                       /\ pc'[c] \in Served \ {"set_print_fn"} => pc[c] \in Served \ {"set_print_fn"}
                       /\ pc'[c] \in Arrived => pc[c] \in Arrived
  BY DEF Repls
<1>2. UNCHANGED <<cljs_sender, print_fn, sock_to_write_to, dumb_terminal>>
  BY DEF shared
<1>3. /\ pc'[Cmd] \in Unset => pc[Cmd] \in Unset
      /\ dumb_terminal => pc'[Cmd] \in DumbLabels
  BY DEF Repls, RouteInv, SenderInv
<1>4. SenderInv'
  BY <1>1, <1>2, <1>3 DEF RouteInv, SenderInv
<1>5. SocketInv'
  BY <1>1, <1>2 DEF RouteInv, SocketInv
<1> QED BY <1>4, <1>5 DEF RouteInv

LEMMA ReplRoutes ==
  ASSUME TypeOK, RouteInv, Alone' => Alone, NEW r \in Repls, ReplStep(r)
  PROVE  RouteInv'
<1> USE ReplAssumption DEF Repls, Threads
<1>1. UNCHANGED <<dumb_terminal, shared>> /\ \A s \in Repls \ {r} : pc'[s] = pc[s]
  <2>1. CASE RunForm(r)
    BY <2>1 DEF RunForm, SetsTimer, Goto, config, TypeOK
  <2>2. CASE ~RunForm(r)
    BY <2>2 DEF ReplStep, ProcessLine, EvaluateSource, Execute, PrintResult, Finish, ReleaseEvalLock,
                GetCurrentNs, Step, Goto, config, TypeOK
  <2> QED BY <2>1, <2>2
<1>2. pc[r] \in ReplLabels
  BY DEF ReplStep, ProcessLine, EvaluateSource, Execute, RunForm, PrintResult, Finish,
         ReleaseEvalLock, GetCurrentNs, Step, ReplLabels
<1>3. /\ r = Cmd => pc'[r] \in {"exited", "unlock_to_top"} \cup ReplLabels
      /\ r # Cmd => pc'[r] \in {"unset_sender"} \cup ReplLabels
  <2>1. CASE ProcessLine(r)
    <3>1. \E q : /\ pc' = [pc EXCEPT ![r] = q]
                 /\ r = Cmd => q \in {"exited", "unlock_to_top", "evaluate"}
                 /\ r # Cmd => q \in {"unset_sender", "evaluate"}
      BY <2>1, Zenon DEF ProcessLine, Return, Goto
    <3> QED BY <3>1 DEF TypeOK, ReplLabels
  <2>2. CASE RunForm(r)
    BY <2>2 DEF RunForm, SetsTimer, Goto, TypeOK, ReplLabels
  <2>3. CASE ~ProcessLine(r) /\ ~RunForm(r)
    BY <2>3 DEF ReplStep, EvaluateSource, Execute, PrintResult, Finish, ReleaseEvalLock,
                GetCurrentNs, Return, Step, Goto, TypeOK, ReplLabels
  <2> QED BY <2>1, <2>2, <2>3
<1>4. r \in Conns => /\ pc[r] \in Served \ {"set_print_fn"} /\ pc'[r] \in Served
                     /\ pc[r] \in Arrived
  BY <1>2, <1>3 DEF Served, Arrived, ReplLabels
<1>5. r = Cmd => pc[r] \in Unset /\ pc'[r] \in DumbLabels
  BY <1>2, <1>3 DEF Unset, DumbLabels
<1> QED BY <1>1, <1>4, <1>5, RouteFrame

LEMMA ConnRoutes ==
  ASSUME TypeOK, OneReplAtATime, RouteInv, Alone' => Alone, NEW c \in Conns, ConnStep(c)
  PROVE  RouteInv'
<1> USE ReplAssumption DEF Repls, Threads
<1>1. CASE ReplStep(c)
  BY <1>1, ReplRoutes
<1>2. ASSUME NEW l1, NEW l2, pc[c] = l1, pc' = [pc EXCEPT ![c] = l2],
             UNCHANGED <<dumb_terminal, shared>>,
             \/ l1 = "set_id" /\ l2 \in {"recv", "closed"}
             \/ l1 = "lock" /\ l2 = "set_sender"
             \/ l1 = "unlock" /\ l2 \in {"recv", "closed"}
      PROVE  RouteInv'
  <2>1. \A s \in Repls \ {c} : pc'[s] = pc[s]
    BY <1>2 DEF TypeOK
  <2>2. /\ pc'[c] \in Served <=> pc[c] \in Served
        /\ pc'[c] \notin Served
        /\ pc'[c] \in Arrived => pc[c] \in Arrived
    BY <1>2 DEF TypeOK, Served, Arrived, ReplLabels
  <2> QED BY <1>2, <2>1, <2>2, RouteFrame
<1>3. CASE SetSessionId(c) \/ LockConn(c) \/ UnlockConn(c)
  <2>1. PICK l1, l2 : /\ pc[c] = l1 /\ pc' = [pc EXCEPT ![c] = l2]
                      /\ UNCHANGED <<dumb_terminal, shared>>
                      /\ \/ l1 = "set_id" /\ l2 \in {"recv", "closed"}
                         \/ l1 = "lock" /\ l2 = "set_sender"
                         \/ l1 = "unlock" /\ l2 \in {"recv", "closed"}
    BY <1>3, Zenon DEF SetSessionId, LockConn, UnlockConn, AfterPrompt, Step, Goto, config
  <2> QED BY <1>2, <2>1
<1>4. ASSUME pc[c] \in ConnLabels \ {"away", "set_id", "recv", "lock", "closed"}
      PROVE  pc[Cmd] \notin Unset /\ \A d \in Conns \ {c} : pc[d] \notin Served
  BY <1>4, OthersWait DEF HoldsMutex, TypeOK, Unset, Served, ConnLabels, CmdLabels, ReplLabels,
                          EditResults
<1>5. CASE ConnSetsSender(c) \/ ConnUnsetsSender(c) \/ UnsetSock(c)
  <2>1. pc[Cmd] \notin Unset /\ \A d \in Conns \ {c} : pc[d] \notin Served
    BY <1>4, <1>5 DEF ConnSetsSender, ConnUnsetsSender, SetSender, SetPrintFn, UnsetSock, Step,
                      ConnLabels
  <2>2. pc'[Cmd] = pc[Cmd] /\ dumb_terminal' = dumb_terminal /\ \A d \in Conns \ {c} : pc'[d] = pc[d]
    BY <1>5 DEF ConnSetsSender, ConnUnsetsSender, SetSender, SetPrintFn, UnsetSock, Step, Goto,
                config, TypeOK
  <2>3. dumb_terminal => pc'[Cmd] \in DumbLabels
    BY <2>2 DEF RouteInv, SenderInv
  <2>4. CASE SetSender(c, "socket", "set_sender", "set_print_fn")
    <3>1. /\ pc[c] = "set_sender" /\ pc'[c] = "set_print_fn" /\ cljs_sender' = "socket"
          /\ UNCHANGED <<print_fn, sock_to_write_to>>
      BY <2>4 DEF SetSender, Step, Goto, TypeOK
    <3>2. SenderInv'
      BY <2>1, <2>2, <2>3, <3>1 DEF SenderInv, Served
    <3>3. SocketInv'
      BY <2>2, <3>1 DEF RouteInv, SocketInv, Arrived
    <3> QED BY <3>2, <3>3 DEF RouteInv
  <2>5. CASE SetPrintFn(c, "sender", "set_print_fn", "read")
    <3>1. /\ pc[c] = "set_print_fn" /\ pc'[c] = "read" /\ print_fn' = "sender"
          /\ UNCHANGED <<cljs_sender, sock_to_write_to>>
      BY <2>5 DEF SetPrintFn, Step, Goto, TypeOK
    <3>2. SenderInv'
      BY <2>1, <2>2, <2>3, <3>1 DEF RouteInv, SenderInv, Served, ReplLabels
    <3>3. SocketInv'
      BY <2>2, <3>1 DEF RouteInv, SocketInv, Arrived, Served
    <3> QED BY <3>2, <3>3 DEF RouteInv
  <2>6. CASE SetSender(c, "null", "unset_sender", "unset_print_fn")
    <3>1. /\ pc[c] = "unset_sender" /\ pc'[c] = "unset_print_fn" /\ cljs_sender' = "null"
          /\ UNCHANGED <<print_fn, sock_to_write_to>>
      BY <2>6 DEF SetSender, Step, Goto, TypeOK
    <3>2. SenderInv'
      BY <2>1, <2>2, <2>3, <3>1 DEF SenderInv, Served, ReplLabels
    <3>3. SocketInv'
      BY <2>2, <3>1 DEF RouteInv, SocketInv, Arrived, Served
    <3> QED BY <3>2, <3>3 DEF RouteInv
  <2>7. CASE SetPrintFn(c, "stdout", "unset_print_fn", "unset_sock")
    <3>1. /\ pc[c] = "unset_print_fn" /\ pc'[c] = "unset_sock" /\ print_fn' = "stdout"
          /\ UNCHANGED <<cljs_sender, sock_to_write_to>>
      BY <2>7 DEF SetPrintFn, Step, Goto, TypeOK
    <3>2. SenderInv'
      BY <2>1, <2>2, <2>3, <3>1 DEF RouteInv, SenderInv, Served, ReplLabels
    <3>3. SocketInv'
      BY <2>2, <3>1 DEF RouteInv, SocketInv, Arrived
    <3> QED BY <3>2, <3>3 DEF RouteInv
  <2>8. CASE UnsetSock(c)
    <3>1. /\ pc[c] = "unset_sock" /\ pc'[c] = "unlock"
          /\ UNCHANGED <<cljs_sender, print_fn>>
      BY <2>8 DEF UnsetSock, Step, Goto, TypeOK
    <3>2. SenderInv'
      BY <2>1, <2>2, <2>3, <3>1 DEF RouteInv, SenderInv, Served, ReplLabels
    <3>3. SocketInv'
      <4>1. ASSUME Alone', NEW d \in Conns, pc'[d] \in Arrived PROVE FALSE
        BY <3>1, <4>1 DEF Alone, Arrived, Served, ReplLabels
      <4> QED BY <4>1 DEF SocketInv
    <3> QED BY <3>2, <3>3 DEF RouteInv
  <2> QED BY <1>5, <2>4, <2>5, <2>6, <2>7, <2>8 DEF ConnSetsSender, ConnUnsetsSender
<1> QED BY <1>1, <1>3, <1>5 DEF ConnStep

LEMMA CmdRoutes ==
  ASSUME TypeOK, OneReplAtATime, RouteInv, Alone' => Alone, CmdStep
  PROVE  RouteInv'
<1> USE ReplAssumption DEF Repls, Threads
<1>1. CASE ReplStep(Cmd)
  BY <1>1, ReplRoutes
<1>2. ASSUME NEW l2, pc' = [pc EXCEPT ![Cmd] = l2], UNCHANGED <<dumb_terminal, shared>>,
             l2 \in Unset => pc[Cmd] \in Unset, dumb_terminal => l2 \in DumbLabels
      PROVE  RouteInv'
  <2>1. pc'[Cmd] = l2 /\ \A s \in Repls \ {Cmd} : pc'[s] = pc[s]
    BY <1>2 DEF TypeOK
  <2> QED BY <1>2, <2>1, RouteFrame
<1>3. CASE LockToEdit \/ UnlockToEdit \/ UnlockCmd \/ MainReturns
  <2>1. dumb_terminal => pc[Cmd] \in DumbLabels
    BY DEF RouteInv, SenderInv
  <2>2. PICK l1, l2 : /\ pc[Cmd] = l1 /\ pc' = [pc EXCEPT ![Cmd] = l2]
                      /\ UNCHANGED <<dumb_terminal, shared>>
                      /\ \/ l1 = "top" /\ l2 = "set_sender" /\ ~dumb_terminal
                         \/ l1 = "unlock_to_edit" /\ l2 = "edit"
                         \/ l1 = "unlock_to_top" /\ l2 = "top"
                         \/ l1 = "unlock_to_leave" /\ l2 = "left"
                         \/ l1 = "left" /\ l2 = "exited"
    BY <1>3, Zenon DEF LockToEdit, UnlockToEdit, UnlockCmd, MainReturns, Step, Goto, config
  <2>3. l2 \notin Unset /\ (dumb_terminal => l2 \in DumbLabels)
    BY <2>1, <2>2 DEF Unset, DumbLabels, ReplLabels
  <2> QED BY <1>2, <2>2, <2>3
<1>4. ASSUME pc[Cmd] \in CmdLabels \ ({"top", "edit", "left", "exited"} \cup EditResults)
      PROVE  \A d \in Conns : pc[d] \notin Served
  BY <1>4, OthersWait DEF HoldsMutex, TypeOK, Served, ConnLabels, CmdLabels, ReplLabels
<1>5. CASE CmdSetsSender \/ CmdUnsetsSender
  <2>1. /\ \A c \in Conns : pc'[c] = pc[c]
        /\ dumb_terminal' = dumb_terminal /\ sock_to_write_to' = sock_to_write_to
    BY <1>5 DEF CmdSetsSender, CmdUnsetsSender, SetSender, SetPrintFn, Step, Goto, config, TypeOK
  <2>2. /\ pc[Cmd] \in CmdLabels \ ({"top", "edit", "left", "exited"} \cup EditResults)
        /\ pc[Cmd] \notin DumbLabels
    BY <1>5 DEF CmdSetsSender, CmdUnsetsSender, SetSender, SetPrintFn, Step, CmdLabels, EditResults,
                DumbLabels, ReplLabels
  <2>3. (\A d \in Conns : pc[d] \notin Served) /\ ~dumb_terminal
    BY <1>4, <2>2 DEF RouteInv, SenderInv
  <2>4. pc'[Cmd] \in Unset => cljs_sender' = "null"
    <3>1. CASE CmdSetsSender
      BY <3>1 DEF CmdSetsSender, SetSender, SetPrintFn, Step, Goto, TypeOK, Unset, ReplLabels
    <3>2. CASE CmdUnsetsSender
      BY <3>2 DEF CmdUnsetsSender, SetSender, SetPrintFn, Step, Goto, TypeOK, Unset, ReplLabels,
                  RouteInv, SenderInv
    <3> QED BY <1>5, <3>1, <3>2
  <2>5. SenderInv'
    BY <2>1, <2>3, <2>4 DEF SenderInv
  <2>6. SocketInv'
    BY <2>1 DEF RouteInv, SocketInv
  <2> QED BY <2>5, <2>6 DEF RouteInv
<1>6. CASE LockAfterEdit
  <2>1. /\ repl_print_mutex = NoOne /\ UNCHANGED <<dumb_terminal, shared>>
        /\ \E q \in {"read", "reset_to_read", "reset_to_top", "reset_to_leave"} :
             pc' = [pc EXCEPT ![Cmd] = q] /\ (dumb_terminal <=> q = "read")
    BY <1>6, Zenon DEF LockAfterEdit, EditResults, Reset, Lock, Goto, config
  <2>2. PICK q \in {"read", "reset_to_read", "reset_to_top", "reset_to_leave"} :
             pc' = [pc EXCEPT ![Cmd] = q] /\ (dumb_terminal <=> q = "read")
    BY <2>1
  <2>3. \A c \in Conns : pc[c] \notin Served
    BY <2>1 DEF OneReplAtATime, HoldsMutex, Served, ConnLabels, ReplLabels
  <2>4. pc'[Cmd] = q /\ \A c \in Conns : pc'[c] = pc[c]
    BY <2>2 DEF TypeOK
  <2>5. q \in Unset => q = "read"
    BY DEF Unset, ReplLabels
  <2>6. UNCHANGED <<cljs_sender, print_fn, sock_to_write_to, dumb_terminal>>
    BY <2>1 DEF shared
  <2>7. "read" \in DumbLabels
    BY DEF DumbLabels, ReplLabels
  <2>8. SenderInv'
    BY <2>2, <2>3, <2>4, <2>5, <2>6, <2>7 DEF RouteInv, SenderInv
  <2>9. SocketInv'
    BY <2>4, <2>6 DEF RouteInv, SocketInv
  <2> QED BY <2>8, <2>9 DEF RouteInv
<1> QED BY <1>1, <1>3, <1>5, <1>6 DEF CmdStep

LEMMA UserRoutes ==
  ASSUME TypeOK, RouteInv, Alone' => Alone, UserStep
  PROVE  RouteInv'
<1> USE ReplAssumption DEF Repls, Threads
<1>1. ASSUME NEW c \in Conns, Connect(c) \/ Disconnect(c) PROVE RouteInv'
  <2>1. UNCHANGED <<dumb_terminal, shared>> /\ \A s \in Repls \ {c} : pc'[s] = pc[s]
    BY <1>1 DEF Connect, Disconnect, Step, Goto, config, TypeOK
  <2>2. pc[c] \notin Served /\ pc'[c] \notin Arrived /\ pc'[c] \notin Served
    BY <1>1 DEF Connect, Disconnect, Step, Goto, TypeOK, Served, Arrived, ReplLabels
  <2> QED BY <2>1, <2>2, RouteFrame
<1>2. ASSUME NEW c \in Conns, NEW f \in Forms, DataArrived(c, f) PROVE RouteInv'
  <2>1. /\ pc[c] = "recv" /\ pc'[c] = "lock" /\ pc'[Cmd] = pc[Cmd]
        /\ \A d \in Conns \ {c} : pc'[d] = pc[d]
        /\ UNCHANGED <<dumb_terminal, cljs_sender, print_fn>> /\ sock_to_write_to' = c
    BY <1>2 DEF DataArrived, Step, Goto, config, TypeOK
  <2>2. SenderInv'
    BY <2>1 DEF RouteInv, SenderInv, Served, ReplLabels
  <2>3. SocketInv'
    <3>1. ASSUME Alone', NEW d \in Conns, pc'[d] \in Arrived PROVE d = c
      BY <2>1, <3>1 DEF Alone, Arrived, Served, ReplLabels
    <3> QED BY <2>1, <3>1 DEF SocketInv
  <2> QED BY <2>2, <2>3 DEF RouteInv
<1>3. ASSUME (\E f \in Forms : EnterLine(f)) \/ Interrupt \/ EndOfInput PROVE RouteInv'
  <2>1. /\ UNCHANGED <<dumb_terminal, shared>> /\ \A s \in Repls \ {Cmd} : pc'[s] = pc[s]
        /\ pc'[Cmd] \in {"entered", "interrupted", "left", "leaving"}
        /\ dumb_terminal => pc'[Cmd] # "leaving"
        /\ pc'[Cmd] = "interrupted" => pc[Cmd] = "edit"
    BY <1>3 DEF EnterLine, Interrupt, EndOfInput, Step, Goto, config, TypeOK
  <2>2. pc'[Cmd] \notin Unset /\ (dumb_terminal => pc'[Cmd] \in DumbLabels)
    BY <2>1 DEF RouteInv, SenderInv, Unset, DumbLabels, ReplLabels
  <2> QED BY <2>1, <2>2, RouteFrame
<1> QED BY <1>1, <1>2, <1>3 DEF UserStep

LEMMA RouteStep ==
  ASSUME TypeOK, OneReplAtATime, RouteInv, [Next]_vars
  PROVE  RouteInv'
<1> USE ReplAssumption DEF Repls, Threads
<1>1. Alone' => Alone
  BY StaysConnected DEF Alone
<1>2. ASSUME NEW t \in Timers, TimerStep(t) PROVE RouteInv'
  <2>1. UNCHANGED <<dumb_terminal, shared>> /\ \A s \in Repls : pc'[s] = pc[s]
    BY <1>2 DEF TimerStep, Wake, TimerPrints, Step, Goto, config, TypeOK
  <2>2. dumb_terminal => pc'[Cmd] \in DumbLabels
    BY <2>1 DEF RouteInv, SenderInv
  <2> QED BY <1>1, <2>1, <2>2, RouteFrame
<1>3. CASE UNCHANGED vars
  <2>1. UNCHANGED <<dumb_terminal, shared, pc>>
    BY <1>3 DEF vars, config
  <2>2. dumb_terminal => pc[Cmd] \in DumbLabels
    BY DEF RouteInv, SenderInv
  <2> QED BY <1>1, <2>1, <2>2, RouteFrame
<1> QED BY <1>1, <1>2, <1>3, ConnRoutes, CmdRoutes, UserRoutes DEF Next, Ended

(* As long as there has been one connection, what a form prints goes to    *)
(* the connection or the terminal that the form came from: the sender is   *)
(* changed under repl_print_mutex only, and the socket, which is chosen    *)
(* without, by nobody else.                                                *)
THEOREM OneStaysRouted == Spec => []OneConnectionIsRouted
<1> USE ReplAssumption DEF Repls, Threads
<1>1. Init => RouteInv
  BY DEF Init, RouteInv, SenderInv, SocketInv, Served, Arrived, Unset, DumbLabels, ReplLabels
<1>2. TypeOK /\ OneReplAtATime /\ RouteInv /\ [Next]_vars => RouteInv'
  BY RouteStep
<1>3. RouteInv => OneConnectionIsRouted
  <2> SUFFICES ASSUME RouteInv, Cardinality(Connected) <= 1, NEW r \in Repls, pc[r] = "print"
               PROVE  Route = Home(r)
    BY DEF OneConnectionIsRouted, OutputGoesHome
  <2>1. CASE r = Cmd
    BY <2>1 DEF RouteInv, SenderInv, Unset, ReplLabels, Route, Home
  <2>2. CASE r \in Conns
    <3>1. cljs_sender = "socket" /\ print_fn = "sender"
      BY <2>2 DEF RouteInv, SenderInv, Served, ReplLabels
    <3>2. sock_to_write_to = r
      BY <2>2, OneIsAlone DEF RouteInv, SocketInv, Arrived, Served, ReplLabels
    <3> QED BY <2>2, <3>1, <3>2 DEF Route, Home
  <2> QED BY <2>1, <2>2
<1> QED BY <1>1, <1>2, <1>3, ReplTypes, ReplsTakeTurns, PTL DEF Spec
-----------------------------------------------------------------------------
(* The command line completes and reads in the namespace of its prompt, as *)
(* long as nobody has connected: between lines nothing else has switched.  *)
THEOREM PrimaryStays == Spec => []PrimaryReadsInItsNamespace
<1> USE ReplAssumption DEF Repls, Threads
<1>1. Init => PrimaryInv
  BY DEF Init, PrimaryInv
<1>2. TypeOK /\ PrimaryInv /\ [Next]_vars => PrimaryInv'
  <2> SUFFICES ASSUME TypeOK, PrimaryInv, [Next]_vars, Connected' = {} PROVE PrimaryInv'
    BY DEF PrimaryInv
  <2> USE DEF TypeOK, Step, Goto, PrimaryInv
  <2>1. Connected = {} /\ \A c \in Conns : pc[c] = "away"
    BY StaysConnected DEF Connected
  <2>2. CASE ReplStep(Cmd)
    <3>1. CASE ProcessLine(Cmd)
      <4>1. pc[Cmd] = "read" /\ UNCHANGED spaces
        BY <3>1 DEF ProcessLine
      <4> QED BY <2>1, <4>1 DEF spaces
    <3>2. CASE EvaluateSource(Cmd) \/ RunForm(Cmd) \/ PrintResult(Cmd) \/ ReleaseEvalLock(Cmd)
      BY <2>1, <3>2 DEF EvaluateSource, RunForm, PrintResult, ReleaseEvalLock, spaces
    <3>3. CASE Execute(Cmd)
      BY <2>1, <3>3 DEF Execute, ResetNs
    <3>4. CASE Finish(Cmd)
      BY <2>1, <3>4 DEF Finish
    <3>5. CASE GetCurrentNs(Cmd)
      BY <2>1, <3>5 DEF GetCurrentNs
    <3> QED BY <2>2, <3>1, <3>2, <3>3, <3>4, <3>5 DEF ReplStep
  <2>3. ASSUME NEW c \in Conns, ConnStep(c) PROVE FALSE
    BY <2>1, <2>3 DEF ConnStep, ReplStep, ProcessLine, EvaluateSource, Execute, RunForm, PrintResult,
                      Finish, ReleaseEvalLock, GetCurrentNs, SetSessionId, LockConn, UnlockConn, AfterPrompt,
                      ConnSetsSender, ConnUnsetsSender, SetSender, SetPrintFn, UnsetSock
  <2>4. ASSUME CmdStep, ~ReplStep(Cmd) PROVE PrimaryInv'
    <3>1. UNCHANGED spaces
      BY <2>4 DEF CmdStep, LockToEdit, UnlockToEdit, CmdSetsSender, CmdUnsetsSender, SetSender,
                  SetPrintFn, LockAfterEdit, UnlockCmd, MainReturns
    <3>2. pc[Cmd] \notin {"print", "finish", "release", "get_ns"}
      BY <2>4 DEF CmdStep, LockToEdit, UnlockToEdit, CmdSetsSender, CmdUnsetsSender, SetSender,
                  SetPrintFn, LockAfterEdit, EditResults, UnlockCmd, MainReturns
    <3> QED BY <2>1, <3>1, <3>2 DEF spaces
  <2>5. ASSUME NEW t \in Timers, TimerStep(t) PROVE PrimaryInv'
    BY <2>1, <2>5 DEF TimerStep, Wake, TimerPrints, spaces
  <2>6. CASE UserStep
    BY <2>1, <2>6 DEF UserStep, Connect, DataArrived, Disconnect, EnterLine, Interrupt, EndOfInput,
                      spaces
  <2>7. CASE UNCHANGED vars
    BY <2>1, <2>7 DEF vars, spaces
  <2> QED BY <2>2, <2>3, <2>4, <2>5, <2>6, <2>7 DEF Next, Ended
<1>3. PrimaryInv => PrimaryReadsInItsNamespace
  BY DEF PrimaryInv, PrimaryReadsInItsNamespace
<1> QED BY <1>1, <1>2, <1>3, ReplTypes, PTL DEF Spec
-----------------------------------------------------------------------------
(* Recursive functions: what a step keeps all values have, and a function  *)
(* with given steps there is.                                              *)
LEMMA Least ==
  ASSUME NEW S, S \subseteq Nat, S # {}
  PROVE  \E m \in S : \A n \in S : m <= n
<1>1. PICK m \in S : \A n \in S : ~ (<<n, m>> \in OpToRel(<, Nat))
  BY WFMin, NatLessThanWellFounded
<1>2. \A n \in S : ~ (n < m)
  BY <1>1 DEF OpToRel
<1> QED BY <1>2

LEMMA Climbs ==
  ASSUME NEW n \in Nat, NEW G, 0 \in G, \A i \in 1 .. n : i - 1 \in G => i \in G
  PROVE  \A i \in 0 .. n : i \in G
<1> DEFINE B == {i \in 0 .. n : i \notin G}
<1> SUFFICES ASSUME B # {} PROVE FALSE
  OBVIOUS
<1>1. PICK m \in B : \A k \in B : m <= k
  <2>1. B \subseteq Nat
    OBVIOUS
  <2> HIDE DEF B
  <2> QED BY <2>1, Least
<1>2. m \in 1 .. n /\ m - 1 \in 0 .. n /\ m - 1 \notin B
  BY <1>1
<1> QED BY <1>2

LEMMA Climbing ==
  ASSUME NEW n \in Nat, NEW f, NEW S, f[0] \in S,
         \A i \in 1 .. n : f[i - 1] \in S => f[i] \in S
  PROVE  \A i \in 0 .. n : f[i] \in S
<1> DEFINE G == {i \in 0 .. n : f[i] \in S}
<1>1. 0 \in G /\ \A i \in 1 .. n : i - 1 \in G => i \in G
  OBVIOUS
<1> HIDE DEF G
<1>2. \A i \in 0 .. n : i \in G
  BY <1>1, Climbs
<1> QED BY <1>2 DEF G

(* f has value base at 0 and the steps up to k. *)
StepsTo(f, k, base, step) == f[0] = base /\ \A i \in 1 .. k : f[i] = step[<<f[i - 1], i>>]

LEMMA OneStep ==
  ASSUME NEW n \in Nat, NEW S, NEW base \in S, NEW step \in [S \X (1 .. n) -> S],
         NEW k \in 1 .. n, NEW g \in [0 .. n -> S], StepsTo(g, k - 1, base, step)
  PROVE  \E f \in [0 .. n -> S] : StepsTo(f, k, base, step)
<1> DEFINE f == [i \in 0 .. n |-> IF i = k THEN step[<<g[k - 1], k>>] ELSE g[i]]
<1>1. step[<<g[k - 1], k>>] \in S
  <2>1. <<g[k - 1], k>> \in S \X (1 .. n)
    OBVIOUS
  <2> QED BY <2>1
<1>2. f \in [0 .. n -> S]
  BY <1>1
<1>3. \A i \in 0 .. n : i # k => f[i] = g[i]
  OBVIOUS
<1>4. f[k] = step[<<f[k - 1], k>>]
  <2>1. f[k] = step[<<g[k - 1], k>>] /\ k - 1 \in 0 .. n /\ k - 1 # k
    OBVIOUS
  <2> HIDE DEF f
  <2> QED BY <1>3, <2>1
<1> HIDE DEF f
<1>5. StepsTo(f, k, base, step)
  <2>1. f[0] = base
    BY <1>3 DEF StepsTo
  <2>2. ASSUME NEW i \in 1 .. k PROVE f[i] = step[<<f[i - 1], i>>]
    <3>1. CASE i = k
      BY <1>4, <3>1
    <3>2. CASE i # k
      <4>1. i \in 1 .. k - 1 /\ i \in 0 .. n /\ i - 1 \in 0 .. n /\ i - 1 # k
        BY <3>2
      <4>2. g[i] = step[<<g[i - 1], i>>]
        BY <4>1 DEF StepsTo
      <4> QED BY <1>3, <3>2, <4>1, <4>2
    <3> QED BY <3>1, <3>2
  <2> QED BY <2>1, <2>2 DEF StepsTo
<1> QED BY <1>2, <1>5

LEMMA Iterates ==
  ASSUME NEW n \in Nat, NEW S, NEW base \in S, NEW step \in [S \X (1 .. n) -> S]
  PROVE  \E f \in [0 .. n -> S] : StepsTo(f, n, base, step)
<1> DEFINE G == {k \in 0 .. n : \E f \in [0 .. n -> S] : StepsTo(f, k, base, step)}
<1>1. 0 \in G
  <2>1. [i \in 0 .. n |-> base] \in [0 .. n -> S] /\ StepsTo([i \in 0 .. n |-> base], 0, base, step)
    BY DEF StepsTo
  <2> QED BY <2>1
<1>2. ASSUME NEW k \in 1 .. n, k - 1 \in G PROVE k \in G
  <2>1. PICK g \in [0 .. n -> S] : StepsTo(g, k - 1, base, step)
    BY <1>2
  <2>2. \E f \in [0 .. n -> S] : StepsTo(f, k, base, step)
    BY <2>1, OneStep
  <2> QED BY <2>2
<1>3. n \in G
  <2> HIDE DEF G
  <2>1. \A i \in 0 .. n : i \in G
    BY <1>1, <1>2, Climbs
  <2> QED BY <2>1
<1> QED BY <1>3
-----------------------------------------------------------------------------
(* The types of the editor.                                                *)
Texts == {s \in Seq(Chars) : Len(s) <= buflen}
Histories == {h \in Seq(Texts) : Len(h) <= history_max_len}
Terminals == [shows : [Rows -> Rows \cup {Blank, Output, Rest}], row : Nat,
              col : 0 .. Cols - 1, base : Nat]
LineStates ==
  {e \in [buf : Texts, len : Nat, pos : Nat, oldpos : 0 .. buflen, maxrows : Nat,
          history_index : Nat, plen : Nat \ {0}] : e.len <= Len(e.buf) /\ e.pos <= e.len}
Searches == {s \in [rbuf : Seq(Chars), searchpos : Nat] : Len(s.rbuf) <= SearchMax}
Hops == [sequence : Nat, restore : HopType,
         threads : SUBSET [id : Nat, up : Int, right : Int, checked : BOOLEAN]]
Inputs == [open : BOOLEAN, pending : Seq(Texts), spaces : Indents \cup {0}, pasting : BOOLEAN]

(* What a line of text may become without leaving its entry in the history *)
Stays(e, f) == f \in LineStates /\ f.history_index = e.history_index

LEMMA Divided ==
  ASSUME NEW a \in Nat, NEW n \in Nat \ {0}
  PROVE  a % n \in 0 .. n - 1 /\ a \div n \in Nat /\ (a >= n => a \div n >= 1)
OBVIOUS

LEMMA Piece ==
  ASSUME NEW S, NEW s \in Seq(S), NEW m \in Nat \ {0}, NEW n \in Nat, n <= Len(s)
  PROVE  /\ SubSeq(s, m, n) \in Seq(S)
         /\ Len(SubSeq(s, m, n)) = IF m <= n THEN n - m + 1 ELSE 0
         /\ \A i \in 1 .. n - m + 1 : SubSeq(s, m, n)[i] = s[m + i - 1]
<1>1. \A i \in m .. n : s[i] \in S
  BY LenProperties, ElementOfSeq
<1> QED BY <1>1, SubSeqProperties

LEMMA MinOf ==
  ASSUME NEW S, S \subseteq Int, NEW a \in Int, NEW b \in S, \A x \in S : a <= x
  PROVE  Min(S) \in S /\ \A x \in S : Min(S) <= x
<1> DEFINE T == {x - a : x \in S}
<1>1. T \subseteq Nat /\ T # {}
  <2>1. b - a \in T
    OBVIOUS
  <2>2. ASSUME NEW y \in T PROVE y \in Nat
    <3>1. PICK x \in S : y = x - a
      OBVIOUS
    <3>2. x \in Int /\ a <= x
      OBVIOUS
    <3> QED BY <3>1, <3>2
  <2> QED BY <2>1, <2>2
<1>2. PICK m \in T : \A n \in T : m <= n
  <2> HIDE DEF T
  <2> QED BY <1>1, Least
<1>3. PICK x \in S : m = x - a
  BY <1>2
<1>4. \A y \in S : x <= y
  <2> SUFFICES ASSUME NEW y \in S PROVE x <= y
    OBVIOUS
  <2>1. y - a \in T
    OBVIOUS
  <2>2. x - a <= y - a
    BY <1>2, <1>3, <2>1
  <2>3. x \in Int /\ y \in Int
    OBVIOUS
  <2> QED BY <2>2, <2>3
<1> HIDE DEF T
<1> QED BY <1>4 DEF Min

LEMMA MaxOf ==
  ASSUME NEW S, S \subseteq Int, NEW a \in Int, NEW b \in S, \A x \in S : x <= a
  PROVE  Max(S) \in S /\ \A x \in S : x <= Max(S)
<1> DEFINE T == {a - x : x \in S}
<1>1. T \subseteq Nat /\ T # {}
  <2>1. a - b \in T
    OBVIOUS
  <2>2. ASSUME NEW y \in T PROVE y \in Nat
    <3>1. PICK x \in S : y = a - x
      OBVIOUS
    <3>2. x \in Int /\ x <= a
      OBVIOUS
    <3> QED BY <3>1, <3>2
  <2> QED BY <2>1, <2>2
<1>2. PICK m \in T : \A n \in T : m <= n
  <2> HIDE DEF T
  <2> QED BY <1>1, Least
<1>3. PICK x \in S : m = a - x
  BY <1>2
<1>4. \A y \in S : x >= y
  <2> SUFFICES ASSUME NEW y \in S PROVE x >= y
    OBVIOUS
  <2>1. a - y \in T
    OBVIOUS
  <2>2. a - x <= a - y
    BY <1>2, <1>3, <2>1
  <2>3. x \in Int /\ y \in Int
    OBVIOUS
  <2> QED BY <2>2, <2>3
<1> HIDE DEF T
<1> QED BY <1>4 DEF Max

LEMMA MinOfTwo ==
  ASSUME NEW a \in Int, NEW b \in Int PROVE Min({a, b}) = IF a <= b THEN a ELSE b
<1>1. Min({a, b}) \in {a, b} /\ \A x \in {a, b} : Min({a, b}) <= x
  <2>1. CASE a <= b
    <3>1. \A x \in {a, b} : a <= x
      BY <2>1
    <3> QED BY <3>1, MinOf
  <2>2. CASE b <= a
    <3>1. \A x \in {a, b} : b <= x
      BY <2>2
    <3> QED BY <3>1, MinOf
  <2> QED BY <2>1, <2>2
<1> QED BY <1>1
-----------------------------------------------------------------------------
(* The terminal.                                                           *)
LEMMA MonusNat ==
  ASSUME NEW a \in Nat, NEW b \in Int
  PROVE  b >= 0 => Monus(a, b) \in Nat /\ Monus(a, b) <= a
BY DEF Monus

LEMMA RefreshedLine ==
  ASSUME Cols \in Nat \ {0}, NEW e \in LineStates, NEW s \in Terminals
  PROVE  /\ Refresh(e, s).line \in LineStates
         /\ Refresh(e, s).line = [e EXCEPT !.maxrows = Refresh(e, s).line.maxrows, !.oldpos = e.pos]
         /\ Stays(e, Refresh(e, s).line)
<1> DEFINE rows == (e.plen + e.len + Cols - 1) \div Cols
           wraps == e.pos # 0 /\ e.pos = e.len /\ (e.pos + e.plen) % Cols = 0
           used == IF wraps THEN rows + 1 ELSE rows
           m == IF used > e.maxrows THEN used ELSE e.maxrows
<1>1. Refresh(e, s).line = [e EXCEPT !.maxrows = m, !.oldpos = e.pos]
  BY DEF Refresh
<1>2. m \in Nat
  <2>1. e.plen + e.len + Cols - 1 \in Nat
    BY DEF LineStates
  <2>2. rows \in Nat
    BY <2>1, Divided
  <2>3. e.maxrows \in Nat
    BY DEF LineStates
  <2> HIDE DEF rows
  <2> QED BY <2>2, <2>3
<1> HIDE DEF m
<1>3. e.pos \in 0 .. buflen
  <2>1. e.buf \in Seq(Chars) /\ Len(e.buf) <= buflen /\ e.len \in Nat /\ e.pos \in Nat
    BY DEF LineStates, Texts
  <2>2. Len(e.buf) \in Nat /\ buflen \in Nat
    BY <2>1, LenProperties, LineEditorAssumption
  <2>3. e.len <= Len(e.buf) /\ e.pos <= e.len
    BY DEF LineStates
  <2> QED BY <2>1, <2>2, <2>3
<1>4. [e EXCEPT !.maxrows = m, !.oldpos = e.pos] \in LineStates
  BY <1>2, <1>3 DEF LineStates
<1>5. [e EXCEPT !.maxrows = m, !.oldpos = e.pos] =
      [e EXCEPT !.maxrows = [e EXCEPT !.maxrows = m, !.oldpos = e.pos].maxrows, !.oldpos = e.pos]
  BY DEF LineStates
<1> QED BY <1>1, <1>4, <1>5 DEF Stays, LineStates

LEMMA RefreshedTerminal ==
  ASSUME Cols \in Nat \ {0}, NEW e \in LineStates, NEW s \in Terminals
  PROVE  Refresh(e, s).terminal \in Terminals
<1> DEFINE rows == (e.plen + e.len + Cols - 1) \div Cols
           wraps == e.pos # 0 /\ e.pos = e.len /\ (e.pos + e.plen) % Cols = 0
           used == IF wraps THEN rows + 1 ELSE rows
           rpos == (e.plen + e.oldpos + Cols) \div Cols
           rpos2 == (e.plen + e.pos + Cols) \div Cols
           bottom == s.row + Monus(e.maxrows, rpos)
           top == Monus(bottom, Monus(e.maxrows, 1))
           Clean(r) == r \in top .. bottom \/ s.shows[r] = Blank
           shows == [r \in Rows |->
             IF r \in top .. top + rows - 1
             THEN IF Clean(r) \/ r < top + rows - 1 THEN r - top ELSE Rest
             ELSE IF Clean(r) THEN Blank ELSE s.shows[r]]
           row == top + used - 1 - Monus(used, rpos2)
           col == (e.plen + e.pos) % Cols
<1>1. Refresh(e, s).terminal = [s EXCEPT !.shows = shows, !.row = row, !.col = col]
  BY DEF Refresh
<1>2. /\ e.plen + e.len + Cols - 1 \in Nat /\ e.plen + e.oldpos + Cols \in Nat
      /\ e.plen + e.pos + Cols \in Nat /\ e.plen + e.pos \in Nat
      /\ e.plen + e.len + Cols - 1 >= Cols /\ e.plen + e.pos + Cols >= Cols
      /\ e.maxrows \in Nat /\ s.row \in Nat
  <2>1. /\ e.plen \in Nat \ {0} /\ e.len \in Nat /\ e.pos \in Nat /\ e.oldpos \in Nat
        /\ e.maxrows \in Nat /\ s.row \in Nat
    BY DEF LineStates, Terminals
  <2> QED BY <2>1
<1>3. rows \in Nat /\ rows >= 1
  BY <1>2, Divided
<1>4. rpos2 \in Nat /\ rpos2 >= 1
  BY <1>2, Divided
<1>5. rpos \in Nat
  BY <1>2, Divided
<1>6. col \in 0 .. Cols - 1
  BY <1>2, Divided
<1> HIDE DEF rows, rpos2, rpos, col
<1>7. used \in Nat /\ used >= 1
  BY <1>3
<1> HIDE DEF used
<1>8. top \in Nat
  BY <1>2, <1>5 DEF Monus
<1> HIDE DEF bottom, top
<1>9. row \in Nat
  BY <1>4, <1>7, <1>8 DEF Monus
<1>10. shows \in [Rows -> Rows \cup {Blank, Output, Rest}]
  <2> SUFFICES ASSUME NEW r \in Rows PROVE shows[r] \in Rows \cup {Blank, Output, Rest}
    OBVIOUS
  <2>1. s.shows[r] \in Rows \cup {Blank, Output, Rest}
    BY DEF Terminals
  <2>2. CASE r \in top .. top + rows - 1
    <3>1. shows[r] \in {r - top, Rest}
      BY <2>2
    <3>2. r - top \in Rows
      <4>1. LastRow \in Nat /\ r \in 0 .. LastRow
        BY LineEditorAssumption DEF Rows
      <4>2. r >= top
        BY <1>3, <1>8, <2>2, <4>1
      <4> QED BY <1>8, <4>1, <4>2 DEF Rows
    <3> QED BY <3>1, <3>2
  <2>3. CASE r \notin top .. top + rows - 1
    BY <2>1, <2>3
  <2> QED BY <2>2, <2>3
<1> HIDE DEF shows, row
<1> QED BY <1>1, <1>6, <1>9, <1>10 DEF Terminals

LEMMA FreshTerminal == ASSUME Cols \in Nat \ {0} PROVE Fresh \in Terminals
BY DEF Fresh, Terminals, Rows, Blank, Output

LEMMA NextLineTerminal ==
  ASSUME Cols \in Nat \ {0}, NEW s \in Terminals PROVE NextLine(s) \in Terminals
<1>1. \A r \in Rows : s.row + r \in Rows => s.shows[s.row + r] \in Rows \cup {Blank, Output, Rest}
  BY DEF Terminals
<1> QED BY <1>1 DEF NextLine, Terminals

LEMMA PromptedTerminal ==
  ASSUME Cols \in Nat \ {0}, NEW s \in Terminals PROVE Prompted(s) \in Terminals
<1>1. [s.shows EXCEPT ![s.row] = Rest] \in [Rows -> Rows \cup {Blank, Output, Rest}]
  BY DEF Terminals
<1>2. PICK shows : shows = [s.shows EXCEPT ![s.row] = Rest]
  OBVIOUS
<1>3. Prompted(s) = s \/ Prompted(s) = [s EXCEPT !.shows = shows, !.row = s.row + 1, !.base = s.row + 1]
  BY <1>2 DEF Prompted
<1>4. s.row + 1 \in Nat
  BY DEF Terminals
<1> QED BY <1>1, <1>2, <1>3, <1>4 DEF Terminals

LEMMA OtherTerminals ==
  ASSUME Cols \in Nat \ {0}, NEW s \in Terminals
  PROVE  /\ Printed(s) \in Terminals /\ Cleared(s) \in Terminals
         /\ \A up \in Int : \A right \in Int : Moved(s, up, right) \in Terminals
         /\ \A h : h.up \in Int /\ h.right \in Int => MovedBack(s, h) \in Terminals
<1>1. Printed(s) \in Terminals
  <2>1. [r \in Rows |-> IF r = s.row THEN Output ELSE s.shows[r]]
          \in [Rows -> Rows \cup {Blank, Output, Rest}]
    BY DEF Terminals
  <2>2. PICK shows : shows = [r \in Rows |-> IF r = s.row THEN Output ELSE s.shows[r]]
    OBVIOUS
  <2>3. Printed(s) = [s EXCEPT !.shows = shows, !.row = s.row + 1, !.base = s.base + 1]
    BY <2>2 DEF Printed
  <2>4. s.row + 1 \in Nat /\ s.base + 1 \in Nat
    BY DEF Terminals
  <2> QED BY <2>1, <2>2, <2>3, <2>4 DEF Terminals
<1>2. Cleared(s) \in Terminals
  <2>1. [r \in Rows |-> Blank] \in [Rows -> Rows \cup {Blank, Output, Rest}] /\ 0 \in 0 .. Cols - 1
    OBVIOUS
  <2> QED BY <2>1 DEF Cleared, Terminals
<1>3. ASSUME NEW up \in Int, NEW right \in Int PROVE Moved(s, up, right) \in Terminals
  <2>1. (IF up > 0 THEN Monus(s.row, up) ELSE s.row) \in Nat
    BY DEF Terminals, Monus
  <2>2. (IF s.col + right < 0 THEN 0 ELSE IF s.col + right >= Cols THEN Cols - 1 ELSE s.col + right)
          \in 0 .. Cols - 1
    BY DEF Terminals
  <2> QED BY <2>1, <2>2 DEF Moved, Terminals
<1>4. ASSUME NEW h, h.up \in Int, h.right \in Int PROVE MovedBack(s, h) \in Terminals
  <2>1. Moved(s, 0, -h.right) \in Terminals
    BY <1>3, <1>4
  <2>2. PICK t : t = Moved(s, 0, -h.right)
    OBVIOUS
  <2>3. (IF h.up > 0 THEN t.row + h.up ELSE t.row) \in Nat
    BY <1>4, <2>1, <2>2 DEF Terminals
  <2> QED BY <2>1, <2>2, <2>3 DEF MovedBack, Terminals
<1> QED BY <1>1, <1>2, <1>3, <1>4

LEMMA ListedTerminal ==
  ASSUME Cols \in Nat \ {0}, NEW s \in Terminals PROVE Listed(s) \in Terminals
<1>1. [r \in Rows |->
         IF r \in s.base .. s.row \/ (r \in {s.row + 1, s.row + 2} /\ s.shows[r] = Blank)
         THEN Output ELSE IF s.shows[r] \in Rows THEN Rest ELSE s.shows[r]]
        \in [Rows -> Rows \cup {Blank, Output, Rest}]
  BY DEF Terminals
<1>2. s.row + 3 \in Nat /\ 0 \in 0 .. Cols - 1
  BY DEF Terminals
<1> QED BY <1>1, <1>2 DEF Listed, Terminals
-----------------------------------------------------------------------------
(* The keys that edit.                                                     *)
LEMMA LineFacts ==
  ASSUME NEW e \in LineStates
  PROVE  /\ e.buf \in Seq(Chars) /\ e.buf \in Texts /\ Len(e.buf) \in Nat
         /\ e.len \in 0 .. Len(e.buf) /\ e.pos \in 0 .. e.len /\ Len(e.buf) <= buflen
         /\ buflen \in Nat \ {0} /\ e.len \in Nat /\ e.pos \in Nat
         /\ e.history_index \in Nat /\ e.plen \in Nat \ {0}
<1>1. /\ e.buf \in Seq(Chars) /\ e.buf \in Texts /\ Len(e.buf) <= buflen /\ e.len \in Nat
      /\ e.pos \in Nat /\ e.len <= Len(e.buf) /\ e.pos <= e.len
      /\ e.history_index \in Nat /\ e.plen \in Nat \ {0}
  BY DEF LineStates, Texts
<1>2. Len(e.buf) \in Nat /\ buflen \in Nat \ {0}
  BY <1>1, LenProperties, LineEditorAssumption
<1> QED BY <1>1, <1>2

LEMMA PosStays ==
  ASSUME NEW e \in LineStates, NEW pos \in 0 .. e.len PROVE Stays(e, [e EXCEPT !.pos = pos])
BY DEF Stays, LineStates

LEMMA BufStays ==
  ASSUME NEW e \in LineStates, NEW buf \in Texts, NEW len \in 0 .. Len(buf), NEW pos \in 0 .. len
  PROVE  Stays(e, [e EXCEPT !.buf = buf, !.len = len, !.pos = pos])
<1>1. Len(buf) \in Nat
  BY LenProperties DEF Texts
<1>2. len \in Nat /\ pos \in Nat /\ len <= Len(buf) /\ pos <= len
  BY <1>1
<1>3. PICK f : f = [e EXCEPT !.buf = buf, !.len = len, !.pos = pos]
  OBVIOUS
<1>4. /\ f \in [buf : Texts, len : Nat, pos : Nat, oldpos : 0 .. buflen, maxrows : Nat,
                history_index : Nat, plen : Nat \ {0}]
      /\ f.buf = buf /\ f.len = len /\ f.pos = pos /\ f.history_index = e.history_index
  BY <1>2, <1>3 DEF LineStates
<1> QED BY <1>2, <1>3, <1>4 DEF Stays, LineStates

LEMMA PutStays ==
  ASSUME NEW e \in LineStates, NEW buf \in Texts, NEW pos \in 0 .. Len(buf)
  PROVE  Stays(e, Put(e, buf, pos))
<1>1. Len(buf) \in 0 .. Len(buf)
  BY LenProperties DEF Texts
<1> QED BY <1>1, BufStays DEF Put

LEMMA SkipWithin ==
  ASSUME NEW e \in LineStates, NEW p \in 0 .. e.len, NEW S PROVE Skip(e, p, S) \in p .. e.len
<1> DEFINE T == {q \in p .. e.len : q = e.len \/ e.buf[q + 1] \notin S}
<1>1. T \subseteq Int /\ e.len \in T /\ p \in Int /\ (\A q \in T : p <= q) /\ T \subseteq p .. e.len
  BY LineFacts
<1> HIDE DEF T
<1>2. Min(T) \in T
  BY <1>1, MinOf
<1>3. Skip(e, p, S) = Min(T)
  BY DEF Skip, T
<1> QED BY <1>1, <1>2, <1>3

LEMMA BackWithin ==
  ASSUME NEW e, NEW p \in Nat, NEW S PROVE Back(e, p, S) \in 0 .. p
<1> DEFINE T == {q \in 0 .. p : q = 0 \/ e.buf[q] \notin S}
<1>1. T \subseteq Int /\ 0 \in T /\ p \in Int /\ (\A q \in T : q <= p) /\ T \subseteq 0 .. p
  OBVIOUS
<1> HIDE DEF T
<1>2. Max(T) \in T
  BY <1>1, MaxOf
<1>3. Back(e, p, S) = Max(T)
  BY DEF Back, T
<1> QED BY <1>1, <1>2, <1>3

(* The cursor is put back to the start of a word, unless the byte before   *)
(* the buffer is a space.                                                  *)
LEMMA MoveWordStartStays ==
  ASSUME NEW e \in LineStates, ByteBefore # Space PROVE Stays(e, MoveWordStart(e))
<1> DEFINE p == IF e.pos > 0 /\ e.buf[e.pos] = Space THEN e.pos - 1 ELSE e.pos
           T == {r \in 0 .. p : r = 0 \/ e.buf[r + 1] # Space}
           q == IF p < Len(e.buf) /\ e.buf[p + 1] = Space THEN Max(T) ELSE p
<1>1. p \in 0 .. e.pos /\ p \in Nat /\ e.pos \in Nat
  <2>1. e.pos \in Nat
    BY LineFacts
  <2> QED BY <2>1
<1> HIDE DEF p
<1>2. T \subseteq Int /\ 0 \in T /\ p \in Int /\ (\A r \in T : r <= p) /\ T \subseteq 0 .. p
  BY <1>1
<1>3. Max(T) \in 0 .. p
  <2> HIDE DEF T
  <2> QED BY <1>2, MaxOf
<1>4. q \in 0 .. p /\ q \in Nat
  <2> HIDE DEF T
  <2> QED BY <1>1, <1>3
<1>5. MoveWordStart(e) = IF e.len = 0 THEN e ELSE [e EXCEPT !.pos = Back(e, q, Word)]
  BY DEF MoveWordStart, p
<1> HIDE DEF q
<1>6. Back(e, q, Word) \in 0 .. q
  BY <1>4, BackWithin
<1>7. Back(e, q, Word) \in 0 .. e.len
  <2>1. e.pos \in 0 .. e.len /\ e.len \in Nat
    BY LineFacts
  <2> QED BY <1>1, <1>4, <1>6, <2>1
<1>8. Stays(e, e)
  BY DEF Stays
<1> QED BY <1>5, <1>7, <1>8, PosStays

LEMMA MoveWordEndStays == ASSUME NEW e \in LineStates PROVE Stays(e, MoveWordEnd(e))
<1>1. CASE e.pos >= e.len
  BY <1>1 DEF MoveWordEnd, Stays
<1>2. CASE ~(e.pos >= e.len)
  <2>1. e.pos \in 0 .. e.len /\ e.len \in Nat
    BY LineFacts
  <2>2. PICK p : p = Skip(e, e.pos, {Space})
    OBVIOUS
  <2>3. p \in 0 .. e.len
    <3>1. p \in e.pos .. e.len
      BY <2>1, <2>2, SkipWithin
    <3> QED BY <2>1, <3>1
  <2>4. Skip(e, p, Word) \in 0 .. e.len
    <3>1. Skip(e, p, Word) \in p .. e.len
      BY <2>3, SkipWithin
    <3> QED BY <2>1, <2>3, <3>1
  <2> QED BY <1>2, <2>2, <2>4, PosStays DEF MoveWordEnd
<1> QED BY <1>1, <1>2

(* The text before p and after q, put together                             *)
LEMMA CutStays ==
  ASSUME NEW e \in LineStates, NEW p \in 0 .. e.len, NEW q \in p .. e.len
  PROVE  /\ Before(e, p) \o After(e, q) \in Texts
         /\ Len(Before(e, p) \o After(e, q)) = e.len - (q - p)
         /\ Before(e, p) \in Seq(Chars) /\ Len(Before(e, p)) = p
         /\ After(e, q) \in Seq(Chars) /\ Len(After(e, q)) = e.len - q
<1>1. /\ e.buf \in Seq(Chars) /\ Len(e.buf) \in Nat /\ e.len \in 0 .. Len(e.buf) /\ Len(e.buf) <= buflen
      /\ p \in Nat /\ q \in Nat /\ buflen \in Nat /\ p <= Len(e.buf) /\ q + 1 \in Nat \ {0} /\ q <= e.len
  BY LineFacts
<1>2. Before(e, p) \in Seq(Chars) /\ Len(Before(e, p)) = p
  BY <1>1, Piece DEF Before
<1>3. After(e, q) \in Seq(Chars) /\ Len(After(e, q)) = e.len - q
  <2>1. SubSeq(e.buf, q + 1, e.len) \in Seq(Chars)
        /\ Len(SubSeq(e.buf, q + 1, e.len)) = IF q + 1 <= e.len THEN e.len - (q + 1) + 1 ELSE 0
    BY <1>1, Piece
  <2> QED BY <1>1, <2>1 DEF After
<1>4. Before(e, p) \o After(e, q) \in Seq(Chars) /\ Len(Before(e, p) \o After(e, q)) = p + (e.len - q)
  BY <1>2, <1>3, ConcatProperties
<1> QED BY <1>1, <1>2, <1>3, <1>4 DEF Texts

LEMMA InsertedStays ==
  ASSUME NEW e \in LineStates, NEW c \in Chars PROVE Stays(e, Inserted(e, c))
<1>1. CASE e.len < buflen
  <2>1. /\ Before(e, e.pos) \in Seq(Chars) /\ Len(Before(e, e.pos)) = e.pos
        /\ After(e, e.pos) \in Seq(Chars) /\ Len(After(e, e.pos)) = e.len - e.pos
        /\ e.pos \in Nat /\ e.len \in Nat /\ e.pos <= e.len /\ buflen \in Nat
    BY CutStays, LineFacts
  <2>2. <<c>> \in Seq(Chars) /\ Len(<<c>>) = 1
    OBVIOUS
  <2>3. Before(e, e.pos) \o <<c>> \in Seq(Chars) /\ Len(Before(e, e.pos) \o <<c>>) = e.pos + 1
    <3>1. PICK s \in Seq(Chars) : s = Before(e, e.pos)
      BY <2>1
    <3>2. PICK u \in Seq(Chars) : u = <<c>>
      BY <2>2
    <3>3. s \o u \in Seq(Chars) /\ Len(s \o u) = Len(s) + Len(u)
      BY ConcatProperties
    <3> QED BY <2>1, <2>2, <3>1, <3>2, <3>3
  <2> DEFINE b == Before(e, e.pos) \o <<c>> \o After(e, e.pos)
  <2>4. b \in Seq(Chars) /\ Len(b) = e.pos + 1 + (e.len - e.pos)
    <3>1. PICK a : a = Before(e, e.pos) \o <<c>>
      OBVIOUS
    <3>2. a \in Seq(Chars) /\ Len(a) = e.pos + 1
      BY <2>3, <3>1
    <3>3. a \o After(e, e.pos) \in Seq(Chars)
          /\ Len(a \o After(e, e.pos)) = Len(a) + Len(After(e, e.pos))
      BY <2>1, <3>2, ConcatProperties
    <3> QED BY <2>1, <3>1, <3>2, <3>3
  <2>5. b \in Texts /\ e.pos + 1 \in 0 .. Len(b)
    <3> HIDE DEF b
    <3> QED BY <1>1, <2>1, <2>4 DEF Texts
  <2>6. Inserted(e, c) = Put(e, b, e.pos + 1)
    BY <1>1 DEF Inserted
  <2> HIDE DEF b
  <2> QED BY <2>5, <2>6, PutStays
<1>2. CASE ~(e.len < buflen)
  BY <1>2 DEF Inserted, Stays
<1> QED BY <1>1, <1>2

LEMMA DeleteStays == ASSUME NEW e \in LineStates PROVE Stays(e, Delete(e))
<1>1. CASE e.pos < e.len
  <2>1. e.pos \in 0 .. e.len /\ e.pos + 1 \in e.pos .. e.len /\ e.len \in Nat /\ e.pos \in Nat
    <3>1. e.pos \in Nat /\ e.len \in Nat
      BY LineFacts
    <3> QED BY <1>1, <3>1
  <2>2. PICK b : b = Before(e, e.pos) \o After(e, e.pos + 1)
    OBVIOUS
  <2>3. b \in Texts /\ Len(b) = e.len - ((e.pos + 1) - e.pos)
    BY <2>1, <2>2, CutStays
  <2>4. e.pos \in 0 .. Len(b)
    BY <1>1, <2>1, <2>3
  <2> QED BY <1>1, <2>2, <2>3, <2>4, PutStays DEF Delete
<1>2. CASE ~(e.pos < e.len)
  BY <1>2 DEF Delete, Stays
<1> QED BY <1>1, <1>2

LEMMA BackspaceStays == ASSUME NEW e \in LineStates PROVE Stays(e, Backspace(e))
<1>1. CASE e.pos > 0
  <2>1. e.pos - 1 \in 0 .. e.len /\ e.pos \in e.pos - 1 .. e.len /\ e.len \in Nat /\ e.pos \in Nat
        /\ e.pos <= e.len
    <3>1. e.pos \in Nat /\ e.len \in Nat /\ e.pos \in 0 .. e.len
      BY LineFacts
    <3> QED BY <1>1, <3>1
  <2>2. PICK b : b = Before(e, e.pos - 1) \o After(e, e.pos)
    OBVIOUS
  <2>3. b \in Texts /\ Len(b) = e.len - (e.pos - (e.pos - 1))
    BY <2>1, <2>2, CutStays
  <2>4. e.pos - 1 \in 0 .. Len(b)
    BY <1>1, <2>1, <2>3
  <2> QED BY <1>1, <2>2, <2>3, <2>4, PutStays DEF Backspace
<1>2. CASE ~(e.pos > 0)
  BY <1>2 DEF Backspace, Stays
<1> QED BY <1>1, <1>2

(* What is deleted before the cursor leaves as much behind the end as      *)
(* there was.                                                              *)
LEMMA DeletePrevWordStays == ASSUME NEW e \in LineStates PROVE Stays(e, DeletePrevWord(e))
<1> DEFINE p == Back(e, Back(e, e.pos, {Space}), Word)
           len == e.len - (e.pos - p)
           middle == SubSeq(e.buf, e.pos + 1, Min({e.len + 1, Len(e.buf)}))
           rest == IF e.len < Len(e.buf) THEN SubSeq(e.buf, len + 2, Len(e.buf)) ELSE <<>>
           buf == Before(e, p) \o middle \o rest
<1>1. /\ e.buf \in Seq(Chars) /\ Len(e.buf) \in Nat /\ e.len <= Len(e.buf) /\ e.pos <= e.len
      /\ e.len \in Nat /\ e.pos \in Nat /\ Len(e.buf) <= buflen /\ buflen \in Nat
  BY LineFacts
<1>2. p \in 0 .. e.pos
  <2>1. PICK q : q = Back(e, e.pos, {Space})
    OBVIOUS
  <2>2. q \in 0 .. e.pos
    BY <1>1, <2>1, BackWithin
  <2>3. Back(e, q, Word) \in 0 .. q
    BY <1>1, <2>2, BackWithin
  <2> QED BY <1>1, <2>1, <2>2, <2>3
<1>3. DeletePrevWord(e) = [e EXCEPT !.buf = buf, !.len = len, !.pos = p]
  BY DEF DeletePrevWord
<1> HIDE DEF p
<1>4. len \in 0 .. e.len /\ len \in Nat /\ p \in 0 .. len
  BY <1>1, <1>2
<1>5. Before(e, p) \in Seq(Chars) /\ Len(Before(e, p)) = p
  <2>1. p \in 0 .. e.len /\ p \in p .. e.len
    BY <1>1, <1>2
  <2> QED BY <2>1, CutStays
<1>6. middle \in Seq(Chars)
      /\ Len(middle) = IF e.len < Len(e.buf) THEN e.len + 1 - e.pos ELSE e.len - e.pos
  <2>1. PICK n : n = Min({e.len + 1, Len(e.buf)})
    OBVIOUS
  <2>2. n = IF e.len < Len(e.buf) THEN e.len + 1 ELSE e.len
    <3>1. n = IF e.len + 1 <= Len(e.buf) THEN e.len + 1 ELSE Len(e.buf)
      BY <1>1, <2>1, MinOfTwo
    <3> QED BY <1>1, <3>1
  <2>3. n \in Nat /\ n <= Len(e.buf) /\ e.pos + 1 \in Nat \ {0} /\ e.pos <= n
    BY <1>1, <2>2
  <2>4. middle = SubSeq(e.buf, e.pos + 1, n)
    BY <2>1
  <2> HIDE DEF middle
  <2>5. middle \in Seq(Chars) /\ Len(middle) = IF e.pos + 1 <= n THEN n - (e.pos + 1) + 1 ELSE 0
    BY <1>1, <2>3, <2>4, Piece
  <2>6. CASE e.len < Len(e.buf)
    BY <1>1, <2>2, <2>5, <2>6
  <2>7. CASE ~(e.len < Len(e.buf))
    BY <1>1, <2>2, <2>5, <2>7
  <2> QED BY <2>6, <2>7
<1>7. rest \in Seq(Chars) /\ Len(rest) = IF e.len < Len(e.buf) THEN Len(e.buf) - len - 1 ELSE 0
  <2>1. CASE e.len < Len(e.buf)
    <3>1. len + 2 \in Nat \ {0}
      BY <1>4
    <3>2. rest = SubSeq(e.buf, len + 2, Len(e.buf))
      BY <2>1
    <3>3. rest \in Seq(Chars)
          /\ Len(rest) = IF len + 2 <= Len(e.buf) THEN Len(e.buf) - (len + 2) + 1 ELSE 0
      BY <1>1, <3>1, <3>2, Piece
    <3> HIDE DEF rest, len
    <3> QED BY <1>1, <1>4, <2>1, <3>3
  <2>2. CASE ~(e.len < Len(e.buf))
    BY <2>2, EmptySeq
  <2> QED BY <2>1, <2>2
<1> HIDE DEF middle, rest
<1>8. Before(e, p) \o middle \in Seq(Chars) /\ Len(Before(e, p) \o middle) = p + Len(middle)
  BY <1>5, <1>6, ConcatProperties
<1>9. buf \in Seq(Chars) /\ Len(buf) = Len(Before(e, p) \o middle) + Len(rest)
  BY <1>7, <1>8, ConcatProperties
<1> HIDE DEF buf
<1>10. buf \in Texts /\ len \in 0 .. Len(buf)
  <2>1. Len(middle) \in Nat /\ Len(rest) \in Nat /\ p \in Nat
    BY <1>2, <1>6, <1>7, LenProperties
  <2>2. Len(buf) = p + Len(middle) + Len(rest)
    BY <1>8, <1>9, <2>1
  <2>3. Len(buf) = IF e.len < Len(e.buf) THEN Len(e.buf) ELSE len
    <3>1. CASE e.len < Len(e.buf)
      <4>1. Len(middle) = e.len + 1 - e.pos /\ Len(rest) = Len(e.buf) - len - 1
        BY <1>6, <1>7, <3>1
      <4>2. len = e.len - (e.pos - p) /\ len \in Nat
        BY <1>4
      <4> HIDE DEF len
      <4>3. Len(buf) = Len(e.buf)
        <5>1. /\ e.len \in Int /\ e.pos \in Int /\ p \in Int /\ len \in Int /\ Len(e.buf) \in Int
              /\ Len(middle) \in Int /\ Len(rest) \in Int
          BY <1>1, <2>1, <4>2
        <5>2. Len(middle) + Len(rest) = Len(e.buf) - p
          <6>1. PICK a \in Int, b \in Int, c \in Int, m \in Int, r \in Int, n \in Int, q \in Int :
                  /\ a = e.len /\ b = e.pos /\ c = Len(e.buf) /\ m = Len(middle)
                  /\ r = Len(rest) /\ n = len /\ q = p
            BY <5>1
          <6>2. m = a + 1 - b /\ r = c - n - 1 /\ n = a - (b - q)
            BY <4>1, <4>2, <6>1
          <6>3. m + r = c - q
            BY <6>2
          <6> QED BY <6>1, <6>3
        <5> QED BY <2>2, <5>1, <5>2
      <4> QED BY <3>1, <4>3
    <3>2. CASE ~(e.len < Len(e.buf))
      <4>1. Len(middle) = e.len - e.pos /\ Len(rest) = 0
        BY <1>6, <1>7, <3>2
      <4> QED BY <1>1, <2>1, <2>2, <3>2, <4>1
    <3> QED BY <3>1, <3>2
  <2> QED BY <1>1, <1>4, <1>9, <2>3 DEF Texts
<1> HIDE DEF len
<1>11. Stays(e, [e EXCEPT !.buf = buf, !.len = len, !.pos = p])
  BY <1>4, <1>10, BufStays
<1> QED BY <1>3, <1>11

LEMMA DeleteNextWordStays == ASSUME NEW e \in LineStates PROVE Stays(e, DeleteNextWord(e))
<1> DEFINE w == Skip(e, Skip(e, e.pos, {Space}), Word)
           len == e.len - (w - e.pos)
           cut == Before(e, e.pos) \o After(e, w)
           rest == SubSeq(e.buf, len + 1, Len(e.buf))
           buf == cut \o rest
<1>1. /\ e.buf \in Seq(Chars) /\ Len(e.buf) \in Nat /\ e.len <= Len(e.buf) /\ e.pos <= e.len
      /\ e.len \in Nat /\ e.pos \in Nat /\ Len(e.buf) <= buflen /\ buflen \in Nat
  BY LineFacts
<1>2. w \in e.pos .. e.len
  <2>1. PICK q : q = Skip(e, e.pos, {Space})
    OBVIOUS
  <2>2. q \in e.pos .. e.len
    BY <1>1, <2>1, SkipWithin
  <2>3. Skip(e, q, Word) \in q .. e.len
    BY <1>1, <2>2, SkipWithin
  <2> QED BY <1>1, <2>1, <2>2, <2>3
<1>3. DeleteNextWord(e) = [e EXCEPT !.buf = buf, !.len = len]
  BY DEF DeleteNextWord
<1> HIDE DEF w
<1>4. len \in 0 .. e.len /\ len \in Nat /\ e.pos \in 0 .. len
  BY <1>1, <1>2
<1>5. cut \in Seq(Chars) /\ Len(cut) = e.len - (w - e.pos)
  <2>1. e.pos \in 0 .. e.len
    BY <1>1
  <2> QED BY <1>2, <2>1, CutStays DEF Texts
<1>6. rest \in Seq(Chars) /\ Len(rest) = Len(e.buf) - len
  <2>1. len + 1 \in Nat \ {0}
    BY <1>4
  <2>2. rest \in Seq(Chars)
        /\ Len(rest) = IF len + 1 <= Len(e.buf) THEN Len(e.buf) - (len + 1) + 1 ELSE 0
    BY <1>1, <2>1, Piece
  <2> HIDE DEF rest, len
  <2> QED BY <1>1, <1>4, <2>2
<1> HIDE DEF cut, rest
<1>7. buf \in Seq(Chars) /\ Len(buf) = Len(cut) + Len(rest)
  BY <1>5, <1>6, ConcatProperties
<1> HIDE DEF buf
<1>8. buf \in Texts /\ len \in 0 .. Len(buf)
  <2>1. Len(cut) = len
    BY <1>5
  <2> HIDE DEF len
  <2>2. Len(buf) = Len(e.buf)
    BY <1>1, <1>4, <1>6, <1>7, <2>1
  <2>3. len \in 0 .. Len(e.buf)
    BY <1>1, <1>4
  <2> QED BY <1>1, <1>7, <2>2, <2>3 DEF Texts
<1>9. [e EXCEPT !.buf = buf, !.len = len] = [e EXCEPT !.buf = buf, !.len = len, !.pos = e.pos]
  BY DEF LineStates
<1> HIDE DEF len
<1>10. Stays(e, [e EXCEPT !.buf = buf, !.len = len, !.pos = e.pos])
  BY <1>4, <1>8, BufStays
<1> QED BY <1>3, <1>9, <1>10

LEMMA SwapCharsStays == ASSUME NEW e \in LineStates PROVE Stays(e, SwapChars(e))
<1>1. CASE e.pos > 0 /\ e.pos < e.len
  <2>1. /\ e.buf \in Seq(Chars) /\ Len(e.buf) \in Nat /\ e.len <= Len(e.buf) /\ e.pos <= e.len
        /\ e.len \in Nat /\ e.pos \in Nat /\ Len(e.buf) <= buflen /\ buflen \in Nat
    BY LineFacts
  <2>2. e.pos \in 1 .. Len(e.buf) /\ e.pos + 1 \in 1 .. Len(e.buf)
    BY <1>1, <2>1
  <2>3. e.buf[e.pos] \in Chars /\ e.buf[e.pos + 1] \in Chars
    BY <2>1, <2>2, ElementOfSeq
  <2>4. PICK a : a = [e.buf EXCEPT ![e.pos] = e.buf[e.pos + 1]]
    OBVIOUS
  <2>5. a \in Seq(Chars) /\ Len(a) = Len(e.buf)
    BY <2>1, <2>2, <2>3, <2>4, ExceptSeq
  <2>6. PICK b : b = [a EXCEPT ![e.pos + 1] = e.buf[e.pos]]
    OBVIOUS
  <2>7. b \in Seq(Chars) /\ Len(b) = Len(a)
    BY <2>2, <2>3, <2>5, <2>6, ExceptSeq
  <2>8. b \in Texts /\ e.len \in 0 .. Len(b)
    BY <2>1, <2>5, <2>7 DEF Texts
  <2>9. PICK pos : pos = IF e.pos # e.len - 1 THEN e.pos + 1 ELSE e.pos
    OBVIOUS
  <2>10. pos \in 0 .. e.len
    BY <1>1, <2>1, <2>9
  <2>11. SwapChars(e) = [e EXCEPT !.buf = b, !.len = e.len, !.pos = pos]
    <3>1. SwapChars(e) = [e EXCEPT !.buf = b, !.pos = pos]
      BY <1>1, <2>4, <2>6, <2>9 DEF SwapChars, LineStates
    <3> QED BY <3>1 DEF LineStates
  <2>12. Stays(e, [e EXCEPT !.buf = b, !.len = e.len, !.pos = pos])
    BY <2>8, <2>10, BufStays
  <2> QED BY <2>11, <2>12
<1>2. CASE ~(e.pos > 0 /\ e.pos < e.len)
  BY <1>2 DEF SwapChars, Stays
<1> QED BY <1>1, <1>2

LEMMA EditedStays ==
  ASSUME NEW e \in LineStates, NEW k \in EditingKeys, ByteBefore # Space
  PROVE  Stays(e, Edited(e, k))
<1>1. /\ Len(e.buf) \in Nat /\ e.len <= Len(e.buf) /\ e.pos <= e.len /\ e.len \in Nat /\ e.pos \in Nat
      /\ e.pos \in 0 .. e.len /\ e.len \in 0 .. e.len
  BY LineFacts
<1>2. CASE k \in {"move_left", "move_right", "go_to_start_of_line", "go_to_end_of_line"}
  <2>1. PICK pos : pos = CASE k = "move_left" -> Monus(e.pos, 1)
                           [] k = "move_right" -> (IF e.pos # e.len THEN e.pos + 1 ELSE e.pos)
                           [] k = "go_to_start_of_line" -> 0
                           [] k = "go_to_end_of_line" -> e.len
    OBVIOUS
  <2>2. pos \in 0 .. e.len
    BY <1>1, <1>2, <2>1 DEF Monus
  <2>3. Edited(e, k) = [e EXCEPT !.pos = pos]
    BY <1>2, <2>1 DEF Edited
  <2> QED BY <2>2, <2>3, PosStays
<1>3. CASE k = "delete_to_end_of_line"
  <2>1. Before(e, e.pos) \in Seq(Chars) /\ Len(Before(e, e.pos)) = e.pos
    <3>1. e.pos \in e.pos .. e.len
      BY <1>1
    <3> QED BY <1>1, <3>1, CutStays
  <2>2. PICK b : b = Before(e, e.pos)
    OBVIOUS
  <2>3. b \in Texts /\ e.pos \in 0 .. Len(b)
    BY <1>1, <2>1, <2>2, LineFacts DEF Texts
  <2> QED BY <1>3, <2>2, <2>3, PutStays DEF Edited
<1>4. CASE k = "clear_line"
  <2>1. <<>> \in Texts /\ 0 \in 0 .. Len(<<>>)
    BY EmptySeq, LineEditorAssumption DEF Texts
  <2> QED BY <1>4, <2>1, PutStays DEF Edited
<1>5. CASE k = "word_end"
  BY <1>5, MoveWordEndStays DEF Edited
<1>6. CASE k = "word_start"
  BY <1>6, MoveWordStartStays DEF Edited
<1>7. CASE k = "delete_right"
  BY <1>7, DeleteStays DEF Edited
<1>8. CASE k = "backspace"
  BY <1>8, BackspaceStays DEF Edited
<1>9. CASE k = "delete_previous_word"
  BY <1>9, DeletePrevWordStays DEF Edited
<1>10. CASE k = "delete_next_word"
  BY <1>10, DeleteNextWordStays DEF Edited
<1>11. CASE k = "swap_chars"
  BY <1>11, SwapCharsStays DEF Edited
<1> QED BY <1>2, <1>3, <1>4, <1>5, <1>6, <1>7, <1>8, <1>9, <1>10, <1>11 DEF EditingKeys
-----------------------------------------------------------------------------
(* A new line, with the spaces of its indentation.                         *)
NewLines == {r \in [line : LineStates, terminal : Terminals] : r.line.history_index = 0}
IndentedFrom(s, r, i) == IF i = 0 THEN [line |-> Line0, terminal |-> Prompted(s)]
                         ELSE Refresh(Inserted(r[i - 1].line, Space), r[i - 1].terminal)
Indented(s, n) == CHOOSE r : r = [i \in 0 .. n |-> IndentedFrom(s, r, i)]

LEMMA Line0Typed == Line0 \in LineStates /\ Line0.history_index = 0
<1>1. <<>> \in Texts /\ Len(<<>>) = 0
  BY EmptySeq, LineEditorAssumption DEF Texts
<1>2. PromptLen \in Nat \ {0} /\ 0 \in 0 .. buflen
  BY LineEditorAssumption
<1> QED BY <1>1, <1>2 DEF Line0, LineStates

LEMMA SpaceLetter == Space \in Chars
BY LineEditorAssumption

LEMMA IndentsOne ==
  ASSUME Cols \in Nat \ {0}, NEW r \in NewLines
  PROVE  Refresh(Inserted(r.line, Space), r.terminal) \in NewLines
<1>1. r.line \in LineStates /\ r.terminal \in Terminals /\ r.line.history_index = 0
  BY DEF NewLines
<1>2. PICK e : e = Inserted(r.line, Space)
  OBVIOUS
<1>3. e \in LineStates /\ e.history_index = 0
  BY <1>1, <1>2, SpaceLetter, InsertedStays DEF Stays
<1>4. PICK f : f = Refresh(e, r.terminal)
  OBVIOUS
<1>5. f.line \in LineStates /\ f.line.history_index = 0 /\ f.terminal \in Terminals
  BY <1>1, <1>3, <1>4, RefreshedLine, RefreshedTerminal DEF Stays
<1>6. f = [line |-> f.line, terminal |-> f.terminal]
  BY <1>4 DEF Refresh
<1>7. f \in [line : LineStates, terminal : Terminals]
  BY <1>5, <1>6
<1> QED BY <1>2, <1>4, <1>5, <1>7 DEF NewLines

LEMMA IndentedTyped ==
  ASSUME Cols \in Nat \ {0}, NEW s \in Terminals, NEW n \in Nat
  PROVE  /\ Indented(s, n)[n] \in NewLines
         /\ Indented(s, n) = [i \in 0 .. n |-> IndentedFrom(s, Indented(s, n), i)]
         /\ \A i \in 0 .. n : Indented(s, n)[i] \in NewLines
<1> DEFINE base == [line |-> Line0, terminal |-> Prompted(s)]
           step == [x \in NewLines \X (1 .. n) |->
                      Refresh(Inserted(x[1].line, Space), x[1].terminal)]
<1>1. base \in NewLines
  BY Line0Typed, PromptedTerminal DEF NewLines
<1>2. step \in [NewLines \X (1 .. n) -> NewLines]
  BY IndentsOne
<1>3. \A x \in NewLines, i \in 1 .. n :
        step[<<x, i>>] = Refresh(Inserted(x.line, Space), x.terminal)
  OBVIOUS
<1> HIDE DEF step
<1>4. PICK f \in [0 .. n -> NewLines] : StepsTo(f, n, base, step)
  <2> HIDE DEF base
  <2> QED BY <1>1, <1>2, Iterates
<1>5. f = [i \in 0 .. n |-> IndentedFrom(s, f, i)]
  <2>1. ASSUME NEW i \in 0 .. n PROVE f[i] = IndentedFrom(s, f, i)
    <3>1. CASE i = 0
      BY <1>4, <3>1 DEF StepsTo, IndentedFrom
    <3>2. CASE i # 0
      <4>1. i \in 1 .. n /\ i - 1 \in 0 .. n
        BY <3>2
      <4>2. f[i] = step[<<f[i - 1], i>>] /\ f[i - 1] \in NewLines
        BY <1>4, <4>1 DEF StepsTo
      <4> QED BY <1>3, <3>2, <4>1, <4>2 DEF IndentedFrom
    <3> QED BY <3>1, <3>2
  <2> QED BY <2>1
<1>6. PICK r : r = Indented(s, n)
  OBVIOUS
<1>7. r = [i \in 0 .. n |-> IndentedFrom(s, r, i)]
  BY <1>5, <1>6 DEF Indented
<1>8. r[0] \in NewLines
  BY <1>1, <1>7 DEF IndentedFrom
<1>9. ASSUME NEW i \in 1 .. n, r[i - 1] \in NewLines PROVE r[i] \in NewLines
  <2>1. r[i] = Refresh(Inserted(r[i - 1].line, Space), r[i - 1].terminal)
    BY <1>7 DEF IndentedFrom
  <2> QED BY <1>9, <2>1, IndentsOne
<1>10. \A i \in 0 .. n : r[i] \in NewLines
  BY <1>8, <1>9, Climbing
<1> QED BY <1>6, <1>7, <1>10

LEMMA NewLineTyped ==
  ASSUME Cols \in Nat \ {0}, NEW s \in Terminals, NEW n \in Nat
  PROVE  /\ NewLine(s, n).line \in LineStates /\ NewLine(s, n).line.history_index = 0
         /\ NewLine(s, n).terminal \in Terminals
<1>1. PICK r : r = Indented(s, n)[n]
  OBVIOUS
<1>2. NewLine(s, n) = Refresh(r.line, r.terminal)
  BY <1>1 DEF NewLine, Indented, IndentedFrom
<1>3. r \in NewLines
  BY <1>1, IndentedTyped
<1>4. PICK e \in LineStates : e = r.line /\ e.history_index = 0
  BY <1>3 DEF NewLines
<1>5. PICK t \in Terminals : t = r.terminal
  BY <1>3 DEF NewLines
<1>6. Stays(e, Refresh(e, t).line)
  BY RefreshedLine
<1>7. Refresh(e, t).line \in LineStates /\ Refresh(e, t).line.history_index = 0
  BY <1>4, <1>6 DEF Stays
<1>8. Refresh(e, t).terminal \in Terminals
  BY RefreshedTerminal
<1> QED BY <1>2, <1>4, <1>5, <1>7, <1>8
-----------------------------------------------------------------------------
(* The history: adding to it, loading it, what strtok and process_line do. *)
LEMMA HistoryFacts ==
  ASSUME NEW h \in Histories
  PROVE  /\ h \in Seq(Texts) /\ Len(h) \in 0 .. history_max_len /\ Len(h) \in Nat
         /\ history_max_len \in Nat \ {0} /\ DOMAIN h = 1 .. Len(h)
         /\ \A i \in 1 .. Len(h) : h[i] \in Texts
<1>1. h \in Seq(Texts) /\ Len(h) <= history_max_len
  BY DEF Histories
<1>2. Len(h) \in Nat /\ DOMAIN h = 1 .. Len(h) /\ history_max_len \in Nat \ {0}
  BY <1>1, LenProperties, LineEditorAssumption
<1>3. \A i \in 1 .. Len(h) : h[i] \in Texts
  BY <1>1, ElementOfSeq
<1> QED BY <1>1, <1>2, <1>3

LEMMA EmptyHistory == <<>> \in Histories
BY EmptySeq, LineEditorAssumption DEF Histories

LEMMA EmptyText == <<>> \in Texts /\ Len(<<>>) = 0
BY EmptySeq, LineEditorAssumption DEF Texts

LEMMA AddedTyped ==
  ASSUME NEW h \in Histories, NEW line \in Texts
  PROVE  /\ Added(h, line) \in Histories /\ Added(h, line) # <<>>
         /\ Len(Added(h, line)) \in 1 .. history_max_len
<1>1. /\ h \in Seq(Texts) /\ Len(h) \in 0 .. history_max_len /\ Len(h) \in Nat
      /\ history_max_len \in Nat \ {0}
  BY HistoryFacts
<1>2. CASE h # <<>> /\ Last(h) = line
  <2>1. Len(h) # 0
    BY <1>1, <1>2, EmptySeq
  <2> QED BY <1>1, <1>2, <2>1 DEF Added
<1>3. CASE ~(h # <<>> /\ Last(h) = line)
  <2>1. PICK g : g = IF Len(h) = history_max_len THEN Tail(h) ELSE h
    OBVIOUS
  <2>2. g \in Seq(Texts) /\ Len(g) \in Nat /\ Len(g) < history_max_len
    <3>1. CASE Len(h) = history_max_len
      <4>1. h # <<>>
        BY <1>1, <3>1, EmptySeq
      <4> QED BY <1>1, <2>1, <3>1, <4>1, HeadTailProperties
    <3>2. CASE Len(h) # history_max_len
      BY <1>1, <2>1, <3>2
    <3> QED BY <3>1, <3>2
  <2>3. Added(h, line) = Append(g, line)
    BY <1>3, <2>1 DEF Added
  <2>4. Append(g, line) \in Seq(Texts) /\ Append(g, line) # <<>> /\ Len(Append(g, line)) = Len(g) + 1
    BY <2>2, AppendProperties
  <2> QED BY <1>1, <2>2, <2>3, <2>4 DEF Histories
<1> QED BY <1>2, <1>3

LEMMA ScratchedTyped ==
  ASSUME NEW h \in Histories, h # <<>>
  PROVE  Scratched(h) \in Histories /\ Len(Scratched(h)) = Len(h) - 1
<1>1. h \in Seq(Texts) /\ Len(h) \in 1 .. history_max_len /\ history_max_len \in Nat
  BY HistoryFacts, EmptySeq
<1>2. SubSeq(h, 1, Len(h) - 1) \in Seq(Texts) /\ Len(SubSeq(h, 1, Len(h) - 1)) = Len(h) - 1
  <2>1. Len(h) - 1 \in Nat /\ Len(h) - 1 <= Len(h)
    BY <1>1
  <2>2. /\ SubSeq(h, 1, Len(h) - 1) \in Seq(Texts)
        /\ Len(SubSeq(h, 1, Len(h) - 1)) = IF 1 <= Len(h) - 1 THEN Len(h) - 1 - 1 + 1 ELSE 0
    BY <1>1, <2>1, Piece
  <2>3. PICK n \in Nat \ {0} : n = Len(h)
    BY <1>1
  <2>4. (IF 1 <= n - 1 THEN n - 1 - 1 + 1 ELSE 0) = n - 1
    OBVIOUS
  <2> QED BY <2>2, <2>3, <2>4
<1> QED BY <1>1, <1>2 DEF Scratched, Front, Histories

LoadedFrom(lines, h, i) == IF i = 0 THEN <<>> ELSE Added(h[i - 1], lines[i])
Loaded(lines) == CHOOSE h : h = [i \in 0 .. Len(lines) |-> LoadedFrom(lines, h, i)]

LEMMA LoadSteps ==
  ASSUME NEW lines \in Seq(Texts)
  PROVE  \E h : /\ h[0] = <<>> /\ h[Len(lines)] = Load(lines)
                /\ \A i \in 1 .. Len(lines) : h[i] = Added(h[i - 1], lines[i])
<1> DEFINE n == Len(lines)
           step == [x \in Histories \X (1 .. n) |-> Added(x[1], lines[x[2]])]
<1>1. n \in Nat /\ \A i \in 1 .. n : lines[i] \in Texts
  BY LenProperties, ElementOfSeq
<1> HIDE DEF n
<1>2. step \in [Histories \X (1 .. n) -> Histories]
  BY <1>1, AddedTyped
<1>3. \A x \in Histories, i \in 1 .. n : step[<<x, i>>] = Added(x, lines[i])
  OBVIOUS
<1> HIDE DEF step
<1>4. PICK f \in [0 .. n -> Histories] : StepsTo(f, n, <<>>, step)
  BY <1>1, <1>2, EmptyHistory, Iterates
<1>5. f = [i \in 0 .. n |-> LoadedFrom(lines, f, i)]
  <2>1. ASSUME NEW i \in 0 .. n PROVE f[i] = LoadedFrom(lines, f, i)
    <3>1. CASE i = 0
      BY <1>4, <3>1 DEF StepsTo, LoadedFrom
    <3>2. CASE i # 0
      <4>1. i \in 1 .. n /\ i - 1 \in 0 .. n
        BY <1>1, <3>2
      <4>2. f[i] = step[<<f[i - 1], i>>] /\ f[i - 1] \in Histories
        BY <1>4, <4>1 DEF StepsTo
      <4> QED BY <1>3, <3>2, <4>1, <4>2 DEF LoadedFrom
    <3> QED BY <3>1, <3>2
  <2> QED BY <2>1
<1>6. PICK h : h = Loaded(lines)
  OBVIOUS
<1>7. h = [i \in 0 .. n |-> LoadedFrom(lines, h, i)]
  BY <1>5, <1>6 DEF Loaded, n
<1>8. h[0] = <<>> /\ \A i \in 1 .. n : h[i] = Added(h[i - 1], lines[i])
  BY <1>1, <1>7 DEF LoadedFrom
<1>9. h[n] = Load(lines)
  BY <1>6 DEF Load, Loaded, LoadedFrom, n
<1> QED BY <1>8, <1>9 DEF n

LEMMA LoadTyped == ASSUME NEW lines \in Seq(Texts) PROVE Load(lines) \in Histories
<1>1. PICK h : /\ h[0] = <<>> /\ h[Len(lines)] = Load(lines)
               /\ \A i \in 1 .. Len(lines) : h[i] = Added(h[i - 1], lines[i])
  BY LoadSteps
<1>2. Len(lines) \in Nat /\ \A i \in 1 .. Len(lines) : lines[i] \in Texts
  BY LenProperties, ElementOfSeq
<1>3. \A i \in 1 .. Len(lines) : h[i - 1] \in Histories => h[i] \in Histories
  BY <1>1, <1>2, AddedTyped
<1>4. \A i \in 0 .. Len(lines) : h[i] \in Histories
  BY <1>1, <1>2, <1>3, EmptyHistory, Climbing
<1> QED BY <1>1, <1>2, <1>4

FilteredFrom(lines, r, i) == IF i = 0 THEN <<>>
                             ELSE IF lines[i] = <<>> THEN r[i - 1]
                             ELSE Append(r[i - 1], lines[i])
Filtered(lines) == CHOOSE r : r = [i \in 0 .. Len(lines) |-> FilteredFrom(lines, r, i)]

LEMMA NonEmptySteps ==
  ASSUME NEW lines \in Seq(Texts)
  PROVE  \E r : /\ r[0] = <<>> /\ r[Len(lines)] = NonEmpty(lines)
                /\ \A i \in 1 .. Len(lines) :
                     r[i] = IF lines[i] = <<>> THEN r[i - 1] ELSE Append(r[i - 1], lines[i])
<1> DEFINE n == Len(lines)
           step == [x \in Seq(Texts) \X (1 .. n) |->
                      IF lines[x[2]] = <<>> THEN x[1] ELSE Append(x[1], lines[x[2]])]
<1>1. n \in Nat /\ \A i \in 1 .. n : lines[i] \in Texts
  BY LenProperties, ElementOfSeq
<1> HIDE DEF n
<1>2. step \in [Seq(Texts) \X (1 .. n) -> Seq(Texts)]
  BY <1>1, AppendProperties
<1>3. \A x \in Seq(Texts), i \in 1 .. n :
        step[<<x, i>>] = IF lines[i] = <<>> THEN x ELSE Append(x, lines[i])
  OBVIOUS
<1> HIDE DEF step
<1>4. PICK f \in [0 .. n -> Seq(Texts)] : StepsTo(f, n, <<>>, step)
  BY <1>1, <1>2, EmptySeq, Iterates
<1>5. f = [i \in 0 .. n |-> FilteredFrom(lines, f, i)]
  <2>1. ASSUME NEW i \in 0 .. n PROVE f[i] = FilteredFrom(lines, f, i)
    <3>1. CASE i = 0
      BY <1>4, <3>1 DEF StepsTo, FilteredFrom
    <3>2. CASE i # 0
      <4>1. i \in 1 .. n /\ i - 1 \in 0 .. n
        BY <1>1, <3>2
      <4>2. f[i] = step[<<f[i - 1], i>>] /\ f[i - 1] \in Seq(Texts)
        BY <1>4, <4>1 DEF StepsTo
      <4> QED BY <1>3, <3>2, <4>1, <4>2 DEF FilteredFrom
    <3> QED BY <3>1, <3>2
  <2> QED BY <2>1
<1>6. PICK r : r = Filtered(lines)
  OBVIOUS
<1>7. r = [i \in 0 .. n |-> FilteredFrom(lines, r, i)]
  BY <1>5, <1>6 DEF Filtered, n
<1>8. /\ r[0] = <<>>
      /\ \A i \in 1 .. n : r[i] = IF lines[i] = <<>> THEN r[i - 1] ELSE Append(r[i - 1], lines[i])
  <2>1. \A i \in 0 .. n : r[i] = FilteredFrom(lines, r, i)
    BY <1>7
  <2>2. r[0] = <<>>
    BY <1>1, <2>1 DEF FilteredFrom
  <2>3. ASSUME NEW i \in 1 .. n
        PROVE  r[i] = IF lines[i] = <<>> THEN r[i - 1] ELSE Append(r[i - 1], lines[i])
    <3>1. i \in 0 .. n /\ i # 0
      BY <1>1
    <3> QED BY <2>1, <3>1 DEF FilteredFrom
  <2> QED BY <2>2, <2>3
<1>9. r[n] = NonEmpty(lines)
  BY <1>6 DEF NonEmpty, Filtered, FilteredFrom, n
<1> QED BY <1>8, <1>9 DEF n

Words == Texts \ {<<>>}

LEMMA NonEmptyTyped ==
  ASSUME NEW lines \in Seq(Texts)
  PROVE  NonEmpty(lines) \in Seq(Words) /\ Len(NonEmpty(lines)) <= Len(lines)
<1>1. PICK r : /\ r[0] = <<>> /\ r[Len(lines)] = NonEmpty(lines)
               /\ \A i \in 1 .. Len(lines) :
                    r[i] = IF lines[i] = <<>> THEN r[i - 1] ELSE Append(r[i - 1], lines[i])
  BY NonEmptySteps
<1>2. Len(lines) \in Nat /\ \A i \in 1 .. Len(lines) : lines[i] \in Texts
  BY LenProperties, ElementOfSeq
<1> DEFINE G == {i \in 0 .. Len(lines) : r[i] \in Seq(Words) /\ Len(r[i]) <= i}
<1>3. 0 \in G
  <2>1. <<>> \in Seq(Words) /\ Len(<<>>) = 0
    BY EmptySeq
  <2>2. r[0] \in Seq(Words) /\ Len(r[0]) <= 0
    BY <1>1, <2>1
  <2> QED BY <1>2, <2>2
<1>4. ASSUME NEW i \in 1 .. Len(lines), i - 1 \in G PROVE i \in G
  <2>1. r[i - 1] \in Seq(Words) /\ Len(r[i - 1]) <= i - 1 /\ Len(r[i - 1]) \in Nat
    BY <1>4, LenProperties
  <2>2. CASE lines[i] = <<>>
    BY <1>1, <2>1, <2>2
  <2>3. CASE lines[i] # <<>>
    <3>1. lines[i] \in Words
      BY <1>2, <2>3 DEF Words
    <3>2. Append(r[i - 1], lines[i]) \in Seq(Words)
          /\ Len(Append(r[i - 1], lines[i])) = Len(r[i - 1]) + 1
      BY <2>1, <3>1, AppendProperties
    <3>3. r[i] = Append(r[i - 1], lines[i])
      BY <1>1, <2>3
    <3>4. PICK s : s = r[i]
      OBVIOUS
    <3>5. s \in Seq(Words) /\ Len(s) <= i
      BY <2>1, <3>2, <3>3, <3>4
    <3> QED BY <3>4, <3>5
  <2> QED BY <2>2, <2>3
<1> HIDE DEF G
<1>5. \A i \in 0 .. Len(lines) : i \in G
  BY <1>2, <1>3, <1>4, Climbs
<1> QED BY <1>1, <1>2, <1>5 DEF G

LEMMA WordsAreTexts == ASSUME NEW s \in Seq(Words) PROVE s \in Seq(Texts)
BY SeqMonotonic DEF Words

LEMMA TokensTyped ==
  ASSUME NEW lines \in Seq(Texts)
  PROVE  /\ Tokens(lines) \in Seq(Texts)
         /\ Tokens(lines) \in Seq(Words) \/ (repl.open /\ Tokens(lines) = << <<>> >>)
<1>1. NonEmpty(lines) \in Seq(Words) /\ NonEmpty(lines) \in Seq(Texts)
  BY NonEmptyTyped, WordsAreTexts
<1>2. << <<>> >> \in Seq(Texts)
  BY EmptyText
<1>3. CASE NonEmpty(lines) = <<>> /\ repl.open
  BY <1>2, <1>3 DEF Tokens
<1>4. CASE ~(NonEmpty(lines) = <<>> /\ repl.open)
  BY <1>1, <1>4 DEF Tokens
<1> QED BY <1>3, <1>4

Progress == [history : Histories, open : BOOLEAN, adds : BOOLEAN, entered : Histories]

LEMMA LastOnesTyped == ASSUME NEW s \in Seq(Texts) PROVE
  /\ LastOnes(s) \in Histories
  /\ Len(LastOnes(s)) = IF Len(s) <= history_max_len THEN Len(s) ELSE history_max_len
  /\ \A i \in 1 .. Len(LastOnes(s)) : LastOnes(s)[i] = s[Len(s) - Len(LastOnes(s)) + i]
<1>1. Len(s) \in Nat /\ history_max_len \in Nat
  BY LenProperties, LineEditorAssumption
<1>2. PICK n \in Nat : n = Len(s)
  BY <1>1
<1>3. PICK m \in Nat : m = history_max_len
  BY <1>1
<1>4. PICK k : k = Monus(n, m) + 1
  OBVIOUS
<1>5. k \in Nat \ {0} /\ k = IF n > m THEN n - m + 1 ELSE 1
  BY <1>4 DEF Monus
<1>6. LastOnes(s) = SubSeq(s, k, n)
  BY <1>2, <1>3, <1>4 DEF LastOnes
<1>7. /\ SubSeq(s, k, n) \in Seq(Texts)
      /\ Len(SubSeq(s, k, n)) = IF k <= n THEN n - k + 1 ELSE 0
      /\ \A i \in 1 .. n - k + 1 : SubSeq(s, k, n)[i] = s[k + i - 1]
  <2>1. n <= Len(s)
    BY <1>2
  <2> QED BY <1>5, <2>1, Piece
<1>8. (IF k <= n THEN n - k + 1 ELSE 0) = IF n <= m THEN n ELSE m
  BY <1>5
<1>9. PICK c \in Nat : c = IF n <= m THEN n ELSE m
  OBVIOUS
<1>10. c = n - k + 1 /\ c <= m
  BY <1>5, <1>9
<1>11. Len(LastOnes(s)) = c
  BY <1>6, <1>7, <1>8, <1>9
<1>12. ASSUME NEW i \in 1 .. c PROVE LastOnes(s)[i] = s[n - c + i]
  <2>1. k + i - 1 = n - c + i
    BY <1>5, <1>10
  <2> QED BY <1>6, <1>7, <1>10, <2>1
<1> QED BY <1>2, <1>3, <1>6, <1>7, <1>9, <1>10, <1>11, <1>12 DEF Histories

LEMMA ProcessedTyped ==
  ASSUME NEW r \in Progress, NEW line \in Texts, NEW open \in BOOLEAN
  PROVE  Processed(r, line, open) \in Progress
<1>1. CASE ~r.open /\ Blanks(line)
  BY <1>1 DEF Processed
<1>2. CASE ~(~r.open /\ Blanks(line))
  <2>1. r.history \in Histories /\ r.entered \in Histories /\ r.entered \in Seq(Texts)
    BY DEF Progress, Histories
  <2>2. PICK h : h = Added(r.history, line)
    OBVIOUS
  <2>3. h \in Histories
    BY <2>1, <2>2, AddedTyped
  <2>4. PICK e : e = IF line = <<>> \/ (r.entered # <<>> /\ Last(r.entered) = line)
                     THEN r.entered ELSE LastOnes(Append(r.entered, line))
    OBVIOUS
  <2>5. e \in Histories
    <3>1. Append(r.entered, line) \in Seq(Texts)
      BY <2>1, AppendProperties
    <3>2. LastOnes(Append(r.entered, line)) \in Histories
      BY <3>1, LastOnesTyped
    <3> QED BY <2>1, <2>4, <3>2
  <2>6. Processed(r, line, open) = [history |-> h, open |-> open, adds |-> TRUE, entered |-> e]
    BY <1>2, <2>2, <2>4 DEF Processed
  <2> QED BY <2>3, <2>5, <2>6 DEF Progress
<1> QED BY <1>1, <1>2

ProcessedFrom(lines, open, start, r, i) ==
  IF i = 0 THEN start ELSE Processed(r[i - 1], lines[i], open[i])
AllProcessed(lines, open, start) ==
  CHOOSE r : r = [i \in 0 .. Len(lines) |-> ProcessedFrom(lines, open, start, r, i)]

LEMMA ProcessSteps ==
  ASSUME NEW lines \in Seq(Texts), NEW open \in [DOMAIN lines -> BOOLEAN], NEW start \in Progress
  PROVE  \E r : /\ r[0] = start /\ r[Len(lines)] = Process(lines, open, start)
                /\ \A i \in 1 .. Len(lines) : r[i] = Processed(r[i - 1], lines[i], open[i])
<1> DEFINE n == Len(lines)
           step == [x \in Progress \X (1 .. n) |-> Processed(x[1], lines[x[2]], open[x[2]])]
<1>1. n \in Nat /\ DOMAIN lines = 1 .. n /\ \A i \in 1 .. n : lines[i] \in Texts
  BY LenProperties, ElementOfSeq
<1> HIDE DEF n
<1>2. step \in [Progress \X (1 .. n) -> Progress]
  BY <1>1, ProcessedTyped
<1>3. \A x \in Progress, i \in 1 .. n : step[<<x, i>>] = Processed(x, lines[i], open[i])
  OBVIOUS
<1> HIDE DEF step
<1>4. PICK f \in [0 .. n -> Progress] : StepsTo(f, n, start, step)
  BY <1>1, <1>2, Iterates
<1>5. f = [i \in 0 .. n |-> ProcessedFrom(lines, open, start, f, i)]
  <2>1. ASSUME NEW i \in 0 .. n PROVE f[i] = ProcessedFrom(lines, open, start, f, i)
    <3>1. CASE i = 0
      BY <1>4, <3>1 DEF StepsTo, ProcessedFrom
    <3>2. CASE i # 0
      <4>1. i \in 1 .. n /\ i - 1 \in 0 .. n
        BY <1>1, <3>2
      <4>2. f[i] = step[<<f[i - 1], i>>] /\ f[i - 1] \in Progress
        BY <1>4, <4>1 DEF StepsTo
      <4> QED BY <1>3, <3>2, <4>1, <4>2 DEF ProcessedFrom
    <3> QED BY <3>1, <3>2
  <2> QED BY <2>1
<1>6. PICK r : r = AllProcessed(lines, open, start)
  OBVIOUS
<1>7. r = [i \in 0 .. n |-> ProcessedFrom(lines, open, start, r, i)]
  BY <1>5, <1>6 DEF AllProcessed, n
<1>8. r[0] = start /\ \A i \in 1 .. n : r[i] = Processed(r[i - 1], lines[i], open[i])
  BY <1>1, <1>7 DEF ProcessedFrom
<1>9. r[n] = Process(lines, open, start)
  BY <1>6 DEF Process, AllProcessed, ProcessedFrom, n
<1> QED BY <1>8, <1>9 DEF n

(* What every line keeps, processing them keeps.                           *)
LEMMA ProcessKeeps ==
  ASSUME NEW lines \in Seq(Texts), NEW open \in [DOMAIN lines -> BOOLEAN],
         NEW P, P \subseteq Progress, NEW start \in P,
         \A i \in 1 .. Len(lines) : \A x \in P : Processed(x, lines[i], open[i]) \in P
  PROVE  Process(lines, open, start) \in P
<1>1. start \in Progress
  OBVIOUS
<1>2. PICK r : /\ r[0] = start /\ r[Len(lines)] = Process(lines, open, start)
               /\ \A i \in 1 .. Len(lines) : r[i] = Processed(r[i - 1], lines[i], open[i])
  BY <1>1, ProcessSteps
<1>3. Len(lines) \in Nat
  BY LenProperties
<1>4. r[0] \in P /\ \A i \in 1 .. Len(lines) : r[i - 1] \in P => r[i] \in P
  BY <1>2
<1>5. \A i \in 0 .. Len(lines) : r[i] \in P
  BY <1>3, <1>4, Climbing
<1> QED BY <1>2, <1>3, <1>5

LEMMA ProcessTyped ==
  ASSUME NEW lines \in Seq(Texts), NEW open \in [DOMAIN lines -> BOOLEAN], NEW start \in Progress
  PROVE  Process(lines, open, start) \in Progress
<1>1. \A i \in 1 .. Len(lines) : lines[i] \in Texts /\ open[i] \in BOOLEAN
  BY LenProperties, ElementOfSeq
<1>2. \A i \in 1 .. Len(lines) : \A x \in Progress : Processed(x, lines[i], open[i]) \in Progress
  BY <1>1, ProcessedTyped
<1> QED BY <1>2, ProcessKeeps
-----------------------------------------------------------------------------
(* Types: the line fits its buffer and the cursor the line, whatever was   *)
(* typed; the history its limits.                                          *)
EditorTypes ==
  /\ typist \in Typists
  /\ keystrokes \in 0 .. MaxKeys
  /\ peeked \in Keys \cup {None}
  /\ searching # None => searching \in Searches /\ searching.searchpos <= Len(history) + 1
  /\ l \in LineStates /\ l.history_index < Len(history)
  /\ history \in Histories
  /\ saved \in Histories
  /\ repl \in Inputs
  /\ screen \in Terminals
  /\ hop \in Hops
  /\ past \in [entered : Histories, disturbed : BOOLEAN]

LEMMA ColsTyped == ASSUME typist \in Typists PROVE Cols \in Nat \ {0}
BY LineEditorAssumption DEF IsTypist, Cols

LEMMA TypesGoOn ==
  ASSUME EditorTypes, typist' = typist, keystrokes' \in 0 .. MaxKeys,
         peeked' \in Keys \cup {None},
         searching' # None =>
           searching' \in Searches /\ searching'.searchpos <= Len(history') + 1,
         l' \in LineStates, l'.history_index < Len(history'),
         history' \in Histories, saved' \in Histories, repl' \in Inputs,
         screen' \in Terminals, hop' \in Hops,
         past' \in [entered : Histories, disturbed : BOOLEAN]
  PROVE  EditorTypes'
<1>1. Terminals' = Terminals
  BY DEF Terminals, Cols
<1> QED BY <1>1 DEF EditorTypes

LEMMA InitialTexts ==
  ASSUME NEW h \in InitialHistories PROVE h \in Histories
<1>1. /\ h \in Seq(Seq(Chars)) /\ Len(h) <= history_max_len
      /\ \A i \in DOMAIN h : Len(h[i]) <= buflen
  BY LineEditorAssumption
<1>2. h \in [1 .. Len(h) -> Seq(Chars)] /\ DOMAIN h = 1 .. Len(h) /\ Len(h) \in Nat
  BY <1>1, LenProperties
<1>3. h \in [1 .. Len(h) -> Texts]
  BY <1>1, <1>2 DEF Texts
<1>4. h \in Seq(Texts)
  BY <1>2, <1>3, SeqDef
<1> QED BY <1>1, <1>4 DEF Histories

LEMMA NoHopTyped == NoHop \in Hops
BY DEF NoHop, Hops, HopType

LEMMA TypesAtFirst == EditorInit => EditorTypes
<1> SUFFICES ASSUME EditorInit PROVE EditorTypes
  OBVIOUS
<1>1. Cols \in Nat \ {0}
  BY ColsTyped DEF EditorInit
<1>2. Fresh \in Terminals /\ 0 \in Nat
  BY <1>1, FreshTerminal
<1>3. l \in LineStates /\ l.history_index = 0 /\ screen \in Terminals
  BY <1>1, <1>2, NewLineTyped DEF EditorInit
<1>4. saved \in Histories /\ saved \in Seq(Texts)
  BY InitialTexts DEF EditorInit, Histories
<1>5. history \in Histories /\ Len(history) \in 1 .. history_max_len
  BY <1>4, LoadTyped, EmptyText, AddedTyped DEF EditorInit
<1>6. repl \in Inputs
  <2>1. <<>> \in Seq(Texts)
    BY EmptySeq
  <2> QED BY <2>1 DEF EditorInit, Inputs
<1>7. hop \in Hops
  BY NoHopTyped DEF EditorInit
<1>8. past \in [entered : Histories, disturbed : BOOLEAN]
  <2>1. NonEmpty(saved) \in Seq(Texts) /\ Len(NonEmpty(saved)) <= Len(saved)
    BY <1>4, NonEmptyTyped, WordsAreTexts
  <2>2. Len(NonEmpty(saved)) \in Nat /\ Len(saved) \in Nat /\ Len(saved) <= history_max_len
        /\ history_max_len \in Nat
    BY <1>4, <2>1, LenProperties, LineEditorAssumption DEF Histories
  <2>3. NonEmpty(saved) \in Histories
    BY <2>1, <2>2 DEF Histories
  <2> QED BY <2>3 DEF EditorInit
<1>9. keystrokes \in 0 .. MaxKeys
  BY LineEditorAssumption DEF EditorInit
<1>10. typist \in Typists /\ peeked = None /\ searching = None
  BY DEF EditorInit
<1>11. l.history_index < Len(history)
  BY <1>3, <1>5, LineEditorAssumption
<1> QED BY <1>3, <1>4, <1>5, <1>6, <1>7, <1>8, <1>9, <1>10, <1>11 DEF EditorTypes
-----------------------------------------------------------------------------
LEMMA TypedKey ==
  ASSUME EditorTypes, NEW k, Typing(k)
  PROVE  keystrokes' \in 0 .. MaxKeys /\ k \in typist.keys
BY LineEditorAssumption DEF Typing, EditorTypes

LEMMA KeyTyped ==
  ASSUME EditorTypes, NEW k, ReadKey(k)
  PROVE  /\ typist' = typist /\ keystrokes' \in 0 .. MaxKeys /\ peeked' \in Keys \cup {None}
         /\ searching = None
BY TypedKey DEF ReadKey, EditorTypes

LEMMA Hop0Typed == ASSUME EditorTypes PROVE Hop0 \in Hops
BY DEF EditorTypes, Hop0, Hops, Restored

LEMMA Screen0Typed == ASSUME EditorTypes PROVE Screen0 \in Terminals
<1>1. screen \in Terminals /\ Cols \in Nat \ {0}
  BY ColsTyped DEF EditorTypes
<1>2. hop.restore.up \in Int /\ hop.restore.right \in Int
  BY DEF EditorTypes, Hops, HopType
<1> QED BY <1>1, <1>2, OtherTerminals DEF Screen0

LEMMA ShowTyped ==
  ASSUME EditorTypes, NEW e \in LineStates, NEW s \in Terminals, Show(e, s)
  PROVE  /\ l' \in LineStates /\ l'.history_index = e.history_index
         /\ screen' \in Terminals
<1>1. Cols \in Nat \ {0}
  BY ColsTyped DEF EditorTypes
<1> QED BY <1>1, RefreshedLine, RefreshedTerminal DEF Show, Stays

LEMMA BeginTyped ==
  ASSUME EditorTypes, NEW h \in Histories, NEW s \in Terminals, NEW n \in Nat, Begin(h, s, n)
  PROVE  /\ l' \in LineStates /\ history' \in Histories /\ l'.history_index < Len(history')
         /\ screen' \in Terminals
<1>1. Cols \in Nat \ {0}
  BY ColsTyped DEF EditorTypes
<1>2. l' \in LineStates /\ l'.history_index = 0 /\ screen' \in Terminals
  BY <1>1, NewLineTyped DEF Begin
<1>3. history' \in Histories /\ Len(history') \in 1 .. history_max_len /\ history_max_len \in Nat
  BY EmptyText, AddedTyped, LineEditorAssumption DEF Begin
<1> QED BY <1>2, <1>3
-----------------------------------------------------------------------------
LEMMA EditTypes ==
  ASSUME EditorTypes, ByteBefore # Space, NEW k, Edit(k) PROVE EditorTypes'
<1>1. /\ k \in EditingKeys /\ Key(k) /\ hop' = Hop0 /\ UNCHANGED <<history, saved, repl, past>>
      /\ Show(Edited(l, k), Screen0) \/ (l' = Edited(l, k) /\ screen' = Screen0)
  BY DEF Edit
<1>2. PICK e : e = Edited(l, k)
  OBVIOUS
<1>3. l \in LineStates /\ e \in LineStates /\ e.history_index = l.history_index
  BY <1>1, <1>2, EditedStays DEF EditorTypes, Stays
<1>4. Screen0 \in Terminals /\ Hop0 \in Hops
  BY Screen0Typed, Hop0Typed
<1>5. l' \in LineStates /\ l'.history_index = l.history_index /\ screen' \in Terminals
  BY <1>1, <1>2, <1>3, <1>4, ShowTyped
<1>6. /\ typist' = typist /\ keystrokes' \in 0 .. MaxKeys /\ peeked' \in Keys \cup {None}
      /\ searching = None /\ searching' = searching
  BY <1>1, KeyTyped DEF Key
<1> QED BY <1>1, <1>4, <1>5, <1>6, TypesGoOn DEF EditorTypes

LEMMA ClearScreenTypes == ASSUME EditorTypes, ClearScreen PROVE EditorTypes'
<1>1. Screen0 \in Terminals /\ Hop0 \in Hops /\ l \in LineStates /\ Cols \in Nat \ {0}
  BY Screen0Typed, Hop0Typed, ColsTyped DEF EditorTypes
<1>2. Cleared(Screen0) \in Terminals
  BY <1>1, OtherTerminals
<1>3. l' \in LineStates /\ l'.history_index = l.history_index /\ screen' \in Terminals
  BY <1>1, <1>2, ShowTyped DEF ClearScreen
<1>4. /\ typist' = typist /\ keystrokes' \in 0 .. MaxKeys /\ peeked' \in Keys \cup {None}
      /\ searching = None /\ searching' = searching
  BY KeyTyped DEF Key, ClearScreen
<1> QED BY <1>1, <1>3, <1>4, TypesGoOn DEF EditorTypes, ClearScreen

LEMMA TruncTyped ==
  ASSUME NEW a \in Int, NEW n \in Nat \ {0} PROVE TruncMod(a, n) \in Int /\ TruncDiv(a, n) \in Int
<1>1. CASE a >= 0
  <2>1. a % n \in 0 .. n - 1 /\ a \div n \in Nat
    <3>1. a \in Nat
      BY <1>1
    <3> QED BY <3>1, Divided
  <2> QED BY <1>1, <2>1 DEF TruncMod, TruncDiv
<1>2. CASE ~(a >= 0)
  <2>1. PICK b \in Nat : b = -a
    BY <1>2
  <2>2. b % n \in 0 .. n - 1 /\ b \div n \in Nat
    BY Divided
  <2> QED BY <1>2, <2>1, <2>2 DEF TruncMod, TruncDiv
<1> QED BY <1>1, <1>2

LEMMA HopTyped ==
  ASSUME EditorTypes, NEW e \in LineStates, NEW m \in Partners(e)
  PROVE  Hop(e, m) \in HopType
<1>1. m.up \in Int /\ m.at \in Int
  <2>1. e.pos \in Nat
    BY LineFacts
  <2> QED BY <2>1 DEF Partners
<1>2. Hop0.sequence \in Nat /\ Cols \in Nat \ {0} /\ PromptLen \in Nat /\ e.pos \in Nat
  BY Hop0Typed, ColsTyped, LineEditorAssumption, LineFacts DEF EditorTypes, Hops
<1> DEFINE right == m.at - e.pos
           cursor == e.pos + PromptLen + 1
           row_end == Cols * (cursor \div Cols)
<1>3. right \in Int /\ cursor \in Nat /\ right + Cols \in Int
  BY <1>1, <1>2
<1>4. cursor \div Cols \in Nat
  BY <1>2, <1>3, Divided
<1>5. row_end - (m.at + PromptLen) \in Int
  <2>1. PICK d \in Nat : d = cursor \div Cols
    BY <1>4
  <2>2. Cols * d \in Int
    BY <1>2
  <2> QED BY <1>1, <1>2, <2>1, <2>2
<1>6. TruncMod(right + Cols, Cols) \in Int /\ TruncDiv(row_end - (m.at + PromptLen), Cols) \in Int
  <2> HIDE DEF row_end, right
  <2> QED BY <1>2, <1>3, <1>5, TruncTyped
<1>7. PICK q \in Int : q = TruncDiv(row_end - (m.at + PromptLen), Cols)
  BY <1>6
<1>8. PICK o : o = (cursor > Cols /\ -right >= cursor % Cols)
  OBVIOUS
<1>9. PICK up : up = IF o THEN m.up + 1 + q ELSE m.up
  OBVIOUS
<1>10. PICK r : r = IF o THEN TruncMod(right + Cols, Cols) ELSE right
  OBVIOUS
<1>11. Hop(e, m) = [id |-> Hop0.sequence + 1, up |-> up, right |-> r]
  BY <1>7, <1>8, <1>9, <1>10 DEF Hop
<1>12. up \in Int /\ r \in Int
  BY <1>1, <1>3, <1>6, <1>9, <1>10
<1> QED BY <1>2, <1>11, <1>12 DEF HopType

LEMMA TypeCharTypes == ASSUME EditorTypes, NEW c, TypeChar(c) PROVE EditorTypes'
<1> DEFINE e == Inserted(l, c)
           r == Refresh(e, Screen0)
<1>1. c \in Chars
  BY DEF TypeChar
<1>2. /\ l \in LineStates /\ e \in LineStates /\ e.history_index = l.history_index
      /\ Cols \in Nat \ {0}
  BY <1>1, InsertedStays, ColsTyped DEF EditorTypes, Stays
<1>3. Screen0 \in Terminals /\ Hop0 \in Hops
  BY Screen0Typed, Hop0Typed
<1>4. /\ typist' = typist /\ keystrokes' \in 0 .. MaxKeys /\ peeked' \in Keys \cup {None}
      /\ searching = None /\ searching' = searching
  BY KeyTyped DEF Key, TypeChar
<1>5. repl' \in Inputs /\ UNCHANGED <<history, saved, past>>
  <2>1. PICK pasting \in (IF c = "P" THEN BOOLEAN ELSE {repl.pasting}) :
          repl' = [repl EXCEPT !.pasting = pasting]
    BY DEF TypeChar
  <2>2. repl \in Inputs
    BY DEF EditorTypes
  <2>3. pasting \in BOOLEAN
    BY <2>1, <2>2 DEF Inputs
  <2> QED BY <2>1, <2>2, <2>3 DEF TypeChar, Inputs
<1>6. r.line \in LineStates /\ r.line.history_index = l.history_index /\ r.terminal \in Terminals
  BY <1>2, <1>3, RefreshedLine, RefreshedTerminal DEF Stays
<1> SUFFICES l' \in LineStates /\ l'.history_index = l.history_index /\ screen' \in Terminals /\ hop' \in Hops
  BY <1>4, <1>5, TypesGoOn DEF EditorTypes
<1>7. CASE Show(Put(l, <<>>, 0), Screen0) /\ hop' = Hop0
  <2>1. Put(l, <<>>, 0) \in LineStates /\ Put(l, <<>>, 0).history_index = l.history_index
    <3>1. <<>> \in Texts /\ 0 \in 0 .. Len(<<>>)
      BY EmptyText
    <3> QED BY <1>2, <3>1, PutStays DEF Stays
  <2> QED BY <1>3, <1>7, <2>1, ShowTyped
<1>8. CASE l' = l /\ screen' = Screen0 /\ hop' = Hop0
  BY <1>2, <1>3, <1>8
<1>9. CASE l' = r.line /\ screen' = r.terminal /\ hop' = Hop0
  BY <1>3, <1>6, <1>9
<1>10. ASSUME l' = r.line, NEW m \in Partners(e), screen' = Moved(r.terminal, Hop(e, m).up, Hop(e, m).right),
              hop' = [sequence |-> Hop(e, m).id, restore |-> Hop(e, m),
                      threads |-> hop.threads \cup
                        {[id |-> Hop(e, m).id, up |-> Hop(e, m).up, right |-> Hop(e, m).right,
                          checked |-> FALSE]}]
       PROVE  l' \in LineStates /\ l'.history_index = l.history_index /\ screen' \in Terminals /\ hop' \in Hops
  <2>1. PICK h : h = Hop(e, m)
    OBVIOUS
  <2> HIDE DEF e, r
  <2>2. h \in HopType
    BY <1>2, <2>1, HopTyped
  <2>3. h.id \in Nat /\ h.up \in Int /\ h.right \in Int
    BY <2>2 DEF HopType
  <2>4. screen' \in Terminals
    BY <1>2, <1>6, <1>10, <2>1, <2>3, OtherTerminals
  <2>5. hop.threads \in SUBSET [id : Nat, up : Int, right : Int, checked : BOOLEAN]
    BY DEF EditorTypes, Hops
  <2>6. [id |-> h.id, up |-> h.up, right |-> h.right, checked |-> FALSE]
          \in [id : Nat, up : Int, right : Int, checked : BOOLEAN]
    BY <2>3
  <2>7. hop' \in Hops
    BY <1>10, <2>1, <2>2, <2>3, <2>5, <2>6 DEF Hops
  <2> QED BY <1>6, <1>10, <2>4, <2>7
<1> QED BY <1>7, <1>8, <1>9, <1>10 DEF TypeChar

LEMMA ThreadTypes ==
  ASSUME EditorTypes, NEW t \in hop.threads, ThreadChecks(t) \/ ThreadMovesBack(t)
  PROVE  EditorTypes'
<1>1. /\ t \in [id : Nat, up : Int, right : Int, checked : BOOLEAN]
      /\ hop \in Hops /\ screen \in Terminals /\ Cols \in Nat \ {0}
  BY ColsTyped DEF EditorTypes, Hops
<1>2. hop' \in Hops
  <2>1. CASE ThreadChecks(t)
    <3>1. [t EXCEPT !.checked = TRUE] \in [id : Nat, up : Int, right : Int, checked : BOOLEAN]
      BY <1>1
    <3>2. PICK T : T = (hop.threads \ {t}) \cup IF t.id = hop.sequence
                                                THEN {[t EXCEPT !.checked = TRUE]} ELSE {}
      OBVIOUS
    <3>3. T \in SUBSET [id : Nat, up : Int, right : Int, checked : BOOLEAN]
      BY <1>1, <3>1, <3>2 DEF Hops
    <3>4. hop' = [hop EXCEPT !.threads = T]
      BY <2>1, <3>2 DEF ThreadChecks
    <3> QED BY <1>1, <3>3, <3>4 DEF Hops
  <2>2. CASE ThreadMovesBack(t)
    <3>1. hop' = [[hop EXCEPT !.sequence = hop.sequence + 1] EXCEPT !.threads = hop.threads \ {t}]
      BY <1>1, <2>2 DEF ThreadMovesBack, Restored, Hops
    <3>2. PICK T : T = hop.threads \ {t}
      OBVIOUS
    <3>3. T \in SUBSET [id : Nat, up : Int, right : Int, checked : BOOLEAN] /\ hop.sequence + 1 \in Nat
      BY <1>1, <3>2 DEF Hops
    <3> QED BY <1>1, <3>1, <3>2, <3>3 DEF Hops
  <2> QED BY <2>1, <2>2
<1>3. screen' \in Terminals
  <2>1. CASE ThreadChecks(t)
    BY <1>1, <2>1 DEF ThreadChecks
  <2>2. CASE ThreadMovesBack(t)
    <3>1. t.up \in Int /\ t.right \in Int
      BY <1>1
    <3> QED BY <1>1, <2>2, <3>1, OtherTerminals DEF ThreadMovesBack
  <2> QED BY <2>1, <2>2
<1>4. UNCHANGED <<typist, keystrokes, peeked, searching, l, history, saved, repl, past>>
  BY DEF ThreadChecks, ThreadMovesBack
<1> QED BY <1>2, <1>3, <1>4, TypesGoOn DEF EditorTypes

LEMMA PrintNowTypes == ASSUME EditorTypes, PrintNow PROVE EditorTypes'
<1>1. l \in LineStates /\ screen \in Terminals /\ Cols \in Nat \ {0}
  BY ColsTyped DEF EditorTypes
<1>2. Printed(screen) \in Terminals
  BY <1>1, OtherTerminals
<1>3. l' \in LineStates /\ l'.history_index = l.history_index /\ screen' \in Terminals
  BY <1>1, <1>2, ShowTyped DEF PrintNow
<1>4. keystrokes' \in 0 .. MaxKeys
  BY LineEditorAssumption DEF PrintNow, EditorTypes
<1> QED BY <1>3, <1>4, TypesGoOn DEF EditorTypes, PrintNow

LEMMA TabTypes == ASSUME EditorTypes, Tab PROVE EditorTypes'
<1>1. l \in LineStates /\ Screen0 \in Terminals /\ Hop0 \in Hops /\ Cols \in Nat \ {0}
  BY Screen0Typed, Hop0Typed, ColsTyped DEF EditorTypes
<1>2. /\ typist' = typist /\ keystrokes' \in 0 .. MaxKeys /\ peeked' \in Keys \cup {None}
      /\ searching = None /\ searching' = searching
  BY KeyTyped DEF Key, Tab
<1>3. Listed(Screen0) \in Terminals
  BY <1>1, ListedTerminal
<1>4. \A c \in Chars : Inserted(l, c) \in LineStates /\ Inserted(l, c).history_index = l.history_index
  BY <1>1, InsertedStays DEF Stays
<1>5. l' \in LineStates /\ l'.history_index = l.history_index /\ screen' \in Terminals
  <2>1. CASE l' = l /\ screen' = Screen0
    BY <1>1, <2>1
  <2>2. ASSUME NEW c \in Chars, Show(Inserted(l, c), Screen0)
        PROVE  l' \in LineStates /\ l'.history_index = l.history_index /\ screen' \in Terminals
    BY <1>1, <1>4, <2>2, ShowTyped
  <2>3. CASE Show(l, Listed(Screen0))
    BY <1>1, <1>3, <2>3, ShowTyped
  <2> QED BY <2>1, <2>2, <2>3 DEF Tab
<1> QED BY <1>1, <1>2, <1>5, TypesGoOn DEF EditorTypes, Tab
-----------------------------------------------------------------------------
LEMMA IndexSet ==
  ASSUME NEW e \in LineStates, NEW i \in Nat
  PROVE  [e EXCEPT !.history_index = i] \in LineStates
         /\ [e EXCEPT !.history_index = i].history_index = i
         /\ [e EXCEPT !.history_index = i].buf = e.buf
         /\ [e EXCEPT !.history_index = i].pos = e.pos
BY DEF LineStates

LEMMA PlenSet ==
  ASSUME NEW e \in LineStates, NEW n \in Nat \ {0}
  PROVE  [e EXCEPT !.plen = n] \in LineStates
         /\ [e EXCEPT !.plen = n].history_index = e.history_index
         /\ [e EXCEPT !.plen = n].buf = e.buf
         /\ [e EXCEPT !.plen = n].pos = e.pos
BY DEF LineStates

(* A history entry is shorter than the buffer when it comes back.          *)
LEMMA RecalledTyped ==
  ASSUME NEW h \in Texts
  PROVE  /\ Recalled(h) \in Texts /\ Len(Recalled(h)) <= Len(h) /\ Len(h) \in Nat
         /\ Len(Recalled(h)) \in Nat
         /\ Len(h) < buflen => Recalled(h) = h
<1>1. h \in Seq(Chars) /\ Len(h) \in Nat /\ Len(h) <= buflen /\ buflen \in Nat \ {0}
  BY LenProperties, LineEditorAssumption DEF Texts
<1>2. PICK n \in Nat : n = Len(h)
  BY <1>1
<1>3. PICK b \in Nat \ {0} : b = buflen
  BY <1>1
<1>4. PICK m : m = Min({n, b - 1})
  OBVIOUS
<1>5. m = IF n <= b - 1 THEN n ELSE b - 1
  BY <1>4, MinOfTwo
<1>6. m \in Nat /\ m <= n /\ m <= b
  BY <1>5
<1>7. Recalled(h) = SubSeq(h, 1, m)
  BY <1>2, <1>3, <1>4 DEF Recalled
<1>8. SubSeq(h, 1, m) \in Seq(Chars) /\ Len(SubSeq(h, 1, m)) = IF 1 <= m THEN m - 1 + 1 ELSE 0
  <2>1. 1 \in Nat \ {0} /\ m <= Len(h)
    BY <1>2, <1>6
  <2> QED BY <1>1, <1>6, <2>1, Piece
<1>9. Len(SubSeq(h, 1, m)) = m
  BY <1>6, <1>8
<1>10. n < b => SubSeq(h, 1, m) = h
  <2> SUFFICES ASSUME n < b PROVE SubSeq(h, 1, m) = h
    OBVIOUS
  <2>1. m = Len(h)
    BY <1>2, <1>5
  <2> QED BY <1>1, <2>1, SubSeqFull
<1> QED BY <1>1, <1>2, <1>3, <1>6, <1>7, <1>8, <1>9, <1>10 DEF Texts

LEMMA EntryReplaced ==
  ASSUME NEW h \in Histories, NEW i \in 1 .. Len(h), NEW t \in Texts
  PROVE  [h EXCEPT ![i] = t] \in Histories /\ Len([h EXCEPT ![i] = t]) = Len(h)
BY ExceptSeq DEF Histories

LEMMA EditHistoryNextTypes == ASSUME EditorTypes, NEW k, EditHistoryNext(k) PROVE EditorTypes'
<1> DEFINE i == Len(history) - l.history_index
           index == l.history_index + IF k = "history_previous" THEN 1 ELSE -1
           h == [history EXCEPT ![i] = l.buf]
           recalled == Recalled(h[Len(h) - index])
<1>1. /\ typist' = typist /\ keystrokes' \in 0 .. MaxKeys /\ peeked' \in Keys \cup {None}
      /\ searching = None /\ searching' = searching
  BY KeyTyped DEF Key, EditHistoryNext
<1>2. l \in LineStates /\ Screen0 \in Terminals /\ Hop0 \in Hops
  BY Screen0Typed, Hop0Typed DEF EditorTypes
<1>3. /\ history \in Histories /\ l.buf \in Texts /\ l.history_index \in Nat
      /\ l.history_index < Len(history) /\ Len(history) \in Nat
  BY <1>2, HistoryFacts, LineFacts DEF EditorTypes
<1>4. CASE history' = history /\ past' = past /\ l' = l /\ screen' = Screen0
  BY <1>1, <1>2, <1>4, TypesGoOn DEF EditorTypes, EditHistoryNext
<1>5. CASE ~(history' = history /\ past' = past /\ l' = l /\ screen' = Screen0)
  <2>1. /\ history' = h
        /\ past' = [past EXCEPT !.disturbed =
                      past.disturbed \/ (l.history_index > 0 /\ l.buf # history[i])]
        /\ IF index \in 0 .. Len(history) - 1
           THEN Show([Put(l, recalled, Len(recalled)) EXCEPT !.history_index = index], Screen0)
           ELSE l' = l /\ screen' = Screen0
    BY <1>5 DEF EditHistoryNext
  <2>2. i \in 1 .. Len(history)
    BY <1>3
  <2>3. h \in Histories /\ Len(h) = Len(history)
    BY <1>3, <2>2, EntryReplaced
  <2>4. past' \in [entered : Histories, disturbed : BOOLEAN]
    <3>1. PICK b \in BOOLEAN : b = (past.disturbed \/ (l.history_index > 0 /\ l.buf # history[i]))
      BY DEF EditorTypes
    <3> HIDE DEF i
    <3> QED BY <2>1, <3>1 DEF EditorTypes
  <2>5. l' \in LineStates /\ l'.history_index < Len(history) /\ screen' \in Terminals
    <3>1. CASE index \in 0 .. Len(history) - 1
      <4>1. index \in Nat /\ index < Len(history) /\ Len(h) - index \in 1 .. Len(h)
        BY <1>3, <2>3, <3>1
      <4> HIDE DEF index, h
      <4>2. h[Len(h) - index] \in Texts
        BY <2>3, <4>1, HistoryFacts
      <4>3. PICK t : t = Recalled(h[Len(h) - index])
        OBVIOUS
      <4>4. t \in Texts /\ Len(t) \in 0 .. Len(t)
        BY <4>2, <4>3, RecalledTyped
      <4>5. PICK e : e = [Put(l, t, Len(t)) EXCEPT !.history_index = index]
        OBVIOUS
      <4>6. e \in LineStates /\ e.history_index = index
        <5>1. Put(l, t, Len(t)) \in LineStates
          BY <1>2, <4>4, PutStays DEF Stays
        <5> QED BY <4>1, <4>5, <5>1, IndexSet
      <4>7. Show(e, Screen0)
        BY <2>1, <3>1, <4>3, <4>5
      <4> QED BY <1>2, <4>1, <4>6, <4>7, ShowTyped
    <3>2. CASE index \notin 0 .. Len(history) - 1
      BY <1>2, <1>3, <2>1, <3>2
    <3> QED BY <3>1, <3>2
  <2> HIDE DEF h
  <2>6. UNCHANGED <<saved, repl>> /\ hop' = Hop0
    BY DEF EditHistoryNext
  <2> QED BY <1>1, <1>2, <2>1, <2>3, <2>4, <2>5, <2>6, TypesGoOn DEF EditorTypes
<1> QED BY <1>4, <1>5
-----------------------------------------------------------------------------
(* Searching                                                               *)
LEMMA PlacesFacts ==
  ASSUME NEW line \in Texts, NEW s \in Seq(Chars)
  PROVE  /\ Places(line, s) \subseteq 0 .. Len(line) - Len(s)
         /\ Len(line) \in Nat /\ Len(s) \in Nat
         /\ s = <<>> => 0 \in Places(line, s)
         /\ Places(line, s) # {} => /\ Min(Places(line, s)) \in Places(line, s)
                                    /\ Min(Places(line, s)) \in Nat
                                    /\ \A p \in Places(line, s) : Min(Places(line, s)) <= p
<1>1. Len(line) \in Nat /\ Len(s) \in Nat
  BY LenProperties DEF Texts
<1>2. Places(line, s) \subseteq 0 .. Len(line) - Len(s)
  BY DEF Places
<1>3. ASSUME s = <<>> PROVE 0 \in Places(line, s)
  <2>1. Len(s) = 0
    BY <1>3, EmptySeq
  <2>2. SubSeq(line, 1, 0) = <<>>
    BY SubSeqEmpty
  <2>3. 0 \in 0 .. Len(line) - Len(s) /\ 0 + 1 = 1 /\ 0 + Len(s) = 0
    BY <1>1, <2>1
  <2> QED BY <1>3, <2>2, <2>3 DEF Places
<1>4. ASSUME Places(line, s) # {}
      PROVE  /\ Min(Places(line, s)) \in Places(line, s) /\ Min(Places(line, s)) \in Nat
             /\ \A p \in Places(line, s) : Min(Places(line, s)) <= p
  <2>1. PICK P : P = Places(line, s)
    OBVIOUS
  <2>2. P \subseteq 0 .. Len(line) - Len(s) /\ P # {}
    BY <1>2, <1>4, <2>1
  <2>3. P \subseteq Int /\ (\A x \in P : 0 <= x) /\ P \subseteq Nat
    BY <1>1, <2>2
  <2>4. PICK b \in P : TRUE
    BY <2>2
  <2>5. Min(P) \in P /\ \A x \in P : Min(P) <= x
    <3>1. PICK a \in Int : \A x \in P : a <= x
      BY <2>3
    <3> QED BY <2>3, <2>4, <3>1, MinOf
  <2> QED BY <2>1, <2>3, <2>5
<1> QED BY <1>1, <1>2, <1>3, <1>4

LEMMA FoundFacts ==
  ASSUME history \in Histories, NEW i, NEW dir, NEW rbuf, NEW skipsame, NEW q,
         q = Found(i, dir, rbuf, skipsame), q # None
  PROVE  q \in 1 .. Len(history) /\ Places(history[q], rbuf) # {}
<1> DEFINE S == {p \in DOMAIN history : /\ IF dir = 1 THEN p >= i ELSE p <= i
                                        /\ Places(history[p], rbuf) # {}
                                        /\ skipsame => history[p] # l.buf}
<1>1. q = IF S = {} THEN None ELSE IF dir = 1 THEN Min(S) ELSE Max(S)
  BY DEF Found
<1>2. S \subseteq 1 .. Len(history) /\ Len(history) \in Nat
  BY HistoryFacts
<1>3. \A p \in S : Places(history[p], rbuf) # {}
  OBVIOUS
<1> HIDE DEF S
<1>4. PICK b \in S : TRUE
  BY <1>1
<1>5. S \subseteq Int /\ \A p \in S : 0 <= p /\ p <= Len(history)
  BY <1>2
<1>6. Min(S) \in S
  <2>1. PICK a \in Int : \A p \in S : a <= p
    BY <1>5
  <2> QED BY <1>4, <1>5, <2>1, MinOf
<1>7. Max(S) \in S
  <2>1. Len(history) \in Int
    BY <1>2
  <2> QED BY <1>4, <1>5, <2>1, MaxOf
<1>8. q \in S
  BY <1>1, <1>4, <1>6, <1>7
<1> QED BY <1>2, <1>3, <1>8

LEMMA SearchLineTyped ==
  ASSUME NEW e \in LineStates, NEW s \in Seq(Chars)
  PROVE  /\ SearchLine(e, s) \in LineStates /\ SearchLine(e, s).history_index = e.history_index
         /\ SearchLine(e, s).buf = e.buf /\ SearchLine(e, s).pos = e.pos
<1>1. SearchPromptLen + Len(s) \in Nat \ {0}
  <2>1. SearchPromptLen \in Nat \ {0} /\ Len(s) \in Nat
    BY LineEditorAssumption, LenProperties
  <2> QED BY <2>1
<1> QED BY <1>1, PlenSet DEF SearchLine

LEMMA ReverseSearchTypes == ASSUME EditorTypes, ReverseSearch PROVE EditorTypes'
<1>1. l \in LineStates /\ Screen0 \in Terminals /\ Hop0 \in Hops /\ history \in Histories
  BY Screen0Typed, Hop0Typed DEF EditorTypes
<1>2. /\ typist' = typist /\ keystrokes' \in 0 .. MaxKeys /\ peeked' \in Keys \cup {None}
  BY KeyTyped DEF ReverseSearch
<1>3. <<>> \in Seq(Chars) /\ Len(<<>>) = 0
  BY EmptySeq
<1>4. SearchLine(l, <<>>) \in LineStates /\ SearchLine(l, <<>>).history_index = l.history_index
  BY <1>1, <1>3, SearchLineTyped
<1>5. l' \in LineStates /\ l'.history_index = l.history_index /\ screen' \in Terminals
  BY <1>1, <1>4, ShowTyped DEF ReverseSearch
<1>6. searching' \in Searches /\ searching'.searchpos <= Len(history) + 1
  <2>1. Len(history) \in Nat /\ SearchMax \in Nat
    BY <1>1, HistoryFacts, LineEditorAssumption
  <2>2. searching' = [rbuf |-> <<>>, searchpos |-> Len(history)]
    BY DEF ReverseSearch
  <2> QED BY <1>3, <2>1, <2>2 DEF Searches
<1> QED BY <1>1, <1>2, <1>5, <1>6, TypesGoOn DEF EditorTypes, ReverseSearch

LEMMA RbufFacts ==
  ASSUME NEW s \in Searches
  PROVE  /\ s.rbuf \in Seq(Chars) /\ Len(s.rbuf) \in Nat /\ Len(s.rbuf) <= SearchMax
         /\ SearchMax \in Nat /\ s.searchpos \in Nat
BY LenProperties, LineEditorAssumption DEF Searches

LEMMA FrontOf ==
  ASSUME NEW S, NEW s \in Seq(S), s # <<>>
  PROVE  /\ Front(s) \in Seq(S) /\ Len(Front(s)) = Len(s) - 1 /\ Len(s) \in Nat \ {0}
         /\ \A i \in 1 .. Len(s) - 1 : Front(s)[i] = s[i]
<1>1. PICK n \in Nat \ {0} : n = Len(s)
  BY EmptySeq
<1>2. PICK m \in Nat : m = n - 1
  OBVIOUS
<1>3. Front(s) = SubSeq(s, 1, m)
  BY <1>1, <1>2 DEF Front
<1>4. /\ SubSeq(s, 1, m) \in Seq(S) /\ Len(SubSeq(s, 1, m)) = IF 1 <= m THEN m - 1 + 1 ELSE 0
      /\ \A i \in 1 .. m - 1 + 1 : SubSeq(s, 1, m)[i] = s[1 + i - 1]
  <2>1. 1 \in Nat \ {0} /\ m <= Len(s)
    BY <1>1, <1>2
  <2> QED BY <2>1, Piece
<1>5. Len(SubSeq(s, 1, m)) = m
  BY <1>4
<1>6. \A i \in 1 .. m : SubSeq(s, 1, m)[i] = s[i]
  BY <1>4
<1> QED BY <1>1, <1>2, <1>3, <1>4, <1>5, <1>6

LEMMA FrontOfAppend ==
  ASSUME NEW S, NEW s \in Seq(S), NEW x \in S PROVE Front(Append(s, x)) = s
<1>1. PICK a : a = Append(s, x)
  OBVIOUS
<1>2. /\ a \in Seq(S) /\ a # <<>> /\ Len(a) = Len(s) + 1 /\ Len(s) \in Nat
      /\ \A i \in 1 .. Len(s) : a[i] = s[i]
  BY <1>1, AppendProperties, LenProperties
<1>3. /\ Front(a) \in Seq(S) /\ Len(Front(a)) = Len(a) - 1
      /\ \A i \in 1 .. Len(a) - 1 : Front(a)[i] = a[i]
  BY <1>2, FrontOf
<1>4. Len(Front(a)) = Len(s) /\ \A i \in 1 .. Len(s) : Front(a)[i] = s[i]
  BY <1>2, <1>3
<1> QED BY <1>1, <1>3, <1>4, SeqEqual

(* A key that is pressed in a search either leaves the line, with what is  *)
(* searched for or all but the last of it, or shows a place in an entry.   *)
Kept(s, e) == /\ e.buf = l.buf /\ e.pos = l.pos
              /\ \/ s.rbuf = searching.rbuf
                 \/ searching.rbuf # <<>> /\ s.rbuf = Front(searching.rbuf)
Matched(s, e) == \E q \in 1 .. Len(history) : /\ e.buf = Recalled(history[q])
                                             /\ Places(history[q], s.rbuf) # {}
                                             /\ e.pos = Min(Places(history[q], s.rbuf))

(* The cursor is within the entry that comes back, short of its last byte  *)
(* if it fills the buffer.                                                 *)
LEMMA MatchWithin ==
  ASSUME NEW line \in Texts, NEW s \in Seq(Chars), Places(line, s) # {}
  PROVE  Min(Places(line, s)) \in 0 .. Len(Recalled(line))
<1>1. PICK m : m = Min(Places(line, s))
  OBVIOUS
<1>2. /\ m \in Nat /\ m \in 0 .. Len(line) - Len(s) /\ Len(line) \in Nat /\ Len(s) \in Nat
      /\ s = <<>> => m = 0
  <2>1. /\ Places(line, s) \subseteq 0 .. Len(line) - Len(s)
        /\ Len(line) \in Nat /\ Len(s) \in Nat
        /\ m \in Places(line, s) /\ m \in Nat
        /\ \A p \in Places(line, s) : m <= p
        /\ s = <<>> => 0 \in Places(line, s)
    BY <1>1, PlacesFacts
  <2>2. s = <<>> => m <= 0
    BY <2>1
  <2> QED BY <2>1, <2>2
<1>3. /\ Len(Recalled(line)) \in Nat /\ Len(line) < buflen => Recalled(line) = line
      /\ Len(line) <= buflen /\ buflen \in Nat \ {0}
  BY RecalledTyped, LineEditorAssumption DEF Texts
<1>4. CASE s = <<>>
  BY <1>1, <1>2, <1>3, <1>4
<1>5. CASE s # <<>> /\ Len(line) < buflen
  BY <1>1, <1>2, <1>3, <1>5
<1>6. CASE s # <<>> /\ ~(Len(line) < buflen)
  <2>1. Len(line) = buflen /\ Len(s) >= 1
    BY <1>2, <1>3, <1>6, EmptySeq
  <2>2. Len(Recalled(line)) = buflen - 1
    <3>1. PICK b \in Nat \ {0} : b = buflen
      BY <1>3
    <3>2. Min({b, b - 1}) = b - 1
      <4>1. b - 1 \in Int /\ ~(b <= b - 1)
        OBVIOUS
      <4> QED BY <4>1, MinOfTwo
    <3>3. Recalled(line) = SubSeq(line, 1, b - 1)
      BY <2>1, <3>1, <3>2 DEF Recalled
    <3>4. line \in Seq(Chars) /\ b - 1 \in Nat /\ b - 1 <= Len(line) /\ 1 \in Nat \ {0}
      BY <2>1, <3>1 DEF Texts
    <3>5. PICK c \in Nat : c = b - 1
      BY <3>4
    <3>6. Len(SubSeq(line, 1, c)) = IF 1 <= c THEN c - 1 + 1 ELSE 0
      BY <3>4, <3>5, Piece
    <3>7. Len(SubSeq(line, 1, c)) = c
      BY <3>6
    <3> QED BY <3>1, <3>3, <3>5, <3>7
  <2> QED BY <1>1, <1>2, <1>3, <2>1, <2>2
<1> QED BY <1>4, <1>5, <1>6

LEMMA SearchOutcome ==
  ASSUME EditorTypes, NEW k \in Keys, Search(k)
  PROVE  \E e \in LineStates, s \in Searches :
           /\ searching' = s /\ Show(SearchLine(e, s.rbuf), screen)
           /\ s.searchpos <= Len(history) + 1 /\ e.history_index < Len(history)
           /\ Kept(s, e) \/ Matched(s, e)
<1> DEFINE previous == k \in {"reverse_i_search", "history_previous"}
           dir == IF k = "history_next" THEN 1 ELSE -1
           typing == k \in Chars
           rbuf == IF typing THEN Append(searching.rbuf, k) ELSE searching.rbuf
           i == CASE typing -> Len(history)
                  [] previous -> IF searching.searchpos > 1 THEN searching.searchpos - 1
                                 ELSE searching.searchpos
                  [] OTHER -> IF searching.searchpos <= Len(history) THEN searching.searchpos + 1
                              ELSE searching.searchpos
           q == Found(i, dir, rbuf, ~typing)
           Outcome == \E e \in LineStates, s \in Searches :
             /\ searching' = s /\ Show(SearchLine(e, s.rbuf), screen)
             /\ s.searchpos <= Len(history) + 1 /\ e.history_index < Len(history)
             /\ Kept(s, e) \/ Matched(s, e)
<1>1. /\ searching \in Searches /\ searching.searchpos <= Len(history) + 1
      /\ history \in Histories /\ l \in LineStates /\ l.history_index < Len(history)
  BY DEF Search, EditorTypes
<1>2. /\ searching.rbuf \in Seq(Chars) /\ Len(searching.rbuf) \in Nat /\ SearchMax \in Nat
      /\ Len(searching.rbuf) <= SearchMax /\ searching.searchpos \in Nat /\ Len(history) \in Nat
  BY <1>1, RbufFacts, HistoryFacts
<1>3. typing => /\ Append(searching.rbuf, k) \in Seq(Chars)
                /\ Len(Append(searching.rbuf, k)) = Len(searching.rbuf) + 1
                /\ Front(Append(searching.rbuf, k)) = searching.rbuf
  BY <1>2, AppendProperties, FrontOfAppend
<1>4. CASE /\ k = "backspace" \/ (typing /\ Len(searching.rbuf) >= SearchMax)
           /\ searching' = [searching EXCEPT !.rbuf =
                              IF typing \/ searching.rbuf = <<>> THEN searching.rbuf ELSE Front(searching.rbuf)]
           /\ Show(SearchLine(l, searching'.rbuf), screen)
  <2>1. PICK b : b = IF typing \/ searching.rbuf = <<>> THEN searching.rbuf ELSE Front(searching.rbuf)
    OBVIOUS
  <2>2. b \in Seq(Chars) /\ Len(b) <= SearchMax
    <3>1. CASE typing \/ searching.rbuf = <<>>
      BY <1>2, <2>1, <3>1
    <3>2. CASE ~(typing \/ searching.rbuf = <<>>)
      <4>1. b = Front(searching.rbuf) /\ searching.rbuf # <<>>
        BY <2>1, <3>2
      <4>2. b \in Seq(Chars) /\ Len(b) = Len(searching.rbuf) - 1
        BY <1>2, <4>1, FrontOf
      <4> QED BY <1>2, <4>2
    <3> QED BY <3>1, <3>2
  <2>3. PICK s : s = [searching EXCEPT !.rbuf = b]
    OBVIOUS
  <2>4. s \in Searches /\ s.rbuf = b /\ s.searchpos = searching.searchpos
    BY <1>1, <2>2, <2>3 DEF Searches
  <2>5. searching' = s
    BY <1>4, <2>1, <2>3
  <2>6. Kept(s, l)
    BY <2>1, <2>4 DEF Kept
  <2> QED BY <1>1, <1>4, <2>4, <2>5, <2>6
<1>5. CASE /\ previous \/ k = "history_next" \/ (typing /\ Len(searching.rbuf) < SearchMax)
           /\ q # None
           /\ searching' = [rbuf |-> rbuf, searchpos |-> q]
           /\ Show(SearchLine([Put(l, Recalled(history[q]), Min(Places(history[q], rbuf)))
                                 EXCEPT !.history_index = Len(history) - q], rbuf), screen)
  <2>1. PICK p : p = q
    OBVIOUS
  <2>2. p \in 1 .. Len(history) /\ Places(history[p], rbuf) # {}
    <3> HIDE DEF i, dir, rbuf
    <3> QED BY <1>1, <1>5, <2>1, FoundFacts
  <2>3. PICK b : b = rbuf
    OBVIOUS
  <2>4. b \in Seq(Chars) /\ Len(b) <= SearchMax
    <3>1. CASE typing
      <4>1. Len(searching.rbuf) < SearchMax
        <5>1. k \notin Controls
          BY <3>1, LineEditorAssumption
        <5>2. k \notin {"reverse_i_search", "history_previous", "history_next"}
          BY <5>1 DEF Controls
        <5> HIDE DEF i, q, rbuf, dir
        <5> QED BY <1>5, <5>2
      <4> QED BY <1>2, <1>3, <2>3, <3>1, <4>1
    <3>2. CASE ~typing
      BY <1>2, <2>3, <3>2
    <3> QED BY <3>1, <3>2
  <2>5. PICK t : t = Recalled(history[p])
    OBVIOUS
  <2>6. PICK m : m = Min(Places(history[p], b))
    OBVIOUS
  <2>7. t \in Texts /\ m \in 0 .. Len(t) /\ Places(history[p], b) # {}
    <3>1. history[p] \in Texts
      BY <1>1, <2>2, HistoryFacts
    <3> HIDE DEF rbuf
    <3> QED BY <2>2, <2>3, <2>4, <2>5, <2>6, <3>1, RecalledTyped, MatchWithin
  <2>8. PICK d : d = Len(history) - p
    OBVIOUS
  <2>9. d \in Nat /\ d < Len(history) /\ p \in Nat /\ p <= Len(history) + 1
    <3> HIDE DEF i, dir, rbuf, q
    <3> QED BY <1>2, <2>2, <2>8
  <2>10. PICK e : e = [Put(l, t, m) EXCEPT !.history_index = d]
    OBVIOUS
  <2>11. e \in LineStates /\ e.history_index = d /\ e.buf = t /\ e.pos = m
    <3>1. Put(l, t, m) \in LineStates
      BY <1>1, <2>7, PutStays DEF Stays
    <3>2. Put(l, t, m).buf = t /\ Put(l, t, m).pos = m
      BY <1>1 DEF Put, LineStates
    <3> QED BY <2>9, <2>10, <3>1, <3>2, IndexSet
  <2>12. PICK s : s = [rbuf |-> b, searchpos |-> p]
    OBVIOUS
  <2>13. s \in Searches /\ s.rbuf = b /\ s.searchpos = p
    BY <2>4, <2>9, <2>12 DEF Searches
  <2>14. searching' = s /\ Show(SearchLine(e, b), screen)
    <3> HIDE DEF i, dir, rbuf, q
    <3> QED BY <1>5, <2>1, <2>3, <2>5, <2>6, <2>8, <2>10, <2>12
  <2>15. Matched(s, e)
    <3>1. /\ p \in 1 .. Len(history) /\ e.buf = Recalled(history[p])
          /\ Places(history[p], s.rbuf) # {} /\ e.pos = Min(Places(history[p], s.rbuf))
      <4> HIDE DEF i, dir, rbuf, q
      <4> QED BY <2>2, <2>5, <2>6, <2>7, <2>11, <2>13
    <3> QED BY <3>1 DEF Matched
  <2> HIDE DEF i, dir, rbuf, q
  <2> QED BY <2>9, <2>11, <2>13, <2>14, <2>15
<1>6. CASE /\ previous \/ k = "history_next" \/ (typing /\ Len(searching.rbuf) < SearchMax)
           /\ q = None
           /\ searching' = [rbuf |-> IF typing THEN Unmatched(rbuf) ELSE rbuf,
                            searchpos |-> IF dir = 1 THEN Len(history) + 1 ELSE 0]
           /\ Show(SearchLine(l, searching'.rbuf), screen)
  <2>1. PICK s : s = searching'
    OBVIOUS
  <2>2. s.rbuf = searching.rbuf /\ s \in Searches /\ s.searchpos <= Len(history) + 1
    <3>1. PICK b : b = IF typing THEN Unmatched(rbuf) ELSE rbuf
      OBVIOUS
    <3>2. b = searching.rbuf
      BY <1>3, <3>1 DEF Unmatched
    <3>3. PICK n : n = IF dir = 1 THEN Len(history) + 1 ELSE 0
      OBVIOUS
    <3>4. n \in Nat /\ n <= Len(history) + 1
      BY <1>2, <3>3
    <3>5. s = [rbuf |-> b, searchpos |-> n]
      BY <1>6, <2>1, <3>1, <3>3
    <3> QED BY <1>2, <3>2, <3>4, <3>5 DEF Searches
  <2>3. Kept(s, l)
    BY <2>2 DEF Kept
  <2> QED BY <1>1, <1>6, <2>1, <2>2, <2>3
<1> HIDE DEF Outcome
<1> QED BY <1>4, <1>5, <1>6 DEF Search, Outcome

LEMMA SearchTypes ==
  ASSUME EditorTypes, NEW k \in Keys, Search(k) PROVE EditorTypes'
<1>1. PICK e \in LineStates, s \in Searches :
        /\ searching' = s /\ Show(SearchLine(e, s.rbuf), screen)
        /\ s.searchpos <= Len(history) + 1 /\ e.history_index < Len(history)
  BY SearchOutcome
<1>2. s.rbuf \in Seq(Chars) /\ screen \in Terminals
  BY RbufFacts DEF EditorTypes
<1>3. SearchLine(e, s.rbuf) \in LineStates /\ SearchLine(e, s.rbuf).history_index = e.history_index
  BY <1>2, SearchLineTyped
<1>4. l' \in LineStates /\ l'.history_index = e.history_index /\ screen' \in Terminals
  BY <1>1, <1>2, <1>3, ShowTyped
<1>5. keystrokes' \in 0 .. MaxKeys
  BY TypedKey DEF Search
<1>6. UNCHANGED <<typist, peeked, history, saved, repl, hop, past>>
  BY DEF Search
<1> QED BY <1>1, <1>4, <1>5, <1>6, TypesGoOn DEF EditorTypes

LEMMA EndSearchLine ==
  ASSUME EditorTypes, NEW k, EndSearch(k)
  PROVE  \E e \in LineStates : /\ e.history_index = l.history_index
                               /\ Show([e EXCEPT !.plen = PromptLen], screen)
<1>1. PICK e : e = IF k = "cancel_search" THEN Put(l, <<>>, 0) ELSE l
  OBVIOUS
<1>2. l \in LineStates /\ Put(l, <<>>, 0) \in LineStates
      /\ Put(l, <<>>, 0).history_index = l.history_index
  <2>1. l \in LineStates /\ <<>> \in Texts /\ 0 \in 0 .. Len(<<>>)
    BY EmptyText DEF EditorTypes
  <2> QED BY <2>1, PutStays DEF Stays
<1> QED BY <1>1, <1>2 DEF EndSearch

LEMMA EndSearchTypes ==
  ASSUME EditorTypes, NEW k \in Keys, EndSearch(k) PROVE EditorTypes'
<1>1. PICK e \in LineStates : /\ e.history_index = l.history_index
                              /\ Show([e EXCEPT !.plen = PromptLen], screen)
  BY EndSearchLine
<1>2. PromptLen \in Nat \ {0} /\ screen \in Terminals
  BY LineEditorAssumption DEF EditorTypes
<1>3. /\ [e EXCEPT !.plen = PromptLen] \in LineStates
      /\ [e EXCEPT !.plen = PromptLen].history_index = l.history_index
  BY <1>1, <1>2, PlenSet
<1>4. l' \in LineStates /\ l'.history_index = l.history_index /\ screen' \in Terminals
  BY <1>1, <1>2, <1>3, ShowTyped
<1>5. keystrokes' \in 0 .. MaxKeys
  BY TypedKey DEF EndSearch
<1>6. searching' = None /\ peeked' \in Keys \cup {None}
      /\ UNCHANGED <<typist, history, saved, repl, hop, past>>
  BY DEF EndSearch
<1> QED BY <1>4, <1>5, <1>6, TypesGoOn DEF EditorTypes
-----------------------------------------------------------------------------
(* The ends of a line                                                      *)
LEMMA EnteredLength == ASSUME EditorTypes PROVE Len(SubSeq(l.buf, 1, l.len)) = l.len
<1>1. l.buf \in Seq(Chars) /\ l.len \in Nat /\ l.len <= Len(l.buf) /\ Len(l.buf) \in Nat
  BY LenProperties DEF EditorTypes, LineStates, Texts
<1>2. PICK n \in Nat : n = l.len
  BY <1>1
<1>3. Len(SubSeq(l.buf, 1, n)) = IF 1 <= n THEN n - 1 + 1 ELSE 0
  BY <1>1, <1>2, Piece
<1>4. Len(SubSeq(l.buf, 1, n)) = n
  BY <1>2, <1>3
<1> QED BY <1>2, <1>4

LEMMA LinesEntered ==
  ASSUME EditorTypes
  PROVE  /\ SubSeq(l.buf, 1, l.len) \in Texts
         /\ LinesRead \in Seq(Texts)
<1>1. l.buf \in Seq(Chars) /\ Len(l.buf) <= buflen /\ l.len \in Nat /\ l.len <= Len(l.buf)
      /\ Len(l.buf) \in Nat /\ buflen \in Nat
  BY LenProperties, LineEditorAssumption DEF EditorTypes, LineStates, Texts
<1>2. SubSeq(l.buf, 1, l.len) \in Seq(Chars)
      /\ Len(SubSeq(l.buf, 1, l.len)) = IF 1 <= l.len THEN l.len - 1 + 1 ELSE 0
  <2>1. 1 \in Nat \ {0}
    OBVIOUS
  <2> QED BY <1>1, <2>1, Piece
<1>3. PICK n \in Nat : n = l.len
  BY <1>1
<1>4. Len(SubSeq(l.buf, 1, n)) = n
  BY <1>2, <1>3
<1>5. SubSeq(l.buf, 1, l.len) \in Texts
  BY <1>1, <1>2, <1>3, <1>4 DEF Texts
<1>6. repl.pending \in Seq(Texts)
  BY DEF EditorTypes, Inputs
<1> QED BY <1>5, <1>6, AppendProperties DEF LinesRead

LEMMA EndedTyped == ASSUME EditorTypes PROVE AtLineEnd \in Terminals /\ NextLine(AtLineEnd) \in Terminals
<1> DEFINE e == [l EXCEPT !.pos = l.len]
<1>1. l \in LineStates /\ Screen0 \in Terminals /\ Cols \in Nat \ {0}
  BY Screen0Typed, ColsTyped DEF EditorTypes
<1>2. e \in LineStates
  BY <1>1 DEF LineStates
<1>3. AtLineEnd = IF l.pos # l.len THEN Refresh(e, Screen0).terminal ELSE Screen0
  BY DEF AtLineEnd
<1> HIDE DEF e
<1>4. AtLineEnd \in Terminals
  BY <1>1, <1>2, <1>3, RefreshedTerminal
<1> QED BY <1>1, <1>4, NextLineTerminal

(* Where the next of several lines that are pasted begins                  *)
LEMMA ContinuedTyped ==
  ASSUME EditorTypes PROVE [NextLine(AtLineEnd) EXCEPT !.col = AtLineEnd.col] \in Terminals
BY EndedTyped DEF Terminals

LEMMA HistoryNeverEmpty ==
  ASSUME EditorTypes
  PROVE  /\ history \in Histories /\ history # <<>> /\ Scratched(history) \in Histories
         /\ Len(Scratched(history)) = Len(history) - 1 /\ Len(history) \in Nat \ {0}
<1>1. history \in Histories /\ l.history_index \in Nat /\ l.history_index < Len(history)
      /\ Len(history) \in Nat
  BY HistoryFacts, LineFacts DEF EditorTypes
<1>2. Len(history) \in Nat \ {0} /\ history # <<>>
  <2>1. Len(history) # 0
    BY <1>1
  <2> QED BY <1>1, <2>1, EmptySeq
<1> QED BY <1>1, <1>2, ScratchedTyped

LEMMA SpacesTyped ==
  ASSUME EditorTypes
  PROVE  /\ repl \in Inputs /\ repl.spaces \in Indents \cup {0} /\ repl.spaces \in Nat
         /\ repl.open \in BOOLEAN /\ repl.pasting \in BOOLEAN
<1>1. repl \in Inputs
  BY DEF EditorTypes
<1>2. repl.spaces \in Indents \cup {0} /\ repl.open \in BOOLEAN /\ repl.pasting \in BOOLEAN
  BY <1>1 DEF Inputs
<1>3. PICK n : n = repl.spaces
  OBVIOUS
<1>4. n \in Nat
  <2>1. CASE n \in Indents
    BY <2>1, LineEditorAssumption
  <2>2. CASE n = 0
    BY <2>2
  <2> QED BY <1>2, <1>3, <2>1, <2>2
<1> QED BY <1>1, <1>2, <1>3, <1>4

LEMMA ContinueTypes == ASSUME EditorTypes, Continue PROVE EditorTypes'
<1>1. /\ typist' = typist /\ keystrokes' \in 0 .. MaxKeys /\ peeked' \in Keys \cup {None}
      /\ searching = None /\ searching' = searching
  BY KeyTyped DEF Key, Continue
<1>2. PICK next : next = [NextLine(AtLineEnd) EXCEPT !.col = AtLineEnd.col]
  OBVIOUS
<1>3. next \in Terminals /\ LinesRead \in Seq(Texts) /\ Scratched(history) \in Histories
  BY <1>2, ContinuedTyped, LinesEntered, HistoryNeverEmpty
<1>4. Begin(Scratched(history), next, repl.spaces)
  BY <1>2 DEF Continue
<1>5. /\ l' \in LineStates /\ history' \in Histories /\ l'.history_index < Len(history')
      /\ screen' \in Terminals
  BY <1>3, <1>4, SpacesTyped, BeginTyped
<1>6. repl' \in Inputs
  BY <1>3, SpacesTyped DEF Continue, Inputs
<1>7. Hop0 \in Hops /\ hop' = Hop0 /\ saved' = saved /\ past' = past
  BY Hop0Typed DEF Continue
<1> QED BY <1>1, <1>5, <1>6, <1>7, TypesGoOn DEF EditorTypes

LEMMA EnterTypes == ASSUME EditorTypes, Enter PROVE EditorTypes'
<1> DEFINE tokens == Tokens(LinesRead)
           start == [history |-> Scratched(history), open |-> repl.open, adds |-> FALSE,
                     entered |-> past.entered]
<1>1. /\ typist' = typist /\ keystrokes' \in 0 .. MaxKeys /\ peeked' \in Keys \cup {None}
      /\ searching = None /\ searching' = searching
  BY KeyTyped DEF Key, Enter
<1>2. NextLine(AtLineEnd) \in Terminals /\ LinesRead \in Seq(Texts)
      /\ Scratched(history) \in Histories
  BY EndedTyped, LinesEntered, HistoryNeverEmpty
<1>3. Hop0 \in Hops /\ hop' = Hop0
  BY Hop0Typed DEF Enter
<1>4. PICK pasting \in BOOLEAN, open \in [DOMAIN tokens -> BOOLEAN] :
        LET p == Process(tokens, open, start)
        IN \E indent \in IF p.open /\ ~pasting THEN Indents ELSE {0} :
             /\ saved' = IF p.adds THEN p.history ELSE saved
             /\ past' = [past EXCEPT !.entered = p.entered]
             /\ repl' = [open |-> p.open, pending |-> <<>>, spaces |-> indent,
                         pasting |-> pasting]
             /\ Begin(p.history, NextLine(AtLineEnd), indent)
  BY SpacesTyped DEF Enter
<1>5. tokens \in Seq(Texts)
  BY <1>2, TokensTyped
<1>6. start \in Progress
  BY <1>2, SpacesTyped DEF EditorTypes, Progress
<1> HIDE DEF tokens, start
<1>7. PICK p : p = Process(tokens, open, start)
  OBVIOUS
<1>8. PICK indent \in IF p.open /\ ~pasting THEN Indents ELSE {0} :
        /\ saved' = IF p.adds THEN p.history ELSE saved
        /\ past' = [past EXCEPT !.entered = p.entered]
        /\ repl' = [open |-> p.open, pending |-> <<>>, spaces |-> indent, pasting |-> pasting]
        /\ Begin(p.history, NextLine(AtLineEnd), indent)
  BY <1>4, <1>7
<1>9. p \in Progress
  BY <1>5, <1>6, <1>7, ProcessTyped
<1>10. p.history \in Histories /\ p.entered \in Histories /\ p.open \in BOOLEAN
  BY <1>9 DEF Progress
<1>11. indent \in Indents \cup {0} /\ indent \in Nat
  <2>1. indent \in Indents \/ indent = 0
    BY <1>8
  <2>2. Indents \subseteq Nat
    BY LineEditorAssumption
  <2> QED BY <2>1, <2>2
<1>12. /\ l' \in LineStates /\ history' \in Histories /\ l'.history_index < Len(history')
       /\ screen' \in Terminals
  BY <1>2, <1>8, <1>10, <1>11, BeginTyped
<1>13. repl' \in Inputs
  <2>1. <<>> \in Seq(Texts)
    BY EmptySeq
  <2> QED BY <1>8, <1>10, <1>11, <2>1 DEF Inputs
<1>14. past' \in [entered : Histories, disturbed : BOOLEAN]
  BY <1>8, <1>10 DEF EditorTypes
<1>15. saved' \in Histories
  BY <1>8, <1>10 DEF EditorTypes
<1> QED BY <1>1, <1>3, <1>12, <1>13, <1>14, <1>15, TypesGoOn

LEMMA CancelTypes == ASSUME EditorTypes, Cancel PROVE EditorTypes'
<1>1. /\ typist' = typist /\ keystrokes' \in 0 .. MaxKeys /\ peeked' \in Keys \cup {None}
      /\ searching = None /\ searching' = searching
  BY KeyTyped DEF Key, Cancel
<1>2. Screen0 \in Terminals /\ Hop0 \in Hops /\ Cols \in Nat \ {0}
  BY Screen0Typed, Hop0Typed, ColsTyped DEF EditorTypes
<1>3. PICK s : s = NextLine(NextLine(Screen0))
  OBVIOUS
<1>4. s \in Terminals
  <2>1. NextLine(Screen0) \in Terminals
    BY <1>2, NextLineTerminal
  <2> QED BY <1>2, <1>3, <2>1, NextLineTerminal
<1>5. Begin(history, s, 0) /\ history \in Histories /\ 0 \in Nat
  BY <1>3 DEF Cancel, EditorTypes
<1>6. /\ l' \in LineStates /\ history' \in Histories /\ l'.history_index < Len(history')
      /\ screen' \in Terminals
  BY <1>4, <1>5, BeginTyped
<1>7. repl' \in Inputs
  <2>1. <<>> \in Seq(Texts) /\ repl.pasting \in BOOLEAN
    BY EmptySeq DEF EditorTypes, Inputs
  <2> QED BY <2>1 DEF Cancel, Inputs
<1>8. past' \in [entered : Histories, disturbed : BOOLEAN]
  BY DEF Cancel, EditorTypes
<1>9. hop' = Hop0 /\ saved' = saved
  BY DEF Cancel
<1> QED BY <1>1, <1>2, <1>6, <1>7, <1>8, <1>9, TypesGoOn DEF EditorTypes

LEMMA RestartTypes == ASSUME EditorTypes, Restart PROVE EditorTypes'
<1>1. Fresh \in Terminals /\ NoHop \in Hops
  <2>1. Cols \in Nat \ {0}
    BY ColsTyped DEF EditorTypes
  <2> QED BY <2>1, FreshTerminal, NoHopTyped
<1>2. Load(saved) \in Histories
  BY LoadTyped DEF EditorTypes, Histories
<1>3. /\ l' \in LineStates /\ history' \in Histories /\ l'.history_index < Len(history')
      /\ screen' \in Terminals
  <2>1. Begin(Load(saved), Fresh, 0) /\ 0 \in Nat
    BY DEF Restart
  <2> QED BY <1>1, <1>2, <2>1, BeginTyped
<1>4. repl' \in Inputs
  <2>1. <<>> \in Seq(Texts)
    BY EmptySeq
  <2> QED BY <2>1 DEF Restart, Inputs
<1>5. keystrokes' \in 0 .. MaxKeys
  BY LineEditorAssumption DEF Restart, EditorTypes
<1>6. peeked' = None /\ searching' = None /\ hop' = NoHop /\ UNCHANGED <<typist, saved, past>>
  BY DEF Restart
<1> QED BY <1>1, <1>3, <1>4, <1>5, <1>6, TypesGoOn DEF EditorTypes
-----------------------------------------------------------------------------
LEMMA TypesStep ==
  ASSUME ByteBefore # Space, EditorTypes, EditorNext PROVE EditorTypes'
<1>1. ASSUME NEW k \in Keys, Edit(k) PROVE EditorTypes'
  BY <1>1, EditTypes
<1>2. ASSUME NEW k \in Keys, TypeChar(k) PROVE EditorTypes'
  BY <1>2, TypeCharTypes
<1>3. ASSUME NEW k \in Keys, EditHistoryNext(k) PROVE EditorTypes'
  BY <1>3, EditHistoryNextTypes
<1>4. ASSUME NEW k \in Keys, Search(k) PROVE EditorTypes'
  BY <1>4, SearchTypes
<1>5. ASSUME NEW k \in Keys, EndSearch(k) PROVE EditorTypes'
  BY <1>5, EndSearchTypes
<1>6. CASE ClearScreen \/ Tab \/ ReverseSearch
  BY <1>6, ClearScreenTypes, TabTypes, ReverseSearchTypes
<1>7. CASE Continue \/ Enter \/ Cancel \/ Restart \/ PrintNow
  BY <1>7, ContinueTypes, EnterTypes, CancelTypes, RestartTypes, PrintNowTypes
<1>8. ASSUME NEW t \in hop.threads, ThreadChecks(t) \/ ThreadMovesBack(t) PROVE EditorTypes'
  BY <1>8, ThreadTypes
<1> QED BY <1>1, <1>2, <1>3, <1>4, <1>5, <1>6, <1>7, <1>8 DEF EditorNext

LEMMA TypesStutter ==
  ASSUME EditorTypes, UNCHANGED editorVars PROVE EditorTypes'
BY TypesGoOn DEF EditorTypes, editorVars

LEMMA TypesGiveTypeOK == EditorTypes => EditorTypeOK
<1> SUFFICES ASSUME EditorTypes PROVE EditorTypeOK
  OBVIOUS
<1>1. /\ typist \in Typists /\ keystrokes \in 0 .. MaxKeys /\ peeked \in Keys \cup {None}
  BY DEF EditorTypes
<1>2. searching # None => /\ searching.rbuf \in Seq(Chars) /\ Len(searching.rbuf) <= SearchMax
                          /\ searching.searchpos \in 0 .. Len(history) + 1
  <2>1. Len(history) \in Nat
    BY HistoryFacts DEF EditorTypes
  <2> QED BY <2>1, RbufFacts DEF EditorTypes
<1>3. /\ Text(l.buf) /\ l.len \in 0 .. Len(l.buf) /\ l.pos \in 0 .. l.len
      /\ l.oldpos \in 0 .. buflen /\ l.maxrows \in Nat
      /\ l.history_index \in 0 .. Len(history) - 1
  <2>1. l \in LineStates /\ l.history_index < Len(history) /\ Len(history) \in Nat
    BY HistoryFacts DEF EditorTypes
  <2>2. Text(l.buf) /\ Len(l.buf) \in Nat
    BY <2>1, LenProperties DEF LineStates, Texts, Text
  <2>3. PICK b \in Nat : b = Len(l.buf)
    BY <2>2
  <2>4. l.len \in Nat /\ l.pos \in Nat /\ l.len <= b /\ l.pos <= l.len
        /\ l.oldpos \in 0 .. buflen /\ l.maxrows \in Nat /\ l.history_index \in Nat
    BY <2>1, <2>3 DEF LineStates
  <2>5. l.len \in 0 .. b /\ l.pos \in 0 .. l.len
    BY <2>4
  <2>6. l.history_index \in 0 .. Len(history) - 1
    BY <2>1, <2>4
  <2> QED BY <2>2, <2>3, <2>4, <2>5, <2>6
<1>4. \A h \in {history, saved, past.entered} :
        Len(h) <= history_max_len /\ \A i \in DOMAIN h : Text(h[i])
  <2>1. ASSUME NEW h \in Histories
        PROVE  Len(h) <= history_max_len /\ \A i \in DOMAIN h : Text(h[i])
    BY HistoryFacts DEF Histories, Texts, Text
  <2>2. history \in Histories /\ saved \in Histories /\ past.entered \in Histories
    BY DEF EditorTypes
  <2> QED BY <2>1, <2>2
<1>5. repl.open \in BOOLEAN /\ repl.pasting \in BOOLEAN /\ repl.spaces \in Indents \cup {0}
  BY DEF EditorTypes, Inputs
<1>6. /\ screen.shows \in [Rows -> Rows \cup {Blank, Output, Rest}]
      /\ screen.row \in Nat /\ screen.col \in 0 .. Cols - 1 /\ screen.base \in Nat
  BY DEF EditorTypes, Terminals
<1>7. hop.sequence \in Nat /\ hop.restore \in HopType /\ past.disturbed \in BOOLEAN
  BY DEF EditorTypes, Hops
<1> QED BY <1>1, <1>2, <1>3, <1>4, <1>5, <1>6, <1>7 DEF EditorTypeOK

(* Whatever is typed, l.len and l.pos stay within the buffer and the text  *)
(* in it, the history within its limit, and the search within the history  *)
(* (linenoise.c); as long as the byte before the buffer is not a space,    *)
(* which linenoiseEditMoveWordStart reads.                                 *)
THEOREM EditorIsTyped == ASSUME ByteBefore # Space PROVE EditorSpec => []EditorTypeOK
<1>1. EditorInit => EditorTypes
  BY TypesAtFirst
<1>2. EditorTypes /\ [EditorNext]_editorVars => EditorTypes'
  BY TypesStep, TypesStutter
<1>3. EditorTypes => EditorTypeOK
  BY TypesGiveTypeOK
<1> QED BY <1>1, <1>2, <1>3, PTL DEF EditorSpec
-----------------------------------------------------------------------------
(* What a search shows has what is searched for where the cursor is.       *)
LEMMA FrontPlace ==
  ASSUME NEW line \in Texts, NEW s \in Seq(Chars), s # <<>>, NEW p \in Places(line, s)
  PROVE  p \in Places(line, Front(s))
<1>1. /\ p \in 0 .. Len(line) - Len(s) /\ SubSeq(line, p + 1, p + Len(s)) = s
      /\ Len(line) \in Nat /\ Len(s) \in Nat /\ line \in Seq(Chars)
  BY LenProperties DEF Places, Texts
<1>2. PICK n \in Nat \ {0} : n = Len(s)
  BY FrontOf
<1>3. PICK m \in Nat : m = n - 1
  OBVIOUS
<1>4. Len(Front(s)) = m /\ Front(s) = SubSeq(s, 1, m)
  BY <1>2, <1>3, FrontOf DEF Front
<1>5. PICK i \in Nat : i = p + 1
  BY <1>1
<1>6. PICK j \in Nat : j = p + n
  BY <1>1
<1>7. PICK k \in Nat : k = Len(line)
  BY <1>1
<1>8. p \in Nat /\ p <= k - n
  BY <1>1, <1>2, <1>7
<1>9. i \in 1 .. k /\ j \in i - 1 .. k /\ 1 \in 1 .. j - i + 1 /\ m \in 1 - 1 .. j - i + 1
      /\ i + 1 - 1 = i /\ i + m - 1 = p + m
  BY <1>3, <1>5, <1>6, <1>8
<1>10. SubSeq(SubSeq(line, i, j), 1, m) = SubSeq(line, i + 1 - 1, i + m - 1)
  BY <1>1, <1>7, <1>9, SubSeqOfSubSeq
<1>11. SubSeq(line, p + 1, p + m) = Front(s)
  BY <1>1, <1>2, <1>4, <1>5, <1>6, <1>9, <1>10
<1>12. p \in 0 .. k - m
  BY <1>3, <1>8
<1> QED BY <1>4, <1>7, <1>11, <1>12 DEF Places

LEMMA PlaceKept ==
  ASSUME EditorTypes, SearchShowsMatch, NEW s \in Searches, NEW e, searching # None,
         Kept(s, e), s.rbuf # <<>>, \A i \in DOMAIN history : Len(history[i]) < buflen
  PROVE  e.pos \in Places(e.buf, s.rbuf)
<1>1. e.buf = l.buf /\ e.pos = l.pos
  BY DEF Kept
<1>2. l.buf \in Texts /\ searching.rbuf \in Seq(Chars)
  BY LineFacts, RbufFacts DEF EditorTypes
<1>3. searching.rbuf # <<>> => l.pos \in Places(l.buf, searching.rbuf)
  BY DEF SearchShowsMatch
<1>4. CASE s.rbuf = searching.rbuf
  BY <1>1, <1>3, <1>4
<1>5. CASE searching.rbuf # <<>> /\ s.rbuf = Front(searching.rbuf)
  <2>1. PICK p : p = l.pos
    OBVIOUS
  <2>2. p \in Places(l.buf, Front(searching.rbuf))
    BY <1>2, <1>3, <1>5, <2>1, FrontPlace
  <2> QED BY <1>1, <1>5, <2>1, <2>2
<1> QED BY <1>4, <1>5 DEF Kept

LEMMA PlaceMatched ==
  ASSUME EditorTypes, NEW s \in Searches, NEW e,
         Matched(s, e), \A i \in DOMAIN history : Len(history[i]) < buflen
  PROVE  e.pos \in Places(e.buf, s.rbuf)
<1>1. PICK q \in 1 .. Len(history) : /\ e.buf = Recalled(history[q])
                                     /\ Places(history[q], s.rbuf) # {}
                                     /\ e.pos = Min(Places(history[q], s.rbuf))
  BY DEF Matched
<1>2. history[q] \in Texts /\ Len(history[q]) < buflen
  BY HistoryFacts DEF EditorTypes
<1>3. e.buf = history[q]
  BY <1>1, <1>2, RecalledTyped
<1>4. s.rbuf \in Seq(Chars)
  BY RbufFacts
<1> QED BY <1>1, <1>2, <1>3, <1>4, PlacesFacts

LEMMA ShownLine ==
  ASSUME EditorTypes, NEW e \in LineStates, NEW s \in Terminals, Show(e, s)
  PROVE  l'.buf = e.buf /\ l'.pos = e.pos
<1>1. Cols \in Nat \ {0}
  BY ColsTyped DEF EditorTypes
<1>2. PICK n : Refresh(e, s).line = [e EXCEPT !.maxrows = n, !.oldpos = e.pos]
  BY <1>1, RefreshedLine
<1> QED BY <1>2 DEF Show, LineStates

LEMMA SearchMatches ==
  ASSUME EditorTypes, SearchShowsMatch, NEW k \in Keys, Search(k) PROVE SearchShowsMatch'
<1>1. PICK e \in LineStates, s \in Searches :
        /\ searching' = s /\ Show(SearchLine(e, s.rbuf), screen)
        /\ Kept(s, e) \/ Matched(s, e)
  BY SearchOutcome
<1>2. s.rbuf \in Seq(Chars) /\ screen \in Terminals
  BY RbufFacts DEF EditorTypes
<1>3. /\ SearchLine(e, s.rbuf) \in LineStates
      /\ SearchLine(e, s.rbuf).buf = e.buf /\ SearchLine(e, s.rbuf).pos = e.pos
  BY <1>2, SearchLineTyped
<1>4. l'.buf = e.buf /\ l'.pos = e.pos
  BY <1>1, <1>2, <1>3, ShownLine
<1>5. history' = history /\ searching # None
  BY DEF Search
<1>6. ASSUME s.rbuf # <<>>, \A i \in DOMAIN history : Len(history[i]) < buflen
      PROVE  e.pos \in Places(e.buf, s.rbuf)
  BY <1>1, <1>5, <1>6, PlaceKept, PlaceMatched
<1>7. Places(l'.buf, searching'.rbuf) = Places(e.buf, s.rbuf)
  BY <1>1, <1>4
<1>8. Places(l.buf, searching.rbuf)' = Places(l'.buf, searching'.rbuf)
  BY DEF Places
<1>9. /\ searching'.rbuf # <<>> /\ (\A i \in DOMAIN history' : Len(history'[i]) < buflen)
      => l'.pos \in Places(l.buf, searching.rbuf)'
  BY <1>1, <1>4, <1>5, <1>6, <1>7, <1>8
<1> QED BY <1>9 DEF SearchShowsMatch

LEMMA NoSearchNoMatch == ASSUME searching' = None PROVE SearchShowsMatch'
BY DEF SearchShowsMatch

LEMMA MatchesGoOn ==
  ASSUME SearchShowsMatch, searching' = searching, history' = history,
         l'.buf = l.buf, l'.pos = l.pos
  PROVE  SearchShowsMatch'
<1>1. Places(l.buf, searching.rbuf)' = Places(l.buf, searching.rbuf)
  BY DEF Places
<1> QED BY <1>1 DEF SearchShowsMatch

LEMMA MatchesStep ==
  ASSUME EditorTypes, SearchShowsMatch, [EditorNext]_editorVars PROVE SearchShowsMatch'
<1>1. ASSUME NEW k, Key(k) PROVE searching' = None
  BY <1>1 DEF Key, ReadKey
<1>2. ASSUME NEW k \in Keys, Edit(k) \/ TypeChar(k) \/ EditHistoryNext(k) \/ EndSearch(k)
      PROVE  searching' = None
  BY <1>1, <1>2 DEF Edit, TypeChar, EditHistoryNext, EndSearch
<1>3. CASE ClearScreen \/ Tab \/ Continue \/ Enter \/ Cancel \/ Restart
  <2>1. searching' = None
    BY <1>1, <1>3 DEF ClearScreen, Tab, Continue, Enter, Cancel, Restart
  <2> QED BY <2>1, NoSearchNoMatch
<1>4. ASSUME NEW k \in Keys, Search(k) PROVE SearchShowsMatch'
  BY <1>4, SearchMatches
<1>5. CASE ReverseSearch
  <2>1. searching'.rbuf = <<>>
    BY <1>5 DEF ReverseSearch
  <2> QED BY <2>1 DEF SearchShowsMatch
<1>6. CASE PrintNow
  <2>1. l \in LineStates /\ screen \in Terminals /\ Cols \in Nat \ {0}
    BY ColsTyped DEF EditorTypes
  <2>2. Printed(screen) \in Terminals
    BY <2>1, OtherTerminals
  <2>3. Show(l, Printed(screen)) /\ searching' = searching /\ history' = history
    BY <1>6 DEF PrintNow
  <2> QED BY <2>1, <2>2, <2>3, ShownLine, MatchesGoOn
<1>7. ASSUME NEW t \in hop.threads, ThreadChecks(t) \/ ThreadMovesBack(t) PROVE SearchShowsMatch'
  BY <1>7, MatchesGoOn DEF ThreadChecks, ThreadMovesBack
<1>8. CASE UNCHANGED editorVars
  BY <1>8, MatchesGoOn DEF editorVars
<1> QED BY <1>2, <1>3, <1>4, <1>5, <1>6, <1>7, <1>8, NoSearchNoMatch DEF EditorNext

(* In a reverse search, whatever is typed and deleted in it, the cursor is *)
(* at a place where what is searched for begins (linenoise.c), if no entry *)
(* fills the buffer.                                                       *)
THEOREM SearchFindsWhatItShows ==
  ASSUME ByteBefore # Space PROVE EditorSpec => []SearchShowsMatch
<1>1. EditorInit => EditorTypes /\ SearchShowsMatch
  BY TypesAtFirst DEF EditorInit, SearchShowsMatch
<1>2. EditorTypes /\ SearchShowsMatch /\ [EditorNext]_editorVars
      => EditorTypes' /\ SearchShowsMatch'
  BY TypesStep, TypesStutter, MatchesStep
<1> QED BY <1>1, <1>2, PTL DEF EditorSpec
-----------------------------------------------------------------------------
(* What the history keeps of the lines that were entered                   *)
Ends(s, t) == /\ Len(s) <= Len(t)
              /\ \A i \in 1 .. Len(s) : s[i] = t[Len(t) - Len(s) + i]
Full(s, t) == Ends(s, t) /\ (Len(s) = Len(t) \/ Len(s) >= history_max_len - 1)
Varied(t) == \A i \in 1 .. Len(t) - 1 : t[i] # t[i + 1]
Neat(t) == Varied(t) /\ \A i \in 1 .. Len(t) : t[i] # <<>>
Closed(f, s) == f = s \/ (Len(s) < history_max_len /\ f = Append(s, <<>>))
Trimmed(s) == IF Len(s) = history_max_len THEN Tail(s) ELSE s

LEMMA TrimmedFacts ==
  ASSUME NEW s \in Histories
  PROVE  /\ Trimmed(s) \in Histories /\ Trimmed(s) \in Seq(Texts)
         /\ Len(Trimmed(s)) \in Nat
         /\ Len(Trimmed(s)) = IF Len(s) = history_max_len THEN history_max_len - 1 ELSE Len(s)
         /\ \A i \in 1 .. Len(Trimmed(s)) : Trimmed(s)[i] = s[Len(s) - Len(Trimmed(s)) + i]
<1>1. /\ s \in Seq(Texts) /\ Len(s) \in Nat /\ Len(s) <= history_max_len
      /\ history_max_len \in Nat \ {0}
  BY HistoryFacts
<1>2. CASE Len(s) = history_max_len
  <2>1. s # <<>> /\ Trimmed(s) = Tail(s)
    BY <1>1, <1>2, EmptySeq DEF Trimmed
  <2>2. /\ Tail(s) \in Seq(Texts) /\ Len(Tail(s)) = Len(s) - 1
        /\ \A i \in 1 .. Len(Tail(s)) : Tail(s)[i] = s[i + 1]
    BY <1>1, <2>1, HeadTailProperties
  <2>3. PICK n \in Nat \ {0} : n = Len(s)
    BY <1>1, <1>2
  <2>4. ASSUME NEW i \in 1 .. n - 1 PROVE Tail(s)[i] = s[n - (n - 1) + i]
    <3>1. n - (n - 1) + i = i + 1 /\ i \in 1 .. Len(Tail(s))
      BY <2>2, <2>3
    <3> QED BY <2>2, <3>1
  <2> QED BY <1>1, <1>2, <2>1, <2>2, <2>3, <2>4 DEF Histories
<1>3. CASE Len(s) # history_max_len
  <2>1. PICK n \in Nat : n = Len(s)
    BY <1>1
  <2>2. \A i \in 1 .. n : n - n + i = i
    OBVIOUS
  <2> QED BY <1>1, <1>3, <2>1, <2>2 DEF Trimmed
<1> QED BY <1>2, <1>3

LEMMA AddedNew ==
  ASSUME NEW s, NEW w, ~(s # <<>> /\ Last(s) = w)
  PROVE  Added(s, w) = Append(Trimmed(s), w)
BY DEF Added, Trimmed

LEMMA LastEntry ==
  ASSUME NEW s \in Histories, s # <<>>
  PROVE  Len(s) \in 1 .. history_max_len /\ Last(s) = s[Len(s)] /\ Last(s) \in Texts
<1>1. s \in Seq(Texts) /\ Len(s) \in 0 .. history_max_len /\ history_max_len \in Nat /\ Len(s) # 0
  BY HistoryFacts, EmptySeq
<1>2. Len(s) \in 1 .. Len(s) /\ Len(s) \in 1 .. history_max_len
  BY <1>1
<1> QED BY <1>1, <1>2, HistoryFacts DEF Last

LEMMA FullItself == ASSUME NEW s \in Histories PROVE Full(s, s)
<1>1. PICK n \in Nat : n = Len(s)
  BY HistoryFacts
<1>2. n <= n /\ \A i \in 1 .. n : n - n + i = i
  OBVIOUS
<1> QED BY <1>1, <1>2 DEF Full, Ends

(* The ends of a neat list are neat.                                       *)
LEMMA EndsNeat ==
  ASSUME NEW s \in Histories, NEW t \in Histories, Ends(s, t), Neat(t)
  PROVE  Neat(s)
<1>1. PICK m \in Nat : m = Len(s)
  BY HistoryFacts
<1>2. PICK n \in Nat : n = Len(t)
  BY HistoryFacts
<1>3. m <= n /\ \A i \in 1 .. m : s[i] = t[n - m + i]
  BY <1>1, <1>2 DEF Ends
<1>4. /\ \A j \in 1 .. n - 1 : t[j] # t[j + 1]
      /\ \A j \in 1 .. n : t[j] # <<>>
  BY <1>2 DEF Neat, Varied
<1>5. ASSUME NEW i \in 1 .. m PROVE s[i] # <<>>
  <2>1. n - m + i \in 1 .. n
    BY <1>3
  <2> QED BY <1>3, <1>4, <2>1
<1>6. ASSUME NEW i \in 1 .. m - 1 PROVE s[i] # s[i + 1]
  <2>1. i \in 1 .. m /\ i + 1 \in 1 .. m
    OBVIOUS
  <2>2. PICK j \in 1 .. n - 1 : j = n - m + i
    BY <1>3
  <2>3. n - m + (i + 1) = j + 1
    BY <2>2
  <2>4. s[i] = t[j] /\ s[i + 1] = t[j + 1]
    BY <1>3, <2>1, <2>2, <2>3
  <2> QED BY <1>4, <2>4
<1> QED BY <1>1, <1>5, <1>6 DEF Neat, Varied

LEMMA LastOfEnds ==
  ASSUME NEW s \in Histories, NEW t \in Histories, Ends(s, t), s # <<>>
  PROVE  t # <<>> /\ Last(t) = Last(s)
<1>1. PICK m \in Nat \ {0} : m = Len(s)
  BY LastEntry, HistoryFacts
<1>2. PICK n \in Nat : n = Len(t)
  BY HistoryFacts
<1>3. m <= n /\ \A i \in 1 .. m : s[i] = t[n - m + i]
  BY <1>1, <1>2 DEF Ends
<1>4. m \in 1 .. m /\ n - m + m = n /\ n # 0
  BY <1>3
<1>5. s[m] = t[n] /\ t # <<>>
  BY <1>2, <1>3, <1>4, EmptySeq
<1> QED BY <1>1, <1>2, <1>5 DEF Last

(* Removing the scratch entry before the next is put there                 *)
LEMMA TrimmedFull ==
  ASSUME NEW s \in Histories, NEW t \in Histories, Full(s, t)
  PROVE  Full(Trimmed(s), t)
<1>1. PICK m \in Nat : m = Len(s)
  BY HistoryFacts
<1>2. PICK n \in Nat : n = Len(t)
  BY HistoryFacts
<1>3. PICK M \in Nat \ {0} : M = history_max_len
  BY LineEditorAssumption
<1>4. PICK g : g = Trimmed(s)
  OBVIOUS
<1>5. PICK k \in Nat : k = Len(g)
  BY <1>4, TrimmedFacts
<1>6. k = (IF m = M THEN M - 1 ELSE m) /\ \A i \in 1 .. k : g[i] = s[m - k + i]
  BY <1>1, <1>3, <1>4, <1>5, TrimmedFacts
<1>7. m <= n /\ (\A i \in 1 .. m : s[i] = t[n - m + i]) /\ (m = n \/ m >= M - 1)
  BY <1>1, <1>2, <1>3 DEF Full, Ends
<1>8. k <= m /\ k <= n /\ (k = n \/ k >= M - 1)
  <2>1. k = IF m = M THEN M - 1 ELSE m
    BY <1>6
  <2>2. m <= n /\ (m = n \/ m >= M - 1)
    BY <1>7
  <2> QED BY <2>1, <2>2
<1>9. ASSUME NEW i \in 1 .. k PROVE g[i] = t[n - k + i]
  <2>1. PICK j \in 1 .. m : j = m - k + i
    BY <1>8
  <2>2. n - m + j = n - k + i
    BY <2>1
  <2> QED BY <1>6, <1>7, <2>1, <2>2
<1> QED BY <1>2, <1>3, <1>4, <1>5, <1>8, <1>9 DEF Full, Ends

Enters(t, w) == IF w = <<>> \/ (t # <<>> /\ Last(t) = w) THEN t ELSE LastOnes(Append(t, w))

LEMMA EntersTyped ==
  ASSUME NEW t \in Histories, NEW w \in Texts PROVE Enters(t, w) \in Histories
<1>1. Append(t, w) \in Seq(Texts)
  BY AppendProperties DEF Histories
<1> QED BY <1>1, LastOnesTyped DEF Enters

(* The lines that were entered last, with one more                         *)
LEMMA EntersFacts ==
  ASSUME NEW t \in Histories, NEW w \in Words, ~(t # <<>> /\ Last(t) = w)
  PROVE  /\ Enters(t, w) \in Histories
         /\ Len(Enters(t, w)) = IF Len(t) < history_max_len THEN Len(t) + 1
                                ELSE history_max_len
         /\ Enters(t, w)[Len(Enters(t, w))] = w
         /\ \A i \in 1 .. Len(Enters(t, w)) - 1 :
              Enters(t, w)[i] = t[Len(t) - (Len(Enters(t, w)) - 1) + i]
<1>1. w \in Texts /\ w # <<>>
  BY DEF Words
<1>2. PICK a : a = Append(t, w)
  OBVIOUS
<1>3. PICK n \in Nat : n = Len(t) /\ n <= history_max_len
  BY HistoryFacts
<1>4. PICK M \in Nat \ {0} : M = history_max_len
  BY LineEditorAssumption
<1>5. /\ a \in Seq(Texts) /\ Len(a) = n + 1 /\ (\A i \in 1 .. n : a[i] = t[i]) /\ a[n + 1] = w
  <2>1. t \in Seq(Texts)
    BY DEF Histories
  <2> QED BY <1>1, <1>2, <1>3, <2>1, AppendProperties
<1>6. PICK e : e = LastOnes(a)
  OBVIOUS
<1>7. Enters(t, w) = e
  BY <1>1, <1>2, <1>6 DEF Enters
<1>8. /\ e \in Histories /\ Len(e) = (IF n + 1 <= M THEN n + 1 ELSE M)
      /\ \A i \in 1 .. Len(e) : e[i] = a[n + 1 - Len(e) + i]
  <2>1. /\ e \in Histories
        /\ Len(e) = IF Len(a) <= history_max_len THEN Len(a) ELSE history_max_len
        /\ \A i \in 1 .. Len(e) : e[i] = a[Len(a) - Len(e) + i]
    BY <1>5, <1>6, LastOnesTyped
  <2>2. PICK c \in Nat : c = n + 1
    OBVIOUS
  <2>3. Len(a) = c
    BY <1>5, <2>2
  <2> QED BY <1>4, <2>1, <2>2, <2>3
<1>9. PICK k \in Nat \ {0} : k = Len(e)
  BY <1>8
<1>10. k = (IF n < M THEN n + 1 ELSE M) /\ k <= n + 1
  BY <1>3, <1>4, <1>8, <1>9
<1>11. e[k] = w
  <2>1. k \in 1 .. k /\ n + 1 - k + k = n + 1
    OBVIOUS
  <2> QED BY <1>5, <1>8, <1>9, <2>1
<1>12. ASSUME NEW i \in 1 .. k - 1 PROVE e[i] = t[n - (k - 1) + i]
  <2>1. PICK j \in Int : j = n - (k - 1) + i
    OBVIOUS
  <2>2. j \in 1 .. n
    BY <1>10, <2>1
  <2>3. i \in 1 .. k /\ n + 1 - k + i = j
    BY <2>1
  <2> QED BY <1>5, <1>8, <1>9, <2>1, <2>2, <2>3
<1> QED BY <1>3, <1>4, <1>7, <1>8, <1>9, <1>10, <1>11, <1>12

LEMMA EntersNeat ==
  ASSUME NEW t \in Histories, NEW w \in Words, Neat(t)
  PROVE  Neat(Enters(t, w))
<1>1. CASE t # <<>> /\ Last(t) = w
  BY <1>1 DEF Enters
<1>2. CASE ~(t # <<>> /\ Last(t) = w)
  <2>1. PICK e : e = Enters(t, w)
    OBVIOUS
  <2>2. PICK n \in Nat : n = Len(t) /\ n <= history_max_len
    BY HistoryFacts
  <2>3. PICK M \in Nat \ {0} : M = history_max_len
    BY LineEditorAssumption
  <2>4. PICK k \in Nat \ {0} : k = (IF n < M THEN n + 1 ELSE M)
    OBVIOUS
  <2>5. Len(e) = k /\ e[k] = w /\ \A i \in 1 .. k - 1 : e[i] = t[n - (k - 1) + i]
    <3>1. /\ Len(e) = IF Len(t) < history_max_len THEN Len(t) + 1 ELSE history_max_len
          /\ e[Len(e)] = w
          /\ \A i \in 1 .. Len(e) - 1 : e[i] = t[Len(t) - (Len(e) - 1) + i]
      BY <1>2, <2>1, EntersFacts
    <3>2. Len(e) = k
      BY <3>1, <2>2, <2>3, <2>4
    <3> QED BY <3>1, <3>2, <2>2
  <2>6. k - 1 <= n
    BY <2>2, <2>3, <2>4
  <2>7. /\ \A j \in 1 .. n - 1 : t[j] # t[j + 1]
        /\ \A j \in 1 .. n : t[j] # <<>>
    BY <2>2 DEF Neat, Varied
  <2>8. w # <<>>
    BY DEF Words
  <2>9. ASSUME NEW i \in 1 .. k PROVE e[i] # <<>>
    <3>1. CASE i = k
      BY <2>5, <2>8, <3>1
    <3>2. CASE i # k
      <4>1. PICK j \in 1 .. n : j = n - (k - 1) + i
        BY <2>6, <3>2
      <4>2. i \in 1 .. k - 1
        BY <3>2
      <4>3. e[i] = t[j]
        BY <2>5, <4>1, <4>2
      <4>4. t[j] # <<>>
        BY <2>7
      <4> QED BY <4>3, <4>4
    <3> QED BY <3>1, <3>2
  <2>10. ASSUME NEW i \in 1 .. k - 1 PROVE e[i] # e[i + 1]
    <3>1. PICK j \in 1 .. n : j = n - (k - 1) + i
      BY <2>6
    <3>2. e[i] = t[j]
      BY <2>5, <3>1
    <3>3. CASE i = k - 1
      <4>1. j = n /\ i + 1 = k
        BY <3>1, <3>3
      <4>2. t # <<>>
        BY <2>2, <4>1, EmptySeq
      <4>3. t[n] # w
        BY <1>2, <2>2, <4>2 DEF Last
      <4> QED BY <2>5, <3>2, <4>1, <4>3
    <3>4. CASE i # k - 1
      <4>1. i + 1 \in 1 .. k - 1 /\ n - (k - 1) + (i + 1) = j + 1 /\ j \in 1 .. n - 1
        BY <2>6, <3>1, <3>4
      <4>2. e[i + 1] = t[j + 1]
        BY <2>5, <4>1
      <4> QED BY <2>7, <3>2, <4>1, <4>2
    <3> QED BY <3>3, <3>4
  <2> QED BY <2>1, <2>5, <2>9, <2>10 DEF Neat, Varied
<1> QED BY <1>1, <1>2

(* Adding a line to what is kept keeps what is entered with it.            *)
LEMMA AddedFull ==
  ASSUME NEW s \in Histories, NEW t \in Histories, NEW w \in Words, Full(s, t)
  PROVE  Full(Added(s, w), Enters(t, w))
<1>1. w \in Texts /\ w # <<>>
  BY DEF Words
<1>2. PICK m \in Nat : m = Len(s) /\ m <= history_max_len
  BY HistoryFacts
<1>3. PICK n \in Nat : n = Len(t) /\ n <= history_max_len
  BY HistoryFacts
<1>4. PICK M \in Nat \ {0} : M = history_max_len
  BY LineEditorAssumption
<1>5. m <= n /\ (\A i \in 1 .. m : s[i] = t[n - m + i]) /\ (m = n \/ m >= M - 1)
  BY <1>2, <1>3, <1>4 DEF Full, Ends
<1>6. CASE t # <<>> /\ Last(t) = w /\ s # <<>>
  <2>1. Last(s) = w
    BY <1>6, LastOfEnds DEF Full
  <2> QED BY <1>6, <2>1 DEF Added, Enters
<1>7. CASE t # <<>> /\ Last(t) = w /\ s = <<>>
  <2>1. m = 0 /\ n # 0 /\ M = 1 /\ n = 1
    <3>1. m = 0 /\ n # 0
      BY <1>2, <1>3, <1>7, EmptySeq
    <3> QED BY <1>3, <1>4, <1>5, <3>1
  <2>2. Added(s, w) = Append(s, w)
    BY <1>2, <1>4, <1>7, <2>1 DEF Added
  <2>3. PICK a : a = Append(s, w)
    OBVIOUS
  <2>4. Len(a) = 1 /\ a[1] = w
    <3>1. s \in Seq(Texts)
      BY DEF Histories
    <3>2. Len(a) = Len(s) + 1 /\ a[Len(s) + 1] = w
      BY <1>1, <2>3, <3>1, AppendProperties
    <3>3. Len(s) + 1 = 1
      BY <1>2, <2>1
    <3> QED BY <3>2, <3>3
  <2>5. Enters(t, w) = t /\ t[1] = w
    BY <1>3, <1>7, <2>1 DEF Enters, Last
  <2>6. ASSUME NEW i \in 1 .. 1 PROVE a[i] = t[1 - 1 + i]
    <3>1. i = 1 /\ 1 - 1 + i = 1
      OBVIOUS
    <3> QED BY <2>4, <2>5, <3>1
  <2>7. Len(t) = 1
    BY <1>3, <2>1
  <2>8. Full(a, t)
    BY <2>4, <2>6, <2>7 DEF Full, Ends
  <2> QED BY <2>2, <2>3, <2>5, <2>8
<1>8. CASE ~(t # <<>> /\ Last(t) = w)
  <2>1. ~(s # <<>> /\ Last(s) = w)
    BY <1>8, LastOfEnds DEF Full
  <2>2. PICK g : g = Trimmed(s)
    OBVIOUS
  <2>3. PICK k \in Nat : k = Len(g)
    BY <2>2, TrimmedFacts
  <2>4. k = (IF m = M THEN M - 1 ELSE m) /\ (\A i \in 1 .. k : g[i] = s[m - k + i])
        /\ g \in Seq(Texts)
    BY <1>2, <1>4, <2>2, <2>3, TrimmedFacts
  <2>5. PICK a : a = Append(g, w)
    OBVIOUS
  <2>6. Added(s, w) = a
    BY <2>1, <2>2, <2>5, AddedNew
  <2>7. Len(a) = k + 1 /\ a[k + 1] = w /\ \A i \in 1 .. k : a[i] = g[i]
    <3>1. /\ Len(a) = Len(g) + 1 /\ a[Len(g) + 1] = w
          /\ \A i \in 1 .. Len(g) : a[i] = g[i]
      BY <1>1, <2>4, <2>5, AppendProperties
    <3> QED BY <2>3, <3>1
  <2>8. PICK e : e = Enters(t, w)
    OBVIOUS
  <2>9. PICK d \in Nat \ {0} : d = (IF n < M THEN n + 1 ELSE M)
    OBVIOUS
  <2>10. Len(e) = d /\ e[d] = w /\ \A i \in 1 .. d - 1 : e[i] = t[n - (d - 1) + i]
    <3>1. /\ Len(e) = IF Len(t) < history_max_len THEN Len(t) + 1 ELSE history_max_len
          /\ e[Len(e)] = w
          /\ \A i \in 1 .. Len(e) - 1 : e[i] = t[Len(t) - (Len(e) - 1) + i]
      BY <1>8, <2>8, EntersFacts
    <3>2. Len(e) = d
      BY <3>1, <1>3, <1>4, <2>9
    <3> QED BY <3>1, <3>2, <1>3
  <2>11. d = k + 1 /\ k <= m
    BY <1>2, <1>3, <1>4, <1>5, <2>4, <2>9
  <2>12. ASSUME NEW i \in 1 .. d PROVE a[i] = e[d - d + i]
    <3>1. d - d + i = i
      OBVIOUS
    <3>2. CASE i = d
      BY <2>7, <2>10, <2>11, <3>1, <3>2
    <3>3. CASE i # d
      <4>1. i \in 1 .. k /\ i \in 1 .. d - 1
        BY <2>11, <3>3
      <4>2. PICK j \in 1 .. m : j = m - k + i
        BY <2>11, <4>1
      <4>3. n - m + j = n - (d - 1) + i
        BY <2>11, <4>2
      <4>4. a[i] = s[j] /\ s[j] = t[n - m + j] /\ e[i] = t[n - (d - 1) + i]
        BY <1>5, <2>4, <2>7, <2>10, <4>1, <4>2
      <4> QED BY <3>1, <4>3, <4>4
    <3> QED BY <3>2, <3>3
  <2>13. Len(a) = d /\ d <= d
    BY <2>7, <2>11
  <2> QED BY <2>6, <2>8, <2>10, <2>12, <2>13 DEF Full, Ends
<1> QED BY <1>6, <1>7, <1>8
-----------------------------------------------------------------------------
(* Loading what is kept gives it back; strtok leaves out the empty lines.  *)
LEMMA Extended ==
  ASSUME NEW f \in Histories, NEW i \in 1 .. Len(f)
  PROVE  /\ SubSeq(f, 1, i) = Append(SubSeq(f, 1, i - 1), f[i])
         /\ SubSeq(f, 1, i) \in Seq(Texts) /\ Len(SubSeq(f, 1, i)) = i
         /\ \A j \in 1 .. i : SubSeq(f, 1, i)[j] = f[j]
<1>1. PICK n \in Nat : n = Len(f)
  BY HistoryFacts
<1>2. f \in Seq(Texts) /\ i \in Nat \ {0} /\ i <= n /\ f[i] \in Texts
  BY <1>1, HistoryFacts
<1>3. ASSUME NEW k \in 0 .. n
      PROVE  /\ SubSeq(f, 1, k) \in Seq(Texts) /\ Len(SubSeq(f, 1, k)) = k
             /\ \A j \in 1 .. k : SubSeq(f, 1, k)[j] = f[j]
  <2>1. 1 \in Nat \ {0} /\ k \in Nat /\ k <= Len(f)
    BY <1>1
  <2>2. /\ SubSeq(f, 1, k) \in Seq(Texts)
        /\ Len(SubSeq(f, 1, k)) = IF 1 <= k THEN k - 1 + 1 ELSE 0
        /\ \A j \in 1 .. k - 1 + 1 : SubSeq(f, 1, k)[j] = f[1 + j - 1]
    BY <1>2, <2>1, Piece
  <2>3. k - 1 + 1 = k /\ \A j \in 1 .. k : 1 + j - 1 = j
    BY <2>1
  <2> QED BY <2>1, <2>2, <2>3
<1>4. PICK m \in 0 .. n : m = i - 1
  BY <1>2
<1>5. PICK a : a = Append(SubSeq(f, 1, m), f[i])
  OBVIOUS
<1>6. a \in Seq(Texts) /\ Len(a) = i /\ \A j \in 1 .. i : a[j] = f[j]
  <2>1. SubSeq(f, 1, m) \in Seq(Texts) /\ Len(SubSeq(f, 1, m)) = m
        /\ \A j \in 1 .. m : SubSeq(f, 1, m)[j] = f[j]
    BY <1>3
  <2>2. /\ a \in Seq(Texts) /\ Len(a) = Len(SubSeq(f, 1, m)) + 1
        /\ (\A j \in 1 .. Len(SubSeq(f, 1, m)) : a[j] = SubSeq(f, 1, m)[j])
        /\ a[Len(SubSeq(f, 1, m)) + 1] = f[i]
    BY <1>2, <1>5, <2>1, AppendProperties
  <2>3. m + 1 = i /\ m \in Nat
    BY <1>4
  <2> QED BY <2>1, <2>2, <2>3
<1>7. i \in 0 .. n
  BY <1>2
<1>8. /\ SubSeq(f, 1, i) \in Seq(Texts) /\ Len(SubSeq(f, 1, i)) = i
      /\ \A j \in 1 .. i : SubSeq(f, 1, i)[j] = f[j]
  BY <1>3, <1>7
<1>9. SubSeq(f, 1, i) = a
  BY <1>6, <1>8, SeqEqual
<1> QED BY <1>4, <1>5, <1>8, <1>9

LEMMA LoadIdentity == ASSUME NEW f \in Histories, Varied(f) PROVE Load(f) = f
<1>1. PICK n \in Nat : n = Len(f) /\ n <= history_max_len
  BY HistoryFacts
<1>2. f \in Seq(Texts)
  BY HistoryFacts
<1>3. PICK h : /\ h[0] = <<>> /\ h[n] = Load(f)
               /\ \A i \in 1 .. n : h[i] = Added(h[i - 1], f[i])
  BY <1>1, <1>2, LoadSteps
<1> DEFINE G == {i \in 0 .. n : h[i] = SubSeq(f, 1, i)}
<1>4. 0 \in G
  <2>1. SubSeq(f, 1, 0) = <<>>
    BY SubSeqEmpty
  <2>2. 0 \in 0 .. n /\ h[0] = SubSeq(f, 1, 0)
    BY <1>1, <1>3, <2>1
  <2> QED BY <2>2
<1>5. ASSUME NEW i \in 1 .. n, i - 1 \in G PROVE i \in G
  <2>1. PICK m \in 0 .. n : m = i - 1 /\ m < n
    OBVIOUS
  <2>2. PICK g : g = SubSeq(f, 1, m)
    OBVIOUS
  <2>3. h[m] = g /\ h[i] = Added(g, f[i])
    BY <1>3, <1>5, <2>1, <2>2
  <2>4. Append(g, f[i]) = SubSeq(f, 1, i)
    BY <1>1, <2>1, <2>2, Extended
  <2>5. CASE m = 0
    <3>1. g = <<>> /\ Len(g) = 0
      BY <2>2, <2>5, SubSeqEmpty, EmptySeq
    <3>2. Added(g, f[i]) = Append(g, f[i])
      BY <3>1, LineEditorAssumption DEF Added
    <3> QED BY <2>3, <2>4, <3>2
  <2>6. CASE m # 0
    <3>1. m \in 1 .. Len(f)
      BY <1>1, <2>1, <2>6
    <3>2. Len(g) = m /\ g[m] = f[m]
      <4>1. Len(SubSeq(f, 1, m)) = m /\ \A j \in 1 .. m : SubSeq(f, 1, m)[j] = f[j]
        BY <3>1, Extended
      <4>2. m \in 1 .. m
        BY <3>1
      <4> QED BY <2>2, <4>1, <4>2
    <3>3. f[m] # f[m + 1] /\ m + 1 = i
      <4>1. m \in 1 .. Len(f) - 1
        BY <1>1, <2>1, <2>6
      <4> QED BY <2>1, <4>1 DEF Varied
    <3>4. Last(g) # f[i]
      BY <3>2, <3>3 DEF Last
    <3>5. Len(g) # history_max_len
      BY <1>1, <2>1, <3>2, LineEditorAssumption
    <3>6. Added(g, f[i]) = Append(g, f[i])
      BY <3>4, <3>5 DEF Added
    <3> QED BY <2>3, <2>4, <3>6
  <2> QED BY <2>5, <2>6
<1> HIDE DEF G
<1>6. n \in G
  BY <1>4, <1>5, Climbs
<1>7. SubSeq(f, 1, n) = f
  BY <1>1, <1>2, SubSeqFull
<1> QED BY <1>3, <1>6, <1>7 DEF G

LEMMA NonEmptyPrefix ==
  ASSUME NEW f \in Histories, NEW k \in 0 .. Len(f),
         \A i \in 1 .. k : f[i] # <<>>, \A i \in k + 1 .. Len(f) : f[i] = <<>>
  PROVE  NonEmpty(f) = SubSeq(f, 1, k)
<1>1. PICK n \in Nat : n = Len(f)
  BY HistoryFacts
<1>2. f \in Seq(Texts)
  BY HistoryFacts
<1>3. PICK r : /\ r[0] = <<>> /\ r[n] = NonEmpty(f)
               /\ \A i \in 1 .. n : r[i] = IF f[i] = <<>> THEN r[i - 1]
                                           ELSE Append(r[i - 1], f[i])
  BY <1>1, <1>2, NonEmptySteps
<1> DEFINE G == {i \in 0 .. n : r[i] = SubSeq(f, 1, IF i <= k THEN i ELSE k)}
<1>4. 0 \in G
  <2>1. SubSeq(f, 1, 0) = <<>>
    BY SubSeqEmpty
  <2>2. 0 <= k /\ 0 \in 0 .. n
    BY <1>1
  <2>3. r[0] = SubSeq(f, 1, IF 0 <= k THEN 0 ELSE k)
    BY <1>3, <2>1, <2>2
  <2> QED BY <2>2, <2>3
<1>5. ASSUME NEW i \in 1 .. n, i - 1 \in G PROVE i \in G
  <2>1. r[i - 1] = SubSeq(f, 1, IF i - 1 <= k THEN i - 1 ELSE k)
    BY <1>5
  <2>2. CASE i <= k
    <3>1. i \in 1 .. k /\ i \in 1 .. Len(f) /\ i - 1 <= k
      BY <1>1, <2>2
    <3>2. r[i] = Append(SubSeq(f, 1, i - 1), f[i])
      BY <1>3, <2>1, <3>1
    <3>3. r[i] = SubSeq(f, 1, i)
      BY <3>1, <3>2, Extended
    <3> QED BY <1>1, <2>2, <3>3
  <2>3. CASE ~(i <= k)
    <3>1. i \in k + 1 .. Len(f)
      BY <1>1, <2>3
    <3>2. r[i] = r[i - 1]
      BY <1>3, <3>1
    <3>3. (IF i - 1 <= k THEN i - 1 ELSE k) = k
      BY <1>1, <2>3
    <3> QED BY <2>1, <2>3, <3>2, <3>3
  <2> QED BY <2>2, <2>3
<1> HIDE DEF G
<1>6. n \in G
  <2>1. \A i \in 0 .. n : i \in G
    BY <1>4, <1>5, Climbs
  <2>2. n \in 0 .. n
    BY <1>1
  <2> QED BY <2>1, <2>2
<1>7. (IF n <= k THEN n ELSE k) = k
  BY <1>1
<1> QED BY <1>3, <1>6, <1>7 DEF G

LEMMA AppendedEmpty ==
  ASSUME NEW s \in Histories, NEW f \in Histories, f = Append(s, <<>>)
  PROVE  /\ f # <<>> /\ Len(f) = Len(s) + 1 /\ Len(s) \in Nat /\ Last(f) = <<>>
         /\ (\A i \in 1 .. Len(s) : f[i] = s[i]) /\ f[Len(s) + 1] = <<>>
         /\ Front(f) = s /\ SubSeq(f, 1, Len(s)) = s
<1>1. s \in Seq(Texts) /\ <<>> \in Texts /\ Len(s) \in Nat
  BY HistoryFacts, EmptyText
<1>2. /\ f # <<>> /\ Len(f) = Len(s) + 1 /\ (\A i \in 1 .. Len(s) : f[i] = s[i])
      /\ f[Len(s) + 1] = <<>>
  BY <1>1, AppendProperties
<1>3. Front(f) = s
  BY <1>1, FrontOfAppend
<1>4. Len(f) - 1 = Len(s)
  BY <1>1, <1>2
<1> QED BY <1>1, <1>2, <1>3, <1>4 DEF Last, Front

LEMMA ClosedFacts ==
  ASSUME NEW s \in Histories, NEW f \in Histories, Neat(s), Closed(f, s)
  PROVE  NonEmpty(f) = s /\ Varied(f)
<1>1. PICK m \in Nat : m = Len(s)
  BY HistoryFacts
<1>2. /\ \A i \in 1 .. m : s[i] # <<>>
      /\ \A i \in 1 .. m - 1 : s[i] # s[i + 1]
  BY <1>1 DEF Neat, Varied
<1>3. CASE f = s
  <2>1. m \in 0 .. Len(f) /\ \A i \in m + 1 .. Len(f) : f[i] = <<>>
    BY <1>1, <1>3
  <2>2. NonEmpty(f) = SubSeq(f, 1, m)
    BY <1>2, <1>3, <2>1, NonEmptyPrefix
  <2>3. SubSeq(s, 1, m) = s
    BY <1>1, HistoryFacts, SubSeqFull
  <2> QED BY <1>3, <2>2, <2>3 DEF Neat
<1>4. CASE f = Append(s, <<>>)
  <2>1. /\ Len(f) = m + 1 /\ (\A i \in 1 .. m : f[i] = s[i]) /\ f[m + 1] = <<>>
        /\ SubSeq(f, 1, m) = s
    BY <1>1, <1>4, AppendedEmpty
  <2>2. m \in 0 .. Len(f) /\ (\A i \in 1 .. m : f[i] # <<>>)
        /\ \A i \in m + 1 .. Len(f) : f[i] = <<>>
    <3>1. m \in 0 .. m + 1 /\ \A i \in m + 1 .. m + 1 : i = m + 1
      OBVIOUS
    <3> QED BY <1>2, <2>1, <3>1
  <2>3. NonEmpty(f) = s
    BY <2>1, <2>2, NonEmptyPrefix
  <2>4. ASSUME NEW i \in 1 .. m PROVE f[i] # f[i + 1]
    <3>1. CASE i = m
      BY <2>1, <2>2, <3>1
    <3>2. CASE i # m
      <4>1. i \in 1 .. m - 1 /\ i + 1 \in 1 .. m
        BY <3>2
      <4> QED BY <1>2, <2>1, <4>1
    <3> QED BY <3>1, <3>2
  <2>5. Len(f) - 1 = m
    BY <2>1
  <2> QED BY <2>3, <2>4, <2>5 DEF Varied
<1> QED BY <1>3, <1>4 DEF Closed

LEMMA SuffixOfEnds ==
  ASSUME NEW s \in Histories, NEW t \in Histories, Ends(s, t) PROVE IsSuffix(s, t)
<1>1. PICK m \in Nat : m = Len(s)
  BY HistoryFacts
<1>2. PICK n \in Nat : n = Len(t)
  BY HistoryFacts
<1>3. m <= n /\ \A i \in 1 .. m : s[i] = t[n - m + i]
  BY <1>1, <1>2 DEF Ends
<1>4. PICK a : a = Reverse(s)
  OBVIOUS
<1>5. PICK b : b = Reverse(t)
  OBVIOUS
<1>6. a \in [1 .. m -> Texts] /\ \A i \in 1 .. m : a[i] = s[m - i + 1]
  <2>1. a = [i \in 1 .. m |-> s[m - i + 1]]
    BY <1>1, <1>4 DEF Reverse
  <2>2. \A i \in 1 .. m : m - i + 1 \in 1 .. m
    OBVIOUS
  <2>3. \A i \in 1 .. m : s[i] \in Texts
    BY <1>1, HistoryFacts
  <2> QED BY <2>1, <2>2, <2>3
<1>7. b \in [1 .. n -> Texts] /\ \A i \in 1 .. n : b[i] = t[n - i + 1]
  <2>1. b = [i \in 1 .. n |-> t[n - i + 1]]
    BY <1>2, <1>5 DEF Reverse
  <2>2. \A i \in 1 .. n : n - i + 1 \in 1 .. n
    OBVIOUS
  <2>3. \A i \in 1 .. n : t[i] \in Texts
    BY <1>2, HistoryFacts
  <2> QED BY <2>1, <2>2, <2>3
<1>8. a \in Seq(Texts) /\ Len(a) = m /\ b \in Seq(Texts) /\ Len(b) = n
  <2>1. a \in Seq(Texts) /\ DOMAIN a = 1 .. m
    BY <1>6, SeqDef
  <2>2. b \in Seq(Texts) /\ DOMAIN b = 1 .. n
    BY <1>7, SeqDef
  <2> QED BY <2>1, <2>2, LenProperties
<1>9. PICK c : c = SubSeq(b, 1, m)
  OBVIOUS
<1>10. c \in Seq(Texts) /\ Len(c) = m /\ \A i \in 1 .. m : c[i] = b[i]
  <2>1. 1 \in Nat \ {0} /\ m <= Len(b)
    BY <1>3, <1>8
  <2>2. /\ c \in Seq(Texts) /\ Len(c) = IF 1 <= m THEN m - 1 + 1 ELSE 0
        /\ \A i \in 1 .. m - 1 + 1 : c[i] = b[1 + i - 1]
    BY <1>8, <1>9, <2>1, Piece
  <2>3. m - 1 + 1 = m /\ \A i \in 1 .. m : 1 + i - 1 = i
    OBVIOUS
  <2> QED BY <2>2, <2>3
<1>11. ASSUME NEW i \in 1 .. m PROVE a[i] = c[i]
  <2>1. PICK j \in 1 .. m : j = m - i + 1
    OBVIOUS
  <2>2. n - m + j = n - i + 1 /\ i \in 1 .. n
    BY <1>3, <2>1
  <2>3. a[i] = s[j] /\ c[i] = b[i] /\ b[i] = t[n - i + 1]
    BY <1>6, <1>7, <1>10, <2>1, <2>2
  <2>4. s[j] = t[n - m + j]
    BY <1>3
  <2> QED BY <2>2, <2>3, <2>4
<1>12. a = c
  BY <1>8, <1>10, <1>11, SeqEqual
<1>13. SubSeq(a, 1, m) = a
  BY <1>8, SubSeqFull
<1> QED BY <1>3, <1>4, <1>5, <1>8, <1>9, <1>12, <1>13 DEF IsSuffix, IsPrefix
-----------------------------------------------------------------------------
(* The history file, and the history, as long as nothing else came among   *)
(* the lines that were entered                                             *)
KeptFile(f, t) == \E s \in Histories : Full(s, t) /\ Closed(f, s)
HistoryKept ==
  ~past.disturbed => /\ Neat(past.entered)
                     /\ Full(Scratched(history), past.entered)
                     /\ KeptFile(saved, past.entered)

LEMMA KeptGoesOn ==
  ASSUME HistoryKept, Scratched(history') = Scratched(history) \/ history' = history,
         saved' = saved, past'.entered = past.entered, past.disturbed => past'.disturbed
  PROVE  HistoryKept'
<1>1. Scratched(history') = Scratched(history)
  OBVIOUS
<1>2. Scratched(history)' = Scratched(history')
  BY DEF Scratched, Front
<1> QED BY <1>1, <1>2 DEF HistoryKept, KeptFile, Full, Ends, Neat, Varied, Closed

(* A new line begins: the scratch entry comes after what is kept.          *)
LEMMA BeginsFull ==
  ASSUME NEW s \in Histories, NEW t \in Histories, Full(s, t), Neat(t),
         NEW f \in Histories, Closed(f, s)
  PROVE  Full(Scratched(Added(f, <<>>)), t)
<1>1. Neat(s)
  BY EndsNeat DEF Full
<1>2. CASE f = s
  <2>1. ~(s # <<>> /\ Last(s) = <<>>)
    <3> SUFFICES ASSUME s # <<>>, Last(s) = <<>> PROVE FALSE
      OBVIOUS
    <3>1. Len(s) \in 1 .. history_max_len /\ Last(s) = s[Len(s)]
      BY LastEntry
    <3>2. PICK m \in Nat \ {0} : m = Len(s)
      BY <3>1
    <3>3. m \in 1 .. m
      OBVIOUS
    <3> QED BY <1>1, <3>1, <3>2, <3>3 DEF Neat
  <2>2. Added(s, <<>>) = Append(Trimmed(s), <<>>)
    BY <2>1, AddedNew
  <2>3. Trimmed(s) \in Seq(Texts) /\ <<>> \in Texts
    BY TrimmedFacts, EmptyText
  <2>4. Front(Append(Trimmed(s), <<>>)) = Trimmed(s)
    BY <2>3, FrontOfAppend
  <2> QED BY <1>2, <2>2, <2>4, TrimmedFull DEF Scratched
<1>3. CASE f = Append(s, <<>>)
  <2>1. f # <<>> /\ Last(f) = <<>> /\ Front(f) = s
    BY <1>3, AppendedEmpty
  <2>2. Added(f, <<>>) = f
    BY <2>1 DEF Added
  <2> QED BY <2>1, <2>2 DEF Scratched
<1> QED BY <1>2, <1>3 DEF Closed

LEMMA KeptAgain ==
  ASSUME HistoryKept, EditorTypes, NEW t \in Histories, NEW s \in Histories,
         ~past.disturbed => Neat(t) /\ Full(s, t) /\ KeptFile(saved', t),
         NEW f \in Histories, Closed(f, s), history' = Added(f, <<>>),
         past'.entered = t, past'.disturbed = past.disturbed
  PROVE  HistoryKept'
<1> SUFFICES ASSUME ~past.disturbed
             PROVE  Neat(t) /\ Full(Scratched(history'), t) /\ KeptFile(saved', t)
  BY DEF HistoryKept, KeptFile, Full, Ends, Neat, Varied, Closed, Scratched, Front
<1> QED BY BeginsFull

(* The scratch entry is not among what is kept.                            *)
LEMMA ScratchReplaced ==
  ASSUME NEW h \in Histories, h # <<>>, NEW x \in Texts
  PROVE  Scratched([h EXCEPT ![Len(h)] = x]) = Scratched(h)
<1>1. PICK n \in Nat \ {0} : n = Len(h)
  BY LastEntry
<1>2. PICK g : g = [h EXCEPT ![n] = x]
  OBVIOUS
<1>3. h \in Seq(Texts) /\ n \in 1 .. Len(h)
  BY <1>1, HistoryFacts
<1>4. g \in Histories /\ Len(g) = n /\ \A i \in 1 .. n : i # n => g[i] = h[i]
  <2>1. g \in Histories /\ Len(g) = Len(h)
    BY <1>2, <1>3, EntryReplaced
  <2>2. DOMAIN h = 1 .. n
    BY <1>1, HistoryFacts
  <2> QED BY <1>1, <1>2, <2>1, <2>2
<1>5. g \in Seq(Texts) /\ g # <<>>
  BY <1>4, HistoryFacts, EmptySeq
<1>6. /\ Front(h) \in Seq(Texts) /\ Len(Front(h)) = n - 1
      /\ \A i \in 1 .. n - 1 : Front(h)[i] = h[i]
  BY <1>1, <1>3, FrontOf
<1>7. /\ Front(g) \in Seq(Texts) /\ Len(Front(g)) = n - 1
      /\ \A i \in 1 .. n - 1 : Front(g)[i] = g[i]
  BY <1>4, <1>5, FrontOf
<1>8. \A i \in 1 .. n - 1 : Front(g)[i] = Front(h)[i]
  BY <1>4, <1>6, <1>7
<1>9. Front(g) = Front(h)
  BY <1>6, <1>7, <1>8, SeqEqual
<1> QED BY <1>1, <1>2, <1>9 DEF Scratched

LEMMA RecallKeeps ==
  ASSUME EditorTypes, HistoryKept, NEW k, EditHistoryNext(k) PROVE HistoryKept'
<1> DEFINE i == Len(history) - l.history_index
<1>1. saved' = saved
  BY DEF EditHistoryNext
<1>2. CASE UNCHANGED <<history, past>>
  BY <1>1, <1>2, KeptGoesOn
<1>3. CASE ~UNCHANGED <<history, past>>
  <2>1. /\ history' = [history EXCEPT ![i] = l.buf]
        /\ past' = [past EXCEPT !.disturbed =
                      past.disturbed \/ (l.history_index > 0 /\ l.buf # history[i])]
    BY <1>3 DEF EditHistoryNext
  <2>2. /\ history \in Histories /\ history # <<>> /\ l.buf \in Texts
        /\ l.history_index \in Nat /\ past \in [entered : Histories, disturbed : BOOLEAN]
    BY HistoryNeverEmpty, LineFacts DEF EditorTypes
  <2>3. PICK b \in BOOLEAN : b = (past.disturbed \/ (l.history_index > 0 /\ l.buf # history[i]))
    BY <2>2
  <2>4. past'.entered = past.entered /\ past'.disturbed = b
    <3> HIDE DEF i
    <3> QED BY <2>1, <2>2, <2>3
  <2>5. CASE b
    BY <2>4, <2>5 DEF HistoryKept
  <2>6. CASE ~b
    <3>1. CASE l.history_index > 0
      <4>1. l.buf = history[i]
        BY <2>3, <2>6, <3>1
      <4>2. history' = history
        <5> HIDE DEF i
        <5>1. PICK x : x = history[i]
          OBVIOUS
        <5> QED BY <2>1, <2>2, <4>1, <5>1, HistoryFacts
      <4> QED BY <1>1, <2>3, <2>4, <2>6, <4>2, KeptGoesOn
    <3>2. CASE ~(l.history_index > 0)
      <4>1. Len(history) \in Nat
        BY <2>2, HistoryFacts
      <4>2. i = Len(history)
        BY <2>2, <3>2, <4>1
      <4>3. Scratched(history') = Scratched(history)
        BY <2>1, <2>2, <4>2, ScratchReplaced
      <4> QED BY <1>1, <2>3, <2>4, <2>6, <4>3, KeptGoesOn
    <3> QED BY <3>1, <3>2
  <2> QED BY <2>5, <2>6
<1> QED BY <1>2, <1>3

LEMMA CancelKeeps == ASSUME EditorTypes, HistoryKept, Cancel PROVE HistoryKept'
<1>1. /\ history' = Added(history, <<>>) /\ saved' = saved
      /\ past' = [past EXCEPT !.disturbed = past.disturbed \/ Last(history) # <<>>]
  BY DEF Cancel, Begin
<1>2. PICK b \in BOOLEAN : b = (past.disturbed \/ Last(history) # <<>>)
  BY DEF EditorTypes
<1>3. past'.entered = past.entered /\ past'.disturbed = b
  BY <1>1, <1>2 DEF EditorTypes
<1>4. CASE b
  BY <1>3, <1>4 DEF HistoryKept
<1>5. CASE ~b
  <2>1. history # <<>> /\ Last(history) = <<>>
    BY <1>2, <1>5, HistoryNeverEmpty
  <2>2. history' = history
    BY <1>1, <2>1 DEF Added
  <2> QED BY <1>1, <1>2, <1>3, <1>5, <2>2, KeptGoesOn
<1> QED BY <1>4, <1>5

LEMMA ClosedItself == ASSUME NEW s PROVE Closed(s, s)
BY DEF Closed

LEMMA RestartKeeps == ASSUME EditorTypes, HistoryKept, Restart PROVE HistoryKept'
<1>1. saved' = saved /\ past' = past /\ history' = Added(Load(saved), <<>>)
  BY DEF Restart, Begin
<1>2. saved \in Histories /\ past.entered \in Histories
  BY DEF EditorTypes
<1>3. CASE past.disturbed
  BY <1>1, <1>3 DEF HistoryKept
<1>4. CASE ~past.disturbed
  <2>1. Neat(past.entered) /\ KeptFile(saved, past.entered)
    BY <1>4 DEF HistoryKept
  <2>2. PICK s \in Histories : Full(s, past.entered) /\ Closed(saved, s)
    BY <2>1 DEF KeptFile
  <2>3. Neat(s)
    BY <1>2, <2>1, <2>2, EndsNeat DEF Full
  <2>4. Load(saved) = saved
    BY <1>2, <2>2, <2>3, ClosedFacts, LoadIdentity
  <2> QED BY <1>1, <1>2, <2>1, <2>2, <2>4, KeptAgain
<1> QED BY <1>3, <1>4

(* What process_line has done of the lines that were read                  *)
KeptSoFar(e) == {r \in Progress : /\ Neat(r.entered) /\ Full(r.history, r.entered)
                                  /\ ~r.adds => r.entered = e}

LEMMA ProcessedKeeps ==
  ASSUME NEW e, NEW r \in KeptSoFar(e), NEW w \in Words, NEW open \in BOOLEAN
  PROVE  Processed(r, w, open) \in KeptSoFar(e)
<1>1. /\ r \in Progress /\ Neat(r.entered) /\ Full(r.history, r.entered)
      /\ r.history \in Histories /\ r.entered \in Histories /\ w \in Texts
  BY DEF KeptSoFar, Progress, Words
<1>2. Processed(r, w, open) \in Progress
  BY <1>1, ProcessedTyped
<1>3. CASE ~r.open /\ Blanks(w)
  BY <1>3 DEF Processed
<1>4. CASE ~(~r.open /\ Blanks(w))
  <2>1. PICK h : h = Added(r.history, w)
    OBVIOUS
  <2>2. PICK t : t = Enters(r.entered, w)
    OBVIOUS
  <2>3. Neat(t) /\ Full(h, t)
    BY <1>1, <2>1, <2>2, EntersNeat, AddedFull
  <2>4. Processed(r, w, open) = [history |-> h, open |-> open, adds |-> TRUE, entered |-> t]
    BY <1>4, <2>1, <2>2 DEF Processed, Enters
  <2>5. PICK p : p = Processed(r, w, open)
    OBVIOUS
  <2>6. p.history = h /\ p.entered = t /\ p.adds = TRUE
    BY <2>4, <2>5
  <2> QED BY <1>2, <2>3, <2>5, <2>6 DEF KeptSoFar
<1> QED BY <1>3, <1>4

LEMMA NoScratchAgain ==
  ASSUME EditorTypes
  PROVE  /\ Scratched(history) \in Histories
         /\ Len(Scratched(history)) < history_max_len
<1>1. /\ history \in Histories /\ Scratched(history) \in Histories
      /\ Len(Scratched(history)) = Len(history) - 1 /\ Len(history) \in Nat \ {0}
  BY HistoryNeverEmpty
<1>2. Len(history) <= history_max_len /\ history_max_len \in Nat
  BY <1>1, HistoryFacts
<1> QED BY <1>1, <1>2

(* The line that is left after the forms that were read, if nothing is     *)
LEMMA EmptyLineAdded ==
  ASSUME NEW s \in Histories, Neat(s), Len(s) < history_max_len
  PROVE  Closed(Added(s, <<>>), s)
<1>1. ~(s # <<>> /\ Last(s) = <<>>)
  <2> SUFFICES ASSUME s # <<>>, Last(s) = <<>> PROVE FALSE
    OBVIOUS
  <2>1. Len(s) \in 1 .. history_max_len /\ Last(s) = s[Len(s)]
    BY LastEntry
  <2>2. PICK m \in Nat \ {0} : m = Len(s)
    BY <2>1
  <2>3. m \in 1 .. m
    OBVIOUS
  <2> QED BY <2>1, <2>2, <2>3 DEF Neat
<1>2. Trimmed(s) = s
  BY HistoryFacts DEF Trimmed
<1>3. Added(s, <<>>) = Append(s, <<>>)
  BY <1>1, <1>2, AddedNew
<1> QED BY <1>3 DEF Closed

LEMMA OneLineProcessed ==
  ASSUME NEW lines \in Seq(Texts), Len(lines) = 1, lines[1] = <<>>,
         NEW open \in [DOMAIN lines -> BOOLEAN], NEW start \in Progress, start.open
  PROVE  /\ Process(lines, open, start).history = Added(start.history, <<>>)
         /\ Process(lines, open, start).entered = start.entered
         /\ Process(lines, open, start).adds = TRUE
<1>1. PICK r : /\ r[0] = start /\ r[Len(lines)] = Process(lines, open, start)
               /\ \A i \in 1 .. Len(lines) : r[i] = Processed(r[i - 1], lines[i], open[i])
  BY ProcessSteps
<1>2. 1 - 1 = 0 /\ 1 \in 1 .. 1
  OBVIOUS
<1>3. Process(lines, open, start) = Processed(start, <<>>, open[1])
  BY <1>1, <1>2
<1>4. PICK p : p = Processed(start, <<>>, open[1])
  OBVIOUS
<1>5. p = [history |-> Added(start.history, <<>>), open |-> open[1], adds |-> TRUE,
           entered |-> start.entered]
  BY <1>4 DEF Processed
<1> QED BY <1>3, <1>4, <1>5

LEMMA ContinueKeeps == ASSUME EditorTypes, HistoryKept, Continue PROVE HistoryKept'
<1>1. PICK h : h = Scratched(history)
  OBVIOUS
<1>2. h \in Histories /\ Len(h) < history_max_len /\ past.entered \in Histories
  BY <1>1, NoScratchAgain DEF EditorTypes
<1>3. history' = Added(h, <<>>) /\ UNCHANGED <<saved, past>>
  BY <1>1 DEF Continue, Begin
<1>4. ~past.disturbed => /\ Neat(past.entered) /\ Full(h, past.entered)
                         /\ KeptFile(saved, past.entered)
  BY <1>1 DEF HistoryKept
<1> QED BY <1>2, <1>3, <1>4, ClosedItself, KeptAgain

LEMMA EnterKeeps == ASSUME EditorTypes, HistoryKept, Enter PROVE HistoryKept'
<1> DEFINE h == Scratched(history)
           tokens == Tokens(LinesRead)
           start == [history |-> h, open |-> repl.open, adds |-> FALSE, entered |-> past.entered]
<1>1. /\ LinesRead \in Seq(Texts) /\ h \in Histories /\ Len(h) < history_max_len
      /\ past.entered \in Histories /\ repl.open \in BOOLEAN
  BY LinesEntered, NoScratchAgain DEF EditorTypes, Inputs
<1>2. \E open \in [DOMAIN tokens -> BOOLEAN] :
        LET p == Process(tokens, open, start)
        IN /\ saved' = IF p.adds THEN p.history ELSE saved
           /\ past' = [past EXCEPT !.entered = p.entered]
           /\ history' = Added(p.history, <<>>)
  BY DEF Enter, Begin
<1>3. start \in Progress
  BY <1>1 DEF Progress
<1>4. tokens \in Seq(Texts) /\ (tokens \in Seq(Words) \/ (repl.open /\ tokens = << <<>> >>))
  BY <1>1, TokensTyped
<1>5. ~past.disturbed => /\ Neat(past.entered) /\ Full(h, past.entered)
                         /\ KeptFile(saved, past.entered)
  BY DEF HistoryKept
<1> HIDE DEF h
<1>6. ASSUME NEW open \in [DOMAIN tokens -> BOOLEAN], NEW p, p = Process(tokens, open, start),
             saved' = IF p.adds THEN p.history ELSE saved,
             past' = [past EXCEPT !.entered = p.entered],
             history' = Added(p.history, <<>>)
      PROVE  HistoryKept'
  <2>1. start.open = repl.open /\ start.history = h /\ start.entered = past.entered
        /\ start.adds = FALSE
    OBVIOUS
  <2> HIDE DEF tokens, start
  <2>2. p \in Progress
    BY <1>3, <1>4, <1>6, ProcessTyped
  <2>3. p.history \in Histories /\ p.entered \in Histories /\ p.adds \in BOOLEAN
    BY <2>2 DEF Progress
  <2>4. past'.entered = p.entered /\ past'.disturbed = past.disturbed
    BY <1>6 DEF EditorTypes
  <2>5. CASE past.disturbed
    BY <2>4, <2>5 DEF HistoryKept
  <2>6. CASE ~past.disturbed /\ tokens \in Seq(Words)
    <3>1. start \in KeptSoFar(past.entered)
      BY <1>3, <1>5, <2>1, <2>6 DEF KeptSoFar
    <3>2. \A i \in 1 .. Len(tokens) : tokens[i] \in Words /\ open[i] \in BOOLEAN
      BY <2>6, LenProperties, ElementOfSeq
    <3>3. \A i \in 1 .. Len(tokens) : \A x \in KeptSoFar(past.entered) :
            Processed(x, tokens[i], open[i]) \in KeptSoFar(past.entered)
      BY <3>2, ProcessedKeeps
    <3>4. KeptSoFar(past.entered) \subseteq Progress
      BY DEF KeptSoFar
    <3>5. p \in KeptSoFar(past.entered)
      BY <1>4, <1>6, <3>1, <3>3, <3>4, ProcessKeeps
    <3>6. /\ Neat(p.entered) /\ Full(p.history, p.entered)
          /\ ~p.adds => p.entered = past.entered
      BY <3>5 DEF KeptSoFar
    <3>7. KeptFile(saved', p.entered)
      <4>1. CASE p.adds
        BY <1>6, <2>3, <3>6, <4>1, ClosedItself DEF KeptFile
      <4>2. CASE ~p.adds
        BY <1>5, <1>6, <2>6, <3>6, <4>2
      <4> QED BY <4>1, <4>2
    <3> QED BY <1>6, <2>3, <2>4, <3>6, <3>7, ClosedItself, KeptAgain
  <2>7. CASE ~past.disturbed /\ repl.open /\ tokens = << <<>> >>
    <3>1. p.history = Added(h, <<>>) /\ p.entered = past.entered /\ p.adds = TRUE
      <4>1. tokens \in Seq(Texts) /\ Len(tokens) = 1 /\ tokens[1] = <<>>
        BY <2>7, EmptyText
      <4> QED BY <1>3, <1>6, <2>1, <2>7, <4>1, OneLineProcessed
    <3>2. Neat(past.entered) /\ Full(h, past.entered)
      BY <1>5, <2>7
    <3>3. Neat(h)
      BY <1>1, <3>2, EndsNeat DEF Full
    <3>4. Closed(p.history, h)
      BY <1>1, <3>1, <3>3, EmptyLineAdded
    <3>5. KeptFile(saved', past.entered)
      BY <1>1, <1>6, <3>1, <3>2, <3>4 DEF KeptFile
    <3> QED BY <1>1, <1>6, <2>3, <2>4, <3>1, <3>2, <3>4, <3>5, KeptAgain
  <2> QED BY <1>4, <2>5, <2>6, <2>7
<1> HIDE DEF tokens, start
<1> QED BY <1>2, <1>6

LEMMA KeptStep ==
  ASSUME EditorTypes, HistoryKept, [EditorNext]_editorVars PROVE HistoryKept'
<1>1. ASSUME NEW k \in Keys, EditHistoryNext(k) PROVE HistoryKept'
  BY <1>1, RecallKeeps
<1>2. CASE Continue \/ Enter \/ Cancel \/ Restart
  BY <1>2, ContinueKeeps, EnterKeeps, CancelKeeps, RestartKeeps
<1>3. ASSUME NEW k \in Keys, Edit(k) \/ TypeChar(k) \/ Search(k) \/ EndSearch(k)
      PROVE  UNCHANGED <<history, saved, past>>
  BY <1>3 DEF Edit, TypeChar, Search, EndSearch
<1>4. CASE ClearScreen \/ Tab \/ ReverseSearch \/ PrintNow
  <2>1. UNCHANGED <<history, saved, past>>
    BY <1>4 DEF ClearScreen, Tab, ReverseSearch, PrintNow
  <2> QED BY <2>1, KeptGoesOn
<1>5. ASSUME NEW t \in hop.threads, ThreadChecks(t) \/ ThreadMovesBack(t) PROVE HistoryKept'
  BY <1>5, KeptGoesOn DEF ThreadChecks, ThreadMovesBack
<1>6. CASE UNCHANGED editorVars
  BY <1>6, KeptGoesOn DEF editorVars
<1> QED BY <1>1, <1>2, <1>3, <1>4, <1>5, <1>6, KeptGoesOn DEF EditorNext

(* What an earlier Planck that was undisturbed has saved                   *)
Tidy(f) == Varied(f) /\ \A i \in 1 .. Len(f) - 1 : f[i] # <<>>

LEMMA TidyKept ==
  ASSUME NEW f \in Histories, Tidy(f)
  PROVE  NonEmpty(f) \in Histories /\ Neat(NonEmpty(f)) /\ Closed(f, NonEmpty(f))
<1>1. PICK n \in Nat : n = Len(f) /\ n <= history_max_len
  BY HistoryFacts
<1>2. f \in Seq(Texts)
  BY HistoryFacts
<1>3. /\ \A i \in 1 .. n - 1 : f[i] # f[i + 1]
      /\ \A i \in 1 .. n - 1 : f[i] # <<>>
  BY <1>1 DEF Tidy, Varied
<1>4. CASE n = 0 \/ f[n] # <<>>
  <2>1. \A i \in 1 .. n : f[i] # <<>>
    BY <1>1, <1>3, <1>4
  <2>2. n \in 0 .. Len(f) /\ \A i \in n + 1 .. Len(f) : f[i] = <<>>
    BY <1>1
  <2>3. NonEmpty(f) = SubSeq(f, 1, n)
    BY <2>1, <2>2, NonEmptyPrefix
  <2>4. NonEmpty(f) = f
    BY <1>1, <1>2, <2>3, SubSeqFull
  <2> QED BY <1>1, <1>3, <2>1, <2>4, ClosedItself DEF Neat, Varied
<1>5. CASE n # 0 /\ f[n] = <<>>
  <2>1. PICK k \in Nat : k = n - 1
    BY <1>5
  <2>2. k \in 0 .. Len(f) /\ \A i \in k + 1 .. Len(f) : f[i] = <<>>
    <3>1. k \in 0 .. n /\ \A i \in k + 1 .. n : i = n
      BY <2>1
    <3> QED BY <1>1, <1>5, <3>1
  <2>3. \A i \in 1 .. k : f[i] # <<>>
    BY <1>3, <2>1
  <2>4. PICK s : s = SubSeq(f, 1, k)
    OBVIOUS
  <2>5. NonEmpty(f) = s
    BY <2>2, <2>3, <2>4, NonEmptyPrefix
  <2>6. s \in Seq(Texts) /\ Len(s) = k /\ \A i \in 1 .. k : s[i] = f[i]
    <3>1. 1 \in Nat \ {0} /\ k <= Len(f)
      BY <1>1, <2>1
    <3>2. /\ s \in Seq(Texts) /\ Len(s) = IF 1 <= k THEN k - 1 + 1 ELSE 0
          /\ \A i \in 1 .. k - 1 + 1 : s[i] = f[1 + i - 1]
      BY <1>2, <2>4, <3>1, Piece
    <3>3. k - 1 + 1 = k /\ \A i \in 1 .. k : 1 + i - 1 = i
      OBVIOUS
    <3> QED BY <3>2, <3>3
  <2>7. s \in Histories
    BY <1>1, <2>1, <2>6, LineEditorAssumption DEF Histories
  <2>8. Neat(s)
    <3>1. \A i \in 1 .. k : s[i] # <<>>
      BY <2>3, <2>6
    <3>2. ASSUME NEW i \in 1 .. k - 1 PROVE s[i] # s[i + 1]
      <4>1. i \in 1 .. k /\ i + 1 \in 1 .. k /\ i \in 1 .. n - 1
        BY <2>1
      <4> QED BY <1>3, <2>6, <4>1
    <3> QED BY <2>6, <3>1, <3>2 DEF Neat, Varied
  <2>9. f = Append(s, <<>>)
    <3>1. n \in 1 .. Len(f)
      BY <1>1, <1>5
    <3>2. SubSeq(f, 1, n) = Append(SubSeq(f, 1, n - 1), f[n])
      BY <3>1, Extended
    <3>3. SubSeq(f, 1, n) = f
      BY <1>1, <1>2, SubSeqFull
    <3> QED BY <1>5, <2>1, <2>4, <3>2, <3>3
  <2>10. Len(s) < history_max_len
    <3>1. k < n /\ history_max_len \in Nat
      BY <2>1, LineEditorAssumption
    <3> QED BY <1>1, <2>6, <3>1
  <2> QED BY <2>5, <2>7, <2>8, <2>9, <2>10 DEF Closed
<1> QED BY <1>4, <1>5

LEMMA KeptAtFirst ==
  ASSUME \A f \in InitialHistories : Tidy(f), EditorInit PROVE HistoryKept
<1>1. saved \in InitialHistories /\ history = Added(Load(saved), <<>>)
      /\ past = [entered |-> NonEmpty(saved), disturbed |-> FALSE]
  BY DEF EditorInit
<1>2. saved \in Histories /\ Tidy(saved)
  BY <1>1, InitialTexts
<1>3. PICK s : s = NonEmpty(saved)
  OBVIOUS
<1>4. s \in Histories /\ Neat(s) /\ Closed(saved, s)
  BY <1>2, <1>3, TidyKept
<1>5. Full(s, s)
  BY <1>4, FullItself
<1>6. Load(saved) = saved
  BY <1>2, LoadIdentity DEF Tidy
<1>7. Full(Scratched(history), s)
  BY <1>1, <1>2, <1>4, <1>5, <1>6, BeginsFull
<1>8. KeptFile(saved, s)
  BY <1>4, <1>5 DEF KeptFile
<1>9. past.entered = s
  BY <1>1, <1>3
<1> QED BY <1>4, <1>7, <1>8, <1>9 DEF HistoryKept

LEMMA KeptIsShown == ASSUME EditorTypes, HistoryKept PROVE HistoryIsKept
<1> SUFFICES ASSUME ~past.disturbed
             PROVE  /\ IsSuffix(NonEmpty(saved), past.entered)
                    /\ Len(NonEmpty(saved)) >= Min({Len(past.entered), history_max_len - 1})
  BY DEF HistoryIsKept
<1>1. saved \in Histories /\ past.entered \in Histories
  BY DEF EditorTypes
<1>2. PICK t \in Histories : t = past.entered
  BY <1>1
<1>3. Neat(t) /\ KeptFile(saved, t)
  BY <1>2 DEF HistoryKept
<1>4. PICK s \in Histories : Full(s, t) /\ Closed(saved, s)
  BY <1>3 DEF KeptFile
<1>5. Neat(s)
  BY <1>3, <1>4, EndsNeat DEF Full
<1>6. NonEmpty(saved) = s
  BY <1>1, <1>4, <1>5, ClosedFacts
<1>7. IsSuffix(s, t)
  BY <1>4, SuffixOfEnds DEF Full
<1>8. PICK m \in Nat : m = Len(s)
  BY HistoryFacts
<1>9. PICK n \in Nat : n = Len(t)
  BY HistoryFacts
<1>10. PICK k \in Int : k = history_max_len - 1
  BY LineEditorAssumption
<1>11. m = n \/ m >= k
  BY <1>4, <1>8, <1>9, <1>10 DEF Full
<1>12. Min({n, k}) = IF n <= k THEN n ELSE k
  BY MinOfTwo
<1>13. m >= Min({n, k})
  BY <1>11, <1>12
<1> QED BY <1>2, <1>6, <1>7, <1>8, <1>9, <1>10, <1>13

(* The history file holds the last of the lines that were entered, through *)
(* process_line, recalls, evictions and restarts (repl.c, linenoise.c), as *)
(* long as nothing else came among them; if it was at first a file that    *)
(* such a Planck has left.                                                 *)
THEOREM HistoryHoldsTheLastLines ==
  ASSUME ByteBefore # Space, \A f \in InitialHistories : Tidy(f)
  PROVE  EditorSpec => []HistoryIsKept
<1>1. EditorInit => EditorTypes /\ HistoryKept
  BY TypesAtFirst, KeptAtFirst
<1>2. EditorTypes /\ HistoryKept /\ [EditorNext]_editorVars => EditorTypes' /\ HistoryKept'
  BY TypesStep, TypesStutter, KeptStep
<1>3. EditorTypes /\ HistoryKept => HistoryIsKept
  BY KeptIsShown
<1> QED BY <1>1, <1>2, <1>3, PTL DEF EditorSpec

LEMMA KeptIsTidy ==
  ASSUME NEW s \in Histories, NEW f \in Histories, Neat(s), Closed(f, s) PROVE Tidy(f)
<1>1. Varied(f)
  BY ClosedFacts
<1>2. \A i \in 1 .. Len(s) : s[i] # <<>>
  BY DEF Neat
<1>3. CASE f = s
  <2>1. \A i \in 1 .. Len(s) - 1 : i \in 1 .. Len(s)
    BY HistoryFacts
  <2> QED BY <1>1, <1>2, <1>3, <2>1 DEF Tidy
<1>4. CASE f = Append(s, <<>>)
  <2>1. Len(f) = Len(s) + 1 /\ Len(s) \in Nat /\ \A i \in 1 .. Len(s) : f[i] = s[i]
    BY <1>4, AppendedEmpty
  <2>2. \A i \in 1 .. Len(f) - 1 : i \in 1 .. Len(s)
    BY <2>1
  <2> QED BY <1>1, <1>2, <2>1, <2>2 DEF Tidy
<1> QED BY <1>3, <1>4 DEF Closed

LEMMA KeptStaysTidy == ASSUME EditorTypes, HistoryKept PROVE ~past.disturbed => Tidy(saved)
<1> SUFFICES ASSUME ~past.disturbed PROVE Tidy(saved)
  OBVIOUS
<1>1. saved \in Histories /\ past.entered \in Histories
  BY DEF EditorTypes
<1>2. Neat(past.entered) /\ KeptFile(saved, past.entered)
  BY DEF HistoryKept
<1>3. PICK s \in Histories : Full(s, past.entered) /\ Closed(saved, s)
  BY <1>2 DEF KeptFile
<1>4. Neat(s)
  BY <1>1, <1>2, <1>3, EndsNeat DEF Full
<1> QED BY <1>1, <1>3, <1>4, KeptIsTidy

(* The file that linenoiseHistorySave has written is then again one of     *)
(* those that are supposed at first: what is supposed of an earlier Planck *)
(* holds of this one.                                                      *)
THEOREM FileStaysTidy ==
  ASSUME ByteBefore # Space, \A f \in InitialHistories : Tidy(f)
  PROVE  EditorSpec => [](~past.disturbed => Tidy(saved))
<1>1. EditorInit => EditorTypes /\ HistoryKept
  BY TypesAtFirst, KeptAtFirst
<1>2. EditorTypes /\ HistoryKept /\ [EditorNext]_editorVars => EditorTypes' /\ HistoryKept'
  BY TypesStep, TypesStutter, KeptStep
<1>3. EditorTypes /\ HistoryKept => (~past.disturbed => Tidy(saved))
  BY KeptStaysTidy
<1> QED BY <1>1, <1>2, <1>3, PTL DEF EditorSpec
-----------------------------------------------------------------------------
(* Rows and columns.                                                       *)
LEMMA Grows ==
  ASSUME NEW c \in Nat \ {0}, NEW d \in Nat \ {0} PROVE c * d >= c
<1>1. PICK e \in Nat : d = e + 1
  <2>1. d - 1 \in Nat /\ d = (d - 1) + 1
    OBVIOUS
  <2> QED BY <2>1
<1>2. c * e \in Nat
  OBVIOUS
<1>3. c * (e + 1) = c * e + c
  OBVIOUS
<1> QED BY <1>1, <1>2, <1>3

LEMMA Division ==
  ASSUME NEW a \in Nat, NEW c \in Nat \ {0}
  PROVE  /\ a \div c \in Nat /\ a % c \in 0 .. c - 1
         /\ a = c * (a \div c) + (a % c)
<1>1. a \div c \in Nat /\ a % c \in 0 .. c - 1
  OBVIOUS
<1>2. a = c * (a \div c) + (a % c)
  OBVIOUS
<1> QED BY <1>1, <1>2

LEMMA OneQuotient ==
  ASSUME NEW c \in Nat \ {0}, NEW p \in Nat, NEW q \in Nat, NEW r \in 0 .. c - 1, NEW s \in 0 .. c - 1,
         c * p + r = c * q + s
  PROVE  p <= q
<1> SUFFICES ASSUME ~(p <= q) PROVE FALSE
  OBVIOUS
<1>1. PICK d \in Nat \ {0} : p = q + d
  <2>1. p - q \in Nat \ {0} /\ p = q + (p - q)
    OBVIOUS
  <2> QED BY <2>1
<1>2. c * (q + d) = c * q + c * d
  OBVIOUS
<1>3. c * d >= c
  BY Grows
<1>4. PICK x \in Int : x = c * q
  OBVIOUS
<1>5. PICK y \in Int : y = c * d
  OBVIOUS
<1>6. x + y + r = x + s /\ y >= c
  BY <1>1, <1>2, <1>3, <1>4, <1>5
<1> QED BY <1>6

LEMMA QuotientIs ==
  ASSUME NEW c \in Nat \ {0}, NEW q \in Nat, NEW r \in 0 .. c - 1, NEW a \in Nat, a = c * q + r
  PROVE  a \div c = q /\ a % c = r
<1>1. PICK p \in Nat : p = a \div c
  BY Division
<1>2. PICK s \in 0 .. c - 1 : s = a % c
  BY Division
<1>3. a = c * p + s
  BY <1>1, <1>2, Division
<1>4. p = q
  <2>1. c * p + s = c * q + r
    BY <1>3
  <2>2. p <= q /\ q <= p
    BY <2>1, OneQuotient
  <2> QED BY <2>2
<1>5. PICK x \in Int : x = c * q
  OBVIOUS
<1>6. x + s = x + r
  BY <1>3, <1>4, <1>5
<1> QED BY <1>1, <1>2, <1>4, <1>6

LEMMA NextRow ==
  ASSUME NEW a \in Nat, NEW c \in Nat \ {0}
  PROVE  (a + c) \div c = a \div c + 1
<1>1. PICK q \in Nat : q = a \div c
  BY Division
<1>2. PICK r \in 0 .. c - 1 : r = a % c
  BY Division
<1>3. a = c * q + r
  BY <1>1, <1>2, Division
<1>4. c * (q + 1) = c * q + c
  OBVIOUS
<1>5. PICK x \in Int : x = c * q
  OBVIOUS
<1>6. PICK y \in Int : y = c * (q + 1)
  OBVIOUS
<1>7. a + c = y + r
  BY <1>3, <1>4, <1>5, <1>6
<1>8. PICK b \in Nat : b = a + c
  OBVIOUS
<1>9. b \div c = q + 1
  BY <1>6, <1>7, <1>8, QuotientIs
<1> QED BY <1>1, <1>8, <1>9

LEMMA Higher ==
  ASSUME NEW a \in Nat, NEW b \in Nat, NEW c \in Nat \ {0}, a <= b
  PROVE  a \div c <= b \div c
<1>1. PICK p \in Nat : p = a \div c
  BY Division
<1>2. PICK q \in Nat : q = b \div c
  BY Division
<1>3. PICK r \in 0 .. c - 1 : a = c * p + r
  BY <1>1, Division
<1>4. PICK s \in 0 .. c - 1 : b = c * q + s
  BY <1>2, Division
<1> SUFFICES ASSUME ~(p <= q) PROVE FALSE
  BY <1>1, <1>2
<1>5. PICK d \in Nat \ {0} : p = q + d
  <2>1. p - q \in Nat \ {0} /\ p = q + (p - q)
    OBVIOUS
  <2> QED BY <2>1
<1>6. c * (q + d) = c * q + c * d /\ c * d >= c
  BY Grows
<1>7. PICK x \in Int : x = c * q
  OBVIOUS
<1>8. PICK y \in Int : y = c * d
  OBVIOUS
<1>9. a = x + y + r /\ b = x + s /\ y >= c
  BY <1>3, <1>4, <1>5, <1>6, <1>7, <1>8
<1> QED BY <1>9

LEMMA Ceiling ==
  ASSUME NEW a \in Nat \ {0}, NEW c \in Nat \ {0}
  PROVE  (a + c - 1) \div c = IF a % c = 0 THEN a \div c ELSE a \div c + 1
<1>1. PICK q \in Nat : q = a \div c
  BY Division
<1>2. PICK r \in 0 .. c - 1 : r = a % c
  BY Division
<1>3. a = c * q + r
  BY <1>1, <1>2, Division
<1>4. c * (q + 1) = c * q + c
  OBVIOUS
<1>5. PICK x \in Int : x = c * q
  OBVIOUS
<1>6. PICK y \in Int : y = c * (q + 1)
  OBVIOUS
<1>7. PICK b \in Nat : b = a + c - 1
  OBVIOUS
<1>8. CASE r = 0
  <2>1. b = x + (c - 1) /\ c - 1 \in 0 .. c - 1
    BY <1>3, <1>5, <1>7, <1>8
  <2>2. PICK z \in 0 .. c - 1 : z = c - 1
    BY <2>1
  <2>3. b \div c = q
    BY <1>5, <2>1, <2>2, QuotientIs
  <2> QED BY <1>1, <1>2, <1>7, <1>8, <2>3
<1>9. CASE r # 0
  <2>1. PICK z \in 0 .. c - 1 : z = r - 1
    BY <1>9
  <2>2. b = y + z
    BY <1>3, <1>4, <1>5, <1>6, <1>7, <2>1
  <2>3. b \div c = q + 1
    BY <1>6, <2>2, QuotientIs
  <2> QED BY <1>1, <1>2, <1>7, <1>9, <2>3
<1> QED BY <1>8, <1>9

LEMMA RowBefore ==
  ASSUME NEW b \in Nat, NEW c \in Nat \ {0}, NEW q \in Nat, b < c * q PROVE b \div c < q
<1>1. PICK p \in Nat : p = b \div c
  BY Division
<1>2. PICK r \in 0 .. c - 1 : b = c * p + r
  BY <1>1, Division
<1> SUFFICES ASSUME ~(p < q) PROVE FALSE
  BY <1>1
<1>3. PICK d \in Nat : p = q + d
  <2>1. p - q \in Nat /\ p = q + (p - q)
    OBVIOUS
  <2> QED BY <2>1
<1>4. c * (q + d) = c * q + c * d /\ c * d \in Nat
  OBVIOUS
<1>5. PICK x \in Int : x = c * q
  OBVIOUS
<1>6. PICK y \in Nat : y = c * d
  OBVIOUS
<1>7. b = x + y + r /\ b < x
  BY <1>2, <1>3, <1>4, <1>5, <1>6
<1> QED BY <1>7

LEMMA Small ==
  ASSUME NEW a \in Nat, NEW c \in Nat \ {0}, a < c PROVE a \div c = 0 /\ a % c = a
<1>1. a \in 0 .. c - 1 /\ 0 \in Nat /\ a = c * 0 + a
  OBVIOUS
<1> QED BY <1>1, QuotientIs
-----------------------------------------------------------------------------
(* A line that is edited is shown, over as many rows as it takes.          *)
Row(p) == (PromptLen + p) \div Cols
Height(e) == (e.plen + e.len + Cols - 1) \div Cols
Below(e, s) == s.row + Monus(e.maxrows, Row(e.oldpos) + 1)
(* Above the line there is output, or a piece of the prompt in row 1.      *)
Above(s, r) == s.shows[r] = Output \/ (r = 1 /\ s.shows[r] = Rest)
Whole(e, s) ==
  /\ e.plen = PromptLen /\ e.oldpos = e.pos /\ e.maxrows > Row(e.pos) /\ e.maxrows >= Height(e)
  /\ s.base <= 2 /\ s.row = s.base + Row(e.pos) /\ s.col = (PromptLen + e.pos) % Cols
  /\ \A r \in Rows : /\ r < s.base => Above(s, r)
                     /\ ~(r < s.base) => s.shows[r] = IF r < s.base + Height(e) THEN r - s.base
                                                      ELSE Blank
Begun(e, s) ==
  /\ e.plen = PromptLen /\ s.base <= 2
  /\ Monus(Below(e, s), Monus(e.maxrows, 1)) = s.base
  /\ \A r \in Rows : /\ r < s.base => Above(s, r)
                     /\ r > Below(e, s) => s.shows[r] = Blank
Like(e, f) == f.plen = e.plen /\ f.oldpos = e.oldpos /\ f.maxrows = e.maxrows

(* A cursor at the end of a full row is in the next row.                   *)
LEMMA RowsUsed ==
  ASSUME Cols \in Nat \ {0}, PromptLen < Cols, NEW len \in Nat, NEW pos \in Nat, pos <= len
  PROVE  LET rows == (PromptLen + len + Cols - 1) \div Cols
             wraps == pos # 0 /\ pos = len /\ (pos + PromptLen) % Cols = 0
             used == IF wraps THEN rows + 1 ELSE rows
         IN rows \in Nat /\ used \in Nat /\ used >= rows /\ used > Row(pos) /\ Row(pos) \in Nat
<1>1. PICK p \in Nat \ {0} : p = PromptLen
  BY LineEditorAssumption
<1>2. PICK c \in Nat \ {0} : c = Cols
  OBVIOUS
<1>3. PICK a \in Nat \ {0} : a = p + len
  OBVIOUS
<1>4. PICK b \in Nat : b = p + pos /\ b = pos + p /\ b <= a
  BY <1>3
<1>5. PICK q \in Nat : q = a \div c
  BY Division
<1>6. PICK k \in Nat : k = b \div c
  BY Division
<1>7. k <= q
  BY <1>4, <1>5, <1>6, Higher
<1>8. PICK rows \in Nat : rows = IF a % c = 0 THEN q ELSE q + 1
  OBVIOUS
<1>9. (PromptLen + len + Cols - 1) \div Cols = rows
  BY <1>1, <1>2, <1>3, <1>5, <1>8, Ceiling
<1>10. Row(pos) = k
  BY <1>1, <1>2, <1>4, <1>6 DEF Row
<1>11. PICK wraps : wraps = (pos # 0 /\ pos = len /\ (pos + PromptLen) % Cols = 0)
  OBVIOUS
<1>12. PICK used \in Nat : used = IF wraps THEN rows + 1 ELSE rows
  OBVIOUS
<1>13. used >= rows /\ used > k
  <2>1. CASE a % c # 0
    BY <1>7, <1>8, <1>12, <2>1
  <2>2. CASE a % c = 0 /\ pos = len
    <3>1. b = a
      BY <1>3, <1>4, <2>2
    <3>2. pos # 0
      <4> SUFFICES ASSUME pos = 0 PROVE FALSE
        OBVIOUS
      <4>1. a = p /\ a < c
        BY <1>1, <1>2, <1>3, <2>2
      <4>2. a % c = a
        BY <4>1, Small
      <4> QED BY <2>2, <4>2
    <3>3. (pos + PromptLen) % Cols = 0
      BY <1>1, <1>2, <1>4, <2>2, <3>1
    <3>4. wraps
      BY <1>11, <2>2, <3>2, <3>3
    <3> QED BY <1>7, <1>8, <1>12, <2>2, <3>4
  <2>3. CASE a % c = 0 /\ pos # len
    <3>1. b < a
      BY <1>3, <1>4, <2>3
    <3>2. a = c * q
      <4>1. a = c * (a \div c) + (a % c)
        BY Division
      <4>2. PICK x \in Int : x = c * q
        OBVIOUS
      <4> QED BY <1>5, <2>3, <4>1, <4>2
    <3>3. b < c * q
      BY <3>1, <3>2
    <3>4. k < q
      BY <1>6, <3>3, RowBefore
    <3> QED BY <1>8, <1>12, <2>3, <3>4
  <2> QED BY <2>1, <2>2, <2>3
<1> QED BY <1>9, <1>10, <1>11, <1>12, <1>13

LEMMA RefreshWhole ==
  ASSUME Cols \in Nat \ {0}, PromptLen < Cols, NEW e \in LineStates, NEW s \in Terminals,
         Begun(e, s)
  PROVE  Whole(Refresh(e, s).line, Refresh(e, s).terminal)
<1> DEFINE rows == (e.plen + e.len + Cols - 1) \div Cols
           wraps == e.pos # 0 /\ e.pos = e.len /\ (e.pos + e.plen) % Cols = 0
           used == IF wraps THEN rows + 1 ELSE rows
           rpos == (e.plen + e.oldpos + Cols) \div Cols
           rpos2 == (e.plen + e.pos + Cols) \div Cols
           bottom == s.row + Monus(e.maxrows, rpos)
           top == Monus(bottom, Monus(e.maxrows, 1))
           Clean(r) == r \in top .. bottom \/ s.shows[r] = Blank
           shows == [r \in Rows |->
             IF r \in top .. top + rows - 1
             THEN IF Clean(r) \/ r < top + rows - 1 THEN r - top ELSE Rest
             ELSE IF Clean(r) THEN Blank ELSE s.shows[r]]
           row == top + used - 1 - Monus(used, rpos2)
           col == (e.plen + e.pos) % Cols
           m == IF used > e.maxrows THEN used ELSE e.maxrows
<1>1. /\ Refresh(e, s).terminal = [s EXCEPT !.shows = shows, !.row = row, !.col = col]
      /\ Refresh(e, s).line = [e EXCEPT !.maxrows = m, !.oldpos = e.pos]
  BY DEF Refresh
<1>2. /\ e.plen = PromptLen /\ PromptLen \in Nat \ {0} /\ e.len \in Nat /\ e.pos \in Nat
      /\ e.oldpos \in Nat /\ e.maxrows \in Nat /\ s.row \in Nat /\ s.base \in Nat /\ e.pos <= e.len
      /\ s.base <= 2
  BY LineEditorAssumption DEF LineStates, Terminals, Begun
<1>3. rows \in Nat /\ used \in Nat /\ used >= rows /\ used > Row(e.pos) /\ Row(e.pos) \in Nat
  BY <1>2, RowsUsed
<1>4. rpos = Row(e.oldpos) + 1
  <2>1. PICK a \in Nat : a = PromptLen + e.oldpos
    BY <1>2
  <2> QED BY <1>2, <2>1, NextRow DEF Row
<1>5. rpos2 = Row(e.pos) + 1
  <2>1. PICK a \in Nat : a = PromptLen + e.pos
    BY <1>2
  <2> QED BY <1>2, <2>1, NextRow DEF Row
<1>6. bottom = Below(e, s) /\ top = s.base
  BY <1>4 DEF Below, Begun
<1>7. Height(e) = rows
  BY DEF Height
<1>8. col = (PromptLen + e.pos) % Cols
  BY <1>2
<1> HIDE DEF rows, rpos2, rpos, col
<1>9. bottom \in Int /\ top <= bottom
  <2>1. Row(e.oldpos) \in Nat
    <3>1. PromptLen + e.oldpos \in Nat
      BY <1>2
    <3> QED BY <3>1, Division DEF Row
  <2>2. PICK x \in Nat : x = Monus(e.maxrows, rpos)
    BY <1>2, <1>4, <2>1 DEF Monus
  <2>3. PICK y \in Nat : y = Monus(e.maxrows, 1)
    BY <1>2 DEF Monus
  <2>4. bottom = s.row + x /\ top = Monus(s.row + x, y)
    BY <2>2, <2>3
  <2> QED BY <1>2, <2>4 DEF Monus
<1> HIDE DEF used, bottom, top
<1>10. row = s.base + Row(e.pos)
  <2>1. Monus(used, rpos2) = used - (Row(e.pos) + 1)
    BY <1>3, <1>5 DEF Monus
  <2> QED BY <1>2, <1>3, <1>6, <2>1
<1>11. m > Row(e.pos) /\ m >= rows
  BY <1>2, <1>3
<1>12. ASSUME NEW r \in Rows
       PROVE  /\ r < s.base => Above(s, r) /\ shows[r] = s.shows[r]
              /\ ~(r < s.base) => shows[r] = IF r < s.base + rows THEN r - s.base ELSE Blank
  <2>1. r \in Nat
    BY DEF Rows
  <2>2. CASE r < s.base
    <3>1. Above(s, r)
      BY <2>2 DEF Begun
    <3>2. ~Clean(r)
      <4>1. Output # Blank /\ Rest # Blank
        BY DEF Output, Blank, Rest
      <4>2. s.shows[r] # Blank
        BY <3>1, <4>1 DEF Above
      <4> QED BY <1>2, <1>6, <1>9, <2>1, <2>2, <4>2
    <3>3. r \notin top .. top + rows - 1
      BY <1>2, <1>3, <1>6, <2>1, <2>2
    <3> HIDE DEF Clean
    <3> QED BY <2>2, <3>1, <3>2, <3>3
  <2>3. CASE ~(r < s.base)
    <3>1. Clean(r)
      <4>1. CASE r > bottom
        BY <1>6, <4>1 DEF Begun
      <4>2. CASE ~(r > bottom)
        BY <1>2, <1>6, <1>9, <2>1, <2>3, <4>2
      <4> QED BY <4>1, <4>2
    <3> HIDE DEF Clean
    <3>2. r \in top .. top + rows - 1 <=> r < s.base + rows
      BY <1>2, <1>3, <1>6, <2>1, <2>3
    <3> QED BY <1>6, <2>3, <3>1, <3>2
  <2> QED BY <2>2, <2>3
<1> HIDE DEF shows, row, m
<1>13. PICK f : f = Refresh(e, s).line
  OBVIOUS
<1>14. PICK t : t = Refresh(e, s).terminal
  OBVIOUS
<1>15. /\ f.plen = PromptLen /\ f.oldpos = e.pos /\ f.pos = e.pos /\ f.maxrows = m /\ f.len = e.len
  BY <1>1, <1>2, <1>13 DEF LineStates
<1>16. t.base = s.base /\ t.row = row /\ t.col = col /\ t.shows = shows
  BY <1>1, <1>14 DEF Terminals
<1>17. Height(f) = rows
  BY <1>2, <1>7, <1>15 DEF Height
<1>18. ASSUME NEW r \in Rows
       PROVE  /\ r < t.base => Above(t, r)
              /\ ~(r < t.base) => t.shows[r] = IF r < t.base + rows THEN r - t.base ELSE Blank
  BY <1>12, <1>16 DEF Above
<1> QED BY <1>2, <1>8, <1>10, <1>11, <1>13, <1>14, <1>15, <1>16, <1>17, <1>18 DEF Whole

LEMMA RowTyped ==
  ASSUME Cols \in Nat \ {0}, NEW p \in Nat PROVE Row(p) \in Nat
<1>1. PromptLen + p \in Nat
  BY LineEditorAssumption
<1> QED BY <1>1, Division DEF Row

LEMMA HeightTyped ==
  ASSUME Cols \in Nat \ {0}, NEW e \in LineStates PROVE Height(e) \in Nat
<1>1. e.plen + e.len + Cols - 1 \in Nat
  BY DEF LineStates
<1> QED BY <1>1, Division DEF Height

LEMMA WholeBegun ==
  ASSUME Cols \in Nat \ {0}, NEW e \in LineStates, NEW s \in Terminals, Whole(e, s),
         NEW f \in LineStates, Like(e, f)
  PROVE  Begun(f, s)
<1>1. PICK m \in Nat : m = f.maxrows /\ m = e.maxrows
  BY DEF Like, LineStates
<1>2. PICK k \in Nat : k = Row(e.pos)
  BY RowTyped DEF LineStates
<1>3. PICK h \in Nat : h = Height(e)
  BY HeightTyped
<1>4. PICK b \in Nat : b = s.base
  BY DEF Terminals
<1>5. /\ f.plen = PromptLen /\ b <= 2 /\ m > k /\ m >= h /\ s.row = b + k /\ f.oldpos = e.pos
  BY <1>1, <1>2, <1>3, <1>4 DEF Whole, Like
<1>6. Below(f, s) = b + m - 1
  <2>1. Monus(m, k + 1) = m - (k + 1)
    BY <1>5 DEF Monus
  <2>2. Below(f, s) = b + k + Monus(m, k + 1)
    BY <1>1, <1>2, <1>5 DEF Below
  <2> QED BY <1>5, <2>1, <2>2
<1>7. Monus(b + m - 1, Monus(m, 1)) = b
  <2>1. Monus(m, 1) = m - 1
    BY <1>5 DEF Monus
  <2> QED BY <1>5, <2>1 DEF Monus
<1>8. ASSUME NEW r \in Rows
      PROVE  /\ r < b => Above(s, r)
             /\ r > b + m - 1 => s.shows[r] = Blank
  <2>1. /\ r < b => Above(s, r)
        /\ ~(r < b) => s.shows[r] = IF r < b + h THEN r - b ELSE Blank
    BY <1>3, <1>4 DEF Whole
  <2>2. r \in Nat
    BY DEF Rows
  <2>3. r > b + m - 1 => ~(r < b) /\ ~(r < b + h)
    BY <1>5, <2>2
  <2> QED BY <2>1, <2>3
<1> QED BY <1>1, <1>4, <1>5, <1>6, <1>7, <1>8 DEF Begun

LEMMA ClearedBegun ==
  ASSUME Cols \in Nat \ {0}, NEW e \in LineStates, NEW s \in Terminals, Whole(e, s)
  PROVE  Begun(e, Cleared(s))
<1>1. PICK m \in Nat : m = e.maxrows
  BY DEF LineStates
<1>2. PICK k \in Nat : k = Row(e.pos)
  BY RowTyped DEF LineStates
<1>3. e.plen = PromptLen /\ e.oldpos = e.pos /\ m > k
  BY <1>1, <1>2 DEF Whole
<1>4. PICK t : t = Cleared(s)
  OBVIOUS
<1>5. t.row = 0 /\ t.base = 0 /\ \A r \in Rows : t.shows[r] = Blank
  BY <1>4 DEF Cleared, Terminals
<1>6. Below(e, t) = m - (k + 1)
  <2>1. Monus(m, k + 1) = m - (k + 1)
    BY <1>3 DEF Monus
  <2>2. Below(e, t) = 0 + Monus(m, k + 1)
    BY <1>1, <1>2, <1>3, <1>5 DEF Below
  <2> QED BY <2>1, <2>2
<1>7. Monus(m - (k + 1), Monus(m, 1)) = 0
  <2>1. Monus(m, 1) = m - 1
    BY <1>3 DEF Monus
  <2> QED BY <1>3, <2>1 DEF Monus
<1>8. \A r \in Rows : ~(r < 0)
  BY DEF Rows
<1> QED BY <1>1, <1>3, <1>4, <1>5, <1>6, <1>7, <1>8 DEF Begun

(* The terminal where a new line begins, below output or what is left of a *)
(* prompt                                                                  *)
Ready(s) == /\ s.row = s.base /\ s.base \in {1, 2}
            /\ \A r \in Rows : /\ r < s.base => Above(s, r)
                               /\ r > s.base => s.shows[r] = Blank

LEMMA ReadyBegun ==
  ASSUME Cols \in Nat \ {0}, NEW s \in Terminals, Ready(s) PROVE Begun(Line0, s)
<1>1. Line0.plen = PromptLen /\ Line0.oldpos = 0 /\ Line0.maxrows = 0
  BY DEF Line0
<1>2. PICK k \in Nat : k = Row(0)
  BY RowTyped
<1>3. PICK b \in {1, 2} : b = s.base /\ b = s.row
  BY DEF Ready
<1>4. Monus(0, k + 1) = 0 /\ Monus(0, 1) = 0 /\ Monus(b, 0) = b
  BY DEF Monus
<1>5. Below(Line0, s) = b
  BY <1>1, <1>2, <1>3, <1>4 DEF Below
<1> QED BY <1>1, <1>3, <1>4, <1>5 DEF Begun, Ready

(* The prompt is written: what does not fit the row leaves a piece there.  *)
Fits(s) == s.col + PromptLen <= Cols
LEMMA PromptedReady ==
  ASSUME NEW s \in Terminals, Ready(s), s.base = 1
  PROVE  Ready(Prompted(s)) /\ Prompted(s).base = IF Fits(s) THEN 1 ELSE 2
<1>1. CASE Fits(s)
  BY <1>1 DEF Prompted, Fits
<1>2. CASE ~Fits(s)
  <2>1. PICK t : t = Prompted(s)
    OBVIOUS
  <2>2. s.row = 1 /\ DOMAIN s.shows = Rows
    BY DEF Ready, Terminals
  <2>3. PICK shows : shows = [s.shows EXCEPT ![1] = Rest]
    OBVIOUS
  <2>4. t = [s EXCEPT !.shows = shows, !.row = 2, !.base = 2]
    BY <1>2, <2>1, <2>2, <2>3 DEF Prompted, Fits
  <2>5. t.shows = shows /\ t.row = 2 /\ t.base = 2
    BY <2>4 DEF Terminals
  <2>6. ASSUME NEW r \in Rows
        PROVE  /\ r < 2 => Above(t, r)
               /\ r > 2 => t.shows[r] = Blank
    <3>1. r \in Nat
      BY DEF Rows
    <3>2. CASE r = 1
      BY <2>2, <2>3, <2>5, <3>2 DEF Above
    <3>3. CASE r # 1
      <4>1. t.shows[r] = s.shows[r]
        BY <2>2, <2>3, <2>5, <3>3
      <4> QED BY <3>1, <3>3, <4>1 DEF Ready, Above
    <3> QED BY <3>2, <3>3
  <2> QED BY <1>2, <2>1, <2>5, <2>6 DEF Ready
<1> QED BY <1>1, <1>2

LEMMA InsertedLike ==
  ASSUME NEW e \in LineStates, NEW c PROVE Like(e, Inserted(e, c))
BY DEF Like, Inserted, Put, LineStates

LEMMA LikeBegun ==
  ASSUME NEW e, NEW f, NEW s, Begun(e, s), Like(e, f) PROVE Begun(f, s)
BY DEF Begun, Like, Below

LEMMA LikeItself == ASSUME NEW e PROVE Like(e, e)
BY DEF Like

LEMMA IndentsWhole ==
  ASSUME Cols \in Nat \ {0}, PromptLen < Cols, NEW r \in NewLines, Begun(r.line, r.terminal)
  PROVE  LET f == Refresh(Inserted(r.line, Space), r.terminal) IN Begun(f.line, f.terminal)
<1>1. r.line \in LineStates /\ r.terminal \in Terminals
  BY DEF NewLines
<1>2. PICK e : e = Inserted(r.line, Space)
  OBVIOUS
<1>3. e \in LineStates
  BY <1>1, <1>2, SpaceLetter, InsertedStays DEF Stays
<1>4. Begun(e, r.terminal)
  BY <1>1, <1>2, InsertedLike, LikeBegun
<1>5. PICK f : f = Refresh(e, r.terminal)
  OBVIOUS
<1>6. Whole(f.line, f.terminal)
  BY <1>1, <1>3, <1>4, <1>5, RefreshWhole
<1>7. f.line \in LineStates /\ f.terminal \in Terminals
  BY <1>1, <1>3, <1>5, RefreshedLine, RefreshedTerminal
<1> QED BY <1>2, <1>5, <1>6, <1>7, LikeItself, WholeBegun

LEMMA NewLineWhole ==
  ASSUME Cols \in Nat \ {0}, PromptLen < Cols, NEW s \in Terminals, Ready(Prompted(s)),
         NEW n \in Nat
  PROVE  Whole(NewLine(s, n).line, NewLine(s, n).terminal)
<1>1. PICK r : r = Indented(s, n)
  OBVIOUS
<1>2. /\ r = [i \in 0 .. n |-> IndentedFrom(s, r, i)]
      /\ \A i \in 0 .. n : r[i] \in NewLines
  BY <1>1, IndentedTyped
<1>3. \A i \in 0 .. n : r[i] = IndentedFrom(s, r, i)
  BY <1>2
<1>4. NewLine(s, n) = Refresh(r[n].line, r[n].terminal)
  BY <1>1 DEF NewLine, Indented, IndentedFrom
<1> DEFINE G == {i \in 0 .. n : Begun(r[i].line, r[i].terminal)}
<1>5. 0 \in G
  <2>1. 0 \in 0 .. n /\ r[0] = [line |-> Line0, terminal |-> Prompted(s)]
    BY <1>3 DEF IndentedFrom
  <2>2. r[0].line = Line0 /\ r[0].terminal = Prompted(s)
    BY <2>1
  <2> QED BY <2>1, <2>2, PromptedTerminal, ReadyBegun
<1>6. ASSUME NEW i \in 1 .. n, i - 1 \in G PROVE i \in G
  <2>1. i \in 0 .. n /\ i - 1 \in 0 .. n /\ i # 0
    OBVIOUS
  <2>2. r[i] = Refresh(Inserted(r[i - 1].line, Space), r[i - 1].terminal)
    BY <1>3, <2>1 DEF IndentedFrom
  <2>3. r[i - 1] \in NewLines /\ Begun(r[i - 1].line, r[i - 1].terminal)
    BY <1>2, <1>6, <2>1
  <2>4. Begun(r[i].line, r[i].terminal)
    BY <2>2, <2>3, IndentsWhole
  <2> QED BY <2>1, <2>4
<1> HIDE DEF G
<1>7. n \in G
  <2>1. \A i \in 0 .. n : i \in G
    BY <1>5, <1>6, Climbs
  <2> QED BY <2>1
<1>8. Begun(r[n].line, r[n].terminal)
  BY <1>7 DEF G
<1>9. r[n].line \in LineStates /\ r[n].terminal \in Terminals
  BY <1>2 DEF NewLines
<1> QED BY <1>4, <1>8, <1>9, RefreshWhole
-----------------------------------------------------------------------------
(* Somebody who edits, in a terminal that has the rows for it: no search   *)
(* is begun, no completion asked for, and no other thread prints; and,     *)
(* where braces are closed, each line fits its row, the screen is not      *)
(* cleared, and no key comes between a thread's test and its move.         *)
Plain(t) == /\ ~t.prints
            /\ t.keys \cap {"reverse_i_search", "tab"} = {}
            /\ (PromptLen + buflen) \div t.cols + 1 < LastRow
            /\ Brace \in t.keys => /\ t.timely /\ "clear_screen" \notin t.keys
                                   /\ PromptLen + buflen < t.cols
(* At most two rows of the line are below the cursor.                      *)
NearEnd == Height(l) <= Row(l.pos) + 3

(* The thread that is to move the cursor back is the one of the last hop.  *)
Waits(h, t) == /\ t.id # 0 /\ t.id <= h.sequence
               /\ t.id = h.sequence => h.restore = [id |-> t.id, up |-> t.up, right |-> t.right]
               /\ t.checked => t.id = h.sequence
               /\ \A u \in h.threads : u.id = t.id => u = t
Hopping(h) == h.restore.id <= h.sequence /\ \A t \in h.threads : Waits(h, t)

(* A piece of the prompt is above the line only when that is Torn.         *)
Placed == /\ Brace \in typist.keys => screen.base # 0
          /\ screen.base = 2 => Torn

(* Where the cursor is or will be moved back to, the line is whole.        *)
Settled == /\ Plain(typist) /\ peeked = None /\ searching = None
           /\ Whole(l, Screen0)
           /\ Placed
           /\ Brace \notin typist.keys => hop.threads = {}
           /\ Hopping(hop)

LEMMA WidthTyped ==
  ASSUME typist \in Typists PROVE Cols \in Nat \ {0} /\ PromptLen < Cols /\ PromptLen \in Nat
BY LineEditorAssumption DEF IsTypist, Cols

LEMMA SettledKey ==
  ASSUME Settled, NEW k, ReadKey(k)
  PROVE  /\ typist' = typist /\ peeked' = None /\ k \in typist.keys
         /\ \A t \in hop.threads : ~t.checked
<1>1. typist' = typist /\ peeked' = None /\ Typing(k)
  BY DEF Settled, ReadKey
<1>2. CASE Brace \in typist.keys
  BY <1>1, <1>2 DEF Settled, Plain, Typing
<1>3. CASE Brace \notin typist.keys
  BY <1>1, <1>3 DEF Settled, Typing
<1> QED BY <1>1, <1>2, <1>3

LEMMA SettledGoesOn ==
  ASSUME Settled, typist' = typist, peeked' = None, searching' = None,
         Whole(l', Screen0'), Placed',
         Brace \notin typist.keys => hop'.threads = {}, Hopping(hop')
  PROVE  Settled'
<1>1. Whole(l, Screen0)'
  BY DEF Whole, Above, Row, Height, Cols
<1> QED BY <1>1 DEF Settled, Plain, Hopping, Waits

LEMMA StillPlaced ==
  ASSUME Placed, typist' = typist, repl'.pending = repl.pending, screen'.base = screen.base
  PROVE  Placed'
BY DEF Placed, Torn, Cols

LEMMA NoDue ==
  ASSUME hop'.restore.id = 0 \/ hop'.restore.id # hop'.sequence PROVE Screen0' = screen'
BY DEF Screen0, Due

(* A key takes back the last hop.                                          *)
LEMMA KeySettles ==
  ASSUME EditorTypes, Settled, NEW k, ReadKey(k), searching' = None, hop' = Hop0,
         Whole(l', screen'), Placed'
  PROVE  Settled'
<1>1. /\ typist' = typist /\ peeked' = None /\ \A t \in hop.threads : ~t.checked
      /\ peeked = None
  BY SettledKey DEF Settled
<1>2. /\ hop \in Hops /\ hop.sequence \in Nat /\ hop.restore.id \in Nat
      /\ \A t \in hop.threads : t.id \in Nat
  BY DEF EditorTypes, Hops, HopType
<1>3. Hopping(hop)
  BY DEF Settled
<1>4. /\ hop'.threads = hop.threads /\ hop'.restore = hop.restore
      /\ IF Due THEN hop'.sequence = hop.sequence + 1 ELSE hop' = hop
  BY <1>2 DEF Hop0, Restored, Hops
<1>5. Screen0' = screen'
  BY <1>1, <1>2, <1>4, NoDue DEF Due
<1>6. Hopping(hop')
  <2>1. CASE Due
    <3>1. hop'.sequence = hop.sequence + 1
      BY <1>4, <2>1
    <3>2. ASSUME NEW t \in hop'.threads PROVE Waits(hop', t)
      <4>1. Waits(hop, t) /\ ~t.checked /\ t.id \in Nat
        BY <1>1, <1>2, <1>3, <1>4 DEF Hopping
      <4> QED BY <1>2, <1>4, <3>1, <4>1 DEF Waits
    <3> QED BY <1>2, <1>3, <1>4, <3>1, <3>2 DEF Hopping
  <2>2. CASE ~Due
    BY <1>3, <1>4, <2>2
  <2> QED BY <2>1, <2>2
<1> QED BY <1>1, <1>4, <1>5, <1>6, SettledGoesOn DEF Settled

LEMMA SettledScreen ==
  ASSUME EditorTypes, Settled
  PROVE  /\ Cols \in Nat \ {0} /\ PromptLen < Cols /\ l \in LineStates
         /\ screen \in Terminals /\ Screen0 \in Terminals /\ Screen0.base = screen.base
         /\ Whole(l, Screen0)
<1>1. /\ Cols \in Nat \ {0} /\ PromptLen < Cols /\ l \in LineStates
      /\ screen \in Terminals /\ Screen0 \in Terminals
  BY WidthTyped, Screen0Typed DEF EditorTypes
<1>2. Screen0.base = screen.base
  BY <1>1 DEF Screen0, MovedBack, Moved, Terminals
<1> QED BY <1>1, <1>2 DEF Settled

LEMMA RefreshBase ==
  ASSUME NEW e, NEW s \in Terminals PROVE Refresh(e, s).terminal.base = s.base
<1>1. PICK shows, row, col :
        Refresh(e, s).terminal = [s EXCEPT !.shows = shows, !.row = row, !.col = col]
  BY DEF Refresh
<1> QED BY <1>1 DEF Terminals

LEMMA ShownWhole ==
  ASSUME EditorTypes, Settled, NEW e \in LineStates, Like(l, e), Show(e, Screen0)
  PROVE  Whole(l', screen') /\ screen'.base = screen.base
<1>1. Begun(e, Screen0)
  BY SettledScreen, WholeBegun
<1>2. Whole(Refresh(e, Screen0).line, Refresh(e, Screen0).terminal)
  BY <1>1, SettledScreen, RefreshWhole
<1>3. Refresh(e, Screen0).terminal.base = screen.base
  BY SettledScreen, RefreshBase
<1> QED BY <1>2, <1>3 DEF Show

(* Keys that leave repl_t alone                                            *)
LEMMA KeySettlesInPlace ==
  ASSUME EditorTypes, Settled, NEW k, ReadKey(k), searching' = None, hop' = Hop0,
         Whole(l', screen'), screen'.base = screen.base, repl'.pending = repl.pending
  PROVE  Settled'
<1>1. typist' = typist
  BY SettledKey
<1>2. Placed'
  BY <1>1, StillPlaced DEF Settled
<1> QED BY <1>2, KeySettles

LEMMA PutLike == ASSUME NEW e \in LineStates, NEW buf, NEW pos PROVE Like(e, Put(e, buf, pos))
BY DEF Like, Put, LineStates

LEMMA PosLike == ASSUME NEW e \in LineStates, NEW pos PROVE Like(e, [e EXCEPT !.pos = pos])
BY DEF Like, LineStates

LEMMA EditedLike ==
  ASSUME NEW e \in LineStates, NEW k \in EditingKeys PROVE Like(e, Edited(e, k))
<1>1. CASE k = "move_left"
  <2>1. PICK pos : pos = Monus(e.pos, 1)
    OBVIOUS
  <2> QED BY <1>1, <2>1, PosLike DEF Edited
<1>2. CASE k = "move_right"
  BY <1>2 DEF Edited, Like, LineStates
<1>3. CASE k = "go_to_start_of_line"
  BY <1>3, PosLike DEF Edited
<1>4. CASE k = "go_to_end_of_line"
  BY <1>4, PosLike DEF Edited
<1>5. CASE k = "word_end"
  <2>1. Like(e, MoveWordEnd(e))
    BY LikeItself DEF MoveWordEnd, Like, LineStates
  <2> QED BY <1>5, <2>1 DEF Edited
<1>6. CASE k = "word_start"
  <2>1. Like(e, MoveWordStart(e))
    BY LikeItself DEF MoveWordStart, Like, LineStates
  <2> QED BY <1>6, <2>1 DEF Edited
<1>7. CASE k = "delete_right"
  <2>1. Like(e, Delete(e))
    BY LikeItself, PutLike DEF Delete
  <2> QED BY <1>7, <2>1 DEF Edited
<1>8. CASE k = "backspace"
  <2>1. Like(e, Backspace(e))
    BY LikeItself, PutLike DEF Backspace
  <2> QED BY <1>8, <2>1 DEF Edited
<1>9. CASE k = "delete_previous_word"
  <2>1. Like(e, DeletePrevWord(e))
    BY DEF DeletePrevWord, Like, LineStates
  <2> QED BY <1>9, <2>1 DEF Edited
<1>10. CASE k = "delete_next_word"
  <2>1. Like(e, DeleteNextWord(e))
    BY DEF DeleteNextWord, Like, LineStates
  <2> QED BY <1>10, <2>1 DEF Edited
<1>11. CASE k = "swap_chars"
  <2>1. Like(e, SwapChars(e))
    BY LikeItself DEF SwapChars, Like, LineStates
  <2> QED BY <1>11, <2>1 DEF Edited
<1>12. CASE k = "delete_to_end_of_line"
  BY <1>12, PutLike DEF Edited
<1>13. CASE k = "clear_line"
  BY <1>13, PutLike DEF Edited
<1> QED BY <1>1, <1>2, <1>3, <1>4, <1>5, <1>6, <1>7, <1>8, <1>9, <1>10, <1>11, <1>12, <1>13
        DEF EditingKeys

LEMMA EditSettles ==
  ASSUME ByteBefore # Space, EditorTypes, Settled, NEW k, Edit(k) PROVE Settled'
<1>1. ReadKey(k) /\ searching' = None /\ hop' = Hop0
  BY DEF Edit, Key, Settled
<1>2. PICK e : e = Edited(l, k)
  OBVIOUS
<1>3. k \in EditingKeys /\ l \in LineStates
  BY DEF Edit, EditorTypes
<1>4. e \in LineStates /\ Like(l, e)
  BY <1>2, <1>3, EditedStays, EditedLike DEF Stays
<1>5. Show(e, Screen0) \/ (e = l /\ l' = e /\ screen' = Screen0)
  BY <1>2 DEF Edit
<1>6. Whole(l', screen') /\ screen'.base = screen.base
  <2>1. CASE Show(e, Screen0)
    BY <1>4, <2>1, ShownWhole
  <2>2. CASE e = l /\ l' = e /\ screen' = Screen0
    BY <2>2, SettledScreen
  <2> QED BY <1>5, <2>1, <2>2
<1>7. repl' = repl
  BY DEF Edit
<1> QED BY <1>1, <1>6, <1>7, KeySettlesInPlace

LEMMA ClearScreenSettles ==
  ASSUME EditorTypes, Settled, ClearScreen PROVE Settled'
<1>1. ReadKey("clear_screen") /\ searching' = None /\ hop' = Hop0
  BY DEF ClearScreen, Key, Settled
<1>2. Brace \notin typist.keys
  BY <1>1, SettledKey DEF Settled, Plain
<1>3. Begun(l, Cleared(Screen0)) /\ Cleared(Screen0) \in Terminals
  BY SettledScreen, ClearedBegun, OtherTerminals
<1>4. PICK s : s = Cleared(Screen0)
  OBVIOUS
<1>5. Whole(Refresh(l, s).line, Refresh(l, s).terminal)
  BY <1>3, <1>4, SettledScreen, RefreshWhole
<1>6. Whole(l', screen')
  BY <1>4, <1>5 DEF ClearScreen, Show
<1>7. Placed'
  <2>1. screen'.base = 0
    <3>1. s.base = 0
      BY <1>4, SettledScreen DEF Cleared, Terminals
    <3>2. screen'.base = s.base
      BY <1>3, <1>4, RefreshBase DEF ClearScreen, Show
    <3> QED BY <3>1, <3>2
  <2> QED BY <1>1, <1>2, <2>1, SettledKey DEF Placed
<1> QED BY <1>1, <1>6, <1>7, KeySettles

(* The hop to the partner of a brace and the way back                      *)
LEMMA ThereAndBack ==
  ASSUME Cols \in Nat \ {0}, NEW s \in Terminals, NEW up \in {0, 1}, up <= s.row,
         NEW right \in Int, s.col + right \in 0 .. Cols - 1, NEW id
  PROVE  MovedBack(Moved(s, up, right), [id |-> id, up |-> up, right |-> right]) = s
<1>1. PICK col \in Nat : col = s.col /\ col \in 0 .. Cols - 1
  BY DEF Terminals
<1>2. PICK row \in Nat : row = s.row /\ up <= row
  BY DEF Terminals
<1>3. PICK t : t = Moved(s, up, right)
  OBVIOUS
<1>4. t = [s EXCEPT !.row = row - up, !.col = col + right]
  <2>1. ~(col + right < 0) /\ ~(col + right >= Cols)
    BY <1>1
  <2>2. (IF up > 0 THEN Monus(row, up) ELSE row) = row - up
    BY <1>2 DEF Monus
  <2> QED BY <1>1, <1>2, <1>3, <2>1, <2>2 DEF Moved
<1>5. t.row = row - up /\ t.col = col + right
  BY <1>4 DEF Terminals
<1>6. PICK u : u = Moved(t, 0, -right)
  OBVIOUS
<1>7. u = [t EXCEPT !.row = row - up, !.col = col]
  <2>1. PICK n \in Int : n = -right
    OBVIOUS
  <2>2. t.col + n = col
    <3>1. col + right + n = col
      BY <2>1
    <3> QED BY <1>5, <3>1
  <2>3. ~(col < 0) /\ ~(col >= Cols) /\ ~(0 > 0)
    BY <1>1
  <2>4. u = [t EXCEPT !.row = t.row, !.col = col]
    BY <1>6, <2>1, <2>2, <2>3 DEF Moved
  <2> QED BY <1>5, <2>4
<1>8. u = [s EXCEPT !.row = row - up, !.col = col]
  BY <1>4, <1>7 DEF Terminals
<1>9. MovedBack(t, [id |-> id, up |-> up, right |-> right])
        = [u EXCEPT !.row = IF up > 0 THEN u.row + up ELSE u.row]
  BY <1>6 DEF MovedBack
<1>10. u.row = row - up
  BY <1>8 DEF Terminals
<1>11. (IF up > 0 THEN u.row + up ELSE u.row) = row
  BY <1>2, <1>10
<1>12. [u EXCEPT !.row = row] = s
  BY <1>1, <1>2, <1>8 DEF Terminals
<1> QED BY <1>3, <1>9, <1>11, <1>12

LEMMA HopShort ==
  ASSUME EditorTypes, Plain(typist), Brace \in typist.keys, NEW e \in LineStates,
         NEW m \in Partners(e)
  PROVE  /\ Hop(e, m) = [id |-> Hop0.sequence + 1, up |-> m.up, right |-> m.at - e.pos]
         /\ m.up \in {0, 1} /\ m.at \in Nat /\ m.at <= buflen /\ e.pos \in 0 .. buflen
<1>1. PICK p \in Nat : p = e.pos /\ p <= buflen
  <2>1. e.pos \in 0 .. e.len /\ e.len \in 0 .. Len(e.buf) /\ Len(e.buf) <= buflen
        /\ Len(e.buf) \in Nat /\ buflen \in Nat
    BY LineFacts
  <2> QED BY <2>1
<1>2. PICK n \in Nat : n = PromptLen
  BY LineEditorAssumption
<1>3. PICK c \in Nat : c = Cols /\ n + buflen < c
  BY <1>2, WidthTyped DEF EditorTypes, Plain, Cols
<1>4. buflen \in Nat \ {0}
  BY LineEditorAssumption
<1>5. ~(e.pos + PromptLen + 1 > Cols)
  BY <1>1, <1>2, <1>3, <1>4
<1>6. m.up \in {0, 1} /\ m.at \in Nat /\ m.at <= buflen
  <2>1. m \in [up : {0}, at : 0 .. e.pos - 2] \/ m \in [up : {1}, at : {0, 1}]
    BY DEF Partners
  <2>2. CASE m \in [up : {0}, at : 0 .. e.pos - 2]
    BY <1>1, <1>4, <2>2
  <2>3. CASE m \in [up : {1}, at : {0, 1}]
    BY <1>4, <2>3
  <2> QED BY <2>1, <2>2, <2>3
<1> QED BY <1>1, <1>4, <1>5, <1>6 DEF Hop

LEMMA HopSettles ==
  ASSUME EditorTypes, Settled, NEW k, ReadKey(k), searching' = None,
         Brace \in typist.keys, NEW e \in LineStates, Like(l, e), NEW m \in Partners(e),
         l' = Refresh(e, Screen0).line,
         screen' = Moved(Refresh(e, Screen0).terminal, Hop(e, m).up, Hop(e, m).right),
         hop' = [sequence |-> Hop(e, m).id, restore |-> Hop(e, m),
                 threads |-> hop.threads \cup
                   {[id |-> Hop(e, m).id, up |-> Hop(e, m).up, right |-> Hop(e, m).right,
                     checked |-> FALSE]}],
         repl'.pending = repl.pending
  PROVE  Settled'
<1>1. /\ typist' = typist /\ peeked' = None /\ \A t \in hop.threads : ~t.checked
      /\ screen.base # 0 /\ Plain(typist) /\ Hopping(hop)
  BY SettledKey DEF Settled, Placed
<1>2. PICK up : up = m.up
  OBVIOUS
<1>3. PICK right : right = m.at - e.pos
  OBVIOUS
<1>4. PICK id : id = Hop0.sequence + 1
  OBVIOUS
<1>5. PICK h : h = [id |-> id, up |-> up, right |-> right]
  OBVIOUS
<1>6. Hop(e, m) = h
  BY <1>1, <1>2, <1>3, <1>4, <1>5, HopShort
<1>7. up \in {0, 1} /\ m.at \in Nat /\ m.at <= buflen /\ e.pos \in 0 .. buflen
  BY <1>1, <1>2, HopShort
<1>8. right \in Int
  BY <1>3, <1>7, LineEditorAssumption
<1>9. PICK q \in Nat : q = hop.sequence
  BY DEF EditorTypes, Hops
<1>10. id \in Nat /\ id > q
  BY <1>4, <1>9 DEF Hop0, Restored
<1>11. PICK s : s = Refresh(e, Screen0).terminal
  OBVIOUS
<1>12. PICK f : f = Refresh(e, Screen0).line
  OBVIOUS
<1>13. s \in Terminals /\ f \in LineStates /\ s.base = screen.base /\ Whole(f, s) /\ f.pos = e.pos
  <2>1. Begun(e, Screen0)
    BY SettledScreen, WholeBegun
  <2>2. Whole(f, s)
    BY <1>11, <1>12, <2>1, SettledScreen, RefreshWhole
  <2>3. s.base = screen.base
    BY <1>11, SettledScreen, RefreshBase
  <2>4. s \in Terminals /\ f \in LineStates
    BY <1>11, <1>12, SettledScreen, RefreshedLine, RefreshedTerminal
  <2>5. f.pos = e.pos
    <3>1. f = [e EXCEPT !.maxrows = f.maxrows, !.oldpos = e.pos]
      BY <1>12, SettledScreen, RefreshedLine
    <3>2. PICK n : n = f.maxrows
      OBVIOUS
    <3>3. f = [e EXCEPT !.maxrows = n, !.oldpos = e.pos]
      BY <3>1, <3>2
    <3> QED BY <3>3 DEF LineStates
  <2> QED BY <2>2, <2>3, <2>4, <2>5
<1>14. up <= s.row
  <2>1. PICK r \in Nat : r = Row(f.pos)
    BY <1>13, SettledScreen, RowTyped DEF LineStates
  <2>2. s.row = s.base + r /\ s.base \in Nat \ {0}
    BY <1>1, <1>13, <2>1 DEF Whole, Terminals
  <2> QED BY <1>7, <2>1, <2>2
<1>15. s.col + right \in 0 .. Cols - 1
  <2>1. PICK p \in Nat : p = e.pos /\ p <= buflen
    BY <1>7, LineEditorAssumption
  <2>2. PICK n \in Nat : n = PromptLen
    BY LineEditorAssumption
  <2>3. PICK c \in Nat \ {0} : c = Cols
    BY SettledScreen
  <2>4. n + buflen < c /\ buflen \in Nat
    BY <1>1, <2>2, <2>3, LineEditorAssumption DEF Plain, Cols
  <2>5. PICK a \in Nat : a = n + p
    OBVIOUS
  <2>6. a < c
    BY <2>1, <2>4, <2>5
  <2>7. a % c = a
    BY <2>6, Small
  <2>8. s.col = a
    BY <1>13, <2>1, <2>2, <2>3, <2>5, <2>7 DEF Whole
  <2>9. a + right = n + m.at
    BY <1>3, <1>7, <2>1, <2>5
  <2>10. n + m.at \in 0 .. c - 1
    BY <1>7, <2>4
  <2> QED BY <2>3, <2>8, <2>9, <2>10
<1>16. MovedBack(Moved(s, up, right), h) = s
  BY <1>5, <1>7, <1>8, <1>13, <1>14, <1>15, SettledScreen, ThereAndBack
<1>17. h.id = id /\ h.up = up /\ h.right = right
  BY <1>5
<1>18. screen' = Moved(s, up, right)
  BY <1>6, <1>11, <1>17
<1>19. PICK new : new = [id |-> id, up |-> up, right |-> right, checked |-> FALSE]
  OBVIOUS
<1>20. hop' = [sequence |-> id, restore |-> h, threads |-> hop.threads \cup {new}]
  BY <1>6, <1>17, <1>19
<1>21. hop'.sequence = id /\ hop'.restore = h /\ hop'.threads = hop.threads \cup {new}
  BY <1>20
<1>22. Screen0' = s
  <2>1. Due'
    BY <1>1, <1>9, <1>10, <1>17, <1>21 DEF Due
  <2>2. Screen0' = MovedBack(screen', hop'.restore)
    BY <1>1, <2>1 DEF Screen0, MovedBack, Moved, Cols
  <2> QED BY <1>16, <1>18, <1>21, <2>2
<1>23. Hopping(hop')
  <2>1. new.id = id /\ new.up = up /\ new.right = right /\ new.checked = FALSE
    BY <1>19
  <2>2. ASSUME NEW t \in hop.threads
        PROVE  /\ Waits(hop, t) /\ ~t.checked /\ t.id \in Nat /\ t.id <= q /\ t.id # id
    <3>1. t.id \in Nat
      BY DEF EditorTypes, Hops
    <3>2. Waits(hop, t)
      BY <1>1 DEF Hopping
    <3> QED BY <1>1, <1>9, <1>10, <3>1, <3>2 DEF Waits
  <2>3. ASSUME NEW t \in hop.threads PROVE Waits(hop', t)
    <3>1. t.id # 0 /\ t.id <= id /\ t.id # id /\ ~t.checked
      <4>1. t.id \in Nat /\ t.id <= q /\ t.id # id /\ ~t.checked /\ Waits(hop, t)
        BY <2>2
      <4> QED BY <1>9, <1>10, <4>1 DEF Waits
    <3>2. \A u \in hop'.threads : u.id = t.id => u = t
      BY <1>21, <2>1, <2>2 DEF Waits
    <3> QED BY <1>21, <3>1, <3>2 DEF Waits
  <2>4. Waits(hop', new)
    <3>1. \A u \in hop'.threads : u.id = new.id => u = new
      BY <1>21, <2>1, <2>2
    <3> QED BY <1>5, <1>9, <1>10, <1>21, <2>1, <3>1 DEF Waits
  <2>5. h.id <= id
    BY <1>10, <1>17
  <2> QED BY <1>21, <2>3, <2>4, <2>5 DEF Hopping
<1>24. Placed'
  <2>1. screen'.base = screen.base
    BY <1>13, <1>18 DEF Moved, Terminals
  <2> QED BY <1>1, <2>1, StillPlaced DEF Settled
<1>25. Whole(l', Screen0')
  BY <1>12, <1>13, <1>22
<1> QED BY <1>1, <1>23, <1>24, <1>25, SettledGoesOn

LEMMA TypeCharSettles ==
  ASSUME EditorTypes, Settled, NEW c, TypeChar(c) PROVE Settled'
<1>1. ReadKey(c) /\ searching' = None /\ c \in typist.keys
  BY SettledKey DEF TypeChar, Key, Settled
<1>2. c \in Chars /\ repl'.pending = repl.pending
  BY DEF TypeChar, EditorTypes, Inputs
<1>3. l \in LineStates /\ c \in Chars
  BY <1>2 DEF EditorTypes
<1>4. PICK e : e = Inserted(l, c)
  OBVIOUS
<1>5. e \in LineStates /\ Like(l, e)
  BY <1>3, <1>4, InsertedStays, InsertedLike DEF Stays
<1>6. PICK f : f = Put(l, <<>>, 0)
  OBVIOUS
<1>7. f \in LineStates /\ Like(l, f)
  BY <1>3, <1>6, EmptyText, PutStays, PutLike DEF Stays
<1>8. \/ /\ hop' = Hop0
         /\ \/ Show(f, Screen0)
            \/ l' = l /\ screen' = Screen0
            \/ Show(e, Screen0)
      \/ /\ c = Brace
         /\ l' = Refresh(e, Screen0).line
         /\ \E m \in Partners(e) :
              /\ screen' = Moved(Refresh(e, Screen0).terminal, Hop(e, m).up, Hop(e, m).right)
              /\ hop' = [sequence |-> Hop(e, m).id, restore |-> Hop(e, m),
                         threads |-> hop.threads \cup
                           {[id |-> Hop(e, m).id, up |-> Hop(e, m).up,
                             right |-> Hop(e, m).right, checked |-> FALSE]}]
  BY <1>4, <1>6 DEF TypeChar, Show
<1>9. CASE /\ hop' = Hop0
           /\ \/ Show(f, Screen0)
              \/ l' = l /\ screen' = Screen0
              \/ Show(e, Screen0)
  <2>1. Whole(l', screen') /\ screen'.base = screen.base
    <3>1. CASE Show(f, Screen0)
      BY <1>7, <3>1, ShownWhole
    <3>2. CASE l' = l /\ screen' = Screen0
      BY <3>2, SettledScreen
    <3>3. CASE Show(e, Screen0)
      BY <1>5, <3>3, ShownWhole
    <3> QED BY <1>9, <3>1, <3>2, <3>3
  <2> QED BY <1>1, <1>2, <1>9, <2>1, KeySettlesInPlace
<1>10. CASE ~(hop' = Hop0 /\ (\/ Show(f, Screen0)
                              \/ l' = l /\ screen' = Screen0
                              \/ Show(e, Screen0)))
  <2>1. PICK m \in Partners(e) :
              /\ screen' = Moved(Refresh(e, Screen0).terminal, Hop(e, m).up, Hop(e, m).right)
              /\ hop' = [sequence |-> Hop(e, m).id, restore |-> Hop(e, m),
                         threads |-> hop.threads \cup
                           {[id |-> Hop(e, m).id, up |-> Hop(e, m).up,
                             right |-> Hop(e, m).right, checked |-> FALSE]}]
    BY <1>8, <1>10
  <2>2. l' = Refresh(e, Screen0).line /\ Brace \in typist.keys
    BY <1>1, <1>8, <1>10
  <2> QED BY <1>1, <1>2, <1>5, <2>1, <2>2, HopSettles
<1> QED BY <1>9, <1>10

LEMMA EditHistoryNextSettles ==
  ASSUME EditorTypes, Settled, NEW k, EditHistoryNext(k) PROVE Settled'
<1> DEFINE i == Len(history) - l.history_index
           index == l.history_index + IF k = "history_previous" THEN 1 ELSE -1
           h == [history EXCEPT ![i] = l.buf]
<1>1. ReadKey(k) /\ searching' = None /\ hop' = Hop0
  BY DEF EditHistoryNext, Key, Settled
<1>2. /\ l \in LineStates /\ history \in Histories /\ l.buf \in Texts /\ l.history_index \in Nat
      /\ l.history_index < Len(history) /\ Len(history) \in Nat
  BY HistoryFacts, LineFacts DEF EditorTypes
<1>3. i \in 1 .. Len(history)
  BY <1>2
<1>4. h \in Histories /\ Len(h) = Len(history)
  BY <1>2, <1>3, EntryReplaced
<1>5. PICK t : t = Recalled(h[Len(h) - index])
  OBVIOUS
<1>6. PICK e : e = [Put(l, t, Len(t)) EXCEPT !.history_index = index]
  OBVIOUS
<1>7. \/ l' = l /\ screen' = Screen0
      \/ index \in 0 .. Len(history) - 1 /\ Show(e, Screen0)
  BY <1>5, <1>6 DEF EditHistoryNext
<1>8. Whole(l', screen') /\ screen'.base = screen.base
  <2>1. CASE l' = l /\ screen' = Screen0
    BY <2>1, SettledScreen
  <2>2. CASE index \in 0 .. Len(history) - 1 /\ Show(e, Screen0)
    <3>1. index \in Nat /\ Len(h) - index \in 1 .. Len(h)
      BY <1>2, <1>4, <2>2
    <3> HIDE DEF index, h
    <3>2. h[Len(h) - index] \in Texts
      BY <1>4, <3>1, HistoryFacts
    <3>3. t \in Texts /\ Len(t) \in 0 .. Len(t)
      BY <1>5, <3>2, RecalledTyped
    <3>4. Put(l, t, Len(t)) \in LineStates /\ Like(l, Put(l, t, Len(t)))
      BY <1>2, <3>3, PutStays, PutLike DEF Stays
    <3>5. e \in LineStates
      BY <1>6, <3>1, <3>4, IndexSet
    <3>6. Like(Put(l, t, Len(t)), e)
      BY <1>6, <3>4 DEF Like, LineStates
    <3>7. Like(l, e)
      BY <3>4, <3>6 DEF Like
    <3> QED BY <2>2, <3>5, <3>7, ShownWhole
  <2> HIDE DEF i, index, h
  <2> QED BY <1>7, <2>1, <2>2
<1> HIDE DEF i, index, h
<1>9. repl' = repl
  BY DEF EditHistoryNext
<1> QED BY <1>1, <1>8, <1>9, KeySettlesInPlace

(* A thread that has seen that it must move the cursor back is the one of  *)
(* the hop that is shown.                                                  *)
LEMMA ThreadChecksSettles ==
  ASSUME EditorTypes, Settled, NEW t \in hop.threads, ThreadChecks(t) PROVE Settled'
<1>1. UNCHANGED <<typist, peeked, searching, l, repl, screen>> /\ ~t.checked
  BY DEF ThreadChecks
<1>2. hop \in Hops /\ Hopping(hop) /\ Brace \in typist.keys
  BY DEF EditorTypes, Settled
<1>3. PICK u : u = [t EXCEPT !.checked = TRUE]
  OBVIOUS
<1>4. u.id = t.id /\ u.up = t.up /\ u.right = t.right
  BY <1>2, <1>3 DEF Hops
<1>5. PICK T : T = (hop.threads \ {t}) \cup IF t.id = hop.sequence THEN {u} ELSE {}
  OBVIOUS
<1>6. hop' = [hop EXCEPT !.threads = T]
  BY <1>3, <1>5 DEF ThreadChecks
<1>7. hop'.sequence = hop.sequence /\ hop'.restore = hop.restore /\ hop'.threads = T
  BY <1>2, <1>6 DEF Hops
<1>8. Screen0' = Screen0
  BY <1>1, <1>7 DEF Screen0, Due, MovedBack, Moved, Cols
<1>9. ASSUME NEW v \in T PROVE Waits(hop', v)
  <2>1. CASE v \in hop.threads /\ v # t
    <3>1. Waits(hop, v) /\ Waits(hop, t)
      BY <1>2, <2>1 DEF Hopping
    <3>2. \A w \in T : w.id = v.id => w = v
      BY <1>4, <1>5, <2>1, <3>1 DEF Waits
    <3> QED BY <1>7, <3>1, <3>2 DEF Waits
  <2>2. CASE v = u /\ t.id = hop.sequence
    <3>1. Waits(hop, t)
      BY <1>2 DEF Hopping
    <3>2. \A w \in T : w.id = v.id => w = v
      BY <1>4, <1>5, <2>2, <3>1 DEF Waits
    <3> QED BY <1>4, <1>7, <2>2, <3>1, <3>2 DEF Waits
  <2> QED BY <1>5, <2>1, <2>2
<1>10. Hopping(hop')
  BY <1>2, <1>7, <1>9 DEF Hopping
<1>11. Whole(l', Screen0')
  BY <1>1, <1>8 DEF Settled
<1>12. Placed'
  BY <1>1, StillPlaced DEF Settled
<1> QED BY <1>1, <1>2, <1>10, <1>11, <1>12, SettledGoesOn DEF Settled

LEMMA ThreadMovesBackSettles ==
  ASSUME EditorTypes, Settled, NEW t \in hop.threads, ThreadMovesBack(t) PROVE Settled'
<1>1. UNCHANGED <<typist, peeked, searching, l, repl>> /\ t.checked /\ screen' = MovedBack(screen, t)
  BY DEF ThreadMovesBack
<1>2. hop \in Hops /\ Hopping(hop) /\ Brace \in typist.keys
  BY DEF EditorTypes, Settled
<1>3. Waits(hop, t)
  BY <1>2 DEF Hopping
<1>4. hop.sequence \in Nat /\ hop.restore.id \in Nat /\ \A v \in hop.threads : v.id \in Nat
  BY <1>2 DEF Hops, HopType
<1>5. /\ hop'.sequence = hop.sequence + 1 /\ hop'.restore = hop.restore
      /\ hop'.threads = hop.threads \ {t}
  BY <1>2 DEF ThreadMovesBack, Restored, Hops
<1>6. /\ t.id = hop.sequence /\ t.id # 0
      /\ hop.restore.id = t.id /\ hop.restore.up = t.up /\ hop.restore.right = t.right
  BY <1>1, <1>3 DEF Waits
<1>7. screen' = Screen0
  BY <1>1, <1>6 DEF Screen0, Due, Settled, MovedBack
<1>8. Screen0' = screen'
  BY <1>4, <1>5, <1>6, NoDue
<1>9. ASSUME NEW v \in hop'.threads PROVE Waits(hop', v)
  <2>1. Waits(hop, v) /\ v # t /\ v.id \in Nat
    BY <1>2, <1>4, <1>5 DEF Hopping
  <2>2. v.id # hop.sequence
    BY <1>3, <1>5, <1>6, <2>1 DEF Waits
  <2> QED BY <1>4, <1>5, <2>1, <2>2 DEF Waits
<1>10. Hopping(hop')
  BY <1>4, <1>5, <1>6, <1>9 DEF Hopping
<1>11. Whole(l', Screen0') /\ Placed'
  <2>1. l' = l /\ Screen0' = Screen0
    BY <1>1, <1>7, <1>8
  <2>2. Whole(l, Screen0) /\ Screen0.base = screen.base
    BY SettledScreen
  <2>3. Placed'
    BY <1>1, <1>7, <2>2, StillPlaced DEF Settled
  <2> QED BY <2>1, <2>2, <2>3
<1> QED BY <1>1, <1>2, <1>10, <1>11, SettledGoesOn DEF Settled
-----------------------------------------------------------------------------
(* No more than n rows below the cursor show something.                    *)
Under(s, n) == \A r \in Rows : r > s.row + n => s.shows[r] = Blank

LEMMA NextLineUnder ==
  ASSUME NEW s \in Terminals, NEW n \in Nat, Under(s, n + 1) PROVE Under(NextLine(s), n)
<1>1. PICK t : t = NextLine(s)
  OBVIOUS
<1>2. t.row = 1 /\ s.row \in Nat
  BY <1>1 DEF NextLine, Terminals
<1>3. ASSUME NEW r \in Rows, r > 1 + n PROVE t.shows[r] = Blank
  <2>1. r \in Nat /\ r # 0
    BY <1>3 DEF Rows
  <2>2. s.row + r \in Rows => s.shows[s.row + r] = Blank
    BY <1>2, <1>3, <2>1 DEF Under
  <2>3. Blank \notin Rows
    BY DEF Rows, Blank
  <2> QED BY <1>1, <2>1, <2>2, <2>3 DEF NextLine
<1> QED BY <1>1, <1>2, <1>3 DEF Under

LEMMA NextLineReady ==
  ASSUME NEW s \in Terminals, Under(s, 1)
  PROVE  Ready(NextLine(s)) /\ NextLine(s).base = 1 /\ NextLine(s).col = 0
<1>1. PICK t : t = NextLine(s)
  OBVIOUS
<1>2. t.row = 1 /\ t.base = 1 /\ t.col = 0 /\ \A r \in Rows : r = 0 => t.shows[r] = Output
  BY <1>1 DEF NextLine
<1>3. 1 = 0 + 1 /\ 0 \in Nat
  OBVIOUS
<1>4. Under(t, 0)
  BY <1>1, <1>3, NextLineUnder
<1>5. ASSUME NEW r \in Rows PROVE (r < 1 => t.shows[r] = Output) /\ (r > 1 => t.shows[r] = Blank)
  <2>1. r \in Nat
    BY DEF Rows
  <2> QED BY <1>2, <1>4, <2>1 DEF Under
<1> QED BY <1>1, <1>2, <1>5 DEF Ready, Above

LEMMA WholeUnder ==
  ASSUME Cols \in Nat \ {0}, NEW e \in LineStates, NEW s \in Terminals, Whole(e, s),
         NEW n \in Nat, Height(e) <= Row(e.pos) + n + 1
  PROVE  Under(s, n)
<1>1. PICK k \in Nat : k = Row(e.pos)
  BY RowTyped DEF LineStates
<1>2. PICK h \in Nat : h = Height(e)
  BY HeightTyped
<1>3. PICK b \in Nat : b = s.base
  BY DEF Terminals
<1>4. s.row = b + k /\ h <= k + n + 1
  BY <1>1, <1>2, <1>3 DEF Whole
<1>5. ASSUME NEW r \in Rows, r > s.row + n PROVE s.shows[r] = Blank
  <2>1. r \in Nat
    BY DEF Rows
  <2>2. ~(r < b) /\ ~(r < b + h)
    BY <1>4, <1>5, <2>1
  <2> QED BY <1>2, <1>3, <2>2 DEF Whole
<1> QED BY <1>5 DEF Under

LEMMA EndHeight ==
  ASSUME Cols \in Nat \ {0}, NEW e \in LineStates, e.plen = PromptLen, e.pos = e.len
  PROVE  Height(e) <= Row(e.pos) + 1
<1>1. PICK c \in Nat \ {0} : c = Cols
  OBVIOUS
<1>2. PICK a \in Nat \ {0} : a = PromptLen + e.len
  BY LineEditorAssumption DEF LineStates
<1>3. PICK q \in Nat : q = a \div c
  BY Division
<1>4. (a + c - 1) \div c = IF a % c = 0 THEN q ELSE q + 1
  BY <1>3, Ceiling
<1>5. Height(e) = (a + c - 1) \div c /\ Row(e.pos) = q
  BY <1>1, <1>2, <1>3 DEF Height, Row
<1> QED BY <1>4, <1>5

LEMMA FreshReady == Ready(Fresh) /\ Fresh.base = 1 /\ Fresh.col = 0
BY DEF Ready, Above, Fresh, Rows

LEMMA NewLineBase ==
  ASSUME Cols \in Nat \ {0}, NEW s \in Terminals, NEW n \in Nat
  PROVE  NewLine(s, n).terminal.base = Prompted(s).base
<1>1. PICK r : r = Indented(s, n)
  OBVIOUS
<1>2. /\ r = [i \in 0 .. n |-> IndentedFrom(s, r, i)]
      /\ \A i \in 0 .. n : r[i] \in NewLines
  BY <1>1, IndentedTyped
<1>3. \A i \in 0 .. n : r[i] = IndentedFrom(s, r, i)
  BY <1>2
<1>4. NewLine(s, n) = Refresh(r[n].line, r[n].terminal)
  BY <1>1 DEF NewLine, Indented, IndentedFrom
<1> DEFINE G == {i \in 0 .. n : r[i].terminal.base = Prompted(s).base}
<1>5. 0 \in G
  <2>1. 0 \in 0 .. n /\ r[0] = [line |-> Line0, terminal |-> Prompted(s)]
    BY <1>3 DEF IndentedFrom
  <2>2. r[0].terminal = Prompted(s)
    BY <2>1
  <2> QED BY <2>1, <2>2
<1>6. ASSUME NEW i \in 1 .. n, i - 1 \in G PROVE i \in G
  <2>1. i \in 0 .. n /\ i - 1 \in 0 .. n /\ i # 0
    OBVIOUS
  <2>2. r[i] = Refresh(Inserted(r[i - 1].line, Space), r[i - 1].terminal)
    BY <1>3, <2>1 DEF IndentedFrom
  <2>3. r[i - 1].terminal \in Terminals /\ r[i - 1].terminal.base = Prompted(s).base
    BY <1>2, <1>6, <2>1 DEF NewLines
  <2>4. r[i].terminal.base = Prompted(s).base
    BY <2>2, <2>3, RefreshBase
  <2> QED BY <2>1, <2>4
<1> HIDE DEF G
<1>7. n \in G
  <2>1. \A i \in 0 .. n : i \in G
    BY <1>5, <1>6, Climbs
  <2> QED BY <2>1
<1>8. r[n].terminal.base = Prompted(s).base /\ r[n].terminal \in Terminals
  BY <1>2, <1>7 DEF G, NewLines
<1> QED BY <1>4, <1>8, RefreshBase

LEMMA BeginWhole ==
  ASSUME EditorTypes, NEW h, NEW s \in Terminals, Ready(s), s.base = 1, NEW n \in Nat,
         Begin(h, s, n)
  PROVE  Whole(l', screen') /\ screen'.base = IF Fits(s) THEN 1 ELSE 2
<1>1. Cols \in Nat \ {0} /\ PromptLen < Cols
  BY WidthTyped DEF EditorTypes
<1>2. Ready(Prompted(s)) /\ Prompted(s).base = IF Fits(s) THEN 1 ELSE 2
  BY PromptedReady
<1>3. Whole(NewLine(s, n).line, NewLine(s, n).terminal)
  BY <1>1, <1>2, NewLineWhole
<1>4. NewLine(s, n).terminal.base = IF Fits(s) THEN 1 ELSE 2
  BY <1>1, <1>2, NewLineBase
<1> QED BY <1>3, <1>4 DEF Begin

LEMMA BeginSettled ==
  ASSUME EditorTypes, NEW h, NEW s \in Terminals, Ready(s), s.base = 1, s.col = 0,
         NEW n \in Nat, Begin(h, s, n)
  PROVE  Whole(l', screen') /\ Placed'
<1>1. Fits(s)
  BY WidthTyped DEF EditorTypes, Fits
<1> QED BY <1>1, BeginWhole DEF Placed

(* Enter moves the cursor to the end of the line.                          *)
LEMMA LineEndsReady ==
  ASSUME EditorTypes, Settled
  PROVE  /\ Ready(NextLine(AtLineEnd)) /\ NextLine(AtLineEnd).base = 1 /\ NextLine(AtLineEnd).col = 0
         /\ AtLineEnd.col = (PromptLen + l.len) % Cols
<1>1. Cols \in Nat \ {0} /\ PromptLen < Cols /\ l \in LineStates /\ Screen0 \in Terminals
  BY SettledScreen
<1>2. PICK r : r = IF l.pos # l.len THEN Refresh([l EXCEPT !.pos = l.len], Screen0)
                   ELSE [line |-> l, terminal |-> Screen0]
  OBVIOUS
<1>3. /\ r.line \in LineStates /\ r.terminal \in Terminals /\ Whole(r.line, r.terminal)
      /\ r.line.pos = l.len /\ r.line.len = l.len
  <2>1. CASE l.pos # l.len
    <3>1. PICK e : e = [l EXCEPT !.pos = l.len]
      OBVIOUS
    <3>2. e \in LineStates /\ Like(l, e) /\ e.pos = l.len /\ e.len = l.len
      <4>1. e \in LineStates
        <5>1. l.len \in 0 .. l.len
          BY <1>1, LineFacts
        <5> QED BY <1>1, <3>1, <5>1, PosStays DEF Stays
      <4>2. Like(l, e)
        BY <1>1, <3>1, PosLike
      <4>3. e.pos = l.len /\ e.len = l.len
        BY <1>1, <3>1 DEF LineStates
      <4> QED BY <4>1, <4>2, <4>3
    <3>3. r = Refresh(e, Screen0)
      BY <1>2, <2>1, <3>1
    <3>4. Begun(e, Screen0)
      BY <1>1, <3>2, WholeBegun, SettledScreen
    <3>5. Whole(r.line, r.terminal)
      BY <1>1, <3>2, <3>3, <3>4, RefreshWhole
    <3>6. r.line \in LineStates /\ r.terminal \in Terminals
      BY <1>1, <3>2, <3>3, RefreshedLine, RefreshedTerminal
    <3>7. r.line.pos = e.pos /\ r.line.len = e.len
      <4>1. r.line = [e EXCEPT !.maxrows = r.line.maxrows, !.oldpos = e.pos]
        BY <1>1, <3>2, <3>3, RefreshedLine
      <4>2. PICK m : m = r.line.maxrows
        OBVIOUS
      <4>3. r.line = [e EXCEPT !.maxrows = m, !.oldpos = e.pos]
        BY <4>1, <4>2
      <4> QED BY <3>2, <4>3 DEF LineStates
    <3> QED BY <3>2, <3>5, <3>6, <3>7
  <2>2. CASE l.pos = l.len
    BY <1>1, <1>2, <2>2, SettledScreen
  <2> QED BY <2>1, <2>2
<1>4. Height(r.line) <= Row(r.line.pos) + 1
  BY <1>1, <1>3, EndHeight DEF Whole
<1>5. Under(r.terminal, 1)
  <2>1. PICK k \in Nat : k = Row(r.line.pos)
    BY <1>1, <1>3, RowTyped DEF LineStates
  <2>2. PICK m \in Nat : m = Height(r.line)
    BY <1>1, <1>3, HeightTyped
  <2>3. Height(r.line) <= Row(r.line.pos) + 1 + 1
    BY <1>4, <2>1, <2>2
  <2> QED BY <1>1, <1>3, <2>3, WholeUnder
<1>6. AtLineEnd = r.terminal
  BY <1>2 DEF AtLineEnd
<1>7. AtLineEnd.col = (PromptLen + l.len) % Cols
  BY <1>3, <1>6 DEF Whole
<1> QED BY <1>3, <1>5, <1>6, <1>7, NextLineReady

(* The prompt of a line that continues does not fit if it is Torn from the *)
(* line that ended.                                                        *)
LEMMA ContinueSettles == ASSUME EditorTypes, Settled, Continue PROVE Settled'
<1>1. ReadKey("enter") /\ searching' = None /\ hop' = Hop0
  BY DEF Continue, Key, Settled
<1>2. PICK s : s = NextLine(AtLineEnd)
  OBVIOUS
<1>3. PICK c : c = AtLineEnd.col
  OBVIOUS
<1>4. PICK next : next = [s EXCEPT !.col = c]
  OBVIOUS
<1>5. s \in Terminals /\ next \in Terminals /\ Ready(s) /\ s.base = 1
  BY <1>2, <1>3, <1>4, EndedTyped, ContinuedTyped, LineEndsReady
<1>6. /\ next.col = c /\ next.row = s.row /\ next.base = s.base /\ next.shows = s.shows
  BY <1>4, <1>5 DEF Terminals
<1>7. Ready(next) /\ next.base = 1
  BY <1>5, <1>6 DEF Ready, Above
<1>8. Begin(Scratched(history), next, repl.spaces) /\ repl.spaces \in Nat
  BY <1>2, <1>3, <1>4, SpacesTyped DEF Continue
<1>9. Whole(l', screen') /\ screen'.base = IF Fits(next) THEN 1 ELSE 2
  BY <1>5, <1>7, <1>8, BeginWhole
<1>10. ~Fits(next) => Torn'
  <2>1. typist' = typist
    BY <1>1, SettledKey
  <2>2. PICK line \in Texts : line = SubSeq(l.buf, 1, l.len) /\ Len(line) = l.len
    <3>1. SubSeq(l.buf, 1, l.len) \in Texts
      BY LinesEntered
    <3>2. Len(SubSeq(l.buf, 1, l.len)) = l.len
      BY EnteredLength
    <3> QED BY <3>1, <3>2
  <2>3. PICK pending \in Seq(Texts) : pending = repl.pending
    BY DEF EditorTypes, Inputs
  <2>4. repl'.pending = Append(pending, line)
    BY <2>2, <2>3, SpacesTyped DEF Continue, Inputs, LinesRead
  <2>5. repl'.pending # <<>> /\ Last(repl'.pending) = line
    BY <2>4, AppendProperties, LenProperties DEF Last
  <2>6. c = (PromptLen + l.len) % Cols
    BY <1>3, LineEndsReady
  <2>7. PICK x \in Nat : x = (PromptLen + l.len) % Cols
    <3>1. PromptLen + l.len \in Nat /\ Cols \in Nat \ {0}
      BY WidthTyped DEF EditorTypes, LineStates
    <3> QED BY <3>1, Divided
  <2>8. Fits(next) <=> x + PromptLen <= Cols
    BY <1>6, <2>6, <2>7 DEF Fits
  <2>9. Torn' <=> x + PromptLen > Cols
    BY <2>1, <2>2, <2>5, <2>7 DEF Torn, Cols
  <2>10. PromptLen \in Nat /\ Cols \in Nat
    BY WidthTyped DEF EditorTypes
  <2> QED BY <2>7, <2>8, <2>9, <2>10
<1>11. Placed'
  BY <1>9, <1>10 DEF Placed
<1> QED BY <1>1, <1>9, <1>11, KeySettles

LEMMA EnterSettles == ASSUME EditorTypes, Settled, Enter PROVE Settled'
<1>1. ReadKey("enter") /\ searching' = None /\ hop' = Hop0
  BY DEF Enter, Key, Settled
<1>2. PICK next : next = NextLine(AtLineEnd)
  OBVIOUS
<1>3. next \in Terminals /\ Ready(next) /\ next.base = 1 /\ next.col = 0
  BY <1>2, EndedTyped, LineEndsReady
<1>4. ASSUME NEW h, NEW n \in Indents \cup {0}, Begin(h, next, n)
      PROVE  Whole(l', screen') /\ Placed'
  <2>1. n \in Nat
    <3>1. CASE n \in Indents
      BY <3>1, LineEditorAssumption
    <3>2. CASE n = 0
      BY <3>2
    <3> QED BY <3>1, <3>2
  <2> QED BY <1>3, <1>4, <2>1, BeginSettled
<1>5. Whole(l', screen') /\ Placed'
  <2> DEFINE start == [history |-> Scratched(history), open |-> repl.open, adds |-> FALSE,
                       entered |-> past.entered]
  <2>1. \E pasting, open :
          LET p == Process(Tokens(LinesRead), open, start)
          IN \E indent \in IF p.open /\ ~pasting THEN Indents ELSE {0} :
               Begin(p.history, next, indent)
    BY <1>2 DEF Enter
  <2> HIDE DEF start
  <2> QED BY <1>4, <2>1
<1> QED BY <1>1, <1>5, KeySettles

LEMMA CancelSettles == ASSUME EditorTypes, Settled, NearEnd, Cancel PROVE Settled'
<1>1. ReadKey("cancel") /\ searching' = None /\ hop' = Hop0
  BY DEF Cancel, Key, Settled
<1>2. Cols \in Nat \ {0} /\ l \in LineStates /\ Screen0 \in Terminals /\ Whole(l, Screen0)
  BY SettledScreen
<1>3. Under(Screen0, 2)
  <2>1. PICK k \in Nat : k = Row(l.pos)
    BY <1>2, RowTyped DEF LineStates
  <2>2. PICK m \in Nat : m = Height(l)
    BY <1>2, HeightTyped
  <2>3. Height(l) <= Row(l.pos) + 2 + 1
    BY <2>1, <2>2 DEF NearEnd
  <2> QED BY <1>2, <2>3, WholeUnder
<1>4. PICK s : s = NextLine(Screen0)
  OBVIOUS
<1>5. s \in Terminals /\ Under(s, 1)
  <2>1. 1 + 1 = 2 /\ 1 \in Nat
    OBVIOUS
  <2> QED BY <1>2, <1>3, <1>4, <2>1, NextLineTerminal, NextLineUnder
<1>6. /\ NextLine(s) \in Terminals /\ Ready(NextLine(s))
      /\ NextLine(s).base = 1 /\ NextLine(s).col = 0
  BY <1>2, <1>5, NextLineTerminal, NextLineReady
<1>7. Begin(history, NextLine(s), 0) /\ 0 \in Nat
  BY <1>4 DEF Cancel
<1>8. Whole(l', screen') /\ Placed'
  BY <1>6, <1>7, BeginSettled
<1> QED BY <1>1, <1>8, KeySettles

LEMMA RestartSettles == ASSUME EditorTypes, Settled, Restart PROVE Settled'
<1>1. Fresh \in Terminals
  BY WidthTyped, FreshTerminal DEF EditorTypes
<1>2. Begin(Load(saved), Fresh, 0) /\ 0 \in Nat
  BY DEF Restart
<1>3. Whole(l', screen') /\ Placed'
  BY <1>1, <1>2, FreshReady, BeginSettled
<1>4. typist' = typist /\ peeked' = None /\ searching' = None /\ hop' = NoHop
  BY DEF Restart
<1>5. hop'.restore.id = 0 /\ hop'.threads = {} /\ Hopping(hop')
  BY <1>4 DEF NoHop, Hopping
<1>6. Screen0' = screen'
  BY <1>5, NoDue
<1> QED BY <1>3, <1>4, <1>5, <1>6, SettledGoesOn

LEMMA SettledAtFirst ==
  ASSUME \A t \in Typists : Plain(t), EditorInit PROVE Settled
<1>1. typist \in Typists /\ peeked = None /\ searching = None /\ hop = NoHop
  BY DEF EditorInit
<1>2. Cols \in Nat \ {0} /\ PromptLen < Cols
  BY <1>1, WidthTyped
<1>3. Fresh \in Terminals /\ 0 \in Nat /\ Fresh.base = 1
  BY <1>2, FreshTerminal DEF Fresh
<1>4. Whole(l, screen) /\ Placed
  <2>1. Prompted(Fresh) = Fresh
    <3>1. 0 + PromptLen <= Cols
      BY <1>1, WidthTyped
    <3> QED BY <3>1, FreshReady DEF Prompted
  <2>2. l = NewLine(Fresh, 0).line /\ screen = NewLine(Fresh, 0).terminal
    BY DEF EditorInit
  <2>3. screen.base = 1
    BY <1>2, <1>3, <2>1, <2>2, NewLineBase
  <2> QED BY <1>2, <1>3, <2>1, <2>2, <2>3, FreshReady, NewLineWhole DEF Placed
<1>5. hop.restore.id = 0 /\ hop.threads = {} /\ Hopping(hop)
  BY <1>1 DEF NoHop, Hopping
<1>6. Screen0 = screen
  BY <1>5 DEF Screen0, Due
<1> QED BY <1>1, <1>4, <1>5, <1>6 DEF Settled

LEMMA SettledStep ==
  ASSUME ByteBefore # Space, EditorTypes, Settled, EditorNext, Cancel => NearEnd
  PROVE  Settled'
<1>1. ASSUME NEW k \in Keys, Edit(k) PROVE Settled'
  BY <1>1, EditSettles
<1>2. ASSUME NEW k \in Keys, TypeChar(k) PROVE Settled'
  BY <1>2, TypeCharSettles
<1>3. ASSUME NEW k \in Keys, EditHistoryNext(k) PROVE Settled'
  BY <1>3, EditHistoryNextSettles
<1>4. ASSUME NEW k, Search(k) \/ EndSearch(k) PROVE FALSE
  BY <1>4 DEF Search, EndSearch, Settled
<1>5. ~ReverseSearch
  <2> SUFFICES ASSUME ReverseSearch PROVE FALSE
    OBVIOUS
  <2>1. "reverse_i_search" \in typist.keys
    BY SettledKey DEF ReverseSearch
  <2> QED BY <2>1 DEF Settled, Plain
<1>6. ~Tab
  <2> SUFFICES ASSUME Tab PROVE FALSE
    OBVIOUS
  <2>1. "tab" \in typist.keys
    BY SettledKey DEF Tab, Key
  <2> QED BY <2>1 DEF Settled, Plain
<1>7. ~PrintNow
  BY DEF PrintNow, Settled, Plain
<1>8. ASSUME NEW t \in hop.threads, ThreadChecks(t) \/ ThreadMovesBack(t) PROVE Settled'
  BY <1>8, ThreadChecksSettles, ThreadMovesBackSettles
<1>9. CASE ClearScreen
  BY <1>9, ClearScreenSettles
<1>10. CASE Continue \/ Enter
  BY <1>10, ContinueSettles, EnterSettles
<1>11. CASE Cancel
  BY <1>11, CancelSettles
<1>12. CASE Restart
  BY <1>12, RestartSettles
<1> QED BY <1>1, <1>2, <1>3, <1>4, <1>5, <1>6, <1>7, <1>8, <1>9, <1>10, <1>11, <1>12
        DEF EditorNext

LEMMA SettledStutter ==
  ASSUME Settled, UNCHANGED editorVars PROVE Settled'
<1>1. UNCHANGED <<typist, peeked, searching, l, repl, screen, hop>>
  BY DEF editorVars
<1>2. Screen0' = Screen0
  BY <1>1 DEF Screen0, Due, MovedBack, Moved, Cols
<1>3. Placed'
  BY <1>1, StillPlaced DEF Settled
<1> QED BY <1>1, <1>2, <1>3, SettledGoesOn DEF Settled

LEMMA SettledIsShown == ASSUME EditorTypes, Settled PROVE LineIsShown
<1>1. /\ Cols \in Nat \ {0} /\ l \in LineStates /\ screen \in Terminals
      /\ Screen0 \in Terminals /\ Whole(l, Screen0) /\ Screen0.base = screen.base
  BY SettledScreen
<1>2. PICK k \in Nat : k = Row(l.pos)
  BY <1>1, RowTyped DEF LineStates
<1>3. k + 1 < LastRow
  <2>1. PICK a \in Nat : a = PromptLen + l.pos
    BY <1>1, LineEditorAssumption DEF LineStates
  <2>2. PICK b \in Nat : b = PromptLen + buflen
    BY LineEditorAssumption
  <2>3. a <= b
    <3>1. l.pos \in 0 .. l.len /\ l.len \in 0 .. Len(l.buf) /\ Len(l.buf) <= buflen
          /\ Len(l.buf) \in Nat /\ buflen \in Nat
      BY <1>1, LineFacts
    <3>2. PromptLen \in Nat
      BY LineEditorAssumption
    <3> QED BY <2>1, <2>2, <3>1, <3>2
  <2>4. a \div Cols <= b \div Cols
    BY <1>1, <2>3, Higher
  <2>5. b \div Cols + 1 < LastRow
    BY <2>2 DEF Settled, Plain, Cols
  <2>6. b \div Cols \in Nat /\ LastRow \in Nat
    BY <1>1, Division, LineEditorAssumption
  <2> QED BY <1>2, <2>1, <2>4, <2>5, <2>6 DEF Row
<1>4. screen.base \in Nat /\ screen.base <= 2 /\ Screen0.row = screen.base + k
  BY <1>1, <1>2 DEF Whole, Terminals
<1>5. screen.row \in Nat /\ screen.row <= Screen0.row
  <2>1. screen.row \in Nat /\ hop.restore.up \in Int
    BY <1>1 DEF Terminals, EditorTypes, Hops, HopType
  <2>2. CASE Due
    <3>1. PICK s : s = Moved(screen, 0, -hop.restore.right)
      OBVIOUS
    <3>2. s \in Terminals /\ s.row = screen.row
      <4>1. -hop.restore.right \in Int /\ 0 \in Int
        BY DEF EditorTypes, Hops, HopType
      <4>2. s \in Terminals
        BY <1>1, <3>1, <4>1, OtherTerminals
      <4>3. s.row = screen.row
        BY <1>1, <3>1 DEF Moved, Terminals
      <4> QED BY <4>2, <4>3
    <3>3. Screen0.row = IF hop.restore.up > 0 THEN screen.row + hop.restore.up ELSE screen.row
      BY <2>2, <3>1, <3>2 DEF Screen0, MovedBack, Terminals
    <3> QED BY <2>1, <3>3
  <2>3. CASE ~Due
    BY <2>1, <2>3 DEF Screen0
  <2> QED BY <2>2, <2>3
<1>6. {screen.row, screen.base} \subseteq Rows
  <2>1. LastRow \in Nat
    BY LineEditorAssumption
  <2> QED BY <1>2, <1>3, <1>4, <1>5, <2>1 DEF Rows
<1>7. ~Due => Screen0 = screen
  BY DEF Screen0
<1>8. PICK h \in Nat : h = Height(l) /\ h = (l.plen + l.len + Cols - 1) \div Cols
  BY <1>1, HeightTyped DEF Height
<1>9. ASSUME ~Due, NEW r \in Rows
      PROVE  /\ r < screen.base => screen.shows[r] \in {Output} \cup IF Torn /\ r = 1 THEN {Rest} ELSE {}
             /\ r >= screen.base => screen.shows[r] = IF r < screen.base + h
                                                     THEN r - screen.base ELSE Blank
  <2>1. /\ r < screen.base => Above(screen, r)
        /\ ~(r < screen.base) => screen.shows[r] = IF r < screen.base + h
                                                   THEN r - screen.base ELSE Blank
    BY <1>1, <1>7, <1>8, <1>9 DEF Whole
  <2>2. r \in Nat
    BY DEF Rows
  <2>3. r < screen.base /\ r = 1 => Torn
    BY <1>4 DEF Settled, Placed
  <2> QED BY <1>4, <2>1, <2>2, <2>3 DEF Above
<1>10. ~Due => /\ screen.row = screen.base + (l.plen + l.pos) \div Cols
               /\ screen.col = (l.plen + l.pos) % Cols
  BY <1>1, <1>7 DEF Whole, Row
<1> QED BY <1>6, <1>8, <1>9, <1>10 DEF LineIsShown

(* After each key the terminal shows the output and below it the line,     *)
(* over as many rows as it takes, with the cursor in its place, also when  *)
(* a thread has moved the cursor back from a brace (refreshMultiLine in    *)
(* linenoise.c, highlight and do_highlight_restore in repl.c); for those   *)
(* who are Plain, if Ctrl-C is not pressed with more of the line below.    *)
(* Between output and line, a line that is pasted behind one that ended    *)
(* near the margin has a piece of its prompt, and no other line has.       *)
THEOREM EditedLineIsShown ==
  ASSUME ByteBefore # Space, \A t \in Typists : Plain(t)
  PROVE  EditorSpec /\ [][Cancel => NearEnd]_editorVars => []LineIsShown
<1>1. EditorInit => EditorTypes /\ Settled
  BY TypesAtFirst, SettledAtFirst
<1>2. EditorTypes /\ Settled /\ [EditorNext]_editorVars /\ [Cancel => NearEnd]_editorVars
        => EditorTypes' /\ Settled'
  BY TypesStep, TypesStutter, SettledStep, SettledStutter
<1>3. EditorTypes /\ Settled => LineIsShown
  BY SettledIsShown
<1> QED BY <1>1, <1>2, <1>3, PTL DEF EditorSpec
=============================================================================

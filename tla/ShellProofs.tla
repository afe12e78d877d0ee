----------------------------- MODULE ShellProofs -----------------------------
(***************************************************************************)
(* Proofs about Shell, for any calls, commands, inputs, descriptor table   *)
(* and failures.  Careful or not, scripts leave the types right and no     *)
(* descriptor open of a call that had its pipes and its process.  For      *)
(* careful scripts Shell implements ShellCalls.                            *)
(***************************************************************************)
EXTENDS Shell, SequenceTheorems, TLAPS

Served == {"close_others", "poll", "close_own", "wait", "answer"}
BeforeFork == {"pipe_stdout", "pipe_stdin", "pipe_stderr", "fork"}

(* A call that has begun has a command, and is told to write when it has   *)
(* something to write.                                                     *)
HasWork == \A c \in Calls :
             /\ call[c].pc # "idle" => call[c].program \in Programs
             /\ "stdin" \in call[c].revents => call[c].pc = "poll" /\ call[c].to_write \in Nat

Types == TypeOK /\ HasWork

(* An open end is at the number its call noted. *)
Known == \A n \in Fds, c \in Calls, s \in Streams :
           /\ fd[n] = <<c, s, "r">> => call[c].ends[s].r = n
           /\ fd[n] = <<c, s, "w">> => call[c].ends[s].w = n

Absent(n, c, S) == \A s \in S : fd[n] # <<c, s, "r">> /\ fd[n] # <<c, s, "w">>

(* What is open of the pipes of a call at each of its labels. *)
Opened == \A n \in Fds, c \in Calls :
            /\ call[c].pc \in {"idle", "pipe_stdout"} => Absent(n, c, Streams)
            /\ call[c].pc = "pipe_stdin" => Absent(n, c, {"stdin", "stderr"})
            /\ call[c].pc = "pipe_stderr" => Absent(n, c, {"stderr"})
            /\ call[c].pc \in {"poll", "close_own"} =>
                 fd[n] \notin {<<c, "stdin", "r">>, <<c, "stdout", "w">>, <<c, "stderr", "w">>}
            /\ \/ call[c].pc \in {"wait", "answer"}
               \/ call[c].pc = "over" /\ child[c].state # "none"
               => Absent(n, c, Streams)

(* A call has a child from its fork on. *)
HasChild == \A c \in Calls :
              /\ call[c].pc \in BeforeFork \cup {"idle"} => child[c].state = "none"
              /\ call[c].pc \in Served => child[c].state # "none"

IInv == Types /\ Known /\ Opened /\ HasChild

-----------------------------------------------------------------------------
LEMMA InitInv == Init => IInv
<1> SUFFICES ASSUME Init PROVE IInv
  OBVIOUS
<1> USE ShellAssumption DEF Init
<1>1. TypeOK
  BY DEF TypeOK, CallState, ChildState, Said, Labels, Ends, Outputs, Streams
<1>2. HasWork
  BY DEF HasWork
<1>3. Known /\ Opened /\ HasChild
  <2>1. \A n \in Fds : fd[n] = Nothing
    OBVIOUS
  <2>2. \A c \in Calls, s \in Streams : Nothing # <<c, s, "r">> /\ Nothing # <<c, s, "w">>
    OBVIOUS
  <2>3. {"stdin", "stderr", "stdout"} \subseteq Streams
    BY DEF Streams, Outputs
  <2> QED BY <2>1, <2>2, <2>3 DEF Known, Opened, Absent, HasChild, BeforeFork, Served
<1> QED BY <1>1, <1>2, <1>3 DEF IInv, Types

(* The types, when the call and the child of c become r and k. *)
LEMMA CallStep ==
  ASSUME Types, NEW c \in Calls, NEW r \in CallState, NEW k \in ChildState,
         call' = [call EXCEPT ![c] = r], child' = [child EXCEPT ![c] = k],
         r.pc # "idle" => r.program \in Programs,
         "stdin" \in r.revents => r.pc = "poll" /\ r.to_write \in Nat,
         fd' \in [Fds -> Ends \cup {Nothing}],
         pipe' \in [Calls \X Streams -> Seq(Calls)]
  PROVE  Types'
<1>1. call \in [Calls -> CallState] /\ child \in [Calls -> ChildState]
  BY DEF Types, TypeOK
<1>2. call' \in [Calls -> CallState] /\ child' \in [Calls -> ChildState]
  BY <1>1
<1>3. HasWork'
  BY <1>1 DEF Types, HasWork
<1> QED BY <1>2, <1>3 DEF Types, TypeOK

LEMMA TypesInductive == ASSUME Types, [Next]_vars PROVE Types'
<1> USE ShellAssumption
<1>t. /\ fd \in [Fds -> Ends \cup {Nothing}]
      /\ pipe \in [Calls \X Streams -> Seq(Calls)]
      /\ call \in [Calls -> CallState]
      /\ child \in [Calls -> ChildState]
  BY DEF Types, TypeOK
<1>c. ASSUME NEW c \in Calls
      PROVE  /\ call[c] \in CallState
             /\ child[c] \in ChildState
             /\ call[c].pc # "idle" => call[c].program \in Programs
             /\ "stdin" \in call[c].revents => call[c].pc = "poll" /\ call[c].to_write \in Nat
  BY <1>t DEF Types, HasWork
<1>k. ASSUME NEW c \in Calls, UNCHANGED child PROVE child' = [child EXCEPT ![c] = child[c]]
  BY <1>k, <1>t
<1>l. ASSUME NEW c \in Calls, UNCHANGED call PROVE call' = [call EXCEPT ![c] = call[c]]
  BY <1>l, <1>t
<1>p. ASSUME NEW n, Open(n) PROVE PipeAt(n) \in Calls \X Streams
  <2>1. fd[n] \in Ends
    BY <1>p, <1>t DEF Open
  <2>2. PICK c \in Calls, s \in Streams, side \in {"r", "w"} : fd[n] = <<c, s, side>>
    BY <2>1 DEF Ends
  <2> QED BY <2>2 DEF PipeAt
<1>1. ASSUME NEW c \in Calls, Start(c) PROVE Types'
  <2>1. PICK program \in Programs, in_str \in Inputs :
          call' = [call EXCEPT ![c].pc = "pipe_stdout",
                               ![c].program = program,
                               ![c].in_str = in_str,
                               ![c].to_write = in_str]
    BY <1>1 DEF Start
  <2> DEFINE r == [call[c] EXCEPT !.pc = "pipe_stdout", !.program = program,
                                  !.in_str = in_str, !.to_write = in_str]
  <2>2. r \in CallState
    BY <1>c, ZenonT(40) DEF CallState, Labels
  <2>3. call' = [call EXCEPT ![c] = r]
    BY <2>1
  <2>4. "stdin" \notin r.revents
    BY <1>c, <1>1 DEF Start, CallState
  <2>5. r.program \in Programs
    BY <1>c DEF CallState
  <2> HIDE DEF r
  <2> QED BY <2>2, <2>3, <2>4, <2>5, <1>1, <1>c, <1>k, <1>t, CallStep DEF Start
<1>2. ASSUME NEW c \in Calls, OpenPipe(c) PROVE Types'
  <2>1. PICK p \in PipesAt(c), n \in Free, m \in Free : OpenPipe(c)!(p, n, m)
    BY <1>2 DEF OpenPipe
  <2>p. p \in Pipes /\ call[c].pc = p[1]
    BY DEF PipesAt
  <2> DEFINE r == [call[c] EXCEPT !.ends = [@ EXCEPT ![p[2]] = [r |-> n, w |-> m]], !.pc = p[3]]
  <2>2. p[2] \in Streams /\ p[3] \in Labels /\ p[3] \notin {"idle", "poll"} /\ p[1] \notin {"idle", "poll"}
    BY <2>p DEF Pipes, Streams, Outputs, Labels
  <2>3. n \in Fds /\ m \in Fds
    BY DEF Free
  <2>4. [call[c].ends EXCEPT ![p[2]] = [r |-> n, w |-> m]]
          \in [Streams -> [r : Fds \cup {0}, w : Fds \cup {0}]]
    BY <1>c, <2>2, <2>3 DEF CallState
  <2>5. r \in CallState
    <3>1. \A e \in [Streams -> [r : Fds \cup {0}, w : Fds \cup {0}]], l \in Labels :
            [call[c] EXCEPT !.ends = e, !.pc = l] \in CallState
      BY <1>c, ZenonT(40) DEF CallState
    <3> QED BY <3>1, <2>2, <2>4
  <2>6. call' = [call EXCEPT ![c] = r]
    BY <2>1, <1>c, <1>t DEF CallState
  <2>7. "stdin" \notin r.revents /\ r.program \in Programs
    BY <2>p, <1>c, <2>1, <2>2 DEF CallState
  <2>8. fd' \in [Fds -> Ends \cup {Nothing}]
    <3>1. <<c, p[2], "r">> \in Ends /\ <<c, p[2], "w">> \in Ends
      BY <2>2 DEF Ends
    <3> QED BY <3>1, <2>1, <2>3, <1>t
  <2>9. UNCHANGED <<pipe, child>>
    BY <2>1
  <2> QED BY <2>5, <2>6, <2>7, <2>8, <2>9, <1>c, <1>k, <1>t, CallStep
<1>3. ASSUME NEW c \in Calls, Refuse(c), call[c].pc \in BeforeFork PROVE Types'
  <2>1. PICK answer \in {Nothing, Result(71, call[c].got)} :
          call' = [call EXCEPT ![c].pc = "over", ![c].answer = answer]
    BY <1>3 DEF Refuse
  <2> DEFINE r == [call[c] EXCEPT !.pc = "over", !.answer = answer]
  <2>2. r \in CallState
    <3>1. answer \in [exit : Int, output : Said] \cup {Nothing}
      BY <1>c DEF CallState, Result
    <3>2. \A a \in [exit : Int, output : Said] \cup {Nothing}, l \in Labels :
            [call[c] EXCEPT !.pc = l, !.answer = a] \in CallState
      BY <1>c, ZenonT(40) DEF CallState
    <3>3. "over" \in Labels
      BY DEF Labels
    <3> QED BY <3>1, <3>2, <3>3
  <2>3. call' = [call EXCEPT ![c] = r]
    BY <2>1
  <2>4. "stdin" \notin r.revents /\ r.program \in Programs
    BY <1>3, <1>c DEF BeforeFork, CallState
  <2> QED BY <2>2, <2>3, <2>4, <1>3, <1>c, <1>k, <1>t, CallStep DEF Refuse
(* The actions that only go to another label *)
<1>g. ASSUME NEW c \in Calls, NEW l \in Labels \ {"idle"}, Goto(c, l), call[c].pc # "idle",
             "stdin" \notin call[c].revents, NEW k \in ChildState,
             child' = [child EXCEPT ![c] = k], fd' \in [Fds -> Ends \cup {Nothing}],
             UNCHANGED pipe
      PROVE  Types'
  <2> DEFINE r == [call[c] EXCEPT !.pc = l]
  <2>1. r \in CallState /\ "stdin" \notin r.revents /\ r.program \in Programs
    BY <1>c, <1>g DEF CallState
  <2>2. call' = [call EXCEPT ![c] = r]
    BY <1>g DEF Goto
  <2> QED BY <2>1, <2>2, <1>g, <1>t, CallStep
<1>4. ASSUME NEW c \in Calls, Fork(c) PROVE Types'
  <2> DEFINE says == call[c].program.says
             held == {fd[n] : n \in Fds \ Free}
                       \ {<<c, "stdin", "w">>, <<c, "stdout", "r">>, <<c, "stderr", "r">>}
             to_say == [i \in 1 .. Len(says) |-> <<says[i], c>>]
             k == [child[c] EXCEPT !.state = "running", !.held = held, !.to_say = to_say]
  <2>1. says \in Seq(Outputs)
    BY <1>c, <1>4 DEF Fork, IsProgram
  <2>2. held \in SUBSET Ends
    BY <1>t DEF Free
  <2>3. to_say \in Seq(Outputs \X Calls)
    BY <2>1
  <2>4. k \in ChildState
    <3> HIDE DEF held, to_say
    <3> QED BY <1>c, <2>2, <2>3 DEF ChildState
  <2>5. child' = [child EXCEPT ![c] = k]
    BY <1>4 DEF Fork
  <2>6. Goto(c, "close_others") /\ call[c].pc # "idle" /\ UNCHANGED <<fd, pipe>>
    BY <1>4 DEF Fork
  <2>7. "stdin" \notin call[c].revents
    BY <1>c, <1>4 DEF Fork
  <2> HIDE DEF k
  <2> QED BY <2>4, <2>5, <2>6, <2>7, <1>g, <1>t DEF Labels
<1>cl. ASSUME NEW S, Close(S) PROVE fd' \in [Fds -> Ends \cup {Nothing}]
  BY <1>cl, <1>t DEF Close
<1>5. ASSUME NEW c \in Calls, CloseOthers(c) \/ CloseOwn(c) PROVE Types'
  <2>1. fd' \in [Fds -> Ends \cup {Nothing}]
    BY <1>5, <1>cl DEF CloseOthers, CloseOwn
  <2>2. "stdin" \notin call[c].revents \/ call[c].pc = "poll"
    BY <1>c
  <2>3. UNCHANGED <<pipe, child>> /\ call[c].pc \in {"close_others", "close_own"}
    BY <1>5 DEF CloseOthers, CloseOwn
  <2>4. \E l \in {"poll", "wait"} : Goto(c, l)
    BY <1>5 DEF CloseOthers, CloseOwn
  <2> QED BY <2>1, <2>2, <2>3, <2>4, <1>c, <1>k, <1>g DEF Labels
<1>6. ASSUME NEW c \in Calls, Poll(c) PROVE Types'
  <2> DEFINE r == [call[c] EXCEPT !.revents = Ready(c)]
  <2>1. Ready(c) \subseteq Streams /\ ("stdin" \in Ready(c) => call[c].to_write \in Nat)
    BY <1>c DEF Ready, Streams, Outputs, CallState
  <2>2. r \in CallState
    BY <2>1, <1>c DEF CallState
  <2>3. call' = [call EXCEPT ![c] = r]
    BY <1>6 DEF Poll
  <2>4. /\ r.program \in Programs
        /\ r.pc = "poll"
        /\ "stdin" \in r.revents => r.to_write \in Nat
    BY <2>1, <1>6, <1>c DEF Poll, AtPoll, CallState
  <2>5. UNCHANGED <<fd, pipe, child>>
    BY <1>6 DEF Poll
  <2> HIDE DEF r
  <2> QED BY <2>2, <2>3, <2>4, <2>5, <1>c, <1>k, <1>t, CallStep
<1>7. ASSUME NEW c \in Calls, PollFails(c) PROVE Types'
  <2> DEFINE r == [call[c] EXCEPT !.status = -1, !.pc = "close_own"]
  <2>1. r \in CallState
    <3>1. \A n \in Int, l \in Labels : [call[c] EXCEPT !.status = n, !.pc = l] \in CallState
      BY <1>c DEF CallState
    <3>2. -1 \in Int /\ "close_own" \in Labels
      BY DEF Labels
    <3> QED BY <3>1, <3>2
  <2>2. call' = [call EXCEPT ![c] = r]
    BY <1>7 DEF PollFails
  <2>3. r.program \in Programs /\ "stdin" \notin r.revents
    BY <1>7, <1>c DEF PollFails, AtPoll, CallState
  <2>4. UNCHANGED <<fd, pipe, child>>
    BY <1>7 DEF PollFails
  <2> HIDE DEF r
  <2> QED BY <2>1, <2>2, <2>3, <2>4, <1>c, <1>k, <1>t, CallStep
<1>8. ASSUME NEW c \in Calls, LoopOver(c) PROVE Types'
  BY <1>8, <1>c, <1>k, <1>t, <1>g DEF LoopOver, AtPoll, Labels
<1>9. ASSUME NEW c \in Calls, NEW o \in Outputs, ReadPipe(c, o) PROVE Types'
  <2> DEFINE p == PipeAt(call[c].ends[o].r)
             S == call[c].revents \ {o}
             E == call[c].eof \cup {o}
             g == [call[c].got EXCEPT ![o] = Append(@, Head(pipe[p]))]
  <2>1. S \in SUBSET Streams /\ E \in SUBSET Outputs /\ ("stdin" \in S => "stdin" \in call[c].revents)
    BY <1>c DEF CallState
  <2>2. call[c].pc = "poll" /\ UNCHANGED <<fd, child>>
    BY <1>9 DEF ReadPipe
  <2>3. CASE /\ call' = [call EXCEPT ![c].revents = S]
             /\ UNCHANGED pipe
    <3> DEFINE r == [call[c] EXCEPT !.revents = S]
    <3>1. /\ r \in CallState
          /\ r.program = call[c].program
          /\ r.to_write = call[c].to_write
          /\ r.pc = "poll"
          /\ r.revents = S
      <4> HIDE DEF S
      <4> QED BY <1>c, <2>1, <2>2 DEF CallState
    <3>2. call' = [call EXCEPT ![c] = r]
      BY <2>3
    <3>3. pipe' \in [Calls \X Streams -> Seq(Calls)] /\ fd' \in [Fds -> Ends \cup {Nothing}]
      BY <2>2, <2>3, <1>t
    <3> HIDE DEF r, S
    <3> QED BY <3>1, <3>2, <3>3, <2>1, <2>2, <1>c, <1>k, CallStep
  <2>4. CASE /\ Open(call[c].ends[o].r) /\ pipe[p] # <<>>
             /\ call' = [call EXCEPT ![c].revents = S, ![c].got = g]
             /\ pipe' = [pipe EXCEPT ![p] = Tail(@)]
    <3> DEFINE r == [call[c] EXCEPT !.revents = S, !.got = g]
    <3>1. p \in Calls \X Streams
      BY <2>4, <1>p
    <3>2. Head(pipe[p]) \in Calls /\ Tail(pipe[p]) \in Seq(Calls)
      <4> HIDE DEF p
      <4> QED BY <2>4, <3>1, <1>t
    <3>3. g \in Said
      <4> HIDE DEF p
      <4> QED BY <3>2, <1>c DEF CallState, Said
    <3>4. /\ r \in CallState
          /\ r.program = call[c].program
          /\ r.to_write = call[c].to_write
          /\ r.pc = "poll"
          /\ r.revents = S
      <4> HIDE DEF S, g
      <4> QED BY <1>c, <2>1, <2>2, <3>3, ZenonT(40) DEF CallState
    <3>5. call' = [call EXCEPT ![c] = r]
      BY <2>4
    <3>6. pipe' \in [Calls \X Streams -> Seq(Calls)]
      <4> HIDE DEF p
      <4> QED BY <2>4, <3>1, <3>2, <1>t
    <3> HIDE DEF r, S, p, g
    <3> QED BY <3>4, <3>5, <3>6, <2>1, <2>2, <1>c, <1>k, <1>t, CallStep
  <2>5. CASE /\ call' = [call EXCEPT ![c].revents = S, ![c].eof = E]
             /\ UNCHANGED pipe
    <3> DEFINE r == [call[c] EXCEPT !.revents = S, !.eof = E]
    <3>1. /\ r \in CallState
          /\ r.program = call[c].program
          /\ r.to_write = call[c].to_write
          /\ r.pc = "poll"
          /\ r.revents = S
      <4> HIDE DEF S, E
      <4> QED BY <1>c, <2>1, <2>2, ZenonT(40) DEF CallState
    <3>2. call' = [call EXCEPT ![c] = r]
      BY <2>5
    <3>3. pipe' \in [Calls \X Streams -> Seq(Calls)] /\ fd' \in [Fds -> Ends \cup {Nothing}]
      BY <2>2, <2>5, <1>t
    <3> HIDE DEF r, S
    <3> QED BY <3>1, <3>2, <3>3, <2>1, <2>2, <1>c, <1>k, CallStep
  <2>6. \/ call' = [call EXCEPT ![c].revents = S] /\ UNCHANGED pipe
        \/ /\ Open(call[c].ends[o].r) /\ pipe[p] # <<>>
           /\ call' = [call EXCEPT ![c].revents = S, ![c].got = g]
           /\ pipe' = [pipe EXCEPT ![p] = Tail(@)]
        \/ call' = [call EXCEPT ![c].revents = S, ![c].eof = E] /\ UNCHANGED pipe
    <3>1. \/ call' = [call EXCEPT ![c].revents = @ \ {o}] /\ UNCHANGED pipe
          \/ /\ Open(call[c].ends[o].r) /\ pipe[p] # <<>>
             /\ call' = [call EXCEPT ![c].revents = @ \ {o},
                                     ![c].got[o] = Append(@, Head(pipe[p]))]
             /\ pipe' = [pipe EXCEPT ![p] = Tail(@)]
          \/ /\ call' = [call EXCEPT ![c].revents = @ \ {o}, ![c].eof = @ \cup {o}]
             /\ UNCHANGED pipe
      BY <1>9 DEF ReadPipe
    <3>2. /\ [call EXCEPT ![c].revents = @ \ {o}] = [call EXCEPT ![c].revents = S]
          /\ [call EXCEPT ![c].revents = @ \ {o}, ![c].eof = @ \cup {o}]
               = [call EXCEPT ![c].revents = S, ![c].eof = E]
      BY <1>t DEF CallState
    <3>3. [call EXCEPT ![c].revents = @ \ {o}, ![c].got[o] = Append(@, Head(pipe[p]))]
           = [call EXCEPT ![c].revents = S, ![c].got = g]
      BY <1>t DEF CallState
    <3> QED BY <3>1, <3>2, <3>3
  <2> QED BY <2>3, <2>4, <2>5, <2>6
<1>10. ASSUME NEW c \in Calls, WriteIn(c) PROVE Types'
  <2> DEFINE left == call[c].to_write
             n == call[c].ends["stdin"].w
             p == PipeAt(n)
             next == AfterWrite(left)
  <2>1. /\ call[c].pc = "poll" /\ call[c].revents = {"stdin"} /\ UNCHANGED child
        /\ left \in Nat /\ call[c].program \in Programs
    BY <1>10, <1>c DEF WriteIn
  <2>2. CASE /\ call' = [call EXCEPT ![c].revents = {}]
             /\ UNCHANGED <<fd, pipe>>
    <3> DEFINE r == [call[c] EXCEPT !.revents = {}]
    <3>1. r \in CallState /\ r.program \in Programs /\ r.revents = {}
      BY <1>c, <2>1 DEF CallState
    <3>2. call' = [call EXCEPT ![c] = r]
      BY <2>2
    <3>3. pipe' \in [Calls \X Streams -> Seq(Calls)] /\ fd' \in [Fds -> Ends \cup {Nothing}]
      BY <2>2, <1>t
    <3> HIDE DEF r
    <3> QED BY <3>1, <3>2, <3>3, <2>1, <1>c, <1>k, CallStep
  <2>3. CASE /\ Open(n)
             /\ pipe' = IF left = 0 THEN pipe ELSE [pipe EXCEPT ![p] = Append(@, c)]
             /\ call' = [call EXCEPT ![c].revents = {}, ![c].to_write = next]
             /\ CloseFed(n, left)
    <3> DEFINE r == [call[c] EXCEPT !.revents = {}, !.to_write = next]
    <3>1. next \in Nat \cup {Nothing}
      BY <2>1 DEF AfterWrite
    <3>2. r \in CallState /\ r.program \in Programs /\ r.revents = {}
      <4>1. \A x \in Nat \cup {Nothing} :
              [call[c] EXCEPT !.revents = {}, !.to_write = x] \in CallState
        BY <1>c, ZenonT(40) DEF CallState
      <4>2. r.program = call[c].program /\ r.revents = {}
        BY <1>c DEF CallState
      <4> HIDE DEF next
      <4> QED BY <4>1, <4>2, <2>1, <3>1
    <3>3. call' = [call EXCEPT ![c] = r]
      BY <2>3
    <3>4. p \in Calls \X Streams
      BY <2>3, <1>p
    <3>5. pipe' \in [Calls \X Streams -> Seq(Calls)]
      <4> HIDE DEF p
      <4> QED BY <2>3, <3>4, <1>t
    <3>6. fd' \in [Fds -> Ends \cup {Nothing}]
      BY <2>3, <1>cl, <1>t DEF CloseFed
    <3> HIDE DEF r
    <3> QED BY <3>2, <3>3, <3>5, <3>6, <2>1, <1>c, <1>k, <1>t, CallStep
  <2> QED BY <2>2, <2>3, <1>10 DEF WriteIn
<1>11. ASSUME NEW c \in Calls, Wait(c) PROVE Types'
  <2>1. /\ call[c].pc = "wait" /\ UNCHANGED <<fd, pipe>>
        /\ call[c].program \in Programs /\ "stdin" \notin call[c].revents
    BY <1>11, <1>c DEF Wait
  <2>2. CASE Goto(c, "answer") /\ UNCHANGED child
    BY <2>1, <2>2, <1>c, <1>k, <1>t, <1>g DEF Labels
  <2>3. CASE /\ child' = [child EXCEPT ![c].state = "reaped"]
             /\ call' = [call EXCEPT ![c].status = ExitStatus(call[c].program.ends),
                                     ![c].pc = "answer"]
    <3> DEFINE status == ExitStatus(call[c].program.ends)
               r == [call[c] EXCEPT !.status = status, !.pc = "answer"]
               k == [child[c] EXCEPT !.state = "reaped"]
    <3>1. status \in Int
      <4>1. IsProgram(call[c].program)
        BY <2>1
      <4> DEFINE end == call[c].program.ends
      <4>2. end.signaled \in BOOLEAN /\ end.code \in 0 .. 255
        BY <4>1 DEF IsProgram
      <4> HIDE DEF end
      <4>3. ExitStatus(end) \in Int
        BY <4>2 DEF ExitStatus
      <4> QED BY <4>3 DEF end
    <3>2. /\ r \in CallState
          /\ r.program = call[c].program
          /\ r.revents = call[c].revents
      <4> HIDE DEF status
      <4> QED BY <1>c, <3>1, ZenonT(40) DEF CallState, Labels
    <3>3. k \in ChildState
      BY <1>c DEF ChildState
    <3>4. call' = [call EXCEPT ![c] = r] /\ child' = [child EXCEPT ![c] = k]
      BY <2>3
    <3> HIDE DEF r, k
    <3> QED BY <3>2, <3>3, <3>4, <2>1, <1>t, CallStep
  <2> QED BY <2>2, <2>3, <1>11 DEF Wait
<1>12. ASSUME NEW c \in Calls, Answer(c) PROVE Types'
  <2> DEFINE answer == Result(call[c].status, call[c].got)
             r == [call[c] EXCEPT !.answer = answer, !.pc = "over"]
  <2>1. answer \in [exit : Int, output : Said]
    BY <1>c DEF Result, CallState
  <2>2. /\ r \in CallState
        /\ r.program = call[c].program
        /\ r.revents = call[c].revents
    <3> HIDE DEF answer
    <3> QED BY <1>c, <2>1, ZenonT(40) DEF CallState, Labels
  <2>3. /\ call' = [call EXCEPT ![c] = r] /\ call[c].pc = "answer"
        /\ UNCHANGED <<fd, pipe, child>>
    BY <1>12 DEF Answer
  <2> HIDE DEF r
  <2> QED BY <2>2, <2>3, <1>c, <1>k, <1>t, CallStep
(* The command changes its pipes and itself, and not its call. *)
<1>13. ASSUME NEW c \in Calls, Command(c) PROVE Types'
  <2>1. UNCHANGED <<fd, call>>
    BY <1>13 DEF Command, ChildReads, ChildSays, ChildEnds
  <2>k. ASSUME NEW k \in ChildState, child' = [child EXCEPT ![c] = k],
               pipe' \in [Calls \X Streams -> Seq(Calls)]
        PROVE  Types'
    BY <2>1, <2>k, <1>c, <1>l, <1>t, CallStep
  <2>2. CASE ChildReads(c)
    <3> DEFINE p == <<c, "stdin">>
               block == Head(pipe[p])
               k == [child[c] EXCEPT !.to_say = <<<<"stdout", block>>>>]
    <3>1. p \in Calls \X Streams
      BY DEF Streams
    <3>2. pipe[p] # <<>> /\ pipe' = [pipe EXCEPT ![p] = Tail(@)]
      BY <2>2 DEF ChildReads
    <3>3. pipe[p] \in Seq(Calls)
      BY <3>1, <1>t
    <3>4. block \in Calls /\ Tail(pipe[p]) \in Seq(Calls)
      <4> HIDE DEF p
      <4> QED BY <3>2, <3>3
    <3>5. <<<<"stdout", block>>>> \in Seq(Outputs \X Calls)
      <4> HIDE DEF block
      <4>1. <<"stdout", block>> \in Outputs \X Calls
        BY <3>4 DEF Outputs
      <4> QED BY <4>1
    <3>6. k \in ChildState
      <4>1. \A q \in Seq(Outputs \X Calls) : [child[c] EXCEPT !.to_say = q] \in ChildState
        BY <1>c DEF ChildState
      <4> QED BY <4>1, <3>5
    <3>7. child' = [child EXCEPT ![c] = k]
      BY <2>2 DEF ChildReads
    <3>8. pipe' \in [Calls \X Streams -> Seq(Calls)]
      <4> HIDE DEF p
      <4> QED BY <3>1, <3>2, <3>4, <1>t
    <3> HIDE DEF k
    <3> QED BY <3>6, <3>7, <3>8, <2>k
  <2>3. CASE ChildSays(c)
    <3> DEFINE o == child[c].to_say[1][1]
               block == child[c].to_say[1][2]
               p == <<c, o>>
    <3>1. child[c].to_say # <<>> /\ child[c].to_say \in Seq(Outputs \X Calls)
      BY <2>3, <1>c DEF ChildSays, ChildState
    <3>2. child[c].to_say[1] \in Outputs \X Calls
      BY <3>1
    <3>3. o \in Outputs /\ block \in Calls /\ p \in Calls \X Streams
      BY <3>2 DEF Streams
    <3>4. Tail(child[c].to_say) \in Seq(Outputs \X Calls)
      BY <3>1
    <3>5. CASE child' = [child EXCEPT ![c].to_say = Tail(@)] /\ UNCHANGED pipe
      <4> DEFINE k == [child[c] EXCEPT !.to_say = Tail(@)]
      <4>1. k \in ChildState
        BY <1>c, <3>4 DEF ChildState
      <4>2. child' = [child EXCEPT ![c] = k]
        BY <3>5
      <4> HIDE DEF k
      <4> QED BY <4>1, <4>2, <3>5, <2>k, <1>t
    <3>6. CASE /\ pipe' = [pipe EXCEPT ![p] = Append(@, block)]
               /\ child' = [child EXCEPT ![c].to_say = Tail(@),
                                         ![c].said[o] = Append(@, block)]
      <4> DEFINE g == [child[c].said EXCEPT ![o] = Append(@, block)]
                 q == Tail(child[c].to_say)
                 k == [child[c] EXCEPT !.to_say = q, !.said = g]
      <4>1. g \in Said
        <5> HIDE DEF o, block
        <5> QED BY <3>3, <1>c DEF ChildState, Said
      <4>2. k \in ChildState
        <5> HIDE DEF g, q
        <5> QED BY <1>c, <3>4, <4>1 DEF ChildState, q
      <4>3. child' = [child EXCEPT ![c] = k]
        <5>1. ASSUME NEW x \in Outputs, NEW y \in Calls
              PROVE  [child EXCEPT ![c].to_say = Tail(@), ![c].said[x] = Append(@, y)]
                     = [child EXCEPT ![c].to_say = Tail(child[c].to_say),
                                     ![c].said = [child[c].said EXCEPT ![x] = Append(@, y)]]
          BY <1>t DEF ChildState
        <5>2. child' = [child EXCEPT ![c].to_say = q, ![c].said = g]
          <6> HIDE DEF o, block
          <6> QED BY <5>1, <3>3, <3>6
        <5> HIDE DEF g, q
        <5> QED BY <5>2
      <4>4. pipe' \in [Calls \X Streams -> Seq(Calls)]
        <5> HIDE DEF p, block
        <5> QED BY <3>3, <3>6, <1>t
      <4> HIDE DEF k
      <4> QED BY <4>2, <4>3, <4>4, <2>k
    <3> QED BY <3>5, <3>6, <2>3 DEF ChildSays
  <2>4. CASE ChildEnds(c)
    <3> DEFINE k == [child[c] EXCEPT !.state = "zombie", !.held = {}]
    <3>1. k \in ChildState
      BY <1>c DEF ChildState
    <3>2. child' = [child EXCEPT ![c] = k] /\ UNCHANGED pipe
      BY <2>4 DEF ChildEnds
    <3> HIDE DEF k
    <3> QED BY <3>1, <3>2, <2>k, <1>t
  <2> QED BY <2>2, <2>3, <2>4, <1>13 DEF Command
<1>14. CASE UNCHANGED vars
  BY <1>14 DEF vars, Types, TypeOK, HasWork
<1>15. ASSUME NEW c \in Calls, PipeFails(c) \/ ForkFails(c) PROVE Types'
  BY <1>15, <1>3 DEF PipeFails, ForkFails, PipesAt, Pipes, BeforeFork
<1> QED BY <1>1, <1>2, <1>15, <1>4, <1>5, <1>6, <1>7, <1>8, <1>9, <1>10, <1>11, <1>12, <1>13,
           <1>14 DEF Next, SetUp, Serve, AllOver

-----------------------------------------------------------------------------
(* What a step of c does to what Known, Opened and HasChild speak of: to   *)
(* the table, and to its own label, numbers and child.                     *)
LEMMA OthersKept ==
  ASSUME Types, NEW c \in Calls, SetUp(c) \/ ForkFails(c) \/ Serve(c) \/ PollFails(c)
                                  \/ Command(c) \/ Start(c),
         NEW d \in Calls, d # c
  PROVE  /\ call'[d].pc = call[d].pc
         /\ call'[d].ends = call[d].ends
         /\ child'[d].state = child[d].state
<1>1. call \in [Calls -> CallState] /\ child \in [Calls -> ChildState]
  BY DEF Types, TypeOK
<1>2. SetUp(c) \/ ForkFails(c) \/ Start(c) => call'[d] = call[d] /\ child'[d] = child[d]
  BY <1>1 DEF SetUp, ForkFails, Start, OpenPipe, PipeFails, Refuse, Fork, Goto
<1>3. Serve(c) \/ PollFails(c) => call'[d] = call[d] /\ child'[d] = child[d]
  BY <1>1 DEF Serve, PollFails, CloseOthers, CloseOwn, Poll, LoopOver, ReadPipe, WriteIn, Wait,
              Answer, Goto
<1>4. Command(c) => call'[d] = call[d] /\ child'[d] = child[d]
  BY <1>1 DEF Command, ChildReads, ChildSays, ChildEnds
<1> QED BY <1>2, <1>3, <1>4

(* The table after a step that opens nothing *)
Fewer == \A n \in Fds : fd'[n] \in {fd[n], Nothing}

LEMMA FewerEnds ==
  ASSUME Types, NEW c \in Calls,
         Start(c) \/ PipeFails(c) \/ ForkFails(c) \/ Fork(c) \/ Serve(c) \/ PollFails(c) \/ Command(c)
  PROVE  Fewer /\ call'[c].ends = call[c].ends
<1>1. call \in [Calls -> CallState] /\ fd \in [Fds -> Ends \cup {Nothing}]
  BY DEF Types, TypeOK
<1>2. ASSUME NEW S, Close(S) PROVE Fewer
  BY <1>2, <1>1 DEF Close, Fewer
<1>3. ASSUME UNCHANGED fd PROVE Fewer
  BY <1>3 DEF Fewer
<1>4. Fewer
  BY <1>2, <1>3 DEF Start, PipeFails, ForkFails, Refuse, Fork, Serve, PollFails, CloseOthers,
     CloseOwn, Poll, LoopOver, ReadPipe, WriteIn, CloseFed, Wait, Answer, Command, ChildReads,
     ChildSays, ChildEnds
<1>5. call[c] \in CallState
  BY <1>1
<1>6. ASSUME Start(c) PROVE call'[c].ends = call[c].ends
  <2>1. PICK program \in Programs, in_str \in Inputs :
          call' = [call EXCEPT ![c].pc = "pipe_stdout",
                               ![c].program = program,
                               ![c].in_str = in_str,
                               ![c].to_write = in_str]
    BY <1>6 DEF Start
  <2> QED BY <2>1, <1>1, <1>5 DEF CallState
<1>7. PipeFails(c) \/ ForkFails(c) => call'[c].ends = call[c].ends
  BY <1>1, <1>5 DEF PipeFails, ForkFails, Refuse, CallState
<1>8. \A l : Goto(c, l) => call'[c].ends = call[c].ends
  BY <1>1, <1>5 DEF Goto, CallState
<1>9. Fork(c) \/ CloseOthers(c) \/ CloseOwn(c) \/ LoopOver(c) => call'[c].ends = call[c].ends
  BY <1>8 DEF Fork, CloseOthers, CloseOwn, LoopOver
<1>10. Poll(c) \/ PollFails(c) => call'[c].ends = call[c].ends
  BY <1>1, <1>5 DEF Poll, PollFails, CallState
<1>11. ASSUME NEW o \in Outputs, ReadPipe(c, o) PROVE call'[c].ends = call[c].ends
  BY <1>11, <1>1, <1>5 DEF ReadPipe, CallState
<1>12. WriteIn(c) => call'[c].ends = call[c].ends
  BY <1>1, <1>5 DEF WriteIn, CallState
<1>13. Wait(c) \/ Answer(c) => call'[c].ends = call[c].ends
  BY <1>1, <1>5, <1>8 DEF Wait, Answer, CallState
<1>14. Command(c) => call'[c].ends = call[c].ends
  BY DEF Command, ChildReads, ChildSays, ChildEnds
<1> QED BY <1>4, <1>6, <1>7, <1>9, <1>10, <1>11, <1>12, <1>13, <1>14 DEF Serve

(* A step of c that opens nothing keeps the invariants, if it keeps them   *)
(* for the new label of c.                                                 *)
OpenedAt(c) == \A n \in Fds :
  /\ call[c].pc \in {"idle", "pipe_stdout"} => Absent(n, c, Streams)
  /\ call[c].pc = "pipe_stdin" => Absent(n, c, {"stdin", "stderr"})
  /\ call[c].pc = "pipe_stderr" => Absent(n, c, {"stderr"})
  /\ call[c].pc \in {"poll", "close_own"} =>
       fd[n] \notin {<<c, "stdin", "r">>, <<c, "stdout", "w">>, <<c, "stderr", "w">>}
  /\ \/ call[c].pc \in {"wait", "answer"}
     \/ call[c].pc = "over" /\ child[c].state # "none"
     => Absent(n, c, Streams)

HasChildAt(c) == /\ call[c].pc \in BeforeFork \cup {"idle"} => child[c].state = "none"
                 /\ call[c].pc \in Served => child[c].state # "none"

LEMMA Nothings == \A c \in Calls, s \in Streams, side \in {"r", "w"} : Nothing # <<c, s, side>>
BY ShellAssumption

LEMMA FewerKeeps ==
  ASSUME IInv, NEW c \in Calls, Fewer,
         \A d \in Calls : call'[d].ends = call[d].ends,
         \A d \in Calls \ {c} : call'[d].pc = call[d].pc /\ child'[d].state = child[d].state,
         OpenedAt(c)', HasChildAt(c)'
  PROVE  Known' /\ Opened' /\ HasChild'
<1>1. Known'
  <2>1. \A n \in Fds, d \in Calls, s \in Streams :
          /\ fd'[n] = <<d, s, "r">> => fd[n] = <<d, s, "r">>
          /\ fd'[n] = <<d, s, "w">> => fd[n] = <<d, s, "w">>
    BY Nothings DEF Fewer
  <2>2. Known
    BY DEF IInv
  <2> QED BY <2>1, <2>2 DEF Known
<1>2. ASSUME NEW d \in Calls \ {c} PROVE OpenedAt(d)'
  <2>1. OpenedAt(d)
    BY DEF IInv, Opened, OpenedAt
  <2>2. \A n \in Fds, S \in SUBSET Streams : Absent(n, d, S) => Absent(n, d, S)'
    BY Nothings DEF Absent, Fewer
  <2>3. {"stdin", "stderr"} \in SUBSET Streams /\ {"stderr"} \in SUBSET Streams /\ "stdout" \in Streams
    BY DEF Streams, Outputs
  <2>4. \A n \in Fds : fd[n] \notin {<<d, "stdin", "r">>, <<d, "stdout", "w">>, <<d, "stderr", "w">>}
                    => fd'[n] \notin {<<d, "stdin", "r">>, <<d, "stdout", "w">>, <<d, "stderr", "w">>}
    BY <2>3, Nothings DEF Fewer
  <2> QED BY <2>1, <2>2, <2>3, <2>4 DEF OpenedAt
<1>3. Opened'
  BY <1>2 DEF Opened, OpenedAt
<1>4. HasChild'
  BY DEF IInv, HasChild, HasChildAt
<1> QED BY <1>1, <1>3, <1>4

LEMMA SafetyInductive == ASSUME IInv, [Next]_vars PROVE Known' /\ Opened' /\ HasChild'
<1>t. /\ Types /\ Known /\ Opened /\ HasChild
      /\ fd \in [Fds -> Ends \cup {Nothing}]
      /\ call \in [Calls -> CallState]
      /\ child \in [Calls -> ChildState]
  BY DEF IInv, Types, TypeOK
<1>s. {"stdin", "stdout", "stderr"} = Streams
  BY DEF Streams, Outputs
<1>c. ASSUME NEW c \in Calls
      PROVE call[c] \in CallState /\ child[c] \in ChildState /\ OpenedAt(c) /\ HasChildAt(c)
  BY <1>t DEF Opened, OpenedAt, HasChild, HasChildAt
(* The steps but OpenPipe *)
<1>k. ASSUME NEW c \in Calls,
             Start(c) \/ PipeFails(c) \/ ForkFails(c) \/ Fork(c) \/ Serve(c) \/ PollFails(c)
               \/ Command(c),
             OpenedAt(c)', HasChildAt(c)'
      PROVE  Known' /\ Opened' /\ HasChild'
  <2>1. Fewer /\ call'[c].ends = call[c].ends
    BY <1>k, <1>t, FewerEnds
  <2>2. ASSUME NEW d \in Calls \ {c}
        PROVE  /\ call'[d].ends = call[d].ends
               /\ call'[d].pc = call[d].pc
               /\ child'[d].state = child[d].state
    BY <1>k, <1>t, OthersKept DEF SetUp
  <2> QED BY <2>1, <2>2, <1>k, FewerKeeps
<1>a. ASSUME NEW c \in Calls, UNCHANGED fd
      PROVE  \A n \in Fds : \A S : Absent(n, c, S)' <=> Absent(n, c, S)
  BY <1>a DEF Absent
<1>1. ASSUME NEW c \in Calls, Start(c) PROVE Known' /\ Opened' /\ HasChild'
  <2>1. UNCHANGED <<fd, child>> /\ call[c].pc = "idle"
    BY <1>1 DEF Start
  <2>2. call'[c].pc = "pipe_stdout"
    <3>1. PICK program \in Programs, in_str \in Inputs :
          call' = [call EXCEPT ![c].pc = "pipe_stdout",
                               ![c].program = program,
                               ![c].in_str = in_str,
                               ![c].to_write = in_str]
      BY <1>1 DEF Start
    <3> QED BY <3>1, <1>t, <1>c DEF CallState
  <2>3. OpenedAt(c)' /\ HasChildAt(c)'
    BY <2>1, <2>2, <1>c, <1>a DEF OpenedAt, HasChildAt, Served, BeforeFork
  <2> QED BY <2>3, <1>1, <1>k
<1>2. ASSUME NEW c \in Calls, PipeFails(c) \/ ForkFails(c) PROVE Known' /\ Opened' /\ HasChild'
  <2>1. UNCHANGED <<fd, child>> /\ call[c].pc \in BeforeFork
    BY <1>2 DEF PipeFails, ForkFails, Refuse, PipesAt, Pipes, BeforeFork
  <2>2. call'[c].pc = "over"
    BY <1>2, <1>t, <1>c DEF PipeFails, ForkFails, Refuse, CallState
  <2>3. OpenedAt(c)' /\ HasChildAt(c)'
    BY <2>1, <2>2, <1>c DEF OpenedAt, HasChildAt, Served, BeforeFork
  <2> QED BY <2>3, <1>2, <1>k
<1>3. ASSUME NEW c \in Calls, Fork(c) PROVE Known' /\ Opened' /\ HasChild'
  <2>1. call'[c].pc = "close_others"
    BY <1>3, <1>t, <1>c DEF Fork, Goto, CallState
  <2>2. child'[c].state = "running"
    BY <1>3, <1>t, <1>c DEF Fork, ChildState
  <2>3. OpenedAt(c)' /\ HasChildAt(c)'
    BY <2>1, <2>2 DEF OpenedAt, HasChildAt, Served, BeforeFork
  <2> QED BY <2>3, <1>3, <1>k
<1>4. ASSUME NEW c \in Calls, CloseOthers(c) PROVE Known' /\ Opened' /\ HasChild'
  <2>1. call'[c].pc = "poll" /\ child'[c].state = child[c].state /\ call[c].pc = "close_others"
    BY <1>4, <1>t, <1>c DEF CloseOthers, Goto, CallState
  <2>2. ASSUME NEW n \in Fds
        PROVE  fd'[n] \notin {<<c, "stdin", "r">>, <<c, "stdout", "w">>, <<c, "stderr", "w">>}
    <3>1. fd[n] \in {<<c, "stdin", "r">>, <<c, "stdout", "w">>, <<c, "stderr", "w">>}
            => n \in {call[c].ends["stdin"].r, call[c].ends["stdout"].w, call[c].ends["stderr"].w}
      BY <1>s, <1>t DEF Known
    <3>2. fd'[n] = IF n \in {call[c].ends["stdin"].r, call[c].ends["stdout"].w,
                             call[c].ends["stderr"].w} THEN Nothing ELSE fd[n]
      BY <1>4 DEF CloseOthers, Close
    <3> QED BY <3>1, <3>2, <1>s, Nothings
  <2>3. OpenedAt(c)' /\ HasChildAt(c)'
    BY <2>1, <2>2, <1>c DEF OpenedAt, HasChildAt, Served, BeforeFork
  <2> QED BY <2>3, <1>4, <1>k DEF Serve
<1>5. ASSUME NEW c \in Calls, CloseOwn(c) PROVE Known' /\ Opened' /\ HasChild'
  <2>1. call'[c].pc = "wait" /\ child'[c].state = child[c].state /\ call[c].pc = "close_own"
    BY <1>5, <1>t, <1>c DEF CloseOwn, Goto, CallState
  <2>2. ASSUME NEW n \in Fds PROVE Absent(n, c, Streams)'
    <3> DEFINE own == {call[c].ends["stdin"].w, call[c].ends["stdout"].r, call[c].ends["stderr"].r}
    <3>1. fd[n] \notin {<<c, "stdin", "r">>, <<c, "stdout", "w">>, <<c, "stderr", "w">>}
      BY <2>1, <1>c DEF OpenedAt
    <3>2. fd[n] \in {<<c, "stdin", "w">>, <<c, "stdout", "r">>, <<c, "stderr", "r">>} => n \in own
      BY <1>s, <1>t DEF Known
    <3>3. fd'[n] = IF n \in own THEN Nothing ELSE fd[n]
      BY <1>5 DEF CloseOwn, Close
    <3>4. \A s \in Streams : fd'[n] # <<c, s, "r">> /\ fd'[n] # <<c, s, "w">>
      <4> HIDE DEF own
      <4> QED BY <3>1, <3>2, <3>3, <1>s, Nothings
    <3> QED BY <3>4 DEF Absent
  <2>3. OpenedAt(c)' /\ HasChildAt(c)'
    BY <2>1, <2>2, <1>c DEF OpenedAt, HasChildAt, Served, BeforeFork
  <2> QED BY <2>3, <1>5, <1>k DEF Serve
(* The loop opens nothing, and ends in close_own. *)
<1>6. ASSUME NEW c \in Calls,
             \/ Poll(c) \/ PollFails(c) \/ LoopOver(c) \/ WriteIn(c)
             \/ \E o \in Outputs : ReadPipe(c, o)
      PROVE Known' /\ Opened' /\ HasChild'
  <2>1. call[c].pc = "poll" /\ UNCHANGED child
    BY <1>6 DEF Poll, PollFails, LoopOver, AtPoll, WriteIn, ReadPipe
  <2>2. call'[c].pc \in {"poll", "close_own"}
    <3>1. Poll(c) \/ PollFails(c) => call'[c].pc \in {"poll", "close_own"}
      BY <2>1, <1>t, <1>c DEF Poll, PollFails, CallState
    <3>2. LoopOver(c) => call'[c].pc \in {"poll", "close_own"}
      BY <2>1, <1>t, <1>c DEF LoopOver, Goto, CallState
    <3>3. WriteIn(c) => call'[c].pc \in {"poll", "close_own"}
      BY <2>1, <1>t, <1>c DEF WriteIn, CallState
    <3>4. ASSUME NEW o \in Outputs, ReadPipe(c, o) PROVE call'[c].pc \in {"poll", "close_own"}
      BY <3>4, <2>1, <1>t, <1>c DEF ReadPipe, CallState
    <3> QED BY <3>1, <3>2, <3>3, <3>4, <1>6
  <2>3. Fewer
    BY <1>6, <1>t, FewerEnds DEF Serve
  <2>4. ASSUME NEW n \in Fds
        PROVE  fd'[n] \notin {<<c, "stdin", "r">>, <<c, "stdout", "w">>, <<c, "stderr", "w">>}
    BY <2>1, <2>3, <1>c, <1>s, Nothings DEF OpenedAt, Fewer
  <2>5. OpenedAt(c)' /\ HasChildAt(c)'
    BY <2>1, <2>2, <2>4, <1>c DEF OpenedAt, HasChildAt, Served, BeforeFork
  <2> QED BY <2>5, <1>6, <1>k DEF Serve
<1>7. ASSUME NEW c \in Calls, Wait(c) \/ Answer(c) PROVE Known' /\ Opened' /\ HasChild'
  <2>1. call[c].pc \in {"wait", "answer"} /\ UNCHANGED fd
    BY <1>7 DEF Wait, Answer
  <2>2. call'[c].pc \in {"answer", "over"}
    BY <1>7, <1>t, <1>c DEF Wait, Answer, Goto, CallState
  <2>3. child'[c].state # "none"
    <3>1. child[c].state # "none"
      BY <2>1, <1>c DEF HasChildAt, Served
    <3> QED BY <3>1, <1>7, <1>t, <1>c DEF Wait, Answer, ChildState
  <2>4. OpenedAt(c)' /\ HasChildAt(c)'
    BY <2>1, <2>2, <2>3, <1>c, <1>a DEF OpenedAt, HasChildAt, Served, BeforeFork
  <2> QED BY <2>4, <1>7, <1>k DEF Serve
<1>8. ASSUME NEW c \in Calls, Command(c) PROVE Known' /\ Opened' /\ HasChild'
  <2>1. UNCHANGED <<fd, call>> /\ child[c].state = "running"
    BY <1>8 DEF Command, ChildReads, ChildSays, ChildEnds
  <2>2. child'[c].state # "none"
    <3>1. ChildReads(c) => child'[c].state = "running"
      BY <2>1, <1>t, <1>c DEF ChildReads, ChildState
    <3>3. ChildSays(c) => child'[c].state = "running"
      <4>1. ChildSays(c) => \/ child' = [child EXCEPT ![c].to_say = Tail(@)]
                           \/ \E o, block : child' = [child EXCEPT ![c].to_say = Tail(@),
                                                    ![c].said[o] = Append(@, block)]
        BY DEF ChildSays
      <4> QED BY <4>1, <2>1, <1>t, <1>c DEF ChildState
    <3>2. ChildEnds(c) => child'[c].state = "zombie"
      BY <1>t, <1>c DEF ChildEnds, ChildState
    <3> QED BY <3>1, <3>2, <3>3, <1>8 DEF Command
  <2>3. OpenedAt(c)' /\ HasChildAt(c)'
    BY <2>1, <2>2, <1>c, <1>a DEF OpenedAt, HasChildAt, Served, BeforeFork
  <2> QED BY <2>3, <1>8, <1>k
(* pipe opens two ends that were not open, at numbers that were free. *)
<1>9. ASSUME NEW c \in Calls, OpenPipe(c) PROVE Known' /\ Opened' /\ HasChild'
  <2>1. PICK p \in PipesAt(c), n \in Free, m \in Free : OpenPipe(c)!(p, n, m)
    BY <1>9 DEF OpenPipe
  <2>p. p \in Pipes /\ call[c].pc = p[1]
    BY DEF PipesAt
  <2> DEFINE s == p[2]
  <2>2. /\ n \in Fds /\ m \in Fds /\ n # m /\ fd[n] = Nothing /\ fd[m] = Nothing
        /\ fd' = [fd EXCEPT ![n] = <<c, s, "r">>, ![m] = <<c, s, "w">>]
        /\ UNCHANGED child
    BY <2>1 DEF Free, IsLeast
  <2>3. /\ call'[c].pc = p[3]
        /\ call'[c].ends = [call[c].ends EXCEPT ![s] = [r |-> n, w |-> m]]
    BY <2>1, <1>t, <1>c DEF CallState
  <2>4. s \in Streams
    BY <2>p DEF Pipes, Streams, Outputs
  <2>5. ASSUME NEW i \in Fds PROVE Absent(i, c, {s})
    BY <2>p, <2>1, <1>c, <2>4 DEF OpenedAt, Pipes, Absent
  <2>6. ASSUME NEW d \in Calls \ {c}
        PROVE  /\ call'[d].pc = call[d].pc
               /\ call'[d].ends = call[d].ends
    BY <1>9, <1>t, OthersKept DEF SetUp
  <2>7. \A i \in Fds : fd'[i] = IF i = n THEN <<c, s, "r">> ELSE IF i = m THEN <<c, s, "w">> ELSE fd[i]
    BY <2>2, <1>t
  <2>8. Known'
    <3>1. /\ call'[c].ends[s].r = n
          /\ call'[c].ends[s].w = m
          /\ \A u \in Streams \ {s} : call'[c].ends[u] = call[c].ends[u]
      BY <2>3, <2>4, <1>c DEF CallState
    <3> HIDE DEF s
    <3>2. ASSUME NEW i \in Fds \ {n, m}, NEW d \in Calls, NEW u \in Streams, NEW side \in {"r", "w"},
                 fd[i] = <<d, u, side>>
          PROVE  call'[d].ends[u] = call[d].ends[u]
      <4>1. CASE d = c
        <5>1. u # s
          BY <4>1, <3>2, <2>4, <2>5 DEF Absent
        <5> QED BY <4>1, <5>1, <3>1
      <4>2. CASE d # c
        BY <4>2, <2>6
      <4> QED BY <4>1, <4>2
    <3>3. ASSUME NEW i \in Fds, NEW d \in Calls, NEW u \in Streams,
                 fd'[i] = <<d, u, "r">>
          PROVE  call'[d].ends[u].r = i
      <4>1. CASE i = n
        <5>1. d = c /\ u = s
          BY <4>1, <3>3, <2>7
        <5> QED BY <4>1, <5>1, <3>1
      <4>2. CASE i # n
        <5>1. i # m /\ fd[i] = <<d, u, "r">>
          BY <4>2, <3>3, <2>7
        <5>2. call[d].ends[u].r = i
          BY <5>1, <1>t DEF Known
        <5> QED BY <4>2, <5>1, <5>2, <3>2
      <4> QED BY <4>1, <4>2
    <3>4. ASSUME NEW i \in Fds, NEW d \in Calls, NEW u \in Streams,
                 fd'[i] = <<d, u, "w">>
          PROVE  call'[d].ends[u].w = i
      <4>1. CASE i = m
        <5>1. d = c /\ u = s
          <6>1. n # m
            BY <2>2
          <6> QED BY <6>1, <4>1, <3>4, <2>7
        <5> QED BY <4>1, <5>1, <3>1
      <4>2. CASE i # m
        <5>1. i # n /\ fd[i] = <<d, u, "w">>
          BY <4>2, <3>4, <2>7
        <5>2. call[d].ends[u].w = i
          BY <5>1, <1>t DEF Known
        <5> QED BY <4>2, <5>1, <5>2, <3>2
      <4> QED BY <4>1, <4>2
    <3> QED BY <3>3, <3>4 DEF Known
  <2>9. OpenedAt(c)' /\ HasChildAt(c)'
    <3>n. child'[c].state = "none"
      <4>1. call[c].pc \in BeforeFork
        BY <2>p, <2>1 DEF Pipes, BeforeFork
      <4> QED BY <4>1, <2>2, <1>c DEF HasChildAt
    <3>1. ASSUME NEW i \in Fds, NEW S, NEW R, Absent(i, c, S), R = S \ {s} PROVE Absent(i, c, R)'
      BY <3>1, <2>7 DEF Absent
    <3>2. CASE p = <<"pipe_stdout", "stdout", "pipe_stdin">>
      <4>1. {"stdin", "stderr"} = Streams \ {s}
        BY <3>2, <1>s
      <4>2. \A i \in Fds : Absent(i, c, {"stdin", "stderr"})'
        BY <2>p, <4>1, <3>1, <3>2, <2>1, <1>c DEF OpenedAt
      <4>3. call'[c].pc = "pipe_stdin"
        BY <3>2, <2>3
      <4> QED BY <4>2, <4>3, <3>n DEF OpenedAt, HasChildAt, Served, BeforeFork
    <3>3. CASE p = <<"pipe_stdin", "stdin", "pipe_stderr">>
      <4>1. {"stderr"} = {"stdin", "stderr"} \ {s}
        BY <3>3
      <4>2. \A i \in Fds : Absent(i, c, {"stderr"})'
        BY <2>p, <4>1, <3>1, <3>3, <2>1, <1>c DEF OpenedAt
      <4>3. call'[c].pc = "pipe_stderr"
        BY <3>3, <2>3
      <4> QED BY <4>2, <4>3, <3>n DEF OpenedAt, HasChildAt, Served, BeforeFork
    <3>4. CASE p = <<"pipe_stderr", "stderr", "fork">>
      <4>1. call'[c].pc = "fork"
        BY <3>4, <2>3
      <4> QED BY <4>1, <3>n DEF OpenedAt, HasChildAt, Served, BeforeFork
    <3> QED BY <2>p, <3>2, <3>3, <3>4 DEF Pipes
  <2>10. ASSUME NEW d \in Calls \ {c} PROVE OpenedAt(d)' /\ HasChildAt(d)'
    <3>1. \A i \in Fds : \A S : Absent(i, d, S) => Absent(i, d, S)'
      BY <2>7 DEF Absent
    <3>2. \A i \in Fds : fd[i] \notin {<<d, "stdin", "r">>, <<d, "stdout", "w">>, <<d, "stderr", "w">>}
                    => fd'[i] \notin {<<d, "stdin", "r">>, <<d, "stdout", "w">>, <<d, "stderr", "w">>}
      BY <2>7
    <3> QED BY <3>1, <3>2, <2>2, <2>6, <1>c DEF OpenedAt, HasChildAt
  <2> QED BY <2>8, <2>9, <2>10 DEF Opened, OpenedAt, HasChild, HasChildAt
<1>10. CASE UNCHANGED vars
  BY <1>10, <1>t DEF vars, Known, Opened, Absent, HasChild
<1> QED BY <1>1, <1>2, <1>3, <1>4, <1>5, <1>6, <1>7, <1>8, <1>9, <1>10 DEF Next, SetUp, Serve, AllOver

-----------------------------------------------------------------------------
LEMMA Invariant == Spec => []IInv
<1>1. ASSUME IInv, [Next]_vars PROVE IInv'
  BY <1>1, TypesInductive, SafetyInductive DEF IInv
<1> QED BY <1>1, InitInv, PTL DEF Spec

(* The types hold of every script, careful or not, whatever fails. *)
THEOREM ShellTypes == Spec => []TypeOK
<1>1. IInv => TypeOK
  BY DEF IInv, Types
<1> QED BY <1>1, Invariant, PTL

(* wait_for_child and process_child_pipes leave no end of their pipes      *)
(* open, although they close one of them twice, whatever else the process  *)
(* opens and closes meanwhile, and whether or not poll fails.              *)
THEOREM ShellLeaksNothing == Spec => []NothingLeaks
<1>1. IInv => NothingLeaks
  <2> SUFFICES ASSUME IInv, NEW c \in Calls, Over(c), ~Refused(c), NEW n \in Fds, Open(n)
               PROVE  fd[n][1] # c
    BY DEF NothingLeaks
  <2>1. Absent(n, c, Streams)
    BY DEF IInv, Opened, Over, Refused
  <2>2. fd[n] \in Ends
    BY DEF IInv, Types, TypeOK, Open
  <2>3. PICK d \in Calls, s \in Streams, side \in {"r", "w"} : fd[n] = <<d, s, side>>
    BY <2>2 DEF Ends
  <2> QED BY <2>1, <2>3 DEF Absent
<1> QED BY <1>1, Invariant, PTL
-----------------------------------------------------------------------------
(* Careful scripts: while a call feeds its command, nobody else opens pipes. *)
Feeding(c) == call[c].in_str # Nothing /\ call[c].pc \notin {"idle", "over"}
Alone == \A c, d \in Calls : c # d /\ Feeding(c) =>
           call[d].pc \in {"idle", "over"} \/ child[d].state # "none"

(* The ends a call uses or closes are its own; the one it fed its command  *)
(* through is closed already when all is written, and stays so.            *)
HoldsR(c, s) == call[c].ends[s].r \in Fds /\ fd[call[c].ends[s].r] = <<c, s, "r">>
HoldsW(c, s) == call[c].ends[s].w \in Fds /\ fd[call[c].ends[s].w] = <<c, s, "w">>
HoldsBoth(c, S) == \A s \in S : HoldsR(c, s) /\ HoldsW(c, s)
Fed(c) == call[c].in_str # Nothing /\ call[c].to_write = Nothing
Feeds(c) == IF Fed(c) THEN /\ call[c].ends["stdin"].w \in Fds
                           /\ fd[call[c].ends["stdin"].w] = Nothing
            ELSE HoldsW(c, "stdin")
HoldsAt(c) ==
  /\ call[c].to_write # Nothing => call[c].in_str # Nothing
  /\ call[c].pc \in BeforeFork \cup {"close_others"} => call[c].to_write = call[c].in_str
  /\ call[c].pc = "pipe_stdin" => HoldsBoth(c, {"stdout"})
  /\ call[c].pc = "pipe_stderr" => HoldsBoth(c, {"stdout", "stdin"})
  /\ call[c].pc \in {"fork", "close_others"} => HoldsBoth(c, Streams)
  /\ call[c].pc \in {"poll", "close_own"} =>
       HoldsR(c, "stdout") /\ HoldsR(c, "stderr") /\ Feeds(c)

(* What a command said has been read or is in its pipe, which it holds     *)
(* while it runs.                                                          *)
HeardAt(c) == \A o \in Outputs :
  /\ child[c].state = "running" => <<c, o, "w">> \in child[c].held
  /\ child[c].said[o] = call[c].got[o] \o pipe[<<c, o>>]
  /\ child[c].state = "none" => call[c].got[o] = <<>>
  /\ o \in call[c].eof => pipe[<<c, o>>] = <<>> /\ child[c].state \in {"zombie", "reaped"}

(* What a call has learnt of its command; -1 stands for a poll that failed. *)
LearntAt(c) ==
  /\ ~Over(c) => call[c].answer = Nothing
  /\ call[c].pc \in {"close_own", "wait"} /\ call[c].status # -1 => call[c].eof = Outputs
  /\ call[c].pc = "answer" /\ call[c].status # -1 =>
       /\ call[c].eof = Outputs
       /\ child[c].state = "reaped"
       /\ call[c].status = ExitStatus(call[c].program.ends)
  /\ call[c].pc \notin {"close_own", "wait", "answer", "over"} => call[c].status = 0

Holds == \A c \in Calls : HoldsAt(c)
Heard == \A c \in Calls : HeardAt(c)
Learnt == \A c \in Calls : LearntAt(c)
CareInv == Alone /\ Holds /\ Heard /\ Learnt

LEMMA CareStarts == Init => CareInv
<1> SUFFICES ASSUME Init PROVE CareInv
  OBVIOUS
<1>1. Alone /\ Holds
  BY DEF Init, Alone, Feeding, Holds, HoldsAt, BeforeFork
<1>2. ASSUME NEW c \in Calls, NEW o \in Outputs
      PROVE  child[c].said[o] = call[c].got[o] \o pipe[<<c, o>>]
  <2>1. child[c].said[o] = <<>> /\ call[c].got[o] = <<>>
    BY DEF Init
  <2>2. pipe[<<c, o>>] = <<>>
    BY DEF Init, Streams
  <2> QED BY <2>1, <2>2
<1>3. Heard
  BY <1>2 DEF Init, Heard, HeardAt
<1>4. Learnt
  BY DEF Init, Learnt, LearntAt, Over
<1> QED BY <1>1, <1>3, <1>4 DEF CareInv
-----------------------------------------------------------------------------
(* What the steps of a call do to its state *)
Told(c) == <<call[c].eof, call[c].got>>
Order(c) == <<call[c].program, call[c].in_str, call[c].to_write, call[c].ends>>
Ways(c) == <<call[c].status, call[c].answer>>

LEMMA Moves ==
  ASSUME Types, NEW c \in Calls
  PROVE  /\ \A l : Goto(c, l) => call'[c].pc = l /\ UNCHANGED <<Told(c), Order(c), Ways(c)>>
         /\ Poll(c) => UNCHANGED <<call[c].pc, Told(c), Order(c), Ways(c)>>
         /\ PollFails(c) => /\ call'[c].pc = "close_own" /\ call'[c].status = -1
                            /\ UNCHANGED <<Told(c), Order(c), call[c].answer>>
         /\ WriteIn(c) => /\ UNCHANGED <<call[c].pc, Told(c), Ways(c), call[c].program,
                                         call[c].in_str, call[c].ends>>
                          /\ call'[c].to_write \in {call[c].to_write, AfterWrite(call[c].to_write)}
         /\ Answer(c) => /\ call'[c].pc = "over"
                         /\ call'[c].answer = Result(call[c].status, call[c].got)
                         /\ UNCHANGED <<Told(c), Order(c), call[c].status>>
         /\ PipeFails(c) \/ ForkFails(c) =>
              /\ call[c].pc \in BeforeFork /\ call'[c].pc = "over"
              /\ call'[c].answer \in {Nothing, Result(71, call[c].got)}
              /\ UNCHANGED <<Told(c), Order(c), call[c].status>>
<1>1. call \in [Calls -> CallState] /\ call[c] \in CallState
  BY DEF Types, TypeOK
<1>2. ASSUME NEW l, Goto(c, l)
      PROVE  call'[c].pc = l /\ UNCHANGED <<Told(c), Order(c), Ways(c)>>
  BY <1>1, <1>2 DEF Goto, CallState, Told, Order, Ways
<1>3. Poll(c) => UNCHANGED <<call[c].pc, Told(c), Order(c), Ways(c)>>
  BY <1>1 DEF Poll, CallState, Told, Order, Ways
<1>4. PollFails(c) => /\ call'[c].pc = "close_own" /\ call'[c].status = -1
                      /\ UNCHANGED <<Told(c), Order(c), call[c].answer>>
  BY <1>1 DEF PollFails, CallState, Told, Order
<1>5. WriteIn(c) => /\ UNCHANGED <<call[c].pc, Told(c), Ways(c), call[c].program,
                                   call[c].in_str, call[c].ends>>
                    /\ call'[c].to_write \in {call[c].to_write, AfterWrite(call[c].to_write)}
  BY <1>1 DEF WriteIn, CallState, Told, Ways
<1>6. Answer(c) => /\ call'[c].pc = "over"
                   /\ call'[c].answer = Result(call[c].status, call[c].got)
                   /\ UNCHANGED <<Told(c), Order(c), call[c].status>>
  BY <1>1 DEF Answer, CallState, Told, Order
<1>7. PipeFails(c) \/ ForkFails(c) =>
        /\ call[c].pc \in BeforeFork /\ call'[c].pc = "over"
        /\ call'[c].answer \in {Nothing, Result(71, call[c].got)}
        /\ UNCHANGED <<Told(c), Order(c), call[c].status>>
  BY <1>1 DEF PipeFails, ForkFails, Refuse, PipesAt, Pipes, BeforeFork, CallState, Told, Order
<1> QED BY <1>2, <1>3, <1>4, <1>5, <1>6, <1>7

LEMMA StartIs ==
  ASSUME Types, NEW c \in Calls, Start(c)
  PROVE  /\ call[c].pc = "idle" /\ call'[c].pc = "pipe_stdout"
         /\ call'[c].in_str = call'[c].to_write
         /\ UNCHANGED <<Told(c), Ways(c), fd, pipe, child>>
         /\ Careful => \A d \in Calls :
              /\ call[d].in_str # Nothing => Over(d)
              /\ call'[c].in_str # Nothing => call[d].pc \in {"idle", "over"} \/ child[d].state # "none"
<1>1. call \in [Calls -> CallState] /\ call[c] \in CallState
  BY DEF Types, TypeOK
<1>2. PICK program \in Programs, in_str \in Inputs :
        /\ Careful => Polite(c, program, in_str)
        /\ call' = [call EXCEPT ![c].pc = "pipe_stdout",
                                ![c].program = program,
                                ![c].in_str = in_str,
                                ![c].to_write = in_str]
  BY DEF Start
<1>3. /\ call'[c].pc = "pipe_stdout" /\ call'[c].in_str = in_str /\ call'[c].to_write = in_str
      /\ UNCHANGED <<Told(c), Ways(c)>>
  BY <1>1, <1>2 DEF CallState, Told, Ways
<1> QED BY <1>2, <1>3 DEF Start, Polite

LEMMA ReadIs ==
  ASSUME Types, NEW c \in Calls, NEW o \in Outputs, ReadPipe(c, o), HoldsR(c, o)
  PROVE  /\ call[c].pc = "poll" /\ UNCHANGED <<call[c].pc, Order(c), Ways(c), fd, child>>
         /\ \/ /\ pipe[<<c, o>>] # <<>>
               /\ pipe' = [pipe EXCEPT ![<<c, o>>] = Tail(@)]
               /\ call'[c].got = [call[c].got EXCEPT ![o] = Append(@, Head(pipe[<<c, o>>]))]
               /\ call'[c].eof = call[c].eof
            \/ /\ AtEnd(<<c, o>>)
               /\ call'[c].eof = call[c].eof \cup {o}
               /\ UNCHANGED <<pipe, call[c].got>>
<1>1. call \in [Calls -> CallState] /\ call[c] \in CallState
  BY DEF Types, TypeOK
<1>2. /\ PipeAt(call[c].ends[o].r) = <<c, o>>
      /\ ~(~Open(call[c].ends[o].r) \/ fd[call[c].ends[o].r][3] = "w")
  <2>1. Nothing # <<c, o, "r">>
    BY Nothings DEF Streams
  <2> QED BY <2>1 DEF HoldsR, PipeAt, Open
<1>3. CASE pipe[<<c, o>>] # <<>>
  <2>1. /\ call' = [call EXCEPT ![c].revents = @ \ {o},
                                ![c].got[o] = Append(@, Head(pipe[<<c, o>>]))]
        /\ pipe' = [pipe EXCEPT ![<<c, o>>] = Tail(@)]
        /\ call[c].pc = "poll" /\ UNCHANGED <<fd, child>>
    BY <1>2, <1>3 DEF ReadPipe
  <2>2. /\ call'[c].got = [call[c].got EXCEPT ![o] = Append(@, Head(pipe[<<c, o>>]))]
        /\ UNCHANGED <<call[c].pc, Order(c), Ways(c), call[c].eof>>
    BY <1>1, <2>1 DEF CallState, Order, Ways
  <2> QED BY <1>3, <2>1, <2>2
<1>4. CASE pipe[<<c, o>>] = <<>>
  <2>1. /\ call' = [call EXCEPT ![c].revents = @ \ {o}, ![c].eof = @ \cup {o}]
        /\ AtEnd(<<c, o>>) /\ call[c].pc = "poll" /\ UNCHANGED <<fd, child, pipe>>
    BY <1>2, <1>4 DEF ReadPipe
  <2>2. /\ call'[c].eof = call[c].eof \cup {o}
        /\ UNCHANGED <<call[c].pc, Order(c), Ways(c), call[c].got>>
    BY <1>1, <2>1 DEF CallState, Order, Ways
  <2> QED BY <2>1, <2>2
<1> QED BY <1>3, <1>4

LEMMA WaitIs ==
  ASSUME Types, NEW c \in Calls, Wait(c)
  PROVE  /\ call[c].pc = "wait" /\ call'[c].pc = "answer"
         /\ UNCHANGED <<Told(c), Order(c), call[c].answer, fd, pipe>>
         /\ \/ call[c].status = -1 /\ UNCHANGED <<call[c].status, child>>
            \/ /\ call[c].status # -1 /\ child[c].state = "zombie"
               /\ child' = [child EXCEPT ![c].state = "reaped"]
               /\ call'[c].status = ExitStatus(call[c].program.ends)
<1>1. call \in [Calls -> CallState] /\ call[c] \in CallState
  BY DEF Types, TypeOK
<1>2. CASE call[c].status = -1
  BY <1>1, <1>2, Moves DEF Wait, Told, Order, Ways
<1>3. CASE call[c].status # -1
  <2>1. /\ call' = [call EXCEPT ![c].status = ExitStatus(call[c].program.ends), ![c].pc = "answer"]
        /\ child[c].state = "zombie" /\ child' = [child EXCEPT ![c].state = "reaped"]
        /\ call[c].pc = "wait" /\ UNCHANGED <<fd, pipe>>
    BY <1>3 DEF Wait
  <2>2. /\ call'[c].pc = "answer" /\ call'[c].status = ExitStatus(call[c].program.ends)
        /\ UNCHANGED <<Told(c), Order(c), call[c].answer>>
    BY <1>1, <2>1 DEF CallState, Told, Order
  <2> QED BY <1>3, <2>1, <2>2
<1> QED BY <1>2, <1>3
-----------------------------------------------------------------------------
(* A step of c leaves the others as they are. *)
Steps(c) == SetUp(c) \/ ForkFails(c) \/ Serve(c) \/ PollFails(c) \/ Command(c) \/ Start(c)

LEMMA OthersStay ==
  ASSUME Types, NEW c \in Calls, Steps(c), NEW d \in Calls, d # c
  PROVE  call'[d] = call[d] /\ child'[d] = child[d]
<1>1. call \in [Calls -> CallState] /\ child \in [Calls -> ChildState]
  BY DEF Types, TypeOK
<1>2. SetUp(c) \/ ForkFails(c) \/ Start(c) => call'[d] = call[d] /\ child'[d] = child[d]
  BY <1>1 DEF SetUp, ForkFails, Start, OpenPipe, PipeFails, Refuse, Fork, Goto
<1>3. Serve(c) \/ PollFails(c) => call'[d] = call[d] /\ child'[d] = child[d]
  BY <1>1 DEF Serve, PollFails, CloseOthers, CloseOwn, Poll, LoopOver, ReadPipe, WriteIn, Wait,
              Answer, Goto
<1>4. Command(c) => call'[d] = call[d] /\ child'[d] = child[d]
  BY <1>1 DEF Command, ChildReads, ChildSays, ChildEnds
<1> QED BY <1>2, <1>3, <1>4 DEF Steps

(* The label, the input and the child of c, as others see them *)
LEMMA StepIs ==
  ASSUME IInv, CareInv, NEW c \in Calls, Steps(c)
  PROVE  /\ ~Start(c) => call[c].pc # "idle" /\ call'[c].in_str = call[c].in_str
         /\ child[c].state # "none" => child'[c].state # "none"
         /\ call'[c].pc # "idle"
         /\ Over(c) => call'[c].pc = "over"
<1>0. Types /\ call[c] \in CallState /\ child[c] \in ChildState /\ HasChildAt(c) /\ HoldsAt(c)
      /\ call \in [Calls -> CallState] /\ child \in [Calls -> ChildState]
  BY DEF IInv, Types, TypeOK, HasChild, HasChildAt, CareInv, Holds
<1>1. CASE Start(c)
  BY <1>1, <1>0, StartIs DEF Over
<1>2. ASSUME OpenPipe(c)
      PROVE  /\ call[c].pc \in BeforeFork /\ call'[c].pc \in BeforeFork /\ UNCHANGED child
             /\ call'[c].in_str = call[c].in_str
  <2>1. PICK p \in PipesAt(c), n \in Free, m \in Free : OpenPipe(c)!(p, n, m)
    BY <1>2 DEF OpenPipe
  <2>2. p \in Pipes /\ call[c].pc = p[1]
    BY DEF PipesAt
  <2>3. call'[c].pc = p[3] /\ call'[c].in_str = call[c].in_str
    BY <2>1, <1>0 DEF CallState
  <2> QED BY <2>1, <2>2, <2>3 DEF Pipes, BeforeFork
<1>3. CASE PipeFails(c) \/ ForkFails(c)
  <2>1. UNCHANGED child
    BY <1>3 DEF PipeFails, ForkFails, Refuse
  <2> QED BY <1>3, <1>0, <2>1, Moves DEF Order, Over, BeforeFork
<1>4. CASE Fork(c)
  <2>1. call[c].pc = "fork" /\ Goto(c, "close_others") /\ child'[c].state = "running"
    BY <1>4, <1>0 DEF Fork, ChildState
  <2> QED BY <1>4, <1>0, <2>1, Moves DEF Order, Over
<1>5. CASE CloseOthers(c) \/ CloseOwn(c) \/ LoopOver(c)
  <2>1. /\ call[c].pc \in Served /\ UNCHANGED child
        /\ \E l \in {"poll", "wait", "close_own"} : Goto(c, l)
    BY <1>5 DEF CloseOthers, CloseOwn, LoopOver, AtPoll, Served
  <2>2. call'[c].in_str = call[c].in_str /\ call'[c].pc # "idle"
    BY <1>0, <2>1, Moves DEF Order
  <2> QED BY <1>0, <2>1, <2>2, <1>5 DEF Over, Served, CloseOthers, CloseOwn, LoopOver, AtPoll
<1>6. CASE Poll(c) \/ PollFails(c) \/ WriteIn(c) \/ Answer(c)
  <2>1. call[c].pc \in {"poll", "answer"} /\ UNCHANGED child
    BY <1>6 DEF Poll, PollFails, WriteIn, Answer, AtPoll
  <2>2. call'[c].in_str = call[c].in_str /\ call'[c].pc # "idle"
    BY <1>0, <1>6, <2>1, Moves DEF Order
  <2> QED BY <2>1, <2>2 DEF Over
<1>7. ASSUME NEW o \in Outputs, ReadPipe(c, o)
      PROVE  call[c].pc = "poll" /\ call'[c].pc = "poll" /\ call'[c].in_str = call[c].in_str
             /\ UNCHANGED child
  <2>1. call[c].pc = "poll"
    BY <1>7 DEF ReadPipe
  <2>2. HoldsR(c, o)
    BY <1>0, <2>1 DEF HoldsAt, Outputs
  <2> QED BY <1>0, <1>7, <2>2, ReadIs DEF Order
<1>8. CASE Wait(c)
  <2>1. child'[c].state # "none"
    BY <1>0, <1>8, WaitIs DEF HasChildAt, Served, ChildState
  <2> QED BY <1>0, <1>8, <2>1, WaitIs DEF Order, Over
<1>9. CASE Command(c)
  <2>1. UNCHANGED call /\ child[c].state = "running"
    BY <1>9 DEF Command, ChildReads, ChildSays, ChildEnds
  <2>2. child'[c].state # "none"
    <3>1. ChildReads(c) => child'[c].state = "running"
      BY <2>1, <1>0 DEF ChildReads, ChildState
    <3>2. ChildSays(c) => child'[c].state = "running"
      <4>1. ChildSays(c) => \/ child' = [child EXCEPT ![c].to_say = Tail(@)]
                           \/ \E o, block : child' = [child EXCEPT ![c].to_say = Tail(@),
                                                    ![c].said[o] = Append(@, block)]
        BY DEF ChildSays
      <4> QED BY <4>1, <2>1, <1>0 DEF ChildState
    <3>3. ChildEnds(c) => child'[c].state = "zombie"
      BY <1>0 DEF ChildEnds, ChildState
    <3> QED BY <1>9, <3>1, <3>2, <3>3 DEF Command
  <2>3. call[c].pc # "idle"
    BY <1>0, <2>1 DEF HasChildAt
  <2> QED BY <2>1, <2>2, <2>3 DEF Over
<1> QED BY <1>0, <1>1, <1>2, <1>3, <1>4, <1>5, <1>6, <1>7, <1>8, <1>9
        DEF Steps, SetUp, Serve, Over, BeforeFork

LEMMA AloneStays ==
  ASSUME Careful, IInv, CareInv, NEW c \in Calls, Steps(c)
  PROVE  Alone'
<1> SUFFICES ASSUME NEW a \in Calls, NEW b \in Calls, a # b, Feeding(a)'
             PROVE  call'[b].pc \in {"idle", "over"} \/ child'[b].state # "none"
  BY DEF Alone
<1>0. Types /\ Alone
  BY DEF IInv, CareInv
<1>1. CASE c \notin {a, b}
  <2>1. call'[a] = call[a] /\ call'[b] = call[b] /\ child'[b] = child[b]
    BY <1>0, <1>1, OthersStay
  <2> QED BY <1>0, <2>1 DEF Alone, Feeding
<1>2. CASE c = a
  <2>1. call'[b] = call[b] /\ child'[b] = child[b]
    BY <1>0, <1>2, OthersStay
  <2>2. CASE Start(c)
    BY <1>0, <1>2, <2>1, <2>2, StartIs DEF Feeding
  <2>3. CASE ~Start(c)
    <3>1. Feeding(a)
      BY <1>2, <2>3, StepIs DEF Feeding, Over
    <3> QED BY <1>0, <2>1, <3>1 DEF Alone
  <2> QED BY <2>2, <2>3
<1>3. CASE c = b
  <2>1. call'[a] = call[a]
    BY <1>0, <1>3, OthersStay
  <2>2. Feeding(a)
    BY <2>1 DEF Feeding
  <2>3. call[b].pc \in {"idle", "over"} \/ child[b].state # "none"
    BY <1>0, <2>2 DEF Alone
  <2>4. ~Start(c)
    BY <1>0, <2>2, StartIs DEF Feeding, Over
  <2> QED BY <1>3, <2>3, <2>4, StepIs DEF Over
<1> QED BY <1>1, <1>2, <1>3
-----------------------------------------------------------------------------
(* What a step closes is its call's own, or closed already. *)
Own(c, n) == fd[n] = Nothing \/ \E s \in Streams : fd[n] = <<c, s, "r">> \/ fd[n] = <<c, s, "w">>
Opens(c) == \E n, m \in Fds, s \in Streams :
  /\ n # m /\ fd[n] = Nothing /\ fd[m] = Nothing
  /\ fd' = [fd EXCEPT ![n] = <<c, s, "r">>, ![m] = <<c, s, "w">>]
Closes(c) == \E S : Close(S) /\ \A n \in S \cap Fds : Own(c, n)

LEMMA Tables ==
  ASSUME IInv, CareInv, NEW c \in Calls, Steps(c)
  PROVE  \/ UNCHANGED fd
         \/ Opens(c) /\ call[c].pc \in BeforeFork
         \/ Closes(c)
<1>0. HoldsAt(c) /\ Types /\ call[c] \in CallState
  BY DEF IInv, CareInv, Holds, Types, TypeOK
<1>s. "stdin" \in Streams /\ "stdout" \in Streams /\ "stderr" \in Streams
  BY DEF Streams, Outputs
<1>1. CASE OpenPipe(c)
  <2>1. PICK p \in PipesAt(c), n \in Free, m \in Free : OpenPipe(c)!(p, n, m)
    BY <1>1 DEF OpenPipe
  <2>2. p \in Pipes /\ call[c].pc = p[1] /\ p[2] \in Streams
    BY <1>s DEF PipesAt, Pipes
  <2>3. /\ n \in Fds /\ m \in Fds /\ n # m /\ fd[n] = Nothing /\ fd[m] = Nothing
        /\ fd' = [fd EXCEPT ![n] = <<c, p[2], "r">>, ![m] = <<c, p[2], "w">>]
    BY <2>1 DEF Free, IsLeast
  <2>4. Opens(c)
    BY <2>2, <2>3 DEF Opens
  <2> QED BY <2>2, <2>4 DEF Pipes, BeforeFork
<1>2. CASE CloseOthers(c)
  <2> DEFINE S == {call[c].ends["stdin"].r, call[c].ends["stdout"].w, call[c].ends["stderr"].w}
  <2>1. Close(S) /\ HoldsBoth(c, Streams)
    BY <1>0, <1>2 DEF CloseOthers, HoldsAt
  <2>2. \A n \in S : Own(c, n)
    BY <1>s, <2>1 DEF HoldsBoth, HoldsR, HoldsW, Own
  <2> HIDE DEF S
  <2> QED BY <2>1, <2>2 DEF Closes
<1>3. CASE CloseOwn(c)
  <2> DEFINE S == {call[c].ends["stdin"].w, call[c].ends["stdout"].r, call[c].ends["stderr"].r}
  <2>1. Close(S) /\ HoldsR(c, "stdout") /\ HoldsR(c, "stderr") /\ Feeds(c)
    BY <1>0, <1>3 DEF CloseOwn, HoldsAt
  <2>2. \A n \in S : Own(c, n)
    BY <1>s, <2>1 DEF HoldsR, HoldsW, Feeds, Own
  <2> HIDE DEF S
  <2> QED BY <2>1, <2>2 DEF Closes
<1>4. CASE WriteIn(c)
  <2>1. call[c].pc = "poll" /\ call[c].to_write # Nothing
    BY <1>0, <1>4, ShellAssumption DEF WriteIn, Types, HasWork
  <2>2. HoldsW(c, "stdin")
    BY <1>0, <2>1 DEF HoldsAt, Feeds, Fed
  <2>3. UNCHANGED fd \/ Close({call[c].ends["stdin"].w})
    BY <1>4 DEF WriteIn, CloseFed
  <2>4. \A n \in {call[c].ends["stdin"].w} : Own(c, n)
    BY <1>s, <2>2 DEF HoldsW, Own
  <2>5. Close({call[c].ends["stdin"].w}) => Closes(c)
    BY <2>4 DEF Closes
  <2> QED BY <2>3, <2>5
<1>5. CASE Start(c) \/ PipeFails(c) \/ ForkFails(c) \/ Fork(c)
  BY <1>5 DEF Start, PipeFails, ForkFails, Refuse, Fork
<1>6. CASE Poll(c) \/ PollFails(c) \/ LoopOver(c) \/ Wait(c) \/ Answer(c) \/ Command(c)
  BY <1>6 DEF Poll, PollFails, LoopOver, Wait, Answer, Command, ChildReads, ChildSays, ChildEnds
<1>7. ASSUME NEW o \in Outputs, ReadPipe(c, o) PROVE UNCHANGED fd
  BY <1>7 DEF ReadPipe
<1> QED BY <1>1, <1>2, <1>3, <1>4, <1>5, <1>6, <1>7 DEF Steps, SetUp, Serve

LEMMA TableKept ==
  ASSUME IInv, CareInv, NEW c \in Calls, Steps(c), NEW d \in Calls, d # c
  PROVE  /\ \A n \in Fds, s \in Streams : fd[n] = <<d, s, "r">> => fd'[n] = fd[n]
         /\ \A n \in Fds, s \in Streams : fd[n] = <<d, s, "w">> => fd'[n] = fd[n]
         /\ call[c].pc \notin BeforeFork => \A n \in Fds : fd[n] = Nothing => fd'[n] = Nothing
<1>0. fd \in [Fds -> Ends \cup {Nothing}]
  BY DEF IInv, Types, TypeOK
<1>1. CASE UNCHANGED fd
  BY <1>1
<1>2. CASE Opens(c) /\ call[c].pc \in BeforeFork
  <2>1. PICK n \in Fds, m \in Fds, s \in Streams :
          /\ n # m /\ fd[n] = Nothing /\ fd[m] = Nothing
          /\ fd' = [fd EXCEPT ![n] = <<c, s, "r">>, ![m] = <<c, s, "w">>]
    BY <1>2 DEF Opens
  <2>2. \A i \in Fds : fd[i] # Nothing => fd'[i] = fd[i]
    BY <1>0, <2>1
  <2> QED BY <1>2, <2>2, Nothings
<1>3. CASE Closes(c)
  <2>1. PICK S : Close(S) /\ \A n \in S \cap Fds : Own(c, n)
    BY <1>3 DEF Closes
  <2>2. \A n \in Fds : fd'[n] # fd[n] => fd'[n] = Nothing /\ Own(c, n)
    BY <2>1 DEF Close
  <2>3. \A n \in Fds, s \in Streams :
          /\ fd[n] = <<d, s, "r">> => ~Own(c, n)
          /\ fd[n] = <<d, s, "w">> => ~Own(c, n)
    BY Nothings DEF Own
  <2> QED BY <2>2, <2>3
<1> QED BY <1>1, <1>2, <1>3, Tables

LEMMA OthersHold ==
  ASSUME IInv, CareInv, NEW c \in Calls, Steps(c), NEW d \in Calls, d # c
  PROVE  HoldsAt(d)'
<1>0. Types /\ HoldsAt(d) /\ Alone /\ HasChildAt(c)
  BY DEF IInv, CareInv, Holds, HasChild, HasChildAt
<1>1. call'[d] = call[d]
  BY <1>0, OthersStay
<1>2. \A s \in Streams : (HoldsR(d, s) => HoldsR(d, s)') /\ (HoldsW(d, s) => HoldsW(d, s)')
  BY <1>1, TableKept DEF HoldsR, HoldsW
<1>s. "stdin" \in Streams /\ "stdout" \in Streams /\ "stderr" \in Streams
  BY DEF Streams, Outputs
<1>3. \A S \in SUBSET Streams : HoldsBoth(d, S) => HoldsBoth(d, S)'
  BY <1>2 DEF HoldsBoth
<1>4. ASSUME call[d].pc \in {"poll", "close_own"}, Feeds(d) PROVE Feeds(d)'
  <2>1. CASE Fed(d)
    <3>1. call[c].pc \notin BeforeFork
      BY <1>0, <1>4, <2>1 DEF Alone, Feeding, Fed, BeforeFork, HasChildAt
    <3>2. Fed(d)' /\ call'[d].ends["stdin"].w = call[d].ends["stdin"].w
      BY <1>1, <2>1 DEF Fed
    <3>3. call[d].ends["stdin"].w \in Fds /\ fd'[call[d].ends["stdin"].w] = Nothing
      BY <1>4, <2>1, <3>1, TableKept DEF Feeds
    <3> QED BY <3>2, <3>3 DEF Feeds
  <2>2. CASE ~Fed(d)
    BY <1>1, <1>2, <1>4, <1>s, <2>2 DEF Feeds, Fed
  <2> QED BY <2>1, <2>2
<1>5. {"stdout"} \in SUBSET Streams /\ {"stdout", "stdin"} \in SUBSET Streams /\ Streams \in SUBSET Streams
  BY <1>s
<1> QED BY <1>0, <1>1, <1>2, <1>3, <1>4, <1>5, <1>s DEF HoldsAt
LEMMA PipesHold ==
  ASSUME IInv, CareInv, NEW c \in Calls, OpenPipe(c)
  PROVE  HoldsAt(c)'
<1>0. Types /\ HoldsAt(c) /\ fd \in [Fds -> Ends \cup {Nothing}]
      /\ call \in [Calls -> CallState] /\ call[c] \in CallState
  BY DEF IInv, Types, TypeOK, CareInv, Holds
<1>s. /\ "stdin" \in Streams /\ "stdout" \in Streams /\ "stderr" \in Streams
      /\ Streams = {"stdin", "stdout", "stderr"}
  BY DEF Streams, Outputs
<1>1. PICK p \in PipesAt(c), n \in Free, m \in Free : OpenPipe(c)!(p, n, m)
  BY DEF OpenPipe
<1>2. p \in Pipes /\ call[c].pc = p[1] /\ p[2] \in Streams
  BY <1>s DEF PipesAt, Pipes
<1>3. PICK s \in Streams : s = p[2]
  BY <1>2
<1>p. /\ p[1] = "pipe_stdout" => p[2] = "stdout" /\ p[3] = "pipe_stdin"
      /\ p[1] = "pipe_stdin" => p[2] = "stdin" /\ p[3] = "pipe_stderr"
      /\ p[1] = "pipe_stderr" => p[2] = "stderr" /\ p[3] = "fork"
  <2>1. CASE p = <<"pipe_stdout", "stdout", "pipe_stdin">>
    BY <2>1
  <2>2. CASE p = <<"pipe_stdin", "stdin", "pipe_stderr">>
    BY <2>2
  <2>3. CASE p = <<"pipe_stderr", "stderr", "fork">>
    BY <2>3
  <2> QED BY <1>2, <2>1, <2>2, <2>3 DEF Pipes
<1>4. /\ n \in Fds /\ m \in Fds /\ n # m /\ fd[n] = Nothing /\ fd[m] = Nothing
      /\ fd' = [fd EXCEPT ![n] = <<c, s, "r">>, ![m] = <<c, s, "w">>]
  BY <1>1, <1>3 DEF Free, IsLeast
<1>5. /\ call'[c].ends = [call[c].ends EXCEPT ![s] = [r |-> n, w |-> m]]
      /\ call'[c].pc = p[3]
      /\ UNCHANGED <<call[c].in_str, call[c].to_write>>
  BY <1>0, <1>1, <1>3 DEF CallState
<1>6. /\ call'[c].ends[s].r = n /\ call'[c].ends[s].w = m
      /\ \A u \in Streams \ {s} : call'[c].ends[u] = call[c].ends[u]
  BY <1>0, <1>5 DEF CallState
<1>7. HoldsR(c, s)' /\ HoldsW(c, s)'
  BY <1>0, <1>4, <1>6 DEF HoldsR, HoldsW
<1>8. ASSUME NEW u \in Streams \ {s}, HoldsR(c, u), HoldsW(c, u) PROVE HoldsR(c, u)' /\ HoldsW(c, u)'
  <2>1. \A i \in Fds : fd[i] # Nothing => fd'[i] = fd[i]
    BY <1>0, <1>4
  <2> QED BY <1>6, <1>8, <2>1, Nothings DEF HoldsR, HoldsW
<1>9. ASSUME NEW S \in SUBSET Streams, HoldsBoth(c, S) PROVE HoldsBoth(c, S \cup {s})'
  BY <1>7, <1>8, <1>9 DEF HoldsBoth
<1>10. CASE call[c].pc = "pipe_stdout"
  <2>1. s = "stdout" /\ p[3] = "pipe_stdin"
    BY <1>2, <1>3, <1>p, <1>10
  <2>2. HoldsBoth(c, {"stdout"})'
    BY <1>7, <2>1 DEF HoldsBoth
  <2> QED BY <1>0, <1>5, <1>10, <2>1, <2>2 DEF HoldsAt, BeforeFork
<1>11. CASE call[c].pc = "pipe_stdin"
  <2>1. s = "stdin" /\ p[3] = "pipe_stderr"
    BY <1>2, <1>3, <1>p, <1>11
  <2>2. HoldsBoth(c, {"stdout", "stdin"})'
    BY <1>0, <1>7, <1>8, <1>11, <1>s, <2>1 DEF HoldsBoth, HoldsAt
  <2> QED BY <1>0, <1>5, <1>11, <2>1, <2>2 DEF HoldsAt, BeforeFork
<1>12. CASE call[c].pc = "pipe_stderr"
  <2>1. s = "stderr" /\ p[3] = "fork"
    BY <1>2, <1>3, <1>p, <1>12
  <2>2. HoldsBoth(c, Streams)'
    BY <1>0, <1>7, <1>8, <1>12, <1>s, <2>1 DEF HoldsBoth, HoldsAt
  <2> QED BY <1>0, <1>5, <1>12, <2>1, <2>2 DEF HoldsAt, BeforeFork
<1> QED BY <1>2, <1>10, <1>11, <1>12 DEF Pipes

LEMMA OwnHold ==
  ASSUME IInv, CareInv, NEW c \in Calls, Steps(c)
  PROVE  HoldsAt(c)'
<1>0. Types /\ HoldsAt(c) /\ fd \in [Fds -> Ends \cup {Nothing}]
      /\ call \in [Calls -> CallState] /\ call[c] \in CallState
  BY DEF IInv, Types, TypeOK, CareInv, Holds
<1>s. "stdin" \in Streams /\ "stdout" \in Streams /\ "stderr" \in Streams
  BY DEF Streams, Outputs
(* What stays open stays with c. *)
<1>r. ASSUME NEW s \in Streams, UNCHANGED call[c].ends
      PROVE  /\ HoldsR(c, s) /\ fd'[call[c].ends[s].r] = fd[call[c].ends[s].r] => HoldsR(c, s)'
             /\ HoldsW(c, s) /\ fd'[call[c].ends[s].w] = fd[call[c].ends[s].w] => HoldsW(c, s)'
  BY <1>r DEF HoldsR, HoldsW
<1>1. CASE Start(c)
  BY <1>1, <1>0, StartIs DEF HoldsAt
<1>2. CASE OpenPipe(c)
  BY <1>2, PipesHold
<1>3. CASE PipeFails(c) \/ ForkFails(c) \/ Answer(c)
  BY <1>3, <1>0, Moves DEF HoldsAt, Order, BeforeFork
<1>4. CASE Wait(c)
  BY <1>4, <1>0, WaitIs DEF HoldsAt, Order, BeforeFork
<1>5. CASE Fork(c)
  <2>1. call[c].pc = "fork" /\ Goto(c, "close_others") /\ UNCHANGED fd
    BY <1>5 DEF Fork
  <2>2. call'[c].pc = "close_others" /\ UNCHANGED Order(c)
    BY <1>0, <2>1, Moves
  <2>3. HoldsBoth(c, Streams)'
    BY <1>0, <1>r, <2>1, <2>2 DEF HoldsAt, HoldsBoth, Order
  <2> QED BY <1>0, <2>1, <2>2, <2>3 DEF HoldsAt, BeforeFork, Order
<1>6. CASE CloseOthers(c)
  <2> DEFINE S == {call[c].ends["stdin"].r, call[c].ends["stdout"].w, call[c].ends["stderr"].w}
  <2>1. call[c].pc = "close_others" /\ Goto(c, "poll") /\ Close(S)
    BY <1>6 DEF CloseOthers
  <2>2. call'[c].pc = "poll" /\ UNCHANGED Order(c)
    BY <1>0, <2>1, Moves
  <2>3. HoldsBoth(c, Streams)
    BY <1>0, <2>1 DEF HoldsAt
  <2>4. /\ HoldsR(c, "stdout") /\ HoldsR(c, "stderr") /\ HoldsW(c, "stdin")
        /\ HoldsW(c, "stdout") /\ HoldsW(c, "stderr") /\ HoldsR(c, "stdin")
    BY <1>s, <2>3 DEF HoldsBoth
  <2>5. /\ call[c].ends["stdout"].r \notin S /\ call[c].ends["stderr"].r \notin S
        /\ call[c].ends["stdin"].w \notin S
    <3>1. \A a, b \in Streams : HoldsR(c, a) /\ HoldsW(c, b) => call[c].ends[a].r # call[c].ends[b].w
      BY DEF HoldsR, HoldsW
    <3>2. \A a, b \in Streams : HoldsR(c, a) /\ HoldsR(c, b) /\ a # b => call[c].ends[a].r # call[c].ends[b].r
      BY DEF HoldsR
    <3>3. \A a, b \in Streams : HoldsW(c, a) /\ HoldsW(c, b) /\ a # b => call[c].ends[a].w # call[c].ends[b].w
      BY DEF HoldsW
    <3> QED BY <1>s, <2>4, <3>1, <3>2, <3>3
  <2>6. HoldsR(c, "stdout")' /\ HoldsR(c, "stderr")' /\ HoldsW(c, "stdin")'
    <3> HIDE DEF S
    <3>1. \A n \in Fds \ S : fd'[n] = fd[n]
      BY <2>1 DEF Close
    <3> QED BY <1>r, <1>s, <2>2, <2>4, <2>5, <3>1 DEF Order, HoldsR, HoldsW
  <2>7. ~Fed(c)'
    BY <1>0, <2>1, <2>2 DEF HoldsAt, Fed, Order
  <2> HIDE DEF S
  <2> QED BY <1>0, <2>2, <2>6, <2>7 DEF HoldsAt, Feeds, BeforeFork, Order
<1>7. ASSUME call[c].pc = "poll", call'[c].pc \in {"poll", "close_own"}, UNCHANGED <<fd, Order(c)>>
      PROVE  HoldsAt(c)'
  <2>1. Feeds(c)' <=> Feeds(c)
    BY <1>7 DEF Feeds, Fed, HoldsW, Order
  <2>2. HoldsR(c, "stdout")' /\ HoldsR(c, "stderr")'
    BY <1>0, <1>r, <1>s, <1>7 DEF HoldsAt, Order
  <2> QED BY <1>0, <1>7, <2>1, <2>2 DEF HoldsAt, BeforeFork, Order
<1>8. CASE Poll(c) \/ PollFails(c) \/ LoopOver(c)
  <2>1. call[c].pc = "poll" /\ UNCHANGED fd
    BY <1>8 DEF Poll, PollFails, LoopOver, AtPoll
  <2>2. call'[c].pc \in {"poll", "close_own"} /\ UNCHANGED Order(c)
    BY <1>0, <1>8, <2>1, Moves DEF LoopOver
  <2> QED BY <1>7, <2>1, <2>2
<1>9. ASSUME NEW o \in Outputs, ReadPipe(c, o) PROVE HoldsAt(c)'
  <2>1. call[c].pc = "poll"
    BY <1>9 DEF ReadPipe
  <2>2. HoldsR(c, o)
    BY <1>0, <2>1 DEF HoldsAt, Outputs
  <2> QED BY <1>0, <1>7, <1>9, <2>2, ReadIs
<1>10. CASE WriteIn(c)
  <2>1. /\ call[c].pc = "poll" /\ call'[c].pc = "poll" /\ call[c].to_write \in Nat
        /\ UNCHANGED <<call[c].program, call[c].in_str, call[c].ends>>
    BY <1>0, <1>10, Moves DEF WriteIn, Types, HasWork
  <2>2. call[c].to_write # Nothing /\ HoldsW(c, "stdin") /\ call[c].in_str # Nothing
    BY <1>0, <2>1, ShellAssumption DEF HoldsAt, Feeds, Fed
  <2>3. CASE UNCHANGED <<fd, call[c].to_write>>
    BY <1>7, <2>1, <2>3 DEF Order
  <2>4. CASE call'[c].to_write = AfterWrite(call[c].to_write)
             /\ CloseFed(call[c].ends["stdin"].w, call[c].to_write)
    <3>1. CASE call[c].to_write > 1
      <4>1. UNCHANGED fd /\ call'[c].to_write # Nothing
        BY <2>1, <2>4, <3>1, ShellAssumption DEF CloseFed, AfterWrite
      <4>2. Feeds(c)'
        BY <1>s, <1>r, <2>1, <2>2, <4>1 DEF Feeds, Fed
      <4>3. HoldsR(c, "stdout")' /\ HoldsR(c, "stderr")'
        BY <1>0, <1>r, <1>s, <2>1, <4>1 DEF HoldsAt
      <4> QED BY <2>1, <2>2, <4>2, <4>3 DEF HoldsAt, BeforeFork
    <3>2. CASE ~(call[c].to_write > 1)
      <4>1. Close({call[c].ends["stdin"].w}) /\ call'[c].to_write = Nothing
        BY <2>4, <3>2 DEF CloseFed, AfterWrite
      <4>2. HoldsR(c, "stdout") /\ HoldsR(c, "stderr")
        BY <1>0, <2>1 DEF HoldsAt
      <4>3. HoldsR(c, "stdout")' /\ HoldsR(c, "stderr")'
        <5>1. /\ call[c].ends["stdout"].r # call[c].ends["stdin"].w
              /\ call[c].ends["stderr"].r # call[c].ends["stdin"].w
          BY <2>2, <4>2 DEF HoldsR, HoldsW
        <5>2. \A n \in Fds : n # call[c].ends["stdin"].w => fd'[n] = fd[n]
          BY <4>1 DEF Close
        <5>3. /\ fd'[call[c].ends["stdout"].r] = fd[call[c].ends["stdout"].r]
              /\ fd'[call[c].ends["stderr"].r] = fd[call[c].ends["stderr"].r]
          BY <4>2, <5>1, <5>2 DEF HoldsR
        <5> QED BY <1>r, <1>s, <2>1, <4>2, <5>3
      <4>4. Feeds(c)'
        BY <2>1, <2>2, <4>1 DEF Feeds, Fed, Close, HoldsW
      <4> QED BY <2>1, <2>2, <4>1, <4>3, <4>4 DEF HoldsAt, BeforeFork
    <3> QED BY <3>1, <3>2
  <2>5. \/ UNCHANGED <<fd, call[c].to_write>>
        \/ /\ call'[c].to_write = AfterWrite(call[c].to_write)
           /\ CloseFed(call[c].ends["stdin"].w, call[c].to_write)
    BY <1>0, <1>10 DEF WriteIn, CallState
  <2> QED BY <2>3, <2>4, <2>5
<1>11. CASE CloseOwn(c)
  <2>1. call[c].pc = "close_own" /\ call'[c].pc = "wait" /\ UNCHANGED Order(c)
    BY <1>0, <1>11, Moves DEF CloseOwn
  <2> QED BY <1>0, <2>1 DEF HoldsAt, BeforeFork, Order
<1>12. CASE Command(c)
  <2>1. UNCHANGED <<fd, call>>
    BY <1>12 DEF Command, ChildReads, ChildSays, ChildEnds
  <2> QED BY <1>0, <2>1 DEF HoldsAt, HoldsBoth, HoldsR, HoldsW, Feeds, Fed
<1> QED BY <1>1, <1>2, <1>3, <1>4, <1>5, <1>6, <1>8, <1>9, <1>10, <1>11, <1>12 DEF Steps, SetUp, Serve
-----------------------------------------------------------------------------
(* Reading moves a block from the pipe to what was got. *)
TakesHead(g, q) == q # <<>> => Append(g, Head(q)) \o Tail(q) = g \o q
AddsLast(g, q, b) == g \o Append(q, b) = Append(g \o q, b)

LEMMA Moved ==
  ASSUME NEW S, NEW g \in Seq(S), NEW q \in Seq(S)
  PROVE  /\ TakesHead(g, q)
         /\ \A b \in S : AddsLast(g, q, b)
<1>1. ASSUME q # <<>> PROVE Append(g, Head(q)) \o Tail(q) = g \o q
  <2>1. Head(q) \in S /\ Tail(q) \in Seq(S) /\ <<Head(q)>> \in Seq(S)
    BY <1>1, HeadTailProperties
  <2>2. Append(g, Head(q)) = g \o <<Head(q)>>
    BY <2>1, AppendIsConcat
  <2>3. (g \o <<Head(q)>>) \o Tail(q) = g \o (<<Head(q)>> \o Tail(q))
    BY <2>1, ConcatAssociative
  <2>4. <<Head(q)>> \o Tail(q) = q
    BY <1>1
  <2> QED BY <2>2, <2>3, <2>4
<1>2. ASSUME NEW b \in S PROVE g \o Append(q, b) = Append(g \o q, b)
  <2>1. <<b>> \in Seq(S) /\ Append(q, b) = q \o <<b>>
    BY AppendIsConcat
  <2>2. g \o q \in Seq(S) /\ (g \o q) \o <<b>> = g \o (q \o <<b>>)
    BY <2>1, ConcatAssociative, ConcatProperties
  <2> QED BY <2>1, <2>2, AppendIsConcat
<1> QED BY <1>1, <1>2 DEF TakesHead, AddsLast

(* The pipes of the outputs of a call are its own. *)
LEMMA PipesKept ==
  ASSUME IInv, CareInv, NEW c \in Calls, Steps(c), NEW d \in Calls, NEW o \in Outputs,
         d # c \/ (~ChildSays(c) /\ \A s \in Outputs : ~ReadPipe(c, s))
  PROVE  pipe'[<<d, o>>] = pipe[<<d, o>>]
<1>0. Types /\ HoldsAt(c) /\ call[c] \in CallState /\ child[c] \in ChildState
      /\ pipe \in [Calls \X Streams -> Seq(Calls)]
  BY DEF IInv, Types, TypeOK, CareInv, Holds
<1>s. o \in Streams /\ o # "stdin" /\ "stdin" \in Streams
  BY DEF Streams, Outputs
<1>1. ASSUME NEW s \in Outputs, ReadPipe(c, s) PROVE pipe'[<<d, o>>] = pipe[<<d, o>>]
  <2>1. HoldsR(c, s)
    BY <1>0, <1>1 DEF ReadPipe, HoldsAt, Outputs
  <2>2. UNCHANGED pipe \/ pipe' = [pipe EXCEPT ![<<c, s>>] = Tail(@)]
    BY <1>0, <1>1, <2>1, ReadIs
  <2>3. <<c, s>> # <<d, o>>
    BY <1>1
  <2> QED BY <1>0, <1>s, <2>2, <2>3
<1>2. CASE WriteIn(c)
  <2>1. call[c].pc = "poll" /\ call[c].to_write # Nothing
    BY <1>0, <1>2, ShellAssumption DEF WriteIn, Types, HasWork
  <2>2. HoldsW(c, "stdin")
    BY <1>0, <2>1 DEF HoldsAt, Feeds, Fed
  <2>3. PipeAt(call[c].ends["stdin"].w) = <<c, "stdin">>
    BY <2>2 DEF HoldsW, PipeAt
  <2>4. UNCHANGED pipe \/ pipe' = [pipe EXCEPT ![<<c, "stdin">>] = Append(@, c)]
    BY <1>2, <2>3 DEF WriteIn
  <2>5. <<c, "stdin">> # <<d, o>>
    BY <1>s
  <2> QED BY <1>0, <1>s, <2>4, <2>5
<1>3. CASE ChildReads(c)
  <2>1. pipe' = [pipe EXCEPT ![<<c, "stdin">>] = Tail(@)]
    BY <1>3 DEF ChildReads
  <2>2. <<c, "stdin">> # <<d, o>>
    BY <1>s
  <2> QED BY <1>0, <1>s, <2>1, <2>2
<1>4. CASE ChildSays(c)
  <2>1. PICK x, b : UNCHANGED pipe \/ pipe' = [pipe EXCEPT ![<<c, x>>] = Append(@, b)]
    BY <1>4 DEF ChildSays
  <2>2. <<c, x>> # <<d, o>>
    BY <1>4
  <2> QED BY <1>0, <1>s, <2>1, <2>2
<1>5. CASE ChildEnds(c) \/ SetUp(c) \/ ForkFails(c) \/ PollFails(c) \/ Start(c)
  BY <1>5 DEF ChildEnds, SetUp, OpenPipe, PipeFails, ForkFails, Refuse, Fork, PollFails, Start
<1>6. CASE CloseOthers(c) \/ CloseOwn(c) \/ Poll(c) \/ LoopOver(c) \/ Wait(c) \/ Answer(c)
  BY <1>6 DEF CloseOthers, CloseOwn, Poll, LoopOver, Wait, Answer
<1> QED BY <1>1, <1>2, <1>3, <1>4, <1>5, <1>6 DEF Steps, Serve, Command

LEMMA QuietHears ==
  ASSUME NEW d \in Calls, HeardAt(d), UNCHANGED <<Told(d), child[d]>>,
         \A o \in Outputs : pipe'[<<d, o>>] = pipe[<<d, o>>]
  PROVE  HeardAt(d)'
BY DEF HeardAt, Told

LEMMA OwnHeard ==
  ASSUME IInv, CareInv, NEW c \in Calls, Steps(c)
  PROVE  HeardAt(c)'
<1>0. /\ Types /\ HoldsAt(c) /\ HeardAt(c) /\ HasChildAt(c)
      /\ call \in [Calls -> CallState] /\ call[c] \in CallState
      /\ child \in [Calls -> ChildState] /\ child[c] \in ChildState
      /\ pipe \in [Calls \X Streams -> Seq(Calls)]
  BY DEF IInv, Types, TypeOK, HasChild, HasChildAt, CareInv, Holds, Heard
<1>s. \A o \in Outputs : o \in Streams
  BY DEF Streams
<1>p. /\ \A o \in Outputs : pipe[<<c, o>>] \in Seq(Calls) /\ call[c].got[o] \in Seq(Calls)
      /\ call[c].got \in Said /\ call[c].eof \subseteq Outputs
  BY <1>0, <1>s DEF CallState, Said
(* The steps that neither read nor say *)
<1>q. ASSUME ~ChildSays(c), \A o \in Outputs : ~ReadPipe(c, o), UNCHANGED <<Told(c), child[c]>>
      PROVE  HeardAt(c)'
  BY <1>0, <1>q, PipesKept, QuietHears
<1>n. ASSUME NEW l, Goto(c, l) PROVE UNCHANGED Told(c)
  BY <1>0, <1>n, Moves
<1>1. CASE Start(c)
  BY <1>0, <1>1, StartIs, QuietHears
<1>2. CASE OpenPipe(c)
  <2>1. UNCHANGED <<child, pipe>>
    BY <1>2 DEF OpenPipe
  <2>2. UNCHANGED Told(c)
    BY <1>0, <1>2 DEF OpenPipe, CallState, Told
  <2> QED BY <1>0, <2>1, <2>2, QuietHears
<1>3. CASE PipeFails(c) \/ ForkFails(c)
  <2>1. UNCHANGED <<child, pipe>>
    BY <1>3 DEF PipeFails, ForkFails, Refuse
  <2> QED BY <1>0, <1>3, <2>1, Moves, QuietHears
<1>4. CASE Fork(c)
  <2>1. /\ call[c].pc = "fork" /\ UNCHANGED <<fd, pipe>> /\ UNCHANGED Told(c)
        /\ child'[c].state = "running" /\ child'[c].said = child[c].said
        /\ child'[c].held = {fd[n] : n \in Fds \ Free}
                     \ {<<c, "stdin", "w">>, <<c, "stdout", "r">>, <<c, "stderr", "r">>}
    BY <1>0, <1>4, <1>n DEF Fork, ChildState
  <2>2. child[c].state = "none" /\ HoldsBoth(c, Streams)
    BY <1>0, <2>1 DEF HasChildAt, BeforeFork, HoldsAt
  <2>3. ASSUME NEW o \in Outputs PROVE <<c, o, "w">> \in child'[c].held
    <3>1. HoldsW(c, o)
      BY <1>s, <2>2 DEF HoldsBoth
    <3>2. /\ call[c].ends[o].w \in Fds \ Free
          /\ fd[call[c].ends[o].w] = <<c, o, "w">>
      BY <1>s, <3>1, Nothings DEF HoldsW, Free
    <3>3. <<c, o, "w">> \notin {<<c, "stdin", "w">>, <<c, "stdout", "r">>, <<c, "stderr", "r">>}
      BY DEF Outputs
    <3> QED BY <2>1, <3>2, <3>3
  <2> QED BY <1>0, <2>1, <2>2, <2>3 DEF HeardAt, Told
<1>5. CASE CloseOthers(c) \/ CloseOwn(c) \/ LoopOver(c)
  <2>1. UNCHANGED <<child, pipe>> /\ \E l : Goto(c, l)
    BY <1>5 DEF CloseOthers, CloseOwn, LoopOver
  <2> QED BY <1>0, <1>n, <2>1, QuietHears
<1>6. CASE Poll(c) \/ PollFails(c) \/ Answer(c)
  <2>1. UNCHANGED <<child, pipe>>
    BY <1>6 DEF Poll, PollFails, Answer
  <2> QED BY <1>0, <1>6, <2>1, Moves, QuietHears
<1>7. CASE WriteIn(c)
  <2>1. UNCHANGED child /\ call[c].revents = {"stdin"}
    BY <1>7 DEF WriteIn
  <2>2. \A o \in Outputs : ~ReadPipe(c, o)
    BY <2>1 DEF ReadPipe, Outputs
  <2>3. UNCHANGED Told(c)
    BY <1>0, <1>7, Moves
  <2>4. CASE ~ChildSays(c)
    BY <1>q, <2>1, <2>2, <2>3, <2>4
  <2>5. CASE ChildSays(c)
    <3>0. \/ child' = [child EXCEPT ![c].to_say = Tail(@)]
          \/ \E u, w : child' = [child EXCEPT ![c].to_say = Tail(@), ![c].said[u] = Append(@, w)]
      BY <2>5 DEF ChildSays
    <3>1. child[c].to_say # <<>> /\ child'[c].to_say = Tail(child[c].to_say)
      <4>1. child[c].to_say # <<>>
        BY <2>5 DEF ChildSays
      <4> QED BY <1>0, <3>0, <4>1 DEF ChildState
    <3>2. child[c].to_say \in Seq(Outputs \X Calls)
      BY <1>0 DEF ChildState
    <3>3. \A w \in Seq(Outputs \X Calls) : w # <<>> => w # Tail(w)
      <4> SUFFICES ASSUME NEW w \in Seq(Outputs \X Calls), w # <<>>, w = Tail(w) PROVE FALSE
        OBVIOUS
      <4>1. PICK t : t = Tail(w)
        OBVIOUS
      <4>2. Len(t) = Len(w) - 1 /\ Len(w) \in Nat
        BY <4>1, HeadTailProperties, LenProperties
      <4>3. t = w
        BY <4>1
      <4> QED BY <4>2, <4>3
    <3> QED BY <2>1, <3>1, <3>2, <3>3
  <2> QED BY <2>4, <2>5
<1>8. ASSUME NEW o \in Outputs, ReadPipe(c, o) PROVE HeardAt(c)'
  <2>1. call[c].pc = "poll" /\ HoldsR(c, o)
    BY <1>0, <1>8 DEF ReadPipe, HoldsAt, Outputs
  <2>2. UNCHANGED child /\ child[c].state # "none"
    BY <1>0, <1>8, <2>1, ReadIs DEF HasChildAt, Served
  <2>3. CASE /\ pipe[<<c, o>>] # <<>>
             /\ pipe' = [pipe EXCEPT ![<<c, o>>] = Tail(@)]
             /\ call'[c].got = [call[c].got EXCEPT ![o] = Append(@, Head(pipe[<<c, o>>]))]
             /\ call'[c].eof = call[c].eof
    <3>1. /\ pipe'[<<c, o>>] = Tail(pipe[<<c, o>>])
          /\ call'[c].got[o] = Append(call[c].got[o], Head(pipe[<<c, o>>]))
      BY <1>0, <1>p, <1>s, <2>3 DEF Said
    <3>2. call'[c].got[o] \o pipe'[<<c, o>>] = call[c].got[o] \o pipe[<<c, o>>]
      <4>1. TakesHead(call[c].got[o], pipe[<<c, o>>])
        BY <1>p, Moved
      <4> QED BY <2>3, <3>1, <4>1 DEF TakesHead
    <3>3. \A u \in Outputs \ {o} : /\ pipe'[<<c, u>>] = pipe[<<c, u>>]
                                   /\ call'[c].got[u] = call[c].got[u]
      BY <1>0, <1>p, <1>s, <2>3 DEF Said
    <3>4. \A u \in Outputs : call'[c].got[u] \o pipe'[<<c, u>>] = call[c].got[u] \o pipe[<<c, u>>]
      BY <3>2, <3>3
    <3>5. o \notin call[c].eof
      BY <1>0, <2>3 DEF HeardAt
    <3> QED BY <1>0, <2>2, <2>3, <3>3, <3>4, <3>5 DEF HeardAt
  <2>4. CASE /\ AtEnd(<<c, o>>)
             /\ call'[c].eof = call[c].eof \cup {o}
             /\ UNCHANGED <<pipe, call[c].got>>
    <3>1. pipe[<<c, o>>] = <<>> /\ <<c, o, "w">> \notin child[c].held
      BY <2>4 DEF AtEnd, Held
    <3>2. child[c].state \in {"zombie", "reaped"}
      BY <1>0, <2>2, <3>1 DEF HeardAt, ChildState
    <3> QED BY <1>0, <2>2, <2>4, <3>1, <3>2 DEF HeardAt
  <2> QED BY <1>0, <1>8, <2>1, <2>3, <2>4, ReadIs
<1>9. CASE Wait(c)
  <2>1. UNCHANGED pipe /\ UNCHANGED Told(c) /\ call[c].pc = "wait"
    BY <1>0, <1>9, WaitIs
  <2>2. CASE UNCHANGED child
    BY <1>0, <2>1, <2>2, QuietHears
  <2>3. CASE child[c].state = "zombie" /\ child' = [child EXCEPT ![c].state = "reaped"]
    <3>1. child'[c].state = "reaped" /\ child'[c].said = child[c].said
      BY <1>0, <2>3 DEF ChildState
    <3> QED BY <1>0, <2>1, <2>3, <3>1 DEF HeardAt, Told
  <2> QED BY <1>0, <1>9, <2>2, <2>3, WaitIs
<1>10. CASE ChildReads(c)
  <2>1. UNCHANGED call /\ child[c].state = "running"
    BY <1>10 DEF ChildReads
  <2>2. child'[c].state = "running" /\ child'[c].said = child[c].said /\ child'[c].held = child[c].held
    BY <1>0, <1>10 DEF ChildReads, ChildState
  <2>3. \A o \in Outputs : pipe'[<<c, o>>] = pipe[<<c, o>>]
    <3>1. pipe' = [pipe EXCEPT ![<<c, "stdin">>] = Tail(@)]
      BY <1>10 DEF ChildReads
    <3>2. \A o \in Outputs : <<c, "stdin">> # <<c, o>>
      BY DEF Outputs
    <3> QED BY <1>0, <1>s, <3>1, <3>2
  <2> QED BY <1>0, <2>1, <2>2, <2>3 DEF HeardAt
<1>11. CASE ChildSays(c)
  <2> DEFINE x == child[c].to_say[1][1]
             b == child[c].to_say[1][2]
  <2>1. UNCHANGED call /\ child[c].state = "running" /\ child[c].to_say # <<>>
    BY <1>11 DEF ChildSays
  <2>2. x \in Outputs /\ b \in Calls
    BY <1>0, <2>1 DEF ChildState
  <2>3. CASE child' = [child EXCEPT ![c].to_say = Tail(@)] /\ UNCHANGED pipe
    <3>1. child'[c].state = "running" /\ child'[c].said = child[c].said /\ child'[c].held = child[c].held
      BY <1>0, <2>1, <2>3 DEF ChildState
    <3> QED BY <1>0, <2>1, <2>3, <3>1 DEF HeardAt
  <2>4. CASE /\ pipe' = [pipe EXCEPT ![<<c, x>>] = Append(@, b)]
             /\ child' = [child EXCEPT ![c].to_say = Tail(@), ![c].said[x] = Append(@, b)]
    <3> HIDE DEF x, b
    <3>1. /\ child'[c].state = "running" /\ child'[c].held = child[c].held
          /\ child'[c].said = [child[c].said EXCEPT ![x] = Append(@, b)]
      BY <1>0, <2>1, <2>4 DEF ChildState
    <3>2. /\ pipe'[<<c, x>>] = Append(pipe[<<c, x>>], b)
          /\ child'[c].said[x] = Append(child[c].said[x], b)
      BY <1>0, <1>s, <2>2, <2>4, <3>1 DEF ChildState, Said
    <3>3. \A u \in Outputs \ {x} : /\ pipe'[<<c, u>>] = pipe[<<c, u>>]
                                   /\ child'[c].said[u] = child[c].said[u]
      BY <1>0, <1>s, <2>2, <2>4, <3>1 DEF ChildState, Said
    <3>4. call[c].got[x] \o pipe'[<<c, x>>] = Append(call[c].got[x] \o pipe[<<c, x>>], b)
      <4>1. AddsLast(call[c].got[x], pipe[<<c, x>>], b)
        BY <1>p, <2>2, Moved
      <4> QED BY <2>1, <3>2, <4>1 DEF AddsLast
    <3>5. child'[c].said[x] = call'[c].got[x] \o pipe'[<<c, x>>]
      BY <1>0, <2>1, <2>2, <3>2, <3>4 DEF HeardAt
    <3>6. x \notin call[c].eof
      BY <1>0, <2>1, <2>2 DEF HeardAt
    <3> QED BY <1>0, <2>1, <2>2, <3>1, <3>3, <3>5, <3>6 DEF HeardAt
  <2> QED BY <1>11, <2>3, <2>4 DEF ChildSays
<1>12. CASE ChildEnds(c)
  <2>1. /\ UNCHANGED <<call, pipe>> /\ child[c].state = "running"
        /\ child'[c].state = "zombie" /\ child'[c].said = child[c].said
    BY <1>0, <1>12 DEF ChildEnds, ChildState
  <2> QED BY <1>0, <2>1 DEF HeardAt
<1> QED BY <1>1, <1>2, <1>3, <1>4, <1>5, <1>6, <1>7, <1>8, <1>9, <1>10, <1>11, <1>12
        DEF Steps, SetUp, Serve, Command
LEMMA OthersHeard ==
  ASSUME IInv, CareInv, NEW c \in Calls, Steps(c), NEW d \in Calls, d # c
  PROVE  HeardAt(d)'
<1>1. Types /\ HeardAt(d)
  BY DEF IInv, CareInv, Heard
<1>2. call'[d] = call[d] /\ child'[d] = child[d]
  BY <1>1, OthersStay
<1>3. \A o \in Outputs : pipe'[<<d, o>>] = pipe[<<d, o>>]
  BY PipesKept
<1> QED BY <1>1, <1>2, <1>3, QuietHears DEF Told
-----------------------------------------------------------------------------
LEMMA OwnLearnt ==
  ASSUME IInv, CareInv, NEW c \in Calls, Steps(c)
  PROVE  LearntAt(c)'
<1>0. /\ Types /\ HoldsAt(c) /\ HeardAt(c) /\ HasChildAt(c) /\ LearntAt(c)
      /\ call \in [Calls -> CallState] /\ call[c] \in CallState
      /\ child \in [Calls -> ChildState] /\ child[c] \in ChildState
  BY DEF IInv, Types, TypeOK, HasChild, HasChildAt, CareInv, Holds, Heard, Learnt
(* From a label before the end of the loop to another one *)
<1>e. ASSUME call[c].pc \notin {"close_own", "wait", "answer", "over"}, UNCHANGED Ways(c),
             call'[c].pc \notin {"close_own", "wait", "answer", "over"}
      PROVE  LearntAt(c)'
  BY <1>0, <1>e DEF LearntAt, Ways, Over
<1>1. CASE Start(c)
  BY <1>0, <1>1, <1>e, StartIs
<1>2. CASE OpenPipe(c)
  <2>1. PICK p \in PipesAt(c), n \in Free, m \in Free : OpenPipe(c)!(p, n, m)
    BY <1>2 DEF OpenPipe
  <2>2. p \in Pipes /\ call[c].pc = p[1]
    BY DEF PipesAt
  <2>3. call'[c].pc = p[3] /\ UNCHANGED Ways(c)
    BY <1>0, <2>1 DEF CallState, Ways
  <2> QED BY <1>e, <2>2, <2>3 DEF Pipes
<1>3. CASE PipeFails(c) \/ ForkFails(c) \/ Answer(c)
  <2>1. call'[c].pc = "over"
    BY <1>0, <1>3, Moves
  <2> QED BY <2>1 DEF LearntAt, Over
<1>4. CASE Fork(c) \/ CloseOthers(c)
  <2>1. /\ call[c].pc \in {"fork", "close_others"}
        /\ \E l \in {"close_others", "poll"} : Goto(c, l)
    BY <1>4 DEF Fork, CloseOthers
  <2>2. call'[c].pc \in {"close_others", "poll"} /\ UNCHANGED Ways(c)
    BY <1>0, <2>1, Moves
  <2> QED BY <1>e, <2>1, <2>2
<1>5. CASE LoopOver(c)
  <2>1. call[c].pc = "poll" /\ call[c].eof = Outputs /\ Goto(c, "close_own")
    BY <1>5 DEF LoopOver, AtPoll
  <2>2. call'[c].pc = "close_own" /\ UNCHANGED <<Told(c), Ways(c)>>
    BY <1>0, <2>1, Moves
  <2> QED BY <1>0, <2>1, <2>2 DEF LearntAt, Told, Ways, Over
<1>6. CASE Poll(c) \/ WriteIn(c)
  <2>1. call[c].pc = "poll"
    BY <1>6 DEF Poll, AtPoll, WriteIn
  <2>2. UNCHANGED <<call[c].pc, Ways(c)>>
    BY <1>0, <1>6, Moves
  <2> QED BY <1>e, <2>1, <2>2
<1>7. CASE PollFails(c)
  <2>1. call[c].pc = "poll"
    BY <1>7 DEF PollFails, AtPoll
  <2>2. call'[c].pc = "close_own" /\ call'[c].status = -1 /\ UNCHANGED call[c].answer
    BY <1>0, <1>7, Moves
  <2> QED BY <1>0, <2>1, <2>2 DEF LearntAt, Over
<1>8. ASSUME NEW o \in Outputs, ReadPipe(c, o) PROVE LearntAt(c)'
  <2>1. call[c].pc = "poll" /\ HoldsR(c, o)
    BY <1>0, <1>8 DEF ReadPipe, HoldsAt, Outputs
  <2> QED BY <1>0, <1>8, <1>e, <2>1, ReadIs
<1>9. CASE CloseOwn(c)
  <2>1. call[c].pc = "close_own" /\ Goto(c, "wait")
    BY <1>9 DEF CloseOwn
  <2>2. call'[c].pc = "wait" /\ UNCHANGED <<Told(c), Ways(c)>>
    BY <1>0, <2>1, Moves
  <2> QED BY <1>0, <2>1, <2>2 DEF LearntAt, Told, Ways, Over
<1>10. CASE Wait(c)
  <2>1. /\ call[c].pc = "wait" /\ call'[c].pc = "answer"
        /\ UNCHANGED <<Told(c), Order(c), call[c].answer>>
    BY <1>0, <1>10, WaitIs
  <2>2. \/ call'[c].status = -1
        \/ /\ call[c].status # -1
           /\ child' = [child EXCEPT ![c].state = "reaped"]
           /\ call'[c].status = ExitStatus(call[c].program.ends)
    BY <1>0, <1>10, WaitIs
  <2>3. CASE call'[c].status = -1
    BY <1>0, <2>1, <2>3 DEF LearntAt, Over
  <2>4. CASE /\ call[c].status # -1
             /\ child' = [child EXCEPT ![c].state = "reaped"]
             /\ call'[c].status = ExitStatus(call[c].program.ends)
    <3>1. child'[c].state = "reaped"
      BY <1>0, <2>4 DEF ChildState
    <3> QED BY <1>0, <2>1, <2>4, <3>1 DEF LearntAt, Told, Order, Over
  <2> QED BY <2>2, <2>3, <2>4
<1>11. CASE Command(c)
  <2>1. UNCHANGED call /\ child[c].state = "running"
    BY <1>11 DEF Command, ChildReads, ChildSays, ChildEnds
  <2> QED BY <1>0, <2>1 DEF LearntAt, Over
<1> QED BY <1>1, <1>2, <1>3, <1>4, <1>5, <1>6, <1>7, <1>8, <1>9, <1>10, <1>11
        DEF Steps, SetUp, Serve

LEMMA OthersLearnt ==
  ASSUME IInv, CareInv, NEW c \in Calls, Steps(c), NEW d \in Calls, d # c
  PROVE  LearntAt(d)'
<1>1. Types /\ LearntAt(d)
  BY DEF IInv, CareInv, Learnt
<1>2. call'[d] = call[d] /\ child'[d] = child[d]
  BY <1>1, OthersStay
<1> QED BY <1>1, <1>2 DEF LearntAt, Over

LEMMA CareInductive == ASSUME Careful, IInv, CareInv, [Next]_vars PROVE CareInv'
<1>1. ASSUME NEW c \in Calls, Steps(c) PROVE CareInv'
  <2>1. Alone'
    BY <1>1, AloneStays
  <2>2. \A d \in Calls : HoldsAt(d)' /\ HeardAt(d)' /\ LearntAt(d)'
    <3> TAKE d \in Calls
    <3>1. CASE d = c
      BY <1>1, <3>1, OwnHold, OwnHeard, OwnLearnt
    <3>2. CASE d # c
      BY <1>1, <3>2, OthersHold, OthersHeard, OthersLearnt
    <3> QED BY <3>1, <3>2
  <2> QED BY <2>1, <2>2 DEF CareInv, Holds, Heard, Learnt
<1>2. CASE UNCHANGED vars
  <2>1. UNCHANGED <<fd, pipe, call, child>>
    BY <1>2 DEF vars
  <2>2. Alone' /\ Holds'
    <3>1. Alone'
      BY <2>1 DEF CareInv, Alone, Feeding
    <3>2. \A c \in Calls, s \in Streams : (HoldsR(c, s) <=> HoldsR(c, s)') /\ (HoldsW(c, s) <=> HoldsW(c, s)')
      BY <2>1 DEF HoldsR, HoldsW
    <3>3. \A c \in Calls : Feeds(c)' <=> Feeds(c)
      BY <2>1, <3>2 DEF Feeds, Fed, Streams
    <3>4. \A c \in Calls, S \in SUBSET Streams : HoldsBoth(c, S) => HoldsBoth(c, S)'
      BY <3>2 DEF HoldsBoth
    <3>5. Holds'
      BY <2>1, <3>2, <3>3, <3>4 DEF CareInv, Holds, HoldsAt, Streams, Outputs
    <3> QED BY <3>1, <3>5
  <2>3. Heard' /\ Learnt'
    BY <2>1 DEF CareInv, Heard, HeardAt, Learnt, LearntAt, Over
  <2> QED BY <2>2, <2>3 DEF CareInv
<1> QED BY <1>1, <1>2 DEF Next, AllOver, Steps

LEMMA CareHolds == ASSUME Careful PROVE Spec => [](IInv /\ CareInv)
<1>1. Init => CareInv
  BY CareStarts
<1>2. IInv /\ CareInv /\ [Next]_vars => CareInv'
  BY CareInductive
<1> QED BY <1>1, <1>2, Invariant, PTL DEF Spec
-----------------------------------------------------------------------------
(* The state of ShellCalls that Promise reads off the state of Shell *)
PhaseOf(c) == IF Over(c) THEN "over"
              ELSE IF child[c].state = "none" THEN "idle" ELSE "running"
EndOf(c) == IF child[c].state \in {"zombie", "reaped"} THEN call[c].program.ends ELSE Nothing
Phases == [c \in Calls |-> PhaseOf(c)]
AllSaid == [c \in Calls |-> child[c].said]
AllEnded == [c \in Calls |-> EndOf(c)]
Answers == [c \in Calls |-> call[c].answer]

(* A step of c changes them at c only. *)
LEMMA Abstracts ==
  ASSUME Types, NEW c \in Calls, Steps(c)
  PROVE  /\ Phases' = [Phases EXCEPT ![c] = PhaseOf(c)']
         /\ AllSaid' = [AllSaid EXCEPT ![c] = child'[c].said]
         /\ AllEnded' = [AllEnded EXCEPT ![c] = EndOf(c)']
         /\ Answers' = [Answers EXCEPT ![c] = call'[c].answer]
<1>1. \A d \in Calls : d # c => call'[d] = call[d] /\ child'[d] = child[d]
  BY OthersStay
<1>2. \A d \in Calls : d # c => PhaseOf(d)' = PhaseOf(d) /\ EndOf(d)' = EndOf(d)
  BY <1>1 DEF PhaseOf, EndOf, Over
<1>3. Phases' = [Phases EXCEPT ![c] = PhaseOf(c)']
  BY <1>2 DEF Phases
<1>4. AllSaid' = [AllSaid EXCEPT ![c] = child'[c].said]
  BY <1>1 DEF AllSaid
<1>5. AllEnded' = [AllEnded EXCEPT ![c] = EndOf(c)']
  BY <1>2 DEF AllEnded
<1>6. Answers' = [Answers EXCEPT ![c] = call'[c].answer]
  BY <1>1 DEF Answers
<1> QED BY <1>3, <1>4, <1>5, <1>6

LEMMA Unseen ==
  ASSUME Types, NEW c \in Calls, Steps(c)
  PROVE  /\ PhaseOf(c)' = PhaseOf(c) => UNCHANGED Phases
         /\ child'[c].said = child[c].said => UNCHANGED AllSaid
         /\ EndOf(c)' = EndOf(c) => UNCHANGED AllEnded
         /\ call'[c].answer = call[c].answer => UNCHANGED Answers
<1>1. \A d \in Calls : d # c => call'[d] = call[d] /\ child'[d] = child[d]
  BY OthersStay
<1>2. \A d \in Calls : d # c => PhaseOf(d)' = PhaseOf(d) /\ EndOf(d)' = EndOf(d)
  BY <1>1 DEF PhaseOf, EndOf, Over
<1>3. PhaseOf(c)' = PhaseOf(c) => UNCHANGED Phases
  BY <1>2 DEF Phases
<1>4. child'[c].said = child[c].said => UNCHANGED AllSaid
  BY <1>1 DEF AllSaid
<1>5. EndOf(c)' = EndOf(c) => UNCHANGED AllEnded
  BY <1>2 DEF AllEnded
<1>6. call'[c].answer = call[c].answer => UNCHANGED Answers
  BY <1>1 DEF Answers
<1> QED BY <1>3, <1>4, <1>5, <1>6

Same(c) == UNCHANGED <<PhaseOf(c), child[c].said, EndOf(c), call[c].answer>>

LEMMA Stutters ==
  ASSUME Types, NEW c \in Calls, Steps(c), Same(c)
  PROVE  UNCHANGED Promise!callVars
<1>1. UNCHANGED <<Phases, AllSaid, AllEnded, Answers>>
  BY Unseen DEF Same
<1> QED BY <1>1 DEF Promise!callVars, Phases, AllSaid, AllEnded, Answers, PhaseOf, EndOf

(* What was read is a beginning of what was said. *)
Begins(g, q) == SubSeq(g \o q, 1, Len(g)) = g /\ Len(g) \in 0 .. Len(g \o q)
LEMMA ReadSoFar ==
  ASSUME NEW S, NEW g \in Seq(S), NEW q \in Seq(S)
  PROVE  Begins(g, q)
<1>1. Len(g) \in Nat /\ Len(q) \in Nat /\ Len(g \o q) = Len(g) + Len(q)
  BY ConcatProperties, LenProperties
<1>2. CASE Len(g) = 0
  <2>1. g = <<>>
    BY <1>2, EmptySeq
  <2>2. SubSeq(g \o q, 1, Len(g)) = <<>>
    BY <1>2, SubSeqEmpty
  <2> QED BY <1>1, <2>1, <2>2 DEF Begins
<1>3. CASE Len(g) # 0
  <2>1. SubSeq(g \o q, 1, Len(g)) = SubSeq(g, 1, Len(g))
    BY <1>1, <1>3, SubSeqOfConcat1
  <2>2. SubSeq(g, 1, Len(g)) = g
    BY SubSeqFull
  <2> QED BY <1>1, <2>1, <2>2 DEF Begins
<1> QED BY <1>2, <1>3
-----------------------------------------------------------------------------
(* The steps that ShellCalls sees *)
LEMMA Launches ==
  ASSUME IInv, CareInv, NEW c \in Calls, Fork(c)
  PROVE  Promise!Launch(c)
<1>0. /\ Types /\ HasChildAt(c) /\ call[c] \in CallState /\ child[c] \in ChildState
      /\ call \in [Calls -> CallState] /\ child \in [Calls -> ChildState]
  BY DEF IInv, Types, TypeOK, HasChild, HasChildAt
<1>1. /\ call[c].pc = "fork" /\ Goto(c, "close_others")
      /\ child'[c].state = "running" /\ child'[c].said = child[c].said
  BY <1>0 DEF Fork, ChildState
<1>2. call'[c].pc = "close_others" /\ UNCHANGED <<Ways(c), Order(c)>>
  BY <1>0, <1>1, Moves
<1>3. child[c].state = "none"
  BY <1>0, <1>1 DEF HasChildAt, BeforeFork
<1>4. /\ PhaseOf(c) = "idle" /\ PhaseOf(c)' = "running"
      /\ UNCHANGED <<child[c].said, EndOf(c), call[c].answer>>
  BY <1>1, <1>2, <1>3 DEF PhaseOf, EndOf, Over, Ways
<1>5. /\ Phases[c] = "idle" /\ Phases' = [Phases EXCEPT ![c] = "running"]
      /\ UNCHANGED <<AllSaid, AllEnded, Answers>>
  <2>1. Steps(c)
    BY DEF Steps, SetUp
  <2>2. Phases[c] = "idle" /\ Phases' = [Phases EXCEPT ![c] = "running"]
    BY <1>0, <1>4, <2>1, Abstracts DEF Phases
  <2>3. UNCHANGED <<AllSaid, AllEnded, Answers>>
    BY <1>0, <1>4, <2>1, Unseen
  <2> QED BY <2>2, <2>3
<1> QED BY <1>5 DEF Promise!Launch, Phases, AllSaid, AllEnded, Answers, PhaseOf, EndOf

LEMMA Refuses ==
  ASSUME IInv, CareInv, NEW c \in Calls, PipeFails(c) \/ ForkFails(c)
  PROVE  Promise!Refuse(c)
<1>0. /\ Types /\ HasChildAt(c) /\ HeardAt(c) /\ LearntAt(c) /\ call[c] \in CallState
  BY DEF IInv, Types, TypeOK, HasChild, HasChildAt, CareInv, Heard, Learnt
<1>1. /\ call[c].pc \in BeforeFork /\ call'[c].pc = "over"
      /\ call'[c].answer \in {Nothing, Result(71, call[c].got)}
      /\ UNCHANGED <<Order(c), child>>
  BY <1>0, Moves DEF PipeFails, ForkFails, Refuse
<1>2. child[c].state = "none" /\ call[c].answer = Nothing
  BY <1>0, <1>1 DEF HasChildAt, LearntAt, Over, BeforeFork
<1>3. call[c].got = Promise!Silence
  <2>1. \A o \in Outputs : call[c].got[o] = <<>>
    BY <1>0, <1>2 DEF HeardAt
  <2>2. call[c].got = [o \in Outputs |-> <<>>]
    BY <1>0, <2>1 DEF CallState, Said
  <2> QED BY <2>2 DEF Promise!Silence, Promise!Outputs, Outputs
<1>4. /\ PhaseOf(c) = "idle" /\ PhaseOf(c)' = "over"
      /\ UNCHANGED <<child[c].said, EndOf(c)>>
  BY <1>1, <1>2 DEF PhaseOf, EndOf, Over, BeforeFork
<1>5. /\ Phases[c] = "idle" /\ Phases' = [Phases EXCEPT ![c] = "over"]
      /\ UNCHANGED <<AllSaid, AllEnded>>
      /\ Answers' = [Answers EXCEPT ![c] = call'[c].answer]
  <2>1. Steps(c)
    BY DEF Steps, SetUp
  <2> QED BY <1>0, <1>4, <2>1, Abstracts, Unseen DEF Phases
<1>6. Answers' \in {Answers, [Answers EXCEPT ![c] = [exit |-> 71, output |-> Promise!Silence]]}
  BY <1>1, <1>2, <1>3, <1>5 DEF Answers, Result
<1> QED BY <1>5, <1>6 DEF Promise!Refuse, Phases, AllSaid, AllEnded, Answers, PhaseOf, EndOf

LEMMA AnswersIt ==
  ASSUME IInv, CareInv, NEW c \in Calls, Answer(c)
  PROVE  Promise!Answer(c) \/ Promise!GiveUp(c)
<1>0. /\ Types /\ HasWork /\ HasChildAt(c) /\ HeardAt(c) /\ LearntAt(c) /\ call[c] \in CallState
      /\ child[c] \in ChildState /\ pipe \in [Calls \X Streams -> Seq(Calls)]
  BY DEF IInv, Types, TypeOK, HasChild, HasChildAt, CareInv, Heard, Learnt
<1>1. /\ call[c].pc = "answer" /\ call'[c].pc = "over"
      /\ call'[c].answer = Result(call[c].status, call[c].got)
      /\ UNCHANGED <<Order(c), child>>
  BY <1>0, Moves DEF Answer
<1>2. child[c].state # "none" /\ call[c].program \in Programs
  BY <1>0, <1>1 DEF HasChildAt, Served, HasWork
<1>3. /\ PhaseOf(c) = "running" /\ PhaseOf(c)' = "over"
      /\ UNCHANGED <<child[c].said, EndOf(c)>>
  BY <1>1, <1>2 DEF PhaseOf, EndOf, Over, Order
<1>4. /\ Phases[c] = "running" /\ Phases' = [Phases EXCEPT ![c] = "over"]
      /\ UNCHANGED <<AllSaid, AllEnded>>
      /\ Answers' = [Answers EXCEPT ![c] = Result(call[c].status, call[c].got)]
  <2>1. Steps(c)
    BY DEF Steps, Serve
  <2> QED BY <1>0, <1>1, <1>3, <2>1, Abstracts, Unseen DEF Phases
<1>5. \A o \in Outputs : /\ child[c].said[o] = call[c].got[o] \o pipe[<<c, o>>]
                         /\ call[c].got[o] \in Seq(Calls) /\ pipe[<<c, o>>] \in Seq(Calls)
  BY <1>0 DEF HeardAt, CallState, Said, Streams
<1>6. CASE call[c].status # -1
  <2>1. /\ call[c].eof = Outputs /\ child[c].state = "reaped"
        /\ call[c].status = ExitStatus(call[c].program.ends)
    BY <1>0, <1>1, <1>6 DEF LearntAt
  <2>2. AllEnded[c] = call[c].program.ends /\ AllEnded[c] # Nothing
    BY <1>2, <2>1, ShellAssumption DEF AllEnded, EndOf
  <2>3. AllSaid[c] = call[c].got
    <3>1. ASSUME NEW o \in Outputs PROVE child[c].said[o] = call[c].got[o]
      <4>1. pipe[<<c, o>>] = <<>>
        BY <1>0, <2>1 DEF HeardAt
      <4>2. call[c].got[o] \o <<>> = call[c].got[o]
        BY <1>5, ConcatEmptySeq
      <4> QED BY <1>5, <4>1, <4>2
    <3>2. child[c].said = call[c].got
      BY <1>0, <3>1 DEF CallState, ChildState, Said
    <3> QED BY <3>2 DEF AllSaid
  <2>4. Answers' = [Answers EXCEPT ![c] = [exit |-> Promise!ExitCode(AllEnded[c]),
                                           output |-> AllSaid[c]]]
    BY <1>4, <2>1, <2>2, <2>3 DEF Result, ExitStatus, Promise!ExitCode
  <2>5. Promise!Answer(c)
    BY <1>4, <2>2, <2>4 DEF Promise!Answer, Phases, AllSaid, AllEnded, Answers, PhaseOf, EndOf
  <2> QED BY <2>5
<1>7. CASE call[c].status = -1
  <2> DEFINE m == Len(call[c].got["stdout"])
             n == Len(call[c].got["stderr"])
  <2>1. \A o \in Outputs : Begins(call[c].got[o], pipe[<<c, o>>])
    BY <1>5, ReadSoFar
  <2>2. \A o \in Outputs : /\ Len(call[c].got[o]) \in 0 .. Len(child[c].said[o])
                           /\ SubSeq(child[c].said[o], 1, Len(call[c].got[o])) = call[c].got[o]
    BY <1>5, <2>1 DEF Begins
  <2>3. /\ m \in 0 .. Len(AllSaid[c].stdout) /\ SubSeq(AllSaid[c].stdout, 1, m) = call[c].got["stdout"]
        /\ n \in 0 .. Len(AllSaid[c].stderr) /\ SubSeq(AllSaid[c].stderr, 1, n) = call[c].got["stderr"]
    BY <2>2 DEF AllSaid, Outputs
  <2>4. call[c].got = [stdout |-> call[c].got["stdout"], stderr |-> call[c].got["stderr"]]
    BY <1>0 DEF CallState, Said, Outputs
  <2> HIDE DEF m, n
  <2>5. Answers' = [Answers EXCEPT ![c] =
                      [exit |-> -1, output |-> [stdout |-> SubSeq(AllSaid[c].stdout, 1, m),
                                                stderr |-> SubSeq(AllSaid[c].stderr, 1, n)]]]
    BY <1>4, <1>7, <2>3, <2>4 DEF Result
  <2>6. Promise!GiveUp(c)
    BY <1>4, <2>3, <2>5 DEF Promise!GiveUp, Phases, AllSaid, AllEnded, Answers, PhaseOf, EndOf
  <2> QED BY <2>6
<1> QED BY <1>6, <1>7

LEMMA Says ==
  ASSUME IInv, CareInv, NEW c \in Calls, ChildSays(c)
  PROVE  \/ UNCHANGED Promise!callVars
         \/ \E o \in Promise!Outputs, word \in Calls : Promise!Say(c, o, word)
<1>0. /\ Types /\ child[c] \in ChildState /\ child \in [Calls -> ChildState]
  BY DEF IInv, Types, TypeOK
<1>1. UNCHANGED call /\ child[c].state = "running" /\ child[c].to_say # <<>>
  BY DEF ChildSays
<1>2. child[c].to_say[1][1] \in Outputs /\ child[c].to_say[1][2] \in Calls
  BY <1>0, <1>1 DEF ChildState
<1>x. PICK x \in Outputs, b \in Calls : x = child[c].to_say[1][1] /\ b = child[c].to_say[1][2]
  BY <1>2
<1>3. CASE child' = [child EXCEPT ![c].to_say = Tail(@)]
  <2>1. child'[c].state = child[c].state /\ child'[c].said = child[c].said
    BY <1>0, <1>3 DEF ChildState
  <2>2. Same(c)
    BY <1>1, <2>1 DEF Same, PhaseOf, EndOf, Over
  <2> QED BY <1>0, <2>2, Stutters DEF Steps, Command
<1>4. CASE child' = [child EXCEPT ![c].to_say = Tail(@), ![c].said[x] = Append(@, b)]
  <2>1. /\ child'[c].state = child[c].state
        /\ child'[c].said = [child[c].said EXCEPT ![x] = Append(@, b)]
    BY <1>0, <1>4 DEF ChildState
  <2>2. UNCHANGED <<PhaseOf(c), EndOf(c), call[c].answer>>
    BY <1>1, <2>1 DEF PhaseOf, EndOf, Over
  <2>3. /\ Phases[c] # "idle" /\ AllEnded[c] = Nothing
        /\ AllSaid' = [AllSaid EXCEPT ![c] = [child[c].said EXCEPT ![x] = Append(@, b)]]
        /\ UNCHANGED <<Phases, AllEnded, Answers>>
    <3>1. Phases[c] # "idle" /\ AllEnded[c] = Nothing
      BY <1>1 DEF Phases, AllEnded, PhaseOf, EndOf
    <3>2. /\ AllSaid' = [AllSaid EXCEPT ![c] = child'[c].said]
          /\ UNCHANGED <<Phases, AllEnded, Answers>>
      <4>1. Steps(c)
        BY DEF Steps, Command
      <4> QED BY <1>0, <2>2, <4>1, Abstracts, Unseen
    <3> QED BY <2>1, <3>1, <3>2
  <2>4. AllSaid' = [AllSaid EXCEPT ![c][x] = Append(@, b)]
    BY <2>3 DEF AllSaid
  <2>5. Promise!Say(c, x, b)
    BY <2>3, <2>4 DEF Promise!Say, Phases, AllSaid, AllEnded, Answers, PhaseOf, EndOf
  <2>6. x \in Promise!Outputs
    BY DEF Promise!Outputs, Outputs
  <2> QED BY <2>5, <2>6
<1> QED BY <1>3, <1>4, <1>x DEF ChildSays

LEMMA EndsIt ==
  ASSUME IInv, CareInv, NEW c \in Calls, ChildEnds(c)
  PROVE  \E e \in {p.ends : p \in Programs} : Promise!End(c, e)
<1>0. /\ Types /\ HasWork /\ HasChildAt(c) /\ child[c] \in ChildState
      /\ child \in [Calls -> ChildState]
  BY DEF IInv, Types, TypeOK, HasChild, HasChildAt
<1>1. /\ UNCHANGED call /\ child[c].state = "running"
      /\ child'[c].state = "zombie" /\ child'[c].said = child[c].said
  BY <1>0 DEF ChildEnds, ChildState
<1>2. PICK end \in {p.ends : p \in Programs} : end = call[c].program.ends
  <2>1. call[c].program \in Programs
    BY <1>0, <1>1 DEF HasChildAt, HasWork
  <2> QED BY <2>1
<1>3. /\ UNCHANGED <<PhaseOf(c), child[c].said, call[c].answer>>
      /\ EndOf(c)' = end
  BY <1>1, <1>2 DEF PhaseOf, EndOf, Over
<1>4. /\ Phases[c] # "idle" /\ AllEnded[c] = Nothing
      /\ AllEnded' = [AllEnded EXCEPT ![c] = end]
      /\ UNCHANGED <<Phases, AllSaid, Answers>>
  <2>1. Phases[c] # "idle" /\ AllEnded[c] = Nothing
    BY <1>1 DEF Phases, AllEnded, PhaseOf, EndOf
  <2>2. /\ AllEnded' = [AllEnded EXCEPT ![c] = EndOf(c)']
        /\ UNCHANGED <<Phases, AllSaid, Answers>>
    <3>1. Steps(c)
      BY DEF Steps, Command
    <3> QED BY <1>0, <1>3, <3>1, Abstracts, Unseen
  <2> QED BY <1>3, <2>1, <2>2
<1>5. Promise!End(c, end)
  BY <1>4 DEF Promise!End, Phases, AllSaid, AllEnded, Answers, PhaseOf, EndOf
<1> QED BY <1>5
-----------------------------------------------------------------------------
(* Serving shows only in the answer. *)
LEMMA ServesUnseen ==
  ASSUME IInv, CareInv, NEW c \in Calls, Serve(c) \/ PollFails(c), ~Answer(c)
  PROVE  UNCHANGED Promise!callVars
<1>0. /\ Types /\ HoldsAt(c) /\ HasChildAt(c)
      /\ call[c] \in CallState /\ child[c] \in ChildState /\ child \in [Calls -> ChildState]
  BY DEF IInv, Types, TypeOK, HasChild, HasChildAt, CareInv, Holds
<1>q. ASSUME call[c].pc \in Served, call'[c].pc \in Served, UNCHANGED child,
             UNCHANGED <<call[c].program, call[c].answer>>
      PROVE  Same(c)
  BY <1>q DEF Same, PhaseOf, EndOf, Over, Served
<1>1. CASE CloseOthers(c) \/ CloseOwn(c) \/ LoopOver(c)
  <2>1. /\ call[c].pc \in Served /\ UNCHANGED child
        /\ \E l \in {"poll", "wait", "close_own"} : Goto(c, l)
    BY <1>1 DEF CloseOthers, CloseOwn, LoopOver, AtPoll, Served
  <2>2. call'[c].pc \in Served /\ UNCHANGED <<Order(c), Ways(c)>>
    BY <1>0, <2>1, Moves DEF Served
  <2> QED BY <1>0, <1>q, <2>1, <2>2, Stutters DEF Order, Ways, Steps
<1>2. CASE Poll(c) \/ PollFails(c) \/ WriteIn(c)
  <2>1. call[c].pc = "poll" /\ UNCHANGED child
    BY <1>2 DEF Poll, PollFails, WriteIn, AtPoll
  <2>2. call'[c].pc \in {"poll", "close_own"} /\ UNCHANGED <<call[c].program, call[c].answer>>
    BY <1>0, <1>2, <2>1, Moves DEF Order, Ways
  <2> QED BY <1>0, <1>q, <2>1, <2>2, Stutters DEF Served, Steps
<1>3. ASSUME NEW o \in Outputs, ReadPipe(c, o) PROVE UNCHANGED Promise!callVars
  <2>1. call[c].pc = "poll" /\ HoldsR(c, o)
    BY <1>0, <1>3 DEF ReadPipe, HoldsAt, Outputs
  <2>2. UNCHANGED <<child, call[c].pc, Order(c), Ways(c)>>
    BY <1>0, <1>3, <2>1, ReadIs
  <2> QED BY <1>0, <1>q, <2>1, <2>2, Stutters DEF Order, Ways, Served, Steps
<1>4. CASE Wait(c)
  <2>1. /\ call[c].pc = "wait" /\ call'[c].pc = "answer"
        /\ UNCHANGED <<Order(c), call[c].answer>>
    BY <1>0, <1>4, WaitIs
  <2>2. CASE UNCHANGED child
    BY <1>0, <1>q, <2>1, <2>2, Stutters DEF Order, Served, Steps
  <2>3. CASE child[c].state = "zombie" /\ child' = [child EXCEPT ![c].state = "reaped"]
    <3>1. child'[c].state = "reaped" /\ child'[c].said = child[c].said
      BY <1>0, <2>3 DEF ChildState
    <3>2. Same(c)
      BY <2>1, <2>3, <3>1 DEF Same, PhaseOf, EndOf, Over, Order
    <3> QED BY <1>0, <3>2, Stutters DEF Steps
  <2> QED BY <1>0, <1>4, <2>2, <2>3, WaitIs
<1> QED BY <1>1, <1>2, <1>3, <1>4 DEF Serve

LEMMA SeenAsPromised ==
  ASSUME IInv, CareInv, [Next]_vars
  PROVE  [Promise!Next]_(Promise!callVars)
<1>0. Types /\ call \in [Calls -> CallState] /\ child \in [Calls -> ChildState]
  BY DEF IInv, Types, TypeOK
<1>1. ASSUME NEW c \in Calls, Start(c) PROVE UNCHANGED Promise!callVars
  <2>1. /\ call[c].pc = "idle" /\ call'[c].pc = "pipe_stdout"
        /\ UNCHANGED <<Ways(c), child>>
    BY <1>0, <1>1, StartIs
  <2>2. child[c].state = "none"
    BY <2>1 DEF IInv, HasChild
  <2>3. Same(c)
    BY <2>1, <2>2 DEF Same, PhaseOf, EndOf, Over, Ways
  <2> QED BY <1>0, <1>1, <2>3, Stutters DEF Steps
<1>2. ASSUME NEW c \in Calls, OpenPipe(c) PROVE UNCHANGED Promise!callVars
  <2>1. PICK p \in PipesAt(c), n \in Free, m \in Free : OpenPipe(c)!(p, n, m)
    BY <1>2 DEF OpenPipe
  <2>2. p \in Pipes /\ call[c].pc = p[1]
    BY DEF PipesAt
  <2>3. /\ call'[c].pc = p[3] /\ UNCHANGED <<Ways(c), child>>
    BY <1>0, <2>1 DEF CallState, Ways
  <2>4. call[c].pc \in BeforeFork /\ call'[c].pc \in BeforeFork
    BY <2>2, <2>3 DEF Pipes, BeforeFork
  <2>5. child[c].state = "none"
    BY <2>4 DEF IInv, HasChild
  <2>6. Same(c)
    BY <2>3, <2>4, <2>5 DEF Same, PhaseOf, EndOf, Over, Ways, BeforeFork
  <2> QED BY <1>0, <1>2, <2>6, Stutters DEF Steps, SetUp
<1>3. ASSUME NEW c \in Calls, ChildReads(c) PROVE UNCHANGED Promise!callVars
  <2>1. /\ UNCHANGED call /\ child'[c].state = child[c].state /\ child'[c].said = child[c].said
    BY <1>0, <1>3 DEF ChildReads, ChildState
  <2>2. Same(c)
    BY <2>1 DEF Same, PhaseOf, EndOf, Over
  <2> QED BY <1>0, <1>3, <2>2, Stutters DEF Steps, Command
<1>4. CASE UNCHANGED vars
  BY <1>4 DEF vars, Promise!callVars, Over
<1>5. ASSUME NEW c \in Calls, Steps(c) PROVE Promise!Next \/ UNCHANGED Promise!callVars
  <2>1. CASE Fork(c)
    BY <2>1, Launches DEF Promise!Next
  <2>2. CASE PipeFails(c) \/ ForkFails(c)
    BY <2>2, Refuses DEF Promise!Next
  <2>3. CASE Answer(c)
    BY <2>3, AnswersIt DEF Promise!Next
  <2>4. CASE (Serve(c) \/ PollFails(c)) /\ ~Answer(c)
    BY <2>4, ServesUnseen
  <2>5. CASE ChildSays(c)
    BY <2>5, Says DEF Promise!Next
  <2>6. CASE ChildEnds(c)
    BY <2>6, EndsIt DEF Promise!Next
  <2> QED BY <1>1, <1>2, <1>3, <1>5, <2>1, <2>2, <2>3, <2>4, <2>5, <2>6 DEF Steps, SetUp, Command
<1> QED BY <1>4, <1>5 DEF Next, AllOver, Steps

(* A call is answered once, after its command has ended, with all that the *)
(* command said, in order, and with its exit status, or is given up or     *)
(* refused as shell.c does: when scripts give :in to commands that read,   *)
(* and start nothing while such a call is not over.                        *)
THEOREM ShellKeepsPromise == ASSUME Careful PROVE Spec => KeepsPromise
<1>1. Init => Promise!Init
  BY DEF Init, Promise!Init, Promise!Silence, Promise!Outputs, Outputs, Over
<1>2. IInv /\ CareInv /\ [Next]_vars => [Promise!Next]_(Promise!callVars)
  BY SeenAsPromised
<1> QED BY <1>1, <1>2, CareHolds, PTL DEF Spec, KeepsPromise, Promise!Spec
=============================================================================

-------------------------------- MODULE Shell --------------------------------
(***************************************************************************)
(* Shell interactions, planck-c/shell.c under planck/shell.cljs: a call    *)
(* opens three pipes, forks, and serves the pipes of the child from a poll *)
(* loop until both outputs are at their end; then it waits for the child   *)
(* and answers.  An asynchronous call serves on a thread of its own, a     *)
(* synchronous one on the thread that called; either way JavaScriptCore    *)
(* drops its lock during the native call, so several calls may be in       *)
(* shell.c at once.  They share one thing, the descriptor table of the     *)
(* process: numbers that are free are used again, and a child inherits     *)
(* every descriptor that is open when it is forked (none is close-on-exec).*)
(*                                                                         *)
(* A block of 4096 bytes is one item of a pipe; it is represented by the   *)
(* call whose command, or whose :in, it comes from.  The source calls the  *)
(* pipes after the parent's view (in, out, err); here they are the child's *)
(* stdout, stdin and stderr.                                               *)
(***************************************************************************)
EXTENDS Integers, Sequences, FiniteSets

CONSTANTS Calls,      (* calls of sh and sh-async, numbered as they start  *)
          Programs,   (* commands; see IsProgram                           *)
          Inputs,     (* blocks of :in, or Nothing for a call without      *)
          Fds,        (* the numbers of the descriptor table               *)
          Capacity,   (* blocks a pipe holds                               *)
          Failures,   (* what may fail at any time: "fork", "poll"         *)
          Careful,    (* scripts give :in to commands that read, and start *)
                      (* nothing else until such a call is over            *)
          Nothing

Outputs == {"stdout", "stderr"}
Streams == Outputs \cup {"stdin"}

(* A command is launched, or fails in chdir or exec; it reads its input to *)
(* the end and echoes it, or only says some blocks; it ends.               *)
IsProgram(p) == /\ p.launched \in BOOLEAN
                /\ p.reads \in BOOLEAN
                /\ p.says \in Seq(Outputs)
                /\ ~p.launched => ~p.reads /\ p.says = <<>>
                /\ p.ends.signaled \in BOOLEAN
                /\ p.ends.code \in 0 .. 255

ASSUME ShellAssumption == /\ Calls \subseteq Nat
                          /\ \A p \in Programs : IsProgram(p)
                          /\ Inputs \subseteq Nat \cup {Nothing}
                          /\ Fds \subseteq Nat \ {0}
                          /\ IsFiniteSet(Fds)
                          /\ Capacity \in Nat \ {0}
                          /\ Careful \in BOOLEAN
                          /\ Nothing \notin Nat
                          /\ Nothing \notin Calls \X Streams \X {"r", "w"}
                          /\ \A p \in Programs : p.ends # Nothing

VARIABLES fd,      (* the descriptor table: number -> end of a pipe        *)
          pipe,    (* what is in each pipe                                 *)
          call,    (* the state of each call, in ThreadParams and locals   *)
          child    (* the child of each call                               *)

vars == <<fd, pipe, call, child>>

Init ==
  /\ fd = [n \in Fds |-> Nothing]
  /\ pipe = [p \in Calls \X Streams |-> <<>>]
  /\ call = [c \in Calls |->
               [pc |-> "idle", program |-> Nothing,
                in_str |-> Nothing, to_write |-> Nothing,
                ends |-> [s \in Streams |-> [r |-> 0, w |-> 0]],
                revents |-> {}, eof |-> {}, got |-> [o \in Outputs |-> <<>>],
                status |-> 0, answer |-> Nothing]]
  /\ child = [c \in Calls |-> [state |-> "none", held |-> {}, to_say |-> <<>>,
                               said |-> [o \in Outputs |-> <<>>]]]
-----------------------------------------------------------------------------
(* The two ends of a pipe are <<call, stream, "r">> and <<.., "w">>.       *)
Open(n) == n \in Fds /\ fd[n] # Nothing
PipeAt(n) == <<fd[n][1], fd[n][2]>>
Free == {n \in Fds : fd[n] = Nothing}
IsLeast(n, S) == n \in S /\ \A m \in S : n <= m

(* An end is held by this process or by a child. *)
Held(end) == \/ \E n \in Fds : fd[n] = end
             \/ \E c \in Calls : end \in child[c].held
AtEnd(p) == pipe[p] = <<>> /\ ~Held(<<p[1], p[2], "w">>)
Broken(p) == ~Held(<<p[1], p[2], "r">>)
Full(p) == Len(pipe[p]) = Capacity

(* Closing numbers; of one that is not open, close only fails with EBADF. *)
Close(S) == fd' = [n \in Fds |-> IF n \in S THEN Nothing ELSE fd[n]]

(* What poll reports.  A number that is not open, or is open for another   *)
(* use, makes poll return at once, but with events the loop has no case    *)
(* for.                                                                    *)
Readable(n) == /\ Open(n)
               /\ fd[n][3] = "r"
               /\ pipe[PipeAt(n)] # <<>> \/ AtEnd(PipeAt(n))
Writable(n) == /\ Open(n)
               /\ fd[n][3] = "w"
               /\ ~Full(PipeAt(n)) \/ Broken(PipeAt(n))

Goto(c, l) == call' = [call EXCEPT ![c].pc = l]

Over(c) == call[c].pc = "over"

(* WEXITSTATUS, or 128 + WTERMSIG *)
ExitStatus(end) == IF end.signaled THEN 128 + end.code ELSE end.code

Result(exit, got) == [exit |-> exit, output |-> got]
-----------------------------------------------------------------------------
(* Mutations: what plausible mistakes would make of the definitions below. *)
(* Spec does not use them; with each in its place, a property fails.       *)

(* waitpid with WNOHANG: outputs that are at their end stand for an end of *)
(* the command.                                                            *)
WaitNoHang(c) == /\ call[c].pc = "wait"
                 /\ child' = [child EXCEPT ![c].state = "reaped"]
                 /\ Goto(c, "answer")
                 /\ UNCHANGED <<fd, pipe>>

(* The pipe to stdin is closed after the last write only. *)
CloseOwnOutputs(c) == /\ call[c].pc = "close_own"
                      /\ Close({call[c].ends["stdout"].r, call[c].ends["stderr"].r})
                      /\ Goto(c, "wait")
                      /\ UNCHANGED <<pipe, child>>

(* The pipe is not closed at the end of the input. *)
CloseFedLater(n, left) == UNCHANGED fd
-----------------------------------------------------------------------------
(* sh or sh-async is called; the discipline of Careful scripts *)
Polite(c, program, in_str) ==
  /\ program.reads => in_str # Nothing
  /\ \A d \in Calls :
       /\ call[d].in_str # Nothing => Over(d)
       /\ in_str # Nothing => \/ call[d].pc \in {"idle", "over"}
                             \/ child[d].state # "none"

Start(c) ==
  /\ call[c].pc = "idle"
  /\ \A d \in Calls : d < c => call[d].pc # "idle"
  /\ \E program \in Programs, in_str \in Inputs :
       /\ Careful => Polite(c, program, in_str)
       /\ call' = [call EXCEPT ![c].pc = "pipe_stdout",
                               ![c].program = program,
                               ![c].in_str = in_str,
                               ![c].to_write = in_str]
  /\ UNCHANGED <<fd, pipe, child>>

(* The calls of pipe, in order: label, stream, next label *)
Pipes == {<<"pipe_stdout", "stdout", "pipe_stdin">>,
          <<"pipe_stdin", "stdin", "pipe_stderr">>,
          <<"pipe_stderr", "stderr", "fork">>}

PipesAt(c) == {p \in Pipes : call[c].pc = p[1]}

OpenPipe(c) ==
  \E p \in PipesAt(c), r, w \in Free :
    /\ IsLeast(r, Free)
    /\ IsLeast(w, Free \ {r})
    /\ fd' = [fd EXCEPT ![r] = <<c, p[2], "r">>, ![w] = <<c, p[2], "w">>]
    /\ call' = [call EXCEPT ![c].ends[p[2]] = [r |-> r, w |-> w], ![c].pc = p[3]]
    /\ UNCHANGED <<pipe, child>>

(* EX_OSERR: sh returns it, sh-async returns nil and never calls back.     *)
(* What was opened stays open.                                             *)
Refuse(c) ==
  /\ \E answer \in {Nothing, Result(71, call[c].got)} :
       call' = [call EXCEPT ![c].pc = "over", ![c].answer = answer]
  /\ UNCHANGED <<fd, pipe, child>>

PipeFails(c) == /\ PipesAt(c) # {}
                /\ Cardinality(Free) < 2
                /\ Refuse(c)

ForkFails(c) == /\ call[c].pc = "fork"
                /\ "fork" \in Failures
                /\ Refuse(c)

(* fork, and what the child does up to exec: it keeps its own three ends   *)
(* and all that other calls have open.                                     *)
Fork(c) ==
  /\ call[c].pc = "fork"
  /\ child' = [child EXCEPT
       ![c].state = "running",
       ![c].held = {fd[n] : n \in Fds \ Free}
                     \ {<<c, "stdin", "w">>, <<c, "stdout", "r">>, <<c, "stderr", "r">>},
       ![c].to_say = [i \in 1 .. Len(call[c].program.says) |-> <<call[c].program.says[i], c>>]]
  /\ Goto(c, "close_others")
  /\ UNCHANGED <<fd, pipe>>

(* After fork, the ends that are the child's; after the loop, its own.     *)
CloseOthers(c) == /\ call[c].pc = "close_others"
                  /\ Close({call[c].ends["stdin"].r, call[c].ends["stdout"].w,
                            call[c].ends["stderr"].w})
                  /\ Goto(c, "poll")
                  /\ UNCHANGED <<pipe, child>>

CloseOwn(c) == /\ call[c].pc = "close_own"
               /\ Close({call[c].ends["stdin"].w, call[c].ends["stdout"].r,
                         call[c].ends["stderr"].r})
               /\ Goto(c, "wait")
               /\ UNCHANGED <<pipe, child>>

(* The streams poll would report now. *)
Ready(c) == {o \in Outputs \ call[c].eof : Readable(call[c].ends[o].r)}
              \cup {s \in {"stdin"} : /\ call[c].to_write # Nothing
                                     /\ Writable(call[c].ends[s].w)}

AtPoll(c) == call[c].pc = "poll" /\ call[c].revents = {}

(* poll returns with events; without, after 10 s, the loop polls again. *)
Poll(c) == /\ AtPoll(c)
           /\ call[c].eof # Outputs
           /\ Ready(c) # {}
           /\ call' = [call EXCEPT ![c].revents = Ready(c)]
           /\ UNCHANGED <<fd, pipe, child>>

PollFails(c) == /\ AtPoll(c)
                /\ call[c].eof # Outputs
                /\ "poll" \in Failures
                /\ call' = [call EXCEPT ![c].status = -1, ![c].pc = "close_own"]
                /\ UNCHANGED <<fd, pipe, child>>

LoopOver(c) == /\ AtPoll(c)
               /\ call[c].eof = Outputs
               /\ Goto(c, "close_own")
               /\ UNCHANGED <<fd, pipe, child>>

(* read_child_pipe, for stdout before stderr.  A read that fails is        *)
(* reported and has no other effect.                                       *)
ReadPipe(c, o) ==
  LET n == call[c].ends[o].r
      fails == ~Open(n) \/ fd[n][3] = "w"
      p == PipeAt(n)
  IN /\ call[c].pc = "poll"
     /\ o \in call[c].revents
     /\ o = "stderr" => "stdout" \notin call[c].revents
     /\ IF fails THEN /\ call' = [call EXCEPT ![c].revents = @ \ {o}]
                      /\ UNCHANGED pipe
        ELSE IF pipe[p] # <<>> THEN
          /\ call' = [call EXCEPT ![c].revents = @ \ {o},
                                  ![c].got[o] = Append(@, Head(pipe[p]))]
          /\ pipe' = [pipe EXCEPT ![p] = Tail(@)]
        ELSE /\ AtEnd(p)
             /\ call' = [call EXCEPT ![c].revents = @ \ {o}, ![c].eof = @ \cup {o}]
             /\ UNCHANGED pipe
     /\ UNCHANGED <<fd, child>>

(* A write of one block, of left blocks.  After the last one the pipe is   *)
(* closed (and is closed once more after the loop).                        *)
AfterWrite(left) == IF left > 1 THEN left - 1 ELSE Nothing

CloseFed(n, left) == IF left > 1 THEN UNCHANGED fd ELSE Close({n})

WriteIn(c) ==
  LET n == call[c].ends["stdin"].w
      p == PipeAt(n)
      left == call[c].to_write
      fails == ~Open(n) \/ fd[n][3] = "r" \/ (Broken(p) /\ left # 0)
  IN /\ call[c].pc = "poll"
     /\ call[c].revents = {"stdin"}
     /\ IF fails THEN /\ call' = [call EXCEPT ![c].revents = {}]
                      /\ UNCHANGED <<fd, pipe>>
        ELSE /\ pipe' = IF left = 0 THEN pipe ELSE [pipe EXCEPT ![p] = Append(@, c)]
             /\ left = 0 \/ ~Full(p)
             /\ call' = [call EXCEPT ![c].revents = {},
                                     ![c].to_write = AfterWrite(left)]
             /\ CloseFed(n, left)
     /\ UNCHANGED child

(* waitpid, unless poll failed *)
Wait(c) ==
  /\ call[c].pc = "wait"
  /\ \/ /\ call[c].status = -1
        /\ Goto(c, "answer")
        /\ UNCHANGED child
     \/ /\ call[c].status # -1
        /\ child[c].state = "zombie"
        /\ child' = [child EXCEPT ![c].state = "reaped"]
        /\ call' = [call EXCEPT ![c].status = ExitStatus(call[c].program.ends),
                                ![c].pc = "answer"]
  /\ UNCHANGED <<fd, pipe>>

(* sh returns the result or throws it; sh-async calls back with it. *)
Answer(c) == /\ call[c].pc = "answer"
             /\ call' = [call EXCEPT ![c].answer = Result(call[c].status, call[c].got),
                                     ![c].pc = "over"]
             /\ UNCHANGED <<fd, pipe, child>>
-----------------------------------------------------------------------------
(* The command.  A write to a pipe that nobody reads fails: SIGPIPE is     *)
(* ignored in Planck, and so in its children.                              *)
ChildReads(c) ==
  LET p == <<c, "stdin">>
  IN /\ child[c].state = "running"
     /\ call[c].program.reads
     /\ child[c].to_say = <<>>
     /\ pipe[p] # <<>>
     /\ child' = [child EXCEPT ![c].to_say = <<<<"stdout", Head(pipe[p])>>>>]
     /\ pipe' = [pipe EXCEPT ![p] = Tail(@)]
     /\ UNCHANGED <<fd, call>>

ChildSays(c) ==
  LET p == <<c, child[c].to_say[1][1]>>
      block == child[c].to_say[1][2]
  IN /\ child[c].state = "running"
     /\ child[c].to_say # <<>>
     /\ \/ /\ Broken(p)
           /\ child' = [child EXCEPT ![c].to_say = Tail(@)]
           /\ UNCHANGED pipe
        \/ /\ ~Broken(p)
           /\ ~Full(p)
           /\ pipe' = [pipe EXCEPT ![p] = Append(@, block)]
           /\ child' = [child EXCEPT ![c].to_say = Tail(@),
                                     ![c].said[p[2]] = Append(@, block)]
     /\ UNCHANGED <<fd, call>>

ChildEnds(c) ==
  /\ child[c].state = "running"
  /\ child[c].to_say = <<>>
  /\ call[c].program.reads => AtEnd(<<c, "stdin">>)
  /\ child' = [child EXCEPT ![c].state = "zombie", ![c].held = {}]
  /\ UNCHANGED <<fd, pipe, call>>
-----------------------------------------------------------------------------
(* Setting up a call; serving it; its command. *)
SetUp(c) == OpenPipe(c) \/ PipeFails(c) \/ Fork(c)

Serve(c) == \/ CloseOthers(c) \/ Poll(c) \/ LoopOver(c)
            \/ \E o \in Outputs : ReadPipe(c, o)
            \/ WriteIn(c) \/ CloseOwn(c) \/ Wait(c) \/ Answer(c)

Command(c) == ChildReads(c) \/ ChildSays(c) \/ ChildEnds(c)

AllOver == (\A c \in Calls : Over(c) /\ child[c].state # "running") /\ UNCHANGED vars

Next == \/ \E c \in Calls : \/ Start(c) \/ SetUp(c) \/ ForkFails(c)
                            \/ Serve(c) \/ PollFails(c) \/ Command(c)
        \/ AllOver

Spec == Init /\ [][Next]_vars

(* Threads and commands that can go on do.  A thread that polls is never   *)
(* kept from its next step for ever; nothing else is assumed.              *)
FairSpec == /\ Spec
            /\ \A c \in Calls : /\ WF_vars(SetUp(c))
                               /\ WF_vars(Serve(c))
                               /\ WF_vars(Command(c))
-----------------------------------------------------------------------------
Labels == {"idle", "pipe_stdout", "pipe_stdin", "pipe_stderr", "fork",
           "close_others", "poll", "close_own", "wait", "answer", "over"}

Ends == {<<c, s, side>> : c \in Calls, s \in Streams, side \in {"r", "w"}}

Said == [Outputs -> Seq(Calls)]

CallState == [pc : Labels,
              program : Programs \cup {Nothing},
              in_str : Nat \cup {Nothing},
              to_write : Nat \cup {Nothing},
              ends : [Streams -> [r : Fds \cup {0}, w : Fds \cup {0}]],
              revents : SUBSET Streams,
              eof : SUBSET Outputs,
              got : Said,
              status : Int,
              answer : [exit : Int, output : Said] \cup {Nothing}]

ChildState == [state : {"none", "running", "zombie", "reaped"},
               held : SUBSET Ends,
               to_say : Seq(Outputs \X Calls),
               said : Said]

TypeOK == /\ fd \in [Fds -> Ends \cup {Nothing}]
          /\ pipe \in [Calls \X Streams -> Seq(Calls)]
          /\ call \in [Calls -> CallState]
          /\ child \in [Calls -> ChildState]

(* An answer tells what the command of that very call said, all of it and  *)
(* in order, and how it ended; it is given once, after the command ended.  *)
(* This is what shell.c promises (ShellCalls), with many calls at a time   *)
(* and whatever fails.                                                     *)
Promise == INSTANCE ShellCalls WITH
  Words <- Calls,
  Ends <- {p.ends : p \in Programs},
  phase <- [c \in Calls |-> IF Over(c) THEN "over"
                            ELSE IF child[c].state = "none" THEN "idle" ELSE "running"],
  said <- [c \in Calls |-> child[c].said],
  ended <- [c \in Calls |-> IF child[c].state \in {"zombie", "reaped"}
                            THEN call[c].program.ends ELSE Nothing],
  answer <- [c \in Calls |-> call[c].answer]

KeepsPromise == Promise!Spec

(* A call that could have its pipes and its process leaves nothing behind: *)
(* when it is over no end of its pipes is open in this process.            *)
Refused(c) == Over(c) /\ child[c].state = "none"
NothingLeaks == \A c \in Calls : Over(c) /\ ~Refused(c) =>
                  \A n \in Fds : Open(n) => fd[n][1] # c

(* A careful script waits for none of its calls for ever: not when the     *)
(* command says and is told more than a pipe holds, not when calls overlap *)
(* and their children hold each other's pipes.                             *)
EveryCallEnds == \A c \in Calls : []<>(call[c].pc = "idle" \/ Over(c))
=============================================================================

------------------------------ MODULE ShellCalls ------------------------------
(***************************************************************************)
(* What planck.shell promises of its calls, abstractly: a command that is  *)
(* launched runs, says things on its two outputs and ends, and the call is *)
(* answered once, after the end, with all that was said and with the exit  *)
(* code.  A call that cannot have its pipes or its process is refused; a   *)
(* call may be given up, and is then answered with the code -1 and the     *)
(* beginning of what was said.                                             *)
(***************************************************************************)
EXTENDS Integers, Sequences

CONSTANTS Calls,
          Words,     (* what a command may say                             *)
          Ends,      (* how it may end: by itself or by a signal, and its code *)
          Nothing    (* no answer, no end                                  *)

VARIABLES phase,     (* idle, running, over                                *)
          said,      (* what the command of a call said on its outputs     *)
          ended,     (* how the command ended                              *)
          answer     (* the answer of the call                             *)

callVars == <<phase, said, ended, answer>>

Outputs == {"stdout", "stderr"}

Silence == [o \in Outputs |-> <<>>]

(* The exit code of a command that ended by itself or by a signal. *)
ExitCode(end) == IF end.signaled THEN 128 + end.code ELSE end.code

Init == /\ phase = [c \in Calls |-> "idle"]
        /\ said = [c \in Calls |-> Silence]
        /\ ended = [c \in Calls |-> Nothing]
        /\ answer = [c \in Calls |-> Nothing]

Launch(c) == /\ phase[c] = "idle"
             /\ phase' = [phase EXCEPT ![c] = "running"]
             /\ UNCHANGED <<said, ended, answer>>

(* EX_OSERR; an asynchronous call is refused without an answer. *)
Refuse(c) == /\ phase[c] = "idle"
             /\ phase' = [phase EXCEPT ![c] = "over"]
             /\ answer' \in {answer, [answer EXCEPT ![c] = [exit |-> 71, output |-> Silence]]}
             /\ UNCHANGED <<said, ended>>

Say(c, o, word) == /\ phase[c] # "idle"
                   /\ ended[c] = Nothing
                   /\ said' = [said EXCEPT ![c][o] = Append(@, word)]
                   /\ UNCHANGED <<phase, ended, answer>>

End(c, end) == /\ phase[c] # "idle"
               /\ ended[c] = Nothing
               /\ ended' = [ended EXCEPT ![c] = end]
               /\ UNCHANGED <<phase, said, answer>>

Answer(c) == /\ phase[c] = "running"
             /\ ended[c] # Nothing
             /\ phase' = [phase EXCEPT ![c] = "over"]
             /\ answer' = [answer EXCEPT ![c] = [exit |-> ExitCode(ended[c]),
                                                 output |-> said[c]]]
             /\ UNCHANGED <<said, ended>>

GiveUp(c) == /\ phase[c] = "running"
             /\ phase' = [phase EXCEPT ![c] = "over"]
             /\ \E m \in 0 .. Len(said[c].stdout), n \in 0 .. Len(said[c].stderr) :
                  answer' = [answer EXCEPT ![c] =
                    [exit |-> -1,
                     output |-> [stdout |-> SubSeq(said[c].stdout, 1, m),
                                 stderr |-> SubSeq(said[c].stderr, 1, n)]]]
             /\ UNCHANGED <<said, ended>>

Next == \E c \in Calls :
          \/ Launch(c)
          \/ Refuse(c)
          \/ \E o \in Outputs, word \in Words : Say(c, o, word)
          \/ \E end \in Ends : End(c, end)
          \/ Answer(c)
          \/ GiveUp(c)

Spec == Init /\ [][Next]_callVars
=============================================================================

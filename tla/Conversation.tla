---------------------------- MODULE Conversation ----------------------------
(***************************************************************************)
(* What planck.socket promises of its sockets, abstractly.  A data handler *)
(* hears, in order and without loss, what the peer of its socket says, and *)
(* is told once, last of all, that the socket is closed; unless the peer   *)
(* broke off, it has then heard everything.  Texts that are written go out *)
(* whole and one after the other; one that fails may go out in part.       *)
(***************************************************************************)
EXTENDS Integers, Sequences

CONSTANTS Conns,
          Bytes,
          Texts      (* what programs write                                *)

VARIABLES sent,      (* what the peer has sent                             *)
          heard,     (* what the handler was given                         *)
          closed,    (* "no", "closed" by either side, or "broken"         *)
          told,      (* the handler was told                               *)
          writing,   (* what is left to go out of the text being written   *)
          said       (* what has gone out                                  *)

conversation == <<sent, heard, closed, told, writing, said>>

Init == /\ sent = [c \in Conns |-> <<>>]
        /\ heard = [c \in Conns |-> <<>>]
        /\ closed = [c \in Conns |-> "no"]
        /\ told = [c \in Conns |-> FALSE]
        /\ writing = [c \in Conns |-> <<>>]
        /\ said = [c \in Conns |-> <<>>]

Send(c, b) == /\ closed[c] = "no"
              /\ sent' = [sent EXCEPT ![c] = Append(@, b)]
              /\ UNCHANGED <<heard, closed, told, writing, said>>

Hear(c) == /\ ~told[c]
           /\ \E n \in Len(heard[c]) + 1 .. Len(sent[c]) :
                heard' = [heard EXCEPT ![c] = SubSeq(sent[c], 1, n)]
           /\ UNCHANGED <<sent, closed, told, writing, said>>

Close(c) == /\ \/ closed[c] = "no" /\ closed' = [closed EXCEPT ![c] = "closed"]
               \/ closed' = [closed EXCEPT ![c] = "broken"]
            /\ UNCHANGED <<sent, heard, told, writing, said>>

Tell(c) == /\ closed[c] # "no" /\ ~told[c]
           /\ closed[c] = "closed" => heard[c] = sent[c]
           /\ told' = [told EXCEPT ![c] = TRUE]
           /\ UNCHANGED <<sent, heard, closed, writing, said>>

Write(c) == /\ writing[c] = <<>>
            /\ \E t \in Texts : writing' = [writing EXCEPT ![c] = t]
            /\ UNCHANGED <<sent, heard, closed, told, said>>

GoOut(c) == /\ \E n \in 1 .. Len(writing[c]) :
                 /\ said' = [said EXCEPT ![c] = @ \o SubSeq(writing[c], 1, n)]
                 /\ writing' = [writing EXCEPT ![c] = SubSeq(@, n + 1, Len(@))]
            /\ UNCHANGED <<sent, heard, closed, told>>

Fail(c) == /\ writing' = [writing EXCEPT ![c] = <<>>]
           /\ UNCHANGED <<sent, heard, closed, told, said>>

Next == \E c \in Conns : \/ \E b \in Bytes : Send(c, b)
                         \/ Hear(c) \/ Close(c) \/ Tell(c)
                         \/ Write(c) \/ GoOut(c) \/ Fail(c)

Spec == Init /\ [][Next]_conversation
=============================================================================

------------------------------ MODULE Sockets ------------------------------
(***************************************************************************)
(* planck.socket: sockets.c and its callers in functions.c.  Every socket  *)
(* has a thread that receives what arrives (read_inbound_socket_data of a  *)
(* socket that was connected, conn_handler of one that was accepted) and   *)
(* calls its JavaScript handler under eval_lock; JavaScript, wherever it   *)
(* runs, connects, writes to and closes sockets.                           *)
(*                                                                         *)
(* The network is external: a queue each way, of which the one that goes   *)
(* out is bounded, and a peer that reads, closes or breaks off.  Numbers   *)
(* of sockets are never used again, as close_socket only shuts them down.  *)
(***************************************************************************)
EXTENDS Integers, Sequences, FiniteSets, Functions

CONSTANTS Outbound,    (* the sockets that will be connected ...           *)
          Inbound,     (* ... and accepted                                 *)
          Bytes,
          Speech,      (* a peer sends a beginning of it                   *)
          Leads,       (* bytes that begin a character of several bytes ... *)
          Trails,      (* ... and that end one                             *)
          Texts,       (* what JavaScript writes                           *)
          Capacity,    (* of the queue that goes out                       *)
          Chunk,       (* the most that recv is asked for: 4095            *)
          MaxSent,     (* bound: the bytes all peers send                  *)
          MaxEnds,     (* bound: the sockets closed, or broken at random   *)
          MaxWrites, MaxEvaluations,   (* bounds                           *)
          MainLocks,   (* FALSE: main runs a function of -m, unlocked      *)
          None, Main

Conns == Outbound \cup Inbound

ASSUME SocketsAssumption ==
  /\ Outbound \cap Inbound = {}
  /\ Speech \in Seq(Bytes)
  /\ Leads \cup Trails \subseteq Bytes
  /\ Texts \subseteq Seq(Bytes)
  /\ {Capacity, Chunk} \subseteq Nat \ {0}
  /\ {MaxSent, MaxEnds, MaxWrites, MaxEvaluations} \subseteq Nat
  /\ MainLocks \in BOOLEAN
  /\ None \notin Conns \cup {Main} /\ Main \notin Conns

Runners == Conns \cup {Main}

VARIABLES listening,   (* a port is listened on                            *)
          state,       (* "none", "waiting" to be accepted, or "open"      *)
          inq, outq,   (* what is on its way                               *)
          peer,        (* "open", "closed" or "broken"                     *)
          shut,        (* close_socket was called                          *)
          pc,          (* where the thread of a socket is, and of main     *)
          buffer,      (* receive_buffer                                   *)
          eval_lock,
          text,        (* of write_to_socket, on the stack of each runner  *)
          to,          (* its fd, or None                                  *)
          writes, evaluations,
          sent, heard, told, said   (* history; told counts                *)

network == <<inq, outq, peer, sent, said>>
program == <<text, to, writes>>
vars == <<listening, state, network, shut, pc, buffer, eval_lock, program, evaluations,
          heard, told>>

Init ==
  /\ listening = FALSE
  /\ state = [c \in Conns |-> "none"]
  /\ inq = [c \in Conns |-> <<>>] /\ outq = [c \in Conns |-> <<>>]
  /\ peer = [c \in Conns |-> "open"]
  /\ shut = [c \in Conns |-> FALSE]
  /\ pc = [r \in Runners |-> "none"]
  /\ buffer = [c \in Conns |-> <<>>]
  /\ eval_lock = None
  /\ text = [r \in Runners |-> <<>>] /\ to = [r \in Runners |-> None]
  /\ writes = 0 /\ evaluations = 0
  /\ sent = [c \in Conns |-> <<>>] /\ said = [c \in Conns |-> <<>>]
  /\ heard = [c \in Conns |-> <<>>] /\ told = [c \in Conns |-> 0]

Ends == Cardinality({c \in Conns : shut[c]}) + Cardinality({c \in Conns : peer[c] # "open"})
Drop(s, n) == SubSeq(s, n + 1, Len(s))
Goes(r, from, label) == pc[r] = from /\ pc' = [pc EXCEPT ![r] = label]

(* Where JavaScript runs, and may call what is below. *)
Running(r) == pc[r] \in {"evaluating", "accepting", "handling", "ending"} /\ to[r] = None

(* The sockets whose numbers JavaScript has been given. *)
Known(c) == state[c] = "open" /\ pc[c] # "accept" /\ (c \in Inbound => pc[c] # "unserved")

(* What becomes of received bytes: a string of JavaScript, which is empty  *)
(* if they are not valid UTF-8, as when a character was cut in two.        *)
Decoded(bytes) == IF bytes[1] \in Trails \/ bytes[Len(bytes)] \in Leads THEN <<>> ELSE bytes
-----------------------------------------------------------------------------
(* Mutations: what plausible mistakes would make of the definitions below. *)

(* write_to_socket starts over after a write that was cut short. *)
PutAgain(r) ==
  /\ to[r] # None /\ peer[to[r]] # "broken" /\ ~shut[to[r]]
  /\ LET c == to[r]
     IN \E n \in 1 .. Len(text[r]) :
          /\ Len(outq[c]) + n <= Capacity
          /\ outq' = [outq EXCEPT ![c] = @ \o SubSeq(text[r], 1, n)]
          /\ said' = [said EXCEPT ![c] = @ \o SubSeq(text[r], 1, n)]
          /\ to' = [to EXCEPT ![r] = IF n = Len(text[r]) THEN None ELSE c]
          /\ text' = [text EXCEPT ![r] = IF n = Len(@) THEN <<>> ELSE @]
  /\ UNCHANGED <<listening, state, inq, peer, sent, shut, pc, buffer, eval_lock, writes,
                 evaluations, heard, told>>

(* The thread of a socket that was closed here ends without a last call. *)
RecvEndsQuietly(c) ==
  /\ inq[c] = <<>>
  /\ \/ peer[c] # "open" /\ Goes(c, "recv", "final")
     \/ peer[c] = "open" /\ shut[c] /\ Goes(c, "recv", "done")
  /\ UNCHANGED <<listening, state, network, shut, buffer, eval_lock, program, evaluations,
                 heard, told>>

(* The handler is called without eval_lock. *)
DataArrivedUnlocked(c) ==
  /\ Goes(c, "deliver", "handling")
  /\ heard' = [heard EXCEPT ![c] = @ \o Decoded(buffer[c])]
  /\ buffer' = [buffer EXCEPT ![c] = <<>>]
  /\ UNCHANGED <<listening, state, network, shut, eval_lock, program, evaluations, told>>
-----------------------------------------------------------------------------
(* What JavaScript calls *)

(* function_socket_listen; it throws if the port is taken. *)
Listen(r) ==
  /\ Running(r)
  /\ listening' = TRUE
  /\ UNCHANGED <<state, network, shut, pc, buffer, eval_lock, program, evaluations, heard, told>>

(* connect_socket makes a thread, which may receive before this one has    *)
(* returned, or may not be made at all: no failure of pthread_create is    *)
(* noticed, as it returns no negative number.  When there is no connection *)
(* it throws.                                                              *)
Connect(r, c) ==
  /\ Running(r)
  /\ c \in Outbound /\ state[c] = "none"
  /\ state' = [state EXCEPT ![c] = "open"]
  /\ Goes(c, "none", "recv") \/ Goes(c, "none", "unserved")
  /\ UNCHANGED <<listening, network, shut, buffer, eval_lock, program, evaluations, heard, told>>

(* write_to_socket, called ... *)
CallWrite(r, c, t) ==
  /\ Running(r)
  /\ Known(c)
  /\ writes < MaxWrites /\ writes' = writes + 1
  /\ to' = [to EXCEPT ![r] = IF t = <<>> THEN None ELSE c]
  /\ text' = [text EXCEPT ![r] = t]
  /\ UNCHANGED <<listening, state, network, shut, pc, buffer, eval_lock, evaluations, heard, told>>

(* ... waits for room, and writes what there is room for; a signal cuts a  *)
(* write short; ...                                                        *)
Put(r) ==
  /\ to[r] # None /\ peer[to[r]] # "broken" /\ ~shut[to[r]]
  /\ LET c == to[r]
     IN \E n \in 1 .. Len(text[r]) :
          /\ Len(outq[c]) + n <= Capacity
          /\ outq' = [outq EXCEPT ![c] = @ \o SubSeq(text[r], 1, n)]
          /\ said' = [said EXCEPT ![c] = @ \o SubSeq(text[r], 1, n)]
          /\ text' = [text EXCEPT ![r] = Drop(@, n)]
          /\ to' = [to EXCEPT ![r] = IF n = Len(text[r]) THEN None ELSE c]
  /\ UNCHANGED <<listening, state, inq, peer, sent, shut, pc, buffer, eval_lock, writes,
                 evaluations, heard, told>>

(* ... it fails, and throws, when the socket is shut or broken, or when    *)
(* the system refuses it, as it may when it is short of memory.            *)
WriteReturns(r) ==
  /\ to' = [to EXCEPT ![r] = None]
  /\ text' = [text EXCEPT ![r] = <<>>]
  /\ UNCHANGED <<listening, state, network, shut, pc, buffer, eval_lock, writes, evaluations,
                 heard, told>>
WriteFails(r) == /\ to[r] # None /\ (peer[to[r]] = "broken" \/ shut[to[r]])
                 /\ WriteReturns(r)
WriteRefused(r) == to[r] # None /\ WriteReturns(r)

(* close_socket *)
CallClose(r, c) ==
  /\ Running(r)
  /\ Known(c)
  /\ Ends < MaxEnds
  /\ shut' = [shut EXCEPT ![c] = TRUE]
  /\ UNCHANGED <<listening, state, network, pc, buffer, eval_lock, program, evaluations, heard,
                 told>>
-----------------------------------------------------------------------------
(* Where JavaScript runs *)

Lock(r) == eval_lock = None /\ eval_lock' = r
Unlock(r) == eval_lock' = IF eval_lock = r THEN None ELSE eval_lock

Evaluate ==
  /\ evaluations < MaxEvaluations /\ evaluations' = evaluations + 1
  /\ Goes(Main, "none", "evaluating")
  /\ IF MainLocks THEN Lock(Main) ELSE UNCHANGED eval_lock
  /\ UNCHANGED <<listening, state, network, shut, buffer, program, heard, told>>

EndEvaluate ==
  /\ Running(Main)
  /\ Goes(Main, "evaluating", "none")
  /\ Unlock(Main)
  /\ UNCHANGED <<listening, state, network, shut, buffer, program, evaluations, heard, told>>

(* accept_connections makes a thread, in the same way. *)
Accept(c) ==
  /\ listening /\ state[c] = "waiting"
  /\ state' = [state EXCEPT ![c] = "open"]
  /\ Goes(c, "none", "accept") \/ Goes(c, "none", "unserved")
  /\ UNCHANGED <<listening, network, shut, buffer, eval_lock, program, evaluations, heard, told>>

(* accepted_socket_connection calls the accept handler. *)
CallAccepted(c) ==
  /\ Goes(c, "accept", "accepting")
  /\ Lock(c)
  /\ UNCHANGED <<listening, state, network, shut, buffer, program, evaluations, heard, told>>

(* recv; bytes that have arrived come before the end. *)
Recv(c) ==
  /\ Goes(c, "recv", "deliver")
  /\ \E n \in 1 .. Len(inq[c]) :
       /\ n <= Chunk
       /\ buffer' = [buffer EXCEPT ![c] = SubSeq(inq[c], 1, n)]
       /\ inq' = [inq EXCEPT ![c] = Drop(@, n)]
  /\ UNCHANGED <<listening, state, outq, peer, sent, said, shut, eval_lock, program, evaluations,
                 heard, told>>

(* On an open socket recv does not return for less: the handlers of        *)
(* signals are installed with signal(), after which it is restarted, and   *)
(* no timeout is set.                                                      *)
RecvEnds(c) ==
  /\ inq[c] = <<>> /\ (peer[c] # "open" \/ shut[c])
  /\ Goes(c, "recv", "final")
  /\ UNCHANGED <<listening, state, network, shut, buffer, eval_lock, program, evaluations,
                 heard, told>>

(* socket_conn_data_arrived, with data and without. *)
DataArrived(c) ==
  /\ Goes(c, "deliver", "handling")
  /\ Lock(c)
  /\ heard' = [heard EXCEPT ![c] = @ \o Decoded(buffer[c])]
  /\ buffer' = [buffer EXCEPT ![c] = <<>>]
  /\ UNCHANGED <<listening, state, network, shut, program, evaluations, told>>
SocketClosed(c) ==
  /\ Goes(c, "final", "ending")
  /\ Lock(c)
  /\ told' = [told EXCEPT ![c] = @ + 1]
  /\ UNCHANGED <<listening, state, network, shut, buffer, program, evaluations, heard>>

HandlerEnds(c) ==
  /\ Running(c)
  /\ \/ Goes(c, "accepting", "recv") \/ Goes(c, "handling", "recv") \/ Goes(c, "ending", "done")
  /\ Unlock(c)
  /\ UNCHANGED <<listening, state, network, shut, buffer, program, evaluations, heard, told>>
-----------------------------------------------------------------------------
(* The peers *)

PeerConnects(c) ==
  /\ listening /\ c \in Inbound /\ state[c] = "none"
  /\ state' = [state EXCEPT ![c] = "waiting"]
  /\ UNCHANGED <<listening, network, shut, pc, buffer, eval_lock, program, evaluations, heard, told>>

(* What comes after the socket is shut is answered with a reset. *)
PeerSends(c) ==
  /\ state[c] # "none" /\ peer[c] = "open" /\ ~shut[c]
  /\ FoldFunction(+, 0, [d \in Conns |-> Len(sent[d])]) < MaxSent
  /\ Len(sent[c]) < Len(Speech)
  /\ sent' = [sent EXCEPT ![c] = Append(@, Speech[Len(@) + 1])]
  /\ inq' = [inq EXCEPT ![c] = Append(@, Speech[Len(sent[c]) + 1])]
  /\ UNCHANGED <<listening, state, outq, peer, said, shut, pc, buffer, eval_lock, program,
                 evaluations, heard, told>>

PeerReads(c) ==
  /\ peer[c] = "open" /\ outq[c] # <<>>
  /\ outq' = [outq EXCEPT ![c] = Tail(@)]
  /\ UNCHANGED <<listening, state, inq, peer, sent, said, shut, pc, buffer, eval_lock, program,
                 evaluations, heard, told>>

PeerCloses(c) ==
  /\ state[c] # "none" /\ peer[c] = "open"
  /\ Ends < MaxEnds
  /\ peer' = [peer EXCEPT ![c] = "closed"]
  /\ UNCHANGED <<listening, state, inq, outq, sent, said, shut, pc, buffer, eval_lock, program,
                 evaluations, heard, told>>

(* A reset; it may take with it what had arrived. *)
Breaks(c) ==
  /\ state[c] # "none" /\ peer[c] # "broken"
  /\ Ends < MaxEnds \/ (peer[c] = "closed" /\ outq[c] # <<>>)
  /\ peer' = [peer EXCEPT ![c] = "broken"]
  /\ outq' = [outq EXCEPT ![c] = <<>>]
  /\ inq' \in {inq, [inq EXCEPT ![c] = <<>>]}
  /\ UNCHANGED <<listening, state, sent, said, shut, pc, buffer, eval_lock, program, evaluations,
                 heard, told>>

Call(r) == \/ Listen(r)
           \/ \E c \in Conns : Connect(r, c) \/ CallClose(r, c) \/ \E t \in Texts : CallWrite(r, c, t)
Thread(c) == \/ Accept(c) \/ CallAccepted(c) \/ Recv(c) \/ RecvEnds(c)
             \/ DataArrived(c) \/ SocketClosed(c) \/ HandlerEnds(c)
Writing(r) == Put(r) \/ WriteFails(r)

Next == \/ Evaluate \/ EndEvaluate
        \/ \E r \in Runners : Call(r) \/ Writing(r) \/ WriteRefused(r)
        \/ \E c \in Conns : \/ Thread(c) \/ PeerConnects(c) \/ PeerReads(c) \/ PeerCloses(c)
                            \/ Breaks(c) \/ PeerSends(c)

(* Threads run, JavaScript ends, and a peer reads what it is sent, or      *)
(* answers with a reset when it has closed; it need not send or close.     *)
Fairness == /\ WF_vars(EndEvaluate)
            /\ \A r \in Runners : WF_vars(Writing(r))
            /\ \A c \in Conns : /\ WF_vars(Thread(c)) /\ WF_vars(PeerReads(c))
                                /\ WF_vars(peer[c] = "closed" /\ outq[c] # <<>> /\ Breaks(c))

Spec == Init /\ [][Next]_vars /\ Fairness
-----------------------------------------------------------------------------
TypeOK ==
  /\ state \in [Conns -> {"none", "waiting", "open"}]
  /\ \A c \in Conns : /\ Len(outq[c]) <= Capacity /\ Len(buffer[c]) <= Chunk
                      /\ pc[c] = "none" <=> state[c] # "open"
                      /\ buffer[c] # <<>> <=> pc[c] = "deliver"
  /\ \A r \in Runners : to[r] # None <=> text[r] # <<>>
  /\ \A r \in Runners : pc[r] \in {"evaluating", "accepting", "handling", "ending"} =>
                          eval_lock = r \/ (r = Main /\ ~MainLocks)

(* "This data handler will be called when data arrives on the socket. When *)
(* the socket is closed the data handler will be called with a nil data    *)
(* value." (planck/socket/alpha.cljs:21): sockets keep the promise of      *)
(* Conversation, however data is cut into chunks, writes are cut short,    *)
(* and handlers come between.                                              *)
Closed(c) == IF peer[c] = "broken" THEN "broken"
             ELSE IF peer[c] = "closed" \/ shut[c] THEN "closed" ELSE "no"
InProgress(c) == LET ws == {r \in Runners : to[r] = c}
                 IN IF ws = {} THEN <<>> ELSE text[CHOOSE r \in ws : TRUE]
Promise == INSTANCE Conversation WITH
             closed <- [c \in Conns |-> Closed(c)],
             told <- [c \in Conns |-> told[c] > 0],
             writing <- [c \in Conns |-> InProgress(c)]
KeepsPromise == Promise!Spec

(* Whoever closes a socket, the handler is told, unless the socket never   *)
(* had a thread: no order of handlers, writes and closes leaves one out.   *)
ClosedIsTold ==
  \A c \in Conns : []<>((pc[c] \notin {"none", "unserved"} /\ Closed(c) # "no") => told[c] = 1)
=============================================================================

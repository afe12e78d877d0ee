--------------------------- MODULE SocketsProofs ----------------------------
(***************************************************************************)
(* Proofs about Sockets, for any sockets, any speech and any texts: every  *)
(* thread is at a place that fits its socket, and the sockets implement    *)
(* Conversation, if handlers and main run one at a time and no character   *)
(* takes more than one byte.                                               *)
(***************************************************************************)
EXTENDS Sockets, SequenceTheorems, TLAPS

Data == Seq(Bytes)
Inside == {"evaluating", "accepting", "handling", "ending"}
ConnLabels == {"none", "unserved", "accept", "accepting", "recv", "deliver", "handling", "final",
               "ending", "done"}

Typed ==
  /\ state \in [Conns -> {"none", "waiting", "open"}]
  /\ inq \in [Conns -> Data] /\ outq \in [Conns -> Data] /\ buffer \in [Conns -> Data]
  /\ sent \in [Conns -> Data] /\ heard \in [Conns -> Data] /\ said \in [Conns -> Data]
  /\ peer \in [Conns -> {"open", "closed", "broken"}]
  /\ shut \in [Conns -> BOOLEAN]
  /\ pc \in [Runners -> ConnLabels \cup {"evaluating"}]
  /\ pc[Main] \in {"none", "evaluating"} /\ \A c \in Conns : pc[c] \in ConnLabels
  /\ text \in [Runners -> Data] /\ to \in [Runners -> Conns \cup {None}]
  /\ told \in [Conns -> Nat]

(* Only who runs JavaScript writes. *)
WritersRun == \A r \in Runners : to[r] # None => pc[r] \in Inside

Shape == Typed /\ TypeOK /\ WritersRun
-----------------------------------------------------------------------------
(* Facts about sequences. *)
LEMMA Cut ==
  ASSUME NEW S, NEW s \in Seq(S), NEW n \in 0 .. Len(s)
  PROVE  /\ SubSeq(s, 1, n) \in Seq(S) /\ Len(SubSeq(s, 1, n)) = n
         /\ Drop(s, n) \in Seq(S) /\ Len(Drop(s, n)) = Len(s) - n
         /\ SubSeq(s, 1, n) \o Drop(s, n) = s
         /\ n > 0 => SubSeq(s, 1, n) # <<>>
         /\ n < Len(s) <=> Drop(s, n) # <<>>
<1>1. Len(s) \in Nat /\ n \in Nat /\ \A i \in 1 .. Len(s) : s[i] \in S
  BY LenProperties, ElementOfSeq
<1>2. \A i \in 1 .. n : s[i] \in S
  BY <1>1
<1>3. \A i \in n + 1 .. Len(s) : s[i] \in S
  BY <1>1
<1>4. SubSeq(s, 1, n) \in Seq(S) /\ Len(SubSeq(s, 1, n)) = IF 1 <= n THEN n - 1 + 1 ELSE 0
  BY <1>1, <1>2, SubSeqProperties
<1>5. /\ Drop(s, n) \in Seq(S)
      /\ Len(Drop(s, n)) = IF n + 1 <= Len(s) THEN Len(s) - (n + 1) + 1 ELSE 0
  BY <1>1, <1>3, SubSeqProperties DEF Drop
<1>6. Len(SubSeq(s, 1, n)) = n /\ Len(Drop(s, n)) = Len(s) - n
  BY <1>1, <1>4, <1>5
<1>7. 1 \in 1 .. Len(s) + 1 /\ n \in (1 - 1) .. Len(s) /\ Len(s) \in n .. Len(s)
  BY <1>1
<1>8. SubSeq(s, 1, n) \o SubSeq(s, n + 1, Len(s)) = SubSeq(s, 1, Len(s))
  BY <1>7, ConcatAdjacentSubSeq, Zenon
<1>9. Drop(s, n) # <<>> <=> Len(Drop(s, n)) # 0
  BY <1>5, EmptySeq
<1>10. n > 0 => SubSeq(s, 1, n) # <<>>
  BY <1>1, <1>6, EmptySeq
<1>11. n < Len(s) <=> Drop(s, n) # <<>>
  BY <1>1, <1>6, <1>9
<1>12. SubSeq(s, 1, n) \o Drop(s, n) = s
  BY <1>8, SubSeqFull DEF Drop
<1> QED BY <1>4, <1>5, <1>6, <1>10, <1>11, <1>12

LEMMA Beginning ==
  ASSUME NEW s \in Data, NEW t \in Data
  PROVE  s = SubSeq(s \o t, 1, Len(s))
<1>1. Len(s) \in Nat
  BY LenProperties DEF Data
<1>2. CASE Len(s) = 0
  <2>1. s = <<>>
    BY <1>2, EmptySeq DEF Data
  <2> QED BY <1>2, <2>1, SubSeqEmpty
<1>3. CASE Len(s) # 0
  <2>1. SubSeq(s \o t, 1, Len(s)) = SubSeq(s, 1, Len(s))
    BY <1>1, <1>3, SubSeqOfConcat1 DEF Data
  <2> QED BY <2>1, SubSeqFull DEF Data
<1> QED BY <1>2, <1>3

LEMMA Associative == \A s, t, u \in Data : (s \o t) \o u = s \o (t \o u)
BY ConcatAssociative DEF Data

LEMMA Joined ==
  ASSUME NEW s \in Data, NEW t \in Data
  PROVE  s \o t \in Data /\ Len(s \o t) = Len(s) + Len(t)
BY ConcatProperties DEF Data
-----------------------------------------------------------------------------
(* The shape of the state *)
LEMMA ShapeStarts == Init => Shape
<1> SUFFICES ASSUME Init PROVE Shape
  OBVIOUS
<1> USE SocketsAssumption DEF Init, Runners, Data
<1>0. <<>> \in Seq(Bytes) /\ Len(<<>>) = 0
  BY EmptySeq
<1>1. Typed
  BY <1>0 DEF Typed, ConnLabels
<1>2. TypeOK
  BY <1>0 DEF TypeOK
<1> QED BY <1>1, <1>2 DEF Shape, WritersRun

LEMMA CallsShape ==
  ASSUME Shape, NEW r \in Runners,
         \/ Listen(r)
         \/ \E c \in Conns : Connect(r, c) \/ CallClose(r, c)
  PROVE  Shape'
<1> USE SocketsAssumption DEF Shape, Typed, Runners, ConnLabels, Goes
<1>1. CASE Listen(r)
  BY <1>1 DEF Listen, TypeOK, WritersRun, network, program
<1>2. ASSUME NEW c \in Conns, Connect(r, c) PROVE Shape'
  <2>0. PICK l \in {"recv", "unserved"} : pc' = [pc EXCEPT ![c] = l]
    BY <1>2 DEF Connect
  <2>1. Typed'
    BY <1>2, <2>0 DEF Connect, network, program
  <2>2. TypeOK'
    BY <1>2, <2>0 DEF Connect, network, program, TypeOK
  <2>3. WritersRun'
    BY <1>2, <2>0 DEF Connect, network, program, WritersRun, Inside
  <2> QED BY <2>1, <2>2, <2>3
<1>3. ASSUME NEW c \in Conns, CallClose(r, c) PROVE Shape'
  BY <1>3 DEF CallClose, network, program, TypeOK, WritersRun
<1> QED BY <1>1, <1>2, <1>3

LEMMA WritesShape ==
  ASSUME Shape, NEW r \in Runners,
         \/ \E c \in Conns, t \in Texts : CallWrite(r, c, t)
         \/ Put(r) \/ WriteFails(r) \/ WriteRefused(r)
  PROVE  Shape'
<1> USE SocketsAssumption DEF Shape, Typed, Runners
<1>0. <<>> \in Data
  BY EmptySeq DEF Data
<1>1. ASSUME NEW c \in Conns, NEW t \in Texts, CallWrite(r, c, t) PROVE Shape'
  <2>1. t \in Data
    BY DEF Data
  <2>2. Typed'
    BY <1>0, <1>1, <2>1 DEF CallWrite, network
  <2>3. TypeOK'
    BY <1>1, <2>1 DEF CallWrite, network, TypeOK
  <2>4. WritersRun'
    BY <1>1 DEF CallWrite, Running, WritersRun, Inside
  <2> QED BY <2>2, <2>3, <2>4
<1>2. CASE Put(r)
  <2> DEFINE c == to[r]
  <2>1. c \in Conns
    BY <1>2 DEF Put
  <2>2. PICK n \in 1 .. Len(text[r]) :
          /\ Len(outq[c]) + n <= Capacity
          /\ outq' = [outq EXCEPT ![c] = @ \o SubSeq(text[r], 1, n)]
          /\ said' = [said EXCEPT ![c] = @ \o SubSeq(text[r], 1, n)]
          /\ text' = [text EXCEPT ![r] = Drop(@, n)]
          /\ to' = [to EXCEPT ![r] = IF n = Len(text[r]) THEN None ELSE c]
    BY <1>2 DEF Put
  <2>3. text[r] \in Data /\ Len(text[r]) \in Nat /\ n \in 0 .. Len(text[r])
    <3>1. text[r] \in Data
      OBVIOUS
    <3>2. Len(text[r]) \in Nat
      BY <3>1, LenProperties, Zenon DEF Data
    <3> QED BY <3>1, <3>2
  <2>4. /\ SubSeq(text[r], 1, n) \in Data /\ Len(SubSeq(text[r], 1, n)) = n
        /\ Drop(text[r], n) \in Data /\ (n < Len(text[r]) <=> Drop(text[r], n) # <<>>)
    BY <2>3, Cut DEF Data
  <2>5. /\ outq[c] \o SubSeq(text[r], 1, n) \in Data
        /\ Len(outq[c] \o SubSeq(text[r], 1, n)) <= Capacity
        /\ said[c] \o SubSeq(text[r], 1, n) \in Data
    <3>1. outq[c] \in Data /\ said[c] \in Data
      BY <2>1
    <3>2. /\ outq[c] \o SubSeq(text[r], 1, n) \in Data
          /\ Len(outq[c] \o SubSeq(text[r], 1, n)) = Len(outq[c]) + Len(SubSeq(text[r], 1, n))
          /\ said[c] \o SubSeq(text[r], 1, n) \in Data
      BY <2>4, <3>1, Joined, Zenon
    <3> QED BY <2>2, <2>4, <3>2
  <2>6. UNCHANGED <<listening, state, inq, peer, sent, shut, pc, buffer, eval_lock, heard, told>>
    BY <1>2 DEF Put
  <2>7. Typed'
    BY <2>1, <2>2, <2>4, <2>5, <2>6
  <2>8. TypeOK'
    <3>1. n < Len(text[r]) <=> n # Len(text[r])
      BY <2>3
    <3> QED BY <2>1, <2>2, <2>4, <2>5, <2>6, <3>1 DEF TypeOK
  <2>9. WritersRun'
    BY <1>2, <2>2, <2>6 DEF WritersRun, Put
  <2> QED BY <2>7, <2>8, <2>9
<1>3. CASE WriteReturns(r)
  BY <1>0, <1>3 DEF WriteReturns, network, TypeOK, WritersRun
<1> QED BY <1>1, <1>2, <1>3 DEF WriteFails, WriteRefused

LEMMA LocksShape ==
  ASSUME Shape,
         \/ Evaluate \/ EndEvaluate
         \/ \E c \in Conns : \/ Accept(c) \/ CallAccepted(c) \/ RecvEnds(c)
                             \/ SocketClosed(c) \/ HandlerEnds(c)
  PROVE  Shape'
<1> USE SocketsAssumption DEF Shape, Typed, Runners, ConnLabels, Goes, Lock, Unlock, network, program
<1>1. CASE Evaluate
  <2>1. Typed'
    BY <1>1 DEF Evaluate
  <2>2. TypeOK'
    BY <1>1 DEF Evaluate, TypeOK
  <2> QED BY <1>1, <2>1, <2>2 DEF Evaluate, WritersRun, Inside
<1>2. CASE EndEvaluate
  <2>1. Typed'
    BY <1>2 DEF EndEvaluate
  <2>2. TypeOK'
    BY <1>2 DEF EndEvaluate, TypeOK, Running
  <2> QED BY <1>2, <2>1, <2>2 DEF EndEvaluate, WritersRun, Inside, Running
<1>3. ASSUME NEW c \in Conns, Accept(c) PROVE Shape'
  <2>0. PICK l \in {"accept", "unserved"} : pc[c] = "none" /\ pc' = [pc EXCEPT ![c] = l]
    BY <1>3 DEF Accept
  <2>1. Typed'
    BY <1>3, <2>0 DEF Accept
  <2>2. TypeOK'
    BY <1>3, <2>0 DEF Accept, TypeOK
  <2> QED BY <1>3, <2>0, <2>1, <2>2 DEF Accept, WritersRun, Inside
<1>6. ASSUME NEW c \in Conns, CallAccepted(c) PROVE Shape'
  <2>1. Typed'
    BY <1>6 DEF CallAccepted
  <2>2. TypeOK'
    BY <1>6 DEF CallAccepted, TypeOK
  <2> QED BY <1>6, <2>1, <2>2 DEF CallAccepted, WritersRun, Inside
<1>7. ASSUME NEW c \in Conns, RecvEnds(c) PROVE Shape'
  <2>1. Typed'
    BY <1>7 DEF RecvEnds
  <2>2. TypeOK'
    BY <1>7 DEF RecvEnds, TypeOK
  <2> QED BY <1>7, <2>1, <2>2 DEF RecvEnds, WritersRun, Inside
<1>4. ASSUME NEW c \in Conns, SocketClosed(c) PROVE Shape'
  <2>1. Typed'
    BY <1>4 DEF SocketClosed
  <2>2. TypeOK'
    BY <1>4 DEF SocketClosed, TypeOK
  <2> QED BY <1>4, <2>1, <2>2 DEF SocketClosed, WritersRun, Inside
<1>5. ASSUME NEW c \in Conns, HandlerEnds(c) PROVE Shape'
  <2>0. PICK l \in {"recv", "done"} : pc' = [pc EXCEPT ![c] = l]
    BY <1>5 DEF HandlerEnds
  <2>3. pc[c] \in {"accepting", "handling", "ending"} /\ to[c] = None /\ eval_lock = c
    <3>1. to[c] = None
      BY <1>5 DEF HandlerEnds, Running
    <3>2. pc[c] \in {"accepting", "handling", "ending"}
      BY <1>5 DEF HandlerEnds
    <3> QED BY <3>1, <3>2 DEF TypeOK
  <2>4. UNCHANGED <<listening, state, network, shut, buffer, program, evaluations, heard, told>>
        /\ eval_lock' = None
    BY <1>5, <2>3 DEF HandlerEnds
  <2>1. Typed'
    BY <2>0, <2>4
  <2>2. TypeOK'
    BY <2>0, <2>3, <2>4 DEF TypeOK
  <2> QED BY <2>0, <2>1, <2>2, <2>3, <2>4 DEF WritersRun, Inside
<1> QED BY <1>1, <1>2, <1>3, <1>4, <1>5, <1>6, <1>7

LEMMA ReceivesShape ==
  ASSUME Shape, NEW c \in Conns, Recv(c) \/ DataArrived(c)
  PROVE  Shape'
<1> USE SocketsAssumption DEF Shape, Typed, Runners, ConnLabels, Goes, Lock, network, program
<1>0. <<>> \in Data
  BY EmptySeq DEF Data
<1>1. CASE Recv(c)
  <2>1. PICK n \in 1 .. Len(inq[c]) : /\ n <= Chunk
                                      /\ buffer' = [buffer EXCEPT ![c] = SubSeq(inq[c], 1, n)]
                                      /\ inq' = [inq EXCEPT ![c] = Drop(@, n)]
    BY <1>1 DEF Recv
  <2>2. Len(inq[c]) \in Nat /\ n \in 0 .. Len(inq[c]) /\ n > 0
    BY LenProperties, SMTT(30) DEF Data
  <2>3. /\ SubSeq(inq[c], 1, n) \in Data /\ Len(SubSeq(inq[c], 1, n)) = n
        /\ SubSeq(inq[c], 1, n) # <<>> /\ Drop(inq[c], n) \in Data
    <3>1. PICK q \in Seq(Bytes) : q = inq[c]
      BY DEF Data
    <3>2. n \in 0 .. Len(q) /\ n > 0
      BY <2>2, <3>1
    <3>3. /\ SubSeq(q, 1, n) \in Seq(Bytes) /\ Len(SubSeq(q, 1, n)) = n
          /\ SubSeq(q, 1, n) # <<>> /\ Drop(q, n) \in Seq(Bytes)
      BY <3>2, Cut
    <3> QED BY <3>1, <3>3 DEF Data
  <2>4. /\ pc[c] = "recv" /\ pc' = [pc EXCEPT ![c] = "deliver"]
        /\ UNCHANGED <<listening, state, outq, peer, sent, said, shut, eval_lock, program,
                       evaluations, heard, told>>
    BY <1>1 DEF Recv
  <2>5. Typed'
    BY <2>1, <2>3, <2>4
  <2>6. TypeOK'
    BY <2>1, <2>3, <2>4 DEF TypeOK
  <2> QED BY <2>4, <2>5, <2>6 DEF WritersRun, Inside
<1>2. CASE DataArrived(c)
  <2>1. /\ pc[c] = "deliver" /\ pc' = [pc EXCEPT ![c] = "handling"]
        /\ eval_lock = None /\ eval_lock' = c
        /\ heard' = [heard EXCEPT ![c] = @ \o Decoded(buffer[c])]
        /\ buffer' = [buffer EXCEPT ![c] = <<>>]
        /\ UNCHANGED <<listening, state, network, shut, program, evaluations, told>>
    BY <1>2 DEF DataArrived
  <2>2. Decoded(buffer[c]) \in Data
    BY <1>0 DEF Decoded
  <2>3. heard[c] \o Decoded(buffer[c]) \in Data
    BY <2>2, Joined
  <2>4. Len(<<>>) <= Chunk
    BY EmptySeq
  <2>5. Typed'
    BY <1>0, <2>1, <2>3
  <2>6. TypeOK'
    BY <2>1, <2>4 DEF TypeOK
  <2> QED BY <2>1, <2>5, <2>6 DEF WritersRun, Inside
<1> QED BY <1>1, <1>2

LEMMA SpeechByte ==
  ASSUME Shape, NEW c \in Conns, PeerSends(c), NEW b, b = Speech[Len(sent[c]) + 1]
  PROVE  /\ b \in Bytes /\ <<b>> \in Data
         /\ \A s \in Data : Append(s, b) \in Data /\ Append(s, b) = s \o <<b>>
<1>1. Len(sent[c]) \in Nat /\ Len(Speech) \in Nat
  BY SocketsAssumption, LenProperties DEF Shape, Typed, Data
<1>4. Len(sent[c]) < Len(Speech)
  BY DEF PeerSends
<1>2. Len(sent[c]) + 1 \in 1 .. Len(Speech)
  BY <1>1, <1>4
<1>3. b \in Bytes
  BY <1>2, SocketsAssumption, ElementOfSeq
<1> QED BY <1>3, AppendProperties, AppendIsConcat DEF Data

LEMMA PeersShape ==
  ASSUME Shape, NEW c \in Conns,
         PeerConnects(c) \/ PeerReads(c) \/ PeerCloses(c) \/ Breaks(c) \/ PeerSends(c)
  PROVE  Shape'
<1> USE SocketsAssumption DEF Shape, Typed, Runners, ConnLabels, network, program
<1>0. <<>> \in Data /\ Len(<<>>) = 0
  BY EmptySeq DEF Data
<1>1. CASE PeerConnects(c)
  BY <1>1 DEF PeerConnects, TypeOK, WritersRun
<1>2. CASE PeerReads(c)
  <2>1. /\ outq' = [outq EXCEPT ![c] = Tail(@)]
        /\ UNCHANGED <<listening, state, inq, peer, sent, said, shut, pc, buffer, eval_lock, program,
                       evaluations, heard, told>>
    BY <1>2 DEF PeerReads
  <2>2. Tail(outq[c]) \in Data /\ Len(Tail(outq[c])) <= Capacity
    <3>1. outq[c] # <<>> /\ outq[c] \in Seq(Bytes) /\ Len(outq[c]) <= Capacity
      BY <1>2 DEF PeerReads, TypeOK, Data
    <3>2. Tail(outq[c]) \in Seq(Bytes) /\ Len(Tail(outq[c])) = Len(outq[c]) - 1
      BY <3>1, HeadTailProperties
    <3>3. Len(outq[c]) \in Nat
      BY <3>1, LenProperties
    <3> QED BY <3>1, <3>2, <3>3 DEF Data
  <2>3. Typed'
    BY <2>1, <2>2
  <2>4. TypeOK'
    BY <2>1, <2>2 DEF TypeOK
  <2> QED BY <2>1, <2>3, <2>4 DEF WritersRun
<1>3. CASE PeerCloses(c)
  BY <1>3 DEF PeerCloses, TypeOK, WritersRun
<1>4. CASE Breaks(c)
  <2>1. /\ peer' = [peer EXCEPT ![c] = "broken"]
        /\ outq' = [outq EXCEPT ![c] = <<>>]
        /\ inq' \in {inq, [inq EXCEPT ![c] = <<>>]}
        /\ UNCHANGED <<listening, state, sent, said, shut, pc, buffer, eval_lock, program, evaluations,
                       heard, told>>
    BY <1>4 DEF Breaks
  <2>4. inq' \in [Conns -> Data]
    BY <1>0, <2>1
  <2>2. Typed'
    BY <1>0, <2>1, <2>4
  <2>3. TypeOK'
    BY <1>0, <2>1 DEF TypeOK
  <2> QED BY <2>1, <2>2, <2>3 DEF WritersRun
<1>5. CASE PeerSends(c)
  <2>1. /\ sent' = [sent EXCEPT ![c] = Append(@, Speech[Len(@) + 1])]
        /\ inq' = [inq EXCEPT ![c] = Append(@, Speech[Len(sent[c]) + 1])]
        /\ Len(sent[c]) < Len(Speech)
        /\ UNCHANGED <<listening, state, outq, peer, said, shut, pc, buffer, eval_lock, program,
                       evaluations, heard, told>>
    BY <1>5 DEF PeerSends
  <2>2. Speech[Len(sent[c]) + 1] \in Bytes
    <3>1. Len(sent[c]) \in Nat /\ Len(Speech) \in Nat
      BY LenProperties DEF Data
    <3>2. Len(sent[c]) + 1 \in 1 .. Len(Speech)
      BY <2>1, <3>1
    <3> QED BY <3>2, ElementOfSeq
  <2>3. /\ Append(sent[c], Speech[Len(sent[c]) + 1]) \in Data
        /\ Append(inq[c], Speech[Len(sent[c]) + 1]) \in Data
    BY <2>2, AppendProperties DEF Data
  <2>4. Typed'
    BY <2>1, <2>3
  <2>5. TypeOK'
    BY <2>1 DEF TypeOK
  <2> QED BY <2>1, <2>4, <2>5 DEF WritersRun
<1> QED BY <1>1, <1>2, <1>3, <1>4, <1>5

LEMMA ShapeStays == Shape /\ [Next]_vars => Shape'
<1> SUFFICES ASSUME Shape, [Next]_vars PROVE Shape'
  OBVIOUS
<1>1. CASE Evaluate \/ EndEvaluate
  BY <1>1, LocksShape
<1>2. ASSUME NEW r \in Runners, Call(r) \/ Writing(r) \/ WriteRefused(r) PROVE Shape'
  BY <1>2, CallsShape, WritesShape DEF Call, Writing
<1>3. ASSUME NEW c \in Conns, Thread(c) PROVE Shape'
  BY <1>3, LocksShape, ReceivesShape DEF Thread
<1>4. ASSUME NEW c \in Conns,
             PeerConnects(c) \/ PeerReads(c) \/ PeerCloses(c) \/ Breaks(c) \/ PeerSends(c)
      PROVE  Shape'
  BY <1>4, PeersShape
<1>5. CASE UNCHANGED vars
  BY <1>5 DEF vars, network, program, Shape, Typed, TypeOK, WritersRun
<1> QED BY <1>1, <1>2, <1>3, <1>4, <1>5 DEF Next

(* Every thread is at a place that fits its socket, and JavaScript runs    *)
(* under eval_lock, but for that of a function of -m.                      *)
THEOREM SocketTypes == Spec => []TypeOK
<1>1. Shape => TypeOK
  BY DEF Shape
<1> QED BY <1>1, ShapeStarts, ShapeStays, PTL DEF Spec
-----------------------------------------------------------------------------
(* Conversation *)

(* Where the bytes are that a peer has sent: what is lost is lost by a     *)
(* break.                                                                  *)
Gone(c, lost) == /\ sent[c] = heard[c] \o (buffer[c] \o (inq[c] \o lost))
                 /\ peer[c] # "broken" => lost = <<>>
Hears(c) == \E lost \in Data : Gone(c, lost)

(* Who has been told, and that there was something to tell.                *)
Tells(c) == /\ told[c] = IF pc[c] \in {"ending", "done"} THEN 1 ELSE 0
            /\ pc[c] \in {"final", "ending", "done"} => inq[c] = <<>> /\ (peer[c] # "open" \/ shut[c])

Listens == \A c \in Conns : Hears(c) /\ Tells(c)
Plain == MainLocks /\ Leads = {} /\ Trails = {}
SocketsInv == Shape /\ Listens

(* What is left to go out is the text of the one who runs JavaScript. *)
LEMMA Writers ==
  ASSUME Shape, MainLocks, NEW r \in Runners, pc[r] \in Inside, NEW q \in Runners, q # r
  PROVE  to[q] = None
BY DEF Shape, Typed, TypeOK, WritersRun, Inside, Runners

LEMMA IsInProgress ==
  ASSUME NEW c \in Conns, NEW r \in Runners, to[r] = c, \A q \in Runners \ {r} : to[q] # c
  PROVE  InProgress(c) = text[r]
<1>1. {q \in Runners : to[q] = c} = {r}
  OBVIOUS
<1>2. (CHOOSE q \in {r} : TRUE) = r
  OBVIOUS
<1> QED BY <1>1, <1>2 DEF InProgress

LEMMA NoneInProgress ==
  ASSUME NEW c \in Conns, \A q \in Runners : to[q] # c
  PROVE  InProgress(c) = <<>>
BY DEF InProgress

LEMMA ListensStarts == Init => Listens
<1> SUFFICES ASSUME Init, NEW c \in Conns PROVE Hears(c) /\ Tells(c)
  BY DEF Listens
<1> USE SocketsAssumption DEF Init, Runners
<1>1. <<>> \in Data /\ <<>> \o (<<>> \o (<<>> \o <<>>)) = <<>>
  BY EmptySeq, ConcatEmptySeq DEF Data
<1>2. Gone(c, <<>>)
  BY <1>1 DEF Gone
<1> QED BY <1>1, <1>2 DEF Hears, Tells

(* Steps that move no bytes, and take threads only from one place to       *)
(* another of the same kind.                                               *)
Quiet ==
  /\ UNCHANGED <<inq, peer, sent, heard, buffer, told>>
  /\ \A c \in Conns : /\ shut[c] => shut'[c]
                      /\ \/ pc'[c] = pc[c]
                         \/ pc[c] = "ending" /\ pc'[c] = "done"
                         \/ {pc[c], pc'[c]} \cap {"final", "ending", "done"} = {}

LEMMA ListensOn == ASSUME Listens, Quiet PROVE Listens'
<1> SUFFICES ASSUME NEW c \in Conns PROVE Hears(c)' /\ Tells(c)'
  BY DEF Listens
<1>1. Hears(c) /\ Tells(c)
  BY DEF Listens
<1>2. Hears(c)'
  <2>1. PICK lost \in Data : Gone(c, lost)
    BY <1>1 DEF Hears
  <2>2. Gone(c, lost)'
    BY <2>1 DEF Gone, Quiet
  <2> QED BY <2>2 DEF Hears
<1>3. Tells(c)'
  BY <1>1 DEF Tells, Quiet
<1> QED BY <1>2, <1>3

LEMMA CallsListen ==
  ASSUME Typed, Listens, NEW r \in Runners, Call(r) \/ Writing(r) \/ WriteRefused(r)
  PROVE  Listens'
<1> USE DEF Typed, Runners, Goes, network, program, Quiet
<1>1. CASE Listen(r)
  <2>1. Quiet
    BY <1>1 DEF Listen
  <2> QED BY <2>1, ListensOn
<1>2. ASSUME NEW c \in Conns, Connect(r, c) PROVE Listens'
  <2>1. PICK l \in {"recv", "unserved"} : pc[c] = "none" /\ pc' = [pc EXCEPT ![c] = l]
    BY <1>2 DEF Connect
  <2>2. Quiet
    BY <1>2, <2>1 DEF Connect
  <2> QED BY <2>2, ListensOn
<1>3. ASSUME NEW c \in Conns, CallClose(r, c) PROVE Listens'
  <2>1. Quiet
    BY <1>3 DEF CallClose
  <2> QED BY <2>1, ListensOn
<1>4. ASSUME NEW c \in Conns, NEW t \in Texts, CallWrite(r, c, t) PROVE Listens'
  <2>1. Quiet
    BY <1>4 DEF CallWrite
  <2> QED BY <2>1, ListensOn
<1>5. CASE Put(r)
  <2>1. Quiet
    BY <1>5 DEF Put
  <2> QED BY <2>1, ListensOn
<1>6. CASE WriteReturns(r)
  <2>1. Quiet
    BY <1>6 DEF WriteReturns
  <2> QED BY <2>1, ListensOn
<1> QED BY <1>1, <1>2, <1>3, <1>4, <1>5, <1>6 DEF Call, Writing, WriteFails, WriteRefused

LEMMA ThreadsListen ==
  ASSUME Shape, Listens, Plain, NEW c \in Conns, Thread(c)
  PROVE  Listens'
<1>0. Typed /\ TypeOK
  BY DEF Shape
<1> USE <1>0 DEF Typed, Runners, Goes, network, program
<1>1. CASE Accept(c)
  <2>1. PICK l \in {"accept", "unserved"} : pc[c] = "none" /\ pc' = [pc EXCEPT ![c] = l]
    BY <1>1 DEF Accept
  <2>2. Quiet
    BY <1>1, <2>1 DEF Accept, Quiet
  <2> QED BY <2>2, ListensOn
<1>2. CASE CallAccepted(c)
  <2>1. Quiet
    BY <1>2 DEF CallAccepted, Quiet
  <2> QED BY <2>1, ListensOn
<1>3. CASE HandlerEnds(c)
  <2>1. UNCHANGED <<inq, peer, sent, heard, buffer, told, shut>>
    BY <1>3 DEF HandlerEnds
  <2>2. PICK l \in {"recv", "done"} :
           /\ pc' = [pc EXCEPT ![c] = l]
           /\ pc[c] \in IF l = "done" THEN {"ending"} ELSE {"accepting", "handling"}
    BY <1>3 DEF HandlerEnds
  <2>3. Quiet
    BY <2>1, <2>2 DEF Quiet
  <2> QED BY <2>3, ListensOn
<1>4. CASE Recv(c)
  <2>1. PICK n \in 1 .. Len(inq[c]) : /\ buffer' = [buffer EXCEPT ![c] = SubSeq(inq[c], 1, n)]
                                      /\ inq' = [inq EXCEPT ![c] = Drop(@, n)]
    BY <1>4 DEF Recv
  <2>2. /\ pc[c] = "recv" /\ pc' = [pc EXCEPT ![c] = "deliver"]
        /\ UNCHANGED <<peer, sent, shut, heard, told>>
    BY <1>4 DEF Recv
  <2>3. buffer[c] = <<>>
    BY <2>2 DEF TypeOK
  <2>4. n \in 0 .. Len(inq[c]) /\ inq[c] \in Data
    BY LenProperties DEF Data
  <2>5. SubSeq(inq[c], 1, n) \o Drop(inq[c], n) = inq[c] /\ SubSeq(inq[c], 1, n) \in Data /\ Drop(inq[c], n) \in Data
    BY <2>4, Cut DEF Data
  <2>6. Hears(c)'
    <3>1. PICK lost \in Data : Gone(c, lost)
      BY DEF Listens, Hears
    <3>2. <<>> \o (inq[c] \o lost) = inq[c] \o lost
      BY <2>4, Joined, ConcatEmptySeq DEF Data
    <3>3. (SubSeq(inq[c], 1, n) \o Drop(inq[c], n)) \o lost = SubSeq(inq[c], 1, n) \o (Drop(inq[c], n) \o lost)
      BY <2>5, Associative
    <3>4. Gone(c, lost)'
      BY <2>1, <2>2, <2>3, <2>5, <3>1, <3>2, <3>3 DEF Gone
    <3> QED BY <3>4 DEF Hears
  <2>7. ASSUME NEW d \in Conns, d # c PROVE Hears(d)'
    BY <2>1, <2>2, <2>7 DEF Listens, Hears, Gone
  <2>8. ASSUME NEW d \in Conns PROVE Tells(d)'
    BY <2>1, <2>2 DEF Listens, Tells
  <2> QED BY <2>6, <2>7, <2>8 DEF Listens
<1>5. CASE RecvEnds(c)
  <2>1. /\ pc[c] = "recv" /\ pc' = [pc EXCEPT ![c] = "final"]
        /\ inq[c] = <<>> /\ (peer[c] # "open" \/ shut[c])
        /\ UNCHANGED <<inq, peer, sent, heard, buffer, told, shut>>
    BY <1>5 DEF RecvEnds
  <2>2. ASSUME NEW d \in Conns PROVE Hears(d)'
    BY <2>1 DEF Listens, Hears, Gone
  <2>3. ASSUME NEW d \in Conns PROVE Tells(d)'
    BY <2>1 DEF Listens, Tells
  <2> QED BY <2>2, <2>3 DEF Listens
<1>6. CASE DataArrived(c)
  <2>1. /\ pc[c] = "deliver" /\ pc' = [pc EXCEPT ![c] = "handling"]
        /\ heard' = [heard EXCEPT ![c] = @ \o Decoded(buffer[c])]
        /\ buffer' = [buffer EXCEPT ![c] = <<>>]
        /\ UNCHANGED <<inq, peer, sent, shut, told>>
    BY <1>6 DEF DataArrived
  <2>2. Decoded(buffer[c]) = buffer[c]
    BY DEF Decoded, Plain
  <2>3. Hears(c)'
    <3>1. PICK lost \in Data : Gone(c, lost)
      BY DEF Listens, Hears
    <3>2. inq[c] \o lost \in Data /\ heard[c] \in Data /\ buffer[c] \in Data
      BY Joined
    <3>3. (heard[c] \o buffer[c]) \o (inq[c] \o lost) = heard[c] \o (buffer[c] \o (inq[c] \o lost))
      BY <3>2, Associative
    <3>4. <<>> \o (inq[c] \o lost) = inq[c] \o lost
      BY <3>2, ConcatEmptySeq DEF Data
    <3>5. Gone(c, lost)'
      BY <2>1, <2>2, <3>1, <3>3, <3>4 DEF Gone
    <3> QED BY <3>5 DEF Hears
  <2>4. ASSUME NEW d \in Conns, d # c PROVE Hears(d)'
    BY <2>1, <2>4 DEF Listens, Hears, Gone
  <2>5. ASSUME NEW d \in Conns PROVE Tells(d)'
    BY <2>1 DEF Listens, Tells
  <2> QED BY <2>3, <2>4, <2>5 DEF Listens
<1>7. CASE SocketClosed(c)
  <2>1. /\ pc[c] = "final" /\ pc' = [pc EXCEPT ![c] = "ending"]
        /\ told' = [told EXCEPT ![c] = @ + 1]
        /\ UNCHANGED <<inq, peer, sent, shut, heard, buffer>>
    BY <1>7 DEF SocketClosed
  <2>2. ASSUME NEW d \in Conns PROVE Hears(d)'
    BY <2>1 DEF Listens, Hears, Gone
  <2>3. ASSUME NEW d \in Conns PROVE Tells(d)'
    BY <2>1 DEF Listens, Tells
  <2> QED BY <2>2, <2>3 DEF Listens
<1> QED BY <1>1, <1>2, <1>3, <1>4, <1>5, <1>6, <1>7 DEF Thread

LEMMA PeersListen ==
  ASSUME Shape, Listens, NEW c \in Conns,
         PeerConnects(c) \/ PeerReads(c) \/ PeerCloses(c) \/ Breaks(c) \/ PeerSends(c)
  PROVE  Listens'
<1>0. Typed
  BY DEF Shape
<1>5. \A x \in Data :
        (heard[c] \o (buffer[c] \o inq[c])) \o x = heard[c] \o (buffer[c] \o (inq[c] \o x))
  <2>1. heard[c] \in Data /\ buffer[c] \in Data /\ inq[c] \in Data
    BY <1>0 DEF Typed
  <2>2. PICK h \in Data, b \in Data, i \in Data : h = heard[c] /\ b = buffer[c] /\ i = inq[c]
    BY <2>1
  <2>3. \A x \in Data : (h \o (b \o i)) \o x = h \o (b \o (i \o x))
    <3>1. PICK w \in Data : w = b \o i
      BY ConcatProperties DEF Data
    <3>2. \A x \in Data : (h \o w) \o x = h \o (w \o x)
      BY Associative
    <3>3. \A x \in Data : w \o x = b \o (i \o x)
      BY <3>1, Associative
    <3> QED BY <3>1, <3>2, <3>3
  <2> QED BY <2>2, <2>3
<1> USE <1>0 DEF Typed, Runners, network, program
<1>1. CASE PeerConnects(c) \/ PeerReads(c)
  <2>1. Quiet
    BY <1>1 DEF PeerConnects, PeerReads, Quiet
  <2> QED BY <2>1, ListensOn
<1>2. CASE PeerCloses(c)
  <2>1. /\ peer[c] = "open" /\ peer' = [peer EXCEPT ![c] = "closed"]
        /\ UNCHANGED <<inq, sent, shut, pc, buffer, heard, told>>
    BY <1>2 DEF PeerCloses
  <2>2. ASSUME NEW d \in Conns PROVE Hears(d)'
    BY <2>1 DEF Listens, Hears, Gone
  <2>3. ASSUME NEW d \in Conns PROVE Tells(d)'
    BY <2>1 DEF Listens, Tells
  <2> QED BY <2>2, <2>3 DEF Listens
<1>3. CASE Breaks(c)
  <2>1. /\ peer' = [peer EXCEPT ![c] = "broken"]
        /\ UNCHANGED <<sent, shut, pc, buffer, heard, told>>
    BY <1>3 DEF Breaks
  <2>2. inq' = inq \/ inq' = [inq EXCEPT ![c] = <<>>]
    BY <1>3 DEF Breaks
  <2>3. Hears(c)'
    <3>1. PICK lost \in Data : Gone(c, lost)
      BY DEF Listens, Hears
    <3>2. CASE inq' = inq
      BY <2>1, <3>1, <3>2 DEF Hears, Gone
    <3>3. CASE inq' = [inq EXCEPT ![c] = <<>>]
      <4>1. PICK more \in Data : more = inq[c] \o lost
        BY Joined
      <4>2. <<>> \o more = more
        BY ConcatEmptySeq DEF Data
      <4>3. /\ sent'[c] = sent[c] /\ heard'[c] = heard[c] /\ buffer'[c] = buffer[c]
            /\ inq'[c] = <<>> /\ peer'[c] = "broken"
        BY <2>1, <3>3
      <4>4. Gone(c, more)'
        BY <3>1, <4>1, <4>2, <4>3 DEF Gone
      <4> QED BY <4>4 DEF Hears
    <3> QED BY <2>2, <3>2, <3>3
  <2>4. ASSUME NEW d \in Conns, d # c PROVE Hears(d)'
    BY <2>1, <2>2, <2>4 DEF Listens, Hears, Gone
  <2>5. ASSUME NEW d \in Conns PROVE Tells(d)'
    BY <2>1, <2>2 DEF Listens, Tells
  <2> QED BY <2>3, <2>4, <2>5 DEF Listens
<1>4. CASE PeerSends(c)
  <2> DEFINE b == Speech[Len(sent[c]) + 1]
  <2>1. /\ sent' = [sent EXCEPT ![c] = Append(@, b)]
        /\ inq' = [inq EXCEPT ![c] = Append(@, b)]
        /\ peer[c] = "open" /\ ~shut[c]
        /\ UNCHANGED <<peer, shut, pc, buffer, heard, told>>
    BY <1>4 DEF PeerSends
  <2>2. Hears(c)'
    <3>1. PICK lost \in Data : Gone(c, lost)
      BY DEF Listens, Hears
    <3>2. lost = <<>>
      BY <2>1, <3>1 DEF Gone
    <3>3. inq[c] \o <<>> = inq[c] /\ <<>> \in Data
      BY ConcatEmptySeq, EmptySeq DEF Data
    <3>4. sent[c] = heard[c] \o (buffer[c] \o inq[c])
      BY <3>1, <3>2, <3>3 DEF Gone
    <3>5. /\ Append(sent[c], b) \in Data
          /\ Append(sent[c], b) = heard[c] \o (buffer[c] \o (Append(inq[c], b) \o <<>>))
      <4>1. <<b>> \in Data /\ Append(inq[c], b) \in Data /\ Append(sent[c], b) \in Data
        BY <1>4, SpeechByte
      <4>2. Append(sent[c], b) = sent[c] \o <<b>> /\ Append(inq[c], b) = inq[c] \o <<b>>
        BY <1>4, SpeechByte
      <4>6. Append(inq[c], b) \o <<>> = Append(inq[c], b)
        BY <4>1, ConcatEmptySeq DEF Data
      <4>7. (heard[c] \o (buffer[c] \o inq[c])) \o <<b>> = heard[c] \o (buffer[c] \o (inq[c] \o <<b>>))
        BY <1>5, <4>1
      <4> QED BY <3>4, <4>1, <4>2, <4>6, <4>7
    <3>6. Gone(c, <<>>)'
      BY <2>1, <3>5 DEF Gone
    <3> QED BY <3>3, <3>6 DEF Hears
  <2>3. ASSUME NEW d \in Conns, d # c PROVE Hears(d)'
    BY <2>1, <2>3 DEF Listens, Hears, Gone
  <2>4. ASSUME NEW d \in Conns PROVE Tells(d)'
    BY <2>1 DEF Listens, Tells
  <2> QED BY <2>2, <2>3, <2>4 DEF Listens
<1> QED BY <1>1, <1>2, <1>3, <1>4

LEMMA ListensStays == SocketsInv /\ Plain /\ [Next]_vars => Listens'
<1> SUFFICES ASSUME SocketsInv, Plain, [Next]_vars PROVE Listens'
  OBVIOUS
<1>0. Shape /\ Typed /\ Listens
  BY DEF SocketsInv, Shape
<1>1. CASE Evaluate \/ EndEvaluate
  <2>1. Quiet
    BY <1>0, <1>1, SocketsAssumption
       DEF Evaluate, EndEvaluate, Goes, Quiet, Typed, Runners, network
  <2> QED BY <1>0, <2>1, ListensOn
<1>2. ASSUME NEW r \in Runners, Call(r) \/ Writing(r) \/ WriteRefused(r) PROVE Listens'
  BY <1>0, <1>2, CallsListen
<1>3. ASSUME NEW c \in Conns, Thread(c) PROVE Listens'
  BY <1>0, <1>3, ThreadsListen
<1>4. ASSUME NEW c \in Conns,
             PeerConnects(c) \/ PeerReads(c) \/ PeerCloses(c) \/ Breaks(c) \/ PeerSends(c)
      PROVE  Listens'
  BY <1>0, <1>4, PeersListen
<1>5. CASE UNCHANGED vars
  <2>1. Quiet
    BY <1>5 DEF vars, network, Quiet
  <2> QED BY <1>0, <2>1, ListensOn
<1> QED BY <1>1, <1>2, <1>3, <1>4, <1>5 DEF Next
-----------------------------------------------------------------------------
(* Each step is one of Conversation, or none. *)
Talks == [Promise!Next]_Promise!conversation

LEMMA Same ==
  /\ UNCHANGED <<peer, shut>> => UNCHANGED [c \in Conns |-> Closed(c)]
  /\ UNCHANGED told => UNCHANGED [c \in Conns |-> told[c] > 0]
  /\ UNCHANGED <<to, text>> => UNCHANGED [c \in Conns |-> InProgress(c)]
<1>1. ASSUME UNCHANGED <<peer, shut>> PROVE UNCHANGED [c \in Conns |-> Closed(c)]
  <2>1. peer' = peer /\ shut' = shut
    BY <1>1
  <2> QED BY <2>1, Zenon DEF Closed
<1>2. ASSUME UNCHANGED told PROVE UNCHANGED [c \in Conns |-> told[c] > 0]
  BY <1>2, Zenon
<1>3. ASSUME UNCHANGED <<to, text>> PROVE UNCHANGED [c \in Conns |-> InProgress(c)]
  <2>1. to' = to /\ text' = text
    BY <1>3
  <2>2. \A c \in Conns : InProgress(c)' = InProgress(c)
    BY <2>1 DEF InProgress
  <2> QED BY <2>2, Zenon
<1> QED BY <1>1, <1>2, <1>3

LEMMA Stutters ==
  ASSUME UNCHANGED <<sent, heard, peer, shut, told, to, text, said>>
  PROVE  Talks
BY Same DEF Talks, Promise!conversation

LEMMA WritesTalk ==
  ASSUME Shape, Plain, NEW r \in Runners,
         \/ \E c \in Conns, t \in Texts : CallWrite(r, c, t)
         \/ Put(r) \/ WriteFails(r) \/ WriteRefused(r)
  PROVE  Talks
<1>0. Typed /\ TypeOK /\ WritersRun
  BY DEF Shape
<1>1. ASSUME NEW c \in Conns, NEW t \in Texts, CallWrite(r, c, t) PROVE Talks
  <2>1. /\ to' = [to EXCEPT ![r] = IF t = <<>> THEN None ELSE c] /\ text' = [text EXCEPT ![r] = t]
        /\ UNCHANGED <<sent, heard, peer, shut, told, said>>
        /\ to[r] = None /\ pc[r] \in Inside
    BY <1>1 DEF CallWrite, Running, network, Inside
  <2>2. text[r] = <<>>
    BY <1>0, <2>1 DEF TypeOK
  <2>3. CASE t = <<>>
    <3>1. to' = to /\ text' = text
      BY <1>0, <2>1, <2>2, <2>3 DEF Typed
    <3> QED BY <2>1, <3>1, Stutters
  <2>4. CASE t # <<>>
    <3>1. \A q \in Runners : to[q] = None
      BY <1>0, <2>1, Writers DEF Plain
    <3>2. \A d \in Conns : InProgress(d) = <<>>
      BY <3>1, NoneInProgress, SocketsAssumption
    <3>3. to'[r] = c /\ text'[r] = t /\ \A q \in Runners \ {r} : to'[q] = None
      BY <1>0, <2>1, <2>4, <3>1 DEF Typed
    <3>4. InProgress(c)' = t
      <4>1. {q \in Runners : to'[q] = c} = {r}
        BY <3>3, SocketsAssumption
      <4> QED BY <3>3, <4>1 DEF InProgress
    <3>5. ASSUME NEW d \in Conns, d # c PROVE InProgress(d)' = <<>>
      <4>1. {q \in Runners : to'[q] = d} = {}
        BY <3>3, <3>5, SocketsAssumption
      <4> QED BY <4>1 DEF InProgress
    <3>6. Promise!Write(c)
      <4>1. [d \in Conns |-> InProgress(d)]' = [[d \in Conns |-> InProgress(d)] EXCEPT ![c] = t]
        BY <3>4, <3>5, <3>2
      <4>2. [d \in Conns |-> InProgress(d)][c] = <<>>
        BY <3>2
      <4>3. UNCHANGED <<sent, heard, [d \in Conns |-> Closed(d)], [d \in Conns |-> told[d] > 0],
                        said>>
        BY <2>1, Same
      <4> QED BY <4>1, <4>2, <4>3, Zenon DEF Promise!Write
    <3> QED BY <3>6 DEF Talks, Promise!Next
  <2> QED BY <2>3, <2>4
<1>2. ASSUME to[r] # None
      PROVE  /\ to[r] \in Conns /\ \A q \in Runners \ {r} : to[q] = None
             /\ InProgress(to[r]) = text[r] /\ \A d \in Conns \ {to[r]} : InProgress(d) = <<>>
  <2>1. to[r] \in Conns /\ pc[r] \in Inside
    BY <1>0, <1>2 DEF Typed, WritersRun
  <2>2. \A q \in Runners \ {r} : to[q] = None
    BY <2>1, Writers DEF Plain
  <2>3. InProgress(to[r]) = text[r]
    BY <1>2, <2>1, <2>2, IsInProgress
  <2>4. \A d \in Conns \ {to[r]} : InProgress(d) = <<>>
    BY <2>1, <2>2, NoneInProgress, SocketsAssumption
  <2> QED BY <2>1, <2>2, <2>3, <2>4
<1>3. CASE Put(r)
  <2>0. to[r] # None
    BY <1>3 DEF Put
  <2>1. PICK c \in Conns : c = to[r]
    BY <1>2, <2>0
  <2>2. PICK n \in 1 .. Len(text[r]) :
          /\ said' = [said EXCEPT ![c] = @ \o SubSeq(text[r], 1, n)]
          /\ text' = [text EXCEPT ![r] = Drop(@, n)]
          /\ to' = [to EXCEPT ![r] = IF n = Len(text[r]) THEN None ELSE c]
    BY <1>3, <2>1 DEF Put
  <2>3. UNCHANGED <<sent, heard, peer, shut, told>>
    BY <1>3 DEF Put
  <2>4. InProgress(c)' = Drop(text[r], n)
    <3>1. CASE n = Len(text[r])
      <4>1. {q \in Runners : to'[q] = c} = {}
        BY <1>0, <1>2, <2>0, <2>2, <3>1, SocketsAssumption DEF Typed
      <4>2. Drop(text[r], n) = <<>>
        <5>1. Len(text[r]) \in Nat
          BY <1>0, LenProperties DEF Typed, Data
        <5> QED BY <3>1, <5>1, SubSeqEmpty DEF Drop
      <4> QED BY <4>1, <4>2 DEF InProgress
    <3>2. CASE n # Len(text[r])
      <4>1. {q \in Runners : to'[q] = c} = {r}
        BY <1>0, <1>2, <2>0, <2>2, <3>2, SocketsAssumption, SMTT(30) DEF Typed
      <4>2. text'[r] = Drop(text[r], n)
        BY <1>0, <2>2 DEF Typed
      <4> QED BY <4>1, <4>2 DEF InProgress
    <3> QED BY <3>1, <3>2
  <2>5. ASSUME NEW d \in Conns, d # c PROVE InProgress(d)' = <<>>
    <3>1. {q \in Runners : to'[q] = d} = {}
      BY <1>0, <1>2, <2>0, <2>2, <2>5, SocketsAssumption DEF Typed
    <3> QED BY <3>1 DEF InProgress
  <2>6. InProgress(c) = text[r] /\ \A d \in Conns \ {c} : InProgress(d) = <<>>
    BY <1>2, <2>0, <2>1
  <2>7. Promise!GoOut(c)
    <3>1. [d \in Conns |-> InProgress(d)]' =
            [[d \in Conns |-> InProgress(d)] EXCEPT ![c] = SubSeq(@, n + 1, Len(@))]
      BY <2>4, <2>5, <2>6 DEF Drop
    <3>2. [d \in Conns |-> InProgress(d)][c] = text[r]
      BY <2>6
    <3> QED BY <2>2, <2>3, <3>1, <3>2, Same DEF Promise!GoOut
  <2> QED BY <2>7 DEF Talks, Promise!Next
<1>4. CASE WriteFails(r) \/ WriteRefused(r)
  <2>0. /\ to[r] # None
        /\ to' = [to EXCEPT ![r] = None]
        /\ UNCHANGED <<sent, heard, peer, shut, told, said>>
    BY <1>4 DEF WriteFails, WriteRefused, WriteReturns, network
  <2>1. PICK c \in Conns : c = to[r]
    BY <1>2, <2>0
  <2>2. \A q \in Runners : to'[q] = None
    BY <1>0, <1>2, <2>0 DEF Typed
  <2>3. ASSUME NEW d \in Conns PROVE InProgress(d)' = <<>>
    <3>1. {q \in Runners : to'[q] = d} = {}
      BY <2>2, SocketsAssumption
    <3> QED BY <3>1 DEF InProgress
  <2>4. \A d \in Conns \ {c} : InProgress(d) = <<>>
    BY <1>2, <2>0, <2>1
  <2>5. Promise!Fail(c)
    BY <2>0, <2>3, <2>4, Same DEF Promise!Fail
  <2> QED BY <2>5 DEF Talks, Promise!Next
<1> QED BY <1>1, <1>3, <1>4

LEMMA ThreadsTalk ==
  ASSUME SocketsInv, Plain, NEW c \in Conns, Thread(c)
  PROVE  Talks
<1>0. Typed /\ TypeOK /\ Hears(c) /\ Tells(c)
  BY DEF SocketsInv, Shape, Listens
<1> USE DEF network, program
<1>1. CASE Accept(c) \/ CallAccepted(c) \/ Recv(c) \/ RecvEnds(c) \/ HandlerEnds(c)
  <2>1. UNCHANGED <<sent, heard, peer, shut, told, to, text, said>>
    BY <1>1 DEF Accept, CallAccepted, Recv, RecvEnds, HandlerEnds
  <2> QED BY <2>1, Stutters
<1>2. CASE DataArrived(c)
  <2>1. /\ pc[c] = "deliver"
        /\ heard' = [heard EXCEPT ![c] = @ \o buffer[c]]
        /\ UNCHANGED <<sent, peer, shut, told, to, text, said>>
    BY <1>2 DEF DataArrived, Decoded, Plain, Goes
  <2>2. ~(told[c] > 0) /\ buffer[c] # <<>>
    BY <1>0, <2>1 DEF Tells, TypeOK
  <2>3. PICK lost \in Data : Gone(c, lost)
    BY <1>0 DEF Hears
  <2>4. PICK ahead \in Data : ahead = inq[c] \o lost
    BY <1>0, Joined DEF Typed
  <2>5. /\ heard[c] \in Data /\ buffer[c] \in Data /\ sent[c] = heard[c] \o (buffer[c] \o ahead)
        /\ heard[c] \o buffer[c] \in Data
    BY <1>0, <2>3, <2>4, Joined DEF Typed, Gone
  <2>6. sent[c] = (heard[c] \o buffer[c]) \o ahead
    <3>1. PICK h \in Data, b \in Data : h = heard[c] /\ b = buffer[c]
      BY <2>5
    <3>2. (h \o b) \o ahead = h \o (b \o ahead)
      BY Associative
    <3> QED BY <2>5, <3>1, <3>2
  <2>7. heard[c] \o buffer[c] = SubSeq(sent[c], 1, Len(heard[c] \o buffer[c]))
    BY <2>4, <2>5, <2>6, Beginning
  <2>8. Len(heard[c] \o buffer[c]) \in Len(heard[c]) + 1 .. Len(sent[c])
    <3>1. Len(heard[c]) \in Nat /\ Len(buffer[c]) \in Nat \ {0} /\ Len(ahead) \in Nat
      BY <2>2, <2>4, <2>5, LenProperties, EmptySeq DEF Data
    <3>2. Len(heard[c] \o buffer[c]) = Len(heard[c]) + Len(buffer[c])
      BY <2>5, Joined
    <3>3. Len(sent[c]) = Len(heard[c] \o buffer[c]) + Len(ahead)
      BY <2>4, <2>5, <2>6, Joined
    <3>4. \A h, b, a, j, l : /\ h \in Nat /\ b \in Nat \ {0} /\ a \in Nat
                             /\ j = h + b /\ l = j + a
                             => j \in h + 1 .. l
      OBVIOUS
    <3> QED BY <3>1, <3>2, <3>3, <3>4, Zenon
  <2>9. Promise!Hear(c)
    BY <2>1, <2>2, <2>7, <2>8, Same DEF Promise!Hear
  <2> QED BY <2>9 DEF Talks, Promise!Next
<1>3. CASE SocketClosed(c)
  <2>1. /\ pc[c] = "final"
        /\ told' = [told EXCEPT ![c] = @ + 1]
        /\ UNCHANGED <<sent, heard, peer, shut, to, text, said>>
    BY <1>3 DEF SocketClosed, Goes
  <2>2. told[c] = 0 /\ inq[c] = <<>> /\ (peer[c] # "open" \/ shut[c]) /\ buffer[c] = <<>>
    BY <1>0, <2>1 DEF Tells, TypeOK
  <2>3. Closed(c) # "no"
    BY <1>0, <2>2 DEF Closed, Typed
  <2>4. Closed(c) = "closed" => heard[c] = sent[c]
    <3>1. PICK lost \in Data : Gone(c, lost)
      BY <1>0 DEF Hears
    <3>2. peer[c] # "broken" => sent[c] = heard[c] \o (<<>> \o (<<>> \o <<>>))
      BY <2>2, <3>1 DEF Gone
    <3>3. heard[c] \o (<<>> \o (<<>> \o <<>>)) = heard[c]
      BY <1>0, ConcatEmptySeq, EmptySeq DEF Typed, Data
    <3> QED BY <3>2, <3>3 DEF Closed
  <2>5. [d \in Conns |-> told[d] > 0]' = [[d \in Conns |-> told[d] > 0] EXCEPT ![c] = TRUE]
    <3>1. told'[c] > 0 /\ \A d \in Conns : d # c => told'[d] = told[d]
      BY <1>0, <2>1, <2>2 DEF Typed
    <3> QED BY <3>1, Zenon
  <2>6. Promise!Tell(c)
    <3>1. /\ UNCHANGED sent /\ UNCHANGED heard /\ UNCHANGED said
          /\ UNCHANGED <<peer, shut>> /\ UNCHANGED <<to, text>>
          /\ ~(told[c] > 0)
      BY <2>1, <2>2
    <3>2. [d \in Conns |-> Closed(d)][c] = Closed(c)
      OBVIOUS
    <3>3. ~[d \in Conns |-> told[d] > 0][c]
      BY <3>1, Zenon
    <3>4. /\ UNCHANGED [d \in Conns |-> Closed(d)]
          /\ UNCHANGED [d \in Conns |-> InProgress(d)]
      BY <3>1, Same, Zenon
    <3>5. UNCHANGED <<sent, heard, [d \in Conns |-> Closed(d)],
                      [d \in Conns |-> InProgress(d)], said>>
      BY <3>1, <3>4
    <3> QED BY <2>3, <2>4, <2>5, <3>2, <3>3, <3>5, Zenon DEF Promise!Tell
  <2> QED BY <2>6 DEF Talks, Promise!Next
<1> QED BY <1>1, <1>2, <1>3 DEF Thread

LEMMA EndsTalk ==
  ASSUME Typed, NEW c \in Conns,
         \/ \E r \in Runners : CallClose(r, c)
         \/ PeerCloses(c) \/ Breaks(c)
  PROVE  Talks
<1>0. UNCHANGED <<sent, heard, told, to, text, said>>
  BY DEF CallClose, PeerCloses, Breaks, network, program
<1>1. \A d \in Conns \ {c} : Closed(d)' = Closed(d)
  BY DEF CallClose, PeerCloses, Breaks, network, Closed, Typed
<1>2. CASE Closed(c)' = Closed(c)
  <2>1. UNCHANGED [d \in Conns |-> Closed(d)]
    BY <1>1, <1>2
  <2> QED BY <1>0, <2>1, Same DEF Talks, Promise!conversation
<1>3. CASE Closed(c)' # Closed(c)
  <2>1. Closed(c)' = "broken" \/ (Closed(c) = "no" /\ Closed(c)' = "closed")
    BY <1>3 DEF CallClose, PeerCloses, Breaks, network, Closed, Typed
  <2>2. Promise!Close(c)
    BY <1>0, <1>1, <2>1, Same DEF Promise!Close
  <2> QED BY <2>2 DEF Talks, Promise!Next
<1> QED BY <1>2, <1>3

LEMMA PeersTalk ==
  ASSUME Shape, NEW c \in Conns, PeerConnects(c) \/ PeerReads(c) \/ PeerSends(c)
  PROVE  Talks
<1>1. CASE PeerConnects(c) \/ PeerReads(c)
  <2>1. UNCHANGED <<sent, heard, peer, shut, told, to, text, said>>
    BY <1>1 DEF PeerConnects, PeerReads, network, program
  <2> QED BY <2>1, Stutters
<1>2. CASE PeerSends(c)
  <2>1. PICK b : b = Speech[Len(sent[c]) + 1]
    OBVIOUS
  <2>2. b \in Bytes
    BY <1>2, <2>1, SpeechByte
  <2>3. /\ sent' = [sent EXCEPT ![c] = Append(@, b)]
        /\ peer[c] = "open" /\ ~shut[c]
        /\ UNCHANGED <<heard, peer, shut, told, to, text, said>>
    BY <1>2, <2>1 DEF PeerSends, program
  <2>4. Closed(c) = "no"
    BY <2>3 DEF Closed
  <2>5. Promise!Send(c, b)
    BY <2>3, <2>4, Same DEF Promise!Send
  <2> QED BY <2>2, <2>5 DEF Talks, Promise!Next
<1> QED BY <1>1, <1>2

LEMMA EveryStepTalks == SocketsInv /\ Plain /\ [Next]_vars => Talks
<1> SUFFICES ASSUME SocketsInv, Plain, [Next]_vars PROVE Talks
  OBVIOUS
<1>0. Shape /\ Typed
  BY DEF SocketsInv, Shape
<1>1. CASE Evaluate \/ EndEvaluate \/ \E r \in Runners : \/ Listen(r)
                                                         \/ \E c \in Conns : Connect(r, c)
  <2>1. UNCHANGED <<sent, heard, peer, shut, told, to, text, said>>
    BY <1>1 DEF Evaluate, EndEvaluate, Listen, Connect, network, program
  <2> QED BY <2>1, Stutters
<1>2. ASSUME NEW r \in Runners, NEW c \in Conns, CallClose(r, c) PROVE Talks
  BY <1>0, <1>2, EndsTalk
<1>3. ASSUME NEW r \in Runners,
             \/ \E c \in Conns, t \in Texts : CallWrite(r, c, t)
             \/ Put(r) \/ WriteFails(r) \/ WriteRefused(r)
      PROVE  Talks
  BY <1>0, <1>3, WritesTalk
<1>4. ASSUME NEW c \in Conns, Thread(c) PROVE Talks
  BY <1>4, ThreadsTalk
<1>5. ASSUME NEW c \in Conns, PeerCloses(c) \/ Breaks(c) PROVE Talks
  BY <1>0, <1>5, EndsTalk
<1>6. ASSUME NEW c \in Conns, PeerConnects(c) \/ PeerReads(c) \/ PeerSends(c) PROVE Talks
  BY <1>0, <1>6, PeersTalk
<1>7. CASE UNCHANGED vars
  <2>1. UNCHANGED <<sent, heard, peer, shut, told, to, text, said>>
    BY <1>7 DEF vars, network, program
  <2> QED BY <2>1, Stutters
<1> QED BY <1>1, <1>2, <1>3, <1>4, <1>5, <1>6, <1>7 DEF Next, Call, Writing

LEMMA ConversationStarts == Init => Promise!Init
<1> SUFFICES ASSUME Init PROVE Promise!Init
  OBVIOUS
<1>1. \A c \in Conns : InProgress(c) = <<>>
  BY NoneInProgress, SocketsAssumption DEF Init, Runners
<1>2. \A c \in Conns : Closed(c) = "no" /\ ~(told[c] > 0)
  BY DEF Init, Closed
<1>3. [c \in Conns |-> told[c] > 0] = [c \in Conns |-> FALSE]
  <2>1. \A c \in Conns : (told[c] > 0) = FALSE
    BY <1>2
  <2> QED BY <2>1, Zenon
<1>4. [c \in Conns |-> Closed(c)] = [c \in Conns |-> "no"]
  BY <1>2
<1>5. [c \in Conns |-> InProgress(c)] = [c \in Conns |-> <<>>]
  BY <1>1, Zenon
<1>6. sent = [c \in Conns |-> <<>>] /\ heard = [c \in Conns |-> <<>>]
      /\ said = [c \in Conns |-> <<>>]
  BY DEF Init
<1> QED BY <1>3, <1>4, <1>5, <1>6, Zenon DEF Promise!Init

(* Data handlers hear all that peers say, in order, and then the end, and  *)
(* texts go out whole, for any number of sockets, whatever is sent and     *)
(* written, in pieces of any size: the sockets implement Conversation.     *)
THEOREM SocketsKeepTheirPromise == ASSUME Plain PROVE Spec => KeepsPromise
<1>1. Init => SocketsInv /\ Promise!Init
  BY ShapeStarts, ListensStarts, ConversationStarts DEF SocketsInv
<1>2. SocketsInv /\ [Next]_vars => SocketsInv' /\ [Promise!Next]_Promise!conversation
  BY ShapeStays, ListensStays, EveryStepTalks DEF SocketsInv, Talks
<1> QED BY <1>1, <1>2, PTL DEF Spec, KeepsPromise, Promise!Spec
=============================================================================
